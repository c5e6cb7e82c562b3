------------------------- MODULE ColzaProviderProofs -------------------------
(* Theorems about ColzaProvider, for every value of its constants. *)
EXTENDS ColzaProvider, FiniteSetTheorems, TLAPS

LEMMA RequestFields ==
    ASSUME NEW r \in Requests
    PROVE  /\ r.op \in AllOps
           /\ r.name \in Names
           /\ r.iteration \in Iterations
           /\ r.auto \in BOOLEAN
BY DEF Requests

\* Wrapping arithmetic stays within the width of its type.
LEMMA Wrapping ==
    ASSUME NEW max \in Nat, NEW n \in 0..max
    PROVE  Increment(n, max) \in 0..max /\ Decrement(n, max) \in 0..max
BY DEF Increment, Decrement

------------------------------------------------------------------------------
(* Type correctness, one step per action. *)

LEMMA InitTyped == Init => TypeOK
<1> SUFFICES ASSUME Init PROVE TypeOK
  OBVIOUS
<1>1. m_pipelines \in [Names -> Objects \cup {NoObject}]
  BY BoundsNat DEF Init, Objects
<1>2. created \in [Names -> 0..MaxGeneration]
  BY BoundsNat DEF Init
<1>3. iteration \in [Objects -> Iterations] /\ m_num_active_pipelines \in Counts
  BY BoundsNat DEF Init, Iterations, Counts
<1>4. /\ pc \in [Handlers -> Pcs] /\ req \in [Handlers -> Requests \cup {NoRequest}]
      /\ obj \in [Handlers -> Objects \cup {NoObject}]
      /\ reply \in [Handlers -> Replies] /\ leaver \in [Leavers -> LeaverPcs]
  BY DEF Init, Pcs, Replies, LeaverPcs
<1>5. \A h \in Handlers : pc[h] = "idle"
  BY DEF Init
<1>6. \A h \in Handlers : ~InFlight(h) /\ pc[h] \notin HoldingPcs
  BY <1>5 DEF InFlight, At, HoldingPcs, StartPcs, ReleasingPcs, CallPcs
<1> QED
  BY <1>1, <1>2, <1>3, <1>4, <1>6 DEF Init, TypeOK

LEMMA AbortWriteTyped ==
    ASSUME TypeOK, NEW h \in Handlers, NEW other \in ReleasingPcs,
           AfterAbortWrite(h, other)
    PROVE  /\ m_num_active_pipelines' \in Counts
           /\ mtx' \in Handlers \cup {NoHandler}
           /\ reply' \in [Handlers -> Replies]
           /\ pc' \in [Handlers -> Pcs]
           /\ \A g \in Handlers : g # h => pc'[g] = pc[g]
<1>1. m_num_active_pipelines' \in Counts
  <2>1. Decrement(m_num_active_pipelines, MaxCount) \in Counts
    BY Wrapping, BoundsNat DEF TypeOK, Counts
  <2> QED
    BY <2>1 DEF TypeOK, AfterAbortWrite
<1>2. mtx' \in Handlers \cup {NoHandler} /\ reply' \in [Handlers -> Replies]
  BY DEF TypeOK, AfterAbortWrite, Replies
<1>3. \E p \in HoldingPcs : pc' = [pc EXCEPT ![h] = p]
  BY DEF AfterAbortWrite, Goto, HoldingPcs
<1> QED
  BY <1>1, <1>2, <1>3 DEF TypeOK, Pcs

LEMMA NextTyped == TypeOK /\ [Next]_vars => TypeOK'
<1> USE DEF TypeOK, At, Goto, Answer, InFlight, Pcs, HoldingPcs, StartPcs,
        ReleasingPcs, CallPcs, Replies, Failures
<1> SUFFICES ASSUME TypeOK, [Next]_vars PROVE TypeOK'
  OBVIOUS
<1>1. ASSUME NEW h \in Handlers, NEW r \in Requests, Receive(h, r) PROVE TypeOK'
  BY <1>1, RequestFields DEF Receive, FirstPc, AllOps, objectVars, tableVars, lockVars
<1>2. ASSUME NEW h \in Handlers, CheckGroupHash(h) PROVE TypeOK'
  BY <1>2 DEF CheckGroupHash, objectVars, tableVars, lockVars
<1>3. ASSUME NEW h \in Handlers, FindPipeline(h) PROVE TypeOK'
  BY <1>3, RequestFields DEF FindPipeline, objectVars, tableVars, lockVars
<1>4. ASSUME NEW h \in Handlers, CheckActive(h) PROVE TypeOK'
  BY <1>4 DEF CheckActive, objectVars, tableVars, lockVars
<1>5. ASSUME NEW h \in Handlers, CheckIteration(h) PROVE TypeOK'
  BY <1>5, RequestFields DEF CheckIteration, CallPc, AllOps, objectVars, tableVars, lockVars
<1>6. ASSUME NEW h \in Handlers, Reserve(h) PROVE TypeOK'
  BY <1>6, Wrapping, BoundsNat DEF Reserve, Counts, objectVars, tableVars
<1>7. ASSUME NEW h \in Handlers, BackendStart(h) PROVE TypeOK'
  BY <1>7 DEF BackendStart, objectVars, tableVars, lockVars
<1>8. ASSUME NEW h \in Handlers, Release(h) PROVE TypeOK'
  BY <1>8, Wrapping, BoundsNat DEF Release, Counts, objectVars, tableVars
<1>9. ASSUME NEW h \in Handlers, PublishIteration(h) PROVE TypeOK'
  BY <1>9, RequestFields DEF PublishIteration, tableVars, lockVars
<1>10. ASSUME NEW h \in Handlers, PublishActive(h) PROVE TypeOK'
  BY <1>10 DEF PublishActive, tableVars, lockVars
<1>11. ASSUME NEW h \in Handlers, BackendStage(h) PROVE TypeOK'
  BY <1>11, RequestFields DEF BackendStage, tableVars, lockVars
<1>12. ASSUME NEW h \in Handlers, BackendExecute(h) PROVE TypeOK'
  BY <1>12 DEF BackendExecute, objectVars, tableVars, lockVars
<1>13. ASSUME NEW h \in Handlers, BackendCleanup(h) PROVE TypeOK'
  BY <1>13, RequestFields DEF BackendCleanup, tableVars, lockVars
<1>14. ASSUME NEW h \in Handlers, Deactivate(h) PROVE TypeOK'
  BY <1>14, Wrapping, BoundsNat DEF Deactivate, Counts, tableVars
<1>15. ASSUME NEW h \in Handlers, AbortActive(h) PROVE TypeOK'
  <2>1. obj[h] \in Objects /\ InFlight(h)
    BY <1>15 DEF AbortActive, MayAbort
  <2>2. AfterAbortWrite(h, "abortIteration")
    BY <1>15 DEF AbortActive
  <2> QED
    BY <1>15, <2>1, <2>2, AbortWriteTyped DEF AbortActive, tableVars
<1>16. ASSUME NEW h \in Handlers, AbortIteration(h) PROVE TypeOK'
  <2>1. obj[h] \in Objects /\ InFlight(h)
    BY <1>16 DEF AbortIteration, MayAbort
  <2>2. AfterAbortWrite(h, "abortActive")
    BY <1>16 DEF AbortIteration
  <2>3. iteration' \in [Objects -> Iterations]
    BY <1>16, <2>1, Wrapping, BoundsNat DEF AbortIteration, Iterations
  <2> QED
    BY <1>16, <2>1, <2>2, <2>3, AbortWriteTyped DEF AbortIteration, tableVars
<1>17. ASSUME NEW h \in Handlers, CreatePipeline(h) PROVE TypeOK'
  <2> DEFINE n == req[h].name
  <2>1. n \in Names
    BY <1>17, RequestFields DEF CreatePipeline
  <2>2. created' \in [Names -> 0..MaxGeneration]
    BY <1>17, <2>1, BoundsNat DEF CreatePipeline
  <2>3. m_pipelines' \in [Names -> Objects \cup {NoObject}]
    <3>1. created[n] < MaxGeneration => <<n, created[n] + 1>> \in Objects
      BY <2>1, BoundsNat DEF Objects
    <3> QED
      BY <1>17, <2>1, <3>1 DEF CreatePipeline
  <2> QED
    BY <1>17, <2>2, <2>3 DEF CreatePipeline, objectVars, lockVars
<1>18. ASSUME NEW h \in Handlers, DestroyPipeline(h) PROVE TypeOK'
  BY <1>18, RequestFields DEF DestroyPipeline, objectVars, lockVars
<1>19. ASSUME NEW h \in Handlers, NotifyAll(h) PROVE TypeOK'
  BY <1>19 DEF NotifyAll, LeaverPcs, objectVars, tableVars, lockVars
<1>20. ASSUME NEW h \in Handlers, Respond(h) PROVE TypeOK'
  BY <1>20 DEF Respond, objectVars, tableVars, lockVars
<1>21. ASSUME NEW l \in Leavers, LeaveReceive(l) \/ Leave(l) PROVE TypeOK'
  BY <1>21 DEF LeaveReceive, Leave, LeaveWait, LeaveGroup, LeaverPcs,
               objectVars, tableVars, lockVars, handlerVars
<1>22. ASSUME UNCHANGED vars PROVE TypeOK'
  BY <1>22 DEF vars, objectVars, tableVars, lockVars, handlerVars
<1> QED
  BY <1>1, <1>2, <1>3, <1>4, <1>5, <1>6, <1>7, <1>8, <1>9, <1>10, <1>11, <1>12,
     <1>13, <1>14, <1>15, <1>16, <1>17, <1>18, <1>19, <1>20, <1>21, <1>22
     DEF Next, Serve, Finalized

\* Every variable of the provider keeps its type, whatever clients do.
THEOREM TypeCorrect == Spec => []TypeOK
<1>1. Init => TypeOK
  BY InitTyped
<1>2. TypeOK /\ [Next]_vars => TypeOK'
  BY NextTyped
<1> QED
  BY <1>1, <1>2, PTL DEF Spec

------------------------------------------------------------------------------
(* The inductive invariant. *)

\* Where a handler is tells which RPC it serves, what the fields it checked
\* were, and that they still have those values.
OpAt(p) ==
    CASE p \in StartPcs \cup {"hash"}         -> {"start"}
      [] p = "find"                           -> AllOps \ {"create", "destroy"}
      [] p = "callStage"                      -> {"stage"}
      [] p \in {"callExecute", "autoCleanup"} -> {"execute"}
      [] p = "callCleanup"                    -> {"cleanup"}
      [] p = "deactivate"                     -> {"execute", "cleanup"}
      [] p \in ReleasingPcs \cup {"callAbort"} -> {"abort"}
      [] OTHER                                -> AllOps \ {"create", "destroy", "check"}

SawInactive(h) == \/ pc[h] \in ChargedPcs \cup {"reserve"}
                  \/ At(h, "checkIteration") /\ req[h].op = "start"
SawActive(h) == \/ pc[h] \in CallPcs \cup {"deactivate", "abortActive", "publishIteration"}
                \/ At(h, "checkIteration") /\ req[h].op # "start"

HandlerConsistent(h) ==
    /\ pc[h] \in HoldingPcs \cup {"hash", "find"} => req[h].op \in OpAt(pc[h])
    /\ pc[h] \in HoldingPcs => obj[h][1] = req[h].name
    /\ SawInactive(h) => obj[h] \notin active
    /\ SawActive(h) => obj[h] \in active

\* Of two calls of clients served at once for one pipeline, both stage blocks.
Exclusive ==
    \A g, h \in Handlers :
        (/\ g # h /\ InFlight(g) /\ InFlight(h)
         /\ req[g].name = req[h].name
         /\ req[g].op \in ClientOps /\ req[h].op \in ClientOps)
            => req[g].op = "stage" /\ req[h].op = "stage"

NamesKept == \A n \in Names : m_pipelines[n] # NoObject => m_pipelines[n][1] = n

(* A field that a handler of a disciplined client read without the mutex    *)
(* keeps its value until the handler has acted on it: the strengthening     *)
(* from which CountExact follows.                                           *)
ChecksStillHold ==
    /\ NamesKept
    /\ Exclusive
    /\ \A h \in Handlers : HandlerConsistent(h)

------------------------------------------------------------------------------
(* How one step changes the set of charged pipelines and the counter.       *)

\* Only the RPCs of clients hold a pipeline.
LEMMA ClientOpsHold == \A p \in HoldingPcs : OpAt(p) \subseteq ClientOps
BY DEF OpAt, AllOps, ClientOps, HoldingPcs, StartPcs, ReleasingPcs, CallPcs

\* Two handlers that hold a pipeline hold different ones, unless both stage.
LEMMA Alone ==
    ASSUME TypeOK, ChecksStillHold,
           NEW h \in Handlers, pc[h] \in HoldingPcs, req[h].op # "stage",
           NEW g \in Handlers, pc[g] \in HoldingPcs, g # h
    PROVE  obj[g] # obj[h]
<1>1. InFlight(g) /\ InFlight(h)
  BY DEF InFlight, At, HoldingPcs, StartPcs, ReleasingPcs, CallPcs
<1>2. \A p \in HoldingPcs : OpAt(p) \subseteq ClientOps
  BY ClientOpsHold
<1>3. req[g].op \in ClientOps /\ req[h].op \in ClientOps
  BY <1>2 DEF ChecksStillHold, HandlerConsistent
<1>4. req[g].name # req[h].name
  BY <1>1, <1>3 DEF ChecksStillHold, Exclusive
<1> QED
  BY <1>4 DEF ChecksStillHold, HandlerConsistent

ChargesSame == /\ Charged' = Charged
               /\ m_num_active_pipelines' = m_num_active_pipelines
ChargesOne == \E o \in Objects \ Charged :
                /\ Charged' = Charged \cup {o}
                /\ m_num_active_pipelines' = Increment(m_num_active_pipelines, MaxCount)
ReleasesOne == \E o \in Charged :
                 /\ Charged' = Charged \ {o}
                 /\ m_num_active_pipelines' = Decrement(m_num_active_pipelines, MaxCount)
                 /\ \E h \in Handlers : pc'[h] = "notify"

LEMMA QuietStep ==
    ASSUME UNCHANGED <<active, m_num_active_pipelines>>,
           \A g \in Handlers : /\ (pc'[g] \in ChargedPcs) <=> (pc[g] \in ChargedPcs)
                               /\ pc[g] \in ChargedPcs => obj'[g] = obj[g]
    PROVE  ChargesSame
BY DEF ChargesSame, Charged

\* A handler that alone charges its pipeline, and stops doing so.
LEMMA LastCharge ==
    ASSUME TypeOK, ChecksStillHold,
           NEW h \in Handlers, pc[h] \in HoldingPcs, req[h].op # "stage",
           obj[h] \in Charged, pc'[h] \notin ChargedPcs,
           active' = active \ {obj[h]}, obj' = obj,
           \A g \in Handlers : g # h => pc'[g] = pc[g]
    PROVE  Charged' = Charged \ {obj[h]}
<1>1. \A g \in Handlers : (g # h /\ pc[g] \in ChargedPcs) => obj[g] # obj[h]
  BY Alone DEF ChargedPcs, HoldingPcs, StartPcs, ReleasingPcs
<1> QED
  BY <1>1 DEF Charged

LEMMA StepCharges ==
    ASSUME TypeOK, ChecksStillHold, [Next]_vars
    PROVE  ChargesSame \/ ChargesOne \/ ReleasesOne
<1> USE DEF At, Goto, Answer, ChargedPcs
<1>1. ASSUME NEW h \in Handlers, NEW r \in Requests, Receive(h, r) PROVE ChargesSame
  <2>1. FirstPc(r.op) \notin ChargedPcs
    BY DEF FirstPc
  <2> QED
    BY <1>1, <2>1, QuietStep DEF Receive, TypeOK, objectVars, lockVars
<1>2. ASSUME NEW h \in Handlers, CheckGroupHash(h) PROVE ChargesSame
  BY <1>2, QuietStep DEF CheckGroupHash, TypeOK, objectVars, lockVars
<1>3. ASSUME NEW h \in Handlers, FindPipeline(h) PROVE ChargesSame
  BY <1>3, QuietStep DEF FindPipeline, TypeOK, objectVars, lockVars
<1>4. ASSUME NEW h \in Handlers, CheckActive(h) PROVE ChargesSame
  BY <1>4, QuietStep DEF CheckActive, TypeOK, objectVars, lockVars
<1>5. ASSUME NEW h \in Handlers, CheckIteration(h) PROVE ChargesSame
  BY <1>5, QuietStep DEF CheckIteration, CallPc, TypeOK, objectVars, lockVars
<1>6. ASSUME NEW h \in Handlers, Reserve(h) PROVE ChargesOne
  <2>1. /\ pc[h] \in HoldingPcs /\ req[h].op # "stage"
        /\ obj[h] \in Objects /\ obj[h] \notin active
    BY <1>6 DEF Reserve, TypeOK, ChecksStillHold, HandlerConsistent, SawInactive,
                OpAt, HoldingPcs, StartPcs
  <2>2. \A g \in Handlers : (g # h /\ pc[g] \in ChargedPcs) => obj[g] # obj[h]
    BY <2>1, Alone DEF HoldingPcs, StartPcs, ReleasingPcs
  <2>3. obj[h] \notin Charged
    BY <1>6, <2>1, <2>2 DEF Charged, Reserve
  <2>4. Charged' = Charged \cup {obj[h]}
    BY <1>6, <2>1 DEF Charged, Reserve, TypeOK, objectVars
  <2> QED
    BY <1>6, <2>1, <2>3, <2>4 DEF ChargesOne, Reserve
<1>7. ASSUME NEW h \in Handlers, BackendStart(h) PROVE ChargesSame
  BY <1>7, QuietStep DEF BackendStart, TypeOK, objectVars, lockVars
<1>8. ASSUME NEW h \in Handlers, Release(h) PROVE ReleasesOne
  <2>1. /\ pc[h] \in HoldingPcs /\ req[h].op # "stage"
        /\ obj[h] \in Objects /\ obj[h] \notin active
    BY <1>8 DEF Release, TypeOK, ChecksStillHold, HandlerConsistent, SawInactive,
                OpAt, HoldingPcs, StartPcs
  <2>2. obj[h] \in Charged
    BY <1>8, <2>1 DEF Release, Charged
  <2>3. pc' = [pc EXCEPT ![h] = "notify"] /\ obj' = obj /\ active' = active
    BY <1>8 DEF Release, objectVars
  <2>4. Charged' = Charged \ {obj[h]}
    BY <2>1, <2>2, <2>3, LastCharge DEF TypeOK
  <2> QED
    BY <1>8, <2>2, <2>3, <2>4 DEF ReleasesOne, Release, TypeOK
<1>9. ASSUME NEW h \in Handlers, PublishIteration(h) PROVE ChargesSame
  BY <1>9, QuietStep DEF PublishIteration, TypeOK, lockVars
<1>10. ASSUME NEW h \in Handlers, PublishActive(h) PROVE ChargesSame
  <2>1. obj[h] \in Charged /\ obj[h] \in Objects
    BY <1>10 DEF PublishActive, Charged, TypeOK, HoldingPcs, StartPcs
  <2> QED
    BY <1>10, <2>1 DEF PublishActive, Charged, ChargesSame, TypeOK, lockVars
<1>11. ASSUME NEW h \in Handlers, BackendStage(h) PROVE ChargesSame
  BY <1>11, QuietStep DEF BackendStage, TypeOK, lockVars
<1>12. ASSUME NEW h \in Handlers, BackendExecute(h) PROVE ChargesSame
  BY <1>12, QuietStep DEF BackendExecute, TypeOK, objectVars, lockVars
<1>13. ASSUME NEW h \in Handlers, BackendCleanup(h) PROVE ChargesSame
  BY <1>13, QuietStep DEF BackendCleanup, TypeOK, lockVars
<1>14. ASSUME NEW h \in Handlers, Deactivate(h) PROVE ReleasesOne
  <2>1. /\ pc[h] \in HoldingPcs /\ req[h].op # "stage"
        /\ obj[h] \in Objects /\ obj[h] \in active
    BY <1>14 DEF Deactivate, TypeOK, ChecksStillHold, HandlerConsistent, SawActive,
                 OpAt, HoldingPcs, StartPcs
  <2>2. obj[h] \in Charged
    BY <2>1 DEF Charged
  <2>3. pc' = [pc EXCEPT ![h] = "notify"] /\ obj' = obj /\ active' = active \ {obj[h]}
    BY <1>14 DEF Deactivate
  <2>4. Charged' = Charged \ {obj[h]}
    BY <2>1, <2>2, <2>3, LastCharge DEF TypeOK
  <2> QED
    BY <1>14, <2>2, <2>3, <2>4 DEF ReleasesOne, Deactivate, TypeOK
<1>15. ASSUME NEW h \in Handlers, AbortActive(h) \/ AbortIteration(h)
       PROVE ChargesSame \/ ReleasesOne
  <2>1. /\ pc[h] \in HoldingPcs /\ req[h].op # "stage" /\ obj[h] \in Objects
    BY <1>15 DEF AbortActive, AbortIteration, MayAbort, TypeOK, ChecksStillHold,
                 HandlerConsistent, OpAt, HoldingPcs, StartPcs, CallPcs, ReleasingPcs
  <2>2. obj[h] \in Charged
    BY <1>15, <2>1 DEF AbortActive, AbortIteration, MayAbort, ChecksStillHold, Charged,
                       HandlerConsistent, SawActive, CallPcs
  <2>3. CASE pc[h] = "callAbort"
    <3>1. pc' \in {[pc EXCEPT ![h] = "abortIteration"], [pc EXCEPT ![h] = "abortActive"]}
      BY <1>15, <2>3 DEF AbortActive, AbortIteration, AfterAbortWrite
    <3>2. CASE AbortActive(h)
      BY <2>1, <2>2, <2>3, <3>2
         DEF AbortActive, AfterAbortWrite, ChargesSame, Charged, TypeOK
    <3>3. CASE AbortIteration(h)
      BY <2>3, <3>3, QuietStep DEF AbortIteration, AfterAbortWrite, TypeOK
    <3> QED
      BY <1>15, <3>2, <3>3
  <2>4. CASE pc[h] # "callAbort"
    <3>1. /\ pc' = [pc EXCEPT ![h] = "notify"] /\ obj' = obj
          /\ m_num_active_pipelines' = Decrement(m_num_active_pipelines, MaxCount)
      BY <1>15, <2>4 DEF AbortActive, AbortIteration, AfterAbortWrite
    <3>2. active' = active \ {obj[h]}
      BY <1>15, <2>4 DEF AbortActive, AbortIteration, MayAbort, ChecksStillHold,
                         HandlerConsistent, SawInactive
    <3>3. Charged' = Charged \ {obj[h]}
      BY <2>1, <2>2, <3>1, <3>2, LastCharge DEF TypeOK
    <3> QED
      BY <2>2, <3>1, <3>3 DEF ReleasesOne, TypeOK
  <2> QED
    BY <2>3, <2>4
<1>16. ASSUME NEW h \in Handlers, CreatePipeline(h) PROVE ChargesSame
  BY <1>16, QuietStep DEF CreatePipeline, TypeOK, objectVars, lockVars
<1>17. ASSUME NEW h \in Handlers, DestroyPipeline(h) PROVE ChargesSame
  BY <1>17, QuietStep DEF DestroyPipeline, TypeOK, objectVars, lockVars
<1>18. ASSUME NEW h \in Handlers, NotifyAll(h) PROVE ChargesSame
  BY <1>18, QuietStep DEF NotifyAll, TypeOK, objectVars, lockVars
<1>19. ASSUME NEW h \in Handlers, Respond(h) PROVE ChargesSame
  BY <1>19, QuietStep DEF Respond, TypeOK, objectVars, lockVars
<1>20. ASSUME NEW l \in Leavers, LeaveReceive(l) \/ Leave(l) PROVE ChargesSame
  BY <1>20, QuietStep DEF LeaveReceive, Leave, LeaveWait, LeaveGroup,
                          objectVars, lockVars, handlerVars
<1>21. ASSUME UNCHANGED vars PROVE ChargesSame
  BY <1>21, QuietStep DEF vars, objectVars, lockVars, handlerVars
<1> QED
  BY <1>1, <1>2, <1>3, <1>4, <1>5, <1>6, <1>7, <1>8, <1>9, <1>10, <1>11, <1>12,
     <1>13, <1>14, <1>15, <1>16, <1>17, <1>18, <1>19, <1>20, <1>21
     DEF Next, Serve, Finalized

------------------------------------------------------------------------------
(* Under the discipline of a synchronous client, what a handler checked     *)
(* still holds when it acts.                                                *)

\* A handler that does not move is disturbed only through its own pipeline.
LEMMA Undisturbed ==
    ASSUME NEW g \in Handlers, HandlerConsistent(g),
           pc'[g] = pc[g], req'[g] = req[g], obj'[g] = obj[g],
           (obj[g] \in active') <=> (obj[g] \in active)
    PROVE  HandlerConsistent(g)'
BY DEF HandlerConsistent, SawInactive, SawActive, At

\* Nor can a step that changes one pipeline disturb a handler of another.
LEMMA OthersUndisturbed ==
    ASSUME TypeOK, ChecksStillHold,
           NEW h \in Handlers, pc[h] \in HoldingPcs, req[h].op # "stage",
           active' \in {active \cup {obj[h]}, active \ {obj[h]}},
           req' = req, obj' = obj,
           \A g \in Handlers : g # h => pc'[g] = pc[g]
    PROVE  \A g \in Handlers : g # h => HandlerConsistent(g)'
<1> SUFFICES ASSUME NEW g \in Handlers, g # h PROVE HandlerConsistent(g)'
  OBVIOUS
<1>1. CASE pc[g] \in HoldingPcs
  BY <1>1, Alone, Undisturbed DEF ChecksStillHold
<1>2. CASE pc[g] \notin HoldingPcs
  BY <1>2 DEF ChecksStillHold, HandlerConsistent, SawInactive, SawActive, At, ChargedPcs,
              HoldingPcs, StartPcs, ReleasingPcs, CallPcs
<1> QED
  BY <1>1, <1>2

\* A step of h that changes no field active.
LEMMA Quiet ==
    ASSUME TypeOK, ChecksStillHold, NEW h \in Handlers, HandlerConsistent(h)',
           active' = active, m_pipelines' = m_pipelines, req' = req,
           NEW p \in Pcs, pc' = [pc EXCEPT ![h] = p], pc[h] # "idle",
           \A g \in Handlers : g # h => obj'[g] = obj[g]
    PROVE  ChecksStillHold'
<1>1. \A g \in Handlers : HandlerConsistent(g)'
  BY Undisturbed DEF ChecksStillHold, TypeOK
<1>2. Exclusive'
  BY DEF ChecksStillHold, Exclusive, InFlight, At, TypeOK
<1>3. NamesKept'
  BY DEF ChecksStillHold, NamesKept
<1> QED
  BY <1>1, <1>2, <1>3 DEF ChecksStillHold

\* A step of h that changes the field active of its pipeline.
LEMMA Loud ==
    ASSUME TypeOK, ChecksStillHold,
           NEW h \in Handlers, HandlerConsistent(h)',
           pc[h] \in HoldingPcs, req[h].op # "stage",
           active' \in {active \cup {obj[h]}, active \ {obj[h]}},
           m_pipelines' = m_pipelines, req' = req, obj' = obj,
           NEW p \in Pcs, pc' = [pc EXCEPT ![h] = p]
    PROVE  ChecksStillHold'
<1>1. \A g \in Handlers : HandlerConsistent(g)'
  BY OthersUndisturbed DEF TypeOK
<1>2. Exclusive'
  BY DEF ChecksStillHold, Exclusive, InFlight, At, TypeOK, HoldingPcs, StartPcs,
         ReleasingPcs, CallPcs
<1>3. NamesKept'
  BY DEF ChecksStillHold, NamesKept
<1> QED
  BY <1>1, <1>2, <1>3 DEF ChecksStillHold

LEMMA InitChecks == Init => ChecksStillHold
BY DEF Init, ChecksStillHold, NamesKept, Exclusive, InFlight, At, HandlerConsistent,
       SawInactive, SawActive, ChargedPcs, HoldingPcs, StartPcs, ReleasingPcs, CallPcs

LEMMA ReceiveChecks ==
    ASSUME Synchronous, TypeOK, ChecksStillHold,
           NEW h \in Handlers, NEW r \in Requests, Receive(h, r)
    PROVE  ChecksStillHold'
<1>1. /\ pc' = [pc EXCEPT ![h] = FirstPc(r.op)] /\ req' = [req EXCEPT ![h] = r]
      /\ UNCHANGED <<active, m_pipelines, obj>> /\ pc[h] = "idle"
  BY DEF Receive, Goto, At, objectVars, tableVars
<1>2. FirstPc(r.op) \in {"hash", "create", "destroy", "find"}
  BY DEF FirstPc
<1>3. HandlerConsistent(h)'
  BY <1>1, <1>2, RequestFields
     DEF HandlerConsistent, SawInactive, SawActive, At, TypeOK, OpAt, FirstPc, AllOps,
         ChargedPcs, HoldingPcs, StartPcs, ReleasingPcs, CallPcs
<1>4. \A g \in Handlers : HandlerConsistent(g)'
  BY <1>1, <1>3, Undisturbed DEF ChecksStillHold, TypeOK
<1>5. Exclusive'
  <2> SUFFICES ASSUME NEW f \in Handlers, NEW g \in Handlers, f # g,
                      InFlight(f)', InFlight(g)', req'[f].name = req'[g].name,
                      req'[f].op \in ClientOps, req'[g].op \in ClientOps
               PROVE  req'[f].op = "stage" /\ req'[g].op = "stage"
    BY DEF Exclusive
  <2>1. Disciplined(r)
    BY DEF Receive
  <2>2. CASE f # h /\ g # h
    BY <1>1, <2>2 DEF ChecksStillHold, Exclusive, InFlight, At, TypeOK
  <2>3. CASE f = h
    BY <1>1, <2>1, <2>3 DEF Disciplined, InFlight, At, TypeOK
  <2>4. CASE g = h
    BY <1>1, <2>1, <2>4 DEF Disciplined, InFlight, At, TypeOK
  <2> QED
    BY <2>2, <2>3, <2>4
<1>6. NamesKept'
  BY <1>1 DEF ChecksStillHold, NamesKept
<1> QED
  BY <1>4, <1>5, <1>6 DEF ChecksStillHold

\* The object found under a name carries that name.
LEMMA FindChecks ==
    ASSUME TypeOK, ChecksStillHold, NEW h \in Handlers, FindPipeline(h)
    PROVE  ChecksStillHold'
<1> DEFINE found == m_pipelines[req[h].name]
<1>1. req[h] \in Requests /\ req[h].name \in Names /\ req[h].op \in AllOps
  BY RequestFields DEF FindPipeline, TypeOK, InFlight, At
<1>2. PICK p \in {"respond", "checkActive"} :
        /\ pc' = [pc EXCEPT ![h] = p]
        /\ p = "checkActive" => /\ found # NoObject /\ obj' = [obj EXCEPT ![h] = found]
                                /\ req[h].op # "check"
        /\ p = "respond" => obj' = obj
  BY DEF FindPipeline, Goto, Answer
<1>3. p = "checkActive" => found[1] = req[h].name
  BY <1>1, <1>2 DEF ChecksStillHold, NamesKept
<1>4. req[h].op \notin {"create", "destroy"}
  BY DEF FindPipeline, ChecksStillHold, HandlerConsistent, At, OpAt, StartPcs
<1>5. HandlerConsistent(h)'
  BY <1>1, <1>2, <1>3, <1>4
     DEF FindPipeline, HandlerConsistent, SawInactive, SawActive, At, TypeOK, OpAt,
         ChargedPcs, HoldingPcs, StartPcs, ReleasingPcs, CallPcs
<1> QED
  BY <1>2, <1>5, Quiet DEF FindPipeline, At, TypeOK, Pcs, HoldingPcs, objectVars, tableVars

LEMMA NextChecks ==
    ASSUME Synchronous, TypeOK, ChecksStillHold, [Next]_vars
    PROVE  ChecksStillHold'
<1> USE DEF At, Goto, Answer, objectVars, tableVars
<1>0. /\ Pcs = {"idle", "hash", "find", "create", "destroy", "respond"} \cup HoldingPcs
      /\ \A h \in Handlers : HandlerConsistent(h)
  BY DEF Pcs, ChecksStillHold
<1>a. ASSUME NEW h \in Handlers, pc'[h] = "respond" \/ pc'[h] = "notify",
             pc'[h] = "notify" => /\ req'[h].op \in AllOps \ {"create", "destroy", "check"}
                                  /\ obj'[h][1] = req'[h].name
      PROVE  HandlerConsistent(h)'
  BY <1>a DEF HandlerConsistent, SawInactive, SawActive, OpAt, ChargedPcs,
              HoldingPcs, StartPcs, ReleasingPcs, CallPcs
<1>1. ASSUME NEW h \in Handlers, NEW r \in Requests, Receive(h, r) PROVE ChecksStillHold'
  BY <1>1, ReceiveChecks
<1>2. ASSUME NEW h \in Handlers, CheckGroupHash(h) PROVE ChecksStillHold'
  <2>1. HandlerConsistent(h)'
    BY <1>0, <1>2 DEF CheckGroupHash, HandlerConsistent, SawInactive, SawActive, OpAt,
                      TypeOK, AllOps, ChargedPcs, HoldingPcs, StartPcs, ReleasingPcs, CallPcs
  <2> QED
    BY <1>0, <1>2, <2>1, Quiet DEF CheckGroupHash
<1>3. ASSUME NEW h \in Handlers, FindPipeline(h) PROVE ChecksStillHold'
  BY <1>3, FindChecks
<1>4. ASSUME NEW h \in Handlers, CheckActive(h) PROVE ChecksStillHold'
  <2>1. HandlerConsistent(h)'
    BY <1>0, <1>4 DEF CheckActive, HandlerConsistent, SawInactive, SawActive, OpAt,
                      TypeOK, ChargedPcs, HoldingPcs, StartPcs, ReleasingPcs, CallPcs
  <2> QED
    BY <1>0, <1>4, <2>1, Quiet DEF CheckActive, HoldingPcs
<1>5. ASSUME NEW h \in Handlers, CheckIteration(h) PROVE ChecksStillHold'
  <2>1. PICK p \in {"respond", CallPc(req[h].op)} : pc' = [pc EXCEPT ![h] = p]
    BY <1>5 DEF CheckIteration
  <2>2. req[h].op \in AllOps \ {"create", "destroy", "check"}
    BY <1>0, <1>5 DEF CheckIteration, HandlerConsistent, OpAt, HoldingPcs, StartPcs,
                      ReleasingPcs, CallPcs
  <2>3. HandlerConsistent(h)'
    BY <1>0, <1>5, <2>1, <2>2
       DEF CheckIteration, CallPc, HandlerConsistent, SawInactive, SawActive, OpAt,
           TypeOK, AllOps, ChargedPcs, HoldingPcs, StartPcs, ReleasingPcs, CallPcs
  <2>4. p \in Pcs
    BY <2>1, <2>2 DEF CallPc, AllOps, Pcs, HoldingPcs, StartPcs, CallPcs
  <2> QED
    BY <1>5, <2>1, <2>3, <2>4, Quiet DEF CheckIteration
<1>6. ASSUME NEW h \in Handlers, Reserve(h) PROVE ChecksStillHold'
  <2>1. HandlerConsistent(h)'
    BY <1>0, <1>6 DEF Reserve, HandlerConsistent, SawInactive, SawActive, OpAt,
                      TypeOK, ChargedPcs, HoldingPcs, StartPcs, ReleasingPcs, CallPcs
  <2> QED
    BY <1>0, <1>6, <2>1, Quiet DEF Reserve, HoldingPcs, StartPcs
<1>7. ASSUME NEW h \in Handlers, BackendStart(h) PROVE ChecksStillHold'
  <2>1. HandlerConsistent(h)'
    BY <1>0, <1>7 DEF BackendStart, HandlerConsistent, SawInactive, SawActive, OpAt,
                      TypeOK, ChargedPcs, HoldingPcs, StartPcs, ReleasingPcs, CallPcs
  <2> QED
    BY <1>0, <1>7, <2>1, Quiet DEF BackendStart, HoldingPcs, StartPcs
<1>8. ASSUME NEW h \in Handlers, Release(h) PROVE ChecksStillHold'
  <2>1. HandlerConsistent(h)'
    BY <1>0, <1>8 DEF Release, HandlerConsistent, SawInactive, SawActive, OpAt,
                      TypeOK, AllOps, ChargedPcs, HoldingPcs, StartPcs, ReleasingPcs, CallPcs
  <2> QED
    BY <1>0, <1>8, <2>1, Quiet DEF Release, HoldingPcs, StartPcs
<1>9. ASSUME NEW h \in Handlers, PublishIteration(h) PROVE ChecksStillHold'
  <2>1. HandlerConsistent(h)'
    BY <1>0, <1>9 DEF PublishIteration, HandlerConsistent, SawInactive, SawActive, OpAt,
                      TypeOK, ChargedPcs, HoldingPcs, StartPcs, ReleasingPcs, CallPcs
  <2> QED
    BY <1>0, <1>9, <2>1, Quiet DEF PublishIteration, HoldingPcs, StartPcs
<1>10. ASSUME NEW h \in Handlers, PublishActive(h) PROVE ChecksStillHold'
  <2>1. HandlerConsistent(h)' /\ pc[h] \in HoldingPcs /\ req[h].op # "stage"
    BY <1>0, <1>10 DEF PublishActive, HandlerConsistent, SawInactive, SawActive, OpAt,
                       TypeOK, ChargedPcs, HoldingPcs, StartPcs, ReleasingPcs, CallPcs
  <2> QED
    BY <1>0, <1>10, <2>1, Loud DEF PublishActive, HoldingPcs, StartPcs
<1>11. ASSUME NEW h \in Handlers, BackendStage(h) PROVE ChecksStillHold'
  <2>1. HandlerConsistent(h)'
    BY <1>a, <1>11 DEF BackendStage, TypeOK
  <2> QED
    BY <1>0, <1>11, <2>1, Quiet DEF BackendStage
<1>12. ASSUME NEW h \in Handlers, BackendExecute(h) PROVE ChecksStillHold'
  <2>1. HandlerConsistent(h)'
    BY <1>0, <1>12 DEF BackendExecute, HandlerConsistent, SawInactive, SawActive, OpAt,
                       TypeOK, ChargedPcs, HoldingPcs, StartPcs, ReleasingPcs, CallPcs
  <2> QED
    BY <1>0, <1>12, <2>1, Quiet DEF BackendExecute, HoldingPcs, CallPcs
<1>13. ASSUME NEW h \in Handlers, BackendCleanup(h) PROVE ChecksStillHold'
  <2>1. PICK p \in {"deactivate", "notify", "respond"} :
          pc' = [pc EXCEPT ![h] = p] /\ UNCHANGED <<req, obj, active, m_pipelines>>
    BY <1>13 DEF BackendCleanup
  <2>2. /\ req[h].op \in {"execute", "cleanup"} /\ obj[h] \in active
        /\ obj[h][1] = req[h].name
    BY <1>0, <1>13 DEF BackendCleanup, HandlerConsistent, SawActive, OpAt,
                       HoldingPcs, StartPcs, ReleasingPcs, CallPcs
  <2>3. HandlerConsistent(h)'
    BY <2>1, <2>2 DEF HandlerConsistent, SawInactive, SawActive, OpAt, TypeOK, AllOps,
                      ChargedPcs, HoldingPcs, StartPcs, ReleasingPcs, CallPcs
  <2> QED
    BY <1>0, <1>13, <2>1, <2>3, Quiet DEF BackendCleanup, HoldingPcs
<1>14. ASSUME NEW h \in Handlers, Deactivate(h) PROVE ChecksStillHold'
  <2>1. HandlerConsistent(h)' /\ pc[h] \in HoldingPcs /\ req[h].op # "stage"
    BY <1>0, <1>14 DEF Deactivate, HandlerConsistent, SawInactive, SawActive, OpAt,
                       TypeOK, AllOps, ChargedPcs, HoldingPcs, StartPcs, ReleasingPcs, CallPcs
  <2> QED
    BY <1>0, <1>14, <2>1, Loud DEF Deactivate, HoldingPcs
<1>15. ASSUME NEW h \in Handlers, AbortActive(h) PROVE ChecksStillHold'
  <2>1. HandlerConsistent(h)' /\ pc[h] \in HoldingPcs /\ req[h].op # "stage"
    BY <1>0, <1>15 DEF AbortActive, AfterAbortWrite, MayAbort, HandlerConsistent,
                       SawInactive, SawActive, OpAt, TypeOK, AllOps, ChargedPcs,
                       HoldingPcs, StartPcs, ReleasingPcs, CallPcs
  <2> QED
    BY <1>0, <1>15, <2>1, Loud DEF AbortActive, AfterAbortWrite, HoldingPcs, ReleasingPcs
<1>16. ASSUME NEW h \in Handlers, AbortIteration(h) PROVE ChecksStillHold'
  <2>1. HandlerConsistent(h)'
    BY <1>0, <1>16 DEF AbortIteration, AfterAbortWrite, MayAbort, HandlerConsistent,
                       SawInactive, SawActive, OpAt, TypeOK, AllOps, ChargedPcs,
                       HoldingPcs, StartPcs, ReleasingPcs, CallPcs
  <2> QED
    BY <1>0, <1>16, <2>1, Quiet DEF AbortIteration, AfterAbortWrite, MayAbort, HoldingPcs, ReleasingPcs
<1>17. ASSUME NEW h \in Handlers, CreatePipeline(h) \/ DestroyPipeline(h)
       PROVE  ChecksStillHold'
  <2>1. /\ pc' = [pc EXCEPT ![h] = "respond"] /\ pc[h] # "idle"
        /\ UNCHANGED <<active, req, obj>>
    BY <1>17 DEF CreatePipeline, DestroyPipeline
  <2>2. \A g \in Handlers : HandlerConsistent(g)'
    BY <1>0, <1>a, <2>1, Undisturbed DEF TypeOK
  <2>3. Exclusive'
    BY <2>1 DEF ChecksStillHold, Exclusive, InFlight, TypeOK
  <2>4. NamesKept'
    BY <1>17 DEF CreatePipeline, DestroyPipeline, ChecksStillHold, NamesKept, TypeOK
  <2> QED
    BY <2>2, <2>3, <2>4 DEF ChecksStillHold
<1>18. ASSUME NEW h \in Handlers, NotifyAll(h) PROVE ChecksStillHold'
  <2>1. HandlerConsistent(h)'
    BY <1>a, <1>18 DEF NotifyAll, TypeOK
  <2> QED
    BY <1>0, <1>18, <2>1, Quiet DEF NotifyAll
<1>19. ASSUME NEW h \in Handlers, Respond(h) PROVE ChecksStillHold'
  <2>1. /\ pc' = [pc EXCEPT ![h] = "idle"] /\ req' = [req EXCEPT ![h] = NoRequest]
        /\ obj' = [obj EXCEPT ![h] = NoObject] /\ UNCHANGED <<active, m_pipelines>>
    BY <1>19 DEF Respond
  <2>2. HandlerConsistent(h)'
    BY <2>1 DEF TypeOK, HandlerConsistent, SawInactive, SawActive, ChargedPcs,
                HoldingPcs, StartPcs, ReleasingPcs, CallPcs
  <2>3. \A g \in Handlers : HandlerConsistent(g)'
    BY <1>0, <2>1, <2>2, Undisturbed DEF TypeOK
  <2>4. Exclusive'
    BY <2>1 DEF ChecksStillHold, Exclusive, InFlight, TypeOK
  <2> QED
    BY <2>1, <2>3, <2>4 DEF ChecksStillHold, NamesKept
<1>20. ASSUME NEW l \in Leavers, LeaveReceive(l) \/ Leave(l) PROVE ChecksStillHold'
  <2>1. UNCHANGED <<pc, req, obj, active>> /\ \A n \in Names : m_pipelines'[n] \in {m_pipelines[n], NoObject}
    BY <1>20 DEF LeaveReceive, Leave, LeaveWait, LeaveGroup, handlerVars
  <2> QED
    BY <1>0, <2>1, Undisturbed DEF ChecksStillHold, Exclusive, InFlight, NamesKept
<1>21. ASSUME UNCHANGED vars PROVE ChecksStillHold'
  BY <1>0, <1>21, Undisturbed DEF vars, handlerVars, ChecksStillHold, Exclusive, InFlight,
                                  NamesKept
<1> QED
  BY <1>1, <1>2, <1>3, <1>4, <1>5, <1>6, <1>7, <1>8, <1>9, <1>10, <1>11, <1>12,
     <1>13, <1>14, <1>15, <1>16, <1>17, <1>18, <1>19, <1>20, <1>21
     DEF Next, Serve, Finalized

------------------------------------------------------------------------------
(* The counter, the wakeups and the moment of leaving.                      *)

LEMMA ObjectsFinite == IsFiniteSet(Objects)
<1>1. IsFiniteSet(1..MaxGeneration)
  BY BoundsNat, FS_Interval
<1> QED
  BY <1>1, NamesFinite, FS_Product DEF Objects

\* Charged pipelines never outnumber what the counter can hold.
LEMMA ChargedFits ==
    /\ IsFiniteSet(Charged)
    /\ Cardinality(Charged) \in Nat
    /\ \A o \in Objects \ Charged : Cardinality(Charged) < MaxCount
<1>1. IsFiniteSet(Charged)
  BY ObjectsFinite, FS_Subset DEF Charged
<1>2. ASSUME NEW o \in Objects \ Charged PROVE Cardinality(Charged) < MaxCount
  <2>1. Cardinality(Charged \cup {o}) = Cardinality(Charged) + 1
    BY <1>1, <1>2, FS_AddElement
  <2>2. Charged \cup {o} \subseteq Objects
    BY <1>2 DEF Charged
  <2>3. Cardinality(Charged \cup {o}) <= Cardinality(Objects)
    BY <2>2, ObjectsFinite, FS_Subset
  <2>4. Cardinality(Charged) \in Nat /\ Cardinality(Objects) \in Nat
    BY <1>1, ObjectsFinite, FS_CardinalityType
  <2> QED
    BY <2>1, <2>3, <2>4, CounterWideEnough, BoundsNat
<1> QED
  BY <1>1, <1>2, FS_CardinalityType

LEMMA NextCounted ==
    ASSUME TypeOK, ChecksStillHold, CountExact, [Next]_vars
    PROVE  CountExact'
<1>1. CASE ChargesSame
  BY <1>1 DEF CountExact, ChargesSame
<1>2. CASE ChargesOne
  <2>1. PICK o \in Objects \ Charged :
          /\ Charged' = Charged \cup {o}
          /\ m_num_active_pipelines' = Increment(m_num_active_pipelines, MaxCount)
    BY <1>2 DEF ChargesOne
  <2>2. Cardinality(Charged') = Cardinality(Charged) + 1
    BY <2>1, ChargedFits, FS_AddElement
  <2> QED
    BY <2>1, <2>2, ChargedFits, BoundsNat DEF CountExact, Increment
<1>3. CASE ReleasesOne
  <2>1. PICK o \in Charged :
          /\ Charged' = Charged \ {o}
          /\ m_num_active_pipelines' = Decrement(m_num_active_pipelines, MaxCount)
    BY <1>3 DEF ReleasesOne
  <2>2. Cardinality(Charged') = Cardinality(Charged) - 1
    BY <2>1, ChargedFits, FS_RemoveElement
  <2>3. Cardinality(Charged) # 0
    BY <2>1, ChargedFits, FS_EmptySet
  <2> QED
    BY <2>1, <2>2, <2>3, ChargedFits DEF CountExact, Decrement
<1> QED
  BY <1>1, <1>2, <1>3, StepCharges

CountInv == TypeOK /\ ChecksStillHold /\ CountExact

LEMMA CountInvariant == ASSUME Synchronous PROVE Spec => []CountInv
<1>1. Init => CountInv
  <2>1. Init => Charged = {}
    BY DEF Init, Charged, ChargedPcs
  <2>2. Init => CountExact
    BY <2>1, FS_EmptySet DEF Init, CountExact
  <2> QED
    BY <2>2, InitTyped, InitChecks DEF CountInv
<1>2. CountInv /\ [Next]_vars => CountInv'
  BY NextTyped, NextChecks, NextCounted DEF CountInv
<1> QED
  BY <1>1, <1>2, PTL DEF Spec

\* The counter of active pipelines is exact, for any number of pipelines,
\* handlers and leave requests.
THEOREM CounterExact == ASSUME Synchronous PROVE Spec => []CountExact
<1>1. CountInv => CountExact
  BY DEF CountInv
<1> QED
  BY <1>1, CountInvariant, PTL

\* Leaving needs the counter at 0, and then nothing is charged.
LEMMA LeaveUncharged ==
    ASSUME CountInv, [Next]_vars, left' # left
    PROVE  Charged = {} /\ ChargesSame /\ left'
<1>1. PICK l \in Leavers : LeaveGroup(l)
  BY DEF CountInv, Next, vars, Serve, Leave, Finalized, Receive, Respond, CheckGroupHash,
         FindPipeline, CheckActive, CheckIteration, NotifyAll, Reserve, BackendStart,
         PublishIteration, PublishActive, Release, BackendStage, BackendExecute,
         BackendCleanup, Deactivate, AbortActive, AbortIteration, CreatePipeline,
         DestroyPipeline, LeaveReceive, LeaveWait, tableVars
<1>2. Charged = {}
  BY <1>1, ChargedFits, FS_EmptySet DEF LeaveGroup, CountInv, CountExact
<1>3. ChargesSame
  BY <1>1, QuietStep DEF LeaveGroup, objectVars, lockVars, handlerVars
<1> QED
  BY <1>1, <1>2, <1>3 DEF LeaveGroup

\* ssg_group_leave is called only when no pipeline is active.
THEOREM LeavesIdle == ASSUME Synchronous PROVE Spec => LeaveOnlyWhenIdle
<1>1. CountInv /\ [Next]_vars => [left' /\ ~left => active = {}]_vars
  <2> SUFFICES ASSUME CountInv, [Next]_vars, left', ~left PROVE active = {}
    OBVIOUS
  <2>1. Charged = {}
    BY LeaveUncharged
  <2> QED
    BY <2>1 DEF Charged, CountInv, TypeOK
<1> QED
  BY <1>1, CountInvariant, PTL DEF Spec, LeaveOnlyWhenIdle

\* The provider implements the guard of LeaveGuard: pipelines are charged and
\* released one at a time, and the provider leaves when none is.
THEOREM GuardImplemented == ASSUME Synchronous PROVE Spec => GuardSpec
<1>1. Init => Guard!Init
  BY DEF Init, Guard!Init, Charged, ChargedPcs
<1>2. CountInv /\ [Next]_vars => [Guard!Next]_<<Charged, left>>
  <2> SUFFICES ASSUME CountInv, [Next]_vars PROVE [Guard!Next]_<<Charged, left>>
    OBVIOUS
  <2>1. CASE left' # left
    BY <2>1, LeaveUncharged DEF ChargesSame, Guard!Next, Guard!Leave
  <2>2. CASE left' = left
    <3>1. Charged \subseteq Objects
      BY DEF Charged
    <3>2. CASE ChargesSame
      BY <2>2, <3>2 DEF ChargesSame
    <3>3. CASE ChargesOne
      BY <2>2, <3>3 DEF ChargesOne, Guard!Next, Guard!Begin
    <3>4. CASE ReleasesOne
      BY <2>2, <3>1, <3>4 DEF ReleasesOne, Guard!Next, Guard!End
    <3> QED
      BY <3>2, <3>3, <3>4, StepCharges DEF CountInv
  <2> QED
    BY <2>1, <2>2
<1> QED
  BY <1>1, <1>2, CountInvariant, PTL DEF Spec, GuardSpec, Guard!Spec

LEMMA OnlyNotifyAllEndsNotify ==
    ASSUME TypeOK, [Next]_vars, NEW h \in Handlers, pc[h] = "notify"
    PROVE  pc'[h] = "notify" \/ NotifyAll(h)
<1>1. ASSUME NEW g \in Handlers, g # h, Serve(g) \/ \E r \in Requests : Receive(g, r)
      PROVE  pc'[h] = pc[h]
  BY <1>1 DEF TypeOK, Serve, Goto, Answer, Receive, Respond, CheckGroupHash, FindPipeline,
         CheckActive, CheckIteration, NotifyAll, Reserve, BackendStart, PublishIteration,
         PublishActive, Release, BackendStage, BackendExecute, BackendCleanup, Deactivate,
         AbortActive, AbortIteration, AfterAbortWrite, CreatePipeline, DestroyPipeline
<1>2. ASSUME Serve(h) \/ \E r \in Requests : Receive(h, r)
      PROVE  NotifyAll(h)
  BY <1>2 DEF Serve, At, Receive, Respond, CheckGroupHash, FindPipeline,
         CheckActive, CheckIteration, NotifyAll, Reserve, BackendStart, PublishIteration,
         PublishActive, Release, BackendStage, BackendExecute, BackendCleanup, Deactivate,
         AbortActive, AbortIteration, MayAbort, CreatePipeline, DestroyPipeline
<1>3. ASSUME NEW l \in Leavers, LeaveReceive(l) \/ Leave(l)
      PROVE  pc'[h] = pc[h]
  BY <1>3 DEF LeaveReceive, Leave, LeaveWait, LeaveGroup, handlerVars
<1> QED
  BY <1>1, <1>2, <1>3 DEF Next, Finalized, vars, handlerVars

\* Only a thread that saw a counter other than 0 falls asleep.
LEMMA NewWaiter ==
    ASSUME TypeOK, [Next]_vars, NEW l \in Leavers, leaver'[l] = "waiting"
    PROVE  leaver[l] = "waiting" \/ (/\ m_num_active_pipelines # 0
                                     /\ UNCHANGED m_num_active_pipelines)
<1>1. ASSUME NEW k \in Leavers, LeaveReceive(k) \/ Leave(k)
      PROVE  leaver[l] = "waiting" \/ LeaveWait(k)
  BY <1>1 DEF LeaveReceive, Leave, LeaveWait, LeaveGroup, TypeOK
<1>2. ASSUME NEW h \in Handlers, NotifyAll(h) PROVE FALSE
  BY <1>2 DEF NotifyAll
<1>3. ASSUME NEW h \in Handlers, Serve(h) \/ \E r \in Requests : Receive(h, r), ~NotifyAll(h)
      PROVE  leaver' = leaver
  BY <1>3 DEF Serve, Receive, Respond, CheckGroupHash, FindPipeline,
         CheckActive, CheckIteration, Reserve, BackendStart, PublishIteration,
         PublishActive, Release, BackendStage, BackendExecute, BackendCleanup, Deactivate,
         AbortActive, AbortIteration, CreatePipeline, DestroyPipeline
<1> QED
  BY <1>1, <1>2, <1>3 DEF Next, Finalized, vars, LeaveWait, lockVars

\* A thread asleep in leave is woken whenever the counter reaches 0.
THEOREM WakeupsKept == ASSUME Synchronous PROVE Spec => []NoLostWakeup
<1>1. Init => NoLostWakeup
  BY DEF Init, NoLostWakeup
<1>2. CountInv /\ NoLostWakeup /\ [Next]_vars => NoLostWakeup'
  <2> SUFFICES ASSUME CountInv, NoLostWakeup, [Next]_vars,
                      m_num_active_pipelines' = 0,
                      NEW l \in Leavers, leaver'[l] = "waiting"
               PROVE  \E h \in Handlers : pc'[h] = "notify"
    BY DEF NoLostWakeup, At
  <2>1. CASE m_num_active_pipelines = 0
    <3>1. leaver[l] = "waiting"
      BY <2>1, NewWaiter DEF CountInv
    <3>2. PICK h \in Handlers : pc[h] = "notify"
      BY <2>1, <3>1 DEF NoLostWakeup, At
    <3>3. ~NotifyAll(h)
      BY DEF NotifyAll
    <3> QED
      BY <3>2, <3>3, OnlyNotifyAllEndsNotify DEF CountInv
  <2>2. CASE m_num_active_pipelines # 0
    <3>1. ~ChargesSame
      BY <2>2 DEF ChargesSame
    <3>2. ~ChargesOne
      BY ChargedFits, BoundsNat DEF ChargesOne, Increment, CountInv, CountExact
    <3> QED
      BY <3>1, <3>2, StepCharges DEF CountInv, ReleasesOne
  <2> QED
    BY <2>1, <2>2
<1> QED
  BY <1>1, <1>2, CountInvariant, PTL DEF Spec

==============================================================================
