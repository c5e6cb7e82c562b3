------------------------- MODULE PipelineDataProofs -------------------------
(* Theorems about the data and the iterations of the pipelines of           *)
(* ColzaProvider, for every value of its constants, of disciplined clients. *)
EXTENDS ColzaProviderProofs

------------------------------------------------------------------------------
(* The inductive invariant. *)

\* What handler h knows of the object it holds, beyond HandlerConsistent: the
\* iteration it checked, and that nothing is staged where it will reset the
\* fields. It does not know whether the object is still registered.
Knows(h) ==
    /\ pc[h] \in CallPcs \cup {"deactivate", "publishActive"}
         => iteration[obj[h]] = req[h].iteration
    /\ pc[h] \in {"deactivate", "publishIteration"} => data[obj[h]] = {}
    /\ pc[h] \in HoldingPcs /\ req[h].op = "abort" => data[obj[h]] = {}
    /\ pc[h] = "find" /\ req[h].op = "abort" /\ m_pipelines[req[h].name] # NoObject
         => data[m_pipelines[req[h].name]] = {}
    /\ pc[h] \in {"create", "destroy"} => req[h].op = pc[h]

\* The answer of a start.
Started(h) ==
    /\ pc[h] = "release" => reply[h] # "SUCCESS"
    /\ pc[h] = "notify" /\ req[h].op = "start" => reply[h] # "SUCCESS"
    /\ pc[h] = "respond" /\ req[h].op = "start" /\ reply[h] = "SUCCESS"
         => /\ obj[h] \in active
            /\ obj[h][1] = req[h].name
            /\ iteration[obj[h]] = req[h].iteration

\* Objects that are registered or held have been created, and one that has
\* not holds nothing.
MadeKnown ==
    /\ \A n \in Names : m_pipelines[n] # NoObject => m_pipelines[n] \in Made
    /\ \A h \in Handlers : pc[h] \in HoldingPcs => obj[h] \in Made
    /\ \A o \in Objects \ Made : data[o] = {}

DataInv ==
    /\ \A h \in Handlers : Knows(h) /\ Started(h)
    /\ NoStrandedData

------------------------------------------------------------------------------
(* The objects that were created. *)

\* Every other handler stays as it is.
OthersStay(h) ==
    \A g \in Handlers : g # h => /\ pc'[g] = pc[g] /\ req'[g] = req[g]
                                 /\ obj'[g] = obj[g] /\ reply'[g] = reply[g]

LEMMA ServeStays ==
    ASSUME TypeOK, NEW h \in Handlers, Serve(h)
    PROVE  OthersStay(h)
<1> USE DEF OthersStay, TypeOK, At, Goto, Answer
<1>1. CASE CheckGroupHash(h) \/ FindPipeline(h) \/ CheckActive(h) \/ CheckIteration(h)
  BY <1>1 DEF CheckGroupHash, FindPipeline, CheckActive, CheckIteration
<1>2. CASE Reserve(h) \/ BackendStart(h) \/ Release(h) \/ PublishIteration(h) \/ PublishActive(h)
  BY <1>2 DEF Reserve, BackendStart, Release, PublishIteration, PublishActive
<1>3. CASE BackendStage(h) \/ BackendExecute(h) \/ BackendCleanup(h) \/ Deactivate(h)
  BY <1>3 DEF BackendStage, BackendExecute, BackendCleanup, Deactivate
<1>4. CASE AbortActive(h) \/ AbortIteration(h)
  BY <1>4 DEF AbortActive, AbortIteration, AfterAbortWrite
<1>5. CASE CreatePipeline(h) \/ DestroyPipeline(h) \/ NotifyAll(h) \/ Respond(h)
  BY <1>5 DEF CreatePipeline, DestroyPipeline, NotifyAll, Respond, handlerVars
<1> QED
  BY <1>1, <1>2, <1>3, <1>4, <1>5 DEF Serve

LEMMA ServeMade ==
    ASSUME TypeOK, MadeKnown, NEW h \in Handlers, Serve(h)
    PROVE  MadeKnown' /\ Made \subseteq Made'
<1> USE DEF HoldingPcs, StartPcs, ReleasingPcs, CallPcs, At, Goto, Answer, tableVars, TypeOK
<1>1. CASE FindPipeline(h)
  <2>1. req[h].name \in Names
    BY <1>1, RequestFields DEF FindPipeline, InFlight
  <2>2. pc'[h] \in HoldingPcs => obj'[h] \in Made
    BY <1>1, <2>1 DEF FindPipeline, MadeKnown
  <2>3. OthersStay(h) /\ UNCHANGED <<m_pipelines, created, data>>
    BY <1>1, ServeStays DEF FindPipeline, Serve, objectVars
  <2> QED
    BY <2>2, <2>3 DEF MadeKnown, Made, OthersStay
<1>2. CASE ~FindPipeline(h)
  <2>1. pc'[h] \in HoldingPcs => pc[h] \in HoldingPcs
    <3>1. CASE CheckGroupHash(h) \/ CheckActive(h) \/ CheckIteration(h)
      BY <3>1 DEF CheckGroupHash, CheckActive, CheckIteration
    <3>2. CASE Reserve(h) \/ BackendStart(h) \/ Release(h) \/ PublishIteration(h)
                 \/ PublishActive(h)
      BY <3>2 DEF Reserve, BackendStart, Release, PublishIteration, PublishActive
    <3>3. CASE BackendStage(h) \/ BackendExecute(h) \/ BackendCleanup(h) \/ Deactivate(h)
      BY <3>3 DEF BackendStage, BackendExecute, BackendCleanup, Deactivate
    <3>4. CASE AbortActive(h) \/ AbortIteration(h)
      BY <3>4 DEF AbortActive, AbortIteration, MayAbort, AfterAbortWrite
    <3>5. CASE CreatePipeline(h) \/ DestroyPipeline(h) \/ NotifyAll(h) \/ Respond(h)
      BY <3>5 DEF CreatePipeline, DestroyPipeline, NotifyAll, Respond
    <3> QED
      BY <1>2, <3>1, <3>2, <3>3, <3>4, <3>5 DEF Serve
  <2>2. \/ Respond(h)
        \/ UNCHANGED obj
    BY <1>2 DEF Serve, CheckGroupHash, CheckActive, CheckIteration, Reserve, BackendStart,
       Release, PublishIteration, PublishActive, BackendStage, BackendExecute,
       BackendCleanup, Deactivate, AbortActive, AbortIteration, CreatePipeline,
       DestroyPipeline, NotifyAll
  <2>3. pc'[h] \in HoldingPcs => pc[h] \in HoldingPcs /\ obj'[h] = obj[h]
    BY <2>1, <2>2 DEF Respond
  <2>4. /\ Made \subseteq Made'
        /\ \A n \in Names : m_pipelines'[n] # NoObject => m_pipelines'[n] \in Made'
    <3>1. CASE UNCHANGED <<m_pipelines, created>>
      BY <3>1 DEF MadeKnown, Made
    <3>2. CASE DestroyPipeline(h)
      BY <3>2 DEF DestroyPipeline, MadeKnown, Made
    <3>3. CASE CreatePipeline(h) /\ ~UNCHANGED <<m_pipelines, created>>
      <4> DEFINE n == req[h].name
                 o == <<n, created[n] + 1>>
      <4>1. n \in Names
        BY <3>3, RequestFields DEF CreatePipeline, InFlight
      <4>2. /\ created' = [created EXCEPT ![n] = @ + 1] /\ created[n] < MaxGeneration
            /\ m_pipelines' = [m_pipelines EXCEPT ![n] = o]
        BY <3>3 DEF CreatePipeline
      <4>3. o \in Objects
        BY <4>1, <4>2, BoundsNat DEF Objects
      <4>4. \A m \in Names : created[m] \in Nat /\ created'[m] \in Nat /\ created[m] <= created'[m]
        BY <4>1, <4>2, BoundsNat
      <4>5. Made \subseteq Made'
        BY <4>4, BoundsNat DEF Made, Objects
      <4>6. o \in Made'
        BY <4>1, <4>2, <4>3, <4>4 DEF Made
      <4> HIDE DEF o
      <4> QED
        BY <4>1, <4>2, <4>5, <4>6 DEF MadeKnown
    <3> QED
      BY <1>2, <3>1, <3>2, <3>3 DEF Serve, CheckGroupHash, CheckActive, CheckIteration,
         Reserve, BackendStart, Release, PublishIteration, PublishActive, BackendStage,
         BackendExecute, BackendCleanup, Deactivate, AbortActive, AbortIteration,
         NotifyAll, Respond
  <2>5. OthersStay(h)
    BY ServeStays
  <2>6. \/ data' = data
        \/ pc[h] \in HoldingPcs /\ \E d : data' = [data EXCEPT ![obj[h]] = d]
    BY <1>2 DEF Serve, CheckGroupHash, CheckActive, CheckIteration, Reserve, BackendStart,
       Release, PublishIteration, PublishActive, BackendStage, BackendExecute,
       BackendCleanup, Deactivate, AbortActive, AbortIteration, CreatePipeline,
       DestroyPipeline, NotifyAll, Respond, objectVars
  <2>7. \A o \in Objects \ Made' : data'[o] = {}
    <3>1. \A o \in Objects : o \notin Made => data'[o] = data[o] /\ data[o] = {}
      BY <2>6 DEF MadeKnown
    <3> QED
      BY <2>4, <3>1
  <2> QED
    BY <2>3, <2>4, <2>5, <2>7 DEF MadeKnown, OthersStay
<1> QED
  BY <1>1, <1>2

LEMMA ReceiveStays ==
    ASSUME TypeOK, NEW h \in Handlers, NEW r \in Requests, Receive(h, r)
    PROVE  /\ OthersStay(h)
           /\ UNCHANGED <<active, iteration, data, m_pipelines, created, left, obj, reply>>
           /\ pc[h] = "idle" /\ pc'[h] \in {"hash", "create", "destroy", "find"}
<1>1. FirstPc(r.op) \in {"hash", "create", "destroy", "find"}
  BY DEF FirstPc
<1> QED
  BY <1>1 DEF Receive, TypeOK, OthersStay, At, Goto, objectVars, tableVars

LEMMA LeaveStays ==
    ASSUME NEW l \in Leavers, LeaveReceive(l) \/ Leave(l)
    PROVE  /\ UNCHANGED <<active, iteration, data, created, pc, req, obj, reply>>
           /\ UNCHANGED <<m_pipelines, left>> \/ LeaveGroup(l)
  BY DEF LeaveReceive, Leave, LeaveWait, LeaveGroup, objectVars, tableVars, handlerVars


LEMMA NextMade ==
    ASSUME TypeOK, MadeKnown, [Next]_vars
    PROVE  MadeKnown'
<1>1. ASSUME NEW h \in Handlers, NEW r \in Requests, Receive(h, r) PROVE MadeKnown'
  <2>1. /\ OthersStay(h)
        /\ UNCHANGED <<data, m_pipelines, created, obj>>
        /\ pc'[h] \in {"hash", "create", "destroy", "find"}
    BY <1>1, ReceiveStays
  <2>2. pc'[h] \notin HoldingPcs
    BY <2>1 DEF HoldingPcs, StartPcs, ReleasingPcs, CallPcs
  <2> QED
    BY <2>1, <2>2 DEF MadeKnown, Made, OthersStay
<1>2. ASSUME NEW h \in Handlers, Serve(h) PROVE MadeKnown'
  BY <1>2, ServeMade
<1>3. ASSUME NEW l \in Leavers, LeaveReceive(l) \/ Leave(l) PROVE MadeKnown'
  BY <1>3, LeaveStays DEF LeaveGroup, MadeKnown, Made
<1>4. ASSUME UNCHANGED vars PROVE MadeKnown'
  BY <1>4 DEF vars, objectVars, tableVars, handlerVars, MadeKnown, Made
<1> QED
  BY <1>1, <1>2, <1>3, <1>4 DEF Next, Finalized

LEMMA InitMade == Init => MadeKnown
<1> SUFFICES ASSUME Init PROVE MadeKnown
  OBVIOUS
<1>1. PICK configured \in SUBSET Names :
        /\ m_pipelines = [n \in Names |-> IF n \in configured /\ MaxGeneration > 0
                                          THEN <<n, 1>> ELSE NoObject]
        /\ created = [n \in Names |-> IF n \in configured /\ MaxGeneration > 0 THEN 1 ELSE 0]
  BY DEF Init
<1>2. ASSUME NEW n \in Names, m_pipelines[n] # NoObject PROVE m_pipelines[n] \in Made
  <2>1. m_pipelines[n] = <<n, 1>> /\ created[n] = 1 /\ MaxGeneration > 0
    BY <1>1, <1>2
  <2>2. <<n, 1>> \in Objects
    BY <2>1, BoundsNat DEF Objects
  <2> QED
    BY <2>1, <2>2 DEF Made
<1>3. \A h \in Handlers : pc[h] = "idle"
  BY DEF Init
<1> QED
  BY <1>2, <1>3 DEF Init, MadeKnown, HoldingPcs, StartPcs, ReleasingPcs, CallPcs

------------------------------------------------------------------------------
(* The handlers that do not move. *)

\* What is registered under a name may be unregistered, or replaced by an
\* object that holds nothing.
TableMoves ==
    \A n \in Names : \/ m_pipelines'[n] \in {m_pipelines[n], NoObject}
                     \/ data[m_pipelines'[n]] = {}

\* Steps that change no object.
LEMMA StillKnows ==
    ASSUME TypeOK, NEW g \in Handlers, Knows(g), Started(g),
           UNCHANGED <<active, iteration, data>>, TableMoves,
           pc'[g] = pc[g], req'[g] = req[g], obj'[g] = obj[g], reply'[g] = reply[g]
    PROVE  Knows(g)' /\ Started(g)'
<1>1. pc[g] = "find" => req[g].name \in Names
  BY RequestFields DEF TypeOK, InFlight, At
<1>2. pc[g] = "find" /\ req[g].op = "abort" /\ m_pipelines'[req[g].name] # NoObject
        => data[m_pipelines'[req[g].name]] = {}
  BY <1>1 DEF TableMoves, Knows
<1> QED
  BY <1>2 DEF Knows, Started

\* A handler with a request on its way.
LEMMA NamedAlike ==
    ASSUME TypeOK, ChecksStillHold, NEW g \in Handlers, InFlight(g)
    PROVE  /\ req[g].name \in Names
           /\ pc[g] \in HoldingPcs => /\ obj[g] \in Objects /\ obj[g][1] = req[g].name
                                      /\ req[g].op \in ClientOps
           /\ m_pipelines[req[g].name] # NoObject =>
                /\ m_pipelines[req[g].name] \in Objects
                /\ m_pipelines[req[g].name][1] = req[g].name
<1>1. req[g] \in Requests /\ req[g].name \in Names
  BY RequestFields DEF TypeOK
<1>2. pc[g] \in HoldingPcs => /\ obj[g] \in Objects /\ obj[g][1] = req[g].name
                              /\ req[g].op \in ClientOps
  BY ClientOpsHold DEF TypeOK, ChecksStillHold, HandlerConsistent
<1>3. m_pipelines[req[g].name] # NoObject =>
        /\ m_pipelines[req[g].name] \in Objects
        /\ m_pipelines[req[g].name][1] = req[g].name
  BY <1>1 DEF TypeOK, ChecksStillHold, NamesKept
<1> QED
  BY <1>1, <1>2, <1>3

\* Steps of a client's call that change objects of its own name only, and, if
\* it stages, only their data.
LEMMA OthersKnow ==
    ASSUME TypeOK, ChecksStillHold, DataInv,
           NEW h \in Handlers, InFlight(h), req[h].op \in ClientOps,
           \A o \in Objects : o[1] # req[h].name =>
             /\ iteration'[o] = iteration[o] /\ data'[o] = data[o]
             /\ o \in active' <=> o \in active,
           m_pipelines' = m_pipelines,
           req[h].op = "stage" => UNCHANGED <<active, iteration>>,
           NEW g \in Handlers, g # h,
           pc'[g] = pc[g], req'[g] = req[g], obj'[g] = obj[g], reply'[g] = reply[g]
    PROVE  Knows(g)' /\ Started(g)'
<1>1. Knows(g) /\ Started(g)
  BY DEF DataInv
<1>2. CASE ~InFlight(g)
  BY <1>2 DEF InFlight, At, Knows, Started, HoldingPcs, StartPcs, ReleasingPcs, CallPcs
<1>3. CASE InFlight(g) /\ req[g].op \notin ClientOps
  <2>1. pc[g] \notin HoldingPcs
    BY <1>3, NamedAlike
  <2> QED
    BY <1>1, <1>3, <2>1
       DEF Knows, Started, ClientOps, HoldingPcs, StartPcs, ReleasingPcs, CallPcs
<1>4. CASE InFlight(g) /\ req[g].name # req[h].name
  <2>1. /\ pc[g] \in HoldingPcs => obj[g] \in Objects /\ obj[g][1] = req[g].name
        /\ m_pipelines[req[g].name] # NoObject =>
             /\ m_pipelines[req[g].name] \in Objects
             /\ m_pipelines[req[g].name][1] = req[g].name
    BY <1>4, NamedAlike
  <2>2. m_pipelines[req[g].name] # NoObject =>
          data'[m_pipelines[req[g].name]] = data[m_pipelines[req[g].name]]
    BY <1>4, <2>1
  <2>3. pc[g] \in HoldingPcs => /\ iteration'[obj[g]] = iteration[obj[g]]
                                /\ data'[obj[g]] = data[obj[g]]
    BY <1>4, <2>1
  <2>4. Knows(g)'
    BY <1>1, <2>2, <2>3 DEF Knows, HoldingPcs, StartPcs, CallPcs
  <2>5. Started(g)'
    BY <1>1, <1>4 DEF Started, TypeOK
  <2> QED
    BY <2>4, <2>5
<1>5. CASE InFlight(g) /\ req[g].op \in ClientOps /\ req[g].name = req[h].name
  <2>1. req[g].op = "stage" /\ req[h].op = "stage"
    BY <1>5 DEF ChecksStillHold, Exclusive
  <2>2. pc[g] \notin {"deactivate", "publishIteration"}
    BY <2>1 DEF ChecksStillHold, HandlerConsistent, OpAt, HoldingPcs, StartPcs
  <2> QED
    BY <1>1, <2>1, <2>2 DEF Knows, Started
<1> QED
  BY <1>2, <1>3, <1>4, <1>5

------------------------------------------------------------------------------
(* One step. *)

\* A step of h that changes no object.
LEMMA QuietData ==
    ASSUME TypeOK, DataInv, NEW h \in Handlers,
           UNCHANGED <<active, iteration, data>>, TableMoves,
           \A g \in Handlers : g # h => /\ pc'[g] = pc[g] /\ req'[g] = req[g]
                                        /\ obj'[g] = obj[g] /\ reply'[g] = reply[g],
           Knows(h)', Started(h)'
    PROVE  DataInv'
<1>1. \A g \in Handlers : Knows(g)' /\ Started(g)'
  BY StillKnows DEF DataInv
<1>2. NoStrandedData'
  BY DEF DataInv, NoStrandedData
<1> QED
  BY <1>1, <1>2 DEF DataInv

\* A step of h that changes them.
LEMMA LoudData ==
    ASSUME TypeOK, ChecksStillHold, DataInv,
           NEW h \in Handlers, InFlight(h), req[h].op \in ClientOps,
           \A o \in Objects : o[1] # req[h].name =>
             /\ iteration'[o] = iteration[o] /\ data'[o] = data[o]
             /\ o \in active' <=> o \in active,
           m_pipelines' = m_pipelines,
           req[h].op = "stage" => UNCHANGED <<active, iteration>>,
           \A g \in Handlers : g # h => /\ pc'[g] = pc[g] /\ req'[g] = req[g]
                                        /\ obj'[g] = obj[g] /\ reply'[g] = reply[g],
           Knows(h)', Started(h)', NoStrandedData'
    PROVE  DataInv'
<1>1. \A g \in Handlers : Knows(g)' /\ Started(g)'
  <2>1. ASSUME NEW g \in Handlers, g # h PROVE Knows(g)' /\ Started(g)'
    BY <2>1, OthersKnow
  <2> QED
    BY <2>1
<1> QED
  BY <1>1 DEF DataInv

\* Most steps leave the table alone.
LEMMA TableStays == m_pipelines' = m_pipelines => TableMoves
BY DEF TableMoves

LEMMA ReceiveData ==
    ASSUME Synchronous, TypeOK, DataInv, NEW h \in Handlers, NEW r \in Requests, Receive(h, r)
    PROVE  DataInv'
<1>1. /\ pc' = [pc EXCEPT ![h] = FirstPc(r.op)] /\ req' = [req EXCEPT ![h] = r]
      /\ UNCHANGED <<objectVars, m_pipelines, left, obj, reply>> /\ Disciplined(r)
  BY DEF Receive, Goto, tableVars
<1>2. /\ FirstPc(r.op) \in {"hash", "create", "destroy", "find"}
      /\ FirstPc(r.op) \in {"create", "destroy"} => r.op = FirstPc(r.op)
  BY RequestFields DEF FirstPc, AllOps
<1>3. pc'[h] = FirstPc(r.op) /\ req'[h] = r
  BY <1>1 DEF TypeOK
<1>4. Knows(h)'
  BY <1>1, <1>2, <1>3 DEF Knows, Disciplined, ClientOps, objectVars, HoldingPcs, StartPcs, ReleasingPcs, CallPcs
<1>5. Started(h)'
  BY <1>2, <1>3 DEF Started
<1> QED
  BY <1>1, <1>4, <1>5, QuietData, TableStays DEF objectVars, TypeOK

LEMMA CheckingData ==
    ASSUME TypeOK, ChecksStillHold, DataInv, NEW h \in Handlers,
           CheckGroupHash(h) \/ FindPipeline(h) \/ CheckActive(h) \/ CheckIteration(h)
    PROVE  DataInv'
<1> USE DEF At, Goto, Answer, objectVars, tableVars, HoldingPcs, StartPcs, ReleasingPcs, CallPcs
<1>0. /\ Knows(h) /\ HandlerConsistent(h)
      /\ req[h].op \in AllOps /\ req[h].name \in Names
  BY RequestFields DEF DataInv, ChecksStillHold, TypeOK, InFlight,
     CheckGroupHash, FindPipeline, CheckActive, CheckIteration
<1>1. /\ UNCHANGED <<active, iteration, data, m_pipelines, left, req>>
      /\ \A g \in Handlers : g # h => /\ pc'[g] = pc[g] /\ req'[g] = req[g]
                                      /\ obj'[g] = obj[g] /\ reply'[g] = reply[g]
  BY DEF CheckGroupHash, FindPipeline, CheckActive, CheckIteration, TypeOK
<1>2. CASE pc'[h] = "respond"
  <2>1. reply'[h] # "SUCCESS" \/ req[h].op = "check"
    BY <1>2 DEF CheckGroupHash, FindPipeline, CheckActive, CheckIteration, CallPc, TypeOK
  <2>2. Knows(h)' /\ Started(h)'
    BY <1>1, <1>2, <2>1 DEF Knows, Started
  <2> QED
    BY <1>1, <2>2, QuietData, TableStays
<1>3. CASE pc'[h] # "respond" /\ CheckGroupHash(h)
  <2>1. pc'[h] = "find" /\ req[h].op = "start"
    BY <1>0, <1>3 DEF CheckGroupHash, HandlerConsistent, OpAt, TypeOK
  <2>2. Knows(h)' /\ Started(h)'
    BY <1>1, <2>1 DEF Knows, Started
  <2> QED
    BY <1>1, <2>2, QuietData, TableStays
<1>4. CASE pc'[h] # "respond" /\ FindPipeline(h)
  <2>1. /\ pc'[h] = "checkActive" /\ obj'[h] = m_pipelines[req[h].name]
        /\ m_pipelines[req[h].name] # NoObject /\ pc[h] = "find"
    BY <1>4 DEF FindPipeline, TypeOK
  <2>2. Knows(h)' /\ Started(h)'
    BY <1>0, <1>1, <2>1 DEF Knows, Started
  <2> QED
    BY <1>1, <2>2, QuietData, TableStays
<1>5. CASE pc'[h] # "respond" /\ CheckActive(h)
  <2>1. pc'[h] = "checkIteration" /\ obj' = obj /\ pc[h] = "checkActive"
    BY <1>5 DEF CheckActive, TypeOK
  <2>2. Knows(h)' /\ Started(h)'
    BY <1>0, <1>1, <2>1 DEF Knows, Started
  <2> QED
    BY <1>1, <2>2, QuietData, TableStays
<1>6. CASE pc'[h] # "respond" /\ CheckIteration(h)
  <2>1. /\ pc'[h] = CallPc(req[h].op) /\ obj' = obj /\ pc[h] = "checkIteration"
        /\ req[h].op # "start" => iteration[obj[h]] = req[h].iteration
    BY <1>6 DEF CheckIteration, TypeOK
  <2>2. /\ pc'[h] \in {"reserve", "callStage", "callExecute", "callCleanup", "callAbort"}
        /\ pc'[h] \in CallPcs => req[h].op # "start"
    BY <2>1 DEF CallPc
  <2>3. Knows(h)' /\ Started(h)'
    BY <1>0, <1>1, <2>1, <2>2 DEF Knows, Started
  <2> QED
    BY <1>1, <2>3, QuietData, TableStays
<1> QED
  BY <1>2, <1>3, <1>4, <1>5, <1>6

\* The other steps that change no object.
LEMMA CallingData ==
    ASSUME TypeOK, ChecksStillHold, DataInv, NEW h \in Handlers,
           Reserve(h) \/ BackendStart(h) \/ Release(h) \/ BackendExecute(h)
             \/ NotifyAll(h) \/ Respond(h)
    PROVE  DataInv'
<1> USE DEF At, Goto, Answer, objectVars, tableVars, HoldingPcs, StartPcs, ReleasingPcs, CallPcs
<1>0. Knows(h) /\ Started(h) /\ HandlerConsistent(h)
  BY DEF DataInv, ChecksStillHold
<1>1. /\ UNCHANGED <<active, iteration, data, m_pipelines, left>>
      /\ \A g \in Handlers : g # h => /\ pc'[g] = pc[g] /\ req'[g] = req[g]
                                      /\ obj'[g] = obj[g] /\ reply'[g] = reply[g]
  BY DEF Reserve, BackendStart, Release, BackendExecute, NotifyAll, Respond, TypeOK
<1>2. CASE Reserve(h) \/ BackendStart(h)
  <2>1. /\ pc[h] \in StartPcs /\ pc'[h] \in {"callStart", "publish", "release"}
        /\ pc'[h] = "release" => reply'[h] # "SUCCESS"
        /\ UNCHANGED <<req, obj>>
    BY <1>2 DEF Reserve, BackendStart, TypeOK
  <2>2. Knows(h)' /\ Started(h)'
    BY <1>0, <1>1, <2>1 DEF Knows, Started
  <2> QED
    BY <1>1, <2>2, QuietData, TableStays
<1>3. CASE Release(h)
  <2>1. pc[h] = "release" /\ pc'[h] = "notify" /\ UNCHANGED <<req, obj, reply>>
    BY <1>3 DEF Release, TypeOK
  <2>2. Knows(h)' /\ Started(h)'
    BY <1>0, <1>1, <2>1 DEF Knows, Started
  <2> QED
    BY <1>1, <2>2, QuietData, TableStays
<1>4. CASE BackendExecute(h)
  <2>1. /\ pc[h] = "callExecute" /\ pc'[h] \in {"autoCleanup", "respond"}
        /\ UNCHANGED <<req, obj>> /\ req[h].op = "execute"
    BY <1>0, <1>4 DEF BackendExecute, TypeOK, HandlerConsistent, OpAt
  <2>2. Knows(h)' /\ Started(h)'
    BY <1>0, <1>1, <2>1 DEF Knows, Started
  <2> QED
    BY <1>1, <2>2, QuietData, TableStays
<1>5. CASE NotifyAll(h) \/ Respond(h)
  <2>1. \/ pc'[h] = "idle"
        \/ pc[h] = "notify" /\ pc'[h] = "respond" /\ UNCHANGED <<req, obj, reply>>
    BY <1>5 DEF NotifyAll, Respond, TypeOK
  <2>2. Knows(h)' /\ Started(h)'
    BY <1>0, <1>1, <2>1 DEF Knows, Started
  <2> QED
    BY <1>1, <2>2, QuietData, TableStays
<1> QED
  BY <1>2, <1>3, <1>4, <1>5

\* The object a handler holds, and what it may assume of it.
LEMMA Held ==
    ASSUME TypeOK, ChecksStillHold, DataInv, NEW h \in Handlers, pc[h] \in HoldingPcs
    PROVE  /\ InFlight(h) /\ req[h].op \in ClientOps /\ req[h].name \in Names
           /\ req[h].iteration \in Iterations
           /\ obj[h] \in Objects /\ obj[h][1] = req[h].name
           /\ Knows(h) /\ Started(h) /\ HandlerConsistent(h)
<1>1. InFlight(h)
  BY DEF InFlight, At, HoldingPcs, StartPcs, ReleasingPcs, CallPcs
<1>2. req[h].iteration \in Iterations
  BY <1>1, RequestFields DEF TypeOK
<1> QED
  BY <1>1, <1>2, NamedAlike DEF DataInv, ChecksStillHold

LEMMA PublishData ==
    ASSUME TypeOK, ChecksStillHold, DataInv, NEW h \in Handlers,
           PublishIteration(h) \/ PublishActive(h)
    PROVE  DataInv'
<1> DEFINE o == obj[h]
<1>1. /\ pc[h] \in {"publish", "publishIteration", "publishActive"}
      /\ UNCHANGED <<data, m_pipelines, left, req, obj, reply>>
      /\ \A g \in Handlers : g # h => pc'[g] = pc[g]
      /\ pc'[h] \in {"publishIteration", "publishActive", "respond"}
  BY DEF PublishIteration, PublishActive, tableVars, Goto, TypeOK
<1>2. /\ InFlight(h) /\ req[h].op = "start" /\ req[h].name \in Names
      /\ req[h].iteration \in Iterations
      /\ o \in Objects /\ o[1] = req[h].name
      /\ Knows(h) /\ HandlerConsistent(h)
  <2>1. pc[h] \in HoldingPcs /\ OpAt(pc[h]) = {"start"}
    BY <1>1 DEF HoldingPcs, StartPcs, ReleasingPcs, CallPcs, OpAt
  <2> QED
    BY <2>1, Held DEF HandlerConsistent
<1>3. /\ pc[h] \in {"publish", "publishActive"} => o \notin active
      /\ pc[h] = "publishIteration" => o \in active
  BY <1>2 DEF HandlerConsistent, SawInactive, SawActive, ChargedPcs
<1>4. data[o] = {}
  BY <1>1, <1>2, <1>3 DEF DataInv, NoStrandedData, Knows
<1>5. \A x \in Objects : x # o => /\ iteration'[x] = iteration[x]
                                  /\ x \in active' <=> x \in active
  BY <1>2 DEF PublishIteration, PublishActive, TypeOK
<1>6. NoStrandedData'
  BY <1>1, <1>4, <1>5 DEF DataInv, NoStrandedData
<1>7. CASE PublishIteration(h)
  <2>1. /\ iteration'[o] = req[h].iteration /\ active' = active
        /\ pc'[h] = IF pc[h] = "publish" THEN "publishActive" ELSE "respond"
        /\ pc[h] \in {"publish", "publishIteration"}
    BY <1>2, <1>7 DEF PublishIteration, Goto, At, TypeOK
  <2>2. Knows(h)'
    BY <1>1, <1>2, <2>1 DEF Knows, HoldingPcs, StartPcs, ReleasingPcs, CallPcs
  <2>3. Started(h)'
    BY <1>1, <1>2, <1>3, <2>1 DEF Started
  <2> QED
    BY <1>1, <1>2, <1>5, <1>6, <2>2, <2>3, LoudData DEF ClientOps
<1>8. CASE PublishActive(h)
  <2>1. /\ iteration' = iteration /\ o \in active'
        /\ pc'[h] = IF pc[h] = "publish" THEN "publishIteration" ELSE "respond"
        /\ pc[h] \in {"publish", "publishActive"}
    BY <1>8 DEF PublishActive, Goto, At, TypeOK
  <2>2. Knows(h)'
    BY <1>1, <1>2, <1>4, <2>1 DEF Knows, HoldingPcs, StartPcs, ReleasingPcs, CallPcs
  <2>3. Started(h)'
    BY <1>1, <1>2, <2>1 DEF Started, Knows
  <2> QED
    BY <1>1, <1>2, <1>5, <1>6, <2>2, <2>3, LoudData DEF ClientOps
<1> QED
  BY <1>7, <1>8

\* Steps that change what the backend holds.
LEMMA BackendData ==
    ASSUME TypeOK, ChecksStillHold, DataInv, NEW h \in Handlers,
           BackendStage(h) \/ BackendCleanup(h)
    PROVE  DataInv'
<1> DEFINE o == obj[h]
<1>1. /\ pc[h] \in {"callStage", "autoCleanup", "callCleanup"}
      /\ UNCHANGED <<active, iteration, m_pipelines, left, req, obj>>
      /\ \A g \in Handlers : g # h => pc'[g] = pc[g] /\ reply'[g] = reply[g]
      /\ pc'[h] \in {"deactivate", "notify", "respond"}
  BY DEF BackendStage, BackendCleanup, tableVars, Goto, At, Answer, TypeOK
<1>2. /\ InFlight(h) /\ req[h].op \in {"stage", "execute", "cleanup"} /\ req[h].name \in Names
      /\ req[h].iteration \in Iterations
      /\ o \in Objects /\ o[1] = req[h].name
      /\ Knows(h) /\ HandlerConsistent(h)
  <2>1. pc[h] \in HoldingPcs /\ OpAt(pc[h]) \subseteq {"stage", "execute", "cleanup"}
    BY <1>1 DEF HoldingPcs, StartPcs, ReleasingPcs, CallPcs, OpAt
  <2> QED
    BY <2>1, Held DEF HandlerConsistent
<1>3. o \in active /\ iteration[o] = req[h].iteration
  BY <1>1, <1>2 DEF HandlerConsistent, SawActive, CallPcs, Knows
<1>4. data[o] \subseteq {req[h].iteration}
  BY <1>2, <1>3 DEF DataInv, NoStrandedData
<1>5. \A x \in Objects : x # o => data'[x] = data[x]
  BY <1>2 DEF BackendStage, BackendCleanup, TypeOK
<1>6. data'[o] \in {{}, {req[h].iteration}} /\ (pc'[h] = "deactivate" => data'[o] = {})
  BY <1>1, <1>2, <1>4 DEF BackendStage, BackendCleanup, Goto, At, Answer, TypeOK
<1>7. NoStrandedData'
  BY <1>1, <1>3, <1>5, <1>6 DEF DataInv, NoStrandedData
<1>8. Knows(h)'
  BY <1>1, <1>2, <1>3, <1>6 DEF Knows, HoldingPcs, StartPcs, ReleasingPcs, CallPcs
<1>9. Started(h)'
  BY <1>1, <1>2 DEF Started
<1> QED
  BY <1>1, <1>2, <1>5, <1>7, <1>8, <1>9, LoudData DEF ClientOps

\* Steps that end an iteration.
LEMMA EndingData ==
    ASSUME TypeOK, ChecksStillHold, DataInv, NEW h \in Handlers,
           Deactivate(h) \/ AbortActive(h) \/ AbortIteration(h)
    PROVE  DataInv'
<1> DEFINE o == obj[h]
<1>1. /\ pc[h] \in {"deactivate", "callAbort", "abortActive", "abortIteration"}
      /\ UNCHANGED <<data, m_pipelines, left, req, obj>>
      /\ \A g \in Handlers : g # h => pc'[g] = pc[g] /\ reply'[g] = reply[g]
      /\ pc'[h] \in {"abortActive", "abortIteration", "notify"}
      /\ active' \in {active, active \ {o}}
      /\ iteration' \in {iteration, [iteration EXCEPT ![o] = Decrement(@, MaxIteration)]}
      /\ pc[h] = "deactivate" => pc'[h] = "notify" /\ iteration' = iteration
  BY DEF Deactivate, AbortActive, AbortIteration, MayAbort, AfterAbortWrite, tableVars,
         Goto, At, TypeOK
<1>2. /\ InFlight(h) /\ req[h].op \in {"execute", "cleanup", "abort"} /\ req[h].name \in Names
      /\ pc[h] # "deactivate" => req[h].op = "abort"
      /\ o \in Objects /\ o[1] = req[h].name
      /\ Knows(h)
  <2>1. /\ pc[h] \in HoldingPcs /\ OpAt(pc[h]) \subseteq {"execute", "cleanup", "abort"}
        /\ pc[h] # "deactivate" => OpAt(pc[h]) = {"abort"}
    BY <1>1 DEF HoldingPcs, StartPcs, CallPcs, ReleasingPcs, OpAt
  <2> QED
    BY <2>1, Held DEF HandlerConsistent
<1>3. data[o] = {}
  BY <1>1, <1>2 DEF Knows, HoldingPcs, CallPcs, ReleasingPcs
<1>4. \A x \in Objects : x # o => /\ iteration'[x] = iteration[x]
                                  /\ x \in active' <=> x \in active
  BY <1>1, <1>2 DEF TypeOK
<1>5. NoStrandedData'
  BY <1>1, <1>3, <1>4 DEF DataInv, NoStrandedData
<1>6. Knows(h)'
  BY <1>1, <1>2, <1>3 DEF Knows, HoldingPcs, StartPcs, ReleasingPcs, CallPcs
<1>7. Started(h)'
  BY <1>1, <1>2 DEF Started
<1> QED
  BY <1>1, <1>2, <1>4, <1>5, <1>6, <1>7, LoudData DEF ClientOps

\* A pipeline may be replaced under the handlers that hold it: they keep the
\* object they found, and the new one holds nothing.
LEMMA CreateData ==
    ASSUME TypeOK, MadeKnown, DataInv, NEW h \in Handlers, CreatePipeline(h)
    PROVE  DataInv'
<1> DEFINE n == req[h].name
           o == <<n, created[n] + 1>>
<1>1. /\ UNCHANGED <<active, iteration, data, req, obj>>
      /\ \A g \in Handlers : g # h => pc'[g] = pc[g] /\ reply'[g] = reply[g]
      /\ pc[h] = "create" /\ pc'[h] = "respond"
      /\ \/ m_pipelines' = m_pipelines
         \/ m_pipelines' = [m_pipelines EXCEPT ![n] = o] /\ created[n] < MaxGeneration
  BY DEF CreatePipeline, objectVars, Goto, At, Answer, TypeOK
<1>2. req[h].op = "create" /\ n \in Names
  BY <1>1, RequestFields DEF InFlight, At, DataInv, Knows, TypeOK
<1>3. created[n] < MaxGeneration => data[o] = {}
  <2> SUFFICES ASSUME created[n] < MaxGeneration PROVE data[o] = {}
    OBVIOUS
  <2>1. created[n] \in Nat /\ created[n] + 1 \in 1..MaxGeneration
    BY <1>2, BoundsNat DEF TypeOK
  <2>2. o \in Objects \ Made
    BY <1>2, <2>1 DEF Objects, Made
  <2> QED
    BY <2>2 DEF MadeKnown
<1>4. TableMoves
  BY <1>1, <1>2, <1>3 DEF TableMoves, TypeOK
<1>5. Knows(h)'
  BY <1>1 DEF Knows, HoldingPcs, StartPcs, ReleasingPcs, CallPcs
<1>6. Started(h)'
  BY <1>1, <1>2 DEF Started
<1> QED
  BY <1>1, <1>4, <1>5, <1>6, QuietData

LEMMA DestroyData ==
    ASSUME TypeOK, DataInv, NEW h \in Handlers, DestroyPipeline(h)
    PROVE  DataInv'
<1> DEFINE n == req[h].name
<1>1. /\ UNCHANGED <<active, iteration, data, req, obj>>
      /\ \A g \in Handlers : g # h => pc'[g] = pc[g] /\ reply'[g] = reply[g]
      /\ pc[h] = "destroy" /\ pc'[h] = "respond"
      /\ m_pipelines' \in {m_pipelines, [m_pipelines EXCEPT ![n] = NoObject]}
  BY DEF DestroyPipeline, objectVars, Goto, At, Answer, TypeOK
<1>2. req[h].op = "destroy" /\ n \in Names
  BY <1>1, RequestFields DEF InFlight, At, DataInv, Knows, TypeOK
<1>3. TableMoves
  BY <1>1, <1>2 DEF TableMoves, TypeOK
<1>4. Knows(h)'
  BY <1>1 DEF Knows, HoldingPcs, StartPcs, ReleasingPcs, CallPcs
<1>5. Started(h)'
  BY <1>1, <1>2 DEF Started
<1> QED
  BY <1>1, <1>3, <1>4, <1>5, QuietData

\* Once the provider left, its table is empty.
LEMMA LeaveData ==
    ASSUME TypeOK, DataInv, NEW l \in Leavers, LeaveReceive(l) \/ Leave(l)
    PROVE  DataInv'
<1>1. /\ UNCHANGED <<active, iteration, data, pc, req, obj, reply>>
      /\ m_pipelines' \in {m_pipelines, [n \in Names |-> NoObject]}
  BY DEF LeaveReceive, Leave, LeaveWait, LeaveGroup, objectVars, tableVars, handlerVars
<1>2. TableMoves
  BY <1>1 DEF TableMoves
<1>3. \A h \in Handlers : Knows(h)' /\ Started(h)'
  BY <1>1, <1>2, StillKnows DEF DataInv
<1> QED
  BY <1>1, <1>3 DEF DataInv, NoStrandedData

LEMMA NextData ==
    ASSUME Synchronous, TypeOK, ChecksStillHold, MadeKnown, DataInv, [Next]_vars
    PROVE  DataInv'
<1>1. ASSUME NEW h \in Handlers, NEW r \in Requests, Receive(h, r) PROVE DataInv'
  BY <1>1, ReceiveData
<1>2. ASSUME NEW h \in Handlers, Serve(h) PROVE DataInv'
  BY <1>2, CheckingData, CallingData, PublishData, BackendData, EndingData, CreateData,
     DestroyData DEF Serve
<1>3. ASSUME NEW l \in Leavers, LeaveReceive(l) \/ Leave(l) PROVE DataInv'
  BY <1>3, LeaveData
<1>4. ASSUME UNCHANGED vars PROVE DataInv'
  BY <1>4 DEF vars, objectVars, tableVars, handlerVars, DataInv, Knows, Started,
              NoStrandedData
<1> QED
  BY <1>1, <1>2, <1>3, <1>4 DEF Next, Finalized

LEMMA InitData == Init => DataInv
<1> SUFFICES ASSUME Init PROVE DataInv
  OBVIOUS
<1>1. \A h \in Handlers : pc[h] = "idle"
  BY DEF Init
<1>2. \A h \in Handlers : Knows(h) /\ Started(h)
  BY <1>1 DEF Knows, Started, HoldingPcs, StartPcs, ReleasingPcs, CallPcs
<1> QED
  BY <1>2 DEF Init, DataInv, NoStrandedData

LEMMA DataInvariant ==
    ASSUME Synchronous
    PROVE  Spec => [](CountInv /\ MadeKnown /\ DataInv)
<1>1. Init => MadeKnown /\ DataInv
  BY InitMade, InitData
<1>2. CountInv /\ MadeKnown /\ DataInv /\ [Next]_vars => MadeKnown' /\ DataInv'
  BY NextMade, NextData DEF CountInv
<1> QED
  BY <1>1, <1>2, CountInvariant, PTL DEF Spec

------------------------------------------------------------------------------
(* The theorems. *)

(* A backend is asked to stage, execute or clean up an iteration only       *)
(* between the start and the end of that iteration.                         *)
THEOREM BackendInsideIteration == ASSUME Synchronous PROVE Spec => []CallsInsideIteration
<1>1. CountInv /\ DataInv => CallsInsideIteration
  <2> SUFFICES ASSUME CountInv, DataInv, NEW h \in Handlers, pc[h] \in CallPcs
               PROVE  obj[h] \in active /\ iteration[obj[h]] = req[h].iteration
    BY DEF CallsInsideIteration
  <2> QED
    BY DEF CountInv, ChecksStillHold, HandlerConsistent, SawActive, DataInv, Knows
<1> QED
  BY <1>1, DataInvariant, PTL

(* What a backend still holds belongs to the iteration its pipeline is      *)
(* active at.                                                               *)
THEOREM DataInsideIteration == ASSUME Synchronous PROVE Spec => []NoStrandedData
<1>1. CountInv /\ DataInv => NoStrandedData
  BY DEF DataInv
<1> QED
  BY <1>1, DataInvariant, PTL

(* When start answers success, the pipeline is active at the iteration that *)
(* was asked for, and a thread in leave waits for it.                       *)
THEOREM StartKeepsPromise == ASSUME Synchronous PROVE Spec => []StartedMeansActive
<1>1. CountInv /\ DataInv => StartedMeansActive
  <2> SUFFICES ASSUME CountInv, DataInv, NEW h \in Handlers, At(h, "respond"),
                      reply[h] = "SUCCESS", req[h].op = "start"
               PROVE  /\ obj[h] \in active
                      /\ iteration[obj[h]] = req[h].iteration
                      /\ m_num_active_pipelines # 0
    BY DEF StartedMeansActive
  <2>1. obj[h] \in active /\ iteration[obj[h]] = req[h].iteration
    BY DEF DataInv, Started, At
  <2>2. obj[h] \in Charged /\ Charged \subseteq Objects
    BY <2>1 DEF Charged, CountInv, TypeOK
  <2>3. IsFiniteSet(Charged)
    BY <2>2, ObjectsFinite, FS_Subset
  <2>4. Cardinality(Charged) # 0
    BY <2>2, <2>3, FS_EmptySet
  <2> QED
    BY <2>1, <2>4 DEF CountInv, CountExact
<1> QED
  BY <1>1, DataInvariant, PTL

==============================================================================
