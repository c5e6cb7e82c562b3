---------------------- MODULE DistributedPipelineProofs ----------------------
(* Theorems about DistributedPipeline, for every value of its constants. *)
EXTENDS DistributedPipeline, TLAPS

------------------------------------------------------------------------------
(* The operators of the model. *)

Rpcs == {"none", "accepted"} \cup RpcNames \cup Codes

LEMMA StartRefusalCodes ==
    ASSUME NEW s, NEW i
    PROVE  /\ StartRefusal(s, i) \in Codes \cup {"accepted"}
           /\ StartRefusal(s, i) # "SUCCESS"
           /\ StartRefusal(s, i) = "accepted"
                <=> /\ hash = m_group_hash[s] /\ s \in Configured /\ s \notin active
                    /\ ~Inferior(iteration[s], i)
           /\ StartRefusal(s, i) = "PIPELINE_IS_ACTIVE" => s \in active
           /\ StartRefusal(s, i) = "INVALID_ITERATION" => Inferior(iteration[s], i)
           /\ StartRefusal(s, i) # "PIPELINE_NOT_ACTIVE"
  BY DEF StartRefusal, Codes

LEMMA RefusalCodes ==
    ASSUME NEW s, NEW i
    PROVE  /\ Refusal(s, i) \in Codes
           /\ Refusal(s, i) = "SUCCESS"
                <=> s \in Configured /\ s \in active /\ iteration[s] = i
  BY DEF Refusal, Codes

LEMMA AnswerCodes ==
    ASSUME NEW s, NEW i, NEW code \in Answer(s, Refusal(s, i))
    PROVE  /\ code \in Codes
           /\ code = "SUCCESS" => s \in Configured /\ s \in active /\ iteration[s] = i
           /\ s \in Configured /\ s \in active /\ iteration[s] = i
                => code \in {"SUCCESS", "BACKEND_ERROR"}
  BY RefusalCodes DEF Answer, Codes

\* Where a barrier leads each rank.
LEMMA AfterBarrierPcs ==
    ASSUME NEW r \in Ranks, pc[r] \in BarrierPcs
    PROVE  /\ AfterBarrier(r) \in Pcs
           /\ pc[r] = "startBarrier" =>
                AfterBarrier(r) = IF r = Root THEN "send" ELSE "recvOk"
           /\ pc[r] = "executeBarrier" =>
                AfterBarrier(r) = IF r = Root THEN "execute" ELSE "cleanupBarrier"
           /\ pc[r] = "cleanupBarrier" =>
                AfterBarrier(r) = IF r = Root THEN "cleanup"
                                  ELSE IF iter[r] = LastIteration THEN "done"
                                  ELSE "startBarrier"
<1>1. CASE pc[r] = "startBarrier"
  BY <1>1 DEF AfterBarrier, Pcs, StartPcs, BarrierPcs
<1>2. CASE pc[r] = "executeBarrier"
  BY <1>2 DEF AfterBarrier, Pcs, RunPcs, BarrierPcs
<1>3. CASE pc[r] = "cleanupBarrier"
  BY <1>3 DEF AfterBarrier, Pcs, StartPcs, BarrierPcs
<1> QED
  BY <1>1, <1>2, <1>3 DEF BarrierPcs

LEMMA BcastTyped ==
    ASSUME TypeOK, NEW msg \in Messages, Bcast(msg)
    PROVE  chan' \in [Others -> Seq(Messages)]
  BY DEF TypeOK, Bcast

LEMMA PopTyped ==
    ASSUME TypeOK, NEW r \in Others, chan[r] # <<>>, Pop(r)
    PROVE  /\ chan' \in [Others -> Seq(Messages)]
           /\ Head(chan[r]) \in Messages
  BY DEF TypeOK, Pop

------------------------------------------------------------------------------
(* Type correctness. *)

GroupTypes == /\ members \subseteq Servers /\ gone \subseteq Servers
              /\ overtaken \subseteq gone
              /\ view \in [Servers -> SUBSET Servers]
              /\ m_group_hash \in [Servers -> SUBSET Servers]
              /\ ctor \in [Servers -> {"off", "hash", "store", "ready"}]
              /\ computed \in [Servers -> SUBSET Servers]

ServerTypes == /\ active \subseteq Servers
               /\ iteration \in [Servers -> Iterations]
               /\ staged \in [Servers -> SUBSET Ranks]
               /\ rpc \in [Servers -> Rpcs]

ClientTypes == /\ pc \in [Ranks -> Pcs]
               /\ iter \in [Ranks -> FirstIteration..LastIteration]
               /\ threw \subseteq Ranks
               /\ list \in [Ranks -> SUBSET Servers]
               /\ hash \subseteq Servers
               /\ ok \in BOOLEAN /\ retry \in BOOLEAN
               /\ chan \in [Others -> Seq(Messages)]

LEMMA Types == TypeOK <=> GroupTypes /\ ServerTypes /\ ClientTypes
BY DEF TypeOK, GroupTypes, ServerTypes, ClientTypes, Rpcs

LEMMA TypesNext == TypeOK' <=> GroupTypes' /\ ServerTypes' /\ ClientTypes'
BY DEF TypeOK, GroupTypes, ServerTypes, ClientTypes, Rpcs

LEMMA InitTyped == Init => TypeOK
<1> SUFFICES ASSUME Init PROVE TypeOK
  OBVIOUS
<1>1. GroupTypes
  BY GroupKnown DEF Init, GroupTypes
<1>2. ServerTypes
  BY IterationBounds DEF Init, ServerTypes, Iterations, Rpcs
<1>3. ClientTypes
  <2>1. /\ pc \in [Ranks -> Pcs]
        /\ iter \in [Ranks -> FirstIteration..LastIteration]
        /\ list \in [Ranks -> SUBSET Servers]
    BY IterationBounds, GroupKnown DEF Init, Pcs, BarrierPcs
  <2>2. chan \in [Others -> Seq(Messages)]
    BY DEF Init
  <2> QED
    BY <2>1, <2>2, GroupKnown DEF Init, ClientTypes
<1> QED
  BY <1>1, <1>2, <1>3, Types

LEMMA GroupTyped ==
    ASSUME TypeOK, NEW s \in Servers
    PROVE  /\ Join(s) => TypeOK'
           /\ Construct(s) => TypeOK'
           /\ Leave(s) => TypeOK'
           /\ \A m \in Servers : MembershipUpdate(s, m) => TypeOK'
<1> USE DEF groupVars, serverVars, rankVars, handleVars
<1>0. GroupTypes /\ ServerTypes /\ ClientTypes
  BY Types
<1>1. ASSUME GroupTypes', UNCHANGED <<serverVars, rpc, rankVars, handleVars, chan>>
      PROVE  TypeOK'
  BY <1>0, <1>1, TypesNext DEF ServerTypes, ClientTypes
<1>2. ASSUME Join(s) PROVE TypeOK'
  BY <1>0, <1>1, <1>2 DEF Join, GroupTypes
<1>3. ASSUME Construct(s) PROVE TypeOK'
  BY <1>0, <1>1, <1>3 DEF Construct, ComputeGroupHash, StoreGroupHash, GroupTypes
<1>4. ASSUME Leave(s) PROVE TypeOK'
  BY <1>0, <1>1, <1>4 DEF Leave, GroupTypes
<1>5. ASSUME NEW m \in Servers, MembershipUpdate(s, m) PROVE TypeOK'
  BY <1>0, <1>1, <1>5 DEF MembershipUpdate, GroupTypes, Flip
<1> QED
  BY <1>2, <1>3, <1>4, <1>5

LEMMA ServeTyped ==
    ASSUME TypeOK, NEW s \in Servers, Serve(s)
    PROVE  TypeOK'
<1> USE DEF groupVars, serverVars, rankVars, handleVars, Rpcs
<1>0. GroupTypes /\ ServerTypes /\ ClientTypes
  BY Types
<1>1. iter[Root] \in Iterations
  BY <1>0, RootIsRank, IterationBounds DEF ClientTypes, Iterations
<1>2. ASSUME ServerTypes', UNCHANGED <<groupVars, rankVars, handleVars, chan>>
      PROVE  TypeOK'
  BY <1>0, <1>2, TypesNext DEF GroupTypes, ClientTypes
<1>3. ASSUME NEW code \in Rpcs, Reply(s, code) PROVE rpc' \in [Servers -> Rpcs]
  BY <1>0, <1>3 DEF Reply, ServerTypes
<1>4. ASSUME AcceptStart(s) PROVE TypeOK'
  BY <1>0, <1>2, <1>3, <1>4, StartRefusalCodes DEF AcceptStart, ServerTypes
<1>5. ASSUME FinishStart(s) PROVE TypeOK'
  <2>1. rpc' \in [Servers -> Rpcs]
    BY <1>3, <1>5 DEF FinishStart, Codes
  <2>2. active' \subseteq Servers /\ iteration' \in [Servers -> Iterations]
    BY <1>0, <1>1, <1>5 DEF FinishStart, ServerTypes
  <2> QED
    BY <1>0, <1>2, <1>5, <2>1, <2>2 DEF FinishStart, ServerTypes
<1>6. ASSUME ServeAbort(s) PROVE TypeOK'
  <2>1. Decrement(iteration[s]) \in Iterations
    BY <1>0, IterationBounds DEF ServerTypes, Decrement, Iterations
  <2>2. active' \subseteq Servers /\ iteration' \in [Servers -> Iterations]
    BY <1>0, <1>6, <2>1 DEF ServeAbort, ServerTypes
  <2>3. rpc' \in [Servers -> Rpcs]
    BY <1>3, <1>6, RefusalCodes DEF ServeAbort
  <2> QED
    BY <1>0, <1>2, <1>6, <2>2, <2>3 DEF ServeAbort, ServerTypes
<1>7. ASSUME ServeExecute(s) PROVE TypeOK'
  <2>1. rpc' \in [Servers -> Rpcs]
    BY <1>3, <1>7, AnswerCodes DEF ServeExecute
  <2> QED
    BY <1>0, <1>2, <1>7, <2>1 DEF ServeExecute, ServerTypes
<1>8. ASSUME ServeCleanup(s) PROVE TypeOK'
  <2>1. rpc' \in [Servers -> Rpcs]
    BY <1>3, <1>8, AnswerCodes DEF ServeCleanup
  <2>2. active' \subseteq Servers /\ staged' \in [Servers -> SUBSET Ranks]
    BY <1>0, <1>8 DEF ServeCleanup, ServerTypes
  <2> QED
    BY <1>0, <1>2, <1>8, <2>1, <2>2 DEF ServeCleanup, ServerTypes
<1> QED
  BY <1>4, <1>5, <1>6, <1>7, <1>8 DEF Serve

LEMMA BarrierTyped ==
    ASSUME TypeOK, Barrier
    PROVE  TypeOK'
<1>1. pc' \in [Ranks -> Pcs]
  BY AfterBarrierPcs DEF Barrier
<1>2. ASSUME NEW r \in Ranks, r # Root, pc'[r] = "startBarrier"
      PROVE  iter[r] # LastIteration
  BY <1>2, AfterBarrierPcs DEF Barrier, BarrierPcs
<1>3. iter' \in [Ranks -> FirstIteration..LastIteration]
  BY <1>2, IterationBounds DEF Barrier, TypeOK
<1> QED
  BY <1>1, <1>3, Types, TypesNext
     DEF Barrier, GroupTypes, ServerTypes, ClientTypes, groupVars, serverVars, handleVars

LEMMA CallTyped ==
    ASSUME TypeOK, NEW name \in RpcNames, NEW targets, NEW next \in Pcs,
           Call(name, targets, next)
    PROVE  rpc' \in [Servers -> Rpcs] /\ pc' \in [Ranks -> Pcs]
  BY DEF Call, Goto, TypeOK, Rpcs

LEMMA RootStepTyped ==
    ASSUME TypeOK, RootStep
    PROVE  TypeOK'
<1> USE DEF groupVars, serverVars, rankVars, handleVars, At, Throw
<1>0. GroupTypes /\ ServerTypes /\ ClientTypes /\ Root \in Ranks
  BY Types, RootIsRank
<1>r. ASSUME UNCHANGED <<groupVars, serverVars>>, rpc' \in [Servers -> Rpcs], ClientTypes'
      PROVE  TypeOK'
  BY <1>0, <1>r, TypesNext DEF GroupTypes, ServerTypes
<1>p. /\ {"waitStart", "stage", "waitAbort", "refresh", "send", "waitExecute",
          "cleanupBarrier", "waitCleanup", "done", "startBarrier"} \subseteq Pcs
      /\ RpcNames = {"start", "abort", "execute", "cleanup"}
  BY DEF Pcs, StartPcs, RunPcs, BarrierPcs, RpcNames
<1>k. rpc \in [Servers -> Rpcs] /\ {"none"} \subseteq Rpcs
  BY <1>0 DEF ServerTypes, Rpcs
<1>1. ASSUME SendStart PROVE TypeOK'
  <2>1. rpc' \in [Servers -> Rpcs] /\ pc' \in [Ranks -> Pcs]
    BY <1>1, <1>p, CallTyped DEF SendStart
  <2> QED
    BY <1>1, <1>0, <1>r, <2>1 DEF SendStart, ClientTypes
<1>2. ASSUME EndAttempt PROVE TypeOK'
  <2>1. retry' \in BOOLEAN /\ ok' \in BOOLEAN
    BY <1>2 DEF EndAttempt
  <2>2. <<"ok", ok'>> \in Messages
    BY <2>1 DEF Messages
  <2>3. chan' \in [Others -> Seq(Messages)]
    BY <1>2, <2>2, BcastTyped DEF EndAttempt
  <2>4. rpc' \in [Servers -> Rpcs] /\ pc' \in [Ranks -> Pcs]
    <3>1. CASE ok'
      BY <1>2, <3>1, <1>p, <1>k, <1>0 DEF EndAttempt, Goto, ClientTypes
    <3>2. CASE ~ok'
      BY <1>2, <3>2, <1>p, CallTyped DEF EndAttempt
    <3> QED
      BY <3>1, <3>2
  <2> QED
    BY <1>2, <1>0, <1>r, <2>1, <2>3, <2>4 DEF EndAttempt, ClientTypes
<1>3. ASSUME EndAbort PROVE TypeOK'
  BY <1>3, <1>0, <1>r, <1>k, <1>p DEF EndAbort, Goto, ClientTypes
<1>4. ASSUME Refresh PROVE TypeOK'
  <2>1. PICK m \in members : /\ list' = [list EXCEPT ![Root] = view[m]]
                             /\ hash' = view[m]
                             /\ Bcast(<<"view", view[m]>>)
    BY <1>4 DEF Refresh
  <2>2. view[m] \subseteq Servers
    BY <1>0 DEF GroupTypes
  <2>3. chan' \in [Others -> Seq(Messages)]
    BY <2>1, <2>2, BcastTyped DEF Messages
  <2> QED
    BY <1>4, <1>0, <1>r, <1>k, <2>1, <2>2, <2>3, <1>p DEF Refresh, Goto, ClientTypes
<1>5. ASSUME RefreshThrows \/ RpcThrows PROVE TypeOK'
  BY <1>5, <1>0, <1>r, <1>k DEF RefreshThrows, RpcThrows, ClientTypes
<1>6. ASSUME NEW s \in Servers, AbortThrows(s) PROVE TypeOK'
  BY <1>6, <1>0, <1>r, <1>k DEF AbortThrows, Reply, ClientTypes
<1>7. ASSUME SendExecute PROVE TypeOK'
  <2>1. rpc' \in [Servers -> Rpcs] /\ pc' \in [Ranks -> Pcs]
    BY <1>7, <1>p, CallTyped DEF SendExecute
  <2> QED
    BY <1>7, <1>0, <1>r, <2>1 DEF SendExecute, ClientTypes
<1>8. ASSUME EndExecute PROVE TypeOK'
  BY <1>8, <1>0, <1>r, <1>k, <1>p DEF EndExecute, Goto, ClientTypes
<1>9. ASSUME SendCleanup PROVE TypeOK'
  <2>1. rpc' \in [Servers -> Rpcs] /\ pc' \in [Ranks -> Pcs]
    BY <1>9, <1>p, CallTyped DEF SendCleanup
  <2> QED
    BY <1>9, <1>0, <1>r, <2>1 DEF SendCleanup, ClientTypes
<1>10. ASSUME EndCleanup PROVE TypeOK'
  <2>1. pc' \in [Ranks -> Pcs] /\ threw' \subseteq Ranks
    BY <1>10, <1>0, <1>p DEF EndCleanup, Goto, ClientTypes
  <2>2. iter' \in [Ranks -> FirstIteration..LastIteration]
    BY <1>10, <1>0, IterationBounds DEF EndCleanup, ClientTypes
  <2> QED
    BY <1>10, <1>0, <1>r, <1>k, <2>1, <2>2 DEF EndCleanup, ClientTypes
<1> QED
  BY <1>1, <1>2, <1>3, <1>4, <1>5, <1>6, <1>7, <1>8, <1>9, <1>10 DEF RootStep

LEMMA RankStepTyped ==
    ASSUME TypeOK, NEW r \in Ranks, RankStep(r)
    PROVE  TypeOK'
<1> USE DEF groupVars, serverVars, handleVars, At, Throw
<1>0. GroupTypes /\ ServerTypes /\ ClientTypes
  BY Types
<1>p. {"stage", "recvView", "recvOk", "executeBarrier"} \subseteq Pcs
  BY DEF Pcs, StartPcs, RunPcs, BarrierPcs
<1>1. ASSUME Stage(r) PROVE TypeOK'
  <2>1. PICK s \in list[r] :
          \/ /\ staged' = [staged EXCEPT ![s] = @ \cup {r}]
             /\ Goto(r, "executeBarrier") /\ UNCHANGED threw
          \/ Throw(r) /\ UNCHANGED <<pc, staged>>
    BY <1>1 DEF Stage
  <2>2. pc' \in [Ranks -> Pcs] /\ threw' \subseteq Ranks
    BY <1>0, <2>1, <1>p DEF Goto, ClientTypes
  <2>3. staged' \in [Servers -> SUBSET Ranks]
    <3>1. \A t \in Servers : staged[t] \cup {r} \subseteq Ranks
      BY <1>0 DEF ServerTypes
    <3> QED
      BY <1>0, <2>1, <3>1 DEF ServerTypes
  <2> QED
    BY <1>0, <1>1, <2>2, <2>3, TypesNext DEF Stage, GroupTypes, ServerTypes, ClientTypes
<1>2. ASSUME r \in Others, RecvOk(r) PROVE TypeOK'
  <2>1. pc' \in [Ranks -> Pcs]
    BY <1>2, <1>0, <1>p DEF RecvOk, Goto, ClientTypes
  <2>2. chan' \in [Others -> Seq(Messages)]
    BY <1>2, PopTyped DEF RecvOk
  <2> QED
    BY <1>0, <1>2, <2>1, <2>2, TypesNext DEF RecvOk, GroupTypes, ServerTypes, ClientTypes
<1>3. ASSUME r \in Others, RecvView(r) PROVE TypeOK'
  <2>1. chan' \in [Others -> Seq(Messages)] /\ Head(chan[r]) \in Messages
    BY <1>3, PopTyped DEF RecvView
  <2>2. Head(chan[r])[2] \subseteq Servers
    BY <1>3, <2>1 DEF RecvView, Messages
  <2>3. pc' \in [Ranks -> Pcs] /\ list' \in [Ranks -> SUBSET Servers]
    BY <1>3, <1>0, <2>2, <1>p DEF RecvView, Goto, ClientTypes
  <2> QED
    BY <1>0, <1>3, <2>1, <2>3, TypesNext DEF RecvView, GroupTypes, ServerTypes, ClientTypes
<1> QED
  BY <1>1, <1>2, <1>3 DEF RankStep

(* Every variable keeps its type, in every group and for any number of      *)
(* ranks: no iteration number passes its bound, and a rank only ever builds *)
(* a handle from a list of servers.                                         *)
THEOREM DistributedTyped == Spec => []TypeOK
<1>1. TypeOK /\ [Next]_vars => TypeOK'
  <2> SUFFICES ASSUME TypeOK, [Next]_vars PROVE TypeOK'
    OBVIOUS
  <2>1. ASSUME UNCHANGED vars PROVE TypeOK'
    BY <2>1 DEF TypeOK, vars, groupVars, serverVars, rankVars, handleVars
  <2>2. CASE Next
    BY <2>1, <2>2, GroupTyped, ServeTyped, BarrierTyped, RootStepTyped, RankStepTyped
       DEF Next, Finished
  <2> QED
    BY <2>1, <2>2
<1> QED
  BY <1>1, InitTyped, PTL DEF Spec

------------------------------------------------------------------------------
(* The protocol. That start is all or nothing, that collectives match and   *)
(* that views agree depend on each other: a rank stages only to servers     *)
(* that started because it received the list of the attempt that succeeded, *)
(* and an attempt fails cleanly because the servers it reached abort. The   *)
(* invariant below says where every rank, server and message is for each    *)
(* control state of rank 0.                                                 *)

AttemptPcs == {"send", "waitStart", "waitAbort", "refresh"}
RecvPcs == {"recvOk", "recvView"}

\* The outcome the root broadcast last.
SaidNo == pc[Root] \in {"waitAbort", "refresh"} \/ (pc[Root] = "stage" /\ ~ok)
SaidYes == pc[Root] \in {"stage", "executeBarrier"} /\ ok

\* The root goes on after a failed attempt only if start gave up; and whoever
\* threw an exception stays where it is.
Outcome ==
    /\ pc[Root] \in {"waitAbort", "refresh"} => ~ok
    /\ pc[Root] = "refresh" => retry
    /\ pc[Root] = "stage" => ok \/ ~retry
    /\ pc[Root] \in {"executeBarrier", "execute", "waitExecute", "cleanupBarrier",
                     "cleanup", "waitCleanup"} => ok
    /\ \A r \in Others : r \in threw => pc[r] = "stage"

\* Where rank r is.
Follows(r) ==
    /\ pc[Root] = "startBarrier" => pc[r] = "startBarrier"
    /\ pc[Root] \in {"send", "waitStart"} \/ SaidNo => pc[r] \in RecvPcs
    /\ SaidYes => pc[r] \in RecvPcs \cup {"stage", "executeBarrier"}
    /\ pc[Root] \in {"execute", "waitExecute", "cleanupBarrier"}
         => pc[r] = "cleanupBarrier"
    /\ pc[Root] \in {"cleanup", "waitCleanup"}
         => IF iter[Root] = LastIteration
            THEN pc[r] = "done" /\ iter[r] = iter[Root]
            ELSE pc[r] = "startBarrier" /\ iter[r] = iter[Root] + 1
    /\ pc[Root] = "done" => pc[r] = "done"
    /\ pc[Root] \notin {"cleanup", "waitCleanup"} => iter[r] = iter[Root]

Aligned == pc[Root] \notin RecvPcs /\ \A r \in Others : Follows(r)

\* What is on its way to rank r: outcomes and views in turn, the next one of
\* the kind r waits for, and only the last outcome may be a success.
Alternating(r) ==
    LET c == chan[r] IN
    /\ pc[r] \notin RecvPcs => Len(c) = 0 /\ list[r] = list[Root]
    /\ Len(c) > 0 => c[1][1] = (IF pc[r] = "recvOk" THEN "ok" ELSE "view")
    /\ \A k \in 1..Len(c) - 1 : /\ c[k][1] # c[k + 1][1]
                                /\ c[k][1] = "ok" => c[k][2] = FALSE

\* A rank that has received all of it is where the root is, with its list.
CatchesUp(r) ==
    LET c == chan[r]
        n == Len(chan[r])
    IN  /\ pc[Root] \in {"send", "waitStart"} =>
             IF n = 0 THEN pc[r] = "recvOk" /\ list[r] = list[Root]
                      ELSE c[n] = <<"view", list[Root]>>
        /\ SaidNo => IF n = 0 THEN pc[r] = "recvView" ELSE c[n] = <<"ok", FALSE>>
        /\ SaidYes /\ pc[r] \in RecvPcs =>
             /\ n > 0 /\ c[n] = <<"ok", TRUE>>
             /\ IF n = 1 THEN list[r] = list[Root]
                         ELSE c[n - 1] = <<"view", list[Root]>>

Delivered == \A r \in Others : Alternating(r) /\ CatchesUp(r)

\* The servers that the iteration keeps from leaving.
Held == active \cap members

\* A server that runs an iteration is a member, unless it left while its start
\* was accepted; a member knows itself, and the client only servers that were
\* members once.
Grouped ==
    /\ members # {}
    /\ members \cap gone = {}
    /\ active \subseteq (members \cup overtaken) \cap Configured
    /\ \A s \in members : s \in view[s]
    /\ \A s \in Servers : view[s] \subseteq members \cup gone
    /\ list[Root] \subseteq members \cup gone
    /\ list[Root] # {}

\* Which servers run the iteration of the root.
Running ==
    /\ pc[Root] \in {"startBarrier", "send", "refresh", "done"}
         \/ (pc[Root] = "stage" /\ ~ok) => Held = {}
    /\ \A s \in Held : iteration[s] = iter[Root]
    /\ SaidYes \/ pc[Root] \in {"execute", "waitExecute", "cleanupBarrier", "cleanup"} =>
         /\ Held \subseteq list[Root]
         /\ \A s \in list[Root] : s \in active /\ iteration[s] = iter[Root]

\* From iteration 1 on, the pipeline of a server that may be asked to start is
\* behind the root.
Behind ==
    FirstIteration > 0 =>
      \A s \in Servers \ gone :
        /\ iteration[s] <= iter[Root]
        /\ s \notin active /\ pc[Root] \notin {"waitCleanup", "done"}
             => iteration[s] < iter[Root]

\* What each server does for the root.
Called(s) ==
    /\ pc[Root] = "waitStart" =>
         /\ rpc[s] \in {"none", "start", "accepted"} \cup Codes
         /\ rpc[s] # "none" <=> s \in list[Root]
         /\ rpc[s] = "SUCCESS" => s \in active /\ iteration[s] = iter[Root]
         /\ s \in Held => rpc[s] = "SUCCESS"
         /\ rpc[s] = "accepted" =>
              /\ s \in ((members \cup overtaken) \cap Configured) \ active
              /\ ~Inferior(iteration[s], iter[Root])
    /\ pc[Root] = "waitAbort" =>
         /\ rpc[s] \in {"none", "abort"} \cup Codes
         /\ rpc[s] = "abort" => s \in active /\ iteration[s] = iter[Root]
         /\ s \in Held => rpc[s] = "abort"
    /\ pc[Root] = "waitExecute" =>
         /\ rpc[s] \in {"none", "execute"} \cup Codes
         /\ rpc[s] # "none" <=> s \in list[Root]
    /\ pc[Root] = "waitCleanup" =>
         /\ rpc[s] \in {"none", "cleanup"} \cup Codes
         /\ rpc[s] # "none" <=> s \in list[Root]
         /\ rpc[s] = "cleanup" => s \in active /\ iteration[s] = iter[Root]
         /\ s \in Held => rpc[s] \in {"cleanup", "BACKEND_ERROR"}
         /\ s \in active \cap list[Root] => rpc[s] \in {"cleanup", "BACKEND_ERROR"}
    /\ pc[Root] \notin CallPcs => rpc[s] \notin RpcNames \cup {"accepted"}

Calling == \A s \in Servers : Called(s)

\* Which servers hold blocks.
Holding ==
    /\ \A s \in Servers \ Held : staged[s] = {}
    /\ pc[Root] \in {"send", "waitStart"} \/ SaidNo => \A s \in Servers : staged[s] = {}
    /\ SaidYes =>
         \A r \in Ranks : (\E s \in Servers : r \in staged[s]) <=> pc[r] = "executeBarrier"
    /\ pc[Root] \in {"execute", "waitExecute", "cleanupBarrier", "cleanup"} =>
         \A r \in Ranks : \E s \in list[Root] : r \in staged[s]

Inv == /\ TypeOK /\ Outcome /\ Aligned /\ Delivered /\ Grouped
       /\ Running /\ Behind /\ Calling /\ StateNeverRefuses /\ Holding

LEMMA InitInv == Init => Inv
<1> SUFFICES ASSUME Init PROVE Inv
  OBVIOUS
<1>p. \A r \in Ranks : pc[r] = "startBarrier" /\ iter[r] = FirstIteration /\ list[r] = Founders
  BY DEF Init
<1>1. Outcome /\ Aligned
  BY <1>p, RootIsRank DEF Init, Outcome, Aligned, Follows, Others, RecvPcs, SaidNo, SaidYes
<1>2. Delivered
  BY <1>p, RootIsRank DEF Init, Delivered, Alternating, CatchesUp, Others, RecvPcs,
                          SaidNo, SaidYes
<1>3. Grouped
  <2>1. /\ members # {} /\ members \cap gone = {} /\ active = {}
        /\ list[Root] = Founders /\ members = Founders
    BY <1>p, GroupKnown, RootIsRank DEF Init
  <2>2. \A s \in Servers : view[s] = IF s \in Founders THEN Founders ELSE {}
    BY DEF Init
  <2> QED
    BY <2>1, <2>2, GroupKnown DEF Grouped
<1>4. Running /\ Behind
  BY <1>p, RootIsRank, IterationBounds DEF Init, Running, Behind, SaidYes, Held
<1>5. Calling /\ StateNeverRefuses
  BY <1>p, RootIsRank DEF Init, Calling, Called, CallPcs, RpcNames, StateNeverRefuses
<1>6. Holding
  BY <1>p, RootIsRank DEF Init, Holding, SaidNo, SaidYes
<1> QED
  BY <1>1, <1>2, <1>3, <1>4, <1>5, <1>6, InitTyped DEF Inv

LEMMA AlignedStays ==
    ASSUME Outcome, Aligned, UNCHANGED <<pc, iter, ok, retry, threw>>
    PROVE  Outcome' /\ Aligned'
  BY DEF Outcome, Aligned, Follows, SaidNo, SaidYes

LEMMA DeliveredStays ==
    ASSUME Delivered, UNCHANGED <<pc, list, chan, ok>>
    PROVE  Delivered'
  BY DEF Delivered, Alternating, CatchesUp, SaidNo, SaidYes

LEMMA RunningStays ==
    ASSUME Running, UNCHANGED <<Held, active, iteration, pc, iter, list, ok>>
    PROVE  Running'
  BY DEF Running, SaidYes

LEMMA CallingStays ==
    ASSUME Calling, UNCHANGED <<Held, active, iteration, members, overtaken, rpc, pc, iter, list>>
    PROVE  Calling'
  BY DEF Calling, Called

LEMMA HoldingStays ==
    ASSUME Holding, UNCHANGED <<Held, staged, pc, list, ok>>
    PROVE  Holding'
  BY DEF Holding, SaidNo, SaidYes

LEMMA GotoRoot ==
    ASSUME TypeOK, NEW p, Goto(Root, p)
    PROVE  pc'[Root] = p /\ \A r \in Others : pc'[r] = pc[r]
  BY RootIsRank DEF Goto, TypeOK, Others

LEMMA GotoOther ==
    ASSUME TypeOK, NEW r \in Others, NEW p, Goto(r, p)
    PROVE  /\ pc'[r] = p
           /\ \A q \in Ranks : q # r => pc'[q] = pc[q]
           /\ pc'[Root] = pc[Root]
  BY RootIsRank DEF Goto, TypeOK, Others

\* Changes of the group leave the servers of the iteration in it.
LEMMA GroupKeepsInv ==
    ASSUME Inv, NEW s \in Servers
    PROVE  /\ Join(s) => Inv'
           /\ Construct(s) => Inv'
           /\ Leave(s) => Inv'
           /\ \A m \in Servers : MembershipUpdate(s, m) => Inv'
<1> USE DEF serverVars, rankVars, handleVars
<1>t. TypeOK
  BY DEF Inv
<1>0. ASSUME Grouped', TypeOK', Held' = Held, gone \subseteq gone', Calling',
             UNCHANGED <<serverVars, rpc, rankVars, handleVars, chan>>
      PROVE  Inv'
  <2>1. Behind' /\ StateNeverRefuses'
    BY <1>0 DEF Inv, Behind, StateNeverRefuses
  <2> QED
    BY <1>0, <2>1, AlignedStays, DeliveredStays, RunningStays, HoldingStays DEF Inv
<1>1. ASSUME \A t \in members \cup overtaken :
               rpc[t] = "accepted" => t \in members' \cup overtaken',
             Held' = Held, UNCHANGED <<serverVars, rpc, rankVars, handleVars, chan>>
      PROVE  Calling'
  BY <1>1 DEF Inv, Calling, Called
<1>2. ASSUME Join(s) PROVE Inv'
  <2>1. PICK m \in members : view' = [view EXCEPT ![s] = view[m] \cup {s}]
    BY <1>2 DEF Join
  <2>2. \A t \in Servers : view'[t] = IF t = s THEN view[m] \cup {s} ELSE view[t]
    BY <2>1, <1>t DEF TypeOK
  <2>3. m \in Servers /\ s \notin active
    BY <1>2, <1>t DEF Join, TypeOK, Inv, Grouped
  <2>4. Grouped' /\ Held' = Held
    BY <1>2, <2>2, <2>3, <1>t DEF Join, Inv, Grouped, Held, TypeOK
  <2>5. Calling'
    BY <1>1, <1>2, <2>4 DEF Join
  <2> QED
    BY <1>0, <1>2, <2>4, <2>5, GroupTyped, <1>t DEF Join
<1>3. ASSUME Construct(s) PROVE Inv'
  <2>1. UNCHANGED <<members, gone, overtaken, view, serverVars, rpc, rankVars, handleVars, chan>>
    BY <1>3 DEF Construct, ComputeGroupHash, StoreGroupHash
  <2>2. Grouped' /\ Held' = Held
    BY <2>1 DEF Inv, Grouped, Held
  <2> QED
    BY <1>0, <1>1, <1>3, <2>1, <2>2, GroupTyped, <1>t
<1>4. ASSUME Leave(s) PROVE Inv'
  <2>1. /\ members' = members \ {s} /\ gone' = gone \cup {s} /\ s \notin active
        /\ members # {s} /\ s \in members
        /\ overtaken \subseteq overtaken'
        /\ rpc[s] = "accepted" => s \in overtaken'
        /\ UNCHANGED <<view, serverVars, rpc, rankVars, handleVars, chan>>
    BY <1>4 DEF Leave
  <2>2. Grouped' /\ Held' = Held
    BY <2>1 DEF Inv, Grouped, Held
  <2>3. Calling'
    BY <1>1, <2>1, <2>2
  <2>4. TypeOK' /\ gone \subseteq gone'
    BY <1>4, <1>t, <2>1, GroupTyped
  <2> QED
    BY <1>0, <2>1, <2>2, <2>3, <2>4
<1>5. ASSUME NEW m \in Servers, MembershipUpdate(s, m) PROVE Inv'
  <2>1. /\ UNCHANGED <<members, gone, overtaken, serverVars, rpc, rankVars, handleVars, chan>>
        /\ s \in members
        /\ \A t \in Servers : view'[t] = IF t = s THEN Flip(view[s], {m}) ELSE view[t]
    BY <1>5, <1>t DEF MembershipUpdate, TypeOK
  <2>2. IF m \in members THEN m \notin view[s] ELSE m \in view[s]
    BY <1>5 DEF MembershipUpdate
  <2>3. /\ s \in Flip(view[s], {m})
        /\ Flip(view[s], {m}) \subseteq members \cup gone
    BY <2>1, <2>2 DEF Inv, Grouped, Flip
  <2>4. Grouped' /\ Held' = Held
    BY <2>1, <2>3, <1>t DEF Inv, Grouped, Held, TypeOK
  <2> QED
    BY <1>0, <1>1, <1>5, <2>1, <2>4, GroupTyped, <1>t
<1> QED
  BY <1>2, <1>3, <1>4, <1>5

\* A server answers the root, and starts or ends the iteration.
LEMMA ServeKeepsInv ==
    ASSUME Inv, NEW s \in Servers, Serve(s)
    PROVE  Inv'
<1> USE DEF groupVars, serverVars, rankVars, handleVars
<1>t. TypeOK /\ TypeOK'
  BY ServeTyped DEF Inv
<1>n. /\ UNCHANGED <<groupVars, rankVars, handleVars, chan>>
      /\ rpc[s] \in RpcNames \cup {"accepted"}
      /\ rpc[s] # "accepted" => s \in members
  BY DEF Serve, AcceptStart, FinishStart, ServeAbort, ServeExecute, ServeCleanup, RpcNames
<1>i. /\ iter[Root] \in Nat /\ FirstIteration \in Nat /\ FirstIteration <= iter[Root]
      /\ \A t \in Servers : iteration[t] \in Nat
  BY <1>t, RootIsRank, IterationBounds DEF TypeOK, Iterations
<1>c. Called(s) /\ pc[Root] \in CallPcs
  BY <1>n DEF Inv, Calling, Called
<1>0. ASSUME NEW code, Reply(s, code)
      PROVE  rpc'[s] = code /\ \A t \in Servers : t # s => rpc'[t] = rpc[t]
  BY <1>0, <1>t DEF TypeOK, Reply
<1>g. ASSUME NEW t \in Servers, t # s, rpc'[t] = rpc[t], iteration'[t] = iteration[t],
             t \in active' <=> t \in active
      PROVE  Called(t)'
  BY <1>g, <1>n DEF Inv, Calling, Called, Held
<1>d. ASSUME active' \subseteq (members \cup overtaken) \cap Configured PROVE Grouped'
  BY <1>d, <1>n DEF Inv, Grouped
<1>q. ASSUME rpc'[s] \notin {"PIPELINE_IS_ACTIVE", "PIPELINE_NOT_ACTIVE", "INVALID_ITERATION"},
             \A t \in Servers : t # s => rpc'[t] = rpc[t]
      PROVE  StateNeverRefuses'
  BY <1>q DEF Inv, StateNeverRefuses
<1>r. ASSUME Grouped', Running', Behind', Calling', StateNeverRefuses', Holding' PROVE Inv'
  BY <1>r, <1>n, <1>t, AlignedStays, DeliveredStays DEF Inv
<1>s. ASSUME Called(s)', StateNeverRefuses', UNCHANGED serverVars,
             \A t \in Servers : t # s => rpc'[t] = rpc[t]
      PROVE  Inv'
  <2>1. Held' = Held
    BY <1>s, <1>n DEF Held
  <2>2. Calling'
    BY <1>s, <1>g DEF Calling
  <2>3. Grouped' /\ Running' /\ Holding'
    BY <1>s, <1>n, <2>1, RunningStays, HoldingStays DEF Inv, Grouped
  <2>4. Behind'
    BY <1>s, <1>n DEF Inv, Behind
  <2> QED
    BY <1>r, <1>s, <2>2, <2>3, <2>4
<1>1. ASSUME AcceptStart(s) PROVE Inv'
  <2> DEFINE code == StartRefusal(s, iter[Root])
  <2>1. /\ pc[Root] = "waitStart" /\ s \in list[Root] /\ s \notin active
        /\ s \in members /\ Reply(s, code) /\ UNCHANGED serverVars
    BY <1>1, <1>c DEF AcceptStart, Called, CallPcs, RpcNames, Held, Codes
  <2>2. rpc'[s] = code /\ \A t \in Servers : t # s => rpc'[t] = rpc[t]
    BY <1>0, <2>1
  <2>3. /\ code \in Codes \cup {"accepted"} /\ code # "SUCCESS"
        /\ code = "accepted" => s \in Configured /\ ~Inferior(iteration[s], iter[Root])
    BY StartRefusalCodes
  <2>4. Called(s)'
    <3>1. code # "none"
      BY <2>3 DEF Codes
    <3> HIDE DEF code
    <3> QED
      BY <1>n, <2>1, <2>2, <2>3, <3>1 DEF Called, CallPcs, Held
  <2>5. FirstIteration > 0 => ~Inferior(iteration[s], iter[Root])
    <3>1. FirstIteration > 0 => iteration[s] < iter[Root]
      BY <2>1 DEF Inv, Behind, Grouped
    <3> QED
      BY <1>i, <3>1 DEF Inferior
  <2>6. StateNeverRefuses'
    <3>1. CASE FirstIteration > 0
      BY <1>q, <2>1, <2>2, <2>5, <3>1, StartRefusalCodes
    <3> QED
      BY <3>1 DEF StateNeverRefuses
  <2> QED
    BY <1>s, <2>1, <2>2, <2>4, <2>6
<1>2. ASSUME FinishStart(s) PROVE Inv'
  <2>1. /\ pc[Root] = "waitStart" /\ s \in list[Root] /\ s \notin active
        /\ s \in (members \cup overtaken) \cap Configured
    BY <1>2, <1>c DEF FinishStart, Called, CallPcs, RpcNames, Codes
  <2>2. CASE Reply(s, "BACKEND_ERROR") /\ UNCHANGED serverVars
    <3>1. rpc'[s] = "BACKEND_ERROR" /\ \A t \in Servers : t # s => rpc'[t] = rpc[t]
      BY <1>0, <2>2
    <3>2. Called(s)'
      BY <1>n, <2>1, <2>2, <3>1 DEF Called, CallPcs, Held, Codes
    <3> QED
      BY <1>q, <1>s, <2>2, <3>1, <3>2
  <2>3. CASE /\ Reply(s, "SUCCESS") /\ active' = active \cup {s} /\ staged' = staged
             /\ iteration' = [iteration EXCEPT ![s] = iter[Root]]
    <3>1. rpc'[s] = "SUCCESS" /\ \A t \in Servers : t # s => rpc'[t] = rpc[t]
      BY <1>0, <2>3
    <3>2. \A t \in Servers : iteration'[t] = IF t = s THEN iter[Root] ELSE iteration[t]
      BY <2>3, <1>t DEF TypeOK
    <3>3. Grouped'
      BY <1>d, <2>1, <2>3 DEF Inv, Grouped
    <3>4. Running'
      BY <1>n, <1>t, <2>1, <2>3, <3>2 DEF Inv, Running, SaidYes, Held, TypeOK
    <3>5. Behind'
      BY <1>i, <1>n, <2>1, <2>3, <3>2 DEF Inv, Behind
    <3>6. Calling'
      <4>1. Called(s)'
        BY <1>n, <2>1, <2>3, <3>1, <3>2 DEF Called, CallPcs, Held, Codes
      <4> QED
        BY <1>g, <2>3, <3>1, <3>2, <4>1 DEF Calling
    <3>7. Holding'
      BY <1>n, <2>1, <2>3 DEF Inv, Holding, SaidNo, SaidYes
    <3> QED
      BY <1>q, <1>r, <3>1, <3>3, <3>4, <3>5, <3>6, <3>7
  <2> QED
    BY <1>2, <2>2, <2>3 DEF FinishStart
<1>3. ASSUME ServeAbort(s) PROVE Inv'
  <2>1. pc[Root] = "waitAbort" /\ s \in active /\ iteration[s] = iter[Root]
    BY <1>3, <1>c DEF ServeAbort, Called, CallPcs, RpcNames, Codes
  <2>2. Refusal(s, iter[Root]) = "SUCCESS"
    BY <2>1, RefusalCodes DEF Inv, Grouped
  <2>3. /\ Reply(s, "SUCCESS") /\ active' = active \ {s} /\ staged' = staged
        /\ iteration' = [iteration EXCEPT ![s] = Decrement(@)]
    BY <1>3, <2>2 DEF ServeAbort
  <2>4. rpc'[s] = "SUCCESS" /\ \A t \in Servers : t # s => rpc'[t] = rpc[t]
    BY <1>0, <2>3
  <2>5. \A t \in Servers : t # s => iteration'[t] = iteration[t]
    BY <2>3, <1>t DEF TypeOK
  <2>6. FirstIteration > 0 => iteration'[s] = iter[Root] - 1
    BY <2>1, <2>3, <1>t, <1>i DEF TypeOK, Decrement
  <2>7. Grouped'
    BY <1>d, <2>3 DEF Inv, Grouped
  <2>8. Running'
    BY <1>n, <1>t, <2>1, <2>3, <2>5 DEF Inv, Running, SaidYes, Held, TypeOK
  <2>9. Behind'
    BY <1>i, <1>n, <2>1, <2>3, <2>5, <2>6 DEF Inv, Behind
  <2>10. Calling'
    <3>1. Called(s)'
      BY <1>n, <2>1, <2>3, <2>4 DEF Called, CallPcs, Held, Codes
    <3> QED
      BY <1>g, <2>3, <2>4, <2>5, <3>1 DEF Calling
  <2>11. Holding'
    BY <1>n, <2>1, <2>3 DEF Inv, Holding, SaidNo, SaidYes
  <2> QED
    BY <1>q, <1>r, <2>4, <2>7, <2>8, <2>9, <2>10, <2>11
<1>4. ASSUME ServeExecute(s) PROVE Inv'
  <2>1. pc[Root] = "waitExecute" /\ s \in list[Root]
    BY <1>4, <1>c DEF ServeExecute, Called, CallPcs, RpcNames, Codes
  <2>2. s \in active /\ s \in Configured /\ iteration[s] = iter[Root]
    BY <2>1 DEF Inv, Running, Grouped
  <2>3. PICK code \in {"SUCCESS", "BACKEND_ERROR"} : Reply(s, code)
    BY <1>4, <2>2, AnswerCodes DEF ServeExecute
  <2>4. rpc'[s] = code /\ \A t \in Servers : t # s => rpc'[t] = rpc[t]
    BY <1>0, <2>3
  <2>5. Called(s)'
    BY <1>n, <2>1, <2>3, <2>4 DEF Called, CallPcs, Codes
  <2> QED
    BY <1>4, <1>q, <1>s, <2>3, <2>4, <2>5 DEF ServeExecute
<1>5. ASSUME ServeCleanup(s) PROVE Inv'
  <2>1. /\ pc[Root] = "waitCleanup" /\ s \in active /\ iteration[s] = iter[Root]
        /\ s \in Configured /\ s \in list[Root]
    BY <1>5, <1>c DEF ServeCleanup, Called, CallPcs, RpcNames, Codes, Inv, Grouped
  <2>2. PICK code \in {"SUCCESS", "BACKEND_ERROR"} :
          /\ Reply(s, code)
          /\ IF code = "SUCCESS"
             THEN /\ active' = active \ {s}
                  /\ staged' = [staged EXCEPT ![s] = {}]
             ELSE UNCHANGED <<active, staged>>
    BY <1>5, <2>1, AnswerCodes DEF ServeCleanup
  <2>3. /\ rpc'[s] = code /\ \A t \in Servers : t # s => rpc'[t] = rpc[t]
        /\ iteration' = iteration
    BY <1>0, <1>5, <2>2 DEF ServeCleanup
  <2>4. CASE code = "BACKEND_ERROR"
    <3>1. Called(s)'
      BY <1>n, <2>1, <2>2, <2>3, <2>4 DEF Called, CallPcs, Codes
    <3> QED
      BY <1>q, <1>s, <2>2, <2>3, <2>4, <3>1
  <2>5. CASE code = "SUCCESS"
    <3>1. \A t \in Servers : staged'[t] = IF t = s THEN {} ELSE staged[t]
      BY <2>2, <2>5, <1>t DEF TypeOK
    <3>2. Grouped'
      BY <1>d, <2>2, <2>5 DEF Inv, Grouped
    <3>3. Running'
      BY <1>n, <2>1, <2>2, <2>3, <2>5 DEF Inv, Running, SaidYes, Held
    <3>4. Behind'
      BY <1>n, <2>1, <2>2, <2>3, <2>5 DEF Inv, Behind
    <3>5. Calling'
      <4>1. Called(s)'
        BY <1>n, <2>1, <2>2, <2>3, <2>5 DEF Called, CallPcs, Held, Codes
      <4> QED
        BY <1>g, <2>2, <2>3, <2>5, <4>1 DEF Calling
    <3>6. Holding'
      BY <1>n, <2>1, <2>2, <2>5, <3>1 DEF Inv, Holding, SaidNo, SaidYes, Held
    <3> QED
      BY <1>q, <1>r, <2>3, <2>5, <3>2, <3>3, <3>4, <3>5, <3>6
  <2> QED
    BY <2>4, <2>5
<1> QED
  BY <1>1, <1>2, <1>3, <1>4, <1>5 DEF Serve

\* A barrier is passed by everyone out of the same call, but that the root is
\* one iteration behind the others at the last one.
LEMMA BarrierKeepsInv ==
    ASSUME Inv, Barrier
    PROVE  Inv'
<1> USE DEF groupVars, serverVars, handleVars, SaidNo, SaidYes
<1>t. TypeOK /\ TypeOK' /\ Root \in Ranks
  BY BarrierTyped, RootIsRank DEF Inv
<1>n. UNCHANGED <<groupVars, serverVars, rpc, threw, handleVars, chan>>
  BY DEF Barrier
<1>b. \A r \in Ranks : pc[r] \in BarrierPcs /\ pc'[r] = AfterBarrier(r)
  BY DEF Barrier
<1>o. ASSUME NEW r \in Others
      PROVE  r \in Ranks /\ r # Root /\ pc[r] = pc[Root] /\ iter[r] = iter[Root]
  <2>1. r \in Ranks /\ r # Root
    BY DEF Others
  <2>2. Follows(r)
    BY DEF Inv, Aligned
  <2>3. pc[r] \in BarrierPcs /\ pc[Root] \in BarrierPcs
    BY <1>b, <1>t, <2>1
  <2> QED
    BY <2>1, <2>2, <2>3 DEF Inv, Outcome, Follows, BarrierPcs, RecvPcs
<1>h. \A r \in Others : r \notin threw
  BY <1>b, <1>o DEF Inv, Outcome, BarrierPcs
<1>i. /\ iter'[Root] = iter[Root]
      /\ \A r \in Others : iter'[r] = IF pc'[r] = "startBarrier" THEN iter[r] + 1 ELSE iter[r]
  BY <1>t DEF Barrier, Others
<1>e. \A r \in Others : chan[r] = <<>> /\ list[r] = list[Root]
  <2> TAKE r \in Others
  <2>1. Len(chan[r]) = 0 /\ list[r] = list[Root]
    BY <1>o, <1>b DEF Inv, Delivered, Alternating, BarrierPcs, RecvPcs
  <2> QED
    BY <2>1, <1>t DEF TypeOK
<1>g. Grouped' /\ StateNeverRefuses' /\ Held' = Held
  BY <1>n DEF Inv, Grouped, StateNeverRefuses, Held
<1>r. ASSUME Outcome', Aligned', Delivered', Running', Behind', Calling', Holding' PROVE Inv'
  BY <1>r, <1>g, <1>t DEF Inv
<1>1. CASE pc[Root] = "startBarrier"
  <2>1. pc'[Root] = "send" /\ \A r \in Others : pc'[r] = "recvOk"
    BY <1>1, <1>b, <1>o, <1>t, AfterBarrierPcs
  <2>2. Outcome' /\ Aligned'
    BY <2>1, <1>h, <1>i, <1>n, <1>o DEF Outcome, Aligned, Follows, RecvPcs
  <2>3. Delivered'
    BY <2>1, <1>n, <1>e DEF Delivered, Alternating, CatchesUp, RecvPcs
  <2>4. Running' /\ Behind'
    BY <1>1, <2>1, <1>n, <1>i, <1>g DEF Inv, Running, Behind
  <2>5. Calling'
    BY <1>1, <2>1, <1>n DEF Inv, Calling, Called, CallPcs
  <2>6. Holding'
    BY <1>1, <2>1, <1>n, <1>g DEF Inv, Holding, Running
  <2> QED
    BY <1>r, <2>2, <2>3, <2>4, <2>5, <2>6
<1>2. CASE pc[Root] = "executeBarrier"
  <2>1. pc'[Root] = "execute" /\ \A r \in Others : pc'[r] = "cleanupBarrier"
    BY <1>2, <1>b, <1>o, <1>t, AfterBarrierPcs
  <2>2. Outcome' /\ Aligned'
    BY <1>2, <2>1, <1>h, <1>i, <1>n, <1>o DEF Inv, Outcome, Aligned, Follows, RecvPcs
  <2>3. Delivered'
    BY <2>1, <1>n, <1>e DEF Delivered, Alternating, CatchesUp, RecvPcs
  <2>4. Running' /\ Behind'
    BY <1>2, <2>1, <1>n, <1>i, <1>g DEF Inv, Outcome, Running, Behind
  <2>5. Calling'
    BY <1>2, <2>1, <1>n DEF Inv, Calling, Called, CallPcs
  <2>6. \A r \in Ranks : pc[r] = "executeBarrier"
    BY <1>2, <1>o DEF Others
  <2>7. \A r \in Ranks : \E s \in list[Root] : r \in staged[s]
    <3>1. Held \subseteq list[Root]
      BY <1>2 DEF Inv, Outcome, Running
    <3>2. \A r \in Ranks : \E s \in Servers : r \in staged[s]
      BY <1>2, <2>6 DEF Inv, Outcome, Holding
    <3>3. \A s \in Servers \ Held : staged[s] = {}
      BY DEF Inv, Holding
    <3> QED
      BY <3>1, <3>2, <3>3
  <2>8. Holding'
    BY <2>1, <2>7, <1>n, <1>g DEF Inv, Holding
  <2> QED
    BY <1>r, <2>2, <2>3, <2>4, <2>5, <2>8
<1>3. CASE pc[Root] = "cleanupBarrier"
  <2>1. /\ pc'[Root] = "cleanup"
        /\ \A r \in Others : pc'[r] = IF iter[Root] = LastIteration THEN "done" ELSE "startBarrier"
    BY <1>3, <1>b, <1>o, <1>t, AfterBarrierPcs
  <2>2. Outcome' /\ Aligned'
    BY <1>3, <2>1, <1>h, <1>i, <1>n, <1>o DEF Inv, Outcome, Aligned, Follows, RecvPcs
  <2>3. Delivered'
    BY <2>1, <1>n, <1>e DEF Delivered, Alternating, CatchesUp, RecvPcs
  <2>4. Running' /\ Behind'
    BY <1>3, <2>1, <1>n, <1>i, <1>g DEF Inv, Running, Behind
  <2>5. Calling'
    BY <1>3, <2>1, <1>n DEF Inv, Calling, Called, CallPcs
  <2>6. Holding'
    BY <1>3, <2>1, <1>n, <1>g DEF Inv, Holding
  <2> QED
    BY <1>r, <2>2, <2>3, <2>4, <2>5, <2>6
<1> QED
  BY <1>1, <1>2, <1>3, <1>b, <1>t DEF BarrierPcs

\* Sending an RPC to every server of the list.
LEMMA CallEffect ==
    ASSUME TypeOK, NEW name, NEW targets, NEW next, Call(name, targets, next)
    PROVE  /\ pc'[Root] = next /\ \A r \in Others : pc'[r] = pc[r]
           /\ \A s \in Servers : rpc'[s] = IF s \in targets THEN name ELSE "none"
  BY GotoRoot DEF Call

LEMMA SendKeepsInv ==
    ASSUME Inv, SendStart \/ SendExecute \/ SendCleanup
    PROVE  Inv'
<1> USE DEF groupVars, serverVars, handleVars, SaidNo, SaidYes, At
<1>t. TypeOK /\ TypeOK' /\ Root \in Ranks
  BY RootStepTyped, RootIsRank DEF Inv, RootStep
<1>n. UNCHANGED <<groupVars, serverVars, iter, threw, list, hash, chan>>
  BY DEF SendStart, SendExecute, SendCleanup
<1>g. Grouped' /\ Held' = Held
  BY <1>n DEF Inv, Grouped, Held
<1>l. Held \subseteq active
  BY DEF Held
<1>r. ASSUME Outcome', Aligned', Delivered', Running', Behind', Calling',
             StateNeverRefuses', Holding'
      PROVE  Inv'
  BY <1>r, <1>g, <1>t DEF Inv
<1>1. ASSUME SendStart PROVE Inv'
  <2>1. /\ pc[Root] = "send" /\ pc'[Root] = "waitStart"
        /\ \A r \in Others : pc'[r] = pc[r]
        /\ \A s \in Servers : rpc'[s] = IF s \in list[Root] THEN "start" ELSE "none"
    BY <1>1, <1>t, CallEffect DEF SendStart
  <2>2. Outcome' /\ Aligned'
    BY <2>1, <1>n DEF Inv, Outcome, Aligned, Follows, RecvPcs
  <2>3. Delivered'
    BY <2>1, <1>n DEF Inv, Delivered, Alternating, CatchesUp
  <2>4. Running' /\ Behind'
    BY <2>1, <1>n, <1>g DEF Inv, Running, Behind
  <2>5. Calling' /\ StateNeverRefuses'
    BY <2>1, <1>n, <1>g DEF Inv, Running, Calling, Called, CallPcs, StateNeverRefuses
  <2>6. Holding'
    BY <2>1, <1>n, <1>g DEF Inv, Holding
  <2> QED
    BY <1>r, <2>2, <2>3, <2>4, <2>5, <2>6
<1>2. ASSUME SendExecute PROVE Inv'
  <2>1. /\ pc[Root] = "execute" /\ pc'[Root] = "waitExecute"
        /\ \A r \in Others : pc'[r] = pc[r]
        /\ \A s \in Servers : rpc'[s] = IF s \in list[Root] THEN "execute" ELSE "none"
        /\ UNCHANGED <<ok, retry>>
    BY <1>2, <1>t, CallEffect DEF SendExecute
  <2>2. Outcome' /\ Aligned'
    BY <2>1, <1>n DEF Inv, Outcome, Aligned, Follows, RecvPcs
  <2>3. Delivered'
    BY <2>1, <1>n DEF Inv, Delivered, Alternating, CatchesUp
  <2>4. Running' /\ Behind'
    BY <2>1, <1>n, <1>g DEF Inv, Running, Behind
  <2>5. Calling' /\ StateNeverRefuses'
    BY <2>1, <1>n, <1>g DEF Inv, Calling, Called, CallPcs, StateNeverRefuses
  <2>6. Holding'
    BY <2>1, <1>n, <1>g DEF Inv, Holding
  <2> QED
    BY <1>r, <2>2, <2>3, <2>4, <2>5, <2>6
<1>3. ASSUME SendCleanup PROVE Inv'
  <2>1. /\ pc[Root] = "cleanup" /\ pc'[Root] = "waitCleanup"
        /\ \A r \in Others : pc'[r] = pc[r]
        /\ \A s \in Servers : rpc'[s] = IF s \in list[Root] THEN "cleanup" ELSE "none"
        /\ UNCHANGED <<ok, retry>>
    BY <1>3, <1>t, CallEffect DEF SendCleanup
  <2>2. Outcome' /\ Aligned'
    BY <2>1, <1>n DEF Inv, Outcome, Aligned, Follows, RecvPcs
  <2>3. Delivered'
    BY <2>1, <1>n DEF Inv, Delivered, Alternating, CatchesUp
  <2>4. Running' /\ Behind'
    BY <2>1, <1>n, <1>g DEF Inv, Running, Behind
  <2>5. Calling' /\ StateNeverRefuses'
    BY <2>1, <1>n, <1>g DEF Inv, Running, Calling, Called, CallPcs, StateNeverRefuses
  <2>6. Holding'
    BY <2>1, <1>n, <1>g DEF Inv, Holding
  <2> QED
    BY <1>r, <2>2, <2>3, <2>4, <2>5, <2>6
<1> QED
  BY <1>1, <1>2, <1>3

\* The tags of messages.
LEMMA MessageTags ==
    ASSUME TypeOK, NEW r \in Others
    PROVE  /\ chan[r] \in Seq(Messages)
           /\ \A k \in 1..Len(chan[r]) :
                \/ chan[r][k][1] = "ok" /\ chan[r][k] = <<"ok", chan[r][k][2]>>
                   /\ chan[r][k][2] \in BOOLEAN
                \/ chan[r][k][1] = "view" /\ chan[r][k] = <<"view", chan[r][k][2]>>
<1>1. chan[r] \in Seq(Messages)
  BY DEF TypeOK
<1>2. \A k \in 1..Len(chan[r]) : chan[r][k] \in Messages
  BY <1>1
<1> QED
  BY <1>1, <1>2 DEF Messages

LEMMA BcastEffect ==
    ASSUME TypeOK, NEW msg, Bcast(msg), NEW r \in Others
    PROVE  /\ Len(chan'[r]) = Len(chan[r]) + 1
           /\ \A k \in 1..Len(chan[r]) : chan'[r][k] = chan[r][k]
           /\ chan'[r][Len(chan[r]) + 1] = msg
           /\ Len(chan[r]) \in Nat
<1>1. chan[r] \in Seq(Messages)
  BY DEF TypeOK
<1>2. chan'[r] = Append(chan[r], msg)
  BY DEF Bcast
<1> QED
  BY <1>1, <1>2

LEMMA PopEffect ==
    ASSUME TypeOK, NEW r \in Others, Pop(r), chan[r] # <<>>
    PROVE  /\ Len(chan[r]) \in Nat /\ Len(chan[r]) > 0
           /\ Len(chan'[r]) = Len(chan[r]) - 1
           /\ \A k \in 1..Len(chan[r]) - 1 : chan'[r][k] = chan[r][k + 1]
           /\ Head(chan[r]) = chan[r][1]
           /\ \A q \in Others : q # r => chan'[q] = chan[q]
<1>1. chan[r] \in Seq(Messages)
  BY DEF TypeOK
<1>2. chan'[r] = Tail(chan[r]) /\ \A q \in Others : q # r => chan'[q] = chan[q]
  BY DEF Pop, TypeOK
<1> QED
  BY <1>1, <1>2
LEMMA EndAttemptKeepsInv ==
    ASSUME Inv, EndAttempt
    PROVE  Inv'
<1> USE DEF groupVars, serverVars, handleVars, SaidNo, SaidYes, At
<1>t. TypeOK /\ TypeOK' /\ Root \in Ranks
  BY RootStepTyped, RootIsRank DEF Inv, RootStep
<1>n. /\ UNCHANGED <<groupVars, serverVars, iter, threw, list, hash>>
      /\ pc[Root] = "waitStart" /\ Answered(list[Root])
      /\ Bcast(<<"ok", ok'>>)
      /\ ok' = (Started = list[Root]) /\ ok' \in BOOLEAN
  BY DEF EndAttempt
<1>l. list[Root] \subseteq Servers
  BY <1>t DEF TypeOK
<1>a. ASSUME NEW s \in Servers
      PROVE  /\ s \in list[Root] => rpc[s] \in Codes
             /\ s \notin list[Root] => rpc[s] = "none"
             /\ s \in Started => s \in active /\ iteration[s] = iter[Root]
             /\ s \in Held => s \in Started
  BY <1>n DEF Inv, Calling, Called, Answered, Codes, Started
<1>g. Grouped' /\ Held' = Held
  BY <1>n DEF Inv, Grouped, Held
<1>h. Held \subseteq active /\ active \subseteq Servers
  BY <1>t DEF Held, TypeOK
<1>r. ASSUME Outcome', Aligned', Delivered', Running', Behind', Calling',
             StateNeverRefuses', Holding'
      PROVE  Inv'
  BY <1>r, <1>g, <1>t DEF Inv
<1>o. \A r \in Others : pc[r] \in RecvPcs
  BY <1>n DEF Inv, Aligned, Follows
<1>d. ASSUME NEW r \in Others, pc'[r] = pc[r]
      PROVE  Alternating(r)'
  <2>1. /\ pc[r] \in RecvPcs /\ pc'[r] = pc[r]
        /\ Alternating(r) /\ CatchesUp(r)
    BY <1>d, <1>o DEF Inv, Delivered
  <2>2. CASE Len(chan[r]) = 0
    BY <1>n, <1>t, <2>1, <2>2, BcastEffect DEF Alternating, CatchesUp, RecvPcs
  <2>3. CASE Len(chan[r]) # 0
    <3>1. LET n == Len(chan[r]) IN n \in Nat /\ n > 0 /\ chan[r][n] = <<"view", list[Root]>>
      BY <1>n, <1>t, <2>1, <2>3, BcastEffect DEF CatchesUp
    <3>2. Len(chan'[r]) > 0 => chan'[r][1][1] = (IF pc'[r] = "recvOk" THEN "ok" ELSE "view")
      BY <1>n, <1>t, <2>1, <3>1, BcastEffect DEF Alternating
    <3>3. ASSUME NEW k \in 1..Len(chan'[r]) - 1
          PROVE  /\ chan'[r][k][1] # chan'[r][k + 1][1]
                 /\ chan'[r][k][1] = "ok" => chan'[r][k][2] = FALSE
      <4>1. CASE k = Len(chan[r])
        BY <1>n, <1>t, <3>1, <4>1, BcastEffect
      <4>2. CASE k # Len(chan[r])
        <5>1. k \in 1..Len(chan[r]) - 1 /\ k \in 1..Len(chan[r]) /\ k + 1 \in 1..Len(chan[r])
          BY <1>n, <1>t, <3>3, <4>2, BcastEffect
        <5> QED
          BY <1>n, <1>t, <2>1, <5>1, BcastEffect, SMTT(40) DEF Alternating
      <4> QED
        BY <4>1, <4>2
    <3> QED
      BY <2>1, <3>2, <3>3 DEF Alternating
  <2> QED
    BY <2>2, <2>3
<1>e. ASSUME NEW r \in Others
      PROVE  /\ Len(chan'[r]) = Len(chan[r]) + 1 /\ Len(chan[r]) \in Nat
             /\ chan'[r][Len(chan'[r])] = <<"ok", ok'>>
  <2>1. Len(chan'[r]) = Len(chan[r]) + 1 /\ Len(chan[r]) \in Nat
    BY <1>n, <1>t, BcastEffect
  <2>2. chan'[r][Len(chan[r]) + 1] = <<"ok", ok'>>
    BY <1>n, <1>t, BcastEffect
  <2> QED
    BY <2>1, <2>2
<1>1. CASE ok'
  <2>1. /\ pc'[Root] = "stage" /\ \A r \in Others : pc'[r] = pc[r]
        /\ rpc' = rpc
    BY <1>1, <1>t, GotoRoot DEF EndAttempt
  <2>2. Outcome' /\ Aligned'
    BY <1>1, <1>n, <1>o, <2>1 DEF Inv, Outcome, Aligned, Follows, RecvPcs
  <2>3. ASSUME NEW r \in Others PROVE CatchesUp(r)'
    <3>1. /\ pc[r] \in RecvPcs /\ pc'[r] = pc[r] /\ CatchesUp(r)
          /\ <<"ok", ok'>> = <<"ok", TRUE>>
      BY <1>1, <1>n, <1>o, <2>1 DEF Inv, Delivered
    <3>2. /\ Len(chan'[r]) = Len(chan[r]) + 1 /\ Len(chan[r]) \in Nat
          /\ chan'[r][Len(chan'[r])] = <<"ok", TRUE>>
      BY <1>e, <3>1
    <3>4. IF Len(chan[r]) = 0 THEN list[r] = list[Root]
          ELSE chan[r][Len(chan[r])] = <<"view", list[Root]>>
      BY <1>n, <3>1 DEF CatchesUp
    <3>5. IF Len(chan'[r]) = 1 THEN list[r] = list[Root]
          ELSE chan'[r][Len(chan'[r]) - 1] = <<"view", list[Root]>>
      BY <1>n, <1>t, <3>2, <3>4, BcastEffect
    <3> QED
      BY <1>1, <1>n, <2>1, <3>1, <3>2, <3>5 DEF CatchesUp
  <2>4. Delivered'
    BY <1>d, <2>1, <2>3 DEF Delivered
  <2>5. Running'
    <3>1. \A s \in list[Root] : s \in active /\ iteration[s] = iter[Root]
      BY <1>1, <1>a, <1>l, <1>n
    <3>2. Held \subseteq list[Root]
      BY <1>a, <1>h DEF Started
    <3> QED
      BY <1>1, <1>n, <1>g, <2>1, <3>1, <3>2 DEF Inv, Running
  <2>6. Calling' /\ StateNeverRefuses' /\ Behind'
    <3>1. \A s \in Servers : rpc[s] \notin RpcNames \cup {"accepted"}
      BY <1>a DEF RpcNames, Codes
    <3> QED
      BY <1>n, <2>1, <3>1 DEF Inv, Calling, Called, CallPcs, StateNeverRefuses, Behind
  <2>7. Holding'
    BY <1>n, <1>g, <1>o, <2>1, <1>t DEF Inv, Holding, RecvPcs, Others
  <2> QED
    BY <1>r, <2>2, <2>4, <2>5, <2>6, <2>7
<1>2. CASE ~ok'
  <2>1. /\ pc'[Root] = "waitAbort" /\ \A r \in Others : pc'[r] = pc[r]
        /\ \A s \in Servers : rpc'[s] = IF s \in Started THEN "abort" ELSE "none"
    BY <1>2, <1>t, CallEffect DEF EndAttempt
  <2>2. Outcome' /\ Aligned'
    BY <1>2, <1>n, <1>o, <2>1 DEF Inv, Outcome, Aligned, Follows, RecvPcs
  <2>3. ASSUME NEW r \in Others PROVE CatchesUp(r)'
    <3>1. <<"ok", ok'>> = <<"ok", FALSE>>
      BY <1>2, <1>n
    <3>2. chan'[r][Len(chan'[r])] = <<"ok", FALSE>>
      BY <1>e, <3>1, Zenon
    <3>3. Len(chan'[r]) # 0
      BY <1>e
    <3> QED
      BY <2>1, <3>2, <3>3 DEF CatchesUp
  <2>4. Delivered'
    BY <1>d, <2>1, <2>3 DEF Delivered
  <2>5. Running' /\ Behind'
    BY <1>n, <1>g, <2>1 DEF Inv, Running, Behind
  <2>6. Calling' /\ StateNeverRefuses'
    BY <1>a, <1>n, <1>g, <2>1 DEF Calling, Called, CallPcs, StateNeverRefuses
  <2>7. Holding'
    BY <1>n, <1>g, <2>1 DEF Inv, Holding
  <2> QED
    BY <1>r, <2>2, <2>4, <2>5, <2>6, <2>7
<1> QED
  BY <1>1, <1>2, <1>n

LEMMA RefreshKeepsInv ==
    ASSUME Inv, Refresh
    PROVE  Inv'
<1> USE DEF groupVars, serverVars, handleVars, SaidNo, SaidYes, At
<1>t. TypeOK /\ TypeOK' /\ Root \in Ranks
  BY RootStepTyped, RootIsRank DEF Inv, RootStep
<1>m. PICK m \in members : /\ list' = [list EXCEPT ![Root] = view[m]]
                           /\ Bcast(<<"view", view[m]>>)
  BY DEF Refresh
<1>n. /\ UNCHANGED <<groupVars, serverVars, rpc, iter, threw, ok, retry>>
      /\ pc[Root] = "refresh" /\ pc'[Root] = "send"
      /\ \A r \in Others : pc'[r] = pc[r]
  BY <1>t, GotoRoot DEF Refresh
<1>l. /\ list'[Root] = view[m] /\ view[m] # {}
      /\ \A r \in Others : list'[r] = list[r]
  <2>1. m \in view[m]
    BY DEF Inv, Grouped
  <2> QED
    BY <2>1, <1>m, <1>t DEF TypeOK, Others
<1>o. \A r \in Others : pc[r] \in RecvPcs
  BY <1>n DEF Inv, Aligned, Follows
<1>1. Outcome' /\ Aligned'
  BY <1>n, <1>o DEF Inv, Outcome, Aligned, Follows, RecvPcs
<1>2. ASSUME NEW r \in Others
      PROVE  Alternating(r)' /\ CatchesUp(r)'
  <2>1. pc[r] \in RecvPcs /\ pc'[r] = pc[r] /\ Alternating(r) /\ CatchesUp(r)
    BY <1>n, <1>o DEF Inv, Delivered
  <2>2. /\ Len(chan[r]) \in Nat /\ Len(chan'[r]) = Len(chan[r]) + 1
        /\ \A k \in 1..Len(chan[r]) : chan'[r][k] = chan[r][k]
        /\ chan'[r][Len(chan[r]) + 1] = <<"view", view[m]>>
    BY <1>m, <1>t, BcastEffect
  <2>3. IF Len(chan[r]) = 0 THEN pc[r] = "recvView"
        ELSE chan[r][Len(chan[r])] = <<"ok", FALSE>>
    BY <2>1, <1>n DEF CatchesUp
  <2>4. CatchesUp(r)'
    BY <2>2, <1>n, <1>l DEF CatchesUp
  <2>5. chan'[r][1][1] = (IF pc'[r] = "recvOk" THEN "ok" ELSE "view")
    <3>1. CASE Len(chan[r]) = 0
      <4>1. chan'[r][1] = <<"view", view[m]>> /\ pc[r] = "recvView"
        BY <2>2, <2>3, <3>1
      <4> QED
        BY <4>1, <2>1
    <3>2. CASE Len(chan[r]) # 0
      <4>1. chan'[r][1] = chan[r][1]
        BY <2>2, <3>2
      <4> QED
        BY <4>1, <2>1, <2>2, <3>2 DEF Alternating
    <3> QED
      BY <3>1, <3>2
  <2>6. ASSUME NEW k \in 1..Len(chan'[r]) - 1
        PROVE  /\ chan'[r][k][1] # chan'[r][k + 1][1]
               /\ chan'[r][k][1] = "ok" => chan'[r][k][2] = FALSE
    <3>1. CASE k = Len(chan[r])
      <4>1. chan[r][k] = <<"ok", FALSE>>
        <5>1. Len(chan[r]) # 0
          BY <2>2, <2>6, <3>1
        <5> QED
          BY <5>1, <2>3, <3>1
      <4>2. chan'[r][k] = chan[r][k] /\ chan'[r][k + 1] = <<"view", view[m]>>
        BY <2>2, <2>6, <3>1
      <4> QED
        BY <4>1, <4>2
    <3>2. CASE k # Len(chan[r])
      <4>1. k \in 1..Len(chan[r]) - 1 /\ k \in 1..Len(chan[r]) /\ k + 1 \in 1..Len(chan[r])
        BY <2>2, <2>6, <3>2
      <4> QED
        BY <2>1, <2>2, <4>1 DEF Alternating
    <3> QED
      BY <3>1, <3>2
  <2>7. Alternating(r)'
    BY <2>1, <2>5, <2>6 DEF Alternating
  <2> QED
    BY <2>4, <2>7
<1>3. Delivered'
  BY <1>2 DEF Delivered
<1>4. Grouped' /\ StateNeverRefuses' /\ Held' = Held
  BY <1>n, <1>l, <1>t DEF Inv, Grouped, StateNeverRefuses, Held, TypeOK
<1>5. Running' /\ Behind'
  BY <1>n, <1>l, <1>4 DEF Inv, Running, Behind
<1>6. Calling'
  BY <1>n DEF Inv, Calling, Called, CallPcs
<1>7. Holding'
  BY <1>n, <1>4 DEF Inv, Holding
<1> QED
  BY <1>t, <1>1, <1>3, <1>4, <1>5, <1>6, <1>7 DEF Inv

\* Only start throws: once a server has started it stays, and a call to it
\* A rank that throws changes nothing else; a server left out of the abort
\* had left the group.
LEMMA ThrowKeepsInv ==
    ASSUME Inv, UNCHANGED <<groupVars, serverVars, rpc, pc, iter, handleVars, chan>>,
           NEW r \in Ranks, r = Root \/ pc[r] = "stage", Throw(r)
    PROVE  Inv'
<1> USE DEF groupVars, serverVars, handleVars
<1>1. Outcome' /\ Aligned'
  BY DEF Inv, Outcome, Aligned, Follows, SaidNo, SaidYes, Throw, Others
<1>2. TypeOK' /\ Grouped' /\ StateNeverRefuses' /\ Behind' /\ Held' = Held
  BY DEF Inv, TypeOK, Grouped, StateNeverRefuses, Behind, Held, Throw
<1> QED
  BY <1>1, <1>2, DeliveredStays, RunningStays, CallingStays, HoldingStays DEF Inv

LEMMA AbortThrowsKeepsInv ==
    ASSUME Inv, NEW s \in Servers, AbortThrows(s)
    PROVE  Inv'
<1> USE DEF groupVars, serverVars, rankVars, handleVars
<1>t. TypeOK /\ TypeOK'
  BY RootStepTyped DEF Inv, RootStep
<1>n. /\ UNCHANGED <<groupVars, serverVars, rankVars, handleVars, chan>>
      /\ pc[Root] = "waitAbort" /\ s \notin members
      /\ \A t \in Servers : rpc'[t] = IF t = s THEN "none" ELSE rpc[t]
  BY <1>t DEF AbortThrows, At, Reply, TypeOK, Inv, Grouped
<1>1. Grouped' /\ StateNeverRefuses' /\ Behind' /\ Held' = Held
  BY <1>n DEF Inv, Grouped, StateNeverRefuses, Behind, Held
<1>2. Calling'
  BY <1>n DEF Inv, Calling, Called, CallPcs, Held
<1> QED
  BY <1>t, <1>n, <1>1, <1>2, AlignedStays, DeliveredStays, RunningStays, HoldingStays DEF Inv

\* The answers of a call that succeeded.
LEMMA AllStarted ==
    ASSUME Inv, pc[Root] \in {"waitExecute", "waitCleanup"}, Started = list[Root]
    PROVE  \A s \in Servers : rpc[s] = (IF s \in list[Root] THEN "SUCCESS" ELSE "none")
BY DEF Inv, Calling, Called, Started

\* When the cleanup succeeded, no pipeline runs.
LEMMA CleanupSucceeds ==
    ASSUME Inv, EndCleanup, Started = list[Root]
    PROVE  /\ pc[Root] = "waitCleanup"
           /\ Held = {}
           /\ IF iter[Root] = LastIteration
              THEN pc'[Root] = "done" /\ iter'[Root] = iter[Root]
              ELSE pc'[Root] = "startBarrier" /\ iter'[Root] = iter[Root] + 1
           /\ \A r \in Others : pc'[r] = pc[r] /\ iter'[r] = iter[r]
<1>t. TypeOK /\ Root \in Ranks /\ Held \subseteq Servers
  BY RootIsRank DEF Inv, TypeOK, Held
<1>1. pc[Root] = "waitCleanup"
  BY DEF EndCleanup, At
<1>2. Held = {}
  BY <1>1, <1>t, AllStarted DEF Inv, Calling, Called
<1>3. CASE iter[Root] = LastIteration
  <2>1. Goto(Root, "done") /\ iter' = iter
    BY <1>3 DEF EndCleanup
  <2> QED
    BY <1>1, <1>2, <1>3, <2>1, <1>t, GotoRoot
<1>4. CASE iter[Root] # LastIteration
  <2>1. Goto(Root, "startBarrier") /\ iter' = [iter EXCEPT ![Root] = @ + 1]
    BY <1>4 DEF EndCleanup
  <2>2. iter'[Root] = iter[Root] + 1 /\ \A r \in Others : iter'[r] = iter[r]
    BY <2>1, <1>t DEF TypeOK, Others
  <2> QED
    BY <1>1, <1>2, <1>4, <2>1, <2>2, <1>t, GotoRoot
<1> QED
  BY <1>3, <1>4

\* The other steps of the root send nothing to the other ranks.
LEMMA EndKeepsInv ==
    ASSUME Inv, EndAbort \/ EndExecute \/ EndCleanup
    PROVE  Inv'
<1> USE DEF groupVars, serverVars, handleVars, SaidNo, SaidYes
<1>t. TypeOK /\ TypeOK' /\ Root \in Ranks
  BY RootStepTyped, RootIsRank DEF Inv, RootStep
<1>n. UNCHANGED <<groupVars, serverVars, rpc, handleVars, chan>>
  BY DEF EndAbort, EndExecute, EndCleanup
<1>l. list[Root] \subseteq Servers /\ Held \subseteq Servers
  BY <1>t DEF TypeOK, Held
<1>g. Grouped' /\ StateNeverRefuses' /\ Held' = Held
  BY <1>n DEF Inv, Grouped, StateNeverRefuses, Held
<1>r. ASSUME Outcome', Aligned', Delivered', Running', Behind', Calling', Holding' PROVE Inv'
  BY <1>r, <1>g, <1>t DEF Inv
<1>1. ASSUME EndAbort PROVE Inv'
  <2>1. /\ pc[Root] = "waitAbort" /\ iter' = iter /\ threw' = threw
        /\ \A s \in Servers : rpc[s] # "abort"
    BY <1>1 DEF EndAbort, At
  <2>2. Held = {} /\ ~ok /\ retry \in BOOLEAN
    BY <2>1, <1>l, <1>t DEF Inv, Outcome, Calling, Called, TypeOK
  <2>3. pc'[Root] = (IF retry THEN "refresh" ELSE "stage") /\ \A r \in Others : pc'[r] = pc[r]
    BY <1>1, <1>t, GotoRoot DEF EndAbort
  <2>4. Outcome' /\ Aligned'
    BY <2>1, <2>2, <2>3, <1>n DEF Inv, Outcome, Aligned, Follows, RecvPcs
  <2>5. Delivered'
    <3>1. ASSUME NEW r \in Others PROVE Alternating(r)' /\ CatchesUp(r)'
      <4>1. Alternating(r) /\ CatchesUp(r) /\ pc'[r] = pc[r]
        BY <2>3 DEF Inv, Delivered
      <4>2. pc[r] \in RecvPcs
        BY <2>1 DEF Inv, Aligned, Follows
      <4>3. Alternating(r)'
        BY <4>1, <4>2, <1>n DEF Alternating
      <4>4. CatchesUp(r)'
        BY <4>1, <2>1, <2>2, <2>3, <1>n DEF CatchesUp
      <4> QED
        BY <4>3, <4>4
    <3> QED
      BY <3>1 DEF Delivered
  <2>6. Running' /\ Behind'
    BY <2>1, <2>2, <2>3, <1>n, <1>g DEF Inv, Running, Behind
  <2>7. Calling'
    BY <2>1, <2>2, <2>3, <1>n DEF Inv, Calling, Called, CallPcs, RpcNames, Codes
  <2>8. Holding'
    BY <2>1, <2>2, <2>3, <1>n, <1>g DEF Inv, Holding
  <2> QED
    BY <1>r, <2>4, <2>5, <2>6, <2>7, <2>8
<1>2. ASSUME EndExecute, Started = list[Root] PROVE Inv'
  <2>1. /\ pc[Root] = "waitExecute" /\ iter' = iter /\ threw' = threw
        /\ pc'[Root] = "cleanupBarrier" /\ \A r \in Others : pc'[r] = pc[r]
    BY <1>2, <1>t, GotoRoot DEF EndExecute, At
  <2>2. \A s \in Servers : rpc[s] = (IF s \in list[Root] THEN "SUCCESS" ELSE "none")
    BY <1>2, <2>1, AllStarted
  <2>5. Outcome' /\ Aligned'
    BY <2>1, <1>n DEF Inv, Outcome, Aligned, Follows, RecvPcs
  <2>6. Delivered'
    BY <2>1, <1>n DEF Inv, Delivered, Alternating, CatchesUp
  <2>7. Running' /\ Behind'
    BY <2>1, <1>n, <1>g DEF Inv, Running, Behind
  <2>8. Calling'
    BY <2>1, <2>2, <1>n DEF Calling, Called, CallPcs, RpcNames
  <2>9. Holding'
    BY <2>1, <1>n, <1>g DEF Inv, Holding
  <2> QED
    BY <1>r, <2>5, <2>6, <2>7, <2>8, <2>9
<1>3. ASSUME EndCleanup, Started = list[Root] PROVE Inv'
  <2>1. pc[Root] = "waitCleanup" /\ Held = {} /\ threw' = threw
    BY <1>3, CleanupSucceeds DEF EndCleanup
  <2>2. \A s \in Servers : rpc[s] = (IF s \in list[Root] THEN "SUCCESS" ELSE "none")
    BY <1>3, <2>1, AllStarted
  <2>5. iter[Root] \in Nat /\ \A s \in Servers : iteration[s] \in Nat
    BY <1>t, IterationBounds DEF TypeOK, Iterations
  <2>6. CASE iter[Root] = LastIteration
    <3>1. /\ pc'[Root] = "done" /\ iter'[Root] = iter[Root]
          /\ \A r \in Others : pc'[r] = pc[r] /\ iter'[r] = iter[r]
      BY <1>3, <2>6, CleanupSucceeds
    <3>2. Outcome' /\ Aligned'
      BY <2>1, <2>6, <3>1, <1>n DEF Inv, Outcome, Aligned, Follows, RecvPcs
    <3>3. Delivered'
      BY <2>1, <3>1, <1>n DEF Inv, Delivered, Alternating, CatchesUp
    <3>4. Running' /\ Behind'
      BY <2>1, <3>1, <1>n, <1>g DEF Inv, Running, Behind
    <3>5. Calling'
      BY <2>2, <3>1, <1>n DEF Calling, Called, CallPcs, RpcNames
    <3>6. Holding'
      BY <2>1, <3>1, <1>n, <1>g DEF Inv, Holding
    <3> QED
      BY <1>r, <3>2, <3>3, <3>4, <3>5, <3>6
  <2>7. CASE iter[Root] # LastIteration
    <3>1. /\ pc'[Root] = "startBarrier" /\ \A r \in Others : pc'[r] = pc[r]
          /\ iter'[Root] = iter[Root] + 1 /\ \A r \in Others : iter'[r] = iter[r]
      BY <1>3, <2>7, CleanupSucceeds
    <3>2. Outcome' /\ Aligned'
      BY <2>1, <2>7, <3>1, <1>n DEF Inv, Outcome, Aligned, Follows, RecvPcs
    <3>3. Delivered'
      BY <2>1, <3>1, <1>n DEF Inv, Delivered, Alternating, CatchesUp
    <3>4. Running' /\ Behind'
      BY <2>1, <2>5, <3>1, <1>n, <1>g DEF Inv, Running, Behind
    <3>5. Calling'
      BY <2>2, <3>1, <1>n DEF Calling, Called, CallPcs, RpcNames
    <3>6. Holding'
      BY <2>1, <3>1, <1>n, <1>g DEF Inv, Holding
    <3> QED
      BY <1>r, <3>2, <3>3, <3>4, <3>5, <3>6
  <2> QED
    BY <2>6, <2>7
<1>4. ASSUME EndExecute \/ EndCleanup, Started # list[Root] PROVE Inv'
  <2>1. Throw(Root) /\ UNCHANGED <<pc, iter>>
    BY <1>4 DEF EndExecute, EndCleanup
  <2> QED
    BY <1>n, <1>t, <2>1, ThrowKeepsInv
<1> QED
  BY <1>1, <1>2, <1>3, <1>4

\* A rank that start has returned to runs the root's iteration on its list.
LEMMA RunningTogether ==
    ASSUME Inv, NEW r \in Ranks, pc[r] \in {"stage", "executeBarrier"}, r = Root => ok
    PROVE  SaidYes /\ list[r] = list[Root] /\ iter[r] = iter[Root]
<1>1. CASE r = Root
  BY <1>1 DEF SaidYes
<1>2. CASE r # Root
  <2>1. r \in Others
    BY <1>2 DEF Others
  <2>2. Follows(r) /\ pc[Root] \notin RecvPcs /\ Alternating(r)
    BY <2>1 DEF Inv, Aligned, Delivered
  <2>3. pc[Root] \in Pcs /\ ok \in BOOLEAN
    BY RootIsRank DEF Inv, TypeOK
  <2>4. SaidYes
    BY <2>2, <2>3 DEF Inv, Outcome, Follows, SaidNo, SaidYes, RecvPcs, Pcs, BarrierPcs,
                      StartPcs, RunPcs
  <2> QED
    BY <2>2, <2>4 DEF Follows, Alternating, SaidYes, RecvPcs
<1> QED
  BY <1>1, <1>2

\* A rank stages only while the servers of its list run its iteration; when
\* start gave up, the root finds none.
LEMMA StageEffect ==
    ASSUME Inv, NEW r \in Ranks, Stage(r)
    PROVE  \/ Throw(r) /\ UNCHANGED <<pc, staged>>
           \/ \E s \in Held : /\ s \in list[Root] /\ SaidYes
                              /\ staged' = [staged EXCEPT ![s] = @ \cup {r}]
                              /\ list[r] = list[Root]
                              /\ Goto(r, "executeBarrier") /\ UNCHANGED threw
<1> SUFFICES ASSUME ~(Throw(r) /\ UNCHANGED <<pc, staged>>)
             PROVE  \E s \in Held : /\ s \in list[Root] /\ SaidYes
                                    /\ staged' = [staged EXCEPT ![s] = @ \cup {r}]
                                    /\ list[r] = list[Root]
                                    /\ Goto(r, "executeBarrier") /\ UNCHANGED threw
  OBVIOUS
<1>1. PICK s \in list[r] : /\ s \in members /\ Refusal(s, iter[r]) = "SUCCESS"
                           /\ staged' = [staged EXCEPT ![s] = @ \cup {r}]
                           /\ Goto(r, "executeBarrier") /\ UNCHANGED threw
  BY DEF Stage
<1>2. s \in Held
  BY <1>1, RefusalCodes DEF Held
<1>3. pc[r] = "stage"
  BY DEF Stage, At
<1>4. r = Root => ok
  BY <1>2, <1>3 DEF Inv, Running
<1> QED
  BY <1>1, <1>2, <1>3, <1>4, RunningTogether

LEMMA StageKeepsInv ==
    ASSUME Inv, NEW r \in Ranks, Stage(r)
    PROVE  Inv'
<1> USE DEF groupVars, serverVars, handleVars
<1>t. TypeOK /\ TypeOK' /\ Root \in Ranks
  BY RankStepTyped, RootIsRank DEF Inv, RankStep
<1>n. /\ UNCHANGED <<groupVars, active, iteration, rpc, iter, handleVars, chan>>
      /\ pc[r] = "stage" /\ r \notin threw
  BY DEF Stage, At
<1>1. CASE Throw(r) /\ UNCHANGED <<pc, staged>>
  BY <1>n, <1>1, ThrowKeepsInv
<1>2. CASE \E s \in Held : /\ s \in list[Root] /\ SaidYes
                           /\ staged' = [staged EXCEPT ![s] = @ \cup {r}]
                           /\ list[r] = list[Root]
                           /\ Goto(r, "executeBarrier") /\ UNCHANGED threw
  <2>s. PICK s \in Held : /\ s \in list[Root] /\ SaidYes
                          /\ staged' = [staged EXCEPT ![s] = @ \cup {r}]
                          /\ Goto(r, "executeBarrier") /\ UNCHANGED threw
    BY <1>2
  <2>a. SaidYes /\ pc[Root] \in {"stage", "executeBarrier"} /\ ok /\ ~SaidNo
    BY <2>s DEF SaidYes, SaidNo
  <2>p. pc'[r] = "executeBarrier" /\ \A q \in Ranks : q # r => pc'[q] = pc[q]
    BY <2>s, <1>t DEF Goto, TypeOK
  <2>q. pc'[Root] \in {"stage", "executeBarrier"} /\ SaidYes' /\ ~SaidNo'
    BY <2>a, <2>p, <1>n, <1>t DEF SaidYes, SaidNo
  <2>d. s \in Servers /\ Held' = Held
    BY <1>t, <1>n DEF Held, TypeOK
  <2>e. \A t \in Servers : staged'[t] = IF t = s THEN staged[s] \cup {r} ELSE staged[t]
    BY <2>s, <1>t DEF TypeOK
  <2>1. Aligned'
    <3>1. ASSUME NEW q \in Others PROVE Follows(q)'
      <4>1. Follows(q) /\ q \in Ranks
        BY DEF Inv, Aligned, Others
      <4>2. pc'[q] = pc[q] \/ pc'[q] = "executeBarrier"
        BY <2>p, <4>1
      <4> QED
        BY <2>a, <1>n, <2>q, <4>1, <4>2 DEF Follows
    <3> QED
      BY <3>1, <2>q DEF Aligned, RecvPcs
  <2>2. Outcome'
    BY <1>n, <2>a, <2>p, <2>q, <2>s DEF Inv, Outcome, Others
  <2>3. Delivered'
    <3>1. ASSUME NEW q \in Others PROVE Alternating(q)' /\ CatchesUp(q)'
      <4>1. Alternating(q) /\ CatchesUp(q) /\ q \in Ranks
        BY DEF Inv, Delivered, Others
      <4>2. CASE q = r
        <5>1. Len(chan[q]) = 0 /\ list[q] = list[Root]
          BY <4>1, <4>2, <1>n DEF Alternating, RecvPcs
        <5> QED
          BY <5>1, <4>2, <1>n, <2>p, <2>q, <1>t DEF Alternating, CatchesUp, RecvPcs
      <4>3. CASE q # r
        <5>1. pc'[q] = pc[q]
          BY <4>1, <4>3, <2>p
        <5>2. Alternating(q)'
          BY <4>1, <5>1, <1>n DEF Alternating
        <5>3. CatchesUp(q)'
          BY <4>1, <5>1, <1>n, <2>a, <2>q DEF CatchesUp
        <5> QED
          BY <5>2, <5>3
      <4> QED
        BY <4>2, <4>3
    <3> QED
      BY <3>1 DEF Delivered
  <2>4. Grouped' /\ StateNeverRefuses'
    BY <1>n DEF Inv, Grouped, StateNeverRefuses
  <2>5. Running' /\ Behind'
    BY <1>n, <2>a, <2>q, <2>d DEF Inv, Running, Behind
  <2>6. Calling'
    BY <1>n, <2>a, <2>q DEF Inv, Calling, Called, CallPcs
  <2>7. \A q \in Ranks : (\E t \in Servers : q \in staged'[t]) <=> pc'[q] = "executeBarrier"
    <3>1. \A q \in Ranks : (\E t \in Servers : q \in staged[t]) <=> pc[q] = "executeBarrier"
      BY <2>a DEF Inv, Holding
    <3> QED
      BY <3>1, <2>d, <2>e, <2>p
  <2>8. Holding'
    BY <1>n, <2>d, <2>e, <2>q, <2>7 DEF Inv, Holding
  <2> QED
    BY <1>t, <2>1, <2>2, <2>3, <2>4, <2>5, <2>6, <2>8 DEF Inv
<1> QED
  BY <1>1, <1>2, StageEffect

\* Where the root is while messages are on their way to a rank.
LEMMA RootWhileReceiving ==
    ASSUME Inv, NEW r \in Others, pc[r] \in RecvPcs
    PROVE  pc[Root] \in {"send", "waitStart"} \/ SaidNo \/ SaidYes
<1>1. pc[Root] \in Pcs \ RecvPcs /\ ok \in BOOLEAN
  BY RootIsRank DEF Inv, TypeOK, Aligned
<1>2. Follows(r)
  BY DEF Inv, Aligned
<1>3. pc[Root] \notin {"startBarrier", "execute", "waitExecute", "cleanupBarrier",
                       "cleanup", "waitCleanup", "done"}
  BY <1>2 DEF Follows, RecvPcs
<1> QED
  BY <1>1, <1>3 DEF Inv, Outcome, Pcs, BarrierPcs, StartPcs, RunPcs, RecvPcs, SaidNo, SaidYes

\* What the arrival of a message leaves alone.
LEMMA ReceiveKeepsInv ==
    ASSUME Inv, NEW r \in Others, TypeOK', pc[r] \in RecvPcs,
           UNCHANGED <<groupVars, serverVars, rpc, iter, threw, hash, ok, retry>>,
           pc'[r] \in RecvPcs \cup {"stage"},
           pc'[r] = "stage" => SaidYes,
           \A q \in Ranks : q # r => pc'[q] = pc[q] /\ list'[q] = list[q],
           \A q \in Others : q # r => chan'[q] = chan[q],
           Alternating(r)', CatchesUp(r)'
    PROVE  Inv'
<1> USE DEF groupVars, serverVars
<1>0. /\ Root \in Ranks /\ r \in Ranks /\ r # Root
      /\ pc'[Root] = pc[Root] /\ list'[Root] = list[Root]
  BY RootIsRank DEF Others
<1>s. SaidYes' = SaidYes /\ SaidNo' = SaidNo /\ Held' = Held
  BY <1>0 DEF SaidYes, SaidNo, Held
<1>1. Aligned'
  <2>1. ASSUME NEW q \in Others PROVE Follows(q)'
    <3>1. Follows(q) /\ q \in Ranks
      BY DEF Inv, Aligned, Others
    <3>2. CASE q = r
      BY <1>0, <1>s, <3>1, <3>2, RootWhileReceiving DEF Follows, RecvPcs, SaidYes, SaidNo
    <3>3. CASE q # r
      BY <1>0, <1>s, <3>1, <3>3 DEF Follows
    <3> QED
      BY <3>2, <3>3
  <2> QED
    BY <2>1, <1>0 DEF Inv, Aligned
<1>2. Delivered'
  <2>1. ASSUME NEW q \in Others, q # r PROVE Alternating(q)' /\ CatchesUp(q)'
    <3>1. Alternating(q) /\ CatchesUp(q) /\ q \in Ranks
      BY DEF Inv, Delivered, Others
    <3> QED
      BY <1>0, <1>s, <2>1, <3>1, ZenonT(40) DEF Alternating, CatchesUp
  <2> QED
    BY <2>1 DEF Delivered
<1>3. Grouped' /\ StateNeverRefuses'
  BY <1>0 DEF Inv, Grouped, StateNeverRefuses
<1>4. Running' /\ Behind'
  BY <1>0, <1>s DEF Inv, Running, Behind
<1>5. Calling'
  BY <1>0, <1>s DEF Inv, Calling, Called
<1>6. Holding'
  <2>1. \A q \in Ranks : pc[q] = "executeBarrier" <=> pc'[q] = "executeBarrier"
    BY <1>0 DEF RecvPcs
  <2> QED
    BY <1>0, <1>s, <2>1 DEF Inv, Holding
<1>7. Outcome'
  <2>1. \A q \in Others : q \in threw => q # r
    BY DEF Inv, Outcome, RecvPcs
  <2> QED
    BY <1>0, <2>1 DEF Inv, Outcome, Others
<1> QED
  BY <1>1, <1>2, <1>3, <1>4, <1>5, <1>6, <1>7 DEF Inv

\* Rank 0 is at one point of an attempt at a time.
LEMMA OneOutcome ==
    /\ pc[Root] \in {"send", "waitStart"} => ~SaidNo /\ ~SaidYes
    /\ SaidNo => ~SaidYes
  BY DEF SaidNo, SaidYes

\* The last message tells a rank that receives where the root is.
LEMMA LastMessage ==
    ASSUME Inv, NEW r \in Others, pc[r] \in RecvPcs, chan[r] # <<>>
    PROVE  \E n, last, prev :
             /\ n \in Nat /\ n # 0 /\ Len(chan[r]) = n
             /\ chan[r][n] = last /\ chan[r][n - 1] = prev
             /\ \/ /\ pc[Root] \in {"send", "waitStart"}
                   /\ last = <<"view", list[Root]>>
                \/ /\ SaidNo
                   /\ last = <<"ok", FALSE>>
                \/ /\ SaidYes
                   /\ last = <<"ok", TRUE>>
                   /\ IF n = 1 THEN list[r] = list[Root]
                      ELSE prev = <<"view", list[Root]>>
<1>1. CatchesUp(r) /\ chan[r] \in Seq(Messages)
  BY DEF Inv, Delivered, TypeOK
<1>2. Len(chan[r]) \in Nat /\ Len(chan[r]) # 0
  BY <1>1
<1>3. PICK n \in Nat : Len(chan[r]) = n
  BY <1>2
<1>4. n # 0
  BY <1>2, <1>3
<1>5. CASE pc[Root] \in {"send", "waitStart"}
  BY <1>1, <1>3, <1>4, <1>5 DEF CatchesUp
<1>6. CASE SaidNo
  BY <1>1, <1>3, <1>4, <1>6 DEF CatchesUp
<1>7. CASE SaidYes
  BY <1>1, <1>3, <1>4, <1>7 DEF CatchesUp
<1> QED
  BY <1>5, <1>6, <1>7, RootWhileReceiving

\* What the first message tells, by how many there are.
LEMMA FirstMessage ==
    ASSUME Inv, NEW r \in Others, pc[r] \in RecvPcs, chan[r] # <<>>
    PROVE  \E n, first :
             /\ n \in Nat /\ Len(chan[r]) = n /\ chan[r][1] = first
             /\ first[1] = (IF pc[r] = "recvOk" THEN "ok" ELSE "view")
             /\ pc[r] = "recvOk" /\ first[2] =>
                  /\ n = 1
                  /\ SaidYes /\ list[r] = list[Root]
             /\ pc[r] = "recvOk" /\ ~first[2] =>
                  /\ n = 1 => SaidNo
                  /\ n = 2 => ~SaidYes
             /\ pc[r] = "recvView" =>
                  /\ n = 1 => pc[Root] \in {"send", "waitStart"}
                  /\ n = 1 => first[2] = list[Root]
                  /\ n = 2 /\ SaidYes
                       => first[2] = list[Root]
<1>1. PICK n, last, prev :
        /\ n \in Nat /\ n # 0 /\ Len(chan[r]) = n
        /\ chan[r][n] = last /\ chan[r][n - 1] = prev
        /\ \/ /\ pc[Root] \in {"send", "waitStart"}
              /\ last = <<"view", list[Root]>>
           \/ /\ SaidNo
              /\ last = <<"ok", FALSE>>
           \/ /\ SaidYes
              /\ last = <<"ok", TRUE>>
              /\ IF n = 1 THEN list[r] = list[Root]
                 ELSE prev = <<"view", list[Root]>>
  BY LastMessage, Zenon
<1>2. n \in Nat /\ n # 0
  BY <1>1
<1>3. PICK first : chan[r][1] = first
  OBVIOUS
<1>4. Alternating(r)
  BY DEF Inv, Delivered
<1>5. Len(chan[r]) > 0
  BY <1>1, <1>2
<1>6. first[1] = (IF pc[r] = "recvOk" THEN "ok" ELSE "view")
  BY <1>3, <1>4, <1>5 DEF Alternating
<1>7. first[1] = "ok" /\ first[2] => n = 1
  <2> SUFFICES ASSUME first[1] = "ok", n # 1 PROVE first[2] = FALSE
    OBVIOUS
  <2>1. 1 \in 1..n - 1
    BY <1>2
  <2>2. 1 \in 1..Len(chan[r]) - 1
    BY <1>1, <2>1
  <2> QED
    BY <1>3, <1>4, <2>2 DEF Alternating
<1>8. (n = 1 => first = last) /\ (n = 2 => first = prev)
  <2>1. n = 1 => first = last
    BY <1>1, <1>3
  <2>2. n = 2 => first = prev
    <3>1. n = 2 => n - 1 = 1
      OBVIOUS
    <3> QED
      BY <1>1, <1>3, <3>1
  <2> QED
    BY <2>1, <2>2
<1>9. CASE pc[Root] \in {"send", "waitStart"} /\ last = <<"view", list[Root]>>
  <2>1. last[1] = "view" /\ last[2] = list[Root]
    BY <1>9
  <2> QED
    BY <1>1, <1>3, <1>6, <1>7, <1>8, <1>9, <2>1, OneOutcome
<1>10. CASE SaidNo /\ last = <<"ok", FALSE>>
  <2>1. last[1] = "ok" /\ last[2] = FALSE
    BY <1>10
  <2> QED
    BY <1>1, <1>3, <1>6, <1>7, <1>8, <1>10, <2>1, OneOutcome
<1>11. CASE /\ SaidYes
            /\ last = <<"ok", TRUE>>
            /\ IF n = 1 THEN list[r] = list[Root] ELSE prev = <<"view", list[Root]>>
  <2>1. last[1] = "ok" /\ last[2] = TRUE
    BY <1>11
  <2>2. n # 1 => prev[1] = "view" /\ prev[2] = list[Root]
    BY <1>11
  <2>3. n = 1 => list[r] = list[Root]
    BY <1>11
  <2> QED
    BY <1>1, <1>3, <1>6, <1>7, <1>8, <1>11, <2>1, <2>2, <2>3
<1> QED
  BY <1>1, <1>9, <1>10, <1>11

\* After the first message is taken the others still alternate, and the last
\* ones are the same.
LEMMA PopKeepsQueue ==
    ASSUME Inv, NEW r \in Others, Pop(r), chan[r] # <<>>,
           pc[r] = "recvOk" => pc'[r] \in {"recvView", "stage"},
           pc[r] = "recvView" => pc'[r] = "recvOk",
           pc'[r] = "stage" => Len(chan[r]) = 1 /\ list'[r] = list'[Root],
           pc[r] \in RecvPcs
    PROVE  Alternating(r)'
<1>t. TypeOK
  BY DEF Inv
<1>l. /\ Len(chan[r]) \in Nat /\ Len(chan[r]) > 0
      /\ Len(chan'[r]) = Len(chan[r]) - 1
      /\ \A k \in 1..Len(chan[r]) - 1 : chan'[r][k] = chan[r][k + 1]
  BY <1>t, PopEffect
<1>i. Alternating(r)
  BY DEF Inv, Delivered
<1>1. ASSUME NEW k \in 1..Len(chan'[r]) - 1
      PROVE  /\ chan'[r][k][1] # chan'[r][k + 1][1]
             /\ chan'[r][k][1] = "ok" => chan'[r][k][2] = FALSE
  <2>1. k \in 1..Len(chan[r]) - 1 /\ k + 1 \in 1..Len(chan[r]) - 1
    BY <1>1, <1>l
  <2>2. chan'[r][k] = chan[r][k + 1] /\ chan'[r][k + 1] = chan[r][k + 1 + 1]
    BY <2>1, <1>l
  <2> QED
    BY <2>1, <2>2, <1>i DEF Alternating
<1>2. ASSUME Len(chan'[r]) > 0
      PROVE  chan'[r][1][1] = (IF pc'[r] = "recvOk" THEN "ok" ELSE "view")
  <2>1. 1 \in 1..Len(chan[r]) - 1 /\ 2 \in 1..Len(chan[r])
    BY <1>2, <1>l
  <2>2. chan'[r][1] = chan[r][2]
    BY <2>1, <1>l
  <2>3. chan[r][1][1] # chan[r][2][1]
    BY <2>1, <1>i DEF Alternating
  <2>4. chan[r][1][1] = (IF pc[r] = "recvOk" THEN "ok" ELSE "view")
    BY <1>i, <1>l DEF Alternating
  <2>5. chan[r][2][1] \in {"ok", "view"}
    BY <2>1, <1>t, MessageTags
  <2>6. pc'[r] # "stage"
    BY <1>2, <1>l, SMTT(40)
  <2> QED
    BY <2>2, <2>3, <2>4, <2>5, <2>6 DEF RecvPcs
<1>3. pc'[r] \notin RecvPcs => Len(chan'[r]) = 0 /\ list'[r] = list'[Root]
  BY <1>l DEF RecvPcs
<1> QED
  BY <1>1, <1>2, <1>3 DEF Alternating

\* What is left after the last and the first message.
LEMMA PopCatchesUp ==
    ASSUME Inv, NEW r \in Others, Pop(r), chan[r] # <<>>,
           pc[r] \in RecvPcs, pc'[r] \in RecvPcs, pc'[r] # pc[r],
           pc'[Root] = pc[Root], list'[Root] = list[Root],
           ok' = ok,
           ~chan[r][1][2] \/ pc[r] # "recvOk",
           list'[r] = IF pc[r] = "recvOk" THEN list[r] ELSE chan[r][1][2]
    PROVE  CatchesUp(r)'
<1>1. PICK n, last, prev :
        /\ n \in Nat /\ n # 0 /\ Len(chan[r]) = n
        /\ chan[r][n] = last /\ chan[r][n - 1] = prev
        /\ \/ /\ pc[Root] \in {"send", "waitStart"}
              /\ last = <<"view", list[Root]>>
           \/ /\ SaidNo
              /\ last = <<"ok", FALSE>>
           \/ /\ SaidYes
              /\ last = <<"ok", TRUE>>
              /\ IF n = 1 THEN list[r] = list[Root]
                 ELSE prev = <<"view", list[Root]>>
  BY LastMessage, Zenon
<1>2. n \in Nat /\ n # 0
  BY <1>1
<1>3. PICK m \in Nat : Len(chan'[r]) = m /\ m = n - 1
  <2>1. Len(chan'[r]) = n - 1
    BY <1>1, PopEffect DEF Inv
  <2> QED
    BY <1>2, <2>1
<1>4. m = n - 1 /\ n \in Nat
  BY <1>2, <1>3
<1>5. m # 0 => chan'[r][m] = last
  <2> SUFFICES ASSUME m # 0 PROVE chan'[r][m] = last
    OBVIOUS
  <2>1. m \in 1..n - 1 /\ m + 1 = n
    BY <1>4
  <2>2. chan'[r][m] = chan[r][m + 1]
    BY <1>1, <2>1, PopEffect DEF Inv
  <2> QED
    BY <1>1, <2>1, <2>2
<1>6. m # 0 /\ m # 1 => chan'[r][m - 1] = prev
  <2> SUFFICES ASSUME m # 0, m # 1 PROVE chan'[r][m - 1] = prev
    OBVIOUS
  <2>1. m - 1 \in 1..n - 1 /\ (m - 1) + 1 = n - 1
    BY <1>4
  <2>2. chan'[r][m - 1] = chan[r][(m - 1) + 1]
    BY <1>1, <2>1, PopEffect DEF Inv
  <2> QED
    BY <1>1, <2>1, <2>2
<1>7. /\ n = 1 /\ pc[r] = "recvOk" => SaidNo
      /\ n = 2 /\ pc[r] = "recvOk" => ~SaidYes
      /\ n = 1 /\ pc[r] = "recvView" =>
           pc[Root] \in {"send", "waitStart"} /\ list'[r] = list[Root]
      /\ n = 2 /\ pc[r] = "recvView" /\ SaidYes
           => list'[r] = list[Root]
  <2>1. PICK k, first :
             /\ k \in Nat /\ Len(chan[r]) = k /\ chan[r][1] = first
             /\ first[1] = (IF pc[r] = "recvOk" THEN "ok" ELSE "view")
             /\ pc[r] = "recvOk" /\ first[2] =>
                  /\ k = 1
                  /\ SaidYes /\ list[r] = list[Root]
             /\ pc[r] = "recvOk" /\ ~first[2] =>
                  /\ k = 1 => SaidNo
                  /\ k = 2 => ~SaidYes
             /\ pc[r] = "recvView" =>
                  /\ k = 1 => pc[Root] \in {"send", "waitStart"}
                  /\ k = 1 => first[2] = list[Root]
                  /\ k = 2 /\ SaidYes
                       => first[2] = list[Root]
    BY FirstMessage, Zenon
  <2>2. n = k
    BY <1>1, <2>1
  <2> QED
    BY <2>1, <2>2
<1>8. m = 0 => n = 1
  BY <1>4
<1>9. m = 1 => n = 2
  BY <1>4
<1>10. pc[r] \in {"recvOk", "recvView"} /\ pc'[r] \in {"recvOk", "recvView"}
  BY DEF RecvPcs
<1>s. SaidNo' = SaidNo /\ SaidYes' = SaidYes
  BY DEF SaidNo, SaidYes
<1>11. CASE pc[Root] \in {"send", "waitStart"} /\ last = <<"view", list[Root]>>
  <2>1. m = 0 => pc'[r] = "recvOk" /\ list'[r] = list[Root]
    BY <1>7, <1>8, <1>10, <1>11, OneOutcome
  <2> QED
    BY <1>3, <1>5, <1>11, <1>s, <2>1, OneOutcome DEF CatchesUp
<1>12. CASE SaidNo /\ last = <<"ok", FALSE>>
  <2>1. m = 0 => pc'[r] = "recvView"
    BY <1>7, <1>8, <1>10, <1>12, OneOutcome
  <2> QED
    BY <1>3, <1>5, <1>12, <1>s, <2>1, OneOutcome DEF CatchesUp
<1>13. CASE /\ SaidYes
            /\ last = <<"ok", TRUE>>
            /\ IF n = 1 THEN list[r] = list[Root] ELSE prev = <<"view", list[Root]>>
  <2>1. m # 0 /\ n # 1
    BY <1>7, <1>8, <1>10, <1>13, <1>4, OneOutcome
  <2>2. chan'[r][m] = <<"ok", TRUE>>
    BY <1>5, <1>13, <2>1
  <2>3. m = 1 => list'[r] = list[Root]
    BY <1>7, <1>9, <1>10, <1>13
  <2>4. m # 1 => chan'[r][m - 1] = <<"view", list[Root]>>
    BY <1>6, <1>13, <2>1
  <2>5. m > 0
    BY <2>1
  <2> QED
    BY <1>3, <1>13, <1>s, <2>2, <2>3, <2>4, <2>5, OneOutcome DEF CatchesUp
<1> QED
  BY <1>1, <1>11, <1>12, <1>13

LEMMA RecvKeepsInv ==
    ASSUME Inv, NEW r \in Others, RecvOk(r) \/ RecvView(r)
    PROVE  Inv'
<1> USE DEF groupVars, serverVars, handleVars
<1>t. TypeOK /\ TypeOK' /\ Root \in Ranks /\ r \in Ranks /\ r # Root
  BY RankStepTyped, RootIsRank DEF Inv, RankStep, Others
<1>n. /\ UNCHANGED <<groupVars, serverVars, rpc, iter, threw, hash, ok, retry>>
      /\ pc[r] \in RecvPcs /\ chan[r] # <<>> /\ Pop(r)
  BY DEF RecvOk, RecvView, RecvPcs, At
<1>1. /\ Head(chan[r]) = chan[r][1]
      /\ \A q \in Others : q # r => chan'[q] = chan[q]
  BY <1>n, <1>t, PopEffect
<1>2. ASSUME RecvOk(r) PROVE Inv'
  <2>1. /\ pc[r] = "recvOk" /\ list' = list
        /\ pc'[r] = (IF chan[r][1][2] THEN "stage" ELSE "recvView")
        /\ \A q \in Ranks : q # r => pc'[q] = pc[q]
    BY <1>1, <1>2, <1>t DEF RecvOk, At, Goto, TypeOK
  <2>2. pc'[Root] = pc[Root]
    BY <2>1, <1>t
  <2>3. CASE chan[r][1][2]
    <3>1. /\ Len(chan[r]) = 1 /\ SaidYes
          /\ list[r] = list[Root] /\ pc'[r] = "stage"
      BY <1>n, <2>1, <2>3, FirstMessage
    <3>2. Alternating(r)'
      BY <1>n, <2>1, <3>1, PopKeepsQueue
    <3>3. CatchesUp(r)'
      BY <1>n, <2>1, <2>2, <3>1, OneOutcome DEF CatchesUp, RecvPcs, SaidNo, SaidYes
    <3> QED
      BY <1>n, <1>t, <1>1, <2>1, <3>1, <3>2, <3>3, ReceiveKeepsInv
  <2>4. CASE ~chan[r][1][2]
    <3>1. pc'[r] = "recvView"
      BY <2>1, <2>4
    <3>2. Alternating(r)'
      BY <1>n, <2>1, <3>1, PopKeepsQueue
    <3>3. CatchesUp(r)'
      BY <1>n, <2>1, <2>2, <2>4, <3>1, PopCatchesUp DEF RecvPcs
    <3> QED
      BY <1>n, <1>t, <1>1, <2>1, <3>1, <3>2, <3>3, ReceiveKeepsInv DEF RecvPcs
  <2> QED
    BY <2>3, <2>4
<1>3. ASSUME RecvView(r) PROVE Inv'
  <2>1. /\ pc[r] = "recvView" /\ pc'[r] = "recvOk" /\ list'[r] = chan[r][1][2]
        /\ \A q \in Ranks : q # r => pc'[q] = pc[q] /\ list'[q] = list[q]
    BY <1>1, <1>3, <1>t DEF RecvView, At, Goto, TypeOK
  <2>2. pc'[Root] = pc[Root] /\ list'[Root] = list[Root]
    BY <2>1, <1>t
  <2>3. Alternating(r)'
    BY <1>n, <2>1, PopKeepsQueue
  <2>4. CatchesUp(r)'
    BY <1>n, <2>1, <2>2, PopCatchesUp DEF RecvPcs
  <2> QED
    BY <1>n, <1>t, <1>1, <2>1, <2>3, <2>4, ReceiveKeepsInv DEF RecvPcs
<1> QED
  BY <1>2, <1>3

LEMMA InvStutters == Inv /\ UNCHANGED vars => Inv'
<1> SUFFICES ASSUME Inv, UNCHANGED vars PROVE Inv'
  OBVIOUS
<1> USE DEF vars, groupVars, serverVars, rankVars, handleVars
<1>1. TypeOK'
  BY DEF Inv, TypeOK
<1>2. Grouped' /\ Behind' /\ StateNeverRefuses' /\ Held' = Held
  BY DEF Inv, Grouped, Behind, StateNeverRefuses, Held
<1> QED
  BY <1>1, <1>2, AlignedStays, DeliveredStays, RunningStays, CallingStays, HoldingStays DEF Inv

LEMMA RootKeepsInv ==
    ASSUME Inv, RootStep
    PROVE  Inv'
<1>1. ASSUME RefreshThrows \/ RpcThrows PROVE Inv'
  BY <1>1, RootIsRank, ThrowKeepsInv DEF RefreshThrows, RpcThrows
<1> QED
  BY <1>1, SendKeepsInv, EndAttemptKeepsInv, RefreshKeepsInv, EndKeepsInv,
     AbortThrowsKeepsInv DEF RootStep

LEMMA NextKeepsInv == Inv /\ [Next]_vars => Inv'
<1> SUFFICES ASSUME Inv, [Next]_vars PROVE Inv'
  OBVIOUS
<1>1. ASSUME NEW s \in Servers,
             \/ Join(s) \/ Construct(s) \/ Leave(s) \/ Serve(s)
             \/ \E m \in Servers : MembershipUpdate(s, m)
      PROVE  Inv'
  BY <1>1, GroupKeepsInv, ServeKeepsInv
<1>2. ASSUME NEW r \in Ranks, RankStep(r) PROVE Inv'
  BY <1>2, StageKeepsInv, RecvKeepsInv DEF RankStep
<1>3. Finished => Inv'
  BY InvStutters DEF Finished
<1> QED
  BY <1>1, <1>2, <1>3, BarrierKeepsInv, RootKeepsInv, InvStutters DEF Next

LEMMA Invariance == Spec => []Inv
<1>1. Init => Inv
  BY InitInv
<1>2. Inv /\ [Next]_vars => Inv'
  BY NextKeepsInv
<1> QED
  BY <1>1, <1>2, PTL DEF Spec


------------------------------------------------------------------------------
(* What the handle promises. *)

(* A rank for which start returned finds every server of its handle active  *)
(* at its iteration, whatever joined, left, refused or failed meanwhile;    *)
(* except rank 0 when it gave up.                                           *)
THEOREM StartIsStart == Spec => []StartedUnlessGivenUp
<1>1. Inv => StartedUnlessGivenUp
  <2> SUFFICES ASSUME Inv, NEW r \in Ranks, pc[r] \in {"stage", "executeBarrier"},
                      ~(r = Root /\ GaveUp),
                      NEW s \in list[r]
               PROVE  s \in active /\ iteration[s] = iter[r]
    BY DEF StartedUnlessGivenUp
  <2>1. r = Root => ok
    BY DEF GaveUp, Inv, Outcome
  <2>2. SaidYes /\ list[r] = list[Root] /\ iter[r] = iter[Root]
    BY <2>1, RunningTogether
  <2> QED
    BY <2>2 DEF Inv, Running
<1> QED
  BY <1>1, Invariance, PTL

(* From iteration 1 on, no pipeline's state is ever in the way of the next  *)
(* call of the client.                                                      *)
THEOREM NoStateRefuses == Spec => []StateNeverRefuses
<1>1. Inv => StateNeverRefuses
  BY DEF Inv
<1> QED
  BY <1>1, Invariance, PTL

(* The collectives of the ranks match those of rank 0, however far behind   *)
(* they are, whatever the servers answered: none receives a value of        *)
(* another kind, and only giving up leaves one waiting for a value that     *)
(* rank 0 does not send.                                                    *)
THEOREM CollectivesMatched == Spec => []CollectivesMatchUnlessGivenUp
<1>1. Inv => CollectivesMatchUnlessGivenUp
  <2> SUFFICES ASSUME Inv, NEW r \in Others
               PROVE  /\ (pc[r] = "recvOk" /\ chan[r] # <<>>) => Head(chan[r])[1] = "ok"
                      /\ (pc[r] = "recvView" /\ chan[r] # <<>>) => Head(chan[r])[1] = "view"
                      /\ (pc[r] \in {"recvOk", "recvView"} /\ chan[r] = <<>>)
                            => pc[Root] \in StartPcs \/ Root \in threw \/ GaveUp
    BY DEF CollectivesMatchUnlessGivenUp
  <2>1. /\ chan[r] # <<>> => Len(chan[r]) > 0 /\ Head(chan[r]) = chan[r][1]
        /\ chan[r] = <<>> => Len(chan[r]) = 0
    <3>1. chan[r] \in Seq(Messages)
      BY DEF Inv, TypeOK
    <3> QED
      BY <3>1
  <2>2. Alternating(r) /\ CatchesUp(r)
    BY DEF Inv, Delivered
  <2>3. pc[r] \in RecvPcs /\ chan[r] # <<>> =>
          chan[r][1][1] = (IF pc[r] = "recvOk" THEN "ok" ELSE "view")
    BY <2>1, <2>2 DEF Alternating
  <2>4. ASSUME pc[r] \in RecvPcs, chan[r] = <<>> PROVE pc[Root] \in StartPcs \/ GaveUp
    <3>1. ~SaidYes
      BY <2>1, <2>2, <2>4 DEF CatchesUp
    <3>2. pc[Root] \in {"send", "waitStart"} \/ SaidNo
      BY <2>4, <3>1, RootWhileReceiving
    <3> QED
      BY <3>2 DEF SaidNo, Inv, Outcome, GaveUp, StartPcs
  <2> QED
    BY <2>1, <2>3, <2>4 DEF RecvPcs
<1> QED
  BY <1>1, Invariance, PTL

(* No rank ever stages, or waits at execute, with an outdated list of       *)
(* servers.                                                                 *)
THEOREM SameView == Spec => []ViewsAgree
<1>1. Inv => ViewsAgree
  <2> SUFFICES ASSUME Inv, NEW r \in Ranks, pc[r] \in RunPcs
               PROVE  list[r] = list[Root]
    BY DEF ViewsAgree
  <2>1. CASE r = Root
    BY <2>1
  <2>2. CASE r # Root
    BY <2>2 DEF Inv, Delivered, Alternating, RunPcs, RecvPcs, Others
  <2> QED
    BY <2>1, <2>2
<1> QED
  BY <1>1, Invariance, PTL

(* A server that executes finds the block of every rank on the servers that *)
(* execute with it.                                                         *)
THEOREM BlocksExecuted == Spec => []EveryBlockExecuted
<1>1. Inv => EveryBlockExecuted
  <2> SUFFICES ASSUME Inv, NEW s \in Servers, rpc[s] = "execute"
               PROVE  UNION {staged[t] : t \in list[Root]} = Ranks
    BY DEF EveryBlockExecuted
  <2>1. pc[Root] = "waitExecute"
    BY DEF Inv, Calling, Called, CallPcs, RpcNames, Codes
  <2>2. \A r \in Ranks : \E t \in list[Root] : r \in staged[t]
    BY <2>1 DEF Inv, Holding
  <2>3. \A t \in list[Root] : staged[t] \subseteq Ranks
    BY RootIsRank DEF Inv, TypeOK
  <2> QED
    BY <2>2, <2>3
<1> QED
  BY <1>1, Invariance, PTL

(* Between attempts and between iterations no member is active and no       *)
(* server holds a block: attempts that fail, for whatever reason, are       *)
(* undone entirely.                                                         *)
THEOREM StartIsAtomic == Spec => []AllOrNothing
<1>1. Inv => AllOrNothing
  <2> SUFFICES ASSUME Inv, pc[Root] \in {"startBarrier", "send", "refresh", "done"}
               PROVE  active \cap members = {} /\ \A s \in Servers : staged[s] = {}
    BY DEF AllOrNothing
  <2>1. Held = {}
    BY DEF Inv, Running
  <2> QED
    BY <2>1 DEF Inv, Holding, Held
<1> QED
  BY <1>1, Invariance, PTL

(* A server of the list stays while a rank stages to it, unless it left in  *)
(* the middle of its own start: departures that were requested wait for the *)
(* iteration to end.                                                        *)
THEOREM MembersStay == Spec => []GroupHeld
<1>1. Inv => GroupHeld
  <2> SUFFICES ASSUME Inv, NEW r \in Ranks, pc[r] \in {"stage", "executeBarrier"},
                      ~(r = Root /\ GaveUp)
               PROVE  list[r] \subseteq members \cup overtaken
    BY DEF GroupHeld
  <2>1. r = Root => ok
    BY DEF GaveUp, Inv, Outcome
  <2>2. SaidYes /\ list[r] = list[Root]
    BY <2>1, RunningTogether
  <2> QED
    BY <2>2 DEF Inv, Running, Grouped
<1> QED
  BY <1>1, Invariance, PTL

------------------------------------------------------------------------------
(* Nobody waits for ever. Who is called is a member, or was one: its answer *)
(* comes, or waiting for it throws.                                         *)

LEMMA NonEmptyReceivable ==
    ASSUME Inv, NEW r \in Others, pc[r] \in RecvPcs
    PROVE  CanReceive(r) <=> Len(chan[r]) > 0
<1>1. chan[r] \in Seq(Messages)
  BY DEF Inv, TypeOK
<1>2. Alternating(r)
  BY DEF Inv, Delivered
<1>3. chan[r] # <<>> <=> Len(chan[r]) > 0
  BY <1>1
<1>4. Len(chan[r]) > 0 => Head(chan[r]) = chan[r][1]
  BY <1>1
<1> QED
  BY <1>2, <1>3, <1>4 DEF Alternating, CanReceive, RecvPcs

LEMMA InStageOrBarrier ==
    ASSUME Inv, NEW r \in Others, SaidYes
    PROVE  \/ CanReceive(r)
           \/ pc[r] = "stage" /\ list[r] # {}
           \/ pc[r] = "executeBarrier"
<1>1. pc[r] \in RecvPcs \cup {"stage", "executeBarrier"}
  BY DEF Inv, Aligned, Follows
<1>2. CASE pc[r] \in RecvPcs
  <2>1. Len(chan[r]) > 0
    BY <1>2 DEF Inv, Delivered, CatchesUp
  <2> QED
    BY <1>2, <2>1, NonEmptyReceivable
<1>3. CASE pc[r] = "stage"
  <2>1. list[r] = list[Root]
    BY <1>3 DEF Inv, Delivered, Alternating, RecvPcs
  <2> QED
    BY <1>3, <2>1 DEF Inv, Grouped
<1> QED
  BY <1>1, <1>2, <1>3

LEMMA CallsEnd ==
    ASSUME Inv, pc[Root] \in CallPcs
    PROVE  \/ \E s \in Servers : CanServe(s) \/ (s \in gone /\ rpc[s] \in RpcNames)
           \/ IF pc[Root] = "waitAbort" THEN \A s \in Servers : rpc[s] # "abort"
                                        ELSE Answered(list[Root])
<1> SUFFICES ASSUME \A s \in Servers : /\ ~(s \in members \cup gone /\ rpc[s] \in RpcNames)
                                       /\ rpc[s] # "accepted"
             PROVE  IF pc[Root] = "waitAbort" THEN \A s \in Servers : rpc[s] # "abort"
                                              ELSE Answered(list[Root])
  BY DEF CanServe
<1>1. \A s \in list[Root] : s \in Servers /\ rpc[s] \notin RpcNames /\ rpc[s] # "accepted"
  BY RootIsRank DEF Inv, TypeOK, Grouped
<1>2. CASE pc[Root] = "waitAbort"
  <2>1. ASSUME NEW s \in Servers, rpc[s] = "abort" PROVE FALSE
    <3>1. s \in members \cup gone
      BY <1>2, <2>1 DEF Inv, Calling, Called, Grouped, TypeOK
    <3> QED
      BY <2>1, <3>1 DEF RpcNames
  <2> QED
    BY <1>2, <2>1
<1>3. CASE pc[Root] # "waitAbort"
  <2>1. \A s \in list[Root] : rpc[s] # "none"
    BY <1>1, <1>3 DEF Inv, Calling, Called, CallPcs
  <2>2. \A s \in Servers : rpc[s] \in Rpcs
    BY DEF Inv, TypeOK, Rpcs
  <2> QED
    BY <1>1, <1>3, <2>1, <2>2 DEF Answered, Rpcs
<1> QED
  BY <1>2, <1>3

(* No rank is left waiting in a barrier, a broadcast or a call, with any    *)
(* number of ranks and of broadcasts on their way, any failures of the      *)
(* servers and any changes of the group.                                    *)
THEOREM RanksNeverStuck == Spec => []NeverStuck
<1>1. Inv => NeverStuck
  <2> SUFFICES ASSUME Inv, \A r \in Others : ~CanReceive(r) PROVE NeverStuck
    BY DEF NeverStuck
  <2>1. pc[Root] \in Pcs \ RecvPcs
    BY RootIsRank DEF Inv, TypeOK, Aligned
  <2>2. pc[Root] \in AttemptPcs => Room
    <3>1. ASSUME NEW r \in Others, pc[Root] \in AttemptPcs PROVE Len(chan[r]) = 0
      <4>1. pc[r] \in RecvPcs
        BY <3>1 DEF Inv, Aligned, Follows, AttemptPcs, SaidNo
      <4>2. Len(chan[r]) \in Nat
        BY DEF Inv, TypeOK
      <4> QED
        BY <4>1, <4>2, NonEmptyReceivable
    <3> QED
      BY <3>1, IterationBounds DEF Room
  <2>3. CASE pc[Root] \in BarrierPcs \ {"executeBarrier"}
    <3>1. \A r \in Others : pc[r] \in BarrierPcs
      BY <2>3 DEF Inv, Aligned, Follows, BarrierPcs
    <3> QED
      BY <2>3, <3>1 DEF NeverStuck, Others
  <2>4. CASE pc[Root] = "stage"
    BY <2>4, RootIsRank DEF Inv, Grouped, NeverStuck
  <2>5. CASE pc[Root] = "executeBarrier"
    <3>1. SaidYes
      BY <2>5 DEF SaidYes, Inv, Outcome
    <3>2. \A r \in Others : (pc[r] = "stage" /\ list[r] # {}) \/ pc[r] \in BarrierPcs
      BY <3>1, InStageOrBarrier DEF BarrierPcs
    <3> QED
      BY <2>5, <3>2 DEF NeverStuck, Others, BarrierPcs
  <2>6. CASE pc[Root] \in CallPcs
    BY <2>2, <2>6, CallsEnd DEF NeverStuck, RootCanMove, AttemptPcs, CallPcs
  <2>7. CASE pc[Root] \in {"send", "execute", "cleanup", "refresh"}
    BY <2>2, <2>7 DEF NeverStuck, RootCanMove, AttemptPcs, Inv, Grouped
  <2>8. CASE pc[Root] = "done"
    BY <2>8 DEF Inv, Aligned, Follows, NeverStuck, Others
  <2> QED
    BY <2>1, <2>3, <2>4, <2>5, <2>6, <2>7, <2>8
       DEF Pcs, BarrierPcs, StartPcs, RunPcs, RecvPcs, CallPcs
<1> QED
  BY <1>1, Invariance, PTL

------------------------------------------------------------------------------
(* The pipelines of the servers.                                            *)

LEMMA ServeCycles ==
    ASSUME Inv, NEW s \in Servers, Serve(s)
    PROVE  Cycle!Next \/ UNCHANGED Cycle!vars
<1> DEFINE loaded == {t \in Servers : staged[t] # {}}
<1>t. /\ active \subseteq Servers /\ iteration \in [Servers -> Iterations]
      /\ staged \in [Servers -> SUBSET Ranks]
      /\ iter[Root] \in 0..MaxIteration /\ iteration[s] \in Nat
  BY RootIsRank, IterationBounds DEF Inv, TypeOK, Iterations
<1>c. Called(s)
  BY DEF Inv, Calling
<1>e. s \notin active => s \notin loaded
  BY DEF Inv, Holding, Held
<1>1. ASSUME FinishStart(s), active' = active \cup {s},
             iteration' = [iteration EXCEPT ![s] = iter[Root]], staged' = staged
      PROVE  Cycle!Next
  <2>1. s \notin active /\ ~Inferior(iteration[s], iter[Root])
    BY <1>1, <1>c DEF FinishStart, Called, CallPcs, RpcNames, Codes
  <2>2. iteration[s] = 0 \/ iteration[s] < iter[Root]
    BY <1>t, <2>1 DEF Inferior
  <2>3. loaded' = loaded
    BY <1>1
  <2>4. Cycle!Start(s, iter[Root])
    BY <1>1, <1>e, <2>1, <2>2, <2>3 DEF Cycle!Start
  <2> QED
    BY <1>t, <2>4 DEF Cycle!Next
<1>2. ASSUME ServeAbort(s), Refusal(s, iter[Root]) = "SUCCESS" PROVE Cycle!Next
  <2>1. /\ active' = active \ {s} /\ loaded' = loaded
        /\ iteration' = [iteration EXCEPT ![s] = Decrement(iteration[s])]
    BY <1>2 DEF ServeAbort
  <2>2. s \in active
    BY <1>2, RefusalCodes
  <2>3. pc[Root] = "waitAbort"
    BY <1>2, <1>c DEF ServeAbort, Called, CallPcs, RpcNames, Codes
  <2>4. s \notin loaded
    BY <2>3 DEF Inv, Holding, SaidNo
  <2>5. Cycle!Abort(s)
    BY <2>1, <2>2, <2>4 DEF Cycle!Abort, Decrement
  <2> QED
    BY <2>5 DEF Cycle!Next
<1>3. ASSUME ServeCleanup(s), rpc'[s] = "SUCCESS",
             active' = active \ {s}, staged' = [staged EXCEPT ![s] = {}], iteration' = iteration,
             s \in active
      PROVE  Cycle!Next
  <2>1. loaded' = loaded \ {s}
    BY <1>t, <1>3
  <2>2. Cycle!End(s)
    BY <1>3, <2>1 DEF Cycle!End
  <2> QED
    BY <2>2 DEF Cycle!Next
<1>4. ASSUME UNCHANGED <<active, iteration, staged>> PROVE UNCHANGED Cycle!vars
  BY <1>4 DEF Cycle!vars
<1>5. CASE FinishStart(s)
  <2>1. staged' = staged
    BY <1>5 DEF FinishStart
  <2> QED
    BY <1>1, <1>4, <1>5, <2>1 DEF FinishStart
<1>6. CASE ServeAbort(s)
  BY <1>2, <1>4, <1>6 DEF ServeAbort
<1>7. CASE ServeCleanup(s)
  <2>1. PICK code \in Answer(s, Refusal(s, iter[Root])) :
          /\ Reply(s, code)
          /\ IF code = "SUCCESS"
             THEN active' = active \ {s} /\ staged' = [staged EXCEPT ![s] = {}]
             ELSE UNCHANGED <<active, staged>>
    BY <1>7 DEF ServeCleanup
  <2>2. iteration' = iteration
    BY <1>7 DEF ServeCleanup
  <2>3. rpc'[s] = code
    BY <2>1 DEF Reply, Inv, TypeOK
  <2> QED
    BY <1>3, <1>4, <1>7, <2>1, <2>2, <2>3, AnswerCodes
<1>8. CASE AcceptStart(s) \/ ServeExecute(s)
  BY <1>4, <1>8 DEF AcceptStart, ServeExecute, serverVars
<1> QED
  BY <1>5, <1>6, <1>7, <1>8 DEF Serve

LEMMA StageCycles ==
    ASSUME Inv, NEW r \in Ranks, Stage(r)
    PROVE  Cycle!Next \/ UNCHANGED Cycle!vars
<1> DEFINE loaded == {t \in Servers : staged[t] # {}}
<1>1. UNCHANGED <<active, iteration>> /\ staged \in [Servers -> SUBSET Ranks]
      /\ active \subseteq Servers
  BY DEF Stage, Inv, TypeOK
<1>2. CASE staged' = staged
  BY <1>1, <1>2 DEF Cycle!vars
<1>3. ASSUME NEW s \in Held, staged' = [staged EXCEPT ![s] = @ \cup {r}] PROVE Cycle!Next
  <2>1. s \in active /\ s \in Servers
    BY <1>1 DEF Held
  <2>2. loaded' = loaded \cup {s}
    BY <1>1, <1>3, <2>1
  <2>3. Cycle!Stage(s)
    BY <1>1, <2>1, <2>2 DEF Cycle!Stage
  <2> QED
    BY <2>1, <2>3 DEF Cycle!Next
<1> QED
  BY <1>2, <1>3, StageEffect

(* However starts fail, servers refuse and views differ, the pipeline of    *)
(* every server is started, staged to, cleaned up and aborted in an order   *)
(* that a provider serves as one step each.                                 *)
THEOREM ServersCycle == Spec => CycleSpec
<1>1. Init => Cycle!Init
  BY DEF Init, Cycle!Init
<1>2. Inv /\ [Next]_vars => [Cycle!Next]_(Cycle!vars)
  <2> SUFFICES ASSUME Inv, [Next]_vars PROVE Cycle!Next \/ UNCHANGED Cycle!vars
    OBVIOUS
  <2>1. ASSUME UNCHANGED serverVars PROVE UNCHANGED Cycle!vars
    BY <2>1 DEF serverVars, Cycle!vars
  <2>2. ASSUME NEW s \in Servers, Serve(s) PROVE Cycle!Next \/ UNCHANGED Cycle!vars
    BY <2>2, ServeCycles
  <2>3. ASSUME NEW s \in Servers,
               \/ Join(s) \/ Construct(s) \/ Leave(s)
               \/ \E m \in Servers : MembershipUpdate(s, m)
        PROVE  UNCHANGED serverVars
    BY <2>3 DEF Join, Construct, ComputeGroupHash, StoreGroupHash, Leave, MembershipUpdate
  <2>4. ASSUME RootStep PROVE UNCHANGED serverVars
    BY <2>4 DEF RootStep, SendStart, EndAttempt, EndAbort, Refresh, RefreshThrows,
                RpcThrows, AbortThrows, SendExecute, EndExecute, SendCleanup, EndCleanup
  <2>5. ASSUME NEW r \in Ranks, RankStep(r) PROVE Cycle!Next \/ UNCHANGED Cycle!vars
    <3>1. CASE RecvOk(r) \/ RecvView(r)
      BY <2>1, <3>1 DEF RecvOk, RecvView
    <3> QED
      BY <2>5, <3>1, StageCycles DEF RankStep
  <2>6. ASSUME Barrier \/ Finished \/ UNCHANGED vars PROVE UNCHANGED serverVars
    BY <2>6 DEF Barrier, Finished, vars, serverVars
  <2> QED
    BY <2>1, <2>2, <2>3, <2>4, <2>5, <2>6 DEF Next
<1> QED
  BY <1>1, <1>2, Invariance, PTL DEF Spec, CycleSpec, Cycle!Spec

------------------------------------------------------------------------------
(* The refinement of GroupIteration. The phase of the abstract iteration is *)
(* a matter of the root's control state, until it fails.                    *)

PhaseAt(p) ==
    IF p = "done" THEN "done"
    ELSE IF p \in StartPcs THEN "idle"
    ELSE IF p \in RunPcs THEN "started" ELSE "executed"

PhaseFollows == Phase = IF Failed THEN "failed" ELSE PhaseAt(pc[Root])

LEMMA RootDecidesPhase == TypeOK => PhaseFollows
<1> SUFFICES ASSUME TypeOK PROVE PhaseFollows
  OBVIOUS
<1>1. pc[Root] \in Pcs
  BY RootIsRank DEF TypeOK
<1>2. CASE pc[Root] = "done"
  BY <1>2 DEF Phase, PhaseFollows, PhaseAt, StartPcs, RunPcs
<1>3. CASE pc[Root] \in StartPcs
  BY <1>3 DEF Phase, PhaseFollows, PhaseAt, StartPcs, RunPcs
<1>4. CASE pc[Root] \in RunPcs
  BY <1>4 DEF Phase, PhaseFollows, PhaseAt, StartPcs, RunPcs
<1>5. CASE pc[Root] \in {"cleanupBarrier", "cleanup", "waitCleanup"}
  BY <1>5 DEF Phase, PhaseFollows, PhaseAt, StartPcs, RunPcs
<1> QED
  BY <1>1, <1>2, <1>3, <1>4, <1>5 DEF Pcs, BarrierPcs, StartPcs, RunPcs

LEMMA PhaseOfRoot ==
    ASSUME TypeOK
    PROVE  Phase = IF Failed THEN "failed" ELSE PhaseAt(pc[Root])
  BY RootDecidesPhase DEF PhaseFollows

LEMMA PhaseOfRootNext == TypeOK' => Phase' = IF Failed' THEN "failed" ELSE PhaseAt(pc'[Root])
<1>1. TypeOK' => PhaseFollows'
  BY RootDecidesPhase, PTL
<1> QED
  BY <1>1 DEF PhaseFollows, PhaseAt

\* Nobody threw before rank 0 goes on; and while it gives up, it stages nothing.
LEMMA NobodyThrew ==
    ASSUME Inv, Root \notin threw, pc[Root] \notin {"stage", "executeBarrier"}
    PROVE  threw = {}
<1>1. ASSUME NEW r \in threw PROVE FALSE
  <2>1. r \in Others /\ pc[r] = "stage"
    BY <1>1 DEF Inv, TypeOK, Others, Outcome
  <2>2. Follows(r) /\ pc[Root] \in Pcs /\ pc[Root] \notin RecvPcs
    BY <2>1, RootIsRank DEF Inv, Aligned, TypeOK
  <2> QED
    BY <2>1, <2>2 DEF Follows, SaidNo, RecvPcs, Pcs, BarrierPcs, StartPcs, RunPcs
<1> QED
  BY <1>1

\* What a step may leave alone.
LEMMA Stutters ==
    ASSUME TypeOK, TypeOK', Failed' = Failed, iter'[Root] = iter[Root],
           ~Failed => PhaseAt(pc'[Root]) = PhaseAt(pc[Root]),
           ~Failed /\ PhaseAt(pc[Root]) \in {"started", "executed"}
             => active' \cap list'[Root] = active \cap list[Root] /\ staged' = staged
    PROVE  UNCHANGED Abstract!vars
<1>1. Phase' = Phase
  BY PhaseOfRoot, PhaseOfRootNext
<1>2. Visible' = Visible
  BY <1>1 DEF Visible
<1>3. Visible => active' \cap list'[Root] = active \cap list[Root] /\ staged' = staged
  BY PhaseOfRoot DEF Visible
<1> QED
  BY <1>1, <1>2, <1>3 DEF Abstract!vars

LEMMA Fails ==
    ASSUME TypeOK, TypeOK', Failed', iter'[Root] = iter[Root],
           Failed \/ pc[Root] # "done"
    PROVE  Abstract!Next
<1>1. Phase' = "failed" /\ ~Visible'
  BY PhaseOfRootNext DEF Visible
<1>2. Phase # "done"
  BY PhaseOfRoot DEF PhaseAt
<1>3. Abstract!Fail
  BY <1>1, <1>2 DEF Abstract!Fail
<1> QED
  BY <1>3 DEF Abstract!Next

LEMMA InitRefines == Init => Abstract!Init
<1> SUFFICES ASSUME Init PROVE Abstract!Init
  OBVIOUS
<1>1. pc[Root] = "startBarrier" /\ iter[Root] = FirstIteration /\ threw = {}
  BY RootIsRank DEF Init
<1>2. ~Failed
  BY <1>1 DEF Failed, GaveUp
<1>3. Phase = "idle"
  BY <1>1, <1>2, InitTyped, PhaseOfRoot DEF PhaseAt, StartPcs
<1> QED
  BY <1>1, <1>3 DEF Abstract!Init, Visible

LEMMA ServeRefines ==
    ASSUME Inv, Inv', NEW s \in Servers, Serve(s)
    PROVE  Abstract!Next \/ UNCHANGED Abstract!vars
<1> USE DEF groupVars, serverVars, handleVars, rankVars
<1>1. /\ UNCHANGED <<pc, iter, threw, list, ok, retry>>
      /\ rpc[s] \in RpcNames \cup {"accepted"}
  BY DEF Serve, AcceptStart, FinishStart, ServeAbort, ServeExecute, ServeCleanup, RpcNames
<1>2. Called(s) /\ TypeOK /\ TypeOK'
  BY DEF Inv, Calling
<1>3. Failed' = Failed
  BY <1>1 DEF Failed, GaveUp
<1>4. CASE AcceptStart(s) \/ FinishStart(s) \/ ServeAbort(s)
  <2>1. pc[Root] \in {"waitStart", "waitAbort"}
    BY <1>2, <1>4 DEF AcceptStart, FinishStart, ServeAbort, Called, CallPcs, RpcNames, Codes
  <2>2. PhaseAt(pc[Root]) \notin {"started", "executed"}
    BY <2>1 DEF PhaseAt, StartPcs
  <2> QED
    BY <1>1, <1>2, <1>3, <2>2, Stutters
<1>5. CASE ServeExecute(s)
  BY <1>1, <1>2, <1>3, <1>5, Stutters DEF ServeExecute
<1>6. CASE ServeCleanup(s)
  <2>1. pc[Root] = "waitCleanup" /\ s \in active /\ s \in list[Root]
    BY <1>2, <1>6 DEF ServeCleanup, Called, CallPcs, RpcNames, Codes
  <2>2. \/ active' = active \ {s} /\ staged' = [staged EXCEPT ![s] = {}]
        \/ UNCHANGED <<active, staged>>
    BY <1>6 DEF ServeCleanup
  <2>3. CASE Failed \/ UNCHANGED <<active, staged>>
    BY <1>1, <1>2, <1>3, <2>3, Stutters
  <2>4. CASE ~Failed /\ active' = active \ {s} /\ staged' = [staged EXCEPT ![s] = {}]
    <3>1. PhaseAt(pc[Root]) = "executed" /\ PhaseAt(pc'[Root]) = "executed"
      BY <1>1, <2>1 DEF PhaseAt, StartPcs, BarrierPcs, RunPcs
    <3>2. Phase = "executed" /\ Phase' = "executed" /\ Visible /\ Visible'
      BY <1>2, <1>3, <2>4, <3>1, PhaseOfRoot, PhaseOfRootNext DEF Visible
    <3>3. Abstract!Cleanup(s)
      BY <1>1, <2>1, <2>4, <3>2 DEF Abstract!Cleanup
    <3> QED
      BY <3>3 DEF Abstract!Next
  <2> QED
    BY <2>2, <2>3, <2>4
<1> QED
  BY <1>4, <1>5, <1>6 DEF Serve

LEMMA StageRefines ==
    ASSUME Inv, Inv', NEW r \in Ranks, Stage(r)
    PROVE  Abstract!Next
<1>t. TypeOK /\ TypeOK' /\ Root \in Ranks
  BY RootIsRank DEF Inv
<1>n. UNCHANGED <<active, iter, list, ok, retry>> /\ pc[r] = "stage"
  BY DEF Stage, At, handleVars
<1>1. ASSUME Throw(r) PROVE Abstract!Next
  <2>1. Failed'
    BY <1>1 DEF Throw, Failed
  <2>2. pc[Root] # "done"
    BY <1>n DEF Inv, Aligned, Follows, Others
  <2> QED
    BY <1>t, <1>n, <2>1, <2>2, Fails
<1>2. ASSUME NEW s \in Held, s \in list[Root], SaidYes,
             staged' = [staged EXCEPT ![s] = @ \cup {r}],
             Goto(r, "executeBarrier"), UNCHANGED threw
      PROVE  Abstract!Next
  <2>1. /\ pc[Root] \in {"stage", "executeBarrier"} /\ ok
        /\ pc'[Root] \in {"stage", "executeBarrier"}
    BY <1>2, <1>t DEF SaidYes, Goto, TypeOK
  <2>2. CASE Failed
    BY <1>t, <1>n, <1>2, <2>1, <2>2, Fails DEF Failed, GaveUp
  <2>3. CASE ~Failed
    <3>1. ~Failed'
      BY <1>n, <1>2, <2>1, <2>3 DEF Failed, GaveUp
    <3>2. PhaseAt(pc[Root]) = "started" /\ PhaseAt(pc'[Root]) = "started"
      BY <2>1 DEF PhaseAt, StartPcs, RunPcs, BarrierPcs
    <3>3. Phase = "started" /\ Phase' = "started" /\ Visible /\ Visible'
      BY <1>t, <2>3, <3>1, <3>2, PhaseOfRoot, PhaseOfRootNext DEF Visible
    <3>4. \A t \in Servers : r \notin staged[t]
      BY <1>2, <1>n DEF Inv, Holding
    <3>5. s \in Servers /\ s \in active /\ active \subseteq Servers
      BY <1>t DEF Held, TypeOK
    <3>6. Abstract!Stage(r, s)
      BY <1>2, <1>n, <3>3, <3>4, <3>5 DEF Abstract!Stage, Abstract!Staged
    <3> QED
      BY <3>5, <3>6 DEF Abstract!Next
  <2> QED
    BY <2>2, <2>3
<1> QED
  BY <1>1, <1>2, StageEffect

LEMMA BarrierRefines ==
    ASSUME Inv, Inv', Barrier
    PROVE  UNCHANGED Abstract!vars
<1>1. /\ pc[Root] \in BarrierPcs /\ pc'[Root] = AfterBarrier(Root)
      /\ iter'[Root] = iter[Root]
  BY RootIsRank DEF Barrier
<1>2. UNCHANGED <<active, staged, list, threw, ok, retry>>
  BY DEF Barrier, serverVars, handleVars
<1>3. /\ PhaseAt(pc'[Root]) = PhaseAt(pc[Root])
      /\ pc'[Root] \notin {"waitAbort", "stage"} /\ pc[Root] \notin {"waitAbort", "stage"}
  BY <1>1, RootIsRank, AfterBarrierPcs DEF PhaseAt, BarrierPcs, StartPcs, RunPcs
<1>4. Failed' = Failed
  BY <1>2, <1>3 DEF Failed, GaveUp
<1> QED
  BY <1>1, <1>2, <1>3, <1>4, Stutters DEF Inv

LEMMA EndAttemptRefines ==
    ASSUME Inv, Inv', EndAttempt
    PROVE  Abstract!Next \/ UNCHANGED Abstract!vars
<1>t. TypeOK /\ TypeOK' /\ Root \in Ranks
  BY RootIsRank DEF Inv
<1>1. /\ pc[Root] = "waitStart" /\ Root \notin threw
      /\ UNCHANGED <<iter, threw, list, active, staged>>
      /\ ok' = (Started = list[Root])
  BY DEF EndAttempt, At, serverVars
<1>2. threw = {} /\ threw' = {} /\ ~Failed
  BY <1>1, NobodyThrew DEF Failed, GaveUp
<1>3. PhaseAt(pc[Root]) = "idle"
  BY <1>1 DEF PhaseAt, StartPcs
<1>4. CASE Started # list[Root]
  <2>1. pc'[Root] = "waitAbort" /\ ok' = FALSE
    BY <1>1, <1>4, <1>t, CallEffect DEF EndAttempt
  <2>2. PhaseAt(pc'[Root]) = "idle"
    BY <2>1 DEF PhaseAt, StartPcs
  <2>3. CASE Failed'
    BY <1>1, <1>t, <2>3, Fails
  <2>4. CASE ~Failed'
    <3>1. Failed' = Failed
      BY <1>2, <2>4 DEF Failed
    <3> QED
      BY <1>1, <1>2, <1>3, <1>t, <2>2, <3>1, Stutters
  <2> QED
    BY <2>3, <2>4
<1>5. CASE Started = list[Root]
  <2>1. pc'[Root] = "stage" /\ ok'
    BY <1>1, <1>5, <1>t, GotoRoot DEF EndAttempt
  <2>2. ~Failed'
    BY <1>2, <2>1 DEF Failed, GaveUp
  <2>3. \A s \in list[Root] : s \in active
    BY <1>1, <1>5, <1>t DEF Started, Inv, Calling, Called, TypeOK
  <2>4. active \cap list[Root] = list[Root] /\ list[Root] # {} /\ list[Root] \subseteq Servers
    BY <1>t, <2>3 DEF Inv, Grouped, TypeOK
  <2>5. \A s \in Servers : staged[s] = {}
    BY <1>1 DEF Inv, Holding
  <2>6. staged' = [s \in Servers |-> {}]
    BY <1>1, <1>t, <2>5 DEF TypeOK
  <2>7. PhaseAt(pc'[Root]) = "started"
    BY <2>1 DEF PhaseAt, StartPcs, RunPcs, BarrierPcs
  <2>8. Phase = "idle" /\ Phase' = "started" /\ ~Visible /\ Visible'
    BY <1>2, <1>3, <1>t, <2>2, <2>7, PhaseOfRoot, PhaseOfRootNext DEF Visible
  <2>9. Abstract!Start
    BY <1>1, <2>4, <2>6, <2>8 DEF Abstract!Start
  <2> QED
    BY <2>9 DEF Abstract!Next
<1> QED
  BY <1>4, <1>5

LEMMA EndExecuteRefines ==
    ASSUME Inv, Inv', EndExecute
    PROVE  Abstract!Next
<1>t. TypeOK /\ TypeOK' /\ Root \in Ranks
  BY RootIsRank DEF Inv
<1>1. /\ pc[Root] = "waitExecute" /\ Root \notin threw
      /\ UNCHANGED <<iter, list, active, staged, ok, retry>>
  BY DEF EndExecute, At, serverVars, handleVars
<1>2. CASE Started # list[Root]
  <2>1. Failed'
    BY <1>2 DEF EndExecute, Throw, Failed
  <2> QED
    BY <1>1, <1>t, <2>1, Fails
<1>3. CASE Started = list[Root]
  <2>1. pc'[Root] = "cleanupBarrier" /\ threw' = threw
    BY <1>3, <1>t, GotoRoot DEF EndExecute
  <2>2. ~Failed /\ ~Failed'
    BY <1>1, <2>1, NobodyThrew DEF Failed, GaveUp
  <2>3. PhaseAt(pc[Root]) = "started" /\ PhaseAt(pc'[Root]) = "executed"
    BY <1>1, <2>1 DEF PhaseAt, StartPcs, RunPcs, BarrierPcs
  <2>4. Phase = "started" /\ Phase' = "executed" /\ Visible /\ Visible'
    BY <1>t, <2>2, <2>3, PhaseOfRoot, PhaseOfRootNext DEF Visible
  <2>5. UNION {staged[s] : s \in active \cap list[Root]} = Ranks
    <3>1. \A r \in Ranks : \E s \in list[Root] : r \in staged[s]
      BY <1>1 DEF Inv, Holding
    <3>2. \A s \in list[Root] : s \in Servers /\ (s \notin active => staged[s] = {})
      BY <1>t DEF Inv, Holding, Held, TypeOK
    <3>3. \A r \in Ranks : \E s \in active \cap list[Root] : r \in staged[s]
      BY <3>1, <3>2
    <3>4. \A s \in active \cap list[Root] : staged[s] \subseteq Ranks
      BY <1>t DEF TypeOK
    <3> QED
      BY <3>3, <3>4
  <2>6. Abstract!Execute
    BY <1>1, <2>4, <2>5 DEF Abstract!Execute, Abstract!Staged
  <2> QED
    BY <2>6 DEF Abstract!Next
<1> QED
  BY <1>2, <1>3

LEMMA EndCleanupRefines ==
    ASSUME Inv, Inv', EndCleanup
    PROVE  Abstract!Next
<1>t. TypeOK /\ TypeOK' /\ Root \in Ranks
  BY RootIsRank DEF Inv
<1>1. /\ pc[Root] = "waitCleanup" /\ Root \notin threw
      /\ UNCHANGED <<list, active, staged, ok, retry>>
  BY DEF EndCleanup, At, serverVars, handleVars
<1>2. CASE Started # list[Root]
  <2>1. Failed' /\ iter' = iter
    BY <1>2 DEF EndCleanup, Throw, Failed
  <2> QED
    BY <1>1, <1>t, <2>1, Fails
<1>3. CASE Started = list[Root]
  <2>1. /\ Held = {} /\ threw' = threw
        /\ IF iter[Root] = LastIteration
           THEN pc'[Root] = "done" /\ iter'[Root] = iter[Root]
           ELSE pc'[Root] = "startBarrier" /\ iter'[Root] = iter[Root] + 1
    BY <1>3, CleanupSucceeds DEF EndCleanup
  <2>2. staged = [s \in Servers |-> {}]
    BY <2>1, <1>t DEF Inv, Holding, TypeOK
  <2>3. active \cap list[Root] = {}
    BY <1>1, <1>3 DEF Started, Inv, Calling, Called, TypeOK
  <2>4. ~Failed /\ ~Failed'
    BY <1>1, <2>1, NobodyThrew DEF Failed, GaveUp
  <2>5. /\ PhaseAt(pc[Root]) = "executed"
        /\ PhaseAt(pc'[Root]) = IF iter[Root] = LastIteration THEN "done" ELSE "idle"
    BY <1>1, <2>1 DEF PhaseAt, StartPcs, RunPcs, BarrierPcs
  <2>6. /\ Phase = "executed" /\ Visible /\ ~Visible'
        /\ Phase' = IF iter[Root] = LastIteration THEN "done" ELSE "idle"
    BY <1>t, <2>4, <2>5, PhaseOfRoot, PhaseOfRootNext DEF Visible
  <2>7. Abstract!End
    BY <1>1, <2>1, <2>2, <2>3, <2>6 DEF Abstract!End
  <2> QED
    BY <2>7 DEF Abstract!Next
<1> QED
  BY <1>2, <1>3

LEMMA RootRefines ==
    ASSUME Inv, Inv', RootStep
    PROVE  Abstract!Next \/ UNCHANGED Abstract!vars
<1> USE DEF groupVars, serverVars, handleVars, rankVars
<1>t. TypeOK /\ TypeOK' /\ Root \in Ranks
  BY RootIsRank DEF Inv
<1>1. ASSUME SendStart PROVE UNCHANGED Abstract!vars
  <2>1. /\ pc[Root] = "send" /\ pc'[Root] = "waitStart"
        /\ UNCHANGED <<iter, threw, list, active, staged>>
    BY <1>1, <1>t, CallEffect DEF SendStart, At
  <2>2. Failed' = Failed /\ PhaseAt(pc[Root]) = "idle" /\ PhaseAt(pc'[Root]) = "idle"
    BY <2>1 DEF Failed, GaveUp, PhaseAt, StartPcs
  <2> QED
    BY <1>t, <2>1, <2>2, Stutters
<1>2. ASSUME SendExecute PROVE UNCHANGED Abstract!vars
  <2>1. /\ pc[Root] = "execute" /\ pc'[Root] = "waitExecute"
        /\ UNCHANGED <<iter, threw, list, active, staged>>
    BY <1>2, <1>t, CallEffect DEF SendExecute, At
  <2>2. Failed' = Failed /\ PhaseAt(pc[Root]) = PhaseAt(pc'[Root])
    BY <2>1 DEF Failed, GaveUp, PhaseAt, StartPcs, RunPcs, BarrierPcs
  <2> QED
    BY <1>t, <2>1, <2>2, Stutters
<1>3. ASSUME SendCleanup PROVE UNCHANGED Abstract!vars
  <2>1. /\ pc[Root] = "cleanup" /\ pc'[Root] = "waitCleanup"
        /\ UNCHANGED <<iter, threw, list, active, staged>>
    BY <1>3, <1>t, CallEffect DEF SendCleanup, At
  <2>2. Failed' = Failed /\ PhaseAt(pc[Root]) = PhaseAt(pc'[Root])
    BY <2>1 DEF Failed, GaveUp, PhaseAt, StartPcs, RunPcs, BarrierPcs
  <2> QED
    BY <1>t, <2>1, <2>2, Stutters
<1>4. ASSUME Refresh PROVE UNCHANGED Abstract!vars
  <2>1. pc[Root] = "refresh" /\ pc'[Root] = "send" /\ UNCHANGED <<iter, threw>>
    BY <1>4, <1>t, GotoRoot DEF Refresh, At
  <2>2. Failed' = Failed /\ PhaseAt(pc[Root]) = "idle" /\ PhaseAt(pc'[Root]) = "idle"
    BY <2>1 DEF Failed, GaveUp, PhaseAt, StartPcs
  <2> QED
    BY <1>t, <2>1, <2>2, Stutters
<1>5. ASSUME EndAbort PROVE UNCHANGED Abstract!vars
  <2>1. /\ pc[Root] = "waitAbort" /\ ok = FALSE
        /\ pc'[Root] = IF retry THEN "refresh" ELSE "stage"
        /\ UNCHANGED <<iter, threw, list, active, staged, ok, retry>>
    BY <1>5, <1>t, GotoRoot DEF EndAbort, At, Inv, Outcome, TypeOK
  <2>2. Failed' = Failed
    BY <2>1 DEF Failed, GaveUp
  <2>3. ~Failed => retry
    BY <2>1 DEF Failed, GaveUp
  <2>4. ~Failed => PhaseAt(pc[Root]) = "idle" /\ PhaseAt(pc'[Root]) = "idle"
    BY <2>1, <2>3 DEF PhaseAt, StartPcs
  <2> QED
    BY <1>t, <2>1, <2>2, <2>4, Stutters
<1>6. ASSUME RefreshThrows \/ RpcThrows PROVE Abstract!Next
  <2>1. Failed' /\ iter' = iter /\ pc[Root] # "done"
    BY <1>6 DEF RefreshThrows, RpcThrows, At, CallPcs, Throw, Failed
  <2> QED
    BY <1>t, <2>1, Fails
<1>7. ASSUME NEW s \in Servers, AbortThrows(s) PROVE UNCHANGED Abstract!vars
  <2>1. UNCHANGED <<pc, iter, threw, list, active, staged, ok, retry>>
    BY <1>7 DEF AbortThrows
  <2>2. Failed' = Failed
    BY <2>1 DEF Failed, GaveUp
  <2> QED
    BY <1>t, <2>1, <2>2, Stutters
<1> QED
  BY <1>1, <1>2, <1>3, <1>4, <1>5, <1>6, <1>7,
     EndAttemptRefines, EndExecuteRefines, EndCleanupRefines DEF RootStep

\* Every other step is one the ranks do not see.
LEMMA NextRefines ==
    Inv /\ Inv' /\ [Next]_vars => Abstract!Next \/ UNCHANGED Abstract!vars
<1> SUFFICES ASSUME Inv, Inv', [Next]_vars
             PROVE  Abstract!Next \/ UNCHANGED Abstract!vars
  OBVIOUS
<1>1. ASSUME UNCHANGED <<active, staged, iter, threw, ok, retry>>,
             pc'[Root] = pc[Root], list'[Root] = list[Root]
      PROVE  UNCHANGED Abstract!vars
  <2>1. Failed' = Failed
    BY <1>1 DEF Failed, GaveUp
  <2> QED
    BY <1>1, <2>1, Stutters DEF Inv
<1>2. ASSUME NEW s \in Servers,
             \/ Join(s) \/ Construct(s) \/ Leave(s)
             \/ \E m \in Servers : MembershipUpdate(s, m)
      PROVE  UNCHANGED Abstract!vars
  BY <1>1, <1>2 DEF Join, Construct, ComputeGroupHash, StoreGroupHash, Leave,
                    MembershipUpdate, serverVars, handleVars, rankVars
<1>3. ASSUME NEW r \in Others, RecvOk(r) \/ RecvView(r)
      PROVE  UNCHANGED Abstract!vars
  <2>1. pc'[Root] = pc[Root] /\ list'[Root] = list[Root]
    BY <1>3, GotoOther, RootIsRank DEF RecvOk, RecvView, Inv, TypeOK, Others, handleVars
  <2> QED
    BY <1>1, <1>3, <2>1 DEF RecvOk, RecvView, serverVars, handleVars
<1>4. Finished \/ UNCHANGED vars => UNCHANGED Abstract!vars
  BY <1>1 DEF Finished, vars, serverVars, handleVars, rankVars
<1>5. ASSUME NEW r \in Ranks, RankStep(r)
      PROVE  Abstract!Next \/ UNCHANGED Abstract!vars
  BY <1>3, <1>5, StageRefines DEF RankStep
<1> QED
  BY <1>2, <1>4, <1>5, ServeRefines, BarrierRefines, RootRefines DEF Next

(* The handle implements GroupIteration: all servers of a group start at    *)
(* once, execute with the blocks of all ranks and end free of them, or the  *)
(* iteration fails, whatever the servers refuse, however they fail and      *)
(* whenever they leave.                                                     *)
THEOREM HandleImplementsIteration == Spec => IterationSpec
<1>1. Init => Abstract!Init
  BY InitRefines
<1>2. Inv /\ Inv' /\ [Next]_vars => [Abstract!Next]_(Abstract!vars)
  BY NextRefines
<1> QED
  BY <1>1, <1>2, Invariance, PTL DEF Spec, IterationSpec, Abstract!Spec

==============================================================================
