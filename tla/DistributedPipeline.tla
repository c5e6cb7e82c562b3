------------------------- MODULE DistributedPipeline -------------------------
(***************************************************************************)
(* The ranks of a parallel client driving one pipeline on every server of  *)
(* an elastic group: DistributedPipelineHandle (start, stage, execute,     *)
(* cleanup), the collective construction of the handle when the group      *)
(* changed, the group hash by which providers refuse a stale view, and the *)
(* main loop of the example client.                                        *)
(*                                                                         *)
(* A provider serves one RPC in one step, as ColzaProvider's calls that do *)
(* not overlap, except start: its tests precede the reservation that makes *)
(* leave wait. A hash is the set of member ids it is the XOR of.           *)
(***************************************************************************)
EXTENDS Naturals, Sequences, FiniteSets

CONSTANTS
    Ranks, Root,        \* client processes; Root is rank 0
    Servers,
    Founders,           \* members of the group when the client starts
    Configured,         \* servers that have the pipeline
    Fallible,           \* servers whose backend may report an error
    FirstIteration, LastIteration,
    MaxIteration,       \* largest value of a uint64_t iteration number
    MaxChanges,         \* bound: joins and leaves
    MaxPending,         \* bound: broadcasts the root may be ahead of a rank
    MayLeave            \* whether servers are asked to leave

ASSUME RootIsRank == Root \in Ranks
ASSUME GroupKnown == /\ Founders \subseteq Servers
                     /\ Founders # {}
                     /\ Configured \subseteq Servers
                     /\ Fallible \subseteq Servers
ASSUME IterationBounds == /\ FirstIteration \in Nat /\ LastIteration \in Nat
                          /\ MaxIteration \in Nat /\ MaxChanges \in Nat
                          /\ MaxPending \in Nat \ {0}
                          /\ FirstIteration <= LastIteration
                          /\ LastIteration < MaxIteration
ASSUME MayLeaveBoolean == MayLeave \in BOOLEAN

VARIABLES
    members,        \* the group
    gone,           \* servers that left it
    overtaken,      \*   those that left between the tests and the
                    \*   reservation of a start
    view,           \* server -> members it knows
    m_group_hash,
    ctor,           \* server -> control of its constructor
    computed,       \*   a hash computed and not stored yet
    active,         \* servers whose pipeline is active
    iteration,      \* server -> iteration of its pipeline
    staged,         \* server -> ranks whose block it holds
    rpc,            \* server -> RPC of the root in progress, or its answer
    pc, iter,       \* rank -> control, current iteration
    threw,          \* ranks that threw an exception, where pc says
    list,           \* rank -> m_pipelines of its handle
    hash,           \* m_group_hash of the root's handle
    ok, retry,      \* the root's local variables
    chan            \* rank -> broadcasts of the root not yet received

groupVars == <<members, gone, overtaken, view, m_group_hash, ctor, computed>>
serverVars == <<active, iteration, staged>>
handleVars == <<list, hash, ok, retry>>
rankVars == <<pc, iter, threw>>
vars == <<groupVars, serverVars, rpc, rankVars, handleVars, chan>>

Others == Ranks \ {Root}
Iterations == 0..MaxIteration

RpcNames == {"start", "abort", "execute", "cleanup"}
Codes == {"SUCCESS", "INVALID_GROUP_HASH", "INVALID_PIPELINE_NAME",
          "PIPELINE_IS_ACTIVE", "PIPELINE_NOT_ACTIVE", "INVALID_ITERATION",
          "BACKEND_ERROR"}

BarrierPcs == {"startBarrier", "executeBarrier", "cleanupBarrier"}
StartPcs == {"startBarrier", "send", "waitStart", "waitAbort", "refresh",
             "recvOk", "recvView"}
CallPcs == {"waitStart", "waitAbort", "waitExecute", "waitCleanup"}
RunPcs == {"stage", "executeBarrier", "execute", "waitExecute"}
Pcs == BarrierPcs \cup StartPcs \cup RunPcs
         \cup {"cleanup", "waitCleanup", "done"}

Messages == ({"ok"} \X BOOLEAN) \cup ({"view"} \X SUBSET Servers)

Inferior(current, requested) == current # 0 /\ current >= requested
Decrement(n) == IF n = 0 THEN MaxIteration ELSE n - 1

\* A rank that threw does nothing more.
At(r, p) == pc[r] = p /\ r \notin threw
Goto(r, p) == pc' = [pc EXCEPT ![r] = p]
Throw(r) == threw' = threw \cup {r}

------------------------------------------------------------------------------
(* The group. *)

Changes == Cardinality(gone) + Cardinality(members \ Founders)

\* The XOR of two sets of ids.
Flip(set, flipped) == (set \ flipped) \cup (flipped \ set)

\* A server joins with the view of the member that admits it. It has a provider
\* of its own, inactive, that serves requests while its constructor goes on.
Join(s) ==
    /\ Changes < MaxChanges
    /\ s \notin members \cup gone
    /\ members' = members \cup {s}
    /\ \E m \in members : view' = [view EXCEPT ![s] = view[m] \cup {s}]
    /\ ctor' = [ctor EXCEPT ![s] = "hash"]
    /\ UNCHANGED <<gone, overtaken, m_group_hash, computed, serverVars, rpc,
                   rankVars, handleVars, chan>>

ComputeGroupHash(s) ==
    /\ ctor[s] = "hash"
    /\ computed' = [computed EXCEPT ![s] = view[s]]
    /\ ctor' = [ctor EXCEPT ![s] = "store"]
    /\ UNCHANGED <<members, gone, overtaken, view, m_group_hash, serverVars, rpc,
                   rankVars, handleVars, chan>>

StoreGroupHash(s) ==
    /\ ctor[s] = "store"
    /\ m_group_hash' = [m_group_hash EXCEPT ![s] = computed[s]]
    /\ computed' = [computed EXCEPT ![s] = {}]
    /\ ctor' = [ctor EXCEPT ![s] = "ready"]
    /\ UNCHANGED <<members, gone, overtaken, view, serverVars, rpc, rankVars,
                   handleVars, chan>>

\* Mutant: leave() does not wait.
LeaveWhileActive(s) ==
    /\ MayLeave
    /\ Changes < MaxChanges
    /\ s \in members /\ members # {s}
    /\ members' = members \ {s}
    /\ gone' = gone \cup {s}
    /\ overtaken' = IF rpc[s] = "accepted" THEN overtaken \cup {s} ELSE overtaken
    /\ UNCHANGED <<view, m_group_hash, ctor, computed, serverVars, rpc, rankVars,
                   handleVars, chan>>

\* leave() returns only once no pipeline is active or reserved; some member
\* stays.
Leave(s) ==
    /\ MayLeave
    /\ Changes < MaxChanges
    /\ s \in members \ active
    /\ members # {s}
    /\ members' = members \ {s}
    /\ gone' = gone \cup {s}
    /\ overtaken' = IF rpc[s] = "accepted" THEN overtaken \cup {s} ELSE overtaken
    /\ UNCHANGED <<view, m_group_hash, ctor, computed, serverVars, rpc, rankVars,
                   handleVars, chan>>

\* The callback of SSG reaches each member in its own time, and flips one id
\* in the hash.
MembershipUpdate(s, m) ==
    /\ s \in members
    /\ (m \in members) # (m \in view[s])
    /\ view' = [view EXCEPT ![s] = Flip(@, {m})]
    /\ m_group_hash' = [m_group_hash EXCEPT ![s] = Flip(@, {m})]
    /\ UNCHANGED <<members, gone, overtaken, ctor, computed, serverVars, rpc,
                   rankVars, handleVars, chan>>

------------------------------------------------------------------------------
(* The provider's side of the RPCs. *)

Reply(s, code) == rpc' = [rpc EXCEPT ![s] = code]

StartRefusal(s, i) ==
    IF hash # m_group_hash[s]            THEN "INVALID_GROUP_HASH"
    ELSE IF s \notin Configured          THEN "INVALID_PIPELINE_NAME"
    ELSE IF s \in active                 THEN "PIPELINE_IS_ACTIVE"
    ELSE IF Inferior(iteration[s], i)    THEN "INVALID_ITERATION"
    ELSE "accepted"

AcceptStart(s) ==
    /\ rpc[s] = "start" /\ s \in members
    /\ Reply(s, StartRefusal(s, iter[Root]))
    /\ UNCHANGED <<groupVars, serverVars, rankVars, handleVars, chan>>

\* The server reserves the pipeline and starts it, even if it has left since.
FinishStart(s) ==
    /\ rpc[s] = "accepted"
    /\ \/ /\ Reply(s, "SUCCESS")
          /\ active' = active \cup {s}
          /\ iteration' = [iteration EXCEPT ![s] = iter[Root]]
       \/ /\ s \in Fallible
          /\ Reply(s, "BACKEND_ERROR")
          /\ UNCHANGED <<active, iteration>>
    /\ UNCHANGED <<groupVars, staged, rankVars, handleVars, chan>>

\* The checks that stage, execute, cleanup and abort begin with.
Refusal(s, i) ==
    IF s \notin Configured    THEN "INVALID_PIPELINE_NAME"
    ELSE IF s \notin active   THEN "PIPELINE_NOT_ACTIVE"
    ELSE IF iteration[s] # i  THEN "INVALID_ITERATION"
    ELSE "SUCCESS"

\* Mutant: abort leaves the iteration as start set it.
ServeAbortKeepingIteration(s) ==
    /\ rpc[s] = "abort" /\ s \in members
    /\ Reply(s, Refusal(s, iter[Root]))
    /\ active' = active \ {s}
    /\ UNCHANGED <<groupVars, iteration, staged, rankVars, handleVars, chan>>

ServeAbort(s) ==
    LET code == Refusal(s, iter[Root]) IN
    /\ rpc[s] = "abort" /\ s \in members
    /\ Reply(s, code)
    /\ IF code = "SUCCESS"
       THEN /\ active' = active \ {s}
            /\ iteration' = [iteration EXCEPT ![s] = Decrement(@)]
       ELSE UNCHANGED <<active, iteration>>
    /\ UNCHANGED <<groupVars, staged, rankVars, handleVars, chan>>

\* What the call of the backend, if there is one, answers.
Answer(s, code) ==
    {code} \cup (IF code = "SUCCESS" /\ s \in Fallible THEN {"BACKEND_ERROR"} ELSE {})

ServeExecute(s) ==
    /\ rpc[s] = "execute" /\ s \in members
    /\ \E code \in Answer(s, Refusal(s, iter[Root])) : Reply(s, code)
    /\ UNCHANGED <<groupVars, serverVars, rankVars, handleVars, chan>>

\* Mutant: the backend keeps the blocks of an iteration that ended.
ServeCleanupKeepingBlocks(s) ==
    /\ rpc[s] = "cleanup" /\ s \in members
    /\ \E code \in Answer(s, Refusal(s, iter[Root])) :
         /\ Reply(s, code)
         /\ active' = IF code = "SUCCESS" THEN active \ {s} ELSE active
    /\ UNCHANGED <<groupVars, iteration, staged, rankVars, handleVars, chan>>

ServeCleanup(s) ==
    /\ rpc[s] = "cleanup" /\ s \in members
    /\ \E code \in Answer(s, Refusal(s, iter[Root])) :
         /\ Reply(s, code)
         /\ IF code = "SUCCESS"
            THEN /\ active' = active \ {s}
                 /\ staged' = [staged EXCEPT ![s] = {}]
            ELSE UNCHANGED <<active, staged>>
    /\ UNCHANGED <<groupVars, iteration, rankVars, handleVars, chan>>

------------------------------------------------------------------------------
(* The collectives of a ClientCommunicator. A broadcast of the root does    *)
(* not wait for the others, up to MaxPending of them; a barrier waits for   *)
(* everyone, wherever in the program each rank calls it.                    *)

Bcast(msg) == /\ \A r \in Others : Len(chan[r]) < MaxPending
              /\ chan' = [r \in Others |-> Append(chan[r], msg)]

AfterBarrier(r) ==
    CASE pc[r] = "startBarrier"   -> IF r = Root THEN "send" ELSE "recvOk"
      [] pc[r] = "executeBarrier" -> IF r = Root THEN "execute" ELSE "cleanupBarrier"
      [] pc[r] = "cleanupBarrier" -> IF r = Root THEN "cleanup"
                                     ELSE IF iter[r] = LastIteration THEN "done"
                                     ELSE "startBarrier"

\* A rank that leaves the cleanup barrier, other than the root, is in the
\* next iteration.
Barrier ==
    /\ \A r \in Ranks : pc[r] \in BarrierPcs
    /\ pc' = [r \in Ranks |-> AfterBarrier(r)]
    /\ iter' = [r \in Ranks |-> IF r # Root /\ pc'[r] = "startBarrier"
                                THEN iter[r] + 1 ELSE iter[r]]
    /\ UNCHANGED <<groupVars, serverVars, rpc, threw, handleVars, chan>>

------------------------------------------------------------------------------
(* DistributedPipelineHandle::start *)

\* Sends one RPC to every pipeline of the set, without waiting.
Call(name, targets, next) ==
    /\ rpc' = [s \in Servers |-> IF s \in targets THEN name ELSE "none"]
    /\ Goto(Root, next)

Answered(targets) == \A s \in targets : rpc[s] \in Codes

SendStart ==
    /\ At(Root, "send")
    /\ Call("start", list[Root], "waitStart")
    /\ ok' = TRUE /\ retry' = FALSE
    /\ UNCHANGED <<groupVars, serverVars, iter, threw, list, hash, chan>>

Started == {s \in list[Root] : rpc[s] = "SUCCESS"}

\* Mutant: the servers that did start are not told to abort.
EndAttemptWithoutAbort ==
    /\ At(Root, "waitStart")
    /\ Answered(list[Root])
    /\ retry' = (\E s \in list[Root] : rpc[s] = "INVALID_GROUP_HASH")
    /\ ok' = (Started = list[Root])
    /\ Bcast(<<"ok", ok'>>)
    /\ Call("abort", {}, IF ok' THEN "stage" ELSE "waitAbort")
    /\ UNCHANGED <<groupVars, serverVars, iter, threw, list, hash>>

\* Mutant: the outcome is not broadcast when the attempt will be repeated.
EndAttemptSilently ==
    /\ At(Root, "waitStart")
    /\ Answered(list[Root])
    /\ retry' = (\E s \in list[Root] : rpc[s] = "INVALID_GROUP_HASH")
    /\ ok' = (Started = list[Root])
    /\ IF retry' THEN UNCHANGED chan ELSE Bcast(<<"ok", ok'>>)
    /\ IF ok'
       THEN Goto(Root, "stage") /\ UNCHANGED rpc
       ELSE Call("abort", Started, "waitAbort")
    /\ UNCHANGED <<groupVars, serverVars, iter, threw, list, hash>>

\* Mutant: the attempt succeeds if any server started.
EndAttemptWithAny ==
    /\ At(Root, "waitStart")
    /\ Answered(list[Root])
    /\ retry' = (\E s \in list[Root] : rpc[s] = "INVALID_GROUP_HASH")
    /\ ok' = (Started # {})
    /\ Bcast(<<"ok", ok'>>)
    /\ IF ok'
       THEN Goto(Root, "stage") /\ UNCHANGED rpc
       ELSE Call("abort", Started, "waitAbort")
    /\ UNCHANGED <<groupVars, serverVars, iter, threw, list, hash>>

\* Every answer is in: broadcast the outcome, and abort what was started.
EndAttempt ==
    /\ At(Root, "waitStart")
    /\ Answered(list[Root])
    /\ retry' = (\E s \in list[Root] : rpc[s] = "INVALID_GROUP_HASH")
    /\ ok' = (Started = list[Root])
    /\ Bcast(<<"ok", ok'>>)
    /\ IF ok'
       THEN Goto(Root, "stage") /\ UNCHANGED rpc
       ELSE Call("abort", Started, "waitAbort")
    /\ UNCHANGED <<groupVars, serverVars, iter, threw, list, hash>>

\* The loop goes on only after an INVALID_GROUP_HASH; after any other
\* failure start returns like after a success.
EndAbort ==
    /\ At(Root, "waitAbort")
    /\ \A s \in Servers : rpc[s] # "abort"
    /\ Goto(Root, IF retry THEN "refresh" ELSE "stage")
    /\ UNCHANGED <<groupVars, serverVars, rpc, iter, threw, handleVars, chan>>

\* Mutant: the new handle keeps the hash of the old one.
RefreshKeepingHash ==
    /\ At(Root, "refresh")
    /\ \E m \in members :
          /\ list' = [list EXCEPT ![Root] = view[m]]
          /\ Bcast(<<"view", view[m]>>)
    /\ Goto(Root, "send")
    /\ UNCHANGED <<groupVars, serverVars, rpc, iter, threw, ok, retry, hash>>

\* makeDistributedPipelineHandle on rank 0: some member answers the
\* observation; the size and the addresses are broadcast.
Refresh ==
    /\ At(Root, "refresh")
    /\ \E m \in members :
          /\ list' = [list EXCEPT ![Root] = view[m]]
          /\ hash' = view[m]
          /\ Bcast(<<"view", view[m]>>)
    /\ Goto(Root, "send")
    /\ UNCHANGED <<groupVars, serverVars, rpc, iter, threw, ok, retry>>

\* SSG fails to load or to observe the group: the exception is not broadcast.
RefreshThrows ==
    /\ At(Root, "refresh")
    /\ Throw(Root)
    /\ UNCHANGED <<groupVars, serverVars, rpc, pc, iter, handleVars, chan>>

\* A server of the list has left: the call or the wait for its answer throws,
\* and nothing in start, execute or cleanup catches the exception.
RpcThrows ==
    /\ \E p \in CallPcs : At(Root, p)
    /\ \E s \in gone : rpc[s] \in RpcNames \cup {"accepted"}
    /\ Throw(Root)
    /\ UNCHANGED <<groupVars, serverVars, rpc, pc, iter, handleVars, chan>>

\* Only calling abort is protected: the server is left out.
AbortThrows(s) ==
    /\ At(Root, "waitAbort")
    /\ s \in gone /\ rpc[s] = "abort"
    /\ Reply(s, "none")
    /\ UNCHANGED <<groupVars, serverVars, rankVars, handleVars, chan>>

Pop(r) == chan' = [chan EXCEPT ![r] = Tail(@)]

RecvOk(r) ==
    /\ At(r, "recvOk")
    /\ chan[r] # <<>>
    /\ Head(chan[r])[1] = "ok"
    /\ Goto(r, IF Head(chan[r])[2] THEN "stage" ELSE "recvView")
    /\ Pop(r)
    /\ UNCHANGED <<groupVars, serverVars, rpc, iter, threw, handleVars>>

\* Mutant: the other ranks keep the handle they had.
RecvViewIgnored(r) ==
    /\ At(r, "recvView")
    /\ chan[r] # <<>>
    /\ Head(chan[r])[1] = "view"
    /\ Goto(r, "recvOk")
    /\ Pop(r)
    /\ UNCHANGED <<groupVars, serverVars, rpc, iter, threw, handleVars>>

RecvView(r) ==
    /\ At(r, "recvView")
    /\ chan[r] # <<>>
    /\ Head(chan[r])[1] = "view"
    /\ list' = [list EXCEPT ![r] = Head(chan[r])[2]]
    /\ Goto(r, "recvOk")
    /\ Pop(r)
    /\ UNCHANGED <<groupVars, serverVars, rpc, iter, threw, hash, ok, retry>>

------------------------------------------------------------------------------
(* stage, execute, cleanup, as the example client calls them. *)

\* Mutant: execute has no barrier, the root goes ahead.
StageWithoutBarrier(r) ==
    /\ At(r, "stage")
    /\ \E s \in list[r] : staged' = [staged EXCEPT ![s] = @ \cup {r}]
    /\ Goto(r, IF r = Root THEN "execute" ELSE "executeBarrier")
    /\ UNCHANGED <<groupVars, active, iteration, rpc, iter, threw, handleVars, chan>>

\* A block goes to the server its hash selects; the call returns with the
\* answer, and a refusal or an error of the backend throws.
Stage(r) ==
    /\ At(r, "stage")
    /\ \E s \in list[r] :
         \/ /\ s \in members /\ Refusal(s, iter[r]) = "SUCCESS"
            /\ staged' = [staged EXCEPT ![s] = @ \cup {r}]
            /\ Goto(r, "executeBarrier")
            /\ UNCHANGED threw
         \/ /\ s \notin members \/ Refusal(s, iter[r]) # "SUCCESS" \/ s \in Fallible
            /\ Throw(r)
            /\ UNCHANGED <<pc, staged>>
    /\ UNCHANGED <<groupVars, active, iteration, rpc, iter, handleVars, chan>>

\* Only the root calls the servers, after everyone reached the barrier.
SendExecute ==
    /\ At(Root, "execute")
    /\ Call("execute", list[Root], "waitExecute")
    /\ UNCHANGED <<groupVars, serverVars, iter, threw, handleVars, chan>>

EndExecute ==
    /\ At(Root, "waitExecute")
    /\ Answered(list[Root])
    /\ IF Started = list[Root]
       THEN Goto(Root, "cleanupBarrier") /\ UNCHANGED threw
       ELSE Throw(Root) /\ UNCHANGED pc
    /\ UNCHANGED <<groupVars, serverVars, rpc, iter, handleVars, chan>>

SendCleanup ==
    /\ At(Root, "cleanup")
    /\ Call("cleanup", list[Root], "waitCleanup")
    /\ UNCHANGED <<groupVars, serverVars, iter, threw, handleVars, chan>>

\* Mutant: the client's loop has no end.
EndCleanupForever ==
    /\ At(Root, "waitCleanup")
    /\ Answered(list[Root])
    /\ Goto(Root, "startBarrier")
    /\ iter' = [iter EXCEPT ![Root] = @ + 1]
    /\ UNCHANGED <<groupVars, serverVars, rpc, threw, handleVars, chan>>

EndCleanup ==
    /\ At(Root, "waitCleanup")
    /\ Answered(list[Root])
    /\ IF Started # list[Root] THEN Throw(Root) /\ UNCHANGED <<pc, iter>>
       ELSE /\ IF iter[Root] = LastIteration
               THEN Goto(Root, "done") /\ UNCHANGED iter
               ELSE /\ Goto(Root, "startBarrier")
                    /\ iter' = [iter EXCEPT ![Root] = @ + 1]
            /\ UNCHANGED threw
    /\ UNCHANGED <<groupVars, serverVars, rpc, handleVars, chan>>

------------------------------------------------------------------------------

\* Every rank holds a handle made from the view of one founder.
Init ==
    /\ members = Founders
    /\ gone = {}
    /\ overtaken = {}
    /\ view = [s \in Servers |-> IF s \in Founders THEN Founders ELSE {}]
    /\ m_group_hash = view
    /\ ctor = [s \in Servers |-> IF s \in Founders THEN "ready" ELSE "off"]
    /\ computed = [s \in Servers |-> {}]
    /\ active = {}
    /\ iteration = [s \in Servers |-> 0]
    /\ staged = [s \in Servers |-> {}]
    /\ rpc = [s \in Servers |-> "none"]
    /\ pc = [r \in Ranks |-> "startBarrier"]
    /\ iter = [r \in Ranks |-> FirstIteration]
    /\ threw = {}
    /\ list = [r \in Ranks |-> Founders]
    /\ hash = Founders
    /\ ok = FALSE /\ retry = FALSE
    /\ chan = [r \in Others |-> <<>>]

Construct(s) == ComputeGroupHash(s) \/ StoreGroupHash(s)

Serve(s) == \/ AcceptStart(s) \/ FinishStart(s)
            \/ ServeAbort(s) \/ ServeExecute(s) \/ ServeCleanup(s)

RootStep == \/ SendStart \/ EndAttempt \/ EndAbort \/ Refresh \/ RefreshThrows
            \/ RpcThrows \/ \E s \in Servers : AbortThrows(s)
            \/ SendExecute \/ EndExecute \/ SendCleanup \/ EndCleanup

RankStep(r) == Stage(r) \/ (r \in Others /\ (RecvOk(r) \/ RecvView(r)))

\* Every rank is done, or waits for a rank that threw an exception.
Finished == /\ threw # {} \/ \A r \in Ranks : pc[r] = "done"
            /\ UNCHANGED vars

Next == \/ \E s \in Servers : \/ Join(s) \/ Construct(s) \/ Leave(s) \/ Serve(s)
                              \/ \E m \in Servers : MembershipUpdate(s, m)
        \/ Barrier \/ RootStep
        \/ \E r \in Ranks : RankStep(r)
        \/ Finished

\* Servers answer, callbacks are delivered, and no rank stops by itself.
Fairness == /\ \A s \in Servers : WF_vars(Construct(s)) /\ WF_vars(Serve(s))
            /\ \A s, m \in Servers : WF_vars(MembershipUpdate(s, m))
            /\ WF_vars(Barrier \/ RootStep)
            /\ \A r \in Ranks : WF_vars(RankStep(r))

Spec == Init /\ [][Next]_vars
FairSpec == Spec /\ Fairness

------------------------------------------------------------------------------
(* Properties. *)

TypeOK ==
    /\ members \subseteq Servers /\ gone \subseteq Servers /\ overtaken \subseteq gone
    /\ view \in [Servers -> SUBSET Servers]
    /\ m_group_hash \in [Servers -> SUBSET Servers]
    /\ ctor \in [Servers -> {"off", "hash", "store", "ready"}]
    /\ computed \in [Servers -> SUBSET Servers]
    /\ active \subseteq Servers
    /\ iteration \in [Servers -> Iterations]
    /\ staged \in [Servers -> SUBSET Ranks]
    /\ rpc \in [Servers -> {"none", "accepted"} \cup RpcNames \cup Codes]
    /\ pc \in [Ranks -> Pcs]
    /\ iter \in [Ranks -> FirstIteration..LastIteration]
    /\ threw \subseteq Ranks
    /\ list \in [Ranks -> SUBSET Servers]
    /\ hash \subseteq Servers
    /\ ok \in BOOLEAN /\ retry \in BOOLEAN
    /\ chan \in [Others -> Seq(Messages)]

(* "Start the pipeline on a given iteration": when start returns on a rank, *)
(* every server of that rank's handle is active at the iteration.           *)
StartMeansStarted ==
    \A r \in Ranks : pc[r] \in {"stage", "executeBarrier"} =>
        \A s \in list[r] : s \in active /\ iteration[s] = iter[r]

\* The last attempt failed, and rank 0 makes no other: start returns all the
\* same.
GaveUp == pc[Root] \in {"waitAbort", "stage"} /\ ~ok /\ ~retry

(* When start returns on a rank, every server of that rank's handle is      *)
(* active at the iteration, however many servers refused or failed on the   *)
(* way; except on rank 0 when it gave up.                                   *)
StartedUnlessGivenUp ==
    \A r \in Ranks : pc[r] \in {"stage", "executeBarrier"} /\ ~(r = Root /\ GaveUp) =>
        \A s \in list[r] : s \in active /\ iteration[s] = iter[r]

(* No pipeline is in the way of the client's next call: neither an attempt  *)
(* that was aborted and is repeated, nor the iteration before, leaves a     *)
(* member's pipeline active or at an iteration that refuses this one. (From *)
(* iteration 1 on: aborting iteration 0 leaves the largest number.)         *)
StateNeverRefuses ==
    FirstIteration > 0 =>
        \A s \in Servers : rpc[s] \notin {"PIPELINE_IS_ACTIVE", "PIPELINE_NOT_ACTIVE",
                                          "INVALID_ITERATION"}

(* Every rank matches the collectives of rank 0: it receives the kind of    *)
(* value it waits for, and never waits for a broadcast when rank 0 has      *)
(* returned from start. (A rank 0 that threw an exception ends the program.) *)
CollectivesMatch ==
    \A r \in Others :
        /\ (pc[r] = "recvOk" /\ chan[r] # <<>>) => Head(chan[r])[1] = "ok"
        /\ (pc[r] = "recvView" /\ chan[r] # <<>>) => Head(chan[r])[1] = "view"
        /\ (pc[r] \in {"recvOk", "recvView"} /\ chan[r] = <<>>)
              => pc[Root] \in StartPcs \/ Root \in threw

(* The same, as long as rank 0 does not give up: whatever the servers       *)
(* refused and the membership did, and however far rank 0 is ahead, all     *)
(* ranks agree on what comes next; and after it gave up, every rank still   *)
(* receives values of the kind it waits for.                                *)
CollectivesMatchUnlessGivenUp ==
    \A r \in Others :
        /\ (pc[r] = "recvOk" /\ chan[r] # <<>>) => Head(chan[r])[1] = "ok"
        /\ (pc[r] = "recvView" /\ chan[r] # <<>>) => Head(chan[r])[1] = "view"
        /\ (pc[r] \in {"recvOk", "recvView"} /\ chan[r] = <<>>)
              => pc[Root] \in StartPcs \/ Root \in threw \/ GaveUp

(* All ranks spread their blocks over the same servers, those that          *)
(* execute: a block is never sent by an outdated handle.                    *)
ViewsAgree ==
    \A r \in Ranks : pc[r] \in RunPcs => list[r] = list[Root]

(* A server executes an iteration only when the blocks of all ranks are on  *)
(* the servers that execute it.                                             *)
EveryBlockExecuted ==
    (\E s \in Servers : rpc[s] = "execute")
        => UNION {staged[s] : s \in list[Root]} = Ranks

(* Start is all or nothing, whatever the membership did and the backends    *)
(* answered meanwhile: before an attempt, and between iterations, no member *)
(* is left active and no server holds blocks.                               *)
AllOrNothing ==
    pc[Root] \in {"startBarrier", "send", "refresh", "done"}
        => active \cap members = {} /\ \A s \in Servers : staged[s] = {}

(* A server whose departure was requested stays in the group as long as an  *)
(* iteration it takes part in: the client loses a server it stages to only  *)
(* if that left between the tests and the reservation of its own start.     *)
GroupHeld ==
    \A r \in Ranks : pc[r] \in {"stage", "executeBarrier"} /\ ~(r = Root /\ GaveUp)
        => list[r] \subseteq members \cup overtaken

\* What each process waits for, where it waits.
Room == \A r \in Others : Len(chan[r]) < MaxPending
CanReceive(r) == /\ chan[r] # <<>>
                 /\ \/ pc[r] = "recvOk" /\ Head(chan[r])[1] = "ok"
                    \/ pc[r] = "recvView" /\ Head(chan[r])[1] = "view"
CanServe(s) == rpc[s] = "accepted" \/ (s \in members /\ rpc[s] \in RpcNames)
RootCanMove ==
    \/ pc[Root] \in {"send", "execute", "cleanup"}
    \/ pc[Root] \in {"waitExecute", "waitCleanup"} /\ Answered(list[Root])
    \/ pc[Root] = "waitStart" /\ Answered(list[Root]) /\ Room
    \/ pc[Root] = "waitAbort" /\ \A s \in Servers : rpc[s] # "abort"
    \/ pc[Root] = "refresh" /\ members # {} /\ Room

(* No rank waits for ever in a barrier, a broadcast or a call: until all    *)
(* are done, some process has what it waits for, or rank 0 calls a server   *)
(* that left, which throws. However far the others are behind rank 0.       *)
NeverStuck ==
    \/ \A r \in Ranks : pc[r] = "done"
    \/ threw # {}
    \/ \A r \in Ranks : pc[r] \in BarrierPcs
    \/ \E r \in Ranks : pc[r] = "stage" /\ list[r] # {}
    \/ \E r \in Others : CanReceive(r)
    \/ \E s \in Servers : CanServe(s) \/ (s \in gone /\ rpc[s] \in RpcNames)
    \/ RootCanMove

\* The state of the client's iteration as its ranks see it: an attempt that
\* has not succeeded yet is not visible.
Failed == GaveUp \/ threw # {}
Phase ==
    IF Failed THEN "failed"
    ELSE CASE pc[Root] = "done"     -> "done"
           [] pc[Root] \in StartPcs -> "idle"
           [] pc[Root] \in RunPcs   -> "started"
           [] pc[Root] \in {"cleanupBarrier", "cleanup", "waitCleanup"} -> "executed"

Visible == Phase \in {"started", "executed"}

Abstract == INSTANCE GroupIteration WITH
    phase     <- Phase,
    iteration <- iter[Root],
    group     <- IF Visible THEN active \cap list[Root] ELSE {},
    blocks    <- IF Visible THEN staged ELSE [s \in Servers |-> {}]

(* The handle implements GroupIteration: whatever the membership does, all  *)
(* servers of the group start an iteration at once or none does, and it is  *)
(* executed with the blocks of all ranks and ends with every server free of *)
(* them, or fails. Giving up is a failure.                                  *)
IterationSpec == Abstract!Spec

(* On every server the pipeline goes through its iterations as a provider   *)
(* has them: the client never aborts one it staged to, nor starts one again *)
(* that it did not abort.                                                   *)
Cycle == INSTANCE PipelineCycle WITH
    Pipelines <- Servers,
    running   <- active,
    at        <- iteration,
    loaded    <- {s \in Servers : staged[s] # {}}
CycleSpec == Cycle!Spec

\* Constructed servers have the hash of their view.
HashesRight == \A s \in members : m_group_hash[s] = view[s]

(* If the hashes are right in the end, the client ends: start is not        *)
(* repeated for ever, and every iteration is run to its end by every rank,  *)
(* or some rank throws.                                                     *)
AllIterationsRun ==
    <>[]HashesRight => <>(threw # {} \/ \A r \in Ranks : pc[r] = "done")

==============================================================================
