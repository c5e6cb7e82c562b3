---------------------------- MODULE ColzaProvider ----------------------------
(***************************************************************************)
(* The pipeline life cycle of one Colza provider: the RPC handlers         *)
(* start/stage/execute/cleanup/abort, create/destroy/check and leave of    *)
(* ProviderImpl.hpp, each running in a user-level thread of its own.       *)
(*                                                                         *)
(* A handler is a pc that moves through the points where another thread    *)
(* may run: before a mutex is taken, between two reads or writes of a      *)
(* PipelineState that no mutex protects, and while the backend is called.  *)
(* A critical section that only touches fields read under the same mutex   *)
(* is one step.                                                            *)
(***************************************************************************)
EXTENDS Naturals, FiniteSets

CONSTANTS
    Names,          \* pipeline names
    Handlers,       \* threads serving pipeline RPCs
    Leavers,        \* threads serving the "leave" RPC
    Ops,            \* the RPCs the environment sends, a subset of AllOps
    MaxGeneration,  \* bound: PipelineState objects created under one name
    MaxIteration,   \* largest value of a uint64_t iteration number
    MaxCount,       \* largest value of the size_t m_num_active_pipelines
    Synchronous,    \* whether clients follow the discipline of Disciplined
    NoObject, NoHandler, NoRequest

AllOps == {"start", "stage", "execute", "cleanup", "abort",
           "create", "destroy", "check"}

Objects == Names \X (1..MaxGeneration)
Iterations == 0..MaxIteration
Counts == 0..MaxCount

ASSUME NamesFinite == IsFiniteSet(Names)
ASSUME BoundsNat == /\ MaxGeneration \in Nat
                    /\ MaxIteration \in Nat
                    /\ MaxCount \in Nat
ASSUME CounterWideEnough == Cardinality(Objects) <= MaxCount
ASSUME OpsKnown == Ops \subseteq AllOps
ASSUME SynchronousBoolean == Synchronous \in BOOLEAN
ASSUME Distinguished == /\ NoObject \notin Objects
                        /\ NoHandler \notin Handlers

VARIABLES
    m_pipelines,            \* name -> the registered PipelineState, if any
    created,                \* name -> objects created under it so far
    active,                 \* the PipelineStates whose field active is true
    iteration,              \* the field iteration of each PipelineState
    data,                   \* iterations for which a backend holds blocks
    m_num_active_pipelines, \* counter guarding leave
    mtx,                    \* holder of m_pipelines_mtx across several steps
    left,                   \* ssg_group_leave and finalize were called
    pc, req, obj, reply,    \* per handler: control, arguments, shared_ptr, result
    leaver                  \* per leave thread: control

objectVars == <<active, iteration, data>>
tableVars == <<m_pipelines, created, left>>
lockVars == <<m_num_active_pipelines, mtx>>
handlerVars == <<pc, req, obj, reply>>
vars == <<objectVars, tableVars, lockVars, handlerVars, leaver>>

Requests == [op : AllOps, name : Names, iteration : Iterations, auto : BOOLEAN]

Failures == {"INVALID_GROUP_HASH", "INVALID_PIPELINE_NAME", "PIPELINE_IS_ACTIVE",
             "PIPELINE_NOT_ACTIVE", "INVALID_ITERATION", "CREATE_ERROR",
             "BACKEND_ERROR"}
Replies == Failures \cup {"NONE", "SUCCESS"}

\* The handler holds an object it found and has not answered yet.
StartPcs == {"reserve", "callStart", "release", "publish",
             "publishActive", "publishIteration"}
ReleasingPcs == {"abortActive", "abortIteration"}
CallPcs == {"callStage", "callExecute", "autoCleanup", "callCleanup", "callAbort"}
HoldingPcs == {"checkActive", "checkIteration", "deactivate", "notify"}
                \cup StartPcs \cup ReleasingPcs \cup CallPcs
Pcs == {"idle", "hash", "find", "create", "destroy", "respond"} \cup HoldingPcs

LeaverPcs == {"idle", "lock", "waiting", "done"}

------------------------------------------------------------------------------
(* size_t and uint64_t arithmetic. *)

Increment(n, max) == IF n = max THEN 0 ELSE n + 1
Decrement(n, max) == IF n = 0 THEN max ELSE n - 1

Unlocked == mtx = NoHandler

At(h, p) == pc[h] = p
Goto(h, p) == pc' = [pc EXCEPT ![h] = p]
Answer(h, code) == /\ reply' = [reply EXCEPT ![h] = code]
                   /\ Goto(h, "respond")

------------------------------------------------------------------------------
(* Requests, and the order in which clients send them. *)

\* Arguments an operation ignores are fixed, so that requests differ only
\* where the code can tell them apart.
WellFormed(r) ==
    /\ r.op \in Ops
    /\ r.auto => r.op = "execute"
    /\ r.op \in {"create", "destroy", "check"} => r.iteration = 0

InFlight(h) == ~At(h, "idle")

ClientOps == {"start", "stage", "execute", "cleanup", "abort"}

\* How the client drives a pipeline: every call returns before the next is
\* made, but stage calls of different ranks overlap; abort only follows a
\* start, before any stage. Administrators are independent of it: they create,
\* destroy and check pipelines at any time.
Disciplined(r) ==
    r.op \in ClientOps =>
      /\ \A g \in Handlers :
            (InFlight(g) /\ req[g].name = r.name /\ req[g].op \in ClientOps)
               => r.op = "stage" /\ req[g].op = "stage"
      /\ (r.op = "abort" /\ m_pipelines[r.name] # NoObject)
            => data[m_pipelines[r.name]] = {}

FirstPc(op) == CASE op = "start"   -> "hash"
                 [] op = "create"  -> "create"
                 [] op = "destroy" -> "destroy"
                 [] OTHER          -> "find"

\* After finalize no new request reaches a handler.
Receive(h, r) ==
    /\ At(h, "idle")
    /\ ~left
    /\ WellFormed(r)
    /\ Synchronous => Disciplined(r)
    /\ req' = [req EXCEPT ![h] = r]
    /\ Goto(h, FirstPc(r.op))
    /\ UNCHANGED <<objectVars, tableVars, lockVars, obj, reply, leaver>>

Respond(h) ==
    /\ At(h, "respond")
    /\ Goto(h, "idle")
    /\ req' = [req EXCEPT ![h] = NoRequest]
    /\ obj' = [obj EXCEPT ![h] = NoObject]
    /\ reply' = [reply EXCEPT ![h] = "NONE"]
    /\ UNCHANGED <<objectVars, tableVars, lockVars, leaver>>

------------------------------------------------------------------------------
(* What start, stage, execute, cleanup, abort and check have in common. *)

\* The client's hash of the group may or may not be the provider's.
CheckGroupHash(h) ==
    /\ At(h, "hash")
    /\ \/ Goto(h, "find") /\ UNCHANGED reply
       \/ Answer(h, "INVALID_GROUP_HASH")
    /\ UNCHANGED <<objectVars, tableVars, lockVars, req, obj, leaver>>

\* Mutant: the end() test is missing.
FindPipelineUnchecked(h) ==
    /\ At(h, "find")
    /\ Unlocked
    /\ obj' = [obj EXCEPT ![h] = m_pipelines[req[h].name]]
    /\ Goto(h, "checkActive")
    /\ UNCHANGED <<objectVars, tableVars, lockVars, req, reply, leaver>>

\* The macro FIND_PIPELINE: the shared_ptr is copied under the mutex, and
\* kept after the mutex is released.
FindPipeline(h) ==
    /\ At(h, "find")
    /\ Unlocked
    /\ LET found == m_pipelines[req[h].name] IN
         \/ /\ found = NoObject
            /\ Answer(h, "INVALID_PIPELINE_NAME")
            /\ UNCHANGED obj
         \/ /\ found # NoObject
            /\ req[h].op = "check"
            /\ Answer(h, "SUCCESS")
            /\ UNCHANGED obj
         \/ /\ found # NoObject
            /\ req[h].op # "check"
            /\ obj' = [obj EXCEPT ![h] = found]
            /\ Goto(h, "checkActive")
            /\ UNCHANGED reply
    /\ UNCHANGED <<objectVars, tableVars, lockVars, req, leaver>>

\* The field active is read without the mutex.
CheckActive(h) ==
    LET starting == req[h].op = "start"
        isActive == obj[h] \in active
    IN  /\ At(h, "checkActive")
        /\ \/ /\ starting = ~isActive
              /\ Goto(h, "checkIteration")
              /\ UNCHANGED reply
           \/ starting /\ isActive /\ Answer(h, "PIPELINE_IS_ACTIVE")
           \/ ~starting /\ ~isActive /\ Answer(h, "PIPELINE_NOT_ACTIVE")
        /\ UNCHANGED <<objectVars, tableVars, lockVars, req, obj, leaver>>

\* 0 stands for "never started", so that iteration 0 itself is no obstacle.
Inferior(current, requested) == current # 0 /\ current >= requested

CallPc(op) == CASE op = "start"   -> "reserve"
                [] op = "stage"   -> "callStage"
                [] op = "execute" -> "callExecute"
                [] op = "cleanup" -> "callCleanup"
                [] OTHER          -> "callAbort"

\* Mutant: only start compares iterations.
CheckIterationOfStart(h) ==
    /\ At(h, "checkIteration")
    /\ req[h].op = "start" => ~Inferior(iteration[obj[h]], req[h].iteration)
    /\ Goto(h, CallPc(req[h].op))
    /\ UNCHANGED <<objectVars, tableVars, lockVars, req, obj, reply, leaver>>

\* So is the field iteration.
CheckIteration(h) ==
    LET current == iteration[obj[h]]
        accepted == IF req[h].op = "start"
                    THEN ~Inferior(current, req[h].iteration)
                    ELSE current = req[h].iteration
    IN  /\ At(h, "checkIteration")
        /\ \/ accepted /\ Goto(h, CallPc(req[h].op)) /\ UNCHANGED reply
           \/ ~accepted /\ Answer(h, "INVALID_ITERATION")
        /\ UNCHANGED <<objectVars, tableVars, lockVars, req, obj, leaver>>

\* m_pipelines_cv.notify_all(), after the mutex is released.
NotifyAll(h) ==
    /\ At(h, "notify")
    /\ leaver' = [l \in Leavers |-> IF leaver[l] = "waiting" THEN "lock" ELSE leaver[l]]
    /\ Goto(h, "respond")
    /\ UNCHANGED <<objectVars, tableVars, lockVars, req, obj, reply>>

------------------------------------------------------------------------------
(* start *)

\* Mutant: the pipeline is not counted.
ReserveUncounted(h) ==
    /\ At(h, "reserve")
    /\ Goto(h, "callStart")
    /\ UNCHANGED <<objectVars, tableVars, lockVars, req, obj, reply, leaver>>

Reserve(h) ==
    /\ At(h, "reserve")
    /\ Unlocked
    /\ m_num_active_pipelines' = Increment(m_num_active_pipelines, MaxCount)
    /\ Goto(h, "callStart")
    /\ UNCHANGED <<objectVars, tableVars, mtx, req, obj, reply, leaver>>

\* Mutant: the backend's failure is not copied into the result.
BackendStartOptimistic(h) ==
    /\ At(h, "callStart")
    /\ reply' = [reply EXCEPT ![h] = "SUCCESS"]
    /\ Goto(h, "publish") \/ Goto(h, "release")
    /\ UNCHANGED <<objectVars, tableVars, lockVars, req, obj, leaver>>

BackendStart(h) ==
    /\ At(h, "callStart")
    /\ \/ Goto(h, "publish") /\ reply' = [reply EXCEPT ![h] = "SUCCESS"]
       \/ Goto(h, "release") /\ reply' = [reply EXCEPT ![h] = "BACKEND_ERROR"]
    /\ UNCHANGED <<objectVars, tableVars, lockVars, req, obj, leaver>>

\* The two fields are written without the mutex: another thread may see
\* either of them first.
PublishIteration(h) ==
    /\ pc[h] \in {"publish", "publishIteration"}
    /\ iteration' = [iteration EXCEPT ![obj[h]] = req[h].iteration]
    /\ Goto(h, IF At(h, "publish") THEN "publishActive" ELSE "respond")
    /\ UNCHANGED <<active, data, tableVars, lockVars, req, obj, reply, leaver>>

PublishActive(h) ==
    /\ pc[h] \in {"publish", "publishActive"}
    /\ active' = active \cup {obj[h]}
    /\ Goto(h, IF At(h, "publish") THEN "publishIteration" ELSE "respond")
    /\ UNCHANGED <<iteration, data, tableVars, lockVars, req, obj, reply, leaver>>

\* Mutants: a failed start does not give its count back, or wakes nobody.
ReleaseForgotten(h) ==
    /\ At(h, "release")
    /\ Goto(h, "notify")
    /\ UNCHANGED <<objectVars, tableVars, lockVars, req, obj, reply, leaver>>

ReleaseSilent(h) ==
    /\ At(h, "release")
    /\ Unlocked
    /\ m_num_active_pipelines' = Decrement(m_num_active_pipelines, MaxCount)
    /\ Goto(h, "respond")
    /\ UNCHANGED <<objectVars, tableVars, mtx, req, obj, reply, leaver>>

Release(h) ==
    /\ At(h, "release")
    /\ Unlocked
    /\ m_num_active_pipelines' = Decrement(m_num_active_pipelines, MaxCount)
    /\ Goto(h, "notify")
    /\ UNCHANGED <<objectVars, tableVars, mtx, req, obj, reply, leaver>>

------------------------------------------------------------------------------
(* stage, execute, cleanup: the backend is called with no mutex held, and   *)
(* each step below is the return of the call.                               *)

BackendStage(h) ==
    /\ At(h, "callStage")
    /\ \/ /\ data' = [data EXCEPT ![obj[h]] = @ \cup {req[h].iteration}]
          /\ Answer(h, "SUCCESS")
       \/ Answer(h, "BACKEND_ERROR") /\ UNCHANGED data
    /\ UNCHANGED <<active, iteration, tableVars, lockVars, req, obj, leaver>>

\* Mutant: automatic cleanup deactivates without calling the backend.
BackendExecuteNoCleanup(h) ==
    /\ At(h, "callExecute")
    /\ \/ /\ req[h].auto
          /\ reply' = [reply EXCEPT ![h] = "SUCCESS"]
          /\ Goto(h, "deactivate")
       \/ ~req[h].auto /\ Answer(h, "SUCCESS")
    /\ UNCHANGED <<objectVars, tableVars, lockVars, req, obj, leaver>>

BackendExecute(h) ==
    /\ At(h, "callExecute")
    /\ \/ req[h].auto /\ Goto(h, "autoCleanup") /\ UNCHANGED reply
       \/ ~req[h].auto /\ Answer(h, "SUCCESS")
       \/ Answer(h, "BACKEND_ERROR")
    /\ UNCHANGED <<objectVars, tableVars, lockVars, req, obj, leaver>>

\* A failed automatic cleanup still notifies; a failed cleanup RPC does not.
BackendCleanup(h) ==
    /\ pc[h] \in {"autoCleanup", "callCleanup"}
    /\ \/ /\ data' = [data EXCEPT ![obj[h]] = @ \ {req[h].iteration}]
          /\ reply' = [reply EXCEPT ![h] = "SUCCESS"]
          /\ Goto(h, "deactivate")
       \/ /\ reply' = [reply EXCEPT ![h] = "BACKEND_ERROR"]
          /\ Goto(h, IF At(h, "autoCleanup") THEN "notify" ELSE "respond")
          /\ UNCHANGED data
    /\ UNCHANGED <<active, iteration, tableVars, lockVars, req, obj, leaver>>

\* Mutant: cleanup wakes nobody.
DeactivateSilent(h) ==
    /\ At(h, "deactivate")
    /\ Unlocked
    /\ active' = active \ {obj[h]}
    /\ m_num_active_pipelines' = Decrement(m_num_active_pipelines, MaxCount)
    /\ Goto(h, "respond")
    /\ UNCHANGED <<iteration, data, tableVars, mtx, req, obj, reply, leaver>>

Deactivate(h) ==
    /\ At(h, "deactivate")
    /\ Unlocked
    /\ active' = active \ {obj[h]}
    /\ m_num_active_pipelines' = Decrement(m_num_active_pipelines, MaxCount)
    /\ Goto(h, "notify")
    /\ UNCHANGED <<iteration, data, tableVars, mtx, req, obj, reply, leaver>>

------------------------------------------------------------------------------
(* abort: both fields change under the mutex, but the checks of the other   *)
(* handlers read them without it, so they may see one change and not the    *)
(* other.                                                                   *)

MayAbort(h, second) == (At(h, "callAbort") /\ Unlocked) \/ At(h, second)

\* What follows a write: the other write, or the counter and the unlock.
AfterAbortWrite(h, other) ==
    \/ /\ At(h, "callAbort")
       /\ mtx' = h
       /\ Goto(h, other)
       /\ UNCHANGED <<m_num_active_pipelines, reply>>
    \/ /\ ~At(h, "callAbort")
       /\ m_num_active_pipelines' = Decrement(m_num_active_pipelines, MaxCount)
       /\ mtx' = NoHandler
       /\ reply' = [reply EXCEPT ![h] = "SUCCESS"]
       /\ Goto(h, "notify")

AbortActive(h) ==
    /\ MayAbort(h, "abortActive")
    /\ active' = active \ {obj[h]}
    /\ AfterAbortWrite(h, "abortIteration")
    /\ UNCHANGED <<iteration, data, tableVars, req, obj, leaver>>

\* Mutant: the iteration is not given back.
AbortIterationKept(h) ==
    /\ MayAbort(h, "abortIteration")
    /\ AfterAbortWrite(h, "abortActive")
    /\ UNCHANGED <<objectVars, tableVars, req, obj, leaver>>

AbortIteration(h) ==
    /\ MayAbort(h, "abortIteration")
    /\ iteration' = [iteration EXCEPT ![obj[h]] = Decrement(@, MaxIteration)]
    /\ AfterAbortWrite(h, "abortActive")
    /\ UNCHANGED <<active, data, tableVars, req, obj, leaver>>

------------------------------------------------------------------------------
(* Administration. *)

\* Token, JSON, library and factory errors are one failure: none of them
\* changes the provider. An object registered under the name is replaced,
\* whatever its state.
CreatePipeline(h) ==
    LET n == req[h].name IN
    /\ At(h, "create")
    /\ \/ /\ Answer(h, "CREATE_ERROR")
          /\ UNCHANGED <<m_pipelines, created>>
       \/ /\ Unlocked
          /\ created[n] < MaxGeneration
          /\ created' = [created EXCEPT ![n] = @ + 1]
          /\ m_pipelines' = [m_pipelines EXCEPT ![n] = <<n, created[n] + 1>>]
          /\ Answer(h, "SUCCESS")
    /\ UNCHANGED <<objectVars, left, lockVars, req, obj, leaver>>

\* The object is unregistered whatever the backend's destroy returned.
DestroyPipeline(h) ==
    LET n == req[h].name
        found == m_pipelines[n]
    IN  /\ At(h, "destroy")
        /\ Unlocked
        /\ \/ /\ found = NoObject
              /\ Answer(h, "INVALID_PIPELINE_NAME")
              /\ UNCHANGED m_pipelines
           \/ /\ found \in active
              /\ Answer(h, "PIPELINE_IS_ACTIVE")
              /\ UNCHANGED m_pipelines
           \/ /\ found # NoObject /\ found \notin active
              /\ m_pipelines' = [m_pipelines EXCEPT ![n] = NoObject]
              /\ \E code \in {"SUCCESS", "BACKEND_ERROR"} : Answer(h, code)
        /\ UNCHANGED <<objectVars, created, left, lockVars, req, obj, leaver>>

------------------------------------------------------------------------------
(* leave *)

LeaveReceive(l) ==
    /\ leaver[l] = "idle"
    /\ ~left
    /\ leaver' = [leaver EXCEPT ![l] = "lock"]
    /\ UNCHANGED <<objectVars, tableVars, lockVars, handlerVars>>

LeaveWait(l) ==
    /\ leaver[l] = "lock"
    /\ Unlocked
    /\ m_num_active_pipelines # 0
    /\ leaver' = [leaver EXCEPT ![l] = "waiting"]
    /\ UNCHANGED <<objectVars, tableVars, lockVars, handlerVars>>

\* Mutant: leave does not look at the counter.
LeaveGroupNow(l) ==
    /\ leaver[l] = "lock"
    /\ Unlocked
    /\ leaver' = [leaver EXCEPT ![l] = "done"]
    /\ left' = TRUE
    /\ m_pipelines' = [n \in Names |-> NoObject]
    /\ UNCHANGED <<objectVars, created, lockVars, handlerVars>>

LeaveGroup(l) ==
    /\ leaver[l] = "lock"
    /\ Unlocked
    /\ m_num_active_pipelines = 0
    /\ leaver' = [leaver EXCEPT ![l] = "done"]
    /\ left' = TRUE
    /\ m_pipelines' = [n \in Names |-> NoObject]
    /\ UNCHANGED <<objectVars, created, lockVars, handlerVars>>

------------------------------------------------------------------------------

\* processConfig creates any set of pipelines before the first request.
Init ==
    /\ \E configured \in SUBSET Names :
          /\ m_pipelines = [n \in Names |-> IF n \in configured /\ MaxGeneration > 0
                                            THEN <<n, 1>> ELSE NoObject]
          /\ created = [n \in Names |-> IF n \in configured /\ MaxGeneration > 0
                                        THEN 1 ELSE 0]
    /\ active = {}
    /\ iteration = [o \in Objects |-> 0]
    /\ data = [o \in Objects |-> {}]
    /\ m_num_active_pipelines = 0
    /\ mtx = NoHandler
    /\ left = FALSE
    /\ pc = [h \in Handlers |-> "idle"]
    /\ req = [h \in Handlers |-> NoRequest]
    /\ obj = [h \in Handlers |-> NoObject]
    /\ reply = [h \in Handlers |-> "NONE"]
    /\ leaver = [l \in Leavers |-> "idle"]

\* The steps of a request that was received.
Serve(h) ==
    \/ CheckGroupHash(h) \/ FindPipeline(h) \/ CheckActive(h) \/ CheckIteration(h)
    \/ Reserve(h) \/ BackendStart(h) \/ Release(h)
    \/ PublishIteration(h) \/ PublishActive(h)
    \/ BackendStage(h) \/ BackendExecute(h) \/ BackendCleanup(h) \/ Deactivate(h)
    \/ AbortActive(h) \/ AbortIteration(h)
    \/ CreatePipeline(h) \/ DestroyPipeline(h)
    \/ NotifyAll(h) \/ Respond(h)

Leave(l) == LeaveWait(l) \/ LeaveGroup(l)

\* The provider left, every handler has returned and nobody is about to run.
Finalized ==
    /\ left
    /\ \A h \in Handlers : ~InFlight(h)
    /\ \A l \in Leavers : leaver[l] # "lock"
    /\ UNCHANGED vars

Next ==
    \/ \E h \in Handlers : \/ \E r \in Requests : Receive(h, r)
                           \/ Serve(h)
    \/ \E l \in Leavers : LeaveReceive(l) \/ Leave(l)
    \/ Finalized

\* Argobots runs every thread that is ready, and backend calls return.
Fairness == /\ \A h \in Handlers : WF_vars(Serve(h))
            /\ \A l \in Leavers : WF_vars(Leave(l))

Spec == Init /\ [][Next]_vars
FairSpec == Spec /\ Fairness

------------------------------------------------------------------------------
(* Properties. *)

TypeOK ==
    /\ m_pipelines \in [Names -> Objects \cup {NoObject}]
    /\ created \in [Names -> 0..MaxGeneration]
    /\ active \in SUBSET Objects
    /\ iteration \in [Objects -> Iterations]
    /\ data \in [Objects -> SUBSET Iterations]
    /\ m_num_active_pipelines \in Counts
    /\ mtx \in Handlers \cup {NoHandler}
    /\ left \in BOOLEAN
    /\ pc \in [Handlers -> Pcs]
    /\ req \in [Handlers -> Requests \cup {NoRequest}]
    /\ obj \in [Handlers -> Objects \cup {NoObject}]
    /\ reply \in [Handlers -> Replies]
    /\ leaver \in [Leavers -> LeaverPcs]
    /\ \A h \in Handlers : InFlight(h) => req[h] \in Requests
    /\ \A h \in Handlers : pc[h] \in HoldingPcs => obj[h] \in Objects

\* The objects a thread in leave must wait for: those that are active, and
\* those a handler is starting or has not finished aborting.
ChargedPcs == {"callStart", "release", "publish", "publishActive", "abortIteration"}
Charged == {o \in Objects : \/ o \in active
                            \/ \E h \in Handlers : pc[h] \in ChargedPcs /\ obj[h] = o}

(* m_num_active_pipelines counts exactly the pipelines that are active or   *)
(* changing state, across starts that fail, automatic and explicit cleanups *)
(* and aborts: an error in any of the five places that change it would make *)
(* leave hang, or leave under a running pipeline.                           *)
CountExact == m_num_active_pipelines = Cardinality(Charged)

(* Whenever a thread sleeps in leave() although the counter is 0, some      *)
(* handler is about to call notify_all: the wakeup is never lost.           *)
NoLostWakeup ==
    (m_num_active_pipelines = 0 /\ \E l \in Leavers : leaver[l] = "waiting")
        => \E h \in Handlers : At(h, "notify")

(* "All the pipelines are inactive, provider can leave": ssg_group_leave is *)
(* called only at an instant when no PipelineState is active.               *)
LeaveOnlyWhenIdle == [][left' /\ ~left => active = {}]_vars

(* A backend is asked to stage, execute or clean up an iteration only       *)
(* between the start and the end of that iteration, although the fields     *)
(* were checked before the call and without the mutex.                      *)
CallsInsideIteration ==
    \A h \in Handlers :
        pc[h] \in CallPcs => /\ obj[h] \in active
                             /\ iteration[obj[h]] = req[h].iteration

(* Blocks staged for an iteration never outlive it: what a backend still    *)
(* holds belongs to the iteration its pipeline is active at.                *)
NoStrandedData ==
    \A o \in Objects : data[o] # {} => /\ o \in active
                                       /\ data[o] = {iteration[o]}

(* "Cannot destroy a pipeline while active", says the code: a pipeline that *)
(* is active is the one registered under its name, where clients can clean  *)
(* it up. An administrator's call during a client's start refutes it.       *)
ActiveRegistered ==
    ~left => \A n \in Names : \A o \in active : o[1] = n => m_pipelines[n] = o

(* When start answers success, the pipeline is active at the iteration that *)
(* was asked for.                                                           *)
StartedMeansActive ==
    \A h \in Handlers :
        (At(h, "respond") /\ reply[h] = "SUCCESS" /\ req[h].op = "start")
            => /\ obj[h] \in active
               /\ iteration[obj[h]] = req[h].iteration
               /\ m_num_active_pipelines # 0

(* "Request the server to leave the group and shutdown": a provider that    *)
(* was asked to leave does so once none of its pipelines is active or       *)
(* changing state any more. No request is refused, lost or left asleep.     *)
InactiveLeave ==
    (<>[](Charged = {})) => \A l \in Leavers : (leaver[l] = "lock") ~> left

(* Every pipeline in use hides behind the counter: the provider implements  *)
(* the guard that Begin, End and Leave describe in LeaveGuard.              *)
Guard == INSTANCE LeaveGuard WITH Things <- Objects, busy <- Charged, gone <- left
GuardSpec == Guard!Spec

\* The effects of a start count from the success of its backend, those of a
\* cleanup from the success of its backend, those of an abort from its first
\* write: what a handler has still to write is added, what it has still to
\* clear is left out.
Writers(o, ps) == {h \in Handlers : pc[h] \in ps /\ obj[h] = o}

Made == {o \in Objects : o[2] <= created[o[1]]}

Loaded == {o \in Objects : data[o] # {}}

Running == {o \in Objects :
              /\ \/ o \in active
                 \/ Writers(o, {"publish", "publishActive", "publishIteration"}) # {}
              /\ Writers(o, {"deactivate", "abortActive"}) = {}}

LastIteration == [o \in Objects |->
    LET starting == Writers(o, {"publish", "publishIteration"}) IN
    IF starting # {} THEN CHOOSE i \in Iterations : \E h \in starting : req[h].iteration = i
    ELSE IF Writers(o, {"abortIteration"}) # {} THEN Decrement(iteration[o], MaxIteration)
    ELSE iteration[o]]

Outcome == [h \in Handlers |-> IF At(h, "idle") THEN "IDLE"
                               ELSE IF pc[h] \in ReleasingPcs THEN "SUCCESS"
                               ELSE reply[h]]

(* To disciplined clients the provider looks as if it served each call at   *)
(* one instant: that its threads read active and iteration without the      *)
(* mutex, write them one by one and call the backend in between does not    *)
(* show.                                                                    *)
Atomic == INSTANCE AtomicProvider WITH
            table <- m_pipelines, made <- Made, running <- Running,
            at <- LastIteration, loaded <- Loaded, gone <- left,
            call <- req, target <- obj, answer <- Outcome
AtomicSpec == Atomic!Spec

(* Each pipeline of a provider goes through its iterations one at a time,   *)
(* as DistributedPipeline takes them of its servers.                        *)
Cycle == INSTANCE PipelineCycle WITH
            Pipelines <- Objects, running <- Running,
            at <- LastIteration, loaded <- Loaded
CycleSpec == Cycle!Spec

==============================================================================
