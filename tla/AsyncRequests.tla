---------------------------- MODULE AsyncRequests ----------------------------
(***************************************************************************)
(* The calls of PipelineHandle and DistributedPipelineHandle that return   *)
(* before the servers answered: the AsyncRequest objects a program copies, *)
(* moves and drops, the request they share, its wait callback, and the     *)
(* pipeline of the example backend that pulls the staged memory.           *)
(*                                                                         *)
(* Threads of one client use the same variables; one variable is used by   *)
(* one thread at a time. The hash of a group is the set of its members;    *)
(* the servers form one group that does not change. Integers are those of  *)
(* size_t, of SizeBound values.                                            *)
(***************************************************************************)
EXTENDS Naturals, Sequences

CONSTANTS
    Threads,
    Handles,        \* variables of type AsyncRequest
    Servers,
    Blocks,         \* names and ids of data blocks
    Dimensions,     \* block -> its dimensions
    ElementSize,    \* block -> bytes of an element of its Type
    SizeBound,      \* 2^64
    MaxRequests,    \* bound: calls issued
    MaxIteration,   \* bound: iterations
    Values,         \* int32_t values a variable may hold
    NoRequest, NoValue

ASSUME ServersExist == Servers # {}
ASSUME BoundsNat == MaxRequests \in Nat /\ MaxIteration \in Nat /\ SizeBound \in Nat \ {0}
ASSUME BlocksHaveShapes == /\ Dimensions \in [Blocks -> Seq(Nat)]
                           /\ ElementSize \in [Blocks -> {1, 2, 4, 8}]
ASSUME ZeroIsValue == 0 \in Values /\ NoValue \notin Values
ASSUME NamesDistinct == /\ NoRequest \notin Handles \cup (1..MaxRequests)
                        /\ Handles \cap (1..MaxRequests) = {}
                        /\ Handles \cap Threads = {}

VARIABLES
    self,           \* variable -> request it points to
    request,        \* request -> the call it stands for
    responses,      \* request -> servers in m_async_responses
    waited,         \* requests whose m_waited is set
    thrown,         \* requests whose failure was thrown to the program
    result,         \* request -> *result
    pc, task,       \* thread -> control, call it is in
    client,         \* the process
    answer,         \* request -> server -> progress of the RPC
    active, iteration, \* servers' PipelineState
    m_datasets,     \* server -> blocks held, with their iteration and size
    raced,          \* requests two copies of which were dropped at once
    abandoned,      \* requests whose call threw before it passed them on
    clashed         \* requests that staged a block while another did

requestVars == <<request, responses, waited, thrown, result>>
threadVars == <<pc, task, client>>
serverVars == <<active, iteration, m_datasets>>
historyVars == <<raced, abandoned, clashed>>
vars == <<self, requestVars, threadVars, answer, serverVars, historyVars>>

Requests == 1..MaxRequests
Iterations == 0..MaxIteration
Ops == {"stage", "execute", "executeAndCleanup", "cleanup"}
Acts == {"none", "wait", "drop", "copy", "move", "issue", "sync"}

Calls == [op : Ops, iteration : Iterations, block : Blocks,
          targets : SUBSET Servers, collective : BOOLEAN]
Unused == [op |-> "none"]
Tasks == [act : Acts, handle : Handles \cup {NoRequest},
          from : Handles \cup Requests \cup {NoRequest}]
NoTask == [act |-> "none", handle |-> NoRequest, from |-> NoRequest]

Issued == {r \in Requests : request[r] # Unused}
Answers == {"none", "sent", "pulling", "ok", "refused"}

------------------------------------------------------------------------------
(* ComputeDataSize, in integers of SizeBound values.                        *)

\* Mutant: the loop leaves out the last dimension.
ComputeDataSizeShort(b) ==
    LET s[n \in 0..Len(Dimensions[b])] ==
          IF n = 0 THEN 1 ELSE (s[n - 1] * Dimensions[b][n]) % SizeBound
    IN  (ElementSize[b] * s[IF Len(Dimensions[b]) = 0 THEN 0 ELSE Len(Dimensions[b]) - 1])
          % SizeBound

ComputeDataSize(b) ==
    LET s[n \in 0..Len(Dimensions[b])] ==
          IF n = 0 THEN 1 ELSE (s[n - 1] * Dimensions[b][n]) % SizeBound
    IN  (ElementSize[b] * s[Len(Dimensions[b])]) % SizeBound

------------------------------------------------------------------------------
(* The shared pointer of an AsyncRequest.                                   *)

\* The request a call of thread t has made and not passed on yet. Two
\* references hold it: a local of the call, and a temporary AsyncRequest.
Temporary(t) == IF task[t].act \in {"issue", "sync"} THEN task[t].from ELSE NoRequest

Holders(r) == {h \in Handles : self[h] = r} \cup {t \in Threads : Temporary(t) = r}

\* The use count is 1.
Unique(r) == \E h \in Handles : Holders(r) = {h}

\* The request thread t waits for.
Awaited(t) == IF task[t].act = "sync" THEN task[t].from ELSE self[task[t].handle]

Waiting(r) == \E t \in Threads : pc[t] = "wait" /\ Awaited(t) = r

Free(t) == client = "running" /\ pc[t] = "idle"
InUse(t, h) == \E u \in Threads \ {t} : h = task[u].handle \/ h = task[u].from

\* The wait callback indexes the vector of responses. It is undefined on the
\* vector an earlier call emptied, or while another thread is in it.
EnterCallback(t, r) ==
    IF (responses[r] = {} /\ ~request[r].collective) \/ Waiting(r)
    THEN client' = "undefined" /\ UNCHANGED pc
    ELSE pc' = [pc EXCEPT ![t] = "wait"] /\ UNCHANGED client

\* AsyncRequest::wait; nothing to do without a request or once waited.
Wait(t, h) ==
    /\ Free(t) /\ ~InUse(t, h)
    /\ self[h] # NoRequest /\ self[h] \notin waited
    /\ task' = [task EXCEPT ![t] = [act |-> "wait", handle |-> h, from |-> NoRequest]]
    /\ EnterCallback(t, self[h])
    /\ UNCHANGED <<self, requestVars, answer, serverVars, historyVars>>

\* Another thread has read the use count and is about to give up its copy.
Releasing(t, r) == \E u \in Threads \ {t} : /\ pc[u] = "overwrite"
                                            /\ self[task[u].handle] = r

\* Mutant: the request is given up whether or not it is the last copy.
ReplaceUnwaited(t, h, act, from) ==
    /\ task' = [task EXCEPT ![t] = [act |-> act, handle |-> h, from |-> from]]
    /\ pc' = [pc EXCEPT ![t] = "overwrite"]
    /\ UNCHANGED <<client, raced>>

\* The destructor and the assignments wait if this was the last copy.
Replace(t, h, act, from) ==
    LET r == self[h] IN
    /\ task' = [task EXCEPT ![t] = [act |-> act, handle |-> h, from |-> from]]
    /\ IF r # NoRequest /\ Unique(r) /\ r \notin waited
       THEN EnterCallback(t, r) /\ UNCHANGED raced
       ELSE /\ pc' = [pc EXCEPT ![t] = "overwrite"]
            /\ raced' = IF r # NoRequest /\ Releasing(t, r) THEN raced \cup {r} ELSE raced
            /\ UNCHANGED client

Drop(t, h) ==
    /\ Free(t) /\ ~InUse(t, h)
    /\ self[h] # NoRequest
    /\ Replace(t, h, "drop", NoRequest)
    /\ UNCHANGED <<self, requestVars, answer, serverVars, abandoned, clashed>>

Assign(t, h, g, act) ==
    /\ Free(t) /\ ~InUse(t, h) /\ ~InUse(t, g)
    /\ self[h] # self[g]
    /\ Replace(t, h, act, g)
    /\ UNCHANGED <<self, requestVars, answer, serverVars, abandoned, clashed>>

\* What a variable points to once thread t has given its request up.
Replacement(t) ==
    LET job == task[t] IN
    IF job.act = "drop" THEN NoRequest
    ELSE IF job.act \in {"copy", "move"} THEN self[job.from]
    ELSE job.from

\* Mutant: the thread goes on with its temporary.
OverwriteAndKeep(t) ==
    /\ client = "running" /\ pc[t] = "overwrite"
    /\ self' = [self EXCEPT ![task[t].handle] = Replacement(t)]
    /\ pc' = [pc EXCEPT ![t] = "idle"]
    /\ UNCHANGED <<requestVars, task, client, answer, serverVars, historyVars>>

\* The end of a destructor or an assignment. A temporary passes its request on.
Overwrite(t) ==
    LET job == task[t] IN
    /\ client = "running" /\ pc[t] = "overwrite"
    /\ self' = [h \in Handles |->
                  IF h = job.handle THEN Replacement(t)
                  ELSE IF job.act = "move" /\ h = job.from THEN NoRequest
                  ELSE self[h]]
    /\ pc' = [pc EXCEPT ![t] = "idle"]
    /\ task' = [task EXCEPT ![t] = NoTask]
    /\ UNCHANGED <<requestVars, client, answer, serverVars, historyVars>>

------------------------------------------------------------------------------
(* The wait callbacks.                                                      *)

Answered(r) == \A s \in responses[r] : answer[r][s] \in {"ok", "refused"}
Failed(r) == \E s \in responses[r] : answer[r][s] = "refused"

\* The callback of a collective call never assigns the value it reports.
ResultOf(r, v) == IF request[r].collective THEN v \in Values ELSE v = 0

\* Mutant: a collective call reports the last answer, whatever the others.
WaitReturnsEarly(t) ==
    LET r == Awaited(t) IN
    /\ client = "running" /\ pc[t] = "wait"
    /\ Answered(r)
    /\ responses[r] = {} \/ \E s \in responses[r] : answer[r][s] = "ok"
    /\ responses' = [responses EXCEPT ![r] = {}]
    /\ waited' = waited \cup {r}
    /\ \E v \in Values : ResultOf(r, v) /\ result' = [result EXCEPT ![r] = v]
    /\ pc' = [pc EXCEPT ![t] = IF task[t].act \in {"wait", "sync"} THEN "idle" ELSE "overwrite"]
    /\ task' = [task EXCEPT ![t] = IF @.act \in {"wait", "sync"} THEN NoTask ELSE @]
    /\ UNCHANGED <<self, request, thrown, client, answer, serverVars,
                   historyVars>>

WaitReturns(t) ==
    LET r == Awaited(t) IN
    /\ client = "running" /\ pc[t] = "wait"
    /\ Answered(r) /\ ~Failed(r)
    /\ responses' = [responses EXCEPT ![r] = {}]
    /\ waited' = waited \cup {r}
    /\ \E v \in Values : ResultOf(r, v) /\ result' = [result EXCEPT ![r] = v]
    /\ pc' = [pc EXCEPT ![t] = IF task[t].act \in {"wait", "sync"} THEN "idle" ELSE "overwrite"]
    /\ task' = [task EXCEPT ![t] = IF @.act \in {"wait", "sync"} THEN NoTask ELSE @]
    /\ UNCHANGED <<self, request, thrown, client, answer, serverVars,
                   historyVars>>

\* The exception leaves m_waited unset and the vector empty. It ends the
\* process in a destructor. Out of the assignment of a new request it unwinds
\* the call: the temporary does not wait, since the local holds the request
\* too, and the local frees it, answered or not.
WaitThrows(t) ==
    LET r == Awaited(t)
        job == task[t]
    IN  /\ client = "running" /\ pc[t] = "wait"
        /\ Answered(r) /\ Failed(r)
        /\ responses' = [responses EXCEPT ![r] = {}]
        /\ thrown' = thrown \cup {r}
        /\ abandoned' = IF job.act = "issue" THEN abandoned \cup {job.from} ELSE abandoned
        /\ client' = IF job.act = "drop" THEN "terminated" ELSE client
        /\ pc' = [pc EXCEPT ![t] = "idle"]
        /\ task' = [task EXCEPT ![t] = NoTask]
        /\ UNCHANGED <<self, request, waited, result, answer, serverVars, raced, clashed>>

------------------------------------------------------------------------------
(* Calls of a handle. One of PipelineHandle, or stage of                    *)
(* DistributedPipelineHandle, goes to one server; execute and cleanup of    *)
(* DistributedPipelineHandle go to all.                                     *)

Current == iteration[CHOOSE s \in Servers : TRUE]

CallsNow == {c \in Calls : /\ c.iteration = Current
                           /\ c.targets # {}
                           /\ IF c.collective
                              THEN c.op # "stage" /\ c.targets = Servers
                              ELSE \E s \in Servers : c.targets = {s}}

Send(r, c) ==
    /\ r \in Requests \ Issued
    /\ \A q \in Requests : q < r => q \in Issued
    /\ request' = [request EXCEPT ![r] = c]
    /\ responses' = [responses EXCEPT ![r] = c.targets]
    /\ answer' = [answer EXCEPT ![r] = [s \in Servers |-> IF s \in c.targets THEN "sent" ELSE "none"]]

\* The new request is moved into the variable the caller gave.
Issue(t, h) ==
    /\ Free(t) /\ ~InUse(t, h)
    /\ \E r \in Requests : \E c \in CallsNow : Send(r, c) /\ Replace(t, h, "issue", r)
    /\ UNCHANGED <<self, waited, thrown, result, serverVars, abandoned, clashed>>

\* Without a variable, the call waits for its answers.
CallAndWait(t) ==
    /\ Free(t)
    /\ \E r \in Requests :
         /\ \E c \in CallsNow : Send(r, c)
         /\ task' = [task EXCEPT ![t] = [act |-> "sync", handle |-> NoRequest, from |-> r]]
    /\ pc' = [pc EXCEPT ![t] = "wait"]
    /\ UNCHANGED <<self, waited, thrown, result, client, serverVars, historyVars>>

Accepts(s, hash, i) == /\ hash = Servers
                       /\ s \notin active
                       /\ ~(iteration[s] # 0 /\ iteration[s] >= i)

\* DistributedPipelineHandle::start has the hash of the group.
Start(t) ==
    /\ Free(t)
    /\ Current < MaxIteration
    /\ \A s \in Servers : Accepts(s, Servers, Current + 1)
    /\ active' = Servers
    /\ iteration' = [s \in Servers |-> Current + 1]
    /\ UNCHANGED <<self, requestVars, threadVars, answer, m_datasets, historyVars>>

\* PipelineHandle::start sends the hash 0, that of an empty group: a server
\* of a group refuses it.
StartOne(t, s) ==
    /\ Free(t)
    /\ Current < MaxIteration
    /\ IF Accepts(s, {}, Current + 1)
       THEN /\ active' = active \cup {s}
            /\ iteration' = [iteration EXCEPT ![s] = Current + 1]
       ELSE UNCHANGED <<active, iteration>>
    /\ UNCHANGED <<self, requestVars, threadVars, answer, m_datasets, historyVars>>

------------------------------------------------------------------------------
(* The servers: the checks of the provider, then the pipeline.              *)

Reply(r, s, a) == answer' = [answer EXCEPT ![r][s] = a]

Admitted(r, s) == s \in active /\ iteration[s] = request[r].iteration

Refuse(r, s) ==
    /\ answer[r][s] = "sent"
    /\ ~Admitted(r, s)
    /\ Reply(r, s, "refused")
    /\ UNCHANGED <<self, requestVars, threadVars, serverVars, historyVars>>

Staging(s, r, q) == /\ request[q].op = "stage" /\ answer[q][s] = "pulling"
                    /\ request[q].iteration = request[r].iteration
                    /\ request[q].block = request[r].block

Holds(s, i, b) == \E d \in m_datasets[s] : d.iteration = i /\ d.block = b

\* Mutant: the block is not looked for.
CheckBlockNot(r, s) ==
    /\ answer[r][s] = "sent" /\ request[r].op = "stage"
    /\ Admitted(r, s)
    /\ Reply(r, s, "pulling")
    /\ UNCHANGED <<self, requestVars, threadVars, serverVars, historyVars>>

\* DummyPipeline::stage looks for the block, pulls it without the mutex, and
\* stores it.
CheckBlock(r, s) ==
    LET others == {q \in Issued \ {r} : Staging(s, r, q)} IN
    /\ answer[r][s] = "sent" /\ request[r].op = "stage"
    /\ Admitted(r, s)
    /\ IF Holds(s, request[r].iteration, request[r].block)
       THEN Reply(r, s, "refused") /\ UNCHANGED clashed
       ELSE /\ Reply(r, s, "pulling")
            /\ clashed' = IF others = {} THEN clashed ELSE clashed \cup others \cup {r}
    /\ UNCHANGED <<self, requestVars, threadVars, serverVars, raced, abandoned>>

\* Mutant: a failure of the transfer is not reported.
StoreBlockAnyway(r, s) ==
    /\ answer[r][s] = "pulling"
    /\ m_datasets' \in {m_datasets,
                        [m_datasets EXCEPT ![s] = @ \cup
                           {[iteration |-> request[r].iteration, block |-> request[r].block,
                             size |-> ComputeDataSize(request[r].block)]}]}
    /\ Reply(r, s, "ok")
    /\ UNCHANGED <<self, requestVars, threadVars, active, iteration, historyVars>>

\* The memory is exposed as long as the request exists; a transfer may fail.
StoreBlock(r, s) ==
    /\ answer[r][s] = "pulling"
    /\ \/ /\ client = "running" /\ Holders(r) # {}
          /\ m_datasets' = [m_datasets EXCEPT ![s] = @ \cup
               {[iteration |-> request[r].iteration, block |-> request[r].block,
                 size |-> ComputeDataSize(request[r].block)]}]
          /\ Reply(r, s, "ok")
       \/ Reply(r, s, "refused") /\ UNCHANGED m_datasets
    /\ UNCHANGED <<self, requestVars, threadVars, active, iteration, historyVars>>

\* DummyPipeline::execute does nothing; cleanup erases the iteration.
Serve(r, s) ==
    /\ answer[r][s] = "sent" /\ request[r].op # "stage"
    /\ Admitted(r, s)
    /\ IF request[r].op = "execute"
       THEN UNCHANGED <<active, m_datasets>>
       ELSE /\ active' = active \ {s}
            /\ m_datasets' = [m_datasets EXCEPT
                                ![s] = {d \in @ : d.iteration # request[r].iteration}]
    /\ Reply(r, s, "ok")
    /\ UNCHANGED <<self, requestVars, threadVars, iteration, historyVars>>

------------------------------------------------------------------------------

Init ==
    /\ self = [h \in Handles |-> NoRequest]
    /\ request = [r \in Requests |-> Unused]
    /\ responses = [r \in Requests |-> {}]
    /\ waited = {} /\ thrown = {}
    /\ result = [r \in Requests |-> NoValue]
    /\ pc = [t \in Threads |-> "idle"]
    /\ task = [t \in Threads |-> NoTask]
    /\ client = "running"
    /\ answer = [r \in Requests |-> [s \in Servers |-> "none"]]
    /\ active = {}
    /\ iteration = [s \in Servers |-> 0]
    /\ m_datasets = [s \in Servers |-> {}]
    /\ raced = {} /\ abandoned = {} /\ clashed = {}

Program(t) ==
    \/ Start(t) \/ CallAndWait(t)
    \/ \E s \in Servers : StartOne(t, s)
    \/ \E h \in Handles : \/ Wait(t, h) \/ Drop(t, h) \/ Issue(t, h)
                          \/ \E g \in Handles, act \in {"copy", "move"} : Assign(t, h, g, act)

Continue(t) == Overwrite(t) \/ WaitReturns(t) \/ WaitThrows(t)

Respond(r, s) == Refuse(r, s) \/ CheckBlock(r, s) \/ StoreBlock(r, s) \/ Serve(r, s)

\* The program need not call anything, and may have ended.
Rest == /\ client = "running" => \A t \in Threads : pc[t] = "idle"
        /\ UNCHANGED vars

Next == \/ \E t \in Threads : Program(t) \/ Continue(t)
        \/ \E r \in Issued, s \in Servers : Respond(r, s)
        \/ Rest

Spec == Init /\ [][Next]_vars

------------------------------------------------------------------------------
(* Properties. *)

TypeOK ==
    /\ self \in [Handles -> Requests \cup {NoRequest}]
    /\ request \in [Requests -> Calls \cup {Unused}]
    /\ responses \in [Requests -> SUBSET Servers]
    /\ waited \subseteq Requests /\ thrown \subseteq Requests
    /\ result \in [Requests -> Values \cup {NoValue}]
    /\ pc \in [Threads -> {"idle", "wait", "overwrite"}]
    /\ task \in [Threads -> Tasks]
    /\ client = "running" => \A t \in Threads : pc[t] = "idle" <=> task[t] = NoTask
    /\ client \in {"running", "terminated", "undefined"}
    /\ answer \in [Requests -> [Servers -> Answers]]
    /\ active \subseteq Servers
    /\ iteration \in [Servers -> Iterations]
    /\ m_datasets \in [Servers -> SUBSET [iteration : Iterations, block : Blocks,
                                          size : {ComputeDataSize(b) : b \in Blocks}]]
    /\ raced \subseteq Requests /\ abandoned \subseteq Requests
    /\ clashed \subseteq Requests

InFlight(r) == \E s \in Servers : answer[r][s] \in {"sent", "pulling"}

(* A request on which servers still work has a copy that will wait for it,  *)
(* or a caller: the destructors and assignments never give the last one up, *)
(* unless two threads gave up the last two at once, or the call that made   *)
(* it threw the failure of the request its variable had.                    *)
OwnedWhileInFlight ==
    client = "running" =>
      \A r \in Issued \ (raced \cup abandoned) : InFlight(r) => Holders(r) # {}

(* A failure on any server reaches the program: a wait that ends normally,  *)
(* and none threw before it, means every server succeeded.                  *)
FailuresSurface ==
    \A r \in waited \ thrown : \A s \in request[r].targets : answer[r][s] = "ok"

(* A block whose stage was waited for without an exception is held by its   *)
(* server, with the result 0, while that iteration is active.               *)
StagedIsHeld ==
    \A r \in waited : request[r].op = "stage" =>
      /\ result[r] = 0
      /\ \A s \in request[r].targets :
           s \in active /\ iteration[s] = request[r].iteration
             => Holds(s, request[r].iteration, request[r].block)

(* "Block already exists for provided iteration, name, and id": one stage   *)
(* of a block succeeds, unless two were pulling it at the same time.        *)
OneStagePerBlock ==
    \A s \in Servers, r \in Issued, q \in Issued :
      /\ r # q /\ request[r].op = "stage" /\ request[q].op = "stage"
      /\ answer[r][s] = "ok" /\ answer[q][s] = "ok"
      /\ request[r].iteration = request[q].iteration
      /\ request[r].block = request[q].block
      => r \in clashed /\ q \in clashed

\* The number of bytes of a block, in integers without bound.
BytesOf(b) ==
    LET p[n \in 0..Len(Dimensions[b])] == IF n = 0 THEN 1 ELSE p[n - 1] * Dimensions[b][n]
    IN  ElementSize[b] * p[Len(Dimensions[b])]

(* A stored block is whole, whenever its size is one a size_t can hold.     *)
StoredWhole ==
    \A s \in Servers : \A d \in m_datasets[s] :
      BytesOf(d.block) < SizeBound => d.size = BytesOf(d.block)

==============================================================================
