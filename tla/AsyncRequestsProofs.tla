------------------------- MODULE AsyncRequestsProofs -------------------------
(* Theorems about AsyncRequests, for every value of its constants. *)
EXTENDS AsyncRequests, TLAPS

------------------------------------------------------------------------------
(* The inductive invariant. *)

\* Every variable has its type.
Typed ==
    /\ self \in [Handles -> Requests \cup {NoRequest}]
    /\ request \in [Requests -> Calls \cup {Unused}]
    /\ responses \in [Requests -> SUBSET Servers]
    /\ waited \subseteq Requests /\ thrown \subseteq Requests
    /\ result \in [Requests -> Values \cup {NoValue}]
    /\ pc \in [Threads -> {"idle", "wait", "overwrite"}]
    /\ task \in [Threads -> Tasks]
    /\ client \in {"running", "terminated", "undefined"}
    /\ answer \in [Requests -> [Servers -> Answers]]
    /\ active \subseteq Servers
    /\ iteration \in [Servers -> Iterations]
    /\ m_datasets \in [Servers -> SUBSET [iteration : Iterations, block : Blocks,
                                          size : {ComputeDataSize(b) : b \in Blocks}]]
    /\ raced \subseteq Requests /\ abandoned \subseteq Requests
    /\ clashed \subseteq Requests

\* A request that was issued, and how far its answers and its wait are.
Call(r) ==
    /\ request[r] \in Calls
    /\ request[r].targets # {}
    /\ request[r].op = "stage" => ~request[r].collective
    /\ responses[r] = IF r \in waited \cup thrown THEN {} ELSE request[r].targets
    /\ \A s \in Servers : /\ s \notin request[r].targets => answer[r][s] = "none"
                          /\ answer[r][s] = "pulling" => request[r].op = "stage"
    /\ r \in waited \cup thrown =>
         \A s \in request[r].targets : answer[r][s] \in {"ok", "refused"}
    /\ r \in waited \ thrown => \A s \in request[r].targets : answer[r][s] = "ok"
    /\ r \in waited /\ ~request[r].collective => r \notin thrown /\ result[r] = 0

CallsInv ==
    /\ \A r \in Issued : Call(r)
    /\ waited \subseteq Issued /\ thrown \subseteq Issued
    /\ \A r \in Requests \ Issued : \A s \in Servers : answer[r][s] = "none"

\* The control of a thread and the call it is in.
Job(t) ==
    LET act == task[t].act
        handle == task[t].handle
        from == task[t].from
    IN  /\ pc[t] = "idle" => task[t] = NoTask
        /\ pc[t] # "idle" => act # "none"
        /\ pc[t] = "overwrite" => act \in {"drop", "copy", "move", "issue"}
        /\ act = "sync" => pc[t] = "wait" /\ handle = NoRequest
        /\ act \in {"sync", "issue"} => from \in Issued \ (waited \cup thrown)
        /\ act \in {"wait", "drop", "copy", "move", "issue"} => handle \in Handles
        /\ act \in {"wait", "drop"} => from = NoRequest
        /\ act \in {"copy", "move"} => from \in Handles
        /\ pc[t] = "wait" /\ act # "sync" => self[handle] \in Issued
        /\ pc[t] = "wait" /\ act # "sync" /\ ~request[self[handle]].collective
              => self[handle] \notin waited \cup thrown

\* Two threads use different variables, a temporary is shared by nobody, and
\* no two threads wait for the same request.
Apart(t, u) ==
    /\ task[t].handle \in Handles => task[t].handle \notin {task[u].handle, task[u].from}
    /\ Temporary(t) # NoRequest => Temporary(t) # Temporary(u)
    /\ pc[t] = "wait" /\ pc[u] = "wait" => Awaited(t) # Awaited(u)

ThreadsInv ==
    /\ \A h \in Handles : self[h] \in Issued \cup {NoRequest}
    /\ client = "running" =>
         \A t \in Threads : /\ Job(t)
                            /\ \A h \in Handles : Temporary(t) # NoRequest => self[h] # Temporary(t)
                            /\ \A u \in Threads \ {t} : Apart(t, u)

\* A holder of r that no thread is about to take r from.
Keeps(x, r) ==
    /\ x \in Holders(r)
    /\ \A t \in Threads : pc[t] = "overwrite" => task[t].handle # x

OwnersInv ==
    client = "running" =>
      \A r \in Issued : InFlight(r) /\ r \notin raced \cup abandoned =>
        \E x \in Handles \cup Threads : Keeps(x, r)

\* The servers are in one iteration, the last; a block that was stored in it is
\* held until its cleanup; blocks that meet have clashed.
SameBlock(r, q) == /\ request[r].op = "stage" /\ request[q].op = "stage"
                   /\ request[r].iteration = request[q].iteration
                   /\ request[r].block = request[q].block

BlocksInv ==
    /\ \A s, v \in Servers : iteration[s] = iteration[v]
    /\ \A r \in Issued, s \in Servers : request[r].iteration <= iteration[s]
    /\ \A r \in Issued, s \in Servers :
         /\ request[r].op = "stage" /\ answer[r][s] = "ok"
         /\ s \in active /\ iteration[s] = request[r].iteration
         => Holds(s, request[r].iteration, request[r].block)
    /\ \A r, q \in Issued, s \in Servers :
         /\ r # q /\ SameBlock(r, q)
         /\ answer[r][s] \in {"pulling", "ok"} /\ answer[q][s] \in {"pulling", "ok"}
         => r \in clashed /\ q \in clashed

Inv == Typed /\ CallsInv /\ ThreadsInv /\ OwnersInv /\ BlocksInv

------------------------------------------------------------------------------
(* Types. *)

LEMMA InitTyped == Init => Typed
<1> SUFFICES ASSUME Init PROVE Typed
  OBVIOUS
<1> USE BoundsNat DEF Init, Requests, Iterations
<1>1. task \in [Threads -> Tasks]
  BY DEF NoTask, Tasks, Acts
<1>2. iteration \in [Servers -> Iterations]
  OBVIOUS
<1>3. answer \in [Requests -> [Servers -> Answers]]
  BY DEF Answers
<1> QED
  BY <1>1, <1>2, <1>3 DEF Typed

\* The steps of the servers change nothing of the program.
LEMMA RespondFacts ==
    ASSUME Typed, NEW r \in Requests, NEW s \in Servers, Respond(r, s)
    PROVE  /\ UNCHANGED <<self, requestVars, threadVars, iteration, raced, abandoned>>
           /\ \A q \in Requests, v \in Servers : q # r \/ v # s => answer'[q][v] = answer[q][v]
           /\ answer'[r][s] \in {"pulling", "ok", "refused"}
           /\ answer[r][s] \in {"sent", "pulling"}
           /\ answer'[r][s] = "pulling" => answer[r][s] = "sent" /\ request[r].op = "stage"
           /\ answer' \in [Requests -> [Servers -> Answers]]
<1> USE DEF Typed
<1>1. PICK a \in {"pulling", "ok", "refused"} :
        /\ answer' = [answer EXCEPT ![r][s] = a]
        /\ a = "pulling" => answer[r][s] = "sent" /\ request[r].op = "stage"
  BY DEF Respond, Refuse, CheckBlock, StoreBlock, Serve, Reply
<1>2. /\ \A q \in Requests, v \in Servers : q # r \/ v # s => answer'[q][v] = answer[q][v]
      /\ answer'[r][s] = a
  BY <1>1
<1>3. [answer[r] EXCEPT ![s] = a] \in [Servers -> Answers]
  BY DEF Answers
<1>4. answer' \in [Requests -> [Servers -> Answers]]
  BY <1>1, <1>3
<1>5. answer[r][s] \in {"sent", "pulling"}
  BY DEF Respond, Refuse, CheckBlock, StoreBlock, Serve
<1>6. UNCHANGED <<self, requestVars, threadVars, iteration, raced, abandoned>>
  BY DEF Respond, Refuse, CheckBlock, StoreBlock, Serve, serverVars, historyVars
<1> QED
  BY <1>1, <1>2, <1>4, <1>5, <1>6

LEMMA RespondTyped ==
    ASSUME Typed, NEW r \in Issued, NEW s \in Servers, Respond(r, s)
    PROVE  Typed'
<1> r \in Requests /\ Issued \subseteq Requests
  BY DEF Issued
<1>1. /\ UNCHANGED <<self, requestVars, threadVars, iteration, raced, abandoned>>
      /\ answer' \in [Requests -> [Servers -> Answers]]
  BY RespondFacts
<1>2. active' \subseteq Servers
  BY DEF Respond, Refuse, CheckBlock, StoreBlock, Serve, serverVars, Typed
<1>3. clashed' \subseteq Requests
  BY DEF Respond, Refuse, CheckBlock, StoreBlock, Serve, historyVars, Typed
<1> DEFINE Stored == [iteration : Iterations, block : Blocks,
                      size : {ComputeDataSize(b) : b \in Blocks}]
           d == [iteration |-> request[r].iteration, block |-> request[r].block,
                 size |-> ComputeDataSize(request[r].block)]
<1>4. d \in Stored
  <2>1. request[r] \in Calls
    BY DEF Issued, Typed
  <2>2. request[r].iteration \in Iterations /\ request[r].block \in Blocks
    BY <2>1 DEF Calls
  <2> QED
    BY <2>2
<1>5. m_datasets' \in [Servers -> SUBSET Stored]
  <2>0. m_datasets \in [Servers -> SUBSET Stored]
    BY DEF Typed
  <2>1. \/ m_datasets' = m_datasets
        \/ m_datasets' = [m_datasets EXCEPT ![s] = @ \cup {d}]
        \/ m_datasets' = [m_datasets EXCEPT ![s] = {e \in @ : e.iteration # request[r].iteration}]
    BY DEF Respond, Refuse, CheckBlock, StoreBlock, Serve, serverVars
  <2>2. m_datasets[s] \cup {d} \in SUBSET Stored
    BY <1>4, <2>0
  <2>3. {e \in m_datasets[s] : e.iteration # request[r].iteration} \in SUBSET Stored
    BY <2>0
  <2> HIDE DEF Stored, d
  <2> QED
    BY <2>0, <2>1, <2>2, <2>3
<1> QED
  BY <1>1, <1>2, <1>3, <1>5 DEF Typed, requestVars, threadVars

LEMMA EnterCallbackTyped ==
    ASSUME Typed, NEW t \in Threads, NEW r, EnterCallback(t, r)
    PROVE  /\ pc' \in [Threads -> {"idle", "wait", "overwrite"}]
           /\ client' \in {"running", "terminated", "undefined"}
  BY DEF EnterCallback, Typed

LEMMA ReplaceTyped ==
    ASSUME Typed, NEW t \in Threads, NEW h \in Handles,
           NEW act \in {"drop", "copy", "move", "issue"},
           NEW from \in Handles \cup Requests \cup {NoRequest}, Replace(t, h, act, from)
    PROVE  /\ pc' \in [Threads -> {"idle", "wait", "overwrite"}]
           /\ task' \in [Threads -> Tasks]
           /\ client' \in {"running", "terminated", "undefined"}
           /\ raced' \subseteq Requests
<1> USE DEF Typed
<1>1. [act |-> act, handle |-> h, from |-> from] \in Tasks
  BY DEF Tasks, Acts
<1>2. task' \in [Threads -> Tasks]
  BY <1>1 DEF Replace
<1>3. raced' \subseteq Requests
  BY DEF Replace
<1>4. CASE EnterCallback(t, self[h])
  BY <1>2, <1>3, <1>4, EnterCallbackTyped
<1>5. CASE ~EnterCallback(t, self[h])
  BY <1>2, <1>3, <1>5 DEF Replace
<1> QED
  BY <1>4, <1>5

LEMMA SendTyped ==
    ASSUME Typed, NEW r \in Requests, NEW c \in CallsNow, Send(r, c)
    PROVE  /\ request' \in [Requests -> Calls \cup {Unused}]
           /\ responses' \in [Requests -> SUBSET Servers]
           /\ answer' \in [Requests -> [Servers -> Answers]]
<1> USE DEF Typed
<1>1. c \in Calls /\ c.targets \subseteq Servers
  BY DEF CallsNow, Calls
<1>2. [s \in Servers |-> IF s \in c.targets THEN "sent" ELSE "none"] \in [Servers -> Answers]
  BY DEF Answers
<1> QED
  BY <1>1, <1>2 DEF Send

LEMMA ProgramTyped ==
    ASSUME Typed, NEW t \in Threads, Program(t)
    PROVE  Typed'
<1>1. ASSUME Start(t) \/ \E s \in Servers : StartOne(t, s) PROVE Typed'
  <2>0. \A s \in Servers : iteration[s] \in Iterations
    BY DEF Typed
  <2>1. Current \in Nat /\ (Current < MaxIteration => Current + 1 \in Iterations)
    <3>1. Current \in Iterations
      BY <2>0, ServersExist DEF Current
    <3> HIDE DEF Current
    <3> QED
      BY <3>1, BoundsNat DEF Iterations
  <2> HIDE DEF Current
  <2>2. iteration' \in [Servers -> Iterations] /\ active' \subseteq Servers
    BY <1>1, <2>1 DEF Start, StartOne, Typed
  <2> QED
    BY <1>1, <2>2 DEF Start, StartOne, Typed, requestVars, threadVars, historyVars
<1>2. ASSUME NEW h \in Handles, Wait(t, h) PROVE Typed'
  <2>1. [act |-> "wait", handle |-> h, from |-> NoRequest] \in Tasks
    BY DEF Tasks, Acts
  <2>2. task' \in [Threads -> Tasks]
    BY <1>2, <2>1 DEF Wait, Typed
  <2> QED
    BY <1>2, <2>2, EnterCallbackTyped DEF Wait, Typed, requestVars, serverVars, historyVars
<1>3. ASSUME NEW h \in Handles, Drop(t, h) PROVE Typed'
  BY <1>3, ReplaceTyped DEF Drop, Typed, requestVars, serverVars
<1>4. ASSUME NEW h \in Handles, NEW g \in Handles, NEW act \in {"copy", "move"},
             Assign(t, h, g, act)
      PROVE  Typed'
  BY <1>4, ReplaceTyped DEF Assign, Typed, requestVars, serverVars
<1>5. ASSUME NEW h \in Handles, Issue(t, h) PROVE Typed'
  <2>1. PICK r \in Requests, c \in CallsNow : Send(r, c) /\ Replace(t, h, "issue", r)
    BY <1>5 DEF Issue
  <2>2. /\ pc' \in [Threads -> {"idle", "wait", "overwrite"}]
        /\ task' \in [Threads -> Tasks]
        /\ client' \in {"running", "terminated", "undefined"}
        /\ raced' \subseteq Requests
    BY <2>1, ReplaceTyped
  <2>3. /\ request' \in [Requests -> Calls \cup {Unused}]
        /\ responses' \in [Requests -> SUBSET Servers]
        /\ answer' \in [Requests -> [Servers -> Answers]]
    BY <2>1, SendTyped
  <2> QED
    BY <1>5, <2>2, <2>3 DEF Issue, Typed, serverVars
<1>6. ASSUME CallAndWait(t) PROVE Typed'
  <2>1. PICK r \in Requests, c \in CallsNow :
          /\ Send(r, c)
          /\ task' = [task EXCEPT ![t] = [act |-> "sync", handle |-> NoRequest, from |-> r]]
    BY <1>6 DEF CallAndWait
  <2>2. [act |-> "sync", handle |-> NoRequest, from |-> r] \in Tasks
    BY DEF Tasks, Acts
  <2>3. task' \in [Threads -> Tasks]
    BY <2>1, <2>2 DEF Typed
  <2>4. /\ request' \in [Requests -> Calls \cup {Unused}]
        /\ responses' \in [Requests -> SUBSET Servers]
        /\ answer' \in [Requests -> [Servers -> Answers]]
    BY <2>1, SendTyped
  <2> QED
    BY <1>6, <2>3, <2>4 DEF CallAndWait, Typed, serverVars, historyVars
<1> QED
  BY <1>1, <1>2, <1>3, <1>4, <1>5, <1>6 DEF Program

LEMMA NoTaskIsTask == NoTask \in Tasks
  BY DEF NoTask, Tasks, Acts

LEMMA ContinueTyped ==
    ASSUME Typed, ThreadsInv, NEW t \in Threads, Continue(t)
    PROVE  Typed'
<1> USE DEF Typed
<1>1. CASE Overwrite(t)
  <2>1. Job(t) /\ pc[t] = "overwrite" /\ client = "running"
    BY <1>1 DEF Overwrite, ThreadsInv
  <2>2. Replacement(t) \in Requests \cup {NoRequest}
    BY <2>1 DEF Replacement, Job, Issued
  <2> HIDE DEF Replacement
  <2>3. self' \in [Handles -> Requests \cup {NoRequest}]
    BY <1>1, <2>2 DEF Overwrite
  <2> QED
    BY <1>1, <2>3, NoTaskIsTask DEF Overwrite, requestVars, serverVars, historyVars
<1>2. ASSUME NEW r, UNCHANGED <<self, request, answer, serverVars, raced, clashed>>,
             abandoned' \subseteq Requests,
             responses' = responses \/ responses' = [responses EXCEPT ![r] = {}],
             waited' = waited \/ waited' = waited \cup {r},
             thrown' = thrown \/ thrown' = thrown \cup {r},
             r \in Requests,
             \/ result' = result
             \/ \E v \in Values : result' = [result EXCEPT ![r] = v],
             pc' \in [Threads -> {"idle", "wait", "overwrite"}],
             task' \in [Threads -> Tasks],
             client' \in {"running", "terminated"}
      PROVE  Typed'
  <2>1. UNCHANGED <<self, request, answer, active, iteration, m_datasets, raced, clashed>>
    BY <1>2 DEF serverVars
  <2>2. /\ responses' \in [Requests -> SUBSET Servers]
        /\ waited' \subseteq Requests /\ thrown' \subseteq Requests
    BY <1>2
  <2>3. result' \in [Requests -> Values \cup {NoValue}]
    BY <1>2
  <2> QED
    BY <1>2, <2>1, <2>2, <2>3
<1> DEFINE r == Awaited(t)
<1>3. ASSUME pc[t] = "wait", client = "running" PROVE r \in Requests
  BY <1>3 DEF Awaited, ThreadsInv, Job, Issued
<1>4. CASE WaitReturns(t)
  <2>1. r \in Requests
    BY <1>3, <1>4 DEF WaitReturns
  <2>2. /\ pc' \in [Threads -> {"idle", "wait", "overwrite"}]
        /\ task' \in [Threads -> Tasks]
    BY <1>4, NoTaskIsTask DEF WaitReturns
  <2> HIDE DEF r
  <2>3. \E v \in Values : result' = [result EXCEPT ![r] = v]
    BY <1>4 DEF WaitReturns, r
  <2>4. /\ UNCHANGED <<self, request, thrown, client, answer, serverVars, historyVars>>
        /\ client = "running"
        /\ responses' = [responses EXCEPT ![r] = {}] /\ waited' = waited \cup {r}
    BY <1>4 DEF WaitReturns, r
  <2>5. UNCHANGED <<raced, clashed>> /\ abandoned' \subseteq Requests
    BY <2>4 DEF historyVars
  <2> QED
    BY <1>2, <2>1, <2>2, <2>3, <2>4, <2>5
<1>5. CASE WaitThrows(t)
  <2>1. r \in Requests
    BY <1>3, <1>5 DEF WaitThrows
  <2>2. /\ pc' \in [Threads -> {"idle", "wait", "overwrite"}]
        /\ task' \in [Threads -> Tasks]
    BY <1>5, NoTaskIsTask DEF WaitThrows
  <2>3. abandoned' \subseteq Requests
    <3>1. Job(t) /\ (task[t].act = "issue" => task[t].from \in Requests)
      BY <1>5 DEF WaitThrows, ThreadsInv, Job, Issued
    <3> QED
      BY <1>5, <3>1 DEF WaitThrows
  <2> HIDE DEF r
  <2>4. /\ UNCHANGED <<self, request, answer, serverVars, raced, clashed>>
        /\ client' \in {"running", "terminated"} /\ UNCHANGED <<waited, result>>
        /\ responses' = [responses EXCEPT ![r] = {}] /\ thrown' = thrown \cup {r}
    BY <1>5 DEF WaitThrows, r
  <2> QED
    BY <1>2, <2>1, <2>2, <2>3, <2>4
<1> QED
  BY <1>1, <1>4, <1>5 DEF Continue

------------------------------------------------------------------------------
(* A step is one of these. *)

Steps == \/ \E t \in Threads : Program(t) \/ Continue(t)
         \/ \E r \in Issued, s \in Servers : Respond(r, s)
         \/ UNCHANGED vars

LEMMA NextIsStep == [Next]_vars => Steps
  BY DEF Next, Rest, Steps

\* The request a thread waits for was issued; unless the call is collective,
\* nobody has waited for it yet.
LEMMA AwaitedIssued ==
    ASSUME ThreadsInv, NEW t \in Threads, client = "running", pc[t] = "wait"
    PROVE  /\ Awaited(t) \in Issued
           /\ ~request[Awaited(t)].collective => Awaited(t) \notin waited \cup thrown
           /\ task[t].act \in {"sync", "issue"} /\ Awaited(t) = task[t].from
                => Awaited(t) \notin waited \cup thrown
<1>1. Job(t)
  BY DEF ThreadsInv
<1> QED
  BY <1>1 DEF Job, Awaited

LEMMA SendFacts ==
    ASSUME Typed, NEW r \in Requests, NEW c \in CallsNow, Send(r, c)
    PROVE  /\ r \notin Issued /\ Issued' = Issued \cup {r}
           /\ request'[r] = c /\ responses'[r] = c.targets
           /\ \A s \in Servers : answer'[r][s] = IF s \in c.targets THEN "sent" ELSE "none"
           /\ \A q \in Requests : q # r => /\ request'[q] = request[q]
                                           /\ responses'[q] = responses[q]
                                           /\ answer'[q] = answer[q]
           /\ c \in Calls /\ c.targets # {} /\ (c.op = "stage" => ~c.collective)
           /\ c.iteration = Current
<1>1. c \in Calls /\ c.targets # {} /\ (c.op = "stage" => ~c.collective) /\ c.iteration = Current
  BY DEF CallsNow
<1>2. c # Unused
  <2>1. c.op # "none"
    BY <1>1 DEF Calls, Ops
  <2> QED
    BY <2>1 DEF Unused
<1>3. r \notin Issued /\ request' = [request EXCEPT ![r] = c]
  BY DEF Send
<1>4. Issued' = Issued \cup {r}
  BY <1>2, <1>3 DEF Issued, Typed, Requests
<1>5. /\ responses'[r] = c.targets
      /\ \A s \in Servers : answer'[r][s] = IF s \in c.targets THEN "sent" ELSE "none"
      /\ \A q \in Requests : q # r => /\ request'[q] = request[q]
                                      /\ responses'[q] = responses[q]
                                      /\ answer'[q] = answer[q]
  BY DEF Send, Typed
<1>6. request'[r] = c
  BY <1>3 DEF Typed
<1> QED
  BY <1>1, <1>3, <1>4, <1>5, <1>6

------------------------------------------------------------------------------
(* Calls. *)

LEMMA SameCalls ==
    ASSUME CallsInv, UNCHANGED <<requestVars, answer>>
    PROVE  CallsInv'
<1>1. UNCHANGED <<request, responses, waited, thrown, result, answer>>
  BY DEF requestVars
<1> QED
  BY <1>1 DEF CallsInv, Issued, Call

LEMMA RespondCalls ==
    ASSUME Typed, CallsInv, NEW r \in Issued, NEW s \in Servers, Respond(r, s)
    PROVE  CallsInv'
<1> r \in Requests /\ Issued \subseteq Requests
  BY DEF Issued
<1>1. /\ UNCHANGED requestVars
      /\ \A q \in Requests, v \in Servers : q # r \/ v # s => answer'[q][v] = answer[q][v]
      /\ answer'[r][s] \in {"pulling", "ok", "refused"}
      /\ answer[r][s] \in {"sent", "pulling"}
      /\ answer'[r][s] = "pulling" => request[r].op = "stage"
  BY RespondFacts
<1>2. UNCHANGED <<request, responses, waited, thrown, result>> /\ Issued' = Issued
  BY <1>1 DEF requestVars, Issued
<1>3. ASSUME NEW q \in Issued PROVE Call(q)'
  <2>0. Call(q)
    BY DEF CallsInv
  <2>1. CASE q # r
    <3>1. \A v \in Servers : answer'[q][v] = answer[q][v]
      BY <1>1, <2>1
    <3> QED
      BY <1>2, <2>0, <3>1 DEF Call, Calls
  <2>2. CASE q = r
    <3>1. s \in request[r].targets /\ r \notin waited \cup thrown
      BY <1>1, <2>0, <2>2 DEF Call
    <3> QED
      BY <1>1, <1>2, <2>0, <2>2, <3>1 DEF Call
  <2> QED
    BY <2>1, <2>2
<1>4. \A q \in Requests \ Issued : \A v \in Servers : answer'[q][v] = "none"
  BY <1>1 DEF CallsInv
<1> QED
  BY <1>2, <1>3, <1>4 DEF CallsInv

LEMMA SendCalls ==
    ASSUME Typed, CallsInv, NEW r \in Requests, NEW c \in CallsNow, Send(r, c),
           UNCHANGED <<waited, thrown, result>>
    PROVE  CallsInv'
<1>1. /\ r \notin Issued /\ Issued' = Issued \cup {r}
      /\ request'[r] = c /\ responses'[r] = c.targets
      /\ \A s \in Servers : answer'[r][s] = IF s \in c.targets THEN "sent" ELSE "none"
      /\ \A q \in Requests : q # r => /\ request'[q] = request[q]
                                      /\ responses'[q] = responses[q]
                                      /\ answer'[q] = answer[q]
      /\ c \in Calls /\ c.targets # {} /\ (c.op = "stage" => ~c.collective)
  BY SendFacts
<1>2. r \notin waited \cup thrown
  BY <1>1 DEF CallsInv
<1>3. Call(r)'
  BY <1>1, <1>2 DEF Call
<1>4. ASSUME NEW q \in Issued PROVE Call(q)'
  <2>1. q \in Requests /\ q # r /\ Call(q)
    BY <1>1 DEF Issued, CallsInv
  <2>2. request'[q] = request[q] /\ responses'[q] = responses[q] /\ answer'[q] = answer[q]
    BY <1>1, <2>1
  <2> QED
    BY <2>1, <2>2 DEF Call
<1>5. \A q \in Requests \ Issued' : \A s \in Servers : answer'[q][s] = "none"
  BY <1>1 DEF CallsInv
<1> QED
  BY <1>1, <1>3, <1>4, <1>5 DEF CallsInv

\* The end of a wait for r: it returned, it threw, or both (the destructor of
\* the temporary of a collective call).
LEMMA WaitCalls ==
    ASSUME Typed, CallsInv, NEW r \in Issued, Answered(r),
           UNCHANGED <<request, answer>>,
           responses' = [responses EXCEPT ![r] = {}],
           waited' \in {waited, waited \cup {r}}, thrown' \in {thrown, thrown \cup {r}},
           r \in waited' \cup thrown',
           \A q \in Requests : q # r => result'[q] = result[q],
           r \in waited' \ thrown' /\ r \notin waited \cup thrown => ~Failed(r),
           r \in waited' /\ ~request[r].collective
             => r \notin thrown' /\ result'[r] = 0
    PROVE  CallsInv'
<1> Issued \subseteq Requests
  BY DEF Issued
<1>1. Issued' = Issued
  BY DEF Issued
<1>2. ASSUME NEW q \in Issued PROVE Call(q)'
  <2>0. Call(q)
    BY DEF CallsInv
  <2>1. CASE q # r
    <3>1. /\ responses'[q] = responses[q] /\ result'[q] = result[q]
          /\ q \in waited' <=> q \in waited
          /\ q \in thrown' <=> q \in thrown
      BY <2>1 DEF Typed
    <3> QED
      BY <2>0, <3>1 DEF Call
  <2>2. CASE q = r
    <3>1. responses'[q] = {}
      BY <2>2 DEF Typed
    <3>2. \A s \in request[q].targets : answer[q][s] \in {"ok", "refused"}
      BY <2>0, <2>2 DEF Call, Answered
    <3>3. q \in waited' \ thrown' => \A s \in request[q].targets : answer[q][s] = "ok"
      <4>1. CASE q \in waited \cup thrown
        BY <2>0, <2>2, <4>1 DEF Call
      <4>2. CASE q \notin waited \cup thrown
        BY <2>0, <2>2, <3>2, <4>2 DEF Call, Failed
      <4> QED
        BY <4>1, <4>2
    <3> QED
      BY <2>0, <2>2, <3>1, <3>2, <3>3 DEF Call
  <2> QED
    BY <2>1, <2>2
<1> QED
  BY <1>1, <1>2 DEF CallsInv

LEMMA ProgramCalls ==
    ASSUME Typed, CallsInv, NEW t \in Threads, Program(t)
    PROVE  CallsInv'
<1>1. CASE UNCHANGED <<requestVars, answer>>
  BY <1>1, SameCalls
<1>2. ASSUME NEW r \in Requests, NEW c \in CallsNow, Send(r, c),
             UNCHANGED <<waited, thrown, result>>
      PROVE  CallsInv'
  BY <1>2, SendCalls
<1>3. \/ UNCHANGED <<requestVars, answer>>
      \/ \E r \in Requests, c \in CallsNow : Send(r, c) /\ UNCHANGED <<waited, thrown, result>>
  BY DEF Program, Start, StartOne, Wait, Drop, Assign, Issue, CallAndWait
<1> QED
  BY <1>1, <1>2, <1>3

LEMMA ContinueCalls ==
    ASSUME Typed, CallsInv, ThreadsInv, NEW t \in Threads, Continue(t)
    PROVE  CallsInv'
<1> DEFINE r == Awaited(t)
<1>1. CASE Overwrite(t)
  BY <1>1, SameCalls DEF Overwrite
<1>2. ASSUME client = "running", pc[t] = "wait"
      PROVE  /\ r \in Issued
             /\ ~request[r].collective => r \notin waited \cup thrown
  BY <1>2, AwaitedIssued
<1>3. ASSUME NEW v \in Values, result' = [result EXCEPT ![r] = v]
      PROVE  \A q \in Requests : q # r => result'[q] = result[q]
  BY <1>3 DEF Typed
<1>4. CASE WaitReturns(t)
  <2>1. /\ client = "running" /\ pc[t] = "wait" /\ Answered(r) /\ ~Failed(r)
        /\ responses' = [responses EXCEPT ![r] = {}] /\ waited' = waited \cup {r}
        /\ UNCHANGED <<request, thrown, answer>>
    BY <1>4 DEF WaitReturns
  <2>2. PICK v \in Values : ResultOf(r, v) /\ result' = [result EXCEPT ![r] = v]
    BY <1>4 DEF WaitReturns
  <2>3. /\ r \in Issued /\ (~request[r].collective => r \notin waited \cup thrown)
    BY <1>2, <2>1
  <2>4. \A q \in Requests : q # r => result'[q] = result[q]
    BY <1>3, <2>2
  <2> HIDE DEF r
  <2>5. ~request[r].collective => result'[r] = 0
    BY <2>2, <2>3 DEF ResultOf, Typed, Issued
  <2>6. r \in waited' \cup thrown' /\ (r \in waited' \ thrown' => ~Failed(r))
    BY <2>1
  <2>7. ~request[r].collective => r \notin thrown'
    BY <2>1, <2>3
  <2> QED
    BY <2>1, <2>3, <2>4, <2>5, <2>6, <2>7, WaitCalls
<1>5. CASE WaitThrows(t)
  <2>1. /\ client = "running" /\ pc[t] = "wait" /\ Answered(r)
        /\ responses' = [responses EXCEPT ![r] = {}] /\ thrown' = thrown \cup {r}
        /\ UNCHANGED <<request, waited, result, answer>>
    BY <1>5 DEF WaitThrows
  <2>3. /\ r \in Issued /\ (~request[r].collective => r \notin waited \cup thrown)
    BY <1>2, <2>1
  <2>4. \A q \in Requests : q # r => result'[q] = result[q]
    BY <2>1
  <2> HIDE DEF r
  <2>5. waited' \in {waited, waited \cup {r}} /\ thrown' \in {thrown, thrown \cup {r}}
    BY <2>1
  <2>6. r \in waited' \cup thrown' /\ r \notin waited' \ thrown'
    BY <2>1
  <2>7. ~(r \in waited' /\ ~request[r].collective)
    BY <2>1, <2>3
  <2> QED
    BY <2>1, <2>3, <2>4, <2>5, <2>6, <2>7, WaitCalls
<1> QED
  BY <1>1, <1>4, <1>5 DEF Continue

------------------------------------------------------------------------------
(* Threads. *)

LEMMA SameThreads ==
    ASSUME ThreadsInv, UNCHANGED <<self, requestVars, threadVars>>
    PROVE  ThreadsInv'
<1>1. UNCHANGED <<self, request, responses, waited, thrown, result, pc, task, client>>
  BY DEF requestVars, threadVars
<1>2. Issued' = Issued
  BY <1>1 DEF Issued
<1>3. \A t \in Threads : /\ Job(t)' <=> Job(t)
                         /\ Temporary(t)' = Temporary(t)
                         /\ Awaited(t)' = Awaited(t)
  BY <1>1, <1>2 DEF Job, Temporary, Awaited
<1> QED
  BY <1>1, <1>2, <1>3 DEF ThreadsInv, Apart

\* Nobody waits for the temporary of another thread.
LEMMA TemporaryAwaited ==
    ASSUME Typed, ThreadsInv, client = "running", NEW t \in Threads, NEW u \in Threads \ {t},
           Temporary(t) # NoRequest, pc[u] = "wait"
    PROVE  Awaited(u) # Temporary(t)
<1>1. Job(u) /\ Apart(t, u) /\ \A h \in Handles : self[h] # Temporary(t)
  BY DEF ThreadsInv
<1>2. task[u].act \in Acts
  BY DEF Typed, Tasks
<1>3. CASE task[u].act = "sync"
  <2>1. Awaited(u) = task[u].from /\ task[u].act \in {"issue", "sync"}
    BY <1>1, <1>3 DEF Awaited, Job
  <2> QED
    BY <1>1, <2>1 DEF Temporary, Apart
<1>4. CASE task[u].act # "sync"
  <2>1. task[u].handle \in Handles /\ Awaited(u) = self[task[u].handle]
    BY <1>1, <1>2, <1>4 DEF Awaited, Job, Acts
  <2> QED
    BY <1>1, <2>1
<1> QED
  BY <1>3, <1>4

\* A thread begins a call.
LEMMA BeginThreads ==
    ASSUME Typed, ThreadsInv, NEW t \in Threads, Free(t),
           UNCHANGED <<self, waited, thrown>>,
           Issued \subseteq Issued', \A q \in Issued : request'[q] = request[q],
           NEW job \in Tasks, task' = [task EXCEPT ![t] = job],
           NEW p, pc' = [pc EXCEPT ![t] = p],
           Job(t)',
           Temporary(t)' # NoRequest => Temporary(t)' \notin Issued,
           job.handle \in Handles => ~InUse(t, job.handle),
           job.from \in Handles => ~InUse(t, job.from),
           p \in {"wait", "overwrite"},
           p = "wait" => Awaited(t)' \notin Issued \/ ~Waiting(Awaited(t)')
    PROVE  ThreadsInv'
<1>0. client = "running"
  BY DEF Free
<1>1. \A h \in Handles : self'[h] \in Issued' \cup {NoRequest}
  BY DEF ThreadsInv
<1>2. pc'[t] = p /\ task'[t] = job
  BY DEF Typed
<1>3. ASSUME NEW u \in Threads \ {t}
      PROVE  /\ pc'[u] = pc[u] /\ task'[u] = task[u]
             /\ Temporary(u)' = Temporary(u) /\ Awaited(u)' = Awaited(u)
             /\ Job(u) /\ Job(u)'
             /\ Temporary(u) \in Issued \cup {NoRequest}
  <2>1. pc'[u] = pc[u] /\ task'[u] = task[u]
    BY DEF Typed
  <2>2. Temporary(u)' = Temporary(u) /\ Awaited(u)' = Awaited(u)
    BY <2>1 DEF Temporary, Awaited
  <2>3. Job(u)
    BY <1>0 DEF ThreadsInv
  <2>4. Job(u)'
    BY <2>1, <2>3 DEF Job
  <2>5. Temporary(u) \in Issued \cup {NoRequest}
    BY <2>3 DEF Temporary, Job
  <2> QED
    BY <2>1, <2>2, <2>3, <2>4, <2>5
<1>4. NoRequest \notin Handles /\ NoRequest \notin Issued /\ Requests \cap Handles = {}
  BY NamesDistinct DEF Issued, Requests
<1>5. \A u \in Threads, h \in Handles : Temporary(u)' # NoRequest => self'[h] # Temporary(u)'
  <2>1. ASSUME NEW h \in Handles, Temporary(t)' # NoRequest PROVE self'[h] # Temporary(t)'
    BY <2>1 DEF ThreadsInv
  <2>2. ASSUME NEW u \in Threads \ {t}, NEW h \in Handles, Temporary(u)' # NoRequest
        PROVE  self'[h] # Temporary(u)'
    BY <1>0, <1>3, <2>2 DEF ThreadsInv
  <2> QED
    BY <2>1, <2>2
<1>6. ASSUME NEW u \in Threads \ {t} PROVE Apart(t, u)' /\ Apart(u, t)'
  <2>1. job.handle \in Handles => job.handle \notin {task[u].handle, task[u].from}
    BY DEF InUse
  <2>2. task[u].handle \in Handles => task[u].handle \notin {job.handle, job.from}
    BY DEF InUse
  <2>3. Temporary(t)' # NoRequest => Temporary(t)' # Temporary(u)
    BY <1>3
  <2>4. p = "wait" /\ pc[u] = "wait" => Awaited(t)' # Awaited(u)
    <3>1. pc[u] = "wait" => Awaited(u) \in Issued
      BY <1>0, AwaitedIssued
    <3> QED
      BY <3>1 DEF Waiting
  <2> QED
    BY <1>2, <1>3, <2>1, <2>2, <2>3, <2>4 DEF Apart
<1>7. ASSUME NEW u \in Threads \ {t}, NEW v \in Threads \ {u, t} PROVE Apart(u, v)'
  <2>1. Apart(u, v)
    BY <1>0 DEF ThreadsInv
  <2>2. /\ pc'[u] = pc[u] /\ task'[u] = task[u] /\ pc'[v] = pc[v] /\ task'[v] = task[v]
        /\ Temporary(u)' = Temporary(u) /\ Awaited(u)' = Awaited(u)
        /\ Temporary(v)' = Temporary(v) /\ Awaited(v)' = Awaited(v)
    BY <1>3
  <2> QED
    BY <2>1, <2>2 DEF Apart
<1>8. \A u \in Threads : \A v \in Threads \ {u} : Apart(u, v)'
  BY <1>6, <1>7
<1> QED
  BY <1>1, <1>3, <1>5, <1>8 DEF ThreadsInv

LEMMA EnterFacts ==
    ASSUME Typed, CallsInv, NEW t \in Threads, NEW r \in Issued, EnterCallback(t, r),
           client = "running", client' = "running"
    PROVE  /\ pc' = [pc EXCEPT ![t] = "wait"]
           /\ ~Waiting(r)
           /\ ~request[r].collective => r \notin waited \cup thrown
<1>1. pc' = [pc EXCEPT ![t] = "wait"] /\ ~Waiting(r)
  BY DEF EnterCallback
<1>2. ~request[r].collective => responses[r] # {}
  BY DEF EnterCallback
<1>3. Call(r)
  BY DEF CallsInv
<1> QED
  BY <1>1, <1>2, <1>3 DEF Call

LEMMA ReplaceThreads ==
    ASSUME Typed, CallsInv, ThreadsInv, NEW t \in Threads, Free(t),
           NEW h \in Handles, ~InUse(t, h), NEW act \in {"drop", "copy", "move", "issue"},
           NEW from \in Handles \cup Requests \cup {NoRequest}, Replace(t, h, act, from),
           UNCHANGED <<self, waited, thrown>>,
           Issued \subseteq Issued', \A q \in Issued : request'[q] = request[q],
           act = "drop" => from = NoRequest,
           act \in {"copy", "move"} => from \in Handles /\ ~InUse(t, from),
           act = "issue" => from \in Issued' \ Issued,
           client' = "running"
    PROVE  ThreadsInv'
<1> DEFINE job == [act |-> act, handle |-> h, from |-> from]
<1>1. job \in Tasks
  BY DEF Tasks, Acts
<1>2. task' = [task EXCEPT ![t] = job]
  BY DEF Replace
<1>3. /\ client = "running"
      /\ self[h] \in Issued \cup {NoRequest}
      /\ self[h] # NoRequest => self[h] \in Issued
  BY DEF Free, ThreadsInv
<1>4. NoRequest \notin Handles /\ NoRequest \notin Issued /\ Issued' \cap Handles = {}
  BY NamesDistinct DEF Issued, Requests
<1>5. PICK p \in {"wait", "overwrite"} :
        /\ pc' = [pc EXCEPT ![t] = p]
        /\ p = "wait" => /\ self[h] \in Issued /\ ~Waiting(self[h])
                         /\ ~request[self[h]].collective => self[h] \notin waited \cup thrown
  <2>1. CASE self[h] # NoRequest /\ Unique(self[h]) /\ self[h] \notin waited
    <3>1. EnterCallback(t, self[h])
      BY <2>1 DEF Replace
    <3> QED
      BY <1>3, <2>1, <3>1, EnterFacts
  <2>2. CASE ~(self[h] # NoRequest /\ Unique(self[h]) /\ self[h] \notin waited)
    <3>1. pc' = [pc EXCEPT ![t] = "overwrite"]
      BY <2>2 DEF Replace
    <3> QED
      BY <3>1
  <2> QED
    BY <2>1, <2>2
<1>6. pc'[t] = p /\ task'[t] = job
  BY <1>2, <1>5 DEF Typed
<1>7. act = "issue" => from \notin waited \cup thrown
  BY DEF CallsInv
<1>8. Awaited(t)' = self[h]
  BY <1>5, <1>6 DEF Awaited
<1>9. Job(t)'
  <2>1. p = "wait" => /\ self'[h] \in Issued'
                      /\ ~request'[self'[h]].collective => self'[h] \notin waited' \cup thrown'
    BY <1>5
  <2> QED
    BY <1>5, <1>6, <1>7, <2>1 DEF Job
<1>10. Temporary(t)' # NoRequest => Temporary(t)' \notin Issued
  BY <1>6 DEF Temporary
<1>11. /\ job.handle \in Handles => ~InUse(t, job.handle)
       /\ job.from \in Handles => ~InUse(t, job.from)
  BY <1>4
<1>12. p = "wait" => Awaited(t)' \notin Issued \/ ~Waiting(Awaited(t)')
  BY <1>5, <1>8
<1> HIDE DEF job
<1> QED
  BY <1>1, <1>2, <1>5, <1>9, <1>10, <1>11, <1>12, BeginThreads

LEMMA SelfIssued ==
    ASSUME ThreadsInv, UNCHANGED self, Issued \subseteq Issued', client' # "running"
    PROVE  ThreadsInv'
  BY DEF ThreadsInv

LEMMA ProgramThreads ==
    ASSUME Typed, CallsInv, ThreadsInv, NEW t \in Threads, Program(t)
    PROVE  ThreadsInv'
<1>0. Free(t) /\ client = "running"
  BY DEF Program, Start, StartOne, CallAndWait, Wait, Drop, Issue, Assign, Free
<1>1. ASSUME Start(t) \/ \E s \in Servers : StartOne(t, s) PROVE ThreadsInv'
  BY <1>1, SameThreads DEF Start, StartOne
<1>2. ASSUME UNCHANGED requestVars
      PROVE  /\ UNCHANGED <<waited, thrown>> /\ Issued' = Issued
             /\ \A q \in Issued : request'[q] = request[q]
  BY <1>2 DEF requestVars, Issued
<1>3. ASSUME NEW h \in Handles, Wait(t, h) PROVE ThreadsInv'
  <2>1. /\ UNCHANGED self /\ UNCHANGED <<waited, thrown>> /\ Issued' = Issued
        /\ \A q \in Issued : request'[q] = request[q]
    BY <1>2, <1>3 DEF Wait
  <2>2. CASE client' # "running"
    BY <2>1, <2>2, SelfIssued
  <2>3. CASE client' = "running"
    <3> DEFINE job == [act |-> "wait", handle |-> h, from |-> NoRequest]
    <3>1. self[h] \in Issued
      BY <1>3 DEF Wait, ThreadsInv
    <3>2. EnterCallback(t, self[h])
      BY <1>3 DEF Wait
    <3>3. /\ pc' = [pc EXCEPT ![t] = "wait"]
          /\ ~Waiting(self[h])
          /\ ~request[self[h]].collective => self[h] \notin waited \cup thrown
      BY <1>0, <2>3, <3>1, <3>2, EnterFacts
    <3>4. task' = [task EXCEPT ![t] = job] /\ job \in Tasks
      BY <1>3 DEF Wait, Tasks, Acts
    <3>5. pc'[t] = "wait" /\ task'[t] = job
      BY <3>3, <3>4 DEF Typed
    <3>6. Awaited(t)' = self[h]
      BY <2>1, <3>5 DEF Awaited
    <3>7. Job(t)'
      <4>1. /\ self'[h] \in Issued'
            /\ ~request'[self'[h]].collective => self'[h] \notin waited' \cup thrown'
        BY <2>1, <3>1, <3>3
      <4> QED
        BY <3>5, <4>1 DEF Job
    <3>8. Temporary(t)' = NoRequest
      BY <3>5 DEF Temporary
    <3>9. /\ job.handle \in Handles => ~InUse(t, job.handle)
          /\ job.from \notin Handles
      BY <1>3, NamesDistinct DEF Wait
    <3> HIDE DEF job
    <3> QED
      BY <1>0, <2>1, <3>3, <3>4, <3>6, <3>7, <3>8, <3>9, BeginThreads
  <2> QED
    BY <2>2, <2>3
<1>4. ASSUME NEW h \in Handles, Drop(t, h) PROVE ThreadsInv'
  <2>1. /\ UNCHANGED self /\ UNCHANGED <<waited, thrown>> /\ Issued' = Issued
        /\ \A q \in Issued : request'[q] = request[q]
    BY <1>2, <1>4 DEF Drop
  <2>2. CASE client' # "running"
    BY <2>1, <2>2, SelfIssued
  <2>3. CASE client' = "running"
    <3>1. ~InUse(t, h) /\ Replace(t, h, "drop", NoRequest)
      BY <1>4 DEF Drop
    <3> QED
      BY <1>0, <2>1, <2>3, <3>1, ReplaceThreads
  <2> QED
    BY <2>2, <2>3
<1>5. ASSUME NEW h \in Handles, NEW g \in Handles, NEW act \in {"copy", "move"},
             Assign(t, h, g, act)
      PROVE  ThreadsInv'
  <2>1. /\ UNCHANGED self /\ UNCHANGED <<waited, thrown>> /\ Issued' = Issued
        /\ \A q \in Issued : request'[q] = request[q]
    BY <1>2, <1>5 DEF Assign
  <2>2. CASE client' # "running"
    BY <2>1, <2>2, SelfIssued
  <2>3. CASE client' = "running"
    <3>1. ~InUse(t, h) /\ ~InUse(t, g) /\ Replace(t, h, act, g)
      BY <1>5 DEF Assign
    <3> QED
      BY <1>0, <2>1, <2>3, <3>1, ReplaceThreads
  <2> QED
    BY <2>2, <2>3
<1>6. ASSUME NEW r \in Requests, NEW c \in CallsNow, Send(r, c)
      PROVE  /\ r \in Issued' \ Issued /\ Issued \subseteq Issued'
             /\ \A q \in Issued : request'[q] = request[q]
  <2>1. /\ r \notin Issued /\ Issued' = Issued \cup {r}
        /\ \A q \in Requests : q # r => request'[q] = request[q]
    BY <1>6, SendFacts
  <2> QED
    BY <2>1 DEF Issued
<1>7. ASSUME NEW h \in Handles, Issue(t, h) PROVE ThreadsInv'
  <2>0. PICK r \in Requests, c \in CallsNow : Send(r, c) /\ Replace(t, h, "issue", r)
    BY <1>7 DEF Issue
  <2>1. /\ UNCHANGED self /\ UNCHANGED <<waited, thrown>>
        /\ r \in Issued' \ Issued /\ Issued \subseteq Issued'
        /\ \A q \in Issued : request'[q] = request[q]
    BY <1>6, <1>7, <2>0 DEF Issue
  <2>2. CASE client' # "running"
    BY <2>1, <2>2, SelfIssued
  <2>3. CASE client' = "running"
    <3>1. ~InUse(t, h)
      BY <1>7 DEF Issue
    <3> QED
      BY <1>0, <2>0, <2>1, <2>3, <3>1, ReplaceThreads
  <2> QED
    BY <2>2, <2>3
<1>8. ASSUME CallAndWait(t) PROVE ThreadsInv'
  <2>0. PICK r \in Requests, c \in CallsNow :
          /\ Send(r, c)
          /\ task' = [task EXCEPT ![t] = [act |-> "sync", handle |-> NoRequest, from |-> r]]
    BY <1>8 DEF CallAndWait
  <2> DEFINE job == [act |-> "sync", handle |-> NoRequest, from |-> r]
  <2>1. /\ UNCHANGED self /\ UNCHANGED <<waited, thrown>>
        /\ r \in Issued' \ Issued /\ Issued \subseteq Issued'
        /\ \A q \in Issued : request'[q] = request[q]
    BY <1>6, <1>8, <2>0 DEF CallAndWait
  <2>2. /\ task' = [task EXCEPT ![t] = job] /\ job \in Tasks
        /\ pc' = [pc EXCEPT ![t] = "wait"]
    BY <1>8, <2>0 DEF CallAndWait, Tasks, Acts
  <2>3. pc'[t] = "wait" /\ task'[t] = job
    BY <2>2 DEF Typed
  <2>4. Awaited(t)' = r /\ Temporary(t)' = r
    BY <2>3 DEF Awaited, Temporary
  <2>5. Job(t)'
    <3>1. r \notin waited' \cup thrown'
      BY <2>1 DEF CallsInv
    <3> QED
      BY <2>1, <2>3, <3>1 DEF Job
  <2>6. job.handle \notin Handles /\ job.from \notin Handles
    BY NamesDistinct DEF Requests
  <2> HIDE DEF job
  <2> QED
    BY <1>0, <2>1, <2>2, <2>4, <2>5, <2>6, BeginThreads
<1> QED
  BY <1>1, <1>3, <1>4, <1>5, <1>7, <1>8 DEF Program

\* The end of a wait; what the thread does next.
LEMMA WaitThreads ==
    ASSUME Typed, ThreadsInv, NEW t \in Threads, client = "running",
           pc[t] = "wait",
           UNCHANGED <<self, request>>,
           waited' \in {waited, waited \cup {Awaited(t)}},
           thrown' \in {thrown, thrown \cup {Awaited(t)}},
           NEW p \in {"idle", "overwrite"}, pc' = [pc EXCEPT ![t] = p],
           task' = [task EXCEPT ![t] = IF p = "idle" THEN NoTask ELSE @],
           p = "overwrite" => task[t].act \in {"drop", "copy", "move", "issue"}
    PROVE  ThreadsInv'
<1>0. /\ Issued' = Issued /\ \A h \in Handles : self[h] \in Issued \cup {NoRequest}
      /\ NoRequest \notin Handles /\ NoRequest \notin Issued
      /\ Job(t) /\ \A u \in Threads \ {t} : Job(u)
  BY NamesDistinct DEF Issued, ThreadsInv, Requests
<1>1. pc'[t] = p /\ task'[t] = IF p = "idle" THEN NoTask ELSE task[t]
  BY DEF Typed
<1>2. ASSUME NEW u \in Threads \ {t}
      PROVE  /\ pc'[u] = pc[u] /\ task'[u] = task[u]
             /\ Temporary(u)' = Temporary(u) /\ Awaited(u)' = Awaited(u)
             /\ Temporary(u) # NoRequest => Temporary(u) # Awaited(t)
             /\ pc[u] = "wait" => Awaited(u) # Awaited(t)
             /\ Apart(u, t) /\ Apart(t, u)
  <2>1. pc'[u] = pc[u] /\ task'[u] = task[u]
    BY DEF Typed
  <2>2. Temporary(u)' = Temporary(u) /\ Awaited(u)' = Awaited(u)
    BY <2>1 DEF Temporary, Awaited
  <2>3. Temporary(u) # NoRequest => Temporary(u) # Awaited(t)
    BY TemporaryAwaited
  <2>4. Apart(u, t) /\ Apart(t, u)
    BY DEF ThreadsInv
  <2>5. pc[u] = "wait" => Awaited(u) # Awaited(t)
    BY <2>4 DEF Apart
  <2> QED
    BY <2>1, <2>2, <2>3, <2>4, <2>5
<1>3. ASSUME NEW u \in Threads \ {t} PROVE Job(u)'
  <2>1. Job(u)
    BY <1>0
  <2>2. task[u].act \in {"sync", "issue"} => task[u].from \notin waited' \cup thrown'
    <3>1. task[u].act \in {"sync", "issue"} =>
            task[u].from \in Issued \ (waited \cup thrown) /\ task[u].from = Temporary(u)
      BY <2>1 DEF Job, Temporary
    <3> QED
      BY <1>0, <1>2, <3>1
  <2>3. pc[u] = "wait" /\ task[u].act # "sync" /\ ~request[self[task[u].handle]].collective
          => self[task[u].handle] \notin waited' \cup thrown'
    <3>1. pc[u] = "wait" /\ task[u].act # "sync" => Awaited(u) = self[task[u].handle]
      BY DEF Awaited
    <3> QED
      BY <1>2, <2>1, <3>1 DEF Job
  <2> QED
    BY <1>0, <1>2, <2>1, <2>2, <2>3 DEF Job
<1>4. Job(t)'
  <2>1. CASE p = "idle"
    BY <1>1, <2>1, NamesDistinct DEF Job, NoTask
  <2>2. CASE p # "idle"
    <3>1. task'[t] = task[t] /\ task[t].act \in {"drop", "copy", "move", "issue"}
          /\ pc[t] = "wait"
      BY <1>1, <2>2
    <3>2. task[t].act = "issue" => task[t].from \notin waited' \cup thrown'
      <4>1. Awaited(t) = self[task[t].handle] /\ task[t].handle \in Handles
        BY <1>0, <3>1 DEF Awaited, Job
      <4>2. task[t].act = "issue" => Temporary(t) = task[t].from /\ task[t].from # NoRequest
                                     /\ task[t].from \notin waited \cup thrown
        BY <1>0 DEF Temporary, Job
      <4>3. task[t].act = "issue" => self[task[t].handle] # task[t].from
        BY <4>1, <4>2 DEF ThreadsInv
      <4> QED
        BY <4>1, <4>2, <4>3
    <3> QED
      BY <1>0, <1>1, <2>2, <3>1, <3>2 DEF Job
  <2> QED
    BY <2>1, <2>2
<1>5. /\ Temporary(t)' # NoRequest => Temporary(t)' = Temporary(t)
      /\ task'[t].handle \in Handles => task'[t].handle = task[t].handle
      /\ task'[t].from \in Handles => task'[t].from = task[t].from
  <2>1. CASE p = "idle"
    BY <1>0, <1>1, <2>1 DEF Temporary, NoTask
  <2>2. CASE p # "idle"
    BY <1>1, <2>2 DEF Temporary
  <2> QED
    BY <2>1, <2>2
<1>6. ASSUME NEW u \in Threads \ {t} PROVE Apart(t, u)' /\ Apart(u, t)'
  <2>3. Temporary(t)' # NoRequest => Temporary(t)' # Temporary(u)
    BY <1>2, <1>5 DEF Apart
  <2>4. /\ task'[t].handle \in Handles => task'[t].handle \notin {task[u].handle, task[u].from}
        /\ task[u].handle \in Handles => task[u].handle \notin {task'[t].handle, task'[t].from}
    BY <1>2, <1>5 DEF Apart
  <2> QED
    BY <1>1, <1>2, <2>3, <2>4 DEF Apart
<1>7. ASSUME NEW u \in Threads \ {t}, NEW v \in Threads \ {u, t} PROVE Apart(u, v)'
  <2>1. Apart(u, v)
    BY DEF ThreadsInv
  <2>2. /\ pc'[u] = pc[u] /\ task'[u] = task[u] /\ pc'[v] = pc[v] /\ task'[v] = task[v]
        /\ Temporary(u)' = Temporary(u) /\ Awaited(u)' = Awaited(u)
        /\ Temporary(v)' = Temporary(v) /\ Awaited(v)' = Awaited(v)
    BY <1>2
  <2> QED
    BY <2>1, <2>2 DEF Apart
<1>8. \A u \in Threads : \A v \in Threads \ {u} : Apart(u, v)'
  BY <1>6, <1>7
<1>9. \A u \in Threads, h \in Handles : Temporary(u)' # NoRequest => self'[h] # Temporary(u)'
  <2>1. ASSUME NEW u \in Threads, NEW h \in Handles, Temporary(u)' # NoRequest
        PROVE  self'[h] # Temporary(u)'
    <3>1. Temporary(u)' = Temporary(u)
      BY <1>2, <1>5, <2>1
    <3> QED
      BY <2>1, <3>1 DEF ThreadsInv
  <2> QED
    BY <2>1
<1> QED
  BY <1>0, <1>3, <1>4, <1>8, <1>9 DEF ThreadsInv

LEMMA OverwriteFacts ==
    ASSUME Typed, ThreadsInv, NEW t \in Threads, Overwrite(t)
    PROVE  /\ Job(t) /\ client = "running" /\ task[t].handle \in Handles
           /\ Replacement(t) \in Issued \cup {NoRequest}
           /\ self'[task[t].handle] = Replacement(t)
           /\ \A h \in Handles : h \notin {task[t].handle, task[t].from} => self'[h] = self[h]
           /\ \A h \in Handles : /\ h # task[t].handle
                                 /\ ~(task[t].act = "move" /\ h = task[t].from)
                                 => self'[h] = self[h]
           /\ \A h \in Handles : self'[h] \in {self[h], NoRequest, Replacement(t)}
           /\ pc'[t] = "idle" /\ task'[t] = NoTask
           /\ \A u \in Threads \ {t} : pc'[u] = pc[u] /\ task'[u] = task[u]
<1>1. Job(t) /\ client = "running" /\ pc[t] = "overwrite" /\ task[t].handle \in Handles
  BY DEF Overwrite, ThreadsInv, Job
<1>2. Replacement(t) \in Issued \cup {NoRequest}
  BY <1>1 DEF Replacement, Job, ThreadsInv
<1> HIDE DEF Replacement
<1>3. self' = [h \in Handles |->
                 IF h = task[t].handle THEN Replacement(t)
                 ELSE IF task[t].act = "move" /\ h = task[t].from THEN NoRequest
                 ELSE self[h]]
  BY DEF Overwrite
<1>4. /\ pc'[t] = "idle" /\ task'[t] = NoTask
      /\ \A u \in Threads \ {t} : pc'[u] = pc[u] /\ task'[u] = task[u]
  BY DEF Overwrite, Typed
<1> QED
  BY <1>1, <1>2, <1>3, <1>4

LEMMA OverwriteThreads ==
    ASSUME Typed, ThreadsInv, NEW t \in Threads, Overwrite(t)
    PROVE  ThreadsInv'
<1>1. /\ Job(t) /\ client = "running" /\ task[t].handle \in Handles
      /\ Replacement(t) \in Issued \cup {NoRequest}
      /\ \A h \in Handles : h \notin {task[t].handle, task[t].from} => self'[h] = self[h]
      /\ \A h \in Handles : self'[h] \in {self[h], NoRequest, Replacement(t)}
      /\ pc'[t] = "idle" /\ task'[t] = NoTask
      /\ \A u \in Threads \ {t} : pc'[u] = pc[u] /\ task'[u] = task[u]
  BY OverwriteFacts
<1>2. UNCHANGED <<request, waited, thrown, client>> /\ Issued' = Issued
  BY DEF Overwrite, requestVars, Issued
<1>3. NoRequest \notin Handles /\ NoRequest \notin Issued
  BY NamesDistinct DEF Issued, Requests
<1>4. \A h \in Handles : self'[h] \in Issued' \cup {NoRequest}
  BY <1>1, <1>2 DEF ThreadsInv
<1>5. Job(t)' /\ Temporary(t)' = NoRequest
  BY <1>1, <1>3 DEF Job, NoTask, Temporary
<1>6. ASSUME NEW u \in Threads \ {t}
      PROVE  /\ pc'[u] = pc[u] /\ task'[u] = task[u]
             /\ Temporary(u)' = Temporary(u)
             /\ pc[u] = "wait" => Awaited(u)' = Awaited(u)
             /\ Job(u)'
             /\ \A h \in Handles : Temporary(u) # NoRequest => self'[h] # Temporary(u)
  <2>1. pc'[u] = pc[u] /\ task'[u] = task[u]
    BY <1>1
  <2>2. Temporary(u)' = Temporary(u)
    BY <2>1 DEF Temporary
  <2>3. Job(u) /\ Apart(u, t) /\ Apart(t, u) /\ task[u].act \in Acts
    BY <1>1 DEF ThreadsInv, Typed, Tasks
  <2>4. pc[u] = "wait" /\ task[u].act # "sync"
          => task[u].handle \in Handles /\ self'[task[u].handle] = self[task[u].handle]
    <3>1. pc[u] = "wait" /\ task[u].act # "sync"
            => task[u].handle \in Handles
      BY <2>3 DEF Job, Acts
    <3>2. task[u].handle \in Handles => task[u].handle \notin {task[t].handle, task[t].from}
      BY <2>3 DEF Apart
    <3> QED
      BY <1>1, <3>1, <3>2
  <2>5. pc[u] = "wait" => Awaited(u)' = Awaited(u)
    BY <2>1, <2>4 DEF Awaited
  <2>6. Job(u)'
    <3>1. pc[u] = "wait" /\ task[u].act # "sync"
            => self'[task[u].handle] = self[task[u].handle]
      BY <2>4
    <3>2. (~request[self[task[u].handle]].collective)'
            <=> ~request[self'[task[u].handle]].collective
      BY <1>2, <2>1
    <3> QED
      BY <1>2, <2>1, <2>3, <3>1, <3>2 DEF Job
  <2>7. ASSUME NEW h \in Handles, Temporary(u) # NoRequest PROVE self'[h] # Temporary(u)
    <3>1. self[h] # Temporary(u)
      BY <1>1, <2>7 DEF ThreadsInv
    <3>2. Replacement(t) # Temporary(u)
      <4>1. CASE task[t].act = "drop"
        BY <2>7, <4>1 DEF Replacement
      <4>2. CASE task[t].act \in {"copy", "move"}
        BY <1>1, <2>7, <4>2 DEF Replacement, Job, ThreadsInv
      <4>3. CASE task[t].act \notin {"drop", "copy", "move"}
        <5>1. task[t].act = "issue" /\ Replacement(t) = Temporary(t)
              /\ Temporary(t) # NoRequest
          <6>1. pc[t] = "overwrite"
            BY DEF Overwrite
          <6>2. task[t].act = "issue" /\ task[t].from \in Issued
            BY <1>1, <4>3, <6>1 DEF Job
          <6> QED
            BY <1>3, <6>2 DEF Replacement, Temporary
        <5> QED
          BY <2>3, <5>1 DEF Apart
      <4> QED
        BY <4>1, <4>2, <4>3
    <3> QED
      BY <1>1, <2>7, <3>1, <3>2
  <2> QED
    BY <2>1, <2>2, <2>5, <2>6, <2>7
<1>7. ASSUME NEW u \in Threads \ {t} PROVE Apart(t, u)' /\ Apart(u, t)'
  <2>1. task'[t].handle = NoRequest /\ task'[t].from = NoRequest
    BY <1>1 DEF NoTask
  <2> QED
    BY <1>1, <1>3, <1>5, <2>1 DEF Apart
<1>8. ASSUME NEW u \in Threads \ {t}, NEW v \in Threads \ {u, t} PROVE Apart(u, v)'
  <2>1. Apart(u, v)
    BY <1>1 DEF ThreadsInv
  <2>2. /\ pc'[u] = pc[u] /\ task'[u] = task[u] /\ pc'[v] = pc[v] /\ task'[v] = task[v]
        /\ Temporary(u)' = Temporary(u) /\ Temporary(v)' = Temporary(v)
        /\ pc[u] = "wait" => Awaited(u)' = Awaited(u)
        /\ pc[v] = "wait" => Awaited(v)' = Awaited(v)
    BY <1>6
  <2> QED
    BY <2>1, <2>2 DEF Apart
<1>9. \A u \in Threads : \A v \in Threads \ {u} : Apart(u, v)'
  BY <1>7, <1>8
<1>10. \A u \in Threads, h \in Handles : Temporary(u)' # NoRequest => self'[h] # Temporary(u)'
  BY <1>5, <1>6
<1> QED
  BY <1>4, <1>5, <1>6, <1>9, <1>10 DEF ThreadsInv

LEMMA ContinueThreads ==
    ASSUME Typed, ThreadsInv, NEW t \in Threads, Continue(t)
    PROVE  ThreadsInv'
<1>0. client = "running" /\ Job(t) /\ task[t].act \in Acts
  BY DEF Continue, Overwrite, WaitReturns, WaitThrows, ThreadsInv, Typed, Tasks
<1>1. CASE Overwrite(t)
  BY <1>1, OverwriteThreads
<1>2. CASE WaitReturns(t)
  <2>1. /\ pc[t] = "wait" /\ waited' = waited \cup {Awaited(t)}
        /\ UNCHANGED <<self, request, thrown>>
    BY <1>2 DEF WaitReturns
  <2>2. CASE task[t].act \in {"wait", "sync"}
    <3>1. pc' = [pc EXCEPT ![t] = "idle"] /\ task' = [task EXCEPT ![t] = NoTask]
      BY <1>2, <2>2 DEF WaitReturns
    <3> QED
      BY <1>0, <2>1, <3>1, WaitThreads
  <2>3. CASE task[t].act \notin {"wait", "sync"}
    <3>1. pc' = [pc EXCEPT ![t] = "overwrite"] /\ task' = [task EXCEPT ![t] = @]
      BY <1>2, <2>3 DEF WaitReturns
    <3>2. task[t].act \in {"drop", "copy", "move", "issue"}
      BY <1>0, <2>1, <2>3 DEF Job, Acts
    <3> QED
      BY <1>0, <2>1, <3>1, <3>2, WaitThreads
  <2> QED
    BY <2>2, <2>3
<1>3. CASE WaitThrows(t)
  <2>1. /\ pc[t] = "wait" /\ thrown' = thrown \cup {Awaited(t)}
        /\ UNCHANGED <<self, request, waited>>
        /\ pc' = [pc EXCEPT ![t] = "idle"] /\ task' = [task EXCEPT ![t] = NoTask]
    BY <1>3 DEF WaitThrows
  <2> QED
    BY <1>0, <2>1, WaitThreads
<1> QED
  BY <1>1, <1>2, <1>3 DEF Continue

------------------------------------------------------------------------------
(* Owners. *)

\* Steps that do not touch the copies, on requests no more in flight than before.
LEMMA SameOwners ==
    ASSUME OwnersInv, UNCHANGED <<self, requestVars, threadVars, raced, abandoned>>,
           \A q \in Issued : InFlight(q)' => InFlight(q)
    PROVE  OwnersInv'
<1>1. UNCHANGED <<self, request, pc, task, client, raced, abandoned>> /\ Issued' = Issued
  BY DEF requestVars, threadVars, Issued
<1>2. ASSUME NEW x, NEW q PROVE Keeps(x, q)' <=> Keeps(x, q)
  BY <1>1 DEF Keeps, Holders, Temporary
<1> QED
  BY <1>1, <1>2 DEF OwnersInv

LEMMA RespondOwners ==
    ASSUME Typed, OwnersInv, NEW r \in Issued, NEW s \in Servers, Respond(r, s)
    PROVE  OwnersInv'
<1> r \in Requests /\ Issued \subseteq Requests
  BY DEF Issued
<1>1. /\ UNCHANGED <<self, requestVars, threadVars, iteration, raced, abandoned>>
      /\ \A q \in Requests, v \in Servers : q # r \/ v # s => answer'[q][v] = answer[q][v]
      /\ answer[r][s] \in {"sent", "pulling"}
  BY RespondFacts
<1>2. \A q \in Issued : InFlight(q)' => InFlight(q)
  BY <1>1 DEF InFlight
<1> QED
  BY <1>1, <1>2, SameOwners

\* A thread begins a call: x keeps r, unless the thread takes it from x.
LEMMA BeginKeeps ==
    ASSUME Typed, ThreadsInv, NEW t \in Threads, Free(t), UNCHANGED self,
           \A u \in Threads \ {t} : pc'[u] = pc[u] /\ task'[u] = task[u],
           NEW r \in Issued, NEW x \in Holders(r),
           \A u \in Threads \ {t} : pc[u] = "overwrite" => task[u].handle # x,
           pc'[t] = "overwrite" => task'[t].handle # x
    PROVE  Keeps(x, r)'
<1>1. task[t] = NoTask /\ r # NoRequest
  BY NamesDistinct DEF Free, ThreadsInv, Job, Issued, Requests
<1>2. Temporary(t) # r
  BY <1>1 DEF Temporary, NoTask
<1>3. \A u \in Threads \ {t} : Temporary(u)' = Temporary(u)
  BY DEF Temporary
<1>4. x \in Holders(r)'
  BY <1>2, <1>3 DEF Holders
<1> QED
  BY <1>4 DEF Keeps

\* A request that was issued in a temporary of thread t is kept by it.
LEMMA TemporaryKeeps ==
    ASSUME ThreadsInv', client' = "running", NEW t \in Threads, NEW r,
           Temporary(t)' = r
    PROVE  Keeps(t, r)'
<1>1. t \in Holders(r)'
  BY DEF Holders
<1>2. \A u \in Threads : pc'[u] = "overwrite" => task'[u].handle \in Handles
  BY DEF ThreadsInv, Job
<1> QED
  BY <1>1, <1>2, NamesDistinct DEF Keeps

LEMMA NotInFlight == CallsInv => \A r \in waited \cup thrown : ~InFlight(r)
<1> SUFFICES ASSUME CallsInv, NEW r \in waited \cup thrown PROVE ~InFlight(r)
  OBVIOUS
<1>1. r \in Issued /\ Call(r)
  BY DEF CallsInv
<1> QED
  BY <1>1 DEF Call, InFlight

LEMMA ReplaceOwners ==
    ASSUME Typed, CallsInv, ThreadsInv, OwnersInv, NEW t \in Threads, Free(t),
           NEW h \in Handles, NEW act, NEW from, Replace(t, h, act, from),
           UNCHANGED <<self, abandoned>>, client' = "running",
           NEW r \in Issued, InFlight(r), r \notin raced' \cup abandoned'
    PROVE  \E x \in Handles \cup Threads : Keeps(x, r)'
<1>1. raced \subseteq raced' /\ client = "running" /\ r # NoRequest
  BY NamesDistinct DEF Replace, Free, Issued, Requests
<1>2. PICK x \in Handles \cup Threads : Keeps(x, r)
  BY <1>1 DEF OwnersInv
<1>3. /\ \A u \in Threads \ {t} : pc'[u] = pc[u] /\ task'[u] = task[u]
      /\ task'[t].handle = h
  <2>1. task' = [task EXCEPT ![t] = [act |-> act, handle |-> h, from |-> from]]
    BY DEF Replace
  <2>2. pc' \in {[pc EXCEPT ![t] = "wait"], [pc EXCEPT ![t] = "overwrite"]}
    BY <1>1 DEF Replace, EnterCallback
  <2> QED
    BY <2>1, <2>2 DEF Typed
<1>4. /\ x \in Holders(r)
      /\ \A u \in Threads \ {t} : pc[u] = "overwrite" => task[u].handle # x
  BY <1>2 DEF Keeps
<1>5. CASE self[h] # NoRequest /\ Unique(self[h]) /\ self[h] \notin waited
  <2>1. pc'[t] = "wait"
    BY <1>5, <1>1 DEF Replace, EnterCallback, Typed
  <2>2. Keeps(x, r)'
    BY <1>3, <1>4, <2>1, BeginKeeps
  <2> QED
    BY <2>2
<1>6. CASE ~(self[h] # NoRequest /\ Unique(self[h]) /\ self[h] \notin waited)
  <2>1. /\ pc'[t] = "overwrite"
        /\ raced' = IF self[h] # NoRequest /\ Releasing(t, self[h])
                    THEN raced \cup {self[h]} ELSE raced
    BY <1>6 DEF Replace, Typed
  <2>2. CASE x # h
    <3>1. Keeps(x, r)'
      BY <1>3, <1>4, <2>1, <2>2, BeginKeeps
    <3> QED
      BY <3>1
  <2>3. CASE x = h
    <3>1. self[h] = r
      BY <1>4, <2>3, NamesDistinct DEF Holders
    <3>2. ~Unique(r) /\ ~Releasing(t, r)
      BY <1>1, <1>6, <2>1, <3>1, NotInFlight
    <3>3. PICK y \in Holders(r) : y # h
      BY <1>4, <2>3, <3>2 DEF Unique
    <3>4. \A u \in Threads \ {t} : pc[u] = "overwrite" => task[u].handle # y
      <4>1. y \in Handles => self[y] = r
        BY <3>3, NamesDistinct DEF Holders
      <4>2. \A u \in Threads : pc[u] = "overwrite" => task[u].handle \in Handles
        BY <1>1 DEF ThreadsInv, Job
      <4> QED
        BY <3>2, <4>1, <4>2 DEF Releasing
    <3>5. Keeps(y, r)'
      BY <1>3, <2>1, <3>3, <3>4, BeginKeeps
    <3>6. y \in Handles \cup Threads
      BY <3>3 DEF Holders
    <3> QED
      BY <3>5, <3>6
  <2> QED
    BY <2>2, <2>3
<1> QED
  BY <1>5, <1>6

LEMMA ProgramOwners ==
    ASSUME Typed, CallsInv, ThreadsInv, OwnersInv, ThreadsInv', NEW t \in Threads, Program(t)
    PROVE  OwnersInv'
<1>0. Free(t) /\ client = "running"
  BY DEF Program, Start, StartOne, CallAndWait, Wait, Drop, Issue, Assign, Free
<1>1. ASSUME UNCHANGED <<requestVars, answer>>
      PROVE  /\ Issued' = Issued
             /\ \A q : InFlight(q)' <=> InFlight(q)
  BY <1>1 DEF requestVars, Issued, InFlight
<1>2. ASSUME Start(t) \/ \E s \in Servers : StartOne(t, s) PROVE OwnersInv'
  <2>1. UNCHANGED <<self, requestVars, threadVars, raced, abandoned, answer>>
    BY <1>2 DEF Start, StartOne, historyVars
  <2>2. \A q \in Issued : InFlight(q)' => InFlight(q)
    BY <1>1, <2>1
  <2> QED
    BY <2>1, <2>2, SameOwners
<1>3. ASSUME NEW q \in Issued, InFlight(q), q \notin raced \cup abandoned, UNCHANGED self,
             \A u \in Threads \ {t} : pc'[u] = pc[u] /\ task'[u] = task[u],
             pc'[t] # "overwrite"
      PROVE  \E x \in Handles \cup Threads : Keeps(x, q)'
  <2>1. PICK x \in Handles \cup Threads : Keeps(x, q)
    BY <1>0, <1>3 DEF OwnersInv
  <2>2. x \in Holders(q) /\ \A u \in Threads \ {t} : pc[u] = "overwrite" => task[u].handle # x
    BY <2>1 DEF Keeps
  <2>3. Keeps(x, q)'
    BY <1>0, <1>3, <2>2, BeginKeeps
  <2> QED
    BY <2>3
<1>4. ASSUME NEW h \in Handles, Wait(t, h) PROVE OwnersInv'
  <2>1. UNCHANGED <<self, requestVars, answer, raced, abandoned>>
    BY <1>4 DEF Wait, historyVars
  <2>2. ASSUME client' = "running"
        PROVE  /\ \A u \in Threads \ {t} : pc'[u] = pc[u] /\ task'[u] = task[u]
               /\ pc'[t] # "overwrite"
    BY <1>0, <1>4, <2>2 DEF Wait, EnterCallback, Typed
  <2> QED
    BY <1>1, <1>3, <2>1, <2>2 DEF OwnersInv
<1>5. ASSUME NEW h \in Handles, NEW act, NEW from, Replace(t, h, act, from),
             UNCHANGED <<self, requestVars, answer, abandoned>>
      PROVE  OwnersInv'
  <2>1. raced \subseteq raced'
    BY <1>5 DEF Replace
  <2>2. ASSUME client' = "running", NEW r \in Issued, InFlight(r), r \notin raced' \cup abandoned'
        PROVE  \E x \in Handles \cup Threads : Keeps(x, r)'
    BY <1>0, <1>5, <2>2, ReplaceOwners
  <2> QED
    BY <1>1, <1>5, <2>2 DEF OwnersInv
<1>6. ASSUME NEW h \in Handles, Drop(t, h) PROVE OwnersInv'
  BY <1>5, <1>6 DEF Drop
<1>7. ASSUME NEW h \in Handles, NEW g \in Handles, NEW act \in {"copy", "move"},
             Assign(t, h, g, act)
      PROVE  OwnersInv'
  BY <1>5, <1>7 DEF Assign
<1>8. ASSUME NEW r \in Requests, NEW c \in CallsNow, Send(r, c)
      PROVE  /\ Issued' = Issued \cup {r}
             /\ \A q \in Issued : InFlight(q)' <=> InFlight(q)
  <2>1. /\ r \notin Issued /\ Issued' = Issued \cup {r}
        /\ \A q \in Requests : q # r => answer'[q] = answer[q]
    BY <1>8, SendFacts
  <2> QED
    BY <2>1 DEF Issued, InFlight
<1>9. ASSUME NEW h \in Handles, Issue(t, h) PROVE OwnersInv'
  <2>1. PICK r \in Requests, c \in CallsNow : Send(r, c) /\ Replace(t, h, "issue", r)
    BY <1>9 DEF Issue
  <2>2. /\ Issued' = Issued \cup {r} /\ UNCHANGED <<self, abandoned>> /\ r # NoRequest
        /\ \A q \in Issued : InFlight(q)' <=> InFlight(q)
    BY <1>8, <1>9, <2>1, NamesDistinct DEF Issue, Requests
  <2>3. ASSUME client' = "running" PROVE \E x \in Handles \cup Threads : Keeps(x, r)'
    <3>1. task'[t] = [act |-> "issue", handle |-> h, from |-> r]
      BY <2>1 DEF Replace, Typed
    <3>2. Temporary(t)' = r
      BY <3>1 DEF Temporary
    <3>3. Keeps(t, r)'
      BY <2>3, <3>2, TemporaryKeeps
    <3> QED
      BY <3>3
  <2>4. ASSUME client' = "running", NEW q \in Issued, InFlight(q), q \notin raced' \cup abandoned'
        PROVE  \E x \in Handles \cup Threads : Keeps(x, q)'
    BY <1>0, <2>1, <2>2, <2>4, ReplaceOwners
  <2> QED
    BY <2>2, <2>3, <2>4 DEF OwnersInv
<1>10. ASSUME CallAndWait(t) PROVE OwnersInv'
  <2>1. PICK r \in Requests, c \in CallsNow :
          /\ Send(r, c)
          /\ task' = [task EXCEPT ![t] = [act |-> "sync", handle |-> NoRequest, from |-> r]]
    BY <1>10 DEF CallAndWait
  <2>2. /\ Issued' = Issued \cup {r} /\ UNCHANGED <<self, raced, abandoned, client>>
        /\ \A q \in Issued : InFlight(q)' <=> InFlight(q)
    BY <1>8, <1>10, <2>1 DEF CallAndWait, historyVars
  <2>3. /\ task'[t] = [act |-> "sync", handle |-> NoRequest, from |-> r] /\ pc'[t] = "wait"
        /\ \A u \in Threads \ {t} : pc'[u] = pc[u] /\ task'[u] = task[u]
    BY <1>10, <2>1 DEF CallAndWait, Typed
  <2>4. Keeps(t, r)'
    <3>1. Temporary(t)' = r
      BY <2>3 DEF Temporary
    <3> QED
      BY <1>0, <2>2, <3>1, TemporaryKeeps
  <2>5. ASSUME NEW q \in Issued, InFlight(q), q \notin raced \cup abandoned
        PROVE  \E x \in Handles \cup Threads : Keeps(x, q)'
    BY <1>3, <2>2, <2>3, <2>5
  <2> QED
    BY <2>2, <2>4, <2>5 DEF OwnersInv
<1> QED
  BY <1>2, <1>4, <1>6, <1>7, <1>9, <1>10 DEF Program

\* The end of a wait: the request that was waited for is no longer in flight,
\* and the thread keeps every other.
LEMMA WaitOwners ==
    ASSUME Typed, CallsInv', ThreadsInv, OwnersInv, NEW t \in Threads, client = "running",
           UNCHANGED <<self, request, answer, raced>>, abandoned \subseteq abandoned',
           Awaited(t) \in waited' \cup thrown',
           NEW p, pc' = [pc EXCEPT ![t] = p],
           task' = [task EXCEPT ![t] = IF p = "idle" THEN NoTask ELSE @],
           p = "idle" => Temporary(t) \in {NoRequest, Awaited(t)} \cup abandoned',
           p = "overwrite" => Awaited(t) = self[task[t].handle] /\ task[t].handle \in Handles
    PROVE  OwnersInv'
<1>1. Issued' = Issued
  BY DEF Issued
<1>2. /\ pc'[t] = p /\ task'[t] = IF p = "idle" THEN NoTask ELSE task[t]
      /\ \A u \in Threads \ {t} : pc'[u] = pc[u] /\ task'[u] = task[u]
  BY DEF Typed
<1>3. PICK r : r = Awaited(t)
  OBVIOUS
<1>4. ~InFlight(r)'
  <2>1. r \in waited' \cup thrown' /\ Call(r)'
    BY <1>3 DEF CallsInv
  <2> QED
    BY <2>1 DEF Call, InFlight
<1>5. ASSUME NEW q \in Issued, InFlight(q)', q \notin raced \cup abandoned'
      PROVE  \E x \in Handles \cup Threads : Keeps(x, q)'
  <2>1. InFlight(q) /\ q # Awaited(t) /\ q # NoRequest
    BY <1>3, <1>4, <1>5, NamesDistinct DEF InFlight, Issued, Requests
  <2>2. PICK x \in Handles \cup Threads : Keeps(x, q)
    BY <1>5, <2>1 DEF OwnersInv
  <2>3. \A u \in Threads : Temporary(u) = q => Temporary(u)' = q
    <3>1. \A u \in Threads \ {t} : Temporary(u)' = Temporary(u)
      BY <1>2 DEF Temporary
    <3>2. Temporary(t) = q => Temporary(t)' = q
      BY <1>2, <1>5, <2>1 DEF Temporary
    <3> QED
      BY <3>1, <3>2
  <2>4. x \in Holders(q)'
    BY <2>2, <2>3 DEF Keeps, Holders
  <2>5. p = "overwrite" => task[t].handle # x
    BY <2>1, <2>2, NamesDistinct DEF Keeps, Holders
  <2>6. Keeps(x, q)'
    BY <1>2, <2>2, <2>4, <2>5 DEF Keeps
  <2> QED
    BY <2>6
<1> QED
  BY <1>1, <1>5 DEF OwnersInv

LEMMA OverwriteOwners ==
    ASSUME Typed, ThreadsInv, OwnersInv, NEW t \in Threads, Overwrite(t)
    PROVE  OwnersInv'
<1>1. /\ Job(t) /\ client = "running" /\ task[t].handle \in Handles
      /\ self'[task[t].handle] = Replacement(t)
      /\ \A h \in Handles : /\ h # task[t].handle
                            /\ ~(task[t].act = "move" /\ h = task[t].from)
                            => self'[h] = self[h]
      /\ pc'[t] = "idle" /\ task'[t] = NoTask
      /\ \A u \in Threads \ {t} : pc'[u] = pc[u] /\ task'[u] = task[u]
  BY OverwriteFacts
<1>2. UNCHANGED <<request, answer, raced, abandoned>> /\ Issued' = Issued /\ pc[t] = "overwrite"
  BY DEF Overwrite, requestVars, historyVars, Issued
<1>3. \A u \in Threads \ {t} : Temporary(u)' = Temporary(u)
  BY <1>1 DEF Temporary
<1>h. PICK h \in Handles : h = task[t].handle
  BY <1>1
<1>4. ASSUME NEW q, self'[h] = q PROVE Keeps(h, q)'
  <2>1. h \in Holders(q)'
    BY <1>4 DEF Holders
  <2>2. ASSUME NEW u \in Threads, pc'[u] = "overwrite" PROVE task'[u].handle # h
    <3>1. u # t /\ Apart(t, u)
      BY <1>1, <2>2 DEF ThreadsInv
    <3> QED
      BY <1>1, <1>h, <3>1 DEF Apart
  <2> QED
    BY <2>1, <2>2 DEF Keeps
<1>5. ASSUME NEW q \in Issued, InFlight(q), q \notin raced \cup abandoned
      PROVE  \E x \in Handles \cup Threads : Keeps(x, q)'
  <2>1. PICK x \in Handles \cup Threads : Keeps(x, q)
    BY <1>1, <1>5 DEF OwnersInv
  <2>2. x # task[t].handle /\ q # NoRequest
    BY <1>2, <2>1, NamesDistinct DEF Keeps, Issued, Requests
  <2>3. CASE x \in Handles /\ ~(task[t].act = "move" /\ x = task[t].from)
    <3>1. x \in Holders(q)'
      BY <1>1, <2>1, <2>2, <2>3, NamesDistinct DEF Keeps, Holders
    <3>2. Keeps(x, q)'
      BY <1>1, <2>1, <3>1 DEF Keeps
    <3> QED
      BY <3>2
  <2>4. CASE x \in Handles /\ task[t].act = "move" /\ x = task[t].from
    <3>1. self[x] = q
      BY <2>1, <2>4, NamesDistinct DEF Keeps, Holders
    <3>2. self'[task[t].handle] = q
      BY <1>1, <2>4, <3>1 DEF Replacement
    <3> QED
      BY <1>h, <1>4, <3>2
  <2>5. CASE x \in Threads \ {t}
    <3>1. Temporary(x) = q
      BY <2>1, <2>5, NamesDistinct DEF Keeps, Holders
    <3>2. x \in Holders(q)'
      BY <1>3, <2>5, <3>1 DEF Holders
    <3>3. Keeps(x, q)'
      BY <1>1, <2>1, <3>2 DEF Keeps
    <3> QED
      BY <3>3
  <2>6. CASE x = t
    <3>1. Temporary(t) = q
      BY <2>1, <2>6, NamesDistinct DEF Keeps, Holders
    <3>2. task[t].act = "issue" /\ task[t].from = q
      BY <1>1, <1>2, <2>2, <3>1 DEF Temporary, Job
    <3>3. self'[task[t].handle] = q
      BY <1>1, <3>2 DEF Replacement
    <3> QED
      BY <1>h, <1>4, <3>3
  <2> QED
    BY <2>3, <2>4, <2>5, <2>6
<1>6. \A q : InFlight(q)' <=> InFlight(q)
  BY <1>2 DEF InFlight
<1> QED
  BY <1>1, <1>2, <1>5, <1>6 DEF OwnersInv

LEMMA ContinueOwners ==
    ASSUME Typed, CallsInv', ThreadsInv, OwnersInv, NEW t \in Threads, Continue(t)
    PROVE  OwnersInv'
<1>0. client = "running" /\ Job(t) /\ task[t].act \in Acts
  BY DEF Continue, Overwrite, WaitReturns, WaitThrows, ThreadsInv, Typed, Tasks
<1>1. CASE Overwrite(t)
  BY <1>1, OverwriteOwners
<1>2. pc[t] = "wait" /\ task[t].act \notin {"wait", "sync"}
        => /\ task[t].handle \in Handles /\ Awaited(t) = self[task[t].handle]
           /\ task[t].act \in {"drop", "copy", "move", "issue"}
  BY <1>0 DEF Job, Acts, Awaited
<1>3. task[t].act = "sync" => Temporary(t) = Awaited(t)
  BY DEF Temporary, Awaited
<1>4. task[t].act \notin {"issue", "sync"} => Temporary(t) = NoRequest
  BY DEF Temporary
<1>5. CASE WaitReturns(t)
  <2>1. /\ pc[t] = "wait" /\ Awaited(t) \in waited' \cup thrown'
        /\ UNCHANGED <<self, request, answer, raced, abandoned>>
    BY <1>5 DEF WaitReturns, historyVars
  <2>2. CASE task[t].act \in {"wait", "sync"}
    <3>1. pc' = [pc EXCEPT ![t] = "idle"] /\ task' = [task EXCEPT ![t] = NoTask]
      BY <1>5, <2>2 DEF WaitReturns
    <3> QED
      BY <1>0, <1>3, <1>4, <2>1, <2>2, <3>1, WaitOwners
  <2>3. CASE task[t].act \notin {"wait", "sync"}
    <3>1. pc' = [pc EXCEPT ![t] = "overwrite"] /\ task' = [task EXCEPT ![t] = @]
      BY <1>5, <2>3 DEF WaitReturns
    <3> QED
      BY <1>0, <1>2, <2>1, <2>3, <3>1, WaitOwners
  <2> QED
    BY <2>2, <2>3
<1>6. CASE WaitThrows(t)
  <2>1. /\ Awaited(t) \in waited' \cup thrown'
        /\ UNCHANGED <<self, request, answer, raced>> /\ abandoned \subseteq abandoned'
        /\ pc' = [pc EXCEPT ![t] = "idle"] /\ task' = [task EXCEPT ![t] = NoTask]
    BY <1>6 DEF WaitThrows
  <2>2. Temporary(t) \in {NoRequest, Awaited(t)} \cup abandoned'
    BY <1>3, <1>4, <1>6 DEF WaitThrows, Temporary
  <2> QED
    BY <1>0, <2>1, <2>2, WaitOwners
<1> QED
  BY <1>1, <1>5, <1>6 DEF Continue

------------------------------------------------------------------------------
(* Blocks. *)

LEMMA SameBlocks ==
    ASSUME BlocksInv, UNCHANGED <<request, answer, serverVars, clashed>>
    PROVE  BlocksInv'
<1>1. UNCHANGED <<active, iteration, m_datasets>> /\ Issued' = Issued
  BY DEF serverVars, Issued
<1>2. \A s, i, b : Holds(s, i, b)' <=> Holds(s, i, b)
  BY <1>1 DEF Holds
<1> QED
  BY <1>1, <1>2 DEF BlocksInv, SameBlock

\* What a server's step does to the blocks.
LEMMA RespondBlocks ==
    ASSUME Typed, BlocksInv, NEW r \in Issued, NEW s \in Servers, Respond(r, s)
    PROVE  BlocksInv'
<1> r \in Requests /\ Issued \subseteq Requests
  BY DEF Issued
<1>1. /\ UNCHANGED <<self, requestVars, threadVars, iteration, raced, abandoned>>
      /\ \A q \in Requests, v \in Servers : q # r \/ v # s => answer'[q][v] = answer[q][v]
      /\ answer'[r][s] = "pulling" => answer[r][s] = "sent" /\ request[r].op = "stage"
  BY RespondFacts
<1>2. UNCHANGED <<request, iteration>> /\ Issued' = Issued
  BY <1>1 DEF requestVars, Issued
<1>3. active' \subseteq active /\ clashed \subseteq clashed'
  BY DEF Respond, Refuse, CheckBlock, StoreBlock, Serve, serverVars, historyVars
<1>4. ASSUME NEW v \in Servers, v \in active', NEW i, NEW b, Holds(v, i, b)
      PROVE  Holds(v, i, b)'
  <2>1. m_datasets[v] \subseteq m_datasets'[v]
    <3>1. CASE Refuse(r, s) \/ CheckBlock(r, s)
      BY <3>1 DEF Refuse, CheckBlock, serverVars
    <3>2. CASE StoreBlock(r, s)
      <4>1. \/ m_datasets' = m_datasets
            \/ m_datasets' = [m_datasets EXCEPT ![s] = @ \cup
                 {[iteration |-> request[r].iteration, block |-> request[r].block,
                   size |-> ComputeDataSize(request[r].block)]}]
        BY <3>2 DEF StoreBlock
      <4> QED
        BY <4>1, SMTT(40) DEF Typed
    <3>3. CASE Serve(r, s)
      <4>1. \/ m_datasets' = m_datasets
            \/ /\ active' = active \ {s}
               /\ m_datasets' = [m_datasets EXCEPT
                                   ![s] = {d \in @ : d.iteration # request[r].iteration}]
        BY <3>3 DEF Serve
      <4> QED
        BY <1>4, <4>1 DEF Typed
    <3> QED
      BY <3>1, <3>2, <3>3 DEF Respond
  <2> QED
    BY <1>4, <2>1 DEF Holds
<1>5. ASSUME answer'[r][s] = "ok", request[r].op = "stage"
      PROVE  answer[r][s] = "pulling" /\ Holds(s, request[r].iteration, request[r].block)'
  <2>1. StoreBlock(r, s)
    BY <1>5 DEF Respond, Refuse, CheckBlock, Serve, Reply, Typed
  <2>2. answer[r][s] = "pulling" /\ ~Reply(r, s, "refused")
    BY <1>5, <2>1 DEF StoreBlock, Reply, Typed
  <2> DEFINE d == [iteration |-> request[r].iteration, block |-> request[r].block,
                   size |-> ComputeDataSize(request[r].block)]
  <2>3. m_datasets' = [m_datasets EXCEPT ![s] = @ \cup {d}]
    BY <2>1, <2>2 DEF StoreBlock
  <2>4. d \in m_datasets'[s]
    BY <2>3 DEF Typed
  <2> QED
    BY <1>2, <2>2, <2>4 DEF Holds
<1>6. ASSUME NEW q \in Issued, NEW v \in Servers, request[q].op = "stage",
             answer'[q][v] = "ok", v \in active', iteration[v] = request[q].iteration
      PROVE  Holds(v, request[q].iteration, request[q].block)'
  <2>1. CASE q = r /\ v = s
    BY <1>5, <1>6, <2>1
  <2>2. CASE ~(q = r /\ v = s)
    <3>1. Holds(v, request[q].iteration, request[q].block)
      BY <1>1, <1>3, <1>6, <2>2 DEF BlocksInv
    <3>2. PICK i, b : i = request[q].iteration /\ b = request[q].block
      OBVIOUS
    <3>3. Holds(v, i, b)'
      BY <1>4, <1>6, <3>1, <3>2
    <3> QED
      BY <1>2, <3>2, <3>3
  <2> QED
    BY <2>1, <2>2
<1>7. ASSUME answer'[r][s] = "pulling", NEW q \in Issued \ {r}, SameBlock(r, q),
             answer[q][s] \in {"pulling", "ok"}
      PROVE  r \in clashed' /\ q \in clashed'
  <2>1. CheckBlock(r, s) /\ answer[r][s] = "sent"
    BY <1>1, <1>7 DEF Respond, Refuse, StoreBlock, Serve, Reply, Typed
  <2>2. ~Holds(s, request[r].iteration, request[r].block)
    BY <1>7, <2>1 DEF CheckBlock, Reply, Typed
  <2>3. answer[q][s] # "ok"
    BY <1>7, <2>1, <2>2 DEF CheckBlock, Admitted, BlocksInv, SameBlock
  <2>4. Staging(s, r, q)
    BY <1>7, <2>3 DEF Staging, SameBlock
  <2> QED
    BY <1>7, <2>1, <2>2, <2>4 DEF CheckBlock
<1>8. ASSUME NEW q \in Issued, NEW v \in Servers, request[q].op = "stage",
             answer'[q][v] \in {"pulling", "ok"}, ~(q = r /\ v = s /\ answer'[q][v] = "pulling")
      PROVE  answer[q][v] \in {"pulling", "ok"}
  <2>1. CASE q = r /\ v = s
    BY <1>5, <1>8, <2>1
  <2>2. CASE ~(q = r /\ v = s)
    BY <1>1, <1>8, <2>2
  <2> QED
    BY <2>1, <2>2
<1>9. ASSUME NEW q \in Issued, NEW p \in Issued, NEW v \in Servers, q # p, SameBlock(q, p),
             answer'[q][v] \in {"pulling", "ok"}, answer'[p][v] \in {"pulling", "ok"}
      PROVE  q \in clashed' /\ p \in clashed'
  <2>0. request[q].op = "stage" /\ request[p].op = "stage" /\ SameBlock(p, q)
    BY <1>9 DEF SameBlock
  <2>1. CASE q = r /\ v = s /\ answer'[q][v] = "pulling"
    <3>1. answer[p][s] \in {"pulling", "ok"}
      BY <1>8, <1>9, <2>0, <2>1
    <3> QED
      BY <1>7, <1>9, <2>1, <3>1
  <2>2. CASE p = r /\ v = s /\ answer'[p][v] = "pulling"
    <3>1. answer[q][s] \in {"pulling", "ok"}
      BY <1>8, <1>9, <2>0, <2>2
    <3> QED
      BY <1>7, <1>9, <2>0, <2>2, <3>1
  <2>3. CASE ~(q = r /\ v = s /\ answer'[q][v] = "pulling")
             /\ ~(p = r /\ v = s /\ answer'[p][v] = "pulling")
    <3>1. answer[q][v] \in {"pulling", "ok"} /\ answer[p][v] \in {"pulling", "ok"}
      BY <1>8, <1>9, <2>0, <2>3
    <3> QED
      BY <1>3, <1>9, <3>1 DEF BlocksInv
  <2> QED
    BY <2>1, <2>2, <2>3
<1>10. \A q, p \in Issued : SameBlock(q, p)' <=> SameBlock(q, p)
  BY <1>2 DEF SameBlock
<1>11. /\ \A q, v \in Servers : iteration'[q] = iteration'[v]
       /\ \A q \in Issued, v \in Servers : request'[q].iteration <= iteration'[v]
  BY <1>2 DEF BlocksInv
<1>12. \A q \in Issued, v \in Servers :
         /\ request'[q].op = "stage" /\ answer'[q][v] = "ok"
         /\ v \in active' /\ iteration'[v] = request'[q].iteration
         => Holds(v, request[q].iteration, request[q].block)'
  BY <1>2, <1>6
<1>13. \A q, p \in Issued, v \in Servers :
         /\ q # p /\ SameBlock(q, p)'
         /\ answer'[q][v] \in {"pulling", "ok"} /\ answer'[p][v] \in {"pulling", "ok"}
         => q \in clashed' /\ p \in clashed'
  BY <1>9, <1>10
<1> QED
  BY <1>2, <1>11, <1>12, <1>13 DEF BlocksInv

LEMMA CurrentIsLast ==
    ASSUME Typed, BlocksInv
    PROVE  Current \in Iterations /\ \A s \in Servers : iteration[s] = Current
<1>1. (CHOOSE s \in Servers : TRUE) \in Servers
  BY ServersExist
<1> QED
  BY <1>1 DEF Current, Typed, BlocksInv

LEMMA SendBlocks ==
    ASSUME Typed, BlocksInv, NEW r \in Requests, NEW c \in CallsNow, Send(r, c),
           UNCHANGED <<serverVars, clashed>>
    PROVE  BlocksInv'
<1> Issued \subseteq Requests
  BY DEF Issued
<1>1. /\ r \notin Issued /\ Issued' = Issued \cup {r}
      /\ request'[r] = c
      /\ \A s \in Servers : answer'[r][s] = IF s \in c.targets THEN "sent" ELSE "none"
      /\ \A q \in Requests : q # r => request'[q] = request[q] /\ answer'[q] = answer[q]
      /\ c.iteration = Current
  BY SendFacts
<1>2. UNCHANGED <<active, iteration, m_datasets>>
  BY DEF serverVars
<1>3. \A q \in Issued : request'[q] = request[q] /\ answer'[q] = answer[q]
  BY <1>1
<1>4. \A q \in Issued', s \in Servers : answer'[q][s] \in {"pulling", "ok"} => q \in Issued
  BY <1>1
<1>5. \A s \in Servers : request'[r].iteration <= iteration'[s]
  <2>1. Current \in Nat /\ \A s \in Servers : iteration[s] = Current
    BY CurrentIsLast, BoundsNat DEF Iterations
  <2>2. request'[r].iteration = Current
    BY <1>1
  <2> HIDE DEF Current
  <2> QED
    BY <1>2, <2>1, <2>2
<1>6. \A q \in Issued', s \in Servers : request'[q].iteration <= iteration'[s]
  BY <1>1, <1>2, <1>3, <1>5 DEF BlocksInv
<1>7. \A q \in Issued', s \in Servers :
         /\ request'[q].op = "stage" /\ answer'[q][s] = "ok"
         /\ s \in active' /\ iteration'[s] = request'[q].iteration
         => Holds(s, request[q].iteration, request[q].block)'
  <2>1. ASSUME NEW q \in Issued', NEW s \in Servers,
               request'[q].op = "stage", answer'[q][s] = "ok",
               s \in active', iteration'[s] = request'[q].iteration
        PROVE  Holds(s, request[q].iteration, request[q].block)'
    <3>1. q \in Issued
      BY <1>4, <2>1
    <3>2. Holds(s, request[q].iteration, request[q].block)
      BY <1>2, <1>3, <2>1, <3>1 DEF BlocksInv
    <3> QED
      BY <1>2, <1>3, <3>1, <3>2 DEF Holds
  <2> QED
    BY <2>1
<1>8. ASSUME NEW q \in Issued', NEW p \in Issued', NEW s \in Servers,
             q # p, SameBlock(q, p)',
             answer'[q][s] \in {"pulling", "ok"}, answer'[p][s] \in {"pulling", "ok"}
      PROVE  q \in clashed' /\ p \in clashed'
  <2>1. q \in Issued /\ p \in Issued
    BY <1>4, <1>8
  <2>2. SameBlock(q, p)
    BY <1>3, <1>8, <2>1 DEF SameBlock
  <2> QED
    BY <1>3, <1>8, <2>1, <2>2 DEF BlocksInv
<1> QED
  BY <1>2, <1>6, <1>7, <1>8 DEF BlocksInv

LEMMA ProgramBlocks ==
    ASSUME Typed, BlocksInv, NEW t \in Threads, Program(t)
    PROVE  BlocksInv'
<1>1. CASE UNCHANGED <<request, answer, serverVars, clashed>>
  BY <1>1, SameBlocks
<1>2. ASSUME NEW r \in Requests, NEW c \in CallsNow, Send(r, c), UNCHANGED <<serverVars, clashed>>
      PROVE  BlocksInv'
  BY <1>2, SendBlocks
<1>3. ASSUME NEW s \in Servers, StartOne(t, s) PROVE UNCHANGED <<request, answer, serverVars, clashed>>
  <2>1. ~Accepts(s, {}, Current + 1)
    BY ServersExist DEF Accepts
  <2> QED
    BY <1>3, <2>1 DEF StartOne, requestVars, serverVars, historyVars
<1>4. ASSUME Start(t) PROVE BlocksInv'
  <2>1. /\ iteration' = [s \in Servers |-> Current + 1]
        /\ UNCHANGED <<request, answer, m_datasets, clashed>> /\ Issued' = Issued
    BY <1>4 DEF Start, requestVars, historyVars, Issued
  <2>2. Current \in Nat /\ \A s \in Servers : iteration[s] = Current
    BY CurrentIsLast, BoundsNat DEF Iterations
  <2>3. \A r \in Issued : request[r].iteration \in Nat
    BY BoundsNat DEF Typed, Issued, Calls, Iterations
  <2> HIDE DEF Current
  <2>4. \A r \in Issued, s \in Servers : request[r].iteration <= iteration[s]
    BY DEF BlocksInv
  <2>5. \A r \in Issued, s \in Servers :
          request[r].iteration <= Current + 1 /\ request[r].iteration # Current + 1
    BY <2>2, <2>3, <2>4
  <2>6. \A r, q \in Issued : SameBlock(r, q)' <=> SameBlock(r, q)
    BY <2>1 DEF SameBlock
  <2>7. \A s, v \in Servers : iteration'[s] = iteration'[v]
    BY <2>1
  <2>8. \A r \in Issued, s \in Servers : /\ request'[r].iteration <= iteration'[s]
                                         /\ request'[r].iteration # iteration'[s]
    BY <2>1, <2>5
  <2>9. \A r, q \in Issued, s \in Servers :
          /\ r # q /\ SameBlock(r, q)'
          /\ answer'[r][s] \in {"pulling", "ok"} /\ answer'[q][s] \in {"pulling", "ok"}
          => r \in clashed' /\ q \in clashed'
    BY <2>1, <2>6 DEF BlocksInv
  <2> QED
    BY <2>1, <2>7, <2>8, <2>9 DEF BlocksInv
<1>5. ASSUME CallAndWait(t) PROVE BlocksInv'
  BY <1>2, <1>5 DEF CallAndWait, historyVars
<1>6. ASSUME NEW h \in Handles, Issue(t, h) PROVE BlocksInv'
  BY <1>2, <1>6 DEF Issue
<1>7. ASSUME NEW h \in Handles, Wait(t, h) PROVE BlocksInv'
  BY <1>1, <1>7 DEF Wait, requestVars, historyVars
<1>8. ASSUME NEW h \in Handles, Drop(t, h) PROVE BlocksInv'
  BY <1>1, <1>8 DEF Drop, requestVars
<1>9. ASSUME NEW h \in Handles, NEW g \in Handles, NEW act \in {"copy", "move"},
             Assign(t, h, g, act)
      PROVE  BlocksInv'
  BY <1>1, <1>9 DEF Assign, requestVars
<1> QED
  BY <1>1, <1>3, <1>4, <1>5, <1>6, <1>7, <1>8, <1>9 DEF Program

LEMMA ContinueBlocks ==
    ASSUME BlocksInv, NEW t \in Threads, Continue(t)
    PROVE  BlocksInv'
<1>1. UNCHANGED <<request, answer, serverVars, clashed>>
  BY DEF Continue, Overwrite, WaitReturns, WaitThrows, requestVars, historyVars
<1> QED
  BY <1>1, SameBlocks

------------------------------------------------------------------------------
(* The invariant is inductive. *)

LEMMA InitInv == Init => Inv
<1> SUFFICES ASSUME Init PROVE Inv
  OBVIOUS
<1>1. Typed
  BY InitTyped
<1>2. Issued = {} /\ waited = {} /\ thrown = {}
  BY DEF Init, Issued
<1>3. CallsInv
  BY <1>2 DEF CallsInv, Init
<1>4. ThreadsInv
  <2>1. \A t \in Threads : pc[t] = "idle" /\ task[t] = NoTask
    BY DEF Init
  <2>2. NoRequest \notin Handles
    BY NamesDistinct
  <2> QED
    BY <1>2, <2>1, <2>2 DEF ThreadsInv, Job, Apart, Temporary, NoTask, Init
<1>5. OwnersInv
  BY <1>2 DEF OwnersInv
<1>6. BlocksInv
  BY <1>2 DEF BlocksInv, Init
<1> QED
  BY <1>1, <1>3, <1>4, <1>5, <1>6 DEF Inv

LEMMA StepInv == Inv /\ [Next]_vars => Inv'
<1> SUFFICES ASSUME Inv, [Next]_vars PROVE Inv'
  OBVIOUS
<1>0. Typed /\ CallsInv /\ ThreadsInv /\ OwnersInv /\ BlocksInv
  BY DEF Inv
<1>1. ASSUME NEW t \in Threads, Program(t) PROVE Inv'
  <2>1. Typed'
    BY <1>0, <1>1, ProgramTyped
  <2>2. CallsInv'
    BY <1>0, <1>1, ProgramCalls
  <2>3. ThreadsInv'
    BY <1>0, <1>1, ProgramThreads
  <2>4. OwnersInv'
    BY <1>0, <1>1, <2>3, ProgramOwners
  <2>5. BlocksInv'
    BY <1>0, <1>1, ProgramBlocks
  <2> QED
    BY <2>1, <2>2, <2>3, <2>4, <2>5 DEF Inv
<1>2. ASSUME NEW t \in Threads, Continue(t) PROVE Inv'
  <2>1. Typed'
    BY <1>0, <1>2, ContinueTyped
  <2>2. CallsInv'
    BY <1>0, <1>2, ContinueCalls
  <2>3. ThreadsInv'
    BY <1>0, <1>2, ContinueThreads
  <2>4. OwnersInv'
    BY <1>0, <1>2, <2>2, ContinueOwners
  <2>5. BlocksInv'
    BY <1>0, <1>2, ContinueBlocks
  <2> QED
    BY <2>1, <2>2, <2>3, <2>4, <2>5 DEF Inv
<1>3. ASSUME NEW r \in Issued, NEW s \in Servers, Respond(r, s) PROVE Inv'
  <2>1. Typed'
    BY <1>0, <1>3, RespondTyped
  <2>2. CallsInv'
    BY <1>0, <1>3, RespondCalls
  <2>3. ThreadsInv'
    <3>1. r \in Requests
      BY DEF Issued
    <3>2. UNCHANGED <<self, requestVars, threadVars>>
      BY <1>0, <1>3, <3>1, RespondFacts
    <3> QED
      BY <1>0, <3>2, SameThreads
  <2>4. OwnersInv'
    BY <1>0, <1>3, RespondOwners
  <2>5. BlocksInv'
    BY <1>0, <1>3, RespondBlocks
  <2> QED
    BY <2>1, <2>2, <2>3, <2>4, <2>5 DEF Inv
<1>4. CASE UNCHANGED vars
  <2>1. /\ UNCHANGED <<self, requestVars, threadVars, answer, serverVars, historyVars>>
        /\ UNCHANGED <<raced, abandoned, clashed>>
    BY <1>4 DEF vars, historyVars
  <2>2. Typed'
    BY <1>0, <2>1 DEF Typed, requestVars, threadVars, serverVars
  <2>3. CallsInv'
    BY <1>0, <2>1, SameCalls
  <2>4. ThreadsInv'
    BY <1>0, <2>1, SameThreads
  <2>5. OwnersInv'
    <3>1. \A q \in Issued : InFlight(q)' => InFlight(q)
      BY <2>1 DEF InFlight
    <3> QED
      BY <1>0, <2>1, <3>1, SameOwners
  <2>6. BlocksInv'
    BY <1>0, <2>1, SameBlocks DEF requestVars
  <2> QED
    BY <2>2, <2>3, <2>4, <2>5, <2>6 DEF Inv
<1> QED
  BY <1>1, <1>2, <1>3, <1>4, NextIsStep DEF Steps

LEMMA Invariance == Spec => []Inv
  BY InitInv, StepInv, PTL DEF Spec

------------------------------------------------------------------------------
(* The theorems. *)

(* Every variable keeps its type, and a thread is in a call exactly while   *)
(* it is not idle.                                                          *)
THEOREM RequestsTyped == Spec => []TypeOK
<1>1. Inv => TypeOK
  <2> SUFFICES ASSUME Inv PROVE TypeOK
    OBVIOUS
  <2>1. ASSUME client = "running", NEW t \in Threads
        PROVE  pc[t] = "idle" <=> task[t] = NoTask
    <3>1. Job(t) /\ NoTask.act = "none"
      BY <2>1 DEF Inv, ThreadsInv, NoTask
    <3> QED
      BY <3>1 DEF Job
  <2>2. Typed
    BY DEF Inv
  <2> QED
    BY <2>1, <2>2, Zenon DEF Typed, TypeOK
<1> QED
  BY <1>1, Invariance, PTL

(* A request on which servers still work has a copy, or a caller, that will *)
(* wait for it: the destructors and assignments of AsyncRequest give the    *)
(* last one up only after they waited. The two ways in which the code loses *)
(* a request are the only ones: two threads give up the last two copies at  *)
(* once, or the failure of the request that a variable had is thrown out of *)
(* the call that made the new one.                                          *)
THEOREM RequestsOwned == Spec => []OwnedWhileInFlight
<1>1. Inv => OwnedWhileInFlight
  BY DEF Inv, OwnersInv, OwnedWhileInFlight, Keeps
<1> QED
  BY <1>1, Invariance, PTL

(* A failure on any server reaches the program: if the wait for a request   *)
(* ended normally, and none threw, every server the call went to succeeded. *)
THEOREM FailuresReachProgram == Spec => []FailuresSurface
<1>1. Inv => FailuresSurface
  BY DEF Inv, CallsInv, Call, FailuresSurface
<1> QED
  BY <1>1, Invariance, PTL

(* A block whose stage was waited for without an exception is held by its   *)
(* server, with the result 0, while that iteration is active.               *)
THEOREM StagedBlocksHeld == Spec => []StagedIsHeld
<1>1. Inv => StagedIsHeld
  <2> SUFFICES ASSUME Inv, NEW r \in waited, request[r].op = "stage"
               PROVE  /\ result[r] = 0
                      /\ \A s \in request[r].targets :
                           s \in active /\ iteration[s] = request[r].iteration
                             => Holds(s, request[r].iteration, request[r].block)
    BY DEF StagedIsHeld
  <2>1. r \in Issued /\ Call(r)
    BY DEF Inv, CallsInv
  <2>2. result[r] = 0 /\ \A s \in request[r].targets : answer[r][s] = "ok" /\ s \in Servers
    BY <2>1 DEF Call, Calls
  <2> QED
    BY <2>1, <2>2 DEF Inv, BlocksInv
<1> QED
  BY <1>1, Invariance, PTL

(* "Block already exists for provided iteration, name, and id": of the      *)
(* stages of a block in an iteration one succeeds, unless two were pulling  *)
(* it at the same time.                                                     *)
THEOREM BlocksStagedOnce == Spec => []OneStagePerBlock
<1>1. Inv => OneStagePerBlock
  <2> SUFFICES ASSUME Inv, NEW s \in Servers, NEW r \in Issued, NEW q \in Issued,
                      r # q, SameBlock(r, q), answer[r][s] = "ok", answer[q][s] = "ok"
               PROVE  r \in clashed /\ q \in clashed
    BY DEF OneStagePerBlock, SameBlock
  <2> QED
    BY DEF Inv, BlocksInv
<1> QED
  BY <1>1, Invariance, PTL

==============================================================================
