------------------------ MODULE AtomicProviderProofs ------------------------
(* ColzaProvider implements AtomicProvider, for every value of its          *)
(* constants, to disciplined clients.                                       *)
EXTENDS PipelineDataProofs

------------------------------------------------------------------------------
(* The inductive invariant. *)

\* Between the instant at which a call counts and its last write.
PublishPcs == {"publish", "publishActive", "publishIteration"}
WritingPcs == PublishPcs \cup {"deactivate", "abortActive", "abortIteration"}
AnsweredPcs == PublishPcs \cup {"release", "deactivate", "notify", "respond"}

\* A handler has a result in exactly these places, and has succeeded when it
\* has still to write what it did.
Replied == \A h \in Handlers :
    /\ reply[h] # "NONE" <=> pc[h] \in AnsweredPcs
    /\ pc[h] \in PublishPcs \cup {"deactivate"} => reply[h] = "SUCCESS"

\* A handler holds an object from the step that found it to its answer.
Bound == \A h \in Handlers : obj[h] # NoObject => pc[h] \in HoldingPcs \cup {"respond"}

\* A start that was admitted still is when it calls the backend, and a cleanup
\* that follows an execute was asked for.
Admitted == \A h \in Handlers :
    /\ pc[h] \in {"reserve", "callStart"} => ~Inferior(iteration[obj[h]], req[h].iteration)
    /\ pc[h] = "autoCleanup" => req[h].auto

\* What clients see of an object, by the handler that writes its fields if
\* there is one.
Unwritten(o) == \A h \in Handlers : pc[h] \in WritingPcs => obj[h] # o

Written(h) == LET o == obj[h] IN
    /\ o \in Running <=> pc[h] \in PublishPcs
    /\ LastIteration[o] = IF pc[h] \in {"publish", "publishIteration"} THEN req[h].iteration
                          ELSE IF pc[h] = "abortIteration"
                          THEN Decrement(iteration[o], MaxIteration)
                          ELSE iteration[o]

View ==
    /\ \A h \in Handlers : pc[h] \in WritingPcs => Written(h)
    /\ \A h \in Handlers : pc[h] \in HoldingPcs \ WritingPcs => Unwritten(obj[h])
    /\ \A o \in Objects : Unwritten(o) => /\ o \in Running <=> o \in active
                                          /\ LastIteration[o] = iteration[o]

AtomicInv == CountInv /\ MadeKnown /\ DataInv /\ Replied /\ Bound /\ Admitted /\ View

LEMMA OnlyWriter ==
    ASSUME TypeOK, ChecksStillHold, NEW h \in Handlers, pc[h] \in WritingPcs,
           NEW g \in Handlers, pc[g] \in HoldingPcs, obj[g] = obj[h]
    PROVE  g = h
<1>1. pc[h] \in HoldingPcs /\ "stage" \notin OpAt(pc[h])
  BY DEF WritingPcs, PublishPcs, HoldingPcs, StartPcs, ReleasingPcs, CallPcs, OpAt
<1>2. req[h].op # "stage"
  BY <1>1 DEF ChecksStillHold, HandlerConsistent
<1> QED
  BY <1>1, <1>2, Alone

LEMMA ViewHolds == ASSUME TypeOK, ChecksStillHold PROVE View
<1> USE DEF WritingPcs, PublishPcs
<1>0. WritingPcs \subseteq HoldingPcs
  BY DEF HoldingPcs, StartPcs, ReleasingPcs, CallPcs
<1>1. ASSUME NEW h \in Handlers, pc[h] \in WritingPcs PROVE Written(h)
  <2> DEFINE o == obj[h]
  <2>1. o \in Objects /\ req[h].iteration \in Iterations
    BY <1>0, <1>1, RequestFields DEF TypeOK, InFlight, At
  <2>2. \A g \in Handlers : pc[g] \in WritingPcs /\ obj[g] = o => g = h
    BY <1>0, <1>1, OnlyWriter
  <2>3. \A ps \in SUBSET WritingPcs : Writers(o, ps) = IF pc[h] \in ps THEN {h} ELSE {}
    BY <2>2 DEF Writers
  <2>4. Writers(o, PublishPcs) = IF pc[h] \in PublishPcs THEN {h} ELSE {}
    BY <2>3
  <2>5. /\ Writers(o, {"deactivate", "abortActive"})
             = IF pc[h] \in {"deactivate", "abortActive"} THEN {h} ELSE {}
        /\ Writers(o, {"publish", "publishIteration"})
             = IF pc[h] \in {"publish", "publishIteration"} THEN {h} ELSE {}
        /\ Writers(o, {"abortIteration"}) = IF pc[h] = "abortIteration" THEN {h} ELSE {}
    BY <2>3
  <2>6. pc[h] = "abortIteration" => o \notin active
    BY DEF ChecksStillHold, HandlerConsistent, SawInactive, ChargedPcs
  <2>7. o \in Running <=> pc[h] \in PublishPcs
    BY <1>1, <2>1, <2>4, <2>5, <2>6 DEF Running
  <2>8. (CHOOSE i \in Iterations : \E g \in {h} : req[g].iteration = i) = req[h].iteration
    BY <2>1
  <2>9. LastIteration[o] = IF pc[h] \in {"publish", "publishIteration"} THEN req[h].iteration
                           ELSE IF pc[h] = "abortIteration"
                           THEN Decrement(iteration[o], MaxIteration)
                           ELSE iteration[o]
    BY <2>1, <2>5, <2>8 DEF LastIteration
  <2> QED
    BY <2>7, <2>9 DEF Written
<1>2. ASSUME NEW h \in Handlers, pc[h] \in HoldingPcs \ WritingPcs PROVE Unwritten(obj[h])
  BY <1>2, OnlyWriter DEF Unwritten
<1>3. ASSUME NEW o \in Objects, Unwritten(o)
      PROVE  (o \in Running <=> o \in active) /\ LastIteration[o] = iteration[o]
  <2>1. \A ps \in SUBSET WritingPcs : Writers(o, ps) = {}
    BY <1>3 DEF Writers, Unwritten
  <2>2. /\ Writers(o, PublishPcs) = {} /\ Writers(o, {"deactivate", "abortActive"}) = {}
        /\ Writers(o, {"publish", "publishIteration"}) = {}
        /\ Writers(o, {"abortIteration"}) = {}
    BY <2>1
  <2> QED
    BY <2>2 DEF Running, LastIteration
<1> QED
  BY <1>1, <1>2, <1>3 DEF View

------------------------------------------------------------------------------
(* Results, and the objects that handlers hold. *)

LEMMA ServeReplied ==
    ASSUME TypeOK, Replied, NEW h \in Handlers, Serve(h)
    PROVE  Replied'
<1> USE DEF AnsweredPcs, PublishPcs, Failures, At, Goto, Answer, TypeOK
<1>0. /\ OthersStay(h) /\ (reply[h] # "NONE" <=> pc[h] \in AnsweredPcs)
      /\ pc[h] \in PublishPcs \cup {"deactivate"} => reply[h] = "SUCCESS"
      /\ req[h] \in Requests \/ pc[h] = "idle"
  BY ServeStays DEF Replied, InFlight
<1>1. CASE CheckGroupHash(h) \/ FindPipeline(h) \/ CheckActive(h)
  BY <1>0, <1>1 DEF CheckGroupHash, FindPipeline, CheckActive, OthersStay, Replied
<1>2. CASE CheckIteration(h)
  <2>1. CallPc(req[h].op) \notin AnsweredPcs
    BY DEF CallPc
  <2> QED
    BY <1>0, <1>2, <2>1 DEF CheckIteration, OthersStay, Replied
<1>3. CASE Reserve(h) \/ BackendStart(h) \/ Release(h) \/ PublishIteration(h) \/ PublishActive(h)
  BY <1>0, <1>3 DEF Reserve, BackendStart, Release, PublishIteration, PublishActive,
                    OthersStay, Replied
<1>4. CASE BackendStage(h) \/ BackendExecute(h) \/ BackendCleanup(h) \/ Deactivate(h)
  BY <1>0, <1>4 DEF BackendStage, BackendExecute, BackendCleanup, Deactivate,
                    OthersStay, Replied
<1>5. CASE AbortActive(h) \/ AbortIteration(h)
  BY <1>0, <1>5 DEF AbortActive, AbortIteration, MayAbort, AfterAbortWrite,
                    OthersStay, Replied
<1>6. CASE CreatePipeline(h) \/ DestroyPipeline(h) \/ NotifyAll(h) \/ Respond(h)
  BY <1>0, <1>6 DEF CreatePipeline, DestroyPipeline, NotifyAll, Respond,
                    OthersStay, Replied
<1> QED
  BY <1>1, <1>2, <1>3, <1>4, <1>5, <1>6 DEF Serve

LEMMA ServeBound ==
    ASSUME TypeOK, Bound, NEW h \in Handlers, Serve(h)
    PROVE  Bound'
<1> USE DEF HoldingPcs, StartPcs, ReleasingPcs, CallPcs, At, Goto, Answer, TypeOK
<1>0. OthersStay(h)
  BY ServeStays
<1>1. CASE CheckGroupHash(h)
  BY <1>0, <1>1 DEF CheckGroupHash, Bound, OthersStay
<1>2. CASE Respond(h)
  BY <1>0, <1>2 DEF Respond, Bound, OthersStay
<1>3. CASE FindPipeline(h) \/ CheckActive(h) \/ CheckIteration(h)
  <2>1. pc[h] # "checkIteration" \/ CallPc(req[h].op) \in HoldingPcs
    BY DEF CallPc
  <2>2. pc'[h] \in HoldingPcs \cup {"respond"}
    BY <1>3, <2>1 DEF FindPipeline, CheckActive, CheckIteration
  <2> QED
    BY <1>0, <2>2 DEF Bound, OthersStay
<1>4. CASE \/ Reserve(h) \/ BackendStart(h) \/ Release(h) \/ PublishIteration(h)
           \/ PublishActive(h) \/ NotifyAll(h) \/ CreatePipeline(h) \/ DestroyPipeline(h)
  <2>1. pc'[h] \in HoldingPcs \cup {"respond"}
    BY <1>4 DEF Reserve, BackendStart, Release, PublishIteration, PublishActive, NotifyAll,
                CreatePipeline, DestroyPipeline
  <2> QED
    BY <1>0, <2>1 DEF Bound, OthersStay
<1>5. CASE \/ BackendStage(h) \/ BackendExecute(h) \/ BackendCleanup(h) \/ Deactivate(h)
           \/ AbortActive(h) \/ AbortIteration(h)
  <2>1. pc'[h] \in HoldingPcs \cup {"respond"}
    BY <1>5 DEF BackendStage, BackendExecute, BackendCleanup, Deactivate,
                AbortActive, AbortIteration, AfterAbortWrite
  <2> QED
    BY <1>0, <2>1 DEF Bound, OthersStay
<1> QED
  BY <1>1, <1>2, <1>3, <1>4, <1>5 DEF Serve

\* Nobody touches the object of a start that was admitted.
LEMMA NextAdmitted ==
    ASSUME TypeOK, ChecksStillHold, Admitted, [Next]_vars
    PROVE  Admitted'
<1> DEFINE Admits(g) ==
             /\ pc[g] \in {"reserve", "callStart"}
                  => ~Inferior(iteration[obj[g]], req[g].iteration)
             /\ pc[g] = "autoCleanup" => req[g].auto
<1>1. ASSUME NEW h \in Handlers, NEW r \in Requests, Receive(h, r) PROVE Admitted'
  BY <1>1, ReceiveStays DEF Admitted, OthersStay
<1>2. ASSUME NEW h \in Handlers, Serve(h) PROVE Admitted'
  <2>1. OthersStay(h)
    BY <1>2, ServeStays
  <2>2. ASSUME NEW g \in Handlers, g # h PROVE Admits(g)'
    <3>1. CASE UNCHANGED iteration
      BY <2>1, <2>2, <3>1 DEF Admitted, OthersStay
    <3>2. CASE PublishIteration(h) \/ AbortIteration(h)
      <4>1. /\ pc[h] \in HoldingPcs /\ "stage" \notin OpAt(pc[h])
            /\ \E i : iteration' = [iteration EXCEPT ![obj[h]] = i]
        BY <3>2 DEF PublishIteration, AbortIteration, MayAbort, At, HoldingPcs, StartPcs,
                    CallPcs, ReleasingPcs, OpAt
      <4>2. req[h].op # "stage"
        BY <4>1 DEF ChecksStillHold, HandlerConsistent
      <4>3. pc[g] \in HoldingPcs => obj[g] \in Objects /\ obj[g] # obj[h]
        BY <2>2, <4>1, <4>2, Alone DEF TypeOK
      <4>4. pc[g] \in HoldingPcs => iteration'[obj[g]] = iteration[obj[g]]
        BY <4>1, <4>3 DEF TypeOK
      <4> QED
        BY <2>1, <2>2, <4>4 DEF Admitted, OthersStay, HoldingPcs, StartPcs
    <3> QED
      BY <1>2, <3>1, <3>2 DEF Serve, CheckGroupHash, FindPipeline, CheckActive,
         CheckIteration, Reserve, BackendStart, Release, PublishActive, BackendStage,
         BackendExecute, BackendCleanup, Deactivate, AbortActive, CreatePipeline,
         DestroyPipeline, NotifyAll, Respond, objectVars
  <2>3. Admits(h)'
    <3> USE DEF At, Goto, Answer, TypeOK
    <3>1. CASE CheckIteration(h)
      BY <3>1 DEF CheckIteration, CallPc, objectVars
    <3>2. CASE Reserve(h)
      BY <3>2 DEF Reserve, Admitted, objectVars
    <3>3. CASE pc'[h] \notin {"reserve", "callStart", "autoCleanup"}
      BY <3>3
    <3>7. CASE BackendExecute(h)
      BY <3>7 DEF BackendExecute
    <3>4. CASE CheckGroupHash(h) \/ FindPipeline(h) \/ CheckActive(h) \/ BackendStart(h)
                 \/ Release(h) \/ PublishIteration(h) \/ PublishActive(h)
      BY <3>3, <3>4 DEF CheckGroupHash, FindPipeline, CheckActive, BackendStart, Release,
                        PublishIteration, PublishActive
    <3>5. CASE BackendStage(h) \/ BackendCleanup(h) \/ Deactivate(h)
                 \/ AbortActive(h) \/ AbortIteration(h)
      BY <3>3, <3>5 DEF BackendStage, BackendCleanup, Deactivate,
                        AbortActive, AbortIteration, AfterAbortWrite
    <3>6. CASE CreatePipeline(h) \/ DestroyPipeline(h) \/ NotifyAll(h) \/ Respond(h)
      BY <3>3, <3>6 DEF CreatePipeline, DestroyPipeline, NotifyAll, Respond
    <3> QED
      BY <1>2, <3>1, <3>2, <3>4, <3>5, <3>6, <3>7 DEF Serve
  <2> QED
    BY <2>2, <2>3 DEF Admitted
<1>3. ASSUME NEW l \in Leavers, LeaveReceive(l) \/ Leave(l) PROVE Admitted'
  BY <1>3, LeaveStays DEF Admitted
<1>4. ASSUME UNCHANGED vars PROVE Admitted'
  BY <1>4 DEF vars, objectVars, handlerVars, Admitted
<1> QED
  BY <1>1, <1>2, <1>3, <1>4 DEF Next, Finalized

LEMMA NextServed ==
    ASSUME TypeOK, Replied, Bound, [Next]_vars
    PROVE  Replied' /\ Bound'
<1>1. ASSUME NEW h \in Handlers, NEW r \in Requests, Receive(h, r)
      PROVE  Replied' /\ Bound'
  <2>1. /\ OthersStay(h) /\ UNCHANGED <<obj, reply>>
        /\ pc[h] = "idle" /\ pc'[h] \in {"hash", "create", "destroy", "find"}
    BY <1>1, ReceiveStays
  <2>2. /\ pc'[h] \notin AnsweredPcs /\ pc[h] \notin AnsweredPcs
        /\ pc'[h] \notin PublishPcs \cup {"deactivate"}
        /\ pc[h] \notin HoldingPcs \cup {"respond"}
    BY <2>1 DEF HoldingPcs, StartPcs, ReleasingPcs, CallPcs, AnsweredPcs, PublishPcs
  <2> QED
    BY <2>1, <2>2 DEF Replied, Bound, OthersStay
<1>2. ASSUME NEW h \in Handlers, Serve(h) PROVE Replied' /\ Bound'
  BY <1>2, ServeReplied, ServeBound
<1>3. ASSUME NEW l \in Leavers, LeaveReceive(l) \/ Leave(l) PROVE Replied' /\ Bound'
  BY <1>3, LeaveStays DEF Replied, Bound
<1>4. ASSUME UNCHANGED vars PROVE Replied' /\ Bound'
  BY <1>4 DEF vars, handlerVars, Replied, Bound
<1> QED
  BY <1>1, <1>2, <1>3, <1>4 DEF Next, Finalized

LEMMA InitServed == Init => Replied /\ Bound /\ Admitted
BY DEF Init, Replied, Bound, Admitted, AnsweredPcs, PublishPcs

LEMMA AtomicInvariant == ASSUME Synchronous PROVE Spec => []AtomicInv
<1>1. Init => Replied /\ Bound /\ Admitted
  BY InitServed
<1>2. CountInv /\ Replied /\ Bound /\ Admitted /\ [Next]_vars
        => Replied' /\ Bound' /\ Admitted'
  BY NextServed, NextAdmitted DEF CountInv
<1>3. CountInv => View
  BY ViewHolds DEF CountInv
<1> HIDE DEF CountInv
<1> QED
  BY <1>1, <1>2, <1>3, DataInvariant, PTL DEF Spec, AtomicInv

------------------------------------------------------------------------------
(* What a step does not show. *)

\* An object whose fields h does not touch looks the same.
LEMMA Frame ==
    ASSUME View, View', NEW h \in Handlers, OthersStay(h),
           NEW o \in Objects,
           pc[h] \in WritingPcs => obj[h] # o,
           pc'[h] \in WritingPcs => obj'[h] # o,
           o \in active' <=> o \in active, iteration'[o] = iteration[o]
    PROVE  (o \in Running' <=> o \in Running) /\ LastIteration'[o] = LastIteration[o]
<1>1. CASE Unwritten(o)
  <2>1. Unwritten(o)'
    BY <1>1 DEF Unwritten, OthersStay
  <2> QED
    BY <1>1, <2>1 DEF View
<1>2. CASE ~Unwritten(o)
  <2>1. PICK g \in Handlers : pc[g] \in WritingPcs /\ obj[g] = o
    BY <1>2 DEF Unwritten
  <2>2. pc'[g] = pc[g] /\ req'[g] = req[g] /\ obj'[g] = obj[g]
    BY <2>1 DEF OthersStay
  <2>3. Written(g) /\ Written(g)'
    BY <2>1, <2>2 DEF View
  <2> QED
    BY <2>1, <2>2, <2>3 DEF Written
<1> QED
  BY <1>1, <1>2

\* The fields of objects that are not the one h holds.
LEMMA OthersSame ==
    ASSUME View, View', NEW h \in Handlers, OthersStay(h), obj'[h] = obj[h],
           \A o \in Objects : o # obj[h] => /\ o \in active' <=> o \in active
                                            /\ iteration'[o] = iteration[o]
    PROVE  \A o \in Objects : o # obj[h] => /\ o \in Running' <=> o \in Running
                                            /\ LastIteration'[o] = LastIteration[o]
  BY Frame

LEMMA SameMapping ==
    ASSUME \A o \in Objects : /\ o \in Running' <=> o \in Running
                              /\ LastIteration'[o] = LastIteration[o]
    PROVE  Running' = Running /\ LastIteration' = LastIteration
<1>1. Running \subseteq Objects /\ Running' \subseteq Objects
  BY DEF Running
<1>2. /\ LastIteration = [o \in Objects |-> LastIteration[o]]
      /\ LastIteration' = [o \in Objects |-> LastIteration'[o]]
  BY DEF LastIteration
<1> QED
  BY <1>1, <1>2

LEMMA OutcomeOf ==
    ASSUME NEW h \in Handlers, OthersStay(h)
    PROVE  Outcome' = [Outcome EXCEPT ![h] = Outcome'[h]]
<1>1. \A g \in Handlers : g # h => Outcome'[g] = Outcome[g]
  BY DEF Outcome, OthersStay, At
<1>2. /\ Outcome = [g \in Handlers |-> Outcome[g]]
      /\ Outcome' = [g \in Handlers |-> Outcome'[g]]
  BY DEF Outcome
<1> QED
  BY <1>1, <1>2

\* A step that leaves the fields of all objects alone.
LEMMA Unseen ==
    ASSUME View, View', NEW h \in Handlers, OthersStay(h),
           pc[h] \notin WritingPcs, pc'[h] \notin WritingPcs,
           UNCHANGED <<active, iteration>>
    PROVE  UNCHANGED <<Running, LastIteration>>
<1>1. \A o \in Objects : /\ o \in Running' <=> o \in Running
                         /\ LastIteration'[o] = LastIteration[o]
  BY Frame
<1> QED
  BY <1>1, SameMapping

\* A step of h shows at its own object only.
LEMMA OwnObject ==
    ASSUME View, View', NEW h \in Handlers, OthersStay(h), obj[h] \in Objects,
           obj'[h] = obj[h],
           \A o \in Objects : o # obj[h] => /\ o \in active' <=> o \in active
                                            /\ iteration'[o] = iteration[o]
    PROVE  /\ LastIteration' = [LastIteration EXCEPT ![obj[h]] = LastIteration'[obj[h]]]
           /\ obj[h] \in Running' => Running' = Running \cup {obj[h]}
           /\ obj[h] \notin Running' => Running' = Running \ {obj[h]}
           /\ /\ obj[h] \in Running' <=> obj[h] \in Running
              /\ LastIteration'[obj[h]] = LastIteration[obj[h]]
              => UNCHANGED <<Running, LastIteration>>
<1>1. \A o \in Objects : o # obj[h] => /\ o \in Running' <=> o \in Running
                                       /\ LastIteration'[o] = LastIteration[o]
  BY OthersSame
<1>2. Running \subseteq Objects /\ Running' \subseteq Objects
  BY DEF Running
<1>3. /\ LastIteration = [o \in Objects |-> LastIteration[o]]
      /\ LastIteration' = [o \in Objects |-> LastIteration'[o]]
  BY DEF LastIteration
<1>4. LastIteration' = [LastIteration EXCEPT ![obj[h]] = LastIteration'[obj[h]]]
  BY <1>1, <1>3
<1>5. /\ obj[h] \in Running' => Running' = Running \cup {obj[h]}
      /\ obj[h] \notin Running' => Running' = Running \ {obj[h]}
  BY <1>1, <1>2
<1>6. /\ obj[h] \in Running' <=> obj[h] \in Running
      /\ LastIteration'[obj[h]] = LastIteration[obj[h]]
      => UNCHANGED <<Running, LastIteration>>
  BY <1>1, SameMapping
<1> QED
  BY <1>4, <1>5, <1>6

\* When the handler that wrote an object is done, nobody writes it.
LEMMA Done ==
    ASSUME TypeOK, ChecksStillHold, NEW h \in Handlers, pc[h] \in WritingPcs, OthersStay(h),
           pc'[h] \notin WritingPcs, obj'[h] = obj[h], View'
    PROVE  /\ obj[h] \in Objects
           /\ obj[h] \in Running' <=> obj[h] \in active'
           /\ LastIteration'[obj[h]] = iteration'[obj[h]]
<1>1. WritingPcs \subseteq HoldingPcs
  BY DEF WritingPcs, PublishPcs, HoldingPcs, StartPcs, ReleasingPcs, CallPcs
<1>2. obj[h] \in Objects
  BY <1>1 DEF TypeOK
<1>3. ASSUME NEW g \in Handlers, pc'[g] \in WritingPcs PROVE obj'[g] # obj[h]
  <2>1. g # h
    BY <1>3
  <2>2. pc'[g] = pc[g] /\ obj'[g] = obj[g]
    BY <2>1 DEF OthersStay
  <2> QED
    BY <1>1, <1>3, <2>1, <2>2, OnlyWriter
<1>4. Unwritten(obj[h])'
  BY <1>3 DEF OthersStay, Unwritten
<1> QED
  BY <1>2, <1>4 DEF View

\* What the handler of a call knows of its object before it writes.
LEMMA Sight ==
    ASSUME AtomicInv, NEW h \in Handlers, pc[h] \in HoldingPcs \ WritingPcs
    PROVE  /\ obj[h] \in Objects /\ obj[h] # NoObject
           /\ req[h].name \in Names /\ req[h].iteration \in Iterations
           /\ obj[h] \in Running <=> obj[h] \in active
           /\ LastIteration[obj[h]] = iteration[obj[h]]
           /\ iteration[obj[h]] \in Iterations
           /\ Knows(h) /\ HandlerConsistent(h)
<1>1. TypeOK /\ ChecksStillHold /\ DataInv /\ View
  BY DEF AtomicInv, CountInv
<1>2. /\ obj[h] \in Objects /\ obj[h][1] = req[h].name /\ req[h].name \in Names
      /\ req[h].iteration \in Iterations /\ Knows(h) /\ HandlerConsistent(h)
  BY <1>1, Held
<1>3. Unwritten(obj[h])
  BY <1>1 DEF View
<1>4. iteration[obj[h]] \in Iterations
  BY <1>1, <1>2 DEF TypeOK
<1> QED
  BY <1>1, <1>2, <1>3, <1>4, Distinguished DEF View

------------------------------------------------------------------------------
(* Steps that show nothing, and refusals. *)

\* A step of h that changes no object and no name.
Still(h) ==
    /\ OthersStay(h) /\ req' = req
    /\ UNCHANGED <<active, iteration, data, m_pipelines, created, left>>
    /\ pc[h] \notin WritingPcs \cup {"idle"}
    /\ pc'[h] \notin WritingPcs \cup {"idle"}

LEMMA StillSame ==
    ASSUME View, View', NEW h \in Handlers, Still(h)
    PROVE  /\ UNCHANGED <<m_pipelines, Made, Running, LastIteration, Loaded, left, req>>
           /\ Outcome[h] = reply[h]
           /\ Outcome' = [Outcome EXCEPT ![h] = reply'[h]]
<1>1. UNCHANGED <<Running, LastIteration>>
  BY Unseen DEF Still
<1>2. UNCHANGED <<Made, Loaded>>
  BY DEF Still, Made, Loaded
<1>3. Outcome' = [Outcome EXCEPT ![h] = Outcome'[h]]
  BY OutcomeOf DEF Still
<1>4. Outcome[h] = reply[h] /\ Outcome'[h] = reply'[h]
  BY DEF Still, Outcome, At, WritingPcs, ReleasingPcs
<1> QED
  BY <1>1, <1>2, <1>3, <1>4 DEF Still

LEMMA Stutters ==
    ASSUME View, View', NEW h \in Handlers, Still(h), obj' = obj, reply'[h] = reply[h]
    PROVE  UNCHANGED Atomic!vars
<1>1. /\ UNCHANGED <<m_pipelines, Made, Running, LastIteration, Loaded, left, req>>
      /\ Outcome[h] = reply[h]
      /\ Outcome' = [Outcome EXCEPT ![h] = reply'[h]]
  BY StillSame
<1>2. Outcome' = Outcome
  <2>1. Outcome = [g \in Handlers |-> Outcome[g]]
    BY DEF Outcome
  <2> QED
    BY <1>1, <2>1
<1> QED
  BY <1>1, <1>2 DEF Atomic!vars, Atomic!pipelineVars

LEMMA Refuses ==
    ASSUME View, View', NEW h \in Handlers, Still(h), obj' = obj, reply[h] = "NONE",
           NEW code \in Failures, reply'[h] = code, Atomic!Reason(h, code)
    PROVE  Atomic!Next
<1>1. /\ UNCHANGED <<m_pipelines, Made, Running, LastIteration, Loaded, left, req>>
      /\ Outcome[h] = reply[h]
      /\ Outcome' = [Outcome EXCEPT ![h] = reply'[h]]
  BY StillSame
<1>2. Atomic!Refuse(h, code)
  BY <1>1 DEF Atomic!Refuse, Atomic!Answer, Atomic!pipelineVars
<1>3. code \in Atomic!Codes
  BY DEF Failures, Atomic!Codes
<1> QED
  BY <1>2, <1>3 DEF Atomic!Next

LEMMA OpsAt ==
    /\ OpAt("hash") = {"start"} /\ OpAt("callStart") = {"start"}
    /\ OpAt("find") = AllOps \ {"create", "destroy"}
    /\ OpAt("callStage") = {"stage"}
    /\ OpAt("callExecute") = {"execute"} /\ OpAt("autoCleanup") = {"execute"}
    /\ OpAt("callCleanup") = {"cleanup"} /\ OpAt("callAbort") = {"abort"}
  BY DEF OpAt, HoldingPcs, StartPcs, ReleasingPcs, CallPcs

Shown == Atomic!Next \/ UNCHANGED Atomic!vars

LEMMA CheckingShown ==
    ASSUME AtomicInv, View', NEW h \in Handlers,
           CheckGroupHash(h) \/ FindPipeline(h) \/ CheckActive(h) \/ CheckIteration(h)
    PROVE  Shown
<1> DEFINE o == obj[h]
           c == req[h]
<1> USE DEF At, Goto, Answer
<1>0. /\ TypeOK /\ ChecksStillHold /\ View
      /\ reply[h] # "NONE" <=> pc[h] \in AnsweredPcs
  BY DEF AtomicInv, CountInv, Replied
<1>1. pc[h] \in {"hash", "find", "checkActive", "checkIteration"}
  BY DEF CheckGroupHash, FindPipeline, CheckActive, CheckIteration
<1>2. /\ c \in Requests /\ c.name \in Names /\ c.op \in AllOps
      /\ c.iteration \in Iterations
  BY <1>0, <1>1, RequestFields DEF TypeOK, InFlight
<1>3. CallPc(c.op) \in {"reserve", "callStage", "callExecute", "callCleanup", "callAbort"}
  BY DEF CallPc
<1>4. /\ pc'[h] \in {"find", "checkActive", "checkIteration", "respond", "reserve",
                     "callStage", "callExecute", "callCleanup", "callAbort"}
      /\ UNCHANGED <<active, iteration, data, m_pipelines, created, left, req>>
  BY <1>0, <1>3 DEF CheckGroupHash, FindPipeline, CheckActive, CheckIteration, TypeOK,
                    objectVars, tableVars
<1>5. Still(h)
  BY <1>0, <1>1, <1>4, ServeStays DEF Still, Serve, WritingPcs, PublishPcs
<1>6. reply[h] = "NONE" /\ Outcome[h] = "NONE"
  BY <1>0, <1>1 DEF AnsweredPcs, PublishPcs, Outcome, ReleasingPcs
<1>7. c.op \in OpAt(pc[h])
  BY <1>0, <1>1 DEF ChecksStillHold, HandlerConsistent, HoldingPcs
<1>8. ASSUME UNCHANGED <<obj, reply>> PROVE Shown
  BY <1>0, <1>5, <1>8, Stutters DEF Shown
<1>9. ASSUME NEW code \in Failures, obj' = obj, reply' = [reply EXCEPT ![h] = code],
             Atomic!Reason(h, code)
      PROVE  Shown
  <2>1. reply'[h] = code
    BY <1>0, <1>9 DEF TypeOK
  <2> QED
    BY <1>0, <1>5, <1>6, <1>9, <2>1, Refuses DEF Shown
<1>10. CASE CheckGroupHash(h)
  <2>1. CASE reply' = [reply EXCEPT ![h] = "INVALID_GROUP_HASH"]
    <3>1. c.op = "start"
      <4>1. pc[h] = "hash"
        BY <1>10 DEF CheckGroupHash
      <4> QED
        BY <1>7, <4>1, OpsAt
    <3>2. obj[h] = NoObject
      BY <1>10 DEF AtomicInv, Bound, CheckGroupHash, HoldingPcs, StartPcs, ReleasingPcs, CallPcs
    <3>3. Atomic!Reason(h, "INVALID_GROUP_HASH")
      BY <3>1, <3>2 DEF Atomic!Reason
    <3> QED
      BY <1>9, <1>10, <2>1, <3>3 DEF Failures, CheckGroupHash
  <2> QED
    BY <1>8, <1>10, <2>1 DEF CheckGroupHash
<1>11. CASE FindPipeline(h)
  <2>1. c.op \in AllOps \ {"create", "destroy"}
    <3>1. pc[h] = "find"
      BY <1>11 DEF FindPipeline
    <3> QED
      BY <1>7, <3>1, OpsAt
  <2>a. o = NoObject
    BY <1>11 DEF AtomicInv, Bound, FindPipeline, HoldingPcs, StartPcs, ReleasingPcs, CallPcs
  <2>2. CASE m_pipelines[c.name] = NoObject
    <3>1. obj' = obj /\ reply' = [reply EXCEPT ![h] = "INVALID_PIPELINE_NAME"]
      BY <1>11, <2>2 DEF FindPipeline
    <3>2. Atomic!Reason(h, "INVALID_PIPELINE_NAME")
      BY <2>1, <2>a, <2>2 DEF Atomic!Reason
    <3> QED
      BY <1>9, <3>1, <3>2 DEF Failures
  <2>3. CASE m_pipelines[c.name] # NoObject /\ c.op = "check"
    <3>1. obj' = obj /\ reply' = [reply EXCEPT ![h] = "SUCCESS"]
      BY <1>11, <2>3 DEF FindPipeline
    <3>2. /\ UNCHANGED <<m_pipelines, Made, Running, LastIteration, Loaded, left, req>>
          /\ Outcome' = [Outcome EXCEPT ![h] = reply'[h]]
      BY <1>0, <1>5, StillSame
    <3>3. reply'[h] = "SUCCESS"
      BY <1>0, <3>1 DEF TypeOK
    <3>4. Atomic!Check(h)
      BY <1>6, <2>3, <3>1, <3>2, <3>3 DEF Atomic!Check, Atomic!Answer, Atomic!pipelineVars
    <3> QED
      BY <3>4 DEF Atomic!Next, Shown
  <2>4. CASE m_pipelines[c.name] # NoObject /\ c.op # "check"
    <3>1. obj' = [obj EXCEPT ![h] = m_pipelines[c.name]] /\ reply' = reply
      BY <1>11, <2>4 DEF FindPipeline
    <3>2. /\ UNCHANGED <<m_pipelines, Made, Running, LastIteration, Loaded, left, req>>
          /\ Outcome' = [Outcome EXCEPT ![h] = reply'[h]]
      BY <1>0, <1>5, StillSame
    <3>3. Outcome' = Outcome
      <4>1. Outcome = [g \in Handlers |-> Outcome[g]]
        BY DEF Outcome
      <4> QED
        BY <1>6, <3>1, <3>2, <4>1
    <3>4. c.op \in Atomic!PipelineOps
      BY <2>1, <2>4 DEF AllOps, Atomic!PipelineOps
    <3>5. Atomic!Find(h)
      BY <1>6, <2>a, <2>4, <3>1, <3>2, <3>3, <3>4 DEF Atomic!Find, Atomic!pipelineVars
    <3> QED
      BY <3>5 DEF Atomic!Next, Shown
  <2> QED
    BY <2>2, <2>3, <2>4
<1>12. CASE CheckActive(h) \/ CheckIteration(h)
  <2>1. pc[h] \in {"checkActive", "checkIteration"}
    BY <1>12 DEF CheckActive, CheckIteration
  <2>2. pc[h] \in HoldingPcs \ WritingPcs
    BY <2>1 DEF HoldingPcs, WritingPcs, PublishPcs
  <2>3. /\ o # NoObject
        /\ o \in Running <=> o \in active
        /\ LastIteration[o] = iteration[o] /\ iteration[o] \in Iterations
        /\ HandlerConsistent(h)
    BY <2>2, Sight
  <2>4. c.op \in Atomic!PipelineOps
    BY <1>7, <2>1 DEF OpAt, AllOps, Atomic!PipelineOps, StartPcs, ReleasingPcs
  <2>a. obj' = obj
    BY <1>12 DEF CheckActive, CheckIteration
  <2>5. ASSUME NEW code \in Failures, reply' = [reply EXCEPT ![h] = code],
               Atomic!Obstacle(o, c, code)
        PROVE  Shown
    BY <1>9, <2>3, <2>4, <2>a, <2>5 DEF Atomic!Reason
  <2>6. CASE CheckActive(h)
    <3>1. CASE c.op = "start" /\ o \in active
      <4>1. reply' = [reply EXCEPT ![h] = "PIPELINE_IS_ACTIVE"]
        BY <2>6, <3>1 DEF CheckActive
      <4> QED
        BY <2>3, <2>5, <3>1, <4>1 DEF Atomic!Obstacle, Failures
    <3>2. CASE c.op # "start" /\ o \notin active
      <4>1. reply' = [reply EXCEPT ![h] = "PIPELINE_NOT_ACTIVE"]
        BY <2>6, <3>2 DEF CheckActive
      <4> QED
        BY <2>3, <2>5, <3>2, <4>1 DEF Atomic!Obstacle, Failures
    <3> QED
      BY <1>8, <2>6, <3>1, <3>2 DEF CheckActive
  <2>7. CASE CheckIteration(h)
    <3>1. CASE reply' = [reply EXCEPT ![h] = "INVALID_ITERATION"]
      <4>1. c.op = "start" <=> o \notin active
        BY <2>3, <2>7 DEF CheckIteration, HandlerConsistent, SawInactive, SawActive
      <4>2. reply'[h] = "INVALID_ITERATION"
        BY <1>0, <3>1 DEF TypeOK
      <4>3. IF c.op = "start" THEN Inferior(iteration[o], c.iteration)
            ELSE iteration[o] # c.iteration
        BY <1>6, <2>7, <4>2 DEF CheckIteration
      <4>4. ~Atomic!Accepts(o, c)
        BY <1>2, <2>3, <4>3, BoundsNat
           DEF Inferior, Iterations, Atomic!Accepts, Atomic!Startable, Atomic!RunsAt
      <4>5. Atomic!Obstacle(o, c, "INVALID_ITERATION")
        BY <2>3, <4>1, <4>4 DEF Atomic!Obstacle
      <4> QED
        BY <2>5, <3>1, <4>5 DEF Failures
    <3> QED
      BY <1>8, <2>7, <3>1 DEF CheckIteration
  <2> QED
    BY <1>12, <2>6, <2>7
<1> QED
  BY <1>10, <1>11, <1>12

\* The other steps that show nothing.
LEMMA QuietShown ==
    ASSUME AtomicInv, View', NEW h \in Handlers,
           Reserve(h) \/ Release(h) \/ NotifyAll(h)
    PROVE  Shown
<1> USE DEF At, Goto
<1>1. TypeOK /\ View
  BY DEF AtomicInv, CountInv
<1>2. /\ pc[h] \in {"reserve", "release", "notify"}
      /\ pc'[h] \in {"callStart", "notify", "respond"}
      /\ UNCHANGED <<active, iteration, data, m_pipelines, created, left, req, obj, reply>>
  BY <1>1 DEF Reserve, Release, NotifyAll, TypeOK, objectVars, tableVars
<1>3. Still(h)
  BY <1>1, <1>2, ServeStays DEF Still, Serve, WritingPcs, PublishPcs
<1> QED
  BY <1>1, <1>2, <1>3, Stutters DEF Shown

------------------------------------------------------------------------------
(* Calls of the backend. *)

\* A handler that calls the backend serves a request its object accepts.
LEMMA Accepted ==
    ASSUME AtomicInv, NEW h \in Handlers, pc[h] \in CallPcs \cup {"callStart"}
    PROVE  /\ obj[h] \in Objects /\ obj[h] # NoObject
           /\ obj[h] \in Running <=> obj[h] \in active
           /\ LastIteration[obj[h]] = iteration[obj[h]]
           /\ req[h].iteration \in Iterations
           /\ Outcome[h] = "NONE" /\ reply[h] = "NONE"
           /\ req[h].op \in OpAt(pc[h])
           /\ Atomic!Accepts(obj[h], req[h])
           /\ pc[h] \in CallPcs => /\ obj[h] \in active
                                   /\ iteration[obj[h]] = req[h].iteration
<1> DEFINE o == obj[h]
           c == req[h]
<1>1. pc[h] \in HoldingPcs \ WritingPcs
  BY DEF HoldingPcs, StartPcs, CallPcs, WritingPcs, PublishPcs
<1>2. /\ o \in Objects /\ o # NoObject
      /\ o \in Running <=> o \in active
      /\ LastIteration[o] = iteration[o] /\ iteration[o] \in Iterations
      /\ c.iteration \in Iterations
      /\ Knows(h) /\ HandlerConsistent(h)
  BY <1>1, Sight
<1>3. reply[h] = "NONE"
  BY DEF AtomicInv, Replied, AnsweredPcs, PublishPcs, CallPcs
<1>4. Outcome[h] = "NONE"
  BY <1>3 DEF Outcome, At, CallPcs, ReleasingPcs
<1>5. c.op \in OpAt(pc[h])
  BY <1>1, <1>2 DEF HandlerConsistent
<1>6. CASE pc[h] = "callStart"
  <2>1. c.op = "start" /\ o \notin active
    BY <1>2, <1>5, <1>6, OpsAt DEF HandlerConsistent, SawInactive, ChargedPcs
  <2>2. ~Inferior(iteration[o], c.iteration)
    BY <1>6 DEF AtomicInv, Admitted
  <2>3. Atomic!Accepts(o, c)
    BY <1>2, <2>1, <2>2, BoundsNat DEF Inferior, Iterations, Atomic!Accepts, Atomic!Startable
  <2> QED
    BY <1>2, <1>3, <1>4, <1>5, <1>6, <2>3 DEF CallPcs
<1>7. CASE pc[h] \in CallPcs
  <2>1. o \in active /\ iteration[o] = c.iteration
    BY <1>2, <1>7 DEF HandlerConsistent, SawActive, Knows
  <2>2. c.op # "start"
    BY <1>5, <1>7, OpsAt DEF CallPcs
  <2>3. Atomic!Accepts(o, c)
    BY <1>2, <2>1, <2>2 DEF Atomic!Accepts, Atomic!RunsAt
  <2> QED
    BY <1>2, <1>3, <1>4, <1>5, <2>1, <2>3
<1> QED
  BY <1>6, <1>7

LEMMA BackendFails ==
    ASSUME AtomicInv, View', NEW h \in Handlers, Still(h), obj' = obj,
           pc[h] \in (CallPcs \ {"callAbort"}) \cup {"callStart"},
           reply'[h] = "BACKEND_ERROR"
    PROVE  Shown
<1>1. /\ obj[h] # NoObject /\ reply[h] = "NONE"
      /\ req[h].op \in OpAt(pc[h]) /\ Atomic!Accepts(obj[h], req[h])
  BY Accepted
<1>2. req[h].op \in Atomic!PipelineOps \ {"abort"}
  BY <1>1, OpsAt DEF CallPcs, Atomic!PipelineOps
<1>3. Atomic!Obstacle(obj[h], req[h], "BACKEND_ERROR")
  BY <1>1, <1>2 DEF Atomic!Obstacle
<1>4. Atomic!Reason(h, "BACKEND_ERROR")
  BY <1>1, <1>2, <1>3 DEF Atomic!Reason
<1> QED
  BY <1>1, <1>4, Refuses DEF Failures, AtomicInv, Shown

LEMMA StartShown ==
    ASSUME AtomicInv, View', NEW h \in Handlers, BackendStart(h)
    PROVE  Shown
<1> DEFINE o == obj[h]
<1> USE DEF At, Goto
<1>1. TypeOK /\ View /\ OthersStay(h)
  BY ServeStays DEF AtomicInv, CountInv, Serve
<1>2. /\ pc[h] = "callStart" /\ pc'[h] \in {"publish", "release"}
      /\ UNCHANGED <<active, iteration, data, m_pipelines, created, left, req, obj>>
      /\ reply'[h] = IF pc'[h] = "publish" THEN "SUCCESS" ELSE "BACKEND_ERROR"
  BY <1>1 DEF BackendStart, TypeOK, objectVars, tableVars
<1>3. /\ o \in Objects /\ o # NoObject
      /\ Outcome[h] = "NONE" /\ req[h].op \in OpAt(pc[h])
      /\ Atomic!Accepts(o, req[h])
  BY <1>2, Accepted
<1>4. CASE pc'[h] = "publish"
  <2>1. Written(h)'
    BY <1>4 DEF View, WritingPcs, PublishPcs
  <2>2. o \in Running' /\ LastIteration'[o] = req[h].iteration
    BY <1>2, <1>4, <2>1 DEF Written, PublishPcs
  <2>3. /\ LastIteration' = [LastIteration EXCEPT ![o] = LastIteration'[o]]
        /\ Running' = Running \cup {o}
    BY <1>1, <1>2, <1>3, <2>2, OwnObject DEF AtomicInv
  <2>4. UNCHANGED <<Made, Loaded>>
    BY <1>2 DEF Made, Loaded
  <2>5. Outcome' = [Outcome EXCEPT ![h] = "SUCCESS"]
    <3>1. Outcome' = [Outcome EXCEPT ![h] = Outcome'[h]]
      BY <1>1, OutcomeOf
    <3>2. Outcome'[h] = "SUCCESS"
      BY <1>2, <1>4 DEF Outcome, ReleasingPcs
    <3> QED
      BY <3>1, <3>2
  <2>6. req[h].op = "start"
    BY <1>2, <1>3, OpsAt
  <2>7. Atomic!Serves(h, "start", o)
    BY <1>3, <2>6 DEF Atomic!Serves
  <2>8. Atomic!Start(h, o)
    BY <1>2, <2>2, <2>3, <2>4, <2>5, <2>7 DEF Atomic!Start, Atomic!Answer
  <2> QED
    BY <1>3, <2>8 DEF Atomic!Next, Shown
<1>5. CASE pc'[h] = "release"
  <2>1. Still(h)
    BY <1>1, <1>2, <1>5 DEF Still, WritingPcs, PublishPcs
  <2> QED
    BY <1>2, <1>5, <2>1, BackendFails
<1> QED
  BY <1>2, <1>4, <1>5

LEMMA StageShown ==
    ASSUME AtomicInv, View', NEW h \in Handlers, BackendStage(h)
    PROVE  Shown
<1> DEFINE o == obj[h]
<1> USE DEF At, Goto, Answer
<1>1. TypeOK /\ View /\ OthersStay(h)
  BY ServeStays DEF AtomicInv, CountInv, Serve
<1>2. /\ pc[h] = "callStage" /\ pc'[h] = "respond"
      /\ UNCHANGED <<active, iteration, m_pipelines, created, left, req, obj>>
      /\ \/ reply'[h] = "BACKEND_ERROR" /\ data' = data
         \/ reply'[h] = "SUCCESS" /\ data' = [data EXCEPT ![o] = @ \cup {req[h].iteration}]
  BY <1>1 DEF BackendStage, TypeOK, tableVars
<1>3. /\ o \in Objects /\ o # NoObject
      /\ Outcome[h] = "NONE" /\ req[h].op \in OpAt(pc[h])
      /\ Atomic!Accepts(o, req[h])
  BY <1>2, Accepted DEF CallPcs
<1>4. CASE reply'[h] = "BACKEND_ERROR"
  <2>1. Still(h)
    BY <1>1, <1>2, <1>4 DEF Still, WritingPcs, PublishPcs
  <2> QED
    BY <1>2, <1>4, <2>1, BackendFails DEF CallPcs
<1>5. CASE reply'[h] = "SUCCESS"
  <2>1. UNCHANGED <<Running, LastIteration>>
    BY <1>1, <1>2, Unseen DEF WritingPcs, PublishPcs
  <2>2. Made' = Made /\ Loaded' = Loaded \cup {o}
    BY <1>1, <1>2, <1>3, <1>5 DEF Made, Loaded, TypeOK
  <2>3. Outcome' = [Outcome EXCEPT ![h] = "SUCCESS"]
    <3>1. Outcome' = [Outcome EXCEPT ![h] = Outcome'[h]]
      BY <1>1, OutcomeOf
    <3>2. Outcome'[h] = "SUCCESS"
      BY <1>2, <1>5 DEF Outcome, ReleasingPcs
    <3> QED
      BY <3>1, <3>2
  <2>4. Atomic!Serves(h, "stage", o)
    BY <1>2, <1>3, OpsAt DEF Atomic!Serves
  <2>5. Atomic!Stage(h, o)
    BY <1>2, <2>1, <2>2, <2>3, <2>4 DEF Atomic!Stage, Atomic!Answer
  <2> QED
    BY <1>3, <2>5 DEF Atomic!Next, Shown
<1> QED
  BY <1>2, <1>4, <1>5

LEMMA ExecuteShown ==
    ASSUME AtomicInv, View', NEW h \in Handlers, BackendExecute(h)
    PROVE  Shown
<1> DEFINE o == obj[h]
<1> USE DEF At, Goto, Answer
<1>1. TypeOK /\ View /\ OthersStay(h)
  BY ServeStays DEF AtomicInv, CountInv, Serve
<1>2. /\ pc[h] = "callExecute" /\ pc'[h] \in {"autoCleanup", "respond"}
      /\ UNCHANGED <<active, iteration, data, m_pipelines, created, left, req, obj>>
      /\ \/ reply' = reply
         \/ reply'[h] = "SUCCESS" /\ ~req[h].auto
         \/ reply'[h] = "BACKEND_ERROR"
  BY <1>1 DEF BackendExecute, TypeOK, objectVars, tableVars
<1>3. /\ o \in Objects /\ o # NoObject
      /\ Outcome[h] = "NONE" /\ req[h].op \in OpAt(pc[h])
      /\ Atomic!Accepts(o, req[h])
  BY <1>2, Accepted DEF CallPcs
<1>4. Still(h)
  BY <1>1, <1>2 DEF Still, WritingPcs, PublishPcs
<1>5. CASE reply' = reply
  BY <1>1, <1>2, <1>4, <1>5, Stutters DEF Shown
<1>6. CASE reply'[h] = "BACKEND_ERROR"
  BY <1>2, <1>4, <1>6, BackendFails DEF CallPcs
<1>7. CASE reply'[h] = "SUCCESS" /\ ~req[h].auto
  <2>1. /\ UNCHANGED <<m_pipelines, Made, Running, LastIteration, Loaded, left, req>>
        /\ Outcome' = [Outcome EXCEPT ![h] = reply'[h]]
    BY <1>1, <1>4, StillSame
  <2>2. Atomic!Serves(h, "execute", o)
    BY <1>2, <1>3, OpsAt DEF Atomic!Serves
  <2>3. Atomic!Execute(h, o)
    BY <1>2, <1>7, <2>1, <2>2 DEF Atomic!Execute, Atomic!Answer, Atomic!pipelineVars
  <2> QED
    BY <1>3, <2>3 DEF Atomic!Next, Shown
<1> QED
  BY <1>2, <1>5, <1>6, <1>7

LEMMA CleanupShown ==
    ASSUME AtomicInv, View', NEW h \in Handlers, BackendCleanup(h)
    PROVE  Shown
<1> DEFINE o == obj[h]
<1> USE DEF At, Goto
<1>1. TypeOK /\ View /\ OthersStay(h) /\ NoStrandedData
  BY ServeStays DEF AtomicInv, CountInv, DataInv, Serve
<1>2. /\ pc[h] \in {"autoCleanup", "callCleanup"}
      /\ UNCHANGED <<active, iteration, m_pipelines, created, left, req, obj>>
      /\ \/ /\ reply'[h] = "SUCCESS" /\ pc'[h] = "deactivate"
            /\ data' = [data EXCEPT ![o] = @ \ {req[h].iteration}]
         \/ /\ reply'[h] = "BACKEND_ERROR" /\ pc'[h] \in {"notify", "respond"}
            /\ data' = data
  BY <1>1 DEF BackendCleanup, TypeOK, tableVars
<1>3. /\ o \in Objects /\ o # NoObject
      /\ Outcome[h] = "NONE" /\ req[h].op \in OpAt(pc[h])
      /\ Atomic!Accepts(o, req[h])
      /\ iteration[o] = req[h].iteration
      /\ LastIteration[o] = iteration[o]
  BY <1>2, Accepted DEF CallPcs
<1>4. CASE reply'[h] = "BACKEND_ERROR"
  <2>1. Still(h)
    BY <1>1, <1>2, <1>4 DEF Still, WritingPcs, PublishPcs
  <2> QED
    BY <1>2, <1>4, <2>1, BackendFails DEF CallPcs
<1>5. CASE reply'[h] = "SUCCESS"
  <2>1. pc'[h] = "deactivate" /\ data' = [data EXCEPT ![o] = @ \ {req[h].iteration}]
    BY <1>2, <1>5
  <2>2. Written(h)'
    BY <2>1 DEF View, WritingPcs
  <2>3. o \notin Running' /\ LastIteration'[o] = LastIteration[o]
    BY <1>2, <1>3, <2>1, <2>2 DEF Written, PublishPcs
  <2>4. /\ LastIteration' = [LastIteration EXCEPT ![o] = LastIteration'[o]]
        /\ Running' = Running \ {o}
    BY <1>1, <1>2, <1>3, <2>3, OwnObject DEF AtomicInv
  <2>5. LastIteration' = LastIteration
    <3>1. LastIteration = [x \in Objects |-> LastIteration[x]]
      BY DEF LastIteration
    <3> QED
      BY <2>3, <2>4, <3>1
  <2>6. data'[o] = {}
    BY <1>1, <1>3, <2>1 DEF NoStrandedData, TypeOK
  <2>7. Made' = Made /\ Loaded' = Loaded \ {o}
    BY <1>1, <1>2, <1>3, <2>1, <2>6 DEF Made, Loaded, TypeOK
  <2>8. Outcome' = [Outcome EXCEPT ![h] = "SUCCESS"]
    <3>1. Outcome' = [Outcome EXCEPT ![h] = Outcome'[h]]
      BY <1>1, OutcomeOf
    <3>2. Outcome'[h] = "SUCCESS"
      BY <1>5, <2>1 DEF Outcome, ReleasingPcs
    <3> QED
      BY <3>1, <3>2
  <2>9. \/ Atomic!Serves(h, "cleanup", o)
        \/ Atomic!Serves(h, "execute", o) /\ req[h].auto
    <3>1. pc[h] = "autoCleanup" => req[h].auto
      BY DEF AtomicInv, Admitted
    <3> QED
      BY <1>2, <1>3, <3>1, OpsAt DEF Atomic!Serves
  <2>10. Atomic!End(h, o)
    BY <1>2, <2>4, <2>5, <2>7, <2>8, <2>9 DEF Atomic!End, Atomic!Answer
  <2> QED
    BY <1>3, <2>10 DEF Atomic!Next, Shown
<1> QED
  BY <1>2, <1>4, <1>5

------------------------------------------------------------------------------
(* Writes of the fields. *)

\* A writer that has shown its effect, and leaves its object as it looks.
LEMMA WriterStutters ==
    ASSUME AtomicInv, View', NEW h \in Handlers, OthersStay(h), obj[h] \in Objects,
           UNCHANGED <<data, m_pipelines, created, left, req, obj>>,
           \A o \in Objects : o # obj[h] => /\ o \in active' <=> o \in active
                                            /\ iteration'[o] = iteration[o],
           obj[h] \in Running' <=> obj[h] \in Running,
           LastIteration'[obj[h]] = LastIteration[obj[h]],
           Outcome'[h] = Outcome[h]
    PROVE  UNCHANGED Atomic!vars
<1>1. View
  BY DEF AtomicInv
<1>2. UNCHANGED <<Running, LastIteration>>
  BY <1>1, OwnObject
<1>3. UNCHANGED <<Made, Loaded>>
  BY DEF Made, Loaded
<1>4. Outcome' = Outcome
  <2>1. Outcome' = [Outcome EXCEPT ![h] = Outcome'[h]]
    BY OutcomeOf
  <2>2. Outcome = [g \in Handlers |-> Outcome[g]]
    BY DEF Outcome
  <2> QED
    BY <2>1, <2>2
<1> QED
  BY <1>2, <1>3, <1>4 DEF Atomic!vars, Atomic!pipelineVars

LEMMA PublishShown ==
    ASSUME AtomicInv, View', NEW h \in Handlers, PublishIteration(h) \/ PublishActive(h)
    PROVE  Shown
<1> DEFINE o == obj[h]
<1> USE DEF At, Goto
<1>1. TypeOK /\ ChecksStillHold /\ View /\ OthersStay(h)
  BY ServeStays DEF AtomicInv, CountInv, Serve
<1>2. /\ pc[h] \in PublishPcs /\ pc[h] \in WritingPcs /\ pc[h] \in HoldingPcs
      /\ UNCHANGED <<data, m_pipelines, created, left, req, obj, reply>>
  BY DEF PublishIteration, PublishActive, tableVars, PublishPcs, WritingPcs, HoldingPcs, StartPcs
<1>3. o \in Objects /\ Written(h) /\ HandlerConsistent(h)
  BY <1>1, <1>2 DEF TypeOK, View, ChecksStillHold
<1>4. \A x \in Objects : x # o => /\ x \in active' <=> x \in active
                                  /\ iteration'[x] = iteration[x]
  BY <1>1, <1>3 DEF PublishIteration, PublishActive, TypeOK
<1>5. pc'[h] \in {"publishActive", "publishIteration", "respond"}
  BY <1>1 DEF PublishIteration, PublishActive, TypeOK
<1>6. Outcome'[h] = Outcome[h]
  BY <1>2, <1>5 DEF Outcome, PublishPcs, ReleasingPcs
<1>7. pc'[h] # "respond" => Written(h)'
  BY <1>5 DEF View, WritingPcs, PublishPcs
<1>8. pc'[h] = "respond" => /\ o \in Running' <=> o \in active'
                            /\ LastIteration'[o] = iteration'[o]
  BY <1>1, <1>2, Done DEF WritingPcs, PublishPcs
<1>9. CASE PublishIteration(h)
  <2>1. /\ iteration'[o] = req[h].iteration /\ active' = active
        /\ pc'[h] = IF pc[h] = "publish" THEN "publishActive" ELSE "respond"
        /\ pc[h] \in {"publish", "publishIteration"}
    BY <1>1, <1>3, <1>9 DEF PublishIteration, TypeOK
  <2>2. pc[h] = "publishIteration" => o \in active
    BY <1>3 DEF HandlerConsistent, SawActive
  <2>3. o \in Running' <=> o \in Running
    BY <1>2, <1>3, <1>7, <1>8, <2>1, <2>2 DEF Written, PublishPcs
  <2>4. LastIteration'[o] = LastIteration[o]
    BY <1>2, <1>3, <1>7, <1>8, <2>1 DEF Written
  <2> QED
    BY <1>1, <1>2, <1>3, <1>4, <1>6, <2>3, <2>4, WriterStutters DEF Shown
<1>10. CASE PublishActive(h)
  <2>1. /\ iteration' = iteration /\ o \in active'
        /\ pc'[h] = IF pc[h] = "publish" THEN "publishIteration" ELSE "respond"
        /\ pc[h] \in {"publish", "publishActive"}
    BY <1>1, <1>3, <1>10 DEF PublishActive, TypeOK
  <2>2. o \in Running' <=> o \in Running
    BY <1>2, <1>3, <1>7, <1>8, <2>1 DEF Written, PublishPcs
  <2>3. LastIteration'[o] = LastIteration[o]
    BY <1>2, <1>3, <1>7, <1>8, <2>1 DEF Written
  <2> QED
    BY <1>1, <1>2, <1>3, <1>4, <1>6, <2>2, <2>3, WriterStutters DEF Shown
<1> QED
  BY <1>9, <1>10

LEMMA DeactivateShown ==
    ASSUME AtomicInv, View', NEW h \in Handlers, Deactivate(h)
    PROVE  Shown
<1> DEFINE o == obj[h]
<1> USE DEF At, Goto
<1>1. TypeOK /\ ChecksStillHold /\ View /\ OthersStay(h)
  BY ServeStays DEF AtomicInv, CountInv, Serve
<1>2. /\ pc[h] = "deactivate" /\ pc'[h] = "notify"
      /\ active' = active \ {o}
      /\ UNCHANGED <<iteration, data, m_pipelines, created, left, req, obj, reply>>
  BY <1>1 DEF Deactivate, tableVars, TypeOK
<1>3. o \in Objects /\ Written(h)
  BY <1>1, <1>2 DEF TypeOK, View, WritingPcs, HoldingPcs
<1>4. /\ o \in Running' <=> o \in active'
      /\ LastIteration'[o] = iteration'[o]
  BY <1>1, <1>2, Done DEF WritingPcs, PublishPcs
<1>5. /\ o \in Running' <=> o \in Running
      /\ LastIteration'[o] = LastIteration[o]
  BY <1>2, <1>3, <1>4 DEF Written, PublishPcs
<1>6. Outcome'[h] = Outcome[h]
  BY <1>2 DEF Outcome, ReleasingPcs
<1> QED
  BY <1>1, <1>2, <1>3, <1>5, <1>6, WriterStutters DEF Shown

\* The first write of an abort is its effect, the second shows nothing.
LEMMA AbortShown ==
    ASSUME AtomicInv, View', NEW h \in Handlers, AbortActive(h) \/ AbortIteration(h)
    PROVE  Shown
<1> DEFINE o == obj[h]
<1> USE DEF At, Goto
<1>1. TypeOK /\ ChecksStillHold /\ DataInv /\ View /\ OthersStay(h)
  BY ServeStays DEF AtomicInv, CountInv, Serve
<1>2. /\ pc[h] \in {"callAbort", "abortActive", "abortIteration"}
      /\ UNCHANGED <<data, m_pipelines, created, left, req, obj>>
  BY DEF AbortActive, AbortIteration, MayAbort, tableVars
<1>3. o \in Objects /\ HandlerConsistent(h)
  BY <1>1, <1>2 DEF TypeOK, ChecksStillHold, HoldingPcs, ReleasingPcs, CallPcs
<1>4. \/ /\ AbortActive(h) /\ active' = active \ {o} /\ iteration' = iteration
         /\ pc[h] \in {"callAbort", "abortActive"}
      \/ /\ AbortIteration(h) /\ active' = active
         /\ iteration' = [iteration EXCEPT ![o] = Decrement(@, MaxIteration)]
         /\ pc[h] \in {"callAbort", "abortIteration"}
  BY DEF AbortActive, AbortIteration, MayAbort
<1>5. \A x \in Objects : x # o => /\ x \in active' <=> x \in active
                                  /\ iteration'[x] = iteration[x]
  BY <1>1, <1>3, <1>4 DEF TypeOK
<1>6. CASE pc[h] = "callAbort"
  <2>1. /\ o # NoObject /\ Outcome[h] = "NONE" /\ req[h].op \in OpAt(pc[h])
        /\ Atomic!Accepts(o, req[h])
        /\ LastIteration[o] = iteration[o]
    BY <1>6, Accepted DEF CallPcs
  <2>2. req[h].op = "abort"
    BY <1>6, <2>1, OpsAt
  <2>3. pc'[h] = IF AbortActive(h) THEN "abortIteration" ELSE "abortActive"
    BY <1>1, <1>4, <1>6 DEF AbortActive, AbortIteration, AfterAbortWrite, TypeOK
  <2>4. Written(h)'
    BY <2>3 DEF View, WritingPcs
  <2>5. o \notin Running'
    BY <1>2, <2>3, <2>4 DEF Written, PublishPcs
  <2>6. LastIteration'[o] = Decrement(iteration[o], MaxIteration)
    <3>1. CASE AbortActive(h) /\ iteration' = iteration
      BY <1>2, <2>3, <2>4, <3>1 DEF Written
    <3>2. CASE ~AbortActive(h) /\ iteration' = [iteration EXCEPT ![o] = Decrement(@, MaxIteration)]
      <4>1. iteration'[o] = Decrement(iteration[o], MaxIteration)
        BY <1>1, <1>3, <3>2 DEF TypeOK
      <4> QED
        BY <1>2, <2>3, <2>4, <3>2, <4>1 DEF Written
    <3>3. ~(AbortActive(h) /\ AbortIteration(h))
      BY <1>1, <1>6 DEF AbortActive, AbortIteration, AfterAbortWrite, TypeOK
    <3> QED
      BY <1>4, <3>1, <3>2, <3>3
  <2>7. /\ LastIteration' = [LastIteration EXCEPT ![o] = LastIteration'[o]]
        /\ Running' = Running \ {o}
    BY <1>1, <1>2, <1>3, <1>5, <2>5, OwnObject
  <2>8. UNCHANGED <<Made, Loaded>>
    BY <1>2 DEF Made, Loaded
  <2>9. o \notin Loaded
    BY <1>1, <1>6, <2>2 DEF DataInv, Knows, Loaded, HoldingPcs, CallPcs
  <2>10. Outcome' = [Outcome EXCEPT ![h] = "SUCCESS"]
    <3>1. Outcome' = [Outcome EXCEPT ![h] = Outcome'[h]]
      BY <1>1, OutcomeOf
    <3>2. Outcome'[h] = "SUCCESS"
      BY <2>3 DEF Outcome, ReleasingPcs
    <3> QED
      BY <3>1, <3>2
  <2>11. Atomic!Serves(h, "abort", o)
    BY <2>1, <2>2 DEF Atomic!Serves
  <2>12. LastIteration' = [LastIteration EXCEPT ![o] = IF @ = 0 THEN MaxIteration ELSE @ - 1]
    BY <2>1, <2>6, <2>7 DEF Decrement
  <2>13. Atomic!Abort(h, o)
    BY <1>2, <2>7, <2>8, <2>9, <2>10, <2>11, <2>12 DEF Atomic!Abort, Atomic!Answer
  <2> QED
    BY <1>3, <2>13 DEF Atomic!Next, Shown
<1>7. CASE pc[h] # "callAbort"
  <2>1. pc'[h] = "notify" /\ reply'[h] = "SUCCESS"
    BY <1>1, <1>4, <1>7 DEF AbortActive, AbortIteration, AfterAbortWrite, TypeOK
  <2>2. Written(h)
    BY <1>1, <1>2, <1>7 DEF View, WritingPcs
  <2>3. /\ o \in Running' <=> o \in active'
        /\ LastIteration'[o] = iteration'[o]
    BY <1>1, <1>2, <1>7, <2>1, Done DEF WritingPcs, PublishPcs
  <2>4. o \notin active'
    BY <1>3, <1>4, <1>7 DEF HandlerConsistent, SawInactive, ChargedPcs
  <2>5. o \in Running' <=> o \in Running
    BY <1>2, <1>7, <2>2, <2>3, <2>4 DEF Written, PublishPcs
  <2>6. LastIteration'[o] = LastIteration[o]
    <3>1. CASE iteration' = iteration /\ pc[h] = "abortActive"
      BY <2>2, <2>3, <3>1 DEF Written
    <3>2. CASE /\ pc[h] = "abortIteration"
               /\ iteration' = [iteration EXCEPT ![o] = Decrement(@, MaxIteration)]
      <4>1. iteration'[o] = Decrement(iteration[o], MaxIteration)
        BY <1>1, <1>3, <3>2 DEF TypeOK
      <4> QED
        BY <2>2, <2>3, <3>2, <4>1 DEF Written
    <3> QED
      BY <1>4, <1>7, <3>1, <3>2
  <2>7. Outcome'[h] = Outcome[h]
    BY <1>2, <1>7, <2>1 DEF Outcome, ReleasingPcs
  <2> QED
    BY <1>1, <1>2, <1>3, <1>5, <2>5, <2>6, <2>7, WriterStutters DEF Shown
<1> QED
  BY <1>6, <1>7

------------------------------------------------------------------------------
(* Administration, requests and answers. *)

LEMMA CreateShown ==
    ASSUME AtomicInv, View', NEW h \in Handlers, CreatePipeline(h)
    PROVE  Shown
<1> DEFINE n == req[h].name
           o == <<n, created[n] + 1>>
<1> USE DEF At, Goto, Answer
<1>1. TypeOK /\ ChecksStillHold /\ DataInv /\ View /\ OthersStay(h)
  BY ServeStays DEF AtomicInv, CountInv, Serve
<1>2. /\ pc[h] = "create" /\ pc'[h] = "respond"
      /\ UNCHANGED <<active, iteration, data, left, req, obj>>
  BY <1>1 DEF CreatePipeline, TypeOK, objectVars
<1>3. reply[h] = "NONE" /\ Outcome[h] = "NONE" /\ n \in Names /\ req[h].op = "create"
  <2>1. reply[h] = "NONE"
    BY <1>2 DEF AtomicInv, Replied, AnsweredPcs, PublishPcs
  <2>2. n \in Names
    BY <1>1, <1>2, RequestFields DEF TypeOK, InFlight
  <2> QED
    BY <1>1, <1>2, <2>1, <2>2 DEF Outcome, ReleasingPcs, DataInv, Knows
<1>4. CASE reply' = [reply EXCEPT ![h] = "CREATE_ERROR"] /\ UNCHANGED <<m_pipelines, created>>
  <2>1. Still(h)
    BY <1>1, <1>2, <1>4 DEF Still, WritingPcs, PublishPcs
  <2>2. Atomic!Reason(h, "CREATE_ERROR")
    BY <1>3 DEF Atomic!Reason
  <2>3. reply'[h] = "CREATE_ERROR"
    BY <1>1, <1>4 DEF TypeOK
  <2> QED
    BY <1>1, <1>2, <1>3, <2>1, <2>2, <2>3, Refuses DEF Failures, Shown
<1>5. CASE /\ created[n] < MaxGeneration
           /\ created' = [created EXCEPT ![n] = @ + 1]
           /\ m_pipelines' = [m_pipelines EXCEPT ![n] = o]
           /\ reply' = [reply EXCEPT ![h] = "SUCCESS"]
  <2>1. created[n] \in Nat /\ created'[n] = created[n] + 1 /\ created[n] + 1 \in 1..MaxGeneration
    BY <1>1, <1>3, <1>5, BoundsNat DEF TypeOK
  <2>2. o \in Objects \ Made
    BY <1>3, <2>1 DEF Objects, Made
  <2>3. Made' = Made \cup {o}
    <3>1. ASSUME NEW x \in Objects PROVE x[2] <= created'[x[1]] <=> x[2] <= created[x[1]] \/ x = o
      <4>1. x[1] \in Names /\ x[2] \in Nat /\ x = <<x[1], x[2]>>
        BY DEF Objects
      <4>2. CASE x[1] # n
        BY <1>1, <1>5, <4>1, <4>2 DEF TypeOK
      <4>3. CASE x[1] = n
        <5>1. x[2] <= created[n] + 1 <=> x[2] <= created[n] \/ x[2] = created[n] + 1
          BY <2>1, <4>1
        <5> QED
          BY <2>1, <4>1, <4>3, <5>1
      <4> QED
        BY <4>2, <4>3
    <3> HIDE DEF o
    <3> QED
      BY <2>2, <3>1 DEF Made
  <2>4. UNCHANGED <<Running, LastIteration>>
    BY <1>1, <1>2, Unseen DEF WritingPcs, PublishPcs
  <2>5. Loaded' = Loaded
    BY <1>2 DEF Loaded
  <2>6. Outcome' = [Outcome EXCEPT ![h] = "SUCCESS"]
    <3>1. Outcome' = [Outcome EXCEPT ![h] = Outcome'[h]]
      BY <1>1, OutcomeOf
    <3>2. Outcome'[h] = "SUCCESS"
      BY <1>1, <1>2, <1>5 DEF Outcome, ReleasingPcs, TypeOK
    <3> QED
      BY <3>1, <3>2
  <2>7. o[1] = n
    OBVIOUS
  <2> HIDE DEF o
  <2>8. Atomic!Create(h, o)
    BY <1>2, <1>3, <1>5, <2>2, <2>3, <2>4, <2>5, <2>6, <2>7
       DEF Atomic!Create, Atomic!Answer
  <2> QED
    BY <2>2, <2>8 DEF Atomic!Next, Shown
<1> QED
  BY <1>4, <1>5 DEF CreatePipeline

\* Who looks at the field active of an object sees whether it runs, unless a
\* call that changed it has not answered yet.
LEMMA Unsettling ==
    ASSUME AtomicInv, NEW o \in Objects
    PROVE  (o \in Running <=> o \in active) \/ Atomic!Unsettled(o)
<1>1. TypeOK /\ ChecksStillHold /\ View /\ Replied
  BY DEF AtomicInv, CountInv
<1>2. CASE Unwritten(o)
  BY <1>1, <1>2 DEF View
<1>3. CASE ~Unwritten(o)
  <2>1. PICK g \in Handlers : pc[g] \in WritingPcs /\ obj[g] = o
    BY <1>3 DEF Unwritten
  <2>2. pc[g] \in HoldingPcs /\ "stage" \notin OpAt(pc[g])
    BY <2>1 DEF WritingPcs, PublishPcs, HoldingPcs, StartPcs, ReleasingPcs, CallPcs, OpAt
  <2>3. req[g].op # "stage"
    BY <1>1, <2>2 DEF ChecksStillHold, HandlerConsistent
  <2>4. Outcome[g] = "SUCCESS"
    BY <1>1, <2>1 DEF Outcome, At, Replied, WritingPcs, PublishPcs, ReleasingPcs
  <2> QED
    BY <2>1, <2>3, <2>4 DEF Atomic!Unsettled
<1> QED
  BY <1>2, <1>3

LEMMA DestroyShown ==
    ASSUME AtomicInv, View', NEW h \in Handlers, DestroyPipeline(h)
    PROVE  Shown
<1> DEFINE n == req[h].name
           o == m_pipelines[n]
<1> USE DEF At, Goto, Answer
<1>1. TypeOK /\ ChecksStillHold /\ DataInv /\ View /\ OthersStay(h)
  BY ServeStays DEF AtomicInv, CountInv, Serve
<1>2. /\ pc[h] = "destroy" /\ pc'[h] = "respond"
      /\ UNCHANGED <<active, iteration, data, created, left, req, obj>>
  BY <1>1 DEF DestroyPipeline, TypeOK, objectVars
<1>3. /\ reply[h] = "NONE" /\ Outcome[h] = "NONE" /\ n \in Names
      /\ req[h].op = "destroy" /\ InFlight(h)
  <2>1. reply[h] = "NONE"
    BY <1>2 DEF AtomicInv, Replied, AnsweredPcs, PublishPcs
  <2>2. n \in Names
    BY <1>1, <1>2, RequestFields DEF TypeOK, InFlight
  <2> QED
    BY <1>1, <1>2, <2>1, <2>2 DEF Outcome, ReleasingPcs, DataInv, Knows, InFlight
<1>4. o # NoObject => /\ o \in Objects /\ o \in Made
                      /\ (o \in Running <=> o \in active) \/ Atomic!Unsettled(o)
  BY <1>1, <1>3, Unsettling DEF TypeOK, AtomicInv, MadeKnown
<1>a. obj[h] = NoObject
  BY <1>2 DEF AtomicInv, Bound, HoldingPcs, StartPcs, ReleasingPcs, CallPcs
<1>5. CASE o = NoObject \/ o \in active
  <2>1. /\ UNCHANGED m_pipelines
        /\ \/ o = NoObject /\ reply' = [reply EXCEPT ![h] = "INVALID_PIPELINE_NAME"]
           \/ o \in active /\ reply' = [reply EXCEPT ![h] = "PIPELINE_IS_ACTIVE"]
    BY <1>5 DEF DestroyPipeline
  <2>2. Still(h)
    BY <1>1, <1>2, <2>1 DEF Still, WritingPcs, PublishPcs
  <2>3. CASE o = NoObject /\ reply' = [reply EXCEPT ![h] = "INVALID_PIPELINE_NAME"]
    <3>1. Atomic!Reason(h, "INVALID_PIPELINE_NAME")
      BY <1>3, <1>a, <2>3 DEF Atomic!Reason
    <3>2. reply'[h] = "INVALID_PIPELINE_NAME"
      BY <1>1, <2>3 DEF TypeOK
    <3> QED
      BY <1>1, <1>2, <1>3, <2>2, <3>1, <3>2, Refuses DEF Failures, Shown
  <2>4. CASE o \in active /\ reply' = [reply EXCEPT ![h] = "PIPELINE_IS_ACTIVE"]
    <3>1. o # NoObject
      BY <1>1, <2>4, Distinguished DEF TypeOK
    <3>2. Atomic!Reason(h, "PIPELINE_IS_ACTIVE")
      BY <1>3, <1>4, <2>4, <3>1 DEF Atomic!Reason
    <3>3. reply'[h] = "PIPELINE_IS_ACTIVE"
      BY <1>1, <2>4 DEF TypeOK
    <3> QED
      BY <1>1, <1>2, <1>3, <2>2, <3>2, <3>3, Refuses DEF Failures, Shown
  <2> QED
    BY <2>1, <2>3, <2>4
<1>6. CASE o # NoObject /\ o \notin active
  <2>1. PICK code \in {"SUCCESS", "BACKEND_ERROR"} :
          /\ m_pipelines' = [m_pipelines EXCEPT ![n] = NoObject]
          /\ reply' = [reply EXCEPT ![h] = code]
    BY <1>6 DEF DestroyPipeline
  <2>2. UNCHANGED <<Running, LastIteration>>
    BY <1>1, <1>2, Unseen DEF WritingPcs, PublishPcs
  <2>3. UNCHANGED <<Made, Loaded>>
    BY <1>2 DEF Made, Loaded
  <2>4. Outcome' = [Outcome EXCEPT ![h] = code]
    <3>1. Outcome' = [Outcome EXCEPT ![h] = Outcome'[h]]
      BY <1>1, OutcomeOf
    <3>2. Outcome'[h] = code
      BY <1>1, <1>2, <2>1 DEF Outcome, ReleasingPcs, TypeOK
    <3> QED
      BY <3>1, <3>2
  <2>5. o \in Made \ Loaded /\ (o \notin Running \/ Atomic!Unsettled(o))
    BY <1>1, <1>4, <1>6 DEF DataInv, NoStrandedData, Loaded
  <2>6. Atomic!Destroy(h, code)
    BY <1>2, <1>3, <2>1, <2>2, <2>3, <2>4, <2>5 DEF Atomic!Destroy, Atomic!Answer
  <2>7. code \in Atomic!Codes
    BY DEF Atomic!Codes
  <2> QED
    BY <2>6, <2>7 DEF Atomic!Next, Shown
<1> QED
  BY <1>5, <1>6

LEMMA RespondShown ==
    ASSUME AtomicInv, View', NEW h \in Handlers, Respond(h)
    PROVE  Shown
<1> USE DEF At, Goto
<1>1. TypeOK /\ View /\ OthersStay(h)
  BY ServeStays DEF AtomicInv, CountInv, Serve
<1>2. /\ pc[h] = "respond" /\ pc'[h] = "idle"
      /\ req' = [req EXCEPT ![h] = NoRequest]
      /\ obj' = [obj EXCEPT ![h] = NoObject]
      /\ UNCHANGED <<active, iteration, data, m_pipelines, created, left>>
  BY <1>1 DEF Respond, objectVars, tableVars, TypeOK
<1>3. UNCHANGED <<Running, LastIteration>>
  BY <1>1, <1>2, Unseen DEF WritingPcs, PublishPcs
<1>4. UNCHANGED <<Made, Loaded>>
  BY <1>2 DEF Made, Loaded
<1>5. Outcome[h] \notin {"IDLE", "NONE"}
  <2>1. reply[h] # "NONE" /\ reply[h] \in Replies
    BY <1>1, <1>2 DEF AtomicInv, Replied, AnsweredPcs, TypeOK
  <2> QED
    BY <1>2, <2>1 DEF Outcome, ReleasingPcs, Replies, Failures
<1>6. Outcome' = [Outcome EXCEPT ![h] = "IDLE"]
  <2>1. Outcome' = [Outcome EXCEPT ![h] = Outcome'[h]]
    BY <1>1, OutcomeOf
  <2>2. Outcome'[h] = "IDLE"
    BY <1>2 DEF Outcome
  <2> QED
    BY <2>1, <2>2
<1>7. Atomic!Return(h)
  BY <1>2, <1>3, <1>4, <1>5, <1>6 DEF Atomic!Return, Atomic!pipelineVars
<1> QED
  BY <1>7 DEF Atomic!Next, Shown

LEMMA ReceiveShown ==
    ASSUME AtomicInv, View', NEW h \in Handlers, NEW r \in Requests, Receive(h, r)
    PROVE  Shown
<1> USE DEF At
<1>1. TypeOK /\ View
  BY DEF AtomicInv, CountInv
<1>2. /\ OthersStay(h)
      /\ UNCHANGED <<active, iteration, data, m_pipelines, created, left, obj, reply>>
      /\ pc[h] = "idle" /\ pc'[h] \in {"hash", "create", "destroy", "find"}
  BY <1>1, ReceiveStays
<1>3. ~left /\ req' = [req EXCEPT ![h] = r]
  BY DEF Receive
<1>4. UNCHANGED <<Running, LastIteration>>
  BY <1>1, <1>2, Unseen DEF WritingPcs, PublishPcs
<1>5. UNCHANGED <<Made, Loaded>>
  BY <1>2 DEF Made, Loaded
<1>6. Outcome[h] = "IDLE"
  BY <1>2 DEF Outcome
<1>7. Outcome' = [Outcome EXCEPT ![h] = "NONE"]
  <2>1. Outcome' = [Outcome EXCEPT ![h] = Outcome'[h]]
    BY <1>2, OutcomeOf
  <2>2. reply[h] = "NONE"
    BY <1>2 DEF AtomicInv, Replied, AnsweredPcs, PublishPcs
  <2>3. Outcome'[h] = "NONE"
    BY <1>2, <2>2 DEF Outcome, ReleasingPcs
  <2> QED
    BY <2>1, <2>3
<1>8. Atomic!Receive(h, r)
  BY <1>2, <1>3, <1>4, <1>5, <1>6, <1>7 DEF Atomic!Receive, Atomic!pipelineVars
<1> QED
  BY <1>8 DEF Atomic!Next, Shown

LEMMA LeaveShown ==
    ASSUME AtomicInv, [Next]_vars, NEW l \in Leavers, LeaveReceive(l) \/ Leave(l)
    PROVE  Shown
<1>1. UNCHANGED <<active, iteration, data, created, pc, req, obj, reply>>
  BY LeaveStays
<1>2. UNCHANGED <<Made, Running, LastIteration, Loaded, Outcome>>
  <2>1. UNCHANGED <<Made, Loaded, Outcome>>
    BY <1>1 DEF Made, Loaded, Outcome, At
  <2>2. UNCHANGED <<Running, LastIteration>>
    BY <1>1 DEF Running, LastIteration, Writers
  <2> QED
    BY <2>1, <2>2
<1>3. CASE UNCHANGED <<m_pipelines, left>>
  BY <1>1, <1>2, <1>3 DEF Shown, Atomic!vars, Atomic!pipelineVars
<1>4. CASE LeaveGroup(l)
  <2>1. /\ m_num_active_pipelines = 0 /\ left' = TRUE
        /\ m_pipelines' = [n \in Names |-> NoObject]
    BY <1>4 DEF LeaveGroup
  <2>2. TypeOK /\ ChecksStillHold /\ CountExact
    BY DEF AtomicInv, CountInv
  <2>3. Charged = {}
    <3>1. IsFiniteSet(Charged)
      BY ObjectsFinite, FS_Subset DEF Charged
    <3> QED
      BY <2>1, <2>2, <3>1, FS_EmptySet DEF CountExact
  <2>4. ASSUME NEW o \in Objects PROVE o \notin Running
    <3>1. o \notin active
      BY <2>2, <2>3 DEF Charged, TypeOK
    <3>2. ASSUME NEW h \in Handlers, pc[h] \in PublishPcs PROVE obj[h] # o
      <4>1. pc[h] \in ChargedPcs \/ obj[h] \in active
        BY <2>2, <3>2 DEF PublishPcs, ChargedPcs, ChecksStillHold, HandlerConsistent, SawActive
      <4> QED
        BY <2>3, <3>1, <4>1 DEF Charged
    <3> QED
      BY <3>1, <3>2 DEF Running, Writers, PublishPcs
  <2>5. Running = {}
    BY <2>4 DEF Running
  <2>6. Atomic!Leave
    BY <1>1, <1>2, <2>1, <2>5 DEF Atomic!Leave
  <2> QED
    BY <2>6 DEF Atomic!Next, Shown
<1> QED
  BY <1>3, <1>4, LeaveStays

------------------------------------------------------------------------------
(* The theorem. *)

LEMMA InitShown == Init /\ View => Atomic!Init
<1> SUFFICES ASSUME Init, View PROVE Atomic!Init
  OBVIOUS
<1>1. PICK configured \in SUBSET Names :
        /\ m_pipelines = [n \in Names |-> IF n \in configured /\ MaxGeneration > 0
                                          THEN <<n, 1>> ELSE NoObject]
        /\ created = [n \in Names |-> IF n \in configured /\ MaxGeneration > 0 THEN 1 ELSE 0]
  BY DEF Init
<1>2. \A h \in Handlers : pc[h] = "idle" /\ reply[h] = "NONE"
  BY DEF Init
<1>3. /\ active = {} /\ iteration = [o \in Objects |-> 0] /\ data = [o \in Objects |-> {}]
      /\ left = FALSE /\ req = [h \in Handlers |-> NoRequest]
      /\ obj = [h \in Handlers |-> NoObject]
  BY DEF Init
<1>4. \A n \in Names : m_pipelines[n] # NoObject => m_pipelines[n] = <<n, 1>> /\ <<n, 1>> \in Objects
  BY <1>1, BoundsNat DEF Objects
<1>5. m_pipelines \in [Names -> Objects \cup {NoObject}]
  BY <1>1, <1>4
<1>6. Made = {m_pipelines[n] : n \in Names} \ {NoObject}
  <2>1. ASSUME NEW o \in Objects
        PROVE  o[2] <= created[o[1]] <=> o \in {m_pipelines[n] : n \in Names}
    <3>1. o[1] \in Names /\ o[2] \in 1..MaxGeneration /\ o = <<o[1], o[2]>>
      BY DEF Objects
    <3>2. o[2] \in Nat /\ o[2] >= 1 /\ o[2] <= MaxGeneration
      BY <3>1, BoundsNat
    <3>3. CASE o[1] \in configured
      <4>1. created[o[1]] = 1 /\ m_pipelines[o[1]] = <<o[1], 1>>
        BY <1>1, <3>1, <3>2, <3>3, BoundsNat
      <4>2. o[2] <= 1 <=> o[2] = 1
        BY <3>2
      <4>3. o[2] = 1 => o \in {m_pipelines[n] : n \in Names}
        BY <3>1, <4>1
      <4>4. ASSUME NEW n \in Names, m_pipelines[n] = o PROVE o[2] = 1
        <5>1. o # NoObject
          BY Distinguished
        <5>2. o = <<n, 1>>
          BY <1>4, <4>4, <5>1
        <5> QED
          BY <5>2
      <4> QED
        BY <4>1, <4>2, <4>3, <4>4
    <3>4. CASE o[1] \notin configured
      <4>1. created[o[1]] = 0
        BY <1>1, <3>1, <3>4
      <4>2. ASSUME NEW n \in Names, m_pipelines[n] = o PROVE FALSE
        <5>1. o = <<n, 1>> /\ n \in configured
          BY <1>1, <1>4, <4>2, Distinguished
        <5> QED
          BY <3>4, <5>1
      <4> QED
        BY <3>2, <4>1, <4>2
    <3> QED
      BY <3>3, <3>4
  <2> QED
    BY <1>5, <2>1, Distinguished DEF Made
<1>7. Running = {} /\ LastIteration = [o \in Objects |-> 0]
  <2>1. \A o \in Objects : Unwritten(o)
    BY <1>2 DEF Unwritten, WritingPcs, PublishPcs
  <2>2. \A o \in Objects : o \notin Running /\ LastIteration[o] = 0
    BY <1>3, <2>1 DEF View
  <2>3. Running \subseteq Objects /\ LastIteration = [o \in Objects |-> LastIteration[o]]
    BY DEF Running, LastIteration
  <2> QED
    BY <2>2, <2>3
<1>8. Loaded = {}
  BY <1>3 DEF Loaded
<1>9. Outcome = [h \in Handlers |-> "IDLE"]
  BY <1>2 DEF Outcome, At
<1>10. \A n \in Names : m_pipelines[n] # NoObject => m_pipelines[n][1] = n
  <2> SUFFICES ASSUME NEW n \in Names, m_pipelines[n] # NoObject
               PROVE  m_pipelines[n][1] = n
    OBVIOUS
  <2>1. m_pipelines[n] = <<n, 1>>
    BY <1>4
  <2> QED
    BY <2>1
<1> QED
  BY <1>3, <1>5, <1>6, <1>7, <1>8, <1>9, <1>10 DEF Atomic!Init

LEMMA StepShown ==
    ASSUME AtomicInv, View', [Next]_vars
    PROVE  Shown
<1>1. ASSUME NEW h \in Handlers, NEW r \in Requests, Receive(h, r) PROVE Shown
  BY <1>1, ReceiveShown
<1>2. ASSUME NEW h \in Handlers, Serve(h) PROVE Shown
  BY <1>2, CheckingShown, QuietShown, StartShown, StageShown, ExecuteShown, CleanupShown,
     PublishShown, DeactivateShown, AbortShown, CreateShown, DestroyShown, RespondShown
     DEF Serve
<1>3. ASSUME NEW l \in Leavers, LeaveReceive(l) \/ Leave(l) PROVE Shown
  BY <1>3, LeaveShown
<1>4. ASSUME UNCHANGED vars PROVE Shown
  <2>1. UNCHANGED <<active, iteration, data, created, m_pipelines, left, pc, req, obj, reply>>
    BY <1>4 DEF vars, objectVars, tableVars, handlerVars
  <2>2. UNCHANGED <<Made, Loaded, Outcome>>
    BY <2>1 DEF Made, Loaded, Outcome, At
  <2>3. UNCHANGED <<Running, LastIteration>>
    BY <2>1 DEF Running, LastIteration, Writers
  <2> QED
    BY <2>1, <2>2, <2>3 DEF Shown, Atomic!vars, Atomic!pipelineVars
<1> QED
  BY <1>1, <1>2, <1>3, <1>4 DEF Next, Finalized

(* To disciplined clients the provider serves each call at one instant: the *)
(* fields its threads read without the mutex and write one by one, the      *)
(* calls of the backend in between, and threads in leave do not show.       *)
THEOREM ProviderAtomic == ASSUME Synchronous PROVE Spec => AtomicSpec
<1>1. Init /\ AtomicInv => Atomic!Init
  BY InitShown DEF AtomicInv
<1>2. AtomicInv /\ AtomicInv' /\ [Next]_vars => [Atomic!Next]_(Atomic!vars)
  <2> SUFFICES ASSUME AtomicInv, View', [Next]_vars
               PROVE  Atomic!Next \/ UNCHANGED Atomic!vars
    BY DEF AtomicInv
  <2> QED
    BY StepShown DEF Shown
<1> QED
  BY <1>1, <1>2, AtomicInvariant, PTL DEF Spec, AtomicSpec, Atomic!Spec

------------------------------------------------------------------------------
(* The iterations of each pipeline, from the calls served at one instant.   *)

\* A pipeline holds blocks only while it runs.
Emptied == Loaded \subseteq Running

LEMMA CycleTypes ==
    ASSUME TypeOK
    PROVE  /\ LastIteration = [o \in Objects |-> LastIteration[o]]
           /\ \A h \in Handlers : Outcome[h] = "NONE" => req[h].iteration \in 0..MaxIteration
<1>1. ASSUME NEW h \in Handlers, Outcome[h] = "NONE" PROVE req[h].iteration \in 0..MaxIteration
  <2>1. pc[h] # "idle"
    BY <1>1 DEF Outcome, At
  <2>2. req[h] \in Requests
    BY <2>1 DEF TypeOK, InFlight, At
  <2> QED
    BY <2>2, RequestFields DEF Iterations
<1> QED
  BY <1>1 DEF LastIteration

LEMMA CycleStep ==
    ASSUME TypeOK, Emptied, [Atomic!Next]_(Atomic!vars)
    PROVE  (Cycle!Next \/ UNCHANGED Cycle!vars) /\ Emptied'
<1> USE DEF Emptied
<1>0. ASSUME UNCHANGED <<Running, LastIteration, Loaded>>
      PROVE  UNCHANGED Cycle!vars /\ Emptied'
  BY <1>0 DEF Cycle!vars
<1>1. ASSUME NEW h \in Handlers, NEW o \in Objects, Atomic!Start(h, o)
      PROVE  Cycle!Next /\ Emptied'
  <2>1. /\ Outcome[h] = "NONE" /\ o \notin Running
        /\ LastIteration[o] # 0 => LastIteration[o] < req[h].iteration
        /\ Running' = Running \cup {o} /\ Loaded' = Loaded
        /\ LastIteration' = [LastIteration EXCEPT ![o] = req[h].iteration]
    BY <1>1 DEF Atomic!Start, Atomic!Serves, Atomic!Accepts, Atomic!Startable
  <2>2. Cycle!Start(o, req[h].iteration)
    BY <2>1 DEF Cycle!Start
  <2> QED
    BY <2>1, <2>2, CycleTypes DEF Cycle!Next
<1>2. ASSUME NEW h \in Handlers, NEW o \in Objects, Atomic!Stage(h, o)
      PROVE  Cycle!Next /\ Emptied'
  <2>1. /\ o \in Running /\ Loaded' = Loaded \cup {o}
        /\ UNCHANGED <<Running, LastIteration>>
    BY <1>2 DEF Atomic!Stage, Atomic!Serves, Atomic!Accepts, Atomic!RunsAt
  <2>2. Cycle!Stage(o)
    BY <2>1 DEF Cycle!Stage
  <2> QED
    BY <2>1, <2>2 DEF Cycle!Next
<1>3. ASSUME NEW h \in Handlers, NEW o \in Objects, Atomic!End(h, o)
      PROVE  Cycle!Next /\ Emptied'
  <2>1. /\ o \in Running /\ Running' = Running \ {o} /\ Loaded' = Loaded \ {o}
        /\ UNCHANGED LastIteration
    BY <1>3 DEF Atomic!End, Atomic!Serves, Atomic!Accepts, Atomic!RunsAt
  <2>2. Cycle!End(o)
    BY <2>1 DEF Cycle!End
  <2> QED
    BY <2>1, <2>2 DEF Cycle!Next
<1>4. ASSUME NEW h \in Handlers, NEW o \in Objects, Atomic!Abort(h, o)
      PROVE  Cycle!Next /\ Emptied'
  <2>1. /\ o \in Running \ Loaded /\ Running' = Running \ {o} /\ Loaded' = Loaded
        /\ LastIteration' = [LastIteration EXCEPT ![o] = IF @ = 0 THEN MaxIteration ELSE @ - 1]
    BY <1>4 DEF Atomic!Abort, Atomic!Serves, Atomic!Accepts, Atomic!RunsAt
  <2>2. Cycle!Abort(o)
    BY <2>1 DEF Cycle!Abort
  <2> QED
    BY <2>1, <2>2 DEF Cycle!Next
<1>5. ASSUME NEW h \in Handlers,
             \/ Atomic!Find(h) \/ Atomic!Return(h) \/ Atomic!Check(h)
             \/ \E r \in Requests : Atomic!Receive(h, r)
             \/ \E code \in Atomic!Codes : Atomic!Refuse(h, code) \/ Atomic!Destroy(h, code)
             \/ \E o \in Objects : Atomic!Execute(h, o) \/ Atomic!Create(h, o)
      PROVE  UNCHANGED <<Running, LastIteration, Loaded>>
  BY <1>5 DEF Atomic!Find, Atomic!Return, Atomic!Check, Atomic!Receive, Atomic!Refuse, Atomic!Destroy,
              Atomic!Execute, Atomic!Create, Atomic!pipelineVars
<1>6. ASSUME Atomic!Leave \/ UNCHANGED Atomic!vars
      PROVE  UNCHANGED <<Running, LastIteration, Loaded>>
  BY <1>6 DEF Atomic!Leave, Atomic!vars, Atomic!pipelineVars
<1> QED
  BY <1>0, <1>1, <1>2, <1>3, <1>4, <1>5, <1>6 DEF Atomic!Next

(* What DistributedPipeline takes of its servers, a provider does: to       *)
(* disciplined clients each of its pipelines starts, is staged to, ends and *)
(* is aborted in single steps, one iteration at a time.                     *)
THEOREM ProviderCycles == ASSUME Synchronous PROVE Spec => CycleSpec
<1>1. Atomic!Init => Cycle!Init /\ Emptied
  BY DEF Atomic!Init, Cycle!Init, Emptied
<1>2. TypeOK /\ Emptied /\ [Atomic!Next]_(Atomic!vars)
        => [Cycle!Next]_(Cycle!vars) /\ Emptied'
  BY CycleStep
<1> QED
  BY <1>1, <1>2, ProviderAtomic, TypeCorrect, PTL DEF AtomicSpec, Atomic!Spec, CycleSpec, Cycle!Spec

==============================================================================
