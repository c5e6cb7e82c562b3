-------------------------- MODULE GroupServiceProofs --------------------------
(* Theorems about GroupService, for every value of its constants. *)
EXTENDS GroupService, TLAPS

------------------------------------------------------------------------------
(* Type correctness needs that only servers that are, or were, members      *)
(* appear in views, operations and destroyed pipelines: a server that joins *)
(* is in none of them.                                                      *)

Known == /\ \A s \in Servers : view[s] \subseteq members \cup gone
         /\ destroyed \subseteq members \cup gone
         /\ \A s \in Servers : ult[s] # "none" => s \in members \cup gone

TypeInv == TypeOK /\ Known

LEMMA InitTyped == Init => TypeInv
<1> SUFFICES ASSUME Init PROVE TypeInv
  OBVIOUS
<1>1. /\ operations \in 0..MaxOperations
      /\ m_pipelines \subseteq Servers
      /\ view \in [Servers -> SUBSET Servers]
  BY BoundsNat, SubsetsKnown DEF Init
<1>2. TypeOK
  BY <1>1, SubsetsKnown DEF Init, TypeOK, Nothing
<1>3. Known
  BY DEF Init, Known
<1> QED
  BY <1>2, <1>3 DEF TypeInv

\* What MembershipUpdate does, whether or not the server takes itself for
\* rank 0.
LEMMA UpdateEffect ==
    ASSUME TypeOK, NEW s \in Servers, NEW m \in Servers, MembershipUpdate(s, m)
    PROVE  /\ view' \in [Servers -> SUBSET Servers]
           /\ \A t \in Servers : view'[t] \subseteq view[t] \cup members
           /\ file' \subseteq Servers /\ missed' \in BOOLEAN
           /\ UNCHANGED <<members, gone, writing, pipelineVars, adminVars, clientVars>>
<1>1. view' \in [Servers -> SUBSET Servers]
  BY DEF MembershipUpdate, TypeOK
<1>2. \A t \in Servers : view'[t] \subseteq view[t] \cup members
  BY DEF MembershipUpdate, TypeOK
<1>3. file' = file \/ file' = view'[s]
  BY DEF MembershipUpdate
<1>4. missed' = missed \/ missed' = TRUE
  BY DEF MembershipUpdate
<1> QED
  BY <1>1, <1>2, <1>3, <1>4 DEF MembershipUpdate, TypeOK

LEMMA GroupTyped ==
    ASSUME TypeInv, NEW s \in Servers
    PROVE  /\ Join(s) => TypeInv'
           /\ AddFileCallback(s) => TypeInv'
           /\ \A m \in Servers : MembershipUpdate(s, m) => TypeInv'
           /\ Leave(s) => TypeInv'
           /\ Iterate(s) => TypeInv'
<1> USE DEF TypeInv, TypeOK, Known, groupVars, fileVars, pipelineVars, adminVars, clientVars
<1>1. ASSUME Join(s) PROVE TypeInv'
  BY <1>1 DEF Join
<1>2. ASSUME AddFileCallback(s) PROVE TypeInv'
  BY <1>2 DEF AddFileCallback
<1>3. ASSUME NEW m \in Servers, MembershipUpdate(s, m) PROVE TypeInv'
  BY <1>3, UpdateEffect
<1>4. ASSUME Leave(s) PROVE TypeInv'
  BY <1>4 DEF Leave
<1>5. ASSUME Iterate(s) PROVE TypeInv'
  BY <1>5 DEF Iterate
<1> QED
  BY <1>1, <1>2, <1>3, <1>4, <1>5

LEMMA AdministrateTyped ==
    ASSUME TypeInv, Administrate
    PROVE  TypeInv'
<1> USE DEF TypeInv, TypeOK, Known, groupVars, fileVars, pipelineVars, clientVars
<1>1. ASSUME NEW op \in Operations, Begin(op) PROVE TypeInv'
  <2>1. operations' \in 0..MaxOperations
    BY <1>1, BoundsNat DEF Begin
  <2> QED
    BY <1>1, <2>1 DEF Begin
<1>2. ASSUME NEW s \in Servers, AskLeave(s) PROVE TypeInv'
  BY <1>2 DEF AskLeave
<1>3. ASSUME JoinAll PROVE TypeInv'
  BY <1>3 DEF JoinAll
<1> QED
  BY <1>1, <1>2, <1>3 DEF Administrate

LEMMA ServeTyped ==
    ASSUME TypeInv, NEW s \in Servers, Serve(s)
    PROVE  TypeInv'
<1> USE DEF TypeInv, TypeOK, Known, Answer, groupVars, fileVars, pipelineVars, clientVars
<1>1. ASSUME ServeCreate(s) PROVE TypeInv'
  BY <1>1 DEF ServeCreate
<1>2. ASSUME ServeDestroy(s) PROVE TypeInv'
  BY <1>2 DEF ServeDestroy
<1>3. ASSUME ServeShutdown(s) PROVE TypeInv'
  BY <1>3 DEF ServeShutdown
<1>4. ASSUME CallFails(s) PROVE TypeInv'
  BY <1>4 DEF CallFails
<1> QED
  BY <1>1, <1>2, <1>3, <1>4 DEF Serve

LEMMA ConstructTyped ==
    ASSUME TypeInv, Construct
    PROVE  TypeInv'
<1> USE RootIsRank DEF TypeInv, TypeOK, Known, groupVars, fileVars, pipelineVars, adminVars
<1>1. ASSUME Observe PROVE TypeInv'
  BY <1>1 DEF Observe
<1>0. ASSUME ObserveThrows PROVE TypeInv'
  BY <1>0 DEF ObserveThrows
<1>2. ASSUME BroadcastList PROVE TypeInv'
  BY <1>2 DEF BroadcastList
<1>3. ASSUME NEW s \in Servers, CheckPipeline(s) PROVE TypeInv'
  BY <1>3 DEF CheckPipeline
<1>4. ASSUME NEW s \in Servers, CheckFails(s) PROVE TypeInv'
  BY <1>4 DEF CheckFails, Failure
<1>5. ASSUME NEW r \in Others, ReceiveList(r) PROVE TypeInv'
  BY <1>5, SMTT(40) DEF ReceiveList, Others
<1> QED
  BY <1>0, <1>1, <1>2, <1>3, <1>4, <1>5 DEF Construct

LEMMA NextTyped == TypeInv /\ [Next]_vars => TypeInv'
<1> SUFFICES ASSUME TypeInv, [Next]_vars PROVE TypeInv'
  OBVIOUS
<1>1. CASE UNCHANGED vars
  BY <1>1 DEF TypeInv, TypeOK, Known, vars, groupVars, fileVars, pipelineVars,
              adminVars, clientVars
<1> QED
  BY <1>1, GroupTyped, AdministrateTyped, ServeTyped, ConstructTyped DEF Next

LEMMA TypeInvariant == Spec => []TypeInv
BY InitTyped, NextTyped, PTL DEF Spec

\* Every variable keeps its type; no server is both a member and gone, and a
\* pipeline is never registered and destroyed at once.
THEOREM ServiceTyped == Spec => []TypeOK
<1>1. TypeInv => TypeOK
  BY DEF TypeInv
<1> QED
  BY <1>1, TypeInvariant, PTL

------------------------------------------------------------------------------
(* What the root has broadcast says how it ended.                           *)

SizeIsOutcome ==
    /\ pc[Root] # "receive"
    /\ \A r \in Others :
         /\ pc[r] \in {"receive", "done", "threw"}
         /\ \/ size[r] = Nothing
            \/ size[r] = Failure /\ pc[Root] = "threw"
            \/ size[r] = <<"list", list[Root]>> /\ pc[Root] = "done"

HandleInv == TypeInv /\ SizeIsOutcome /\ HandlesAgree /\ CheckedHandle

LEMMA InitHandle == Init => HandleInv
<1> SUFFICES ASSUME Init PROVE HandleInv
  OBVIOUS
<1>1. SizeIsOutcome
  BY RootIsRank DEF Init, SizeIsOutcome, Others
<1>2. HandlesAgree /\ CheckedHandle
  BY RootIsRank DEF Init, HandlesAgree, CheckedHandle
<1> QED
  BY <1>1, <1>2, InitTyped DEF HandleInv

\* No step of a server or an administrator takes a server out of what a
\* handle may name.
LEMMA HandleStable ==
    ASSUME HandleInv, UNCHANGED clientVars,
           m_pipelines \cup gone \cup destroyed \subseteq
             m_pipelines' \cup gone' \cup destroyed'
    PROVE  SizeIsOutcome' /\ HandlesAgree' /\ CheckedHandle'
BY DEF HandleInv, SizeIsOutcome, HandlesAgree, CheckedHandle, clientVars

LEMMA ServersStable ==
    ASSUME TypeInv, Next, ~Construct
    PROVE  /\ UNCHANGED clientVars
           /\ m_pipelines \cup gone \cup destroyed \subseteq
                m_pipelines' \cup gone' \cup destroyed'
<1> USE DEF groupVars, fileVars, pipelineVars, adminVars
<1>1. ASSUME NEW s \in Servers, Join(s) \/ AddFileCallback(s) \/ Leave(s) \/ Iterate(s)
      PROVE  /\ UNCHANGED clientVars
             /\ m_pipelines \cup gone \cup destroyed \subseteq
                  m_pipelines' \cup gone' \cup destroyed'
  BY <1>1 DEF Join, AddFileCallback, Leave, Iterate
<1>2. ASSUME NEW s \in Servers, NEW m \in Servers, MembershipUpdate(s, m)
      PROVE  UNCHANGED <<clientVars, m_pipelines, gone, destroyed>>
  BY <1>2, UpdateEffect DEF TypeInv
<1>3. ASSUME NEW s \in Servers, Serve(s)
      PROVE  /\ UNCHANGED clientVars
             /\ m_pipelines \cup gone \cup destroyed \subseteq
                  m_pipelines' \cup gone' \cup destroyed'
  BY <1>3 DEF Serve, ServeCreate, ServeDestroy, ServeShutdown, CallFails
<1>4. ASSUME Administrate
      PROVE  UNCHANGED <<clientVars, m_pipelines, gone, destroyed>>
  BY <1>4 DEF Administrate, Begin, AskLeave, JoinAll
<1> QED
  BY <1>1, <1>2, <1>3, <1>4 DEF Next

LEMMA NextHandle == HandleInv /\ [Next]_vars => HandleInv'
<1> SUFFICES ASSUME HandleInv, [Next]_vars
             PROVE  SizeIsOutcome' /\ HandlesAgree' /\ CheckedHandle'
  BY NextTyped DEF HandleInv
<1> USE RootIsRank DEF HandleInv, TypeInv, TypeOK, SizeIsOutcome, HandlesAgree,
        CheckedHandle, Others, pipelineVars, groupVars
<1>1. CASE UNCHANGED vars
  BY <1>1 DEF vars, clientVars
<1>2. CASE Next /\ ~Construct
  BY <1>2, ServersStable, HandleStable
<1>3. CASE Observe \/ ObserveThrows
  BY <1>3 DEF Observe, ObserveThrows
<1>4. CASE BroadcastList
  BY <1>4 DEF BroadcastList
<1>5. ASSUME NEW s \in Servers, CheckPipeline(s)
      PROVE  SizeIsOutcome' /\ HandlesAgree' /\ CheckedHandle'
  BY <1>5 DEF CheckPipeline, Failure, Nothing
<1>6. ASSUME NEW s \in Servers, CheckFails(s)
      PROVE  SizeIsOutcome' /\ HandlesAgree' /\ CheckedHandle'
  BY <1>6 DEF CheckFails
<1>7. ASSUME NEW r \in Others, ReceiveList(r)
      PROVE  SizeIsOutcome' /\ HandlesAgree' /\ CheckedHandle'
  <2>1. /\ r \in Ranks /\ r # Root
        /\ UNCHANGED <<size, m_pipelines, gone, destroyed>>
    BY <1>7 DEF ReceiveList
  <2>2. CASE size[r] = Failure
    <3>1. pc' = [pc EXCEPT ![r] = "threw"] /\ list' = list
      BY <1>7, <2>2 DEF ReceiveList
    <3> QED
      BY <2>1, <3>1
  <2>3. CASE size[r] = <<"list", list[Root]>> /\ pc[Root] = "done"
    <3>1. /\ pc' = [pc EXCEPT ![r] = "done"]
          /\ list' = [list EXCEPT ![r] = list[Root]]
      BY <1>7, <2>3 DEF ReceiveList, Failure
    <3> QED
      BY <2>1, <2>3, <3>1
  <2> QED
    BY <1>7, <2>2, <2>3 DEF ReceiveList
<1> QED
  BY <1>1, <1>2, <1>3, <1>4, <1>5, <1>6, <1>7 DEF Construct

LEMMA HandleInvariant == Spec => []HandleInv
<1>1. Init => HandleInv
  BY InitHandle
<1>2. HandleInv /\ [Next]_vars => HandleInv'
  BY NextHandle
<1> QED
  BY <1>1, <1>2, PTL DEF Spec

\* All ranks that got a handle have the one of the root.
THEOREM RanksShareHandle == Spec => []HandlesAgree
<1>1. HandleInv => HandlesAgree
  BY DEF HandleInv
<1> QED
  BY <1>1, HandleInvariant, PTL

\* What the root checked holds of every handle, as far as it can.
THEOREM HandleIsChecked == Spec => []CheckedHandle
<1>1. HandleInv => CheckedHandle
  BY DEF HandleInv
<1> QED
  BY <1>1, HandleInvariant, PTL

------------------------------------------------------------------------------
(* A thread of an operation that ended has done its work for good.          *)

ThreadsReport ==
    /\ admin # "idle" => operation \in AllOps
    /\ admin = "idle" => \A s \in Servers : ult[s] = "none"
    /\ \A s \in Servers : ult[s] = "ok" =>
         /\ operation = "create"   => s \in m_pipelines \cup gone
         /\ operation = "destroy"  => s \notin m_pipelines
         /\ operation = "leave"    => s \in leaving
         /\ operation = "shutdown" => s \in gone
    /\ admin = "returned" => \A s \in Servers : ult[s] \in {"none", "ok"}
    /\ admin = "threw" /\ operation # "leave" => \A s \in Servers : ult[s] = "none"

AdminInv == TypeInv /\ ThreadsReport

LEMMA NextReport == AdminInv /\ [Next]_vars => AdminInv'
<1> SUFFICES ASSUME AdminInv, [Next]_vars PROVE ThreadsReport'
  BY NextTyped DEF AdminInv
<1> USE DEF AdminInv, TypeInv, TypeOK, ThreadsReport, AllOps, groupVars, fileVars,
        pipelineVars, adminVars, clientVars
<1>1. CASE UNCHANGED vars
  BY <1>1 DEF vars
<1>2. ASSUME NEW s \in Servers, Join(s) PROVE ThreadsReport'
  BY <1>2 DEF Join, Known
<1>3. ASSUME NEW s \in Servers, AddFileCallback(s) \/ Leave(s) \/ Iterate(s)
      PROVE  ThreadsReport'
  BY <1>3 DEF AddFileCallback, Leave, Iterate
<1>4. ASSUME NEW s \in Servers, NEW m \in Servers, MembershipUpdate(s, m)
      PROVE  ThreadsReport'
  BY <1>4, UpdateEffect
<1>5. ASSUME NEW op \in Operations, Begin(op) PROVE ThreadsReport'
  BY <1>5, OperationsKnown DEF Begin
<1>6. ASSUME NEW s \in Servers, AskLeave(s) PROVE ThreadsReport'
  BY <1>6 DEF AskLeave
<1>7. ASSUME JoinAll PROVE ThreadsReport'
  BY <1>7 DEF JoinAll
<1>8. ASSUME NEW s \in Servers, ServeCreate(s) PROVE ThreadsReport'
  BY <1>8 DEF ServeCreate, Answer
<1>9. ASSUME NEW s \in Servers, ServeDestroy(s) PROVE ThreadsReport'
  BY <1>9 DEF ServeDestroy, Answer
<1>10. ASSUME NEW s \in Servers, ServeShutdown(s) PROVE ThreadsReport'
  BY <1>10 DEF ServeShutdown, Answer
<1>11. ASSUME NEW s \in Servers, CallFails(s) PROVE ThreadsReport'
  <2>1. /\ ult' = [ult EXCEPT ![s] = "failed"] /\ admin' = "terminated"
        /\ ult[s] = "ready" /\ UNCHANGED <<operation, m_pipelines, gone, leaving>>
    BY <1>11 DEF CallFails, Answer
  <2>2. operation \in AllOps
    BY <2>1
  <2> QED
    BY <1>11, <2>1, <2>2 DEF CallFails
<1>12. ASSUME Construct PROVE ThreadsReport'
  BY <1>12 DEF Construct, Observe, ObserveThrows, BroadcastList, CheckPipeline, CheckFails,
     ReceiveList
<1> QED
  BY <1>1, <1>2, <1>3, <1>4, <1>5, <1>6, <1>7, <1>8, <1>9, <1>10, <1>11, <1>12
     DEF Next, Serve, Administrate

\* An operation that returned did its work on every server that stayed.
THEOREM OperationsReport == Spec => []AdminReports
<1>1. Init => AdminInv
  <2>1. Init => ThreadsReport
    BY DEF Init, ThreadsReport
  <2> QED
    BY <2>1, InitTyped DEF AdminInv
<1>2. AdminInv /\ [Next]_vars => AdminInv'
  BY NextReport
<1>3. AdminInv => AdminReports
  <2> SUFFICES ASSUME AdminInv PROVE AdminReports
    OBVIOUS
  <2>1. ASSUME admin = "returned", NEW s \in Servers, ult[s] # "none" PROVE ult[s] = "ok"
    BY <2>1 DEF AdminInv, ThreadsReport
  <2>2. CASE admin = "returned" /\ operation = "create"
    BY <2>1, <2>2 DEF AdminInv, ThreadsReport, AdminReports
  <2>3. CASE admin = "returned" /\ operation = "destroy"
    BY <2>1, <2>3 DEF AdminInv, ThreadsReport, AdminReports
  <2>4. CASE admin = "returned" /\ operation = "leave"
    BY <2>1, <2>4 DEF AdminInv, ThreadsReport, AdminReports
  <2>5. CASE admin = "returned" /\ operation = "shutdown"
    BY <2>1, <2>5 DEF AdminInv, ThreadsReport, AdminReports
  <2>6. CASE admin # "returned"
    BY <2>6 DEF AdminInv, ThreadsReport, AdminReports
  <2>7. admin = "returned" => operation \in AllOps
    BY DEF AdminInv, ThreadsReport
  <2> QED
    BY <2>2, <2>3, <2>4, <2>5, <2>6, <2>7 DEF AllOps
<1> QED
  BY <1>1, <1>2, <1>3, PTL DEF Spec

==============================================================================
