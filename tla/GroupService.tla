---------------------------- MODULE GroupService ----------------------------
(***************************************************************************)
(* What reaches a group of servers through its file: the main program of   *)
(* the servers, which write and load it; the operations of Admin on a      *)
(* whole group, each a thread per server; and the collective construction  *)
(* of a DistributedPipelineHandle with its check of every pipeline.        *)
(*                                                                         *)
(* A server is its SSG id: the member of smallest id has rank 0. SSG gives *)
(* who observes a group the view of a member that the file names.          *)
(***************************************************************************)
EXTENDS Naturals, FiniteSets

CONSTANTS
    Servers,        \* ids
    Founders,       \* servers that create the group together
    Configured,     \* servers whose configuration has the pipeline
    Incapable,      \* servers that cannot create the pipeline
    Iterating,      \* servers whose pipeline some client starts and cleans up
    Ranks, Root,    \* client processes
    Operations,     \* what administrators do
    MaxOperations,  \* bound: operations of the administrator
    MaxChanges      \* bound: joins and departures

ASSUME ServersNat == Servers \subseteq Nat
ASSUME SubsetsKnown == /\ Founders \subseteq Servers /\ Founders # {}
                       /\ Configured \subseteq Servers /\ Incapable \subseteq Servers
                       /\ Iterating \subseteq Servers
ASSUME RootIsRank == Root \in Ranks
ASSUME OperationsKnown == Operations \subseteq {"create", "destroy", "leave", "shutdown"}
ASSUME BoundsNat == MaxOperations \in Nat /\ MaxChanges \in Nat

VARIABLES
    members, gone,  \* the group, and the servers that left it
    view,           \* server -> its SSG view
    writing,        \* servers whose update_group_file is registered
    file,           \* members named in the group file
    missed,         \* a change that no rank 0 wrote down
    m_pipelines,    \* servers with the pipeline
    active,         \* servers whose pipeline is active
    leaving,        \* servers asked to leave
    destroyed,      \* servers that destroyed the pipeline
    operation,      \* the administrator's
    admin,          \* state of its process
    operations,     \*   operations begun
    ult,            \* server -> thread of the operation that asks it
    pc,             \* rank -> control of makeDistributedPipelineHandle
    list,           \* rank -> servers of its handle
    toCheck,        \* the root's servers still to check
    size            \* rank -> what the root broadcast

groupVars == <<members, gone, view>>
fileVars == <<writing, file, missed>>
pipelineVars == <<m_pipelines, active, leaving, destroyed>>
adminVars == <<operation, admin, operations, ult>>
clientVars == <<pc, list, toCheck, size>>
vars == <<groupVars, fileVars, pipelineVars, adminVars, clientVars>>

AllOps == {"create", "destroy", "leave", "shutdown"}
Failure == <<"failure", {}>>    \* a group size of -1
Nothing == <<"nothing", {}>>    \* no broadcast yet

------------------------------------------------------------------------------
(* The main program of a server, and SSG.                                   *)

IsRank0(s, v) == \A m \in v : s <= m

Changes == Cardinality(gone) + Cardinality((members \cup gone) \ Founders)

\* A server started with --join reaches a member named in the file. Its
\* provider creates the pipelines of its configuration.
Join(s) ==
    /\ s \notin members \cup gone
    /\ Changes < MaxChanges
    /\ \E m \in file \cap members : view' = [view EXCEPT ![s] = view[m] \cup {s}]
    /\ members' = members \cup {s}
    /\ missed' = (missed \/ IsRank0(s, view'[s]))
    /\ m_pipelines' = IF s \in Configured THEN m_pipelines \cup {s} ELSE m_pipelines
    /\ UNCHANGED <<gone, writing, file, active, leaving, destroyed, adminVars, clientVars>>

\* After the provider is constructed.
AddFileCallback(s) ==
    /\ s \in members \ writing
    /\ writing' = writing \cup {s}
    /\ UNCHANGED <<groupVars, file, missed, pipelineVars, adminVars, clientVars>>

\* SSG updates the view, then update_group_file rewrites the file on rank 0.
MembershipUpdate(s, m) ==
    /\ s \in members
    /\ (m \in members) # (m \in view[s])
    /\ view' = [view EXCEPT ![s] = IF m \in @ THEN @ \ {m} ELSE @ \cup {m}]
    /\ \/ ~IsRank0(s, view'[s]) /\ UNCHANGED <<file, missed>>
       \/ IsRank0(s, view'[s]) /\ s \in writing /\ file' = view'[s] /\ UNCHANGED missed
       \/ IsRank0(s, view'[s]) /\ s \notin writing /\ missed' = TRUE /\ UNCHANGED file
    /\ UNCHANGED <<members, gone, writing, pipelineVars, adminVars, clientVars>>

\* leave() of a server that the administrator, or another one, asked to leave
\* returns once no pipeline is active; some member stays.
Leave(s) ==
    /\ s \in members \ active /\ members # {s}
    /\ Changes < MaxChanges
    /\ members' = members \ {s}
    /\ gone' = gone \cup {s}
    /\ UNCHANGED <<view, fileVars, pipelineVars, adminVars, clientVars>>

\* Iterations of some client.
Iterate(s) ==
    /\ s \in members \cap m_pipelines \cap Iterating
    /\ active' = IF s \in active THEN active \ {s} ELSE active \cup {s}
    /\ UNCHANGED <<groupVars, fileVars, m_pipelines, leaving, destroyed, adminVars, clientVars>>

------------------------------------------------------------------------------
(* The administrator. A thread that throws ends its process.                *)

\* Loading and observing the group may fail, and does if no member in the file
\* is left: the caller gets an exception. A vector of ranks may name any members.
Begin(op) ==
    /\ admin \in {"idle", "returned", "threw"}
    /\ operations < MaxOperations
    /\ operations' = operations + 1
    /\ operation' = op
    /\ \/ /\ admin' = "threw"
          /\ ult' = [s \in Servers |-> "none"]
       \/ \E m \in file \cap members :
            \E asked \in IF op = "leave" THEN SUBSET view[m] ELSE {view[m]} :
              /\ admin' = "running"
              /\ ult' = [s \in Servers |-> IF s \in asked THEN "ready" ELSE "none"]
    /\ UNCHANGED <<groupVars, fileVars, pipelineVars, clientVars>>

\* A leave has no answer, and is asked by the caller itself: an exception is
\* the caller's, and the ranks that follow are not asked.
AskLeave(s) ==
    /\ admin = "running" /\ operation = "leave"
    /\ ult[s] = "ready"
    /\ IF s \in members
       THEN /\ leaving' = leaving \cup {s}
            /\ ult' = [ult EXCEPT ![s] = "ok"]
            /\ UNCHANGED admin
       ELSE admin' = "threw" /\ UNCHANGED <<leaving, ult>>
    /\ UNCHANGED <<groupVars, fileVars, m_pipelines, active, destroyed, operation,
                   operations, clientVars>>

\* The thread of s gets an answer, or an exception that ends the process.
Answer(s, ok) ==
    /\ ult' = [ult EXCEPT ![s] = IF ok THEN "ok" ELSE "failed"]
    /\ admin' = IF ok THEN admin ELSE "terminated"

\* A pipeline of the same name is replaced by one that is not active.
ServeCreate(s) ==
    /\ ult[s] = "ready" /\ operation = "create" /\ s \in members
    /\ Answer(s, s \notin Incapable)
    /\ IF s \in Incapable
       THEN UNCHANGED pipelineVars
       ELSE /\ m_pipelines' = m_pipelines \cup {s}
            /\ active' = active \ {s}
            /\ destroyed' = destroyed \ {s}
            /\ UNCHANGED leaving
    /\ UNCHANGED <<groupVars, fileVars, operation, operations, clientVars>>

\* Mutant: the pipeline is destroyed but not erased from the table.
ServeDestroyKept(s) ==
    /\ ult[s] = "ready" /\ operation = "destroy" /\ s \in members
    /\ \/ s \notin m_pipelines \ active /\ Answer(s, FALSE) /\ UNCHANGED destroyed
       \/ /\ s \in m_pipelines \ active
          /\ \E ok \in BOOLEAN : Answer(s, ok)
          /\ destroyed' = destroyed \cup {s}
    /\ UNCHANGED <<groupVars, fileVars, m_pipelines, active, leaving, operation,
                   operations, clientVars>>

\* The pipeline is erased also when its own destroy() reports an error.
ServeDestroy(s) ==
    /\ ult[s] = "ready" /\ operation = "destroy" /\ s \in members
    /\ \/ /\ s \notin m_pipelines \ active
          /\ Answer(s, FALSE)
          /\ UNCHANGED <<m_pipelines, destroyed>>
       \/ /\ s \in m_pipelines \ active
          /\ \E ok \in BOOLEAN : Answer(s, ok)
          /\ m_pipelines' = m_pipelines \ {s}
          /\ destroyed' = destroyed \cup {s}
    /\ UNCHANGED <<groupVars, fileVars, active, leaving, operation, operations, clientVars>>

\* The engine stops whatever is active.
ServeShutdown(s) ==
    /\ ult[s] = "ready" /\ operation = "shutdown" /\ s \in members
    /\ Answer(s, TRUE)
    /\ members' = members \ {s}
    /\ gone' = gone \cup {s}
    /\ UNCHANGED <<view, fileVars, pipelineVars, operation, operations, clientVars>>

\* A call to a server that left, before or while it is made, throws.
CallFails(s) ==
    /\ ult[s] = "ready" /\ operation # "leave" /\ s \notin members
    /\ Answer(s, FALSE)
    /\ UNCHANGED <<groupVars, fileVars, pipelineVars, operation, operations, clientVars>>

\* Mutant: the operation returns with the first thread.
JoinOne ==
    /\ admin = "running"
    /\ \E s \in Servers : ult[s] = "ok"
    /\ admin' = "returned"
    /\ UNCHANGED <<groupVars, fileVars, pipelineVars, operation, operations, ult, clientVars>>

JoinAll ==
    /\ admin = "running"
    /\ \A s \in Servers : ult[s] \in {"none", "ok"}
    /\ admin' = "returned"
    /\ UNCHANGED <<groupVars, fileVars, pipelineVars, operation, operations, ult, clientVars>>

------------------------------------------------------------------------------
(* makeDistributedPipelineHandle, with check.                               *)

Others == Ranks \ {Root}

Observe ==
    /\ pc[Root] = "observe"
    /\ \E m \in file \cap members : toCheck' = view[m]
    /\ pc' = [pc EXCEPT ![Root] = "check"]
    /\ UNCHANGED <<groupVars, fileVars, pipelineVars, adminVars, list, size>>

\* SSG may fail to load or observe the group, which it does if the file names
\* no member, or to give the address of the next one. This exception is not
\* broadcast: the other ranks wait for the size.
ObserveThrows ==
    /\ pc[Root] = "observe" \/ (pc[Root] = "check" /\ toCheck # {})
    /\ pc' = [pc EXCEPT ![Root] = "unobserved"]
    /\ toCheck' = {}
    /\ list' = [list EXCEPT ![Root] = {}]
    /\ UNCHANGED <<groupVars, fileVars, pipelineVars, adminVars, size>>

\* Mutant: an answer of "not found" is taken for a pipeline.
CheckPipelineAny(s) ==
    /\ pc[Root] = "check"
    /\ s \in toCheck /\ s \in members
    /\ toCheck' = toCheck \ {s}
    /\ list' = [list EXCEPT ![Root] = @ \cup {s}]
    /\ UNCHANGED <<groupVars, fileVars, pipelineVars, adminVars, pc, size>>

\* The servers are checked in the order of their ranks.
CheckPipeline(s) ==
    /\ pc[Root] = "check"
    /\ s \in toCheck /\ IsRank0(s, toCheck)
    /\ s \in members \cap m_pipelines
    /\ toCheck' = toCheck \ {s}
    /\ list' = [list EXCEPT ![Root] = @ \cup {s}]
    /\ UNCHANGED <<groupVars, fileVars, pipelineVars, adminVars, pc, size>>

\* Mutant: the exception leaves at once.
CheckFailsAlone(s) ==
    /\ pc[Root] = "check"
    /\ s \in toCheck /\ IsRank0(s, toCheck)
    /\ s \notin members \cap m_pipelines
    /\ pc' = [pc EXCEPT ![Root] = "threw"]
    /\ toCheck' = {}
    /\ list' = [list EXCEPT ![Root] = {}]
    /\ UNCHANGED <<groupVars, fileVars, pipelineVars, adminVars, size>>

\* Any exception while a pipeline is checked is broadcast as a size of -1.
CheckFails(s) ==
    /\ pc[Root] = "check"
    /\ s \in toCheck /\ IsRank0(s, toCheck)
    /\ s \notin members \cap m_pipelines
    /\ pc' = [pc EXCEPT ![Root] = "threw"]
    /\ toCheck' = {}
    /\ list' = [list EXCEPT ![Root] = {}]
    /\ size' = [r \in Ranks |-> IF r = Root THEN size[r] ELSE Failure]
    /\ UNCHANGED <<groupVars, fileVars, pipelineVars, adminVars>>

\* The size and the addresses.
BroadcastList ==
    /\ pc[Root] = "check" /\ toCheck = {}
    /\ pc' = [pc EXCEPT ![Root] = "done"]
    /\ size' = [r \in Ranks |-> IF r = Root THEN size[r] ELSE <<"list", list[Root]>>]
    /\ UNCHANGED <<groupVars, fileVars, pipelineVars, adminVars, list, toCheck>>

\* Mutant: the size is not tested.
ReceiveListAnyway(r) ==
    /\ pc[r] = "receive" /\ size[r] # Nothing
    /\ pc' = [pc EXCEPT ![r] = "done"]
    /\ list' = [list EXCEPT ![r] = size[r][2]]
    /\ UNCHANGED <<groupVars, fileVars, pipelineVars, adminVars, toCheck, size>>

ReceiveList(r) ==
    /\ pc[r] = "receive" /\ size[r] # Nothing
    /\ IF size[r] = Failure
       THEN pc' = [pc EXCEPT ![r] = "threw"] /\ UNCHANGED list
       ELSE /\ pc' = [pc EXCEPT ![r] = "done"]
            /\ list' = [list EXCEPT ![r] = size[r][2]]
    /\ UNCHANGED <<groupVars, fileVars, pipelineVars, adminVars, toCheck, size>>

------------------------------------------------------------------------------

\* The founders created the group and rank 0 wrote the file.
Init ==
    /\ members = Founders /\ gone = {}
    /\ view = [s \in Servers |-> IF s \in Founders THEN Founders ELSE {}]
    /\ writing = {} /\ file = Founders /\ missed = FALSE
    /\ m_pipelines = Founders \cap Configured
    /\ active = {} /\ leaving = {} /\ destroyed = {}
    /\ operation = "none" /\ admin = "idle" /\ operations = 0
    /\ ult = [s \in Servers |-> "none"]
    /\ pc = [r \in Ranks |-> IF r = Root THEN "observe" ELSE "receive"]
    /\ list = [r \in Ranks |-> {}]
    /\ toCheck = {}
    /\ size = [r \in Ranks |-> Nothing]

Serve(s) == ServeCreate(s) \/ ServeDestroy(s) \/ ServeShutdown(s) \/ CallFails(s)

Construct == \/ Observe \/ ObserveThrows \/ BroadcastList
             \/ \E s \in Servers : CheckPipeline(s) \/ CheckFails(s)
             \/ \E r \in Others : ReceiveList(r)

Administrate == \/ \E op \in Operations : Begin(op)
                \/ \E s \in Servers : AskLeave(s)
                \/ JoinAll

Next == \/ \E s \in Servers : \/ Join(s) \/ AddFileCallback(s)
                              \/ Leave(s) \/ Iterate(s) \/ Serve(s)
                              \/ \E m \in Servers : MembershipUpdate(s, m)
        \/ Administrate
        \/ Construct

\* The ranks of the client run, and the root's calls are answered or fail.
Fairness == WF_vars(Construct)

Spec == Init /\ [][Next]_vars
FairSpec == Spec /\ Fairness

------------------------------------------------------------------------------
(* Properties. *)

TypeOK ==
    /\ members \subseteq Servers /\ gone \subseteq Servers /\ members \cap gone = {}
    /\ view \in [Servers -> SUBSET Servers]
    /\ writing \subseteq Servers /\ file \subseteq Servers /\ missed \in BOOLEAN
    /\ m_pipelines \subseteq Servers /\ active \subseteq m_pipelines
    /\ leaving \subseteq Servers /\ destroyed \subseteq Servers \ m_pipelines
    /\ operation \in Operations \cup {"none"}
    /\ admin \in {"idle", "running", "returned", "threw", "terminated"}
    /\ operations \in 0..MaxOperations
    /\ ult \in [Servers -> {"none", "ready", "ok", "failed"}]
    /\ pc \in [Ranks -> {"observe", "unobserved", "check", "receive", "done", "threw"}]
    /\ list \in [Ranks -> SUBSET Servers]
    /\ toCheck \subseteq Servers
    /\ size \in [Ranks -> {"list", "failure", "nothing"} \X SUBSET Servers]

\* Every member knows the group.
Settled == \A s \in members : view[s] = members

(* "rewrite the SSG file when the group membership changes": once every     *)
(* member knows of every change, the file names exactly the members, unless *)
(* a change came to a rank 0 that had not registered its callback yet, or   *)
(* the member that joined is rank 0 itself. (It need not: two members may   *)
(* take themselves for rank 0 one after the other.)                         *)
FileCurrent == Settled /\ members # {} /\ ~missed => file = members

(* An operation on the group that returns has done its work on every server *)
(* it observed that did not leave; one that throws has asked no server.     *)
AdminReports ==
    LET asked == {s \in Servers : ult[s] # "none"} IN
    /\ admin = "returned" =>
         CASE operation = "create"   -> asked \subseteq m_pipelines \cup gone
           [] operation = "destroy"  -> asked \cap m_pipelines = {}
           [] operation = "leave"    -> asked \subseteq leaving
           [] operation = "shutdown" -> asked \subseteq gone
    /\ admin = "threw" /\ operation # "leave" => asked = {}

(* All ranks that got a handle have that of the root, and a rank gets one   *)
(* only if the root does.                                                   *)
HandlesAgree ==
    \A r \in Ranks : pc[r] = "done" => pc[Root] = "done" /\ list[r] = list[Root]

(* A server of a handle has the pipeline: what the root checked, one server *)
(* after the other, still holds, unless the server left or an administrator *)
(* destroyed the pipeline in the meantime.                                  *)
CheckedHandle ==
    \A r \in Ranks : list[r] \subseteq m_pipelines \cup gone \cup destroyed

(* Unless SSG fails on the root, which no other rank is told, the           *)
(* construction ends on every rank, with a handle or an exception, whatever *)
(* the servers have to say while members leave and pipelines go.            *)
ConstructionEnds ==
    [](pc[Root] # "unobserved") => <>(\A r \in Ranks : pc[r] \in {"done", "threw"})

==============================================================================
