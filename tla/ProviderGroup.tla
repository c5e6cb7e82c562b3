---------------------------- MODULE ProviderGroup ----------------------------
(***************************************************************************)
(* How the providers of a group get to know it: the constructor of         *)
(* ProviderImpl on every server, the membership callback and the thread it *)
(* spawns, the RPC by which providers give each other their MoNA address,  *)
(* and the addresses a new pipeline receives.                              *)
(*                                                                         *)
(* The RPC handlers have an execution stream of their own: a thread may be *)
(* overtaken wherever it waits or takes a mutex, and anywhere at all       *)
(* between the two statements that compute and store the hash.             *)
(*                                                                         *)
(* A hash is the set of member ids it is the XOR of; an address is the     *)
(* member it belongs to.                                                   *)
(***************************************************************************)
EXTENDS Naturals, FiniteSets

CONSTANTS
    Servers,
    Founders,       \* members that create the group together
    Serving,        \* servers whose pool of RPC handlers is run by a stream
    Hosts,          \* servers on which a pipeline is created
    MayLeave,
    MaxChanges      \* bound: joins and leaves

ASSUME GroupKnown == Founders \subseteq Servers /\ Founders # {}
ASSUME KindsOfServers == Serving \subseteq Servers /\ Hosts \subseteq Servers
ASSUME MayLeaveBoolean == MayLeave \in BOOLEAN
ASSUME MaxChangesNat == MaxChanges \in Nat

VARIABLES
    members, gone,      \* the group, and the servers that left it
    view,               \* server -> its SSG view
    listening,          \* servers whose membership callback is registered
    m_group_hash,
    m_mona_addresses,
    named,              \* servers whose m_mona_self_addr is set
    ctor,               \* server -> control of its constructor
    computed,           \*   a hash computed and not stored yet
    todo, tmp_addresses,\*   members to ask, and the answers
    update,             \* server -> update -> control of the thread it spawned
    addresses,          \*   the local variable of that name, in each thread
    creator,            \* server -> control of the creation of a pipeline
    initial,            \*   the addresses it read for the pipeline
    given,              \* server -> the addresses its pipeline was last given
    missed              \* server -> members whose update came between the two
                        \*   statements that compute and store the hash

groupVars == <<members, gone>>
viewVars == <<view, listening, m_group_hash>>
ctorVars == <<ctor, computed, todo, tmp_addresses>>
updateVars == <<update, addresses>>
pipelineVars == <<creator, initial, given>>
vars == <<groupVars, viewVars, m_mona_addresses, named, ctorVars, updateVars,
          pipelineVars, missed>>

Updates == Servers \X {"joined", "left"}

CtorPcs == {"off", "register", "hash", "store", "address", "list", "resolve", "ready"}
UpdatePcs == {"none", "ask", "record", "copy", "give"}
CreatorPcs == {"idle", "register", "done"}

------------------------------------------------------------------------------
(* Threads. *)

GotoCtor(s, p) == ctor' = [ctor EXCEPT ![s] = p]
GotoUpdate(s, u, p) == update' = [update EXCEPT ![s][u] = p]

\* getMonaAddress answers once the constructor has set the address, in a
\* thread that some stream must run.
Answers(m) == m \in named /\ m \notin gone /\ m \in Serving

------------------------------------------------------------------------------
(* The group. SSG updates the view of a server and calls the callback.      *)

\* The XOR of two sets of ids.
Flip(set, flipped) == (set \ flipped) \cup (flipped \ set)

\* Mutant: the callback does not update the hash.
MembershipUpdateNoHash(s, m) ==
    LET kind == IF m \in members THEN "joined" ELSE "left" IN
    /\ s \in members
    /\ (m \in members) # (m \in view[s])
    /\ view' = [view EXCEPT ![s] = Flip(@, {m})]
    /\ IF s \in listening
       THEN GotoUpdate(s, <<m, kind>>, IF kind = "joined" THEN "ask" ELSE "record")
       ELSE UNCHANGED update
    /\ UNCHANGED <<groupVars, missed, listening, m_group_hash, m_mona_addresses, named,
                   ctorVars, addresses, pipelineVars>>

\* The callback spawns a thread: for a member that joined it begins by
\* asking for its address.
MembershipUpdate(s, m) ==
    LET kind == IF m \in members THEN "joined" ELSE "left" IN
    /\ s \in members
    /\ (m \in members) # (m \in view[s])
    /\ view' = [view EXCEPT ![s] = Flip(@, {m})]
    /\ IF s \in listening
       THEN /\ m_group_hash' = [m_group_hash EXCEPT ![s] = Flip(@, {m})]
            /\ GotoUpdate(s, <<m, kind>>, IF kind = "joined" THEN "ask" ELSE "record")
       ELSE UNCHANGED <<m_group_hash, update>>
    /\ missed' = IF ctor[s] = "store" THEN [missed EXCEPT ![s] = Flip(@, {m})] ELSE missed
    /\ UNCHANGED <<groupVars, listening, m_mona_addresses, named, ctorVars,
                   addresses, pipelineVars>>

Changes == Cardinality(gone) + Cardinality((members \cup gone) \ Founders)

\* The constructor of a provider that must_join: the member that admits it
\* sends its own view.
Join(s) ==
    /\ ctor[s] = "off"
    /\ Changes < MaxChanges
    /\ members' = members \cup {s}
    /\ \E m \in members : view' = [view EXCEPT ![s] = view[m] \cup {s}]
    /\ listening' = listening \cup {s}
    /\ GotoCtor(s, "hash")
    /\ UNCHANGED <<gone, m_group_hash, m_mona_addresses, named, computed, todo,
                   tmp_addresses, updateVars, pipelineVars, missed>>

Leave(s) ==
    /\ MayLeave
    /\ Changes < MaxChanges
    /\ s \in members /\ members # {s}
    /\ ctor[s] = "ready"
    /\ members' = members \ {s}
    /\ gone' = gone \cup {s}
    /\ UNCHANGED <<viewVars, m_mona_addresses, named, ctorVars, updateVars,
                   pipelineVars, missed>>

------------------------------------------------------------------------------
(* The constructor. *)

AddCallback(s) ==
    /\ ctor[s] = "register"
    /\ listening' = listening \cup {s}
    /\ GotoCtor(s, "hash")
    /\ UNCHANGED <<groupVars, missed, view, m_group_hash, m_mona_addresses, named,
                   computed, todo, tmp_addresses, updateVars, pipelineVars>>

ComputeGroupHash(s) ==
    /\ ctor[s] = "hash"
    /\ computed' = [computed EXCEPT ![s] = view[s]]
    /\ GotoCtor(s, "store")
    /\ UNCHANGED <<groupVars, missed, viewVars, m_mona_addresses, named, todo,
                   tmp_addresses, updateVars, pipelineVars>>

StoreGroupHash(s) ==
    /\ ctor[s] = "store"
    /\ m_group_hash' = [m_group_hash EXCEPT ![s] = computed[s]]
    /\ computed' = [computed EXCEPT ![s] = {}]
    /\ GotoCtor(s, "address")
    /\ UNCHANGED <<groupVars, missed, view, listening, m_mona_addresses, named, todo,
                   tmp_addresses, updateVars, pipelineVars>>

\* Mutant: the address is not stored for those who ask for it.
SetSelfAddressLocally(s) ==
    /\ ctor[s] = "address"
    /\ GotoCtor(s, "list")
    /\ UNCHANGED <<groupVars, missed, viewVars, m_mona_addresses, named, computed, todo,
                   tmp_addresses, updateVars, pipelineVars>>

SetSelfAddress(s) ==
    /\ ctor[s] = "address"
    /\ named' = named \cup {s}
    /\ GotoCtor(s, "list")
    /\ UNCHANGED <<groupVars, missed, viewVars, m_mona_addresses, computed, todo,
                   tmp_addresses, updateVars, pipelineVars>>

\* _resolveMonaAddresses: its own address needs no RPC.
ListMembers(s) ==
    /\ ctor[s] = "list"
    /\ todo' = [todo EXCEPT ![s] = view[s] \ {s}]
    /\ tmp_addresses' = [tmp_addresses EXCEPT ![s] = {s}]
    /\ GotoCtor(s, "resolve")
    /\ UNCHANGED <<groupVars, missed, viewVars, m_mona_addresses, named, computed,
                   updateVars, pipelineVars>>

\* Mutant: a member that answered is asked again.
ResolveMemberAgain(s, m) ==
    /\ ctor[s] = "resolve"
    /\ m \in todo[s]
    /\ Answers(m)
    /\ tmp_addresses' = [tmp_addresses EXCEPT ![s] = @ \cup {m}]
    /\ UNCHANGED <<groupVars, missed, viewVars, m_mona_addresses, named, ctor, computed,
                   todo, updateVars, pipelineVars>>

\* A member whose address is in the book already is not asked.
ResolveMember(s, m) ==
    /\ ctor[s] = "resolve"
    /\ m \in todo[s]
    /\ \/ m \in m_mona_addresses[s] /\ UNCHANGED tmp_addresses
       \/ /\ m \notin m_mona_addresses[s]
          /\ Answers(m)
          /\ tmp_addresses' = [tmp_addresses EXCEPT ![s] = @ \cup {m}]
    /\ todo' = [todo EXCEPT ![s] = @ \ {m}]
    /\ UNCHANGED <<groupVars, missed, viewVars, m_mona_addresses, named, ctor, computed,
                   updateVars, pipelineVars>>

\* Mutant: the answers replace the book.
InsertAddressesOver(s) ==
    /\ ctor[s] = "resolve"
    /\ todo[s] = {}
    /\ m_mona_addresses' = [m_mona_addresses EXCEPT ![s] = tmp_addresses[s]]
    /\ tmp_addresses' = [tmp_addresses EXCEPT ![s] = {}]
    /\ GotoCtor(s, "ready")
    /\ UNCHANGED <<groupVars, missed, viewVars, named, computed, todo, updateVars,
                   pipelineVars>>

InsertAddresses(s) ==
    /\ ctor[s] = "resolve"
    /\ todo[s] = {}
    /\ m_mona_addresses' = [m_mona_addresses EXCEPT ![s] = @ \cup tmp_addresses[s]]
    /\ tmp_addresses' = [tmp_addresses EXCEPT ![s] = {}]
    /\ GotoCtor(s, "ready")
    /\ UNCHANGED <<groupVars, missed, viewVars, named, computed, todo, updateVars,
                   pipelineVars>>

------------------------------------------------------------------------------
(* The thread of a membership update. *)

AskMember(s, m) ==
    /\ update[s][<<m, "joined">>] = "ask"
    /\ Answers(m)
    /\ GotoUpdate(s, <<m, "joined">>, "record")
    /\ UNCHANGED <<groupVars, missed, viewVars, m_mona_addresses, named, ctorVars,
                   addresses, pipelineVars>>

RecordUpdate(s, u) ==
    /\ update[s][u] = "record"
    /\ m_mona_addresses' = [m_mona_addresses EXCEPT ![s] =
                              IF u[2] = "joined" THEN @ \cup {u[1]} ELSE @ \ {u[1]}]
    /\ GotoUpdate(s, u, "copy")
    /\ UNCHANGED <<groupVars, missed, viewVars, named, ctorVars, addresses, pipelineVars>>

CopyAddresses(s, u) ==
    /\ update[s][u] = "copy"
    /\ addresses' = [addresses EXCEPT ![s][u] = m_mona_addresses[s]]
    /\ GotoUpdate(s, u, "give")
    /\ UNCHANGED <<groupVars, missed, viewVars, m_mona_addresses, named, ctorVars,
                   pipelineVars>>

\* The thread ends; its local copy is dead.
GiveAddresses(s, u) ==
    /\ update[s][u] = "give"
    /\ given' = [given EXCEPT ![s] = IF creator[s] = "done" THEN addresses[s][u] ELSE @]
    /\ addresses' = [addresses EXCEPT ![s][u] = {}]
    /\ GotoUpdate(s, u, "none")
    /\ UNCHANGED <<groupVars, missed, viewVars, m_mona_addresses, named, ctorVars,
                   creator, initial>>

\* An RPC to a member that left, or that cannot answer, fails; the loop
\* sleeps and tries again.
RetryAsk(s) ==
    /\ s \in members
    /\ \/ ctor[s] = "resolve" /\ \E m \in todo[s] : ~Answers(m)
       \/ \E m \in Servers : update[s][<<m, "joined">>] = "ask" /\ ~Answers(m)
    /\ UNCHANGED vars

------------------------------------------------------------------------------
(* _createPipeline: the new pipeline is given the addresses before it is    *)
(* registered. The RPC is served as soon as it is defined, before the rest  *)
(* of the constructor.                                                      *)

ReadAddresses(s) ==
    /\ s \in Hosts
    /\ creator[s] = "idle"
    /\ initial' = [initial EXCEPT ![s] = m_mona_addresses[s]]
    /\ creator' = [creator EXCEPT ![s] = "register"]
    /\ UNCHANGED <<groupVars, missed, viewVars, m_mona_addresses, named, ctorVars,
                   updateVars, given>>

RegisterPipeline(s) ==
    /\ creator[s] = "register"
    /\ given' = [given EXCEPT ![s] = initial[s]]
    /\ initial' = [initial EXCEPT ![s] = {}]
    /\ creator' = [creator EXCEPT ![s] = "done"]
    /\ UNCHANGED <<groupVars, missed, viewVars, m_mona_addresses, named, ctorVars,
                   updateVars>>

------------------------------------------------------------------------------

Init ==
    /\ members = Founders
    /\ gone = {}
    /\ view = [s \in Servers |-> IF s \in Founders THEN Founders ELSE {}]
    /\ listening = {}
    /\ m_group_hash = [s \in Servers |-> {}]
    /\ m_mona_addresses = [s \in Servers |-> {}]
    /\ named = {}
    /\ ctor = [s \in Servers |-> IF s \in Founders THEN "register" ELSE "off"]
    /\ computed = [s \in Servers |-> {}]
    /\ todo = [s \in Servers |-> {}]
    /\ tmp_addresses = [s \in Servers |-> {}]
    /\ update = [s \in Servers |-> [u \in Updates |-> "none"]]
    /\ addresses = [s \in Servers |-> [u \in Updates |-> {}]]
    /\ creator = [s \in Servers |-> "idle"]
    /\ initial = [s \in Servers |-> {}]
    /\ given = [s \in Servers |-> {}]
    /\ missed = [s \in Servers |-> {}]

Construct(s) == \/ AddCallback(s) \/ ComputeGroupHash(s) \/ StoreGroupHash(s)
                \/ SetSelfAddress(s) \/ ListMembers(s) \/ InsertAddresses(s)
                \/ \E m \in Servers : ResolveMember(s, m)

HandleUpdate(s, u) == \/ AskMember(s, u[1]) \/ RecordUpdate(s, u)
                      \/ CopyAddresses(s, u) \/ GiveAddresses(s, u)

\* Nothing is under way on any server: they wait for requests.
Quiet == /\ \A s \in members : /\ ctor[s] = "ready"
                               /\ view[s] = members
                               /\ \A u \in Updates : update[s][u] = "none"
         /\ UNCHANGED vars

\* What happens on a server that left no longer matters.
Next == \/ \E s \in Servers : Join(s)
        \/ \E s \in members :
             \/ Leave(s)
             \/ \E m \in Servers : MembershipUpdate(s, m)
             \/ Construct(s)
             \/ \E u \in Updates : HandleUpdate(s, u)
             \/ ReadAddresses(s) \/ RegisterPipeline(s)
             \/ RetryAsk(s)
        \/ Quiet

\* SSG tells every member of every change, and every thread that is ready runs.
Fairness == \A s \in Servers :
               /\ \A m \in Servers : WF_vars(MembershipUpdate(s, m))
               /\ WF_vars(s \in members /\ Construct(s))
               /\ \A u \in Updates : WF_vars(s \in members /\ HandleUpdate(s, u))
               /\ WF_vars(s \in members /\ RegisterPipeline(s))

Spec == Init /\ [][Next]_vars
FairSpec == Spec /\ Fairness

------------------------------------------------------------------------------
(* Properties. *)

TypeOK ==
    /\ members \subseteq Servers /\ gone \subseteq Servers /\ members \cap gone = {}
    /\ view \in [Servers -> SUBSET Servers]
    /\ listening \subseteq Servers /\ named \subseteq listening
    /\ m_group_hash \in [Servers -> SUBSET Servers]
    /\ m_mona_addresses \in [Servers -> SUBSET Servers]
    /\ ctor \in [Servers -> CtorPcs]
    /\ computed \in [Servers -> SUBSET Servers]
    /\ todo \in [Servers -> SUBSET Servers]
    /\ tmp_addresses \in [Servers -> SUBSET Servers]
    /\ \A s \in Servers : todo[s] \cap tmp_addresses[s] = {}
    /\ update \in [Servers -> [Updates -> UpdatePcs]]
    /\ addresses \in [Servers -> [Updates -> SUBSET Servers]]
    /\ creator \in [Servers -> CreatorPcs]
    /\ initial \in [Servers -> SUBSET Servers]
    /\ given \in [Servers -> SUBSET Servers]
    /\ missed \in [Servers -> SUBSET Servers]

\* Every callback that was delivered to s was handled to its end.
Settled(s) == /\ ctor[s] = "ready"
              /\ \A u \in Updates : update[s][u] = "none"

(* A provider that can be reached refuses exactly the clients whose view is *)
(* not its own: its hash is computed once and flipped by every callback     *)
(* since, and however these are interleaved with the constructor it differs *)
(* from the view by the updates that came between computing and storing it, *)
(* which no later update makes up for.                                      *)
HashIsView == \A s \in members : s \in named => m_group_hash[s] = Flip(view[s], missed[s])

(* A provider that settled has the address of every member of its view,     *)
(* those it resolved in its constructor and those that joined meanwhile.    *)
EveryMemberKnown ==
    \A s \in members : Settled(s) => view[s] \subseteq m_mona_addresses[s]

(* "Update the array of Mona addresses associated with the SSG group": once *)
(* nothing is under way on a provider, its pipeline has the addresses of    *)
(* the provider's book, whenever it was created and however many updates    *)
(* were handled at once.                                                    *)
PipelinesCurrent ==
    \A s \in members : (Settled(s) /\ creator[s] = "done")
                         => given[s] = m_mona_addresses[s]

\* The members whose address a thread of s waits for.
Asked(s) == {m \in Servers : \/ ctor[s] = "resolve" /\ m \in todo[s] \ m_mona_addresses[s]
                             \/ update[s][<<m, "joined">>] = "ask"}

(* Providers never wait for each other's address in a circle: a member that *)
(* is asked and cannot answer yet is in the part of its own constructor     *)
(* that asks nobody, or it left the group.                                  *)
NoWaitCycle ==
    \A s \in members : \A m \in Asked(s) :
        \/ Answers(m)
        \/ m \in members /\ ctor[m] \in {"register", "hash", "store", "address"}
        \/ m \in gone

\* The members that left and whose address a thread of s still asks for.
AskedForEver(s) == Asked(s) \cap gone

(* All constructors end, although each asks the others for their address,   *)
(* and every provider comes to know the whole group, also when a member     *)
(* leaves meanwhile: for ever behind is only a provider that asks a member  *)
(* that left before it answered.                                            *)
GroupForms ==
    <>[](\A s \in members : \/ AskedForEver(s) # {}
                             \/ /\ Settled(s)
                                /\ view[s] = members
                                /\ members \subseteq m_mona_addresses[s])

==============================================================================
