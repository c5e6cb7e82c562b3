------------------------- MODULE ProviderGroupProofs -------------------------
(* Theorems about ProviderGroup, for every value of its constants. *)
EXTENDS ProviderGroup, TLAPS

------------------------------------------------------------------------------
(* Types, and which servers listen. *)

\* The callback is registered as soon as the constructor is past it; a server
\* that was never constructed is in no group.
Constructed ==
    \A s \in Servers : /\ s \in listening <=> ctor[s] \notin {"off", "register"}
                       /\ ctor[s] = "off" => s \notin members \cup gone
                       /\ ctor[s] = "off" => \A u \in Updates : update[s][u] = "none"

TypeInv == TypeOK /\ Constructed

LEMMA InitTyped == Init => TypeInv
<1> SUFFICES ASSUME Init PROVE TypeInv
  OBVIOUS
<1> USE GroupKnown DEF Init
<1>1. /\ members \subseteq Servers /\ gone \subseteq Servers /\ members \cap gone = {}
      /\ view \in [Servers -> SUBSET Servers]
      /\ listening \subseteq Servers /\ named \subseteq listening
      /\ m_group_hash \in [Servers -> SUBSET Servers]
      /\ m_mona_addresses \in [Servers -> SUBSET Servers]
  OBVIOUS
<1>2. /\ ctor \in [Servers -> CtorPcs]
      /\ computed \in [Servers -> SUBSET Servers]
      /\ todo \in [Servers -> SUBSET Servers]
      /\ tmp_addresses \in [Servers -> SUBSET Servers]
      /\ \A s \in Servers : todo[s] \cap tmp_addresses[s] = {}
  BY DEF CtorPcs
<1>3. /\ update \in [Servers -> [Updates -> UpdatePcs]]
      /\ addresses \in [Servers -> [Updates -> SUBSET Servers]]
      /\ creator \in [Servers -> CreatorPcs]
      /\ initial \in [Servers -> SUBSET Servers]
      /\ given \in [Servers -> SUBSET Servers]
      /\ missed \in [Servers -> SUBSET Servers]
  BY DEF UpdatePcs, CreatorPcs
<1>4. Constructed
  BY DEF Constructed
<1> QED
  BY <1>1, <1>2, <1>3, <1>4 DEF TypeInv, TypeOK

LEMMA MembershipUpdateTyped ==
    ASSUME TypeInv, NEW s \in Servers, NEW m \in Servers, MembershipUpdate(s, m)
    PROVE  TypeInv'
<1> USE DEF TypeInv, TypeOK, groupVars, ctorVars, pipelineVars
<1> DEFINE kind == IF m \in members THEN "joined" ELSE "left"
<1>1. <<m, kind>> \in Updates
  BY DEF Updates
<1>2. \A A \in SUBSET Servers : Flip(A, {m}) \in SUBSET Servers
  BY DEF Flip
<1>3. /\ view' \in [Servers -> SUBSET Servers]
      /\ m_group_hash' \in [Servers -> SUBSET Servers]
      /\ missed' \in [Servers -> SUBSET Servers]
  <2>1. /\ view' = [view EXCEPT ![s] = Flip(view[s], {m})]
        /\ \/ m_group_hash' = m_group_hash
           \/ m_group_hash' = [m_group_hash EXCEPT ![s] = Flip(m_group_hash[s], {m})]
        /\ missed' = missed \/ missed' = [missed EXCEPT ![s] = Flip(missed[s], {m})]
    BY DEF MembershipUpdate
  <2>2. /\ [view EXCEPT ![s] = Flip(view[s], {m})] \in [Servers -> SUBSET Servers]
        /\ [m_group_hash EXCEPT ![s] = Flip(m_group_hash[s], {m})] \in [Servers -> SUBSET Servers]
        /\ [missed EXCEPT ![s] = Flip(missed[s], {m})] \in [Servers -> SUBSET Servers]
    <3>1. /\ Flip(view[s], {m}) \in SUBSET Servers
          /\ Flip(m_group_hash[s], {m}) \in SUBSET Servers
          /\ Flip(missed[s], {m}) \in SUBSET Servers
      BY <1>2
    <3> QED
      BY <3>1
  <2> QED
    BY <2>1, <2>2, Zenon
<1>4. update' \in [Servers -> [Updates -> UpdatePcs]]
  <2> DEFINE u == <<m, kind>>
             p == IF kind = "joined" THEN "ask" ELSE "record"
  <2>1. u \in Updates /\ p \in UpdatePcs
    BY <1>1 DEF UpdatePcs
  <2>2. update' = update \/ update' = [update EXCEPT ![s][u] = p]
    BY DEF MembershipUpdate, GotoUpdate
  <2> HIDE DEF u, p, kind
  <2>3. [update[s] EXCEPT ![u] = p] \in [Updates -> UpdatePcs]
    BY <2>1
  <2>4. [update EXCEPT ![s][u] = p] \in [Servers -> [Updates -> UpdatePcs]]
    BY <2>3
  <2> QED
    BY <2>2, <2>4
<1>5. Constructed'
  BY <1>1 DEF MembershipUpdate, GotoUpdate, Constructed
<1> QED
  BY <1>3, <1>4, <1>5 DEF MembershipUpdate

LEMMA GroupTyped ==
    ASSUME TypeInv, NEW s \in Servers, Join(s) \/ (s \in members /\ Leave(s))
    PROVE  TypeInv'
<1> USE DEF TypeInv, TypeOK, groupVars, viewVars, ctorVars, updateVars, pipelineVars
<1>1. CASE Join(s)
  <2>1. /\ members' \subseteq Servers /\ members' \cap gone' = {}
        /\ view' \in [Servers -> SUBSET Servers]
        /\ ctor' \in [Servers -> CtorPcs]
    BY <1>1 DEF Join, GotoCtor, CtorPcs, Constructed
  <2>2. Constructed'
    BY <1>1 DEF Join, GotoCtor, CtorPcs, Constructed
  <2> QED
    BY <1>1, <2>1, <2>2 DEF Join
<1>2. CASE s \in members /\ Leave(s)
  <2>1. Constructed'
    BY <1>2 DEF Leave, Constructed
  <2> QED
    BY <1>2, <2>1 DEF Leave
<1> QED
  BY <1>1, <1>2

LEMMA ConstructTyped ==
    ASSUME TypeInv, NEW s \in Servers, Construct(s)
    PROVE  TypeInv'
<1> USE DEF TypeInv, TypeOK, GotoCtor, CtorPcs, Constructed,
            groupVars, viewVars, updateVars, pipelineVars
<1>1. CASE AddCallback(s)
  BY <1>1 DEF AddCallback
<1>2. CASE ComputeGroupHash(s)
  BY <1>2 DEF ComputeGroupHash
<1>3. CASE StoreGroupHash(s)
  BY <1>3 DEF StoreGroupHash
<1>4. CASE SetSelfAddress(s)
  BY <1>4 DEF SetSelfAddress
<1>5. CASE ListMembers(s)
  BY <1>5 DEF ListMembers
<1>6. CASE InsertAddresses(s)
  BY <1>6 DEF InsertAddresses
<1>7. ASSUME NEW m \in Servers, ResolveMember(s, m) PROVE TypeInv'
  <2>1. /\ todo' = [todo EXCEPT ![s] = @ \ {m}]
        /\ \/ tmp_addresses' = tmp_addresses
           \/ tmp_addresses' = [tmp_addresses EXCEPT ![s] = @ \cup {m}]
        /\ UNCHANGED <<groupVars, missed, viewVars, m_mona_addresses, named, ctor,
                       computed, updateVars, pipelineVars>>
    BY <1>7 DEF ResolveMember
  <2>2. \A t \in Servers : todo'[t] \cap tmp_addresses'[t] = {}
    BY <2>1
  <2>3. todo' \in [Servers -> SUBSET Servers]
    BY <2>1
  <2>4. [tmp_addresses EXCEPT ![s] = @ \cup {m}] \in [Servers -> SUBSET Servers]
    <3>1. tmp_addresses[s] \cup {m} \in SUBSET Servers
      OBVIOUS
    <3> QED
      BY <3>1
  <2> QED
    BY <2>1, <2>2, <2>3, <2>4
<1> QED
  BY <1>1, <1>2, <1>3, <1>4, <1>5, <1>6, <1>7 DEF Construct

LEMMA HandleUpdateTyped ==
    ASSUME TypeInv, NEW s \in members, NEW u \in Updates, HandleUpdate(s, u)
    PROVE  TypeInv'
<1> USE DEF TypeInv, TypeOK, GotoUpdate, UpdatePcs, Updates, Constructed,
            groupVars, viewVars, ctorVars, updateVars, pipelineVars
<1>1. CASE AskMember(s, u[1])
  BY <1>1 DEF AskMember
<1>2. CASE RecordUpdate(s, u)
  BY <1>2 DEF RecordUpdate
<1>3. CASE CopyAddresses(s, u)
  BY <1>3 DEF CopyAddresses
<1>4. CASE GiveAddresses(s, u)
  BY <1>4 DEF GiveAddresses
<1> QED
  BY <1>1, <1>2, <1>3, <1>4 DEF HandleUpdate

LEMMA CreateTyped ==
    ASSUME TypeInv, NEW s \in members, ReadAddresses(s) \/ RegisterPipeline(s)
    PROVE  TypeInv'
<1> USE DEF TypeInv, TypeOK, CreatorPcs, Constructed,
            groupVars, viewVars, ctorVars, updateVars
<1>1. CASE ReadAddresses(s)
  BY <1>1 DEF ReadAddresses
<1>2. CASE RegisterPipeline(s)
  BY <1>2 DEF RegisterPipeline
<1> QED
  BY <1>1, <1>2

LEMMA NextTyped == TypeInv /\ [Next]_vars => TypeInv'
<1> SUFFICES ASSUME TypeInv, [Next]_vars PROVE TypeInv'
  OBVIOUS
<1>1. CASE UNCHANGED vars
  BY <1>1 DEF TypeInv, TypeOK, Constructed, vars, groupVars, viewVars, ctorVars,
              updateVars, pipelineVars
<1>2. ASSUME NEW s \in Servers, Join(s) PROVE TypeInv'
  BY <1>2, GroupTyped
<1>3. ASSUME NEW s \in members, Leave(s) PROVE TypeInv'
  BY <1>3, GroupTyped DEF TypeInv, TypeOK
<1>4. ASSUME NEW s \in members, NEW m \in Servers, MembershipUpdate(s, m) PROVE TypeInv'
  BY <1>4, MembershipUpdateTyped DEF TypeInv, TypeOK
<1>5. ASSUME NEW s \in members, Construct(s) PROVE TypeInv'
  BY <1>5, ConstructTyped DEF TypeInv, TypeOK
<1>6. ASSUME NEW s \in members, NEW u \in Updates, HandleUpdate(s, u) PROVE TypeInv'
  BY <1>6, HandleUpdateTyped
<1>7. ASSUME NEW s \in members, ReadAddresses(s) \/ RegisterPipeline(s) PROVE TypeInv'
  BY <1>7, CreateTyped
<1>8. ASSUME NEW s \in members, RetryAsk(s) PROVE TypeInv'
  BY <1>1, <1>8 DEF RetryAsk
<1>9. CASE Quiet
  BY <1>1, <1>9 DEF Quiet
<1> QED
  BY <1>1, <1>2, <1>3, <1>4, <1>5, <1>6, <1>7, <1>8, <1>9 DEF Next

\* Every variable keeps its type: the constructors, callbacks and threads of
\* ProviderImpl, for any group.
THEOREM GroupTypeCorrect == Spec => []TypeOK
<1>1. TypeInv => TypeOK
  BY DEF TypeInv
<1> QED
  BY <1>1, InitTyped, NextTyped, PTL DEF Spec

\* One rule for every invariant below.
Step(s) == \/ Join(s)
           \/ s \in members /\ \/ Leave(s)
                               \/ \E m \in Servers : MembershipUpdate(s, m)
                               \/ Construct(s)
                               \/ \E u \in Updates : HandleUpdate(s, u)
                               \/ ReadAddresses(s) \/ RegisterPipeline(s)

LEMMA StepOrStutter ==
    ASSUME TypeInv, [Next]_vars
    PROVE  UNCHANGED vars \/ \E s \in Servers : Step(s)
<1> members \subseteq Servers
  BY DEF TypeInv, TypeOK
<1>1. CASE Next
  BY <1>1 DEF Next, Step, RetryAsk, Quiet
<1> QED
  BY <1>1

\* What an update does to the view of a server.
LEMMA Flipped ==
    ASSUME TypeInv, NEW s \in members, NEW m \in Servers, MembershipUpdate(s, m)
    PROVE  /\ \A t \in Servers : t # s => /\ view'[t] = view[t]
                                          /\ m_group_hash'[t] = m_group_hash[t]
                                          /\ missed'[t] = missed[t]
           /\ view'[s] = Flip(view[s], {m})
           /\ s \in listening => m_group_hash'[s] = Flip(m_group_hash[s], {m})
           /\ missed'[s] = IF ctor[s] = "store" THEN Flip(missed[s], {m}) ELSE missed[s]
           /\ m \in view'[s] => m \in members
           /\ m \notin view'[s] => m \in view[s] /\ m \notin members
           /\ UNCHANGED <<groupVars, listening, m_mona_addresses, named, ctorVars,
                          addresses, pipelineVars>>
<1> USE DEF TypeInv, TypeOK
<1> s \in Servers
  OBVIOUS
<1>1. /\ \A t \in Servers : t # s => view'[t] = view[t]
      /\ view'[s] = Flip(view[s], {m})
  BY DEF MembershipUpdate
<1>2. \A t \in Servers : t # s => /\ m_group_hash'[t] = m_group_hash[t]
                                  /\ missed'[t] = missed[t]
  BY DEF MembershipUpdate
<1>3. s \in listening => m_group_hash'[s] = Flip(m_group_hash[s], {m})
  BY DEF MembershipUpdate
<1>4. missed'[s] = IF ctor[s] = "store" THEN Flip(missed[s], {m}) ELSE missed[s]
  BY DEF MembershipUpdate
<1>5. (m \in members) # (m \in view[s])
  BY DEF MembershipUpdate
<1> QED
  BY <1>1, <1>2, <1>3, <1>4, <1>5 DEF MembershipUpdate, Flip

------------------------------------------------------------------------------
(* The hash. What is missed between the two statements that compute and     *)
(* store it stays missed: every update flips the view and the hash alike.   *)

LEMMA FlipNone == ASSUME NEW A PROVE Flip(A, {}) = A
  BY DEF Flip

HashInv ==
    /\ TypeInv
    /\ \A s \in Servers : ctor[s] \in {"off", "register", "hash"} => missed[s] = {}
    /\ \A s \in members :
         /\ ctor[s] = "store" => computed[s] = Flip(view[s], missed[s])
         /\ ctor[s] \in {"address", "list", "resolve", "ready"}
              => m_group_hash[s] = Flip(view[s], missed[s])
    /\ \A s \in named : ctor[s] \in {"list", "resolve", "ready"}

LEMMA UpdateKeepsHash ==
    ASSUME HashInv, NEW s \in members, NEW m \in Servers, MembershipUpdate(s, m), TypeInv'
    PROVE  HashInv'
<1>t. TypeInv /\ members \subseteq Servers /\ s \in Servers
  BY DEF HashInv, TypeInv, TypeOK
<1>1. UNCHANGED <<members, named, ctor, computed>>
  BY <1>t, Flipped DEF groupVars, ctorVars
<1>2. \A t \in Servers : t # s => /\ view'[t] = view[t]
                                  /\ m_group_hash'[t] = m_group_hash[t]
                                  /\ missed'[t] = missed[t]
  BY <1>t, Flipped
<1>3. /\ view'[s] = Flip(view[s], {m})
      /\ s \in listening => m_group_hash'[s] = Flip(m_group_hash[s], {m})
      /\ missed'[s] = IF ctor[s] = "store" THEN Flip(missed[s], {m}) ELSE missed[s]
  BY <1>t, Flipped
<1>4. s \in listening <=> ctor[s] \notin {"off", "register"}
  BY <1>t DEF TypeInv, Constructed
<1>5. \A t \in Servers : ctor'[t] \in {"off", "register", "hash"} => missed'[t] = {}
  BY <1>1, <1>2, <1>3 DEF HashInv
<1>6. ctor[s] = "store" => computed[s] = Flip(view'[s], missed'[s])
  <2> SUFFICES ASSUME ctor[s] = "store" PROVE computed[s] = Flip(view'[s], missed'[s])
    OBVIOUS
  <2>1. /\ computed[s] = Flip(view[s], missed[s])
        /\ view'[s] = Flip(view[s], {m}) /\ missed'[s] = Flip(missed[s], {m})
    BY <1>3 DEF HashInv
  <2> QED
    BY <2>1 DEF Flip
<1>7. ctor[s] \in {"address", "list", "resolve", "ready"}
        => m_group_hash'[s] = Flip(view'[s], missed'[s])
  <2> SUFFICES ASSUME ctor[s] \in {"address", "list", "resolve", "ready"}
               PROVE  m_group_hash'[s] = Flip(view'[s], missed'[s])
    OBVIOUS
  <2>1. /\ m_group_hash[s] = Flip(view[s], missed[s])
        /\ m_group_hash'[s] = Flip(m_group_hash[s], {m})
        /\ view'[s] = Flip(view[s], {m}) /\ missed'[s] = missed[s]
    BY <1>3, <1>4 DEF HashInv
  <2> QED
    BY <2>1 DEF Flip
<1>8. \A t \in members :
        /\ ctor[t] = "store" => computed[t] = Flip(view'[t], missed'[t])
        /\ ctor[t] \in {"address", "list", "resolve", "ready"}
             => m_group_hash'[t] = Flip(view'[t], missed'[t])
  BY <1>t, <1>2, <1>6, <1>7 DEF HashInv
<1> QED
  BY <1>1, <1>5, <1>8 DEF HashInv

LEMMA StepKeepsHash ==
    ASSUME HashInv, NEW s \in Servers, Step(s), TypeInv'
    PROVE  HashInv'
<1> USE DEF HashInv
<1> members \subseteq Servers /\ named \subseteq Servers
  BY DEF TypeInv, TypeOK
<1>1. CASE Join(s)
  BY <1>1 DEF Join, GotoCtor, TypeInv, TypeOK, Constructed
<1>2. CASE s \in members /\ Leave(s)
  BY <1>2 DEF Leave, viewVars, ctorVars
<1>3. ASSUME s \in members, NEW m \in Servers, MembershipUpdate(s, m) PROVE HashInv'
  BY <1>3, UpdateKeepsHash
<1>4. ASSUME s \in members, Construct(s) PROVE HashInv'
  <2> USE DEF TypeInv, TypeOK, GotoCtor, groupVars, viewVars
  <2>1. CASE AddCallback(s)
    BY <1>4, <2>1 DEF AddCallback
  <2>2. CASE ComputeGroupHash(s)
    <3>1. Flip(view[s], missed[s]) = view[s]
      BY <2>2, FlipNone DEF ComputeGroupHash
    <3> QED
      BY <1>4, <2>2, <3>1 DEF ComputeGroupHash
  <2>3. CASE StoreGroupHash(s)
    BY <1>4, <2>3 DEF StoreGroupHash
  <2>4. CASE SetSelfAddress(s)
    BY <1>4, <2>4 DEF SetSelfAddress
  <2>5. CASE ListMembers(s)
    BY <1>4, <2>5 DEF ListMembers
  <2>6. CASE InsertAddresses(s)
    BY <1>4, <2>6 DEF InsertAddresses
  <2>7. ASSUME NEW m \in Servers, ResolveMember(s, m) PROVE HashInv'
    BY <1>4, <2>7 DEF ResolveMember
  <2> QED
    BY <1>4, <2>1, <2>2, <2>3, <2>4, <2>5, <2>6, <2>7 DEF Construct
<1>5. ASSUME s \in members, NEW u \in Updates, HandleUpdate(s, u) PROVE HashInv'
  BY <1>5 DEF HandleUpdate, AskMember, RecordUpdate, CopyAddresses, GiveAddresses,
              groupVars, viewVars, ctorVars
<1>6. CASE s \in members /\ (ReadAddresses(s) \/ RegisterPipeline(s))
  BY <1>6 DEF ReadAddresses, RegisterPipeline, groupVars, viewVars, ctorVars
<1> QED
  BY <1>1, <1>2, <1>3, <1>4, <1>5, <1>6 DEF Step

\* The hash of a provider that can be reached differs from its view by what came
\* between ComputeGroupHash and the assignment in ProviderImpl's constructor, and
\* by nothing else: m_group_hash is read from SSG once and flipped by every
\* callback of _membershipUpdate since, whatever threads run meanwhile.
THEOREM HashFollowsView == Spec => []HashIsView
<1>1. Init => HashInv
  <2> SUFFICES ASSUME Init PROVE HashInv
    OBVIOUS
  <2>1. TypeInv
    BY InitTyped
  <2> QED
    BY <2>1, GroupKnown DEF HashInv, Init
<1>2. HashInv /\ [Next]_vars => HashInv'
  <2> SUFFICES ASSUME HashInv, [Next]_vars PROVE HashInv'
    OBVIOUS
  <2>1. TypeInv'
    BY NextTyped DEF HashInv
  <2>2. CASE UNCHANGED vars
    BY <2>1, <2>2 DEF HashInv, vars, groupVars, viewVars, ctorVars
  <2> QED
    BY <2>1, <2>2, StepOrStutter, StepKeepsHash DEF HashInv
<1>3. HashInv => HashIsView
  BY DEF HashInv, HashIsView
<1> QED
  BY <1>1, <1>2, <1>3, PTL DEF Spec

------------------------------------------------------------------------------
(* The addresses. A member of the view is in the book, or about to be: by   *)
(* the constructor, or by the thread of the update that announced it.       *)

OnItsWay(s, m) ==
    \/ ctor[s] \notin {"resolve", "ready"}
    \/ ctor[s] = "resolve" /\ m \in todo[s] \cup tmp_addresses[s]
    \/ update[s][<<m, "joined">>] \in {"ask", "record"}

BookInv ==
    /\ TypeInv
    /\ \A s \in members : view[s] \subseteq members \cup gone
    /\ \A s \in members : \A m \in view[s] :
         m \in m_mona_addresses[s] \/ OnItsWay(s, m)
    /\ \A s \in members, m \in Servers :
         update[s][<<m, "left">>] # "none" => m \in gone /\ m \notin view[s]

LEMMA JoinKeepsBook ==
    ASSUME BookInv, NEW s \in Servers, Join(s), TypeInv'
    PROVE  BookInv'
<1> USE DEF BookInv
<1> members \subseteq Servers
  BY DEF TypeInv, TypeOK
<1>1. /\ members' = members \cup {s} /\ gone' = gone
      /\ UNCHANGED <<m_mona_addresses, todo, tmp_addresses, update>>
  BY DEF Join, updateVars
<1>2. ctor'[s] = "hash" /\ \A t \in Servers : t # s => ctor'[t] = ctor[t]
  BY DEF Join, GotoCtor, TypeInv, TypeOK
<1>3. PICK a \in members : view' = [view EXCEPT ![s] = view[a] \cup {s}]
  BY DEF Join
<1>4. /\ view'[s] = view[a] \cup {s}
      /\ \A t \in Servers : t # s => view'[t] = view[t]
  BY <1>3 DEF TypeInv, TypeOK
<1>5. \A m \in Servers : update[s][<<m, "left">>] = "none"
  BY DEF Join, TypeInv, Constructed, Updates
<1>6. s \notin members
  BY DEF Join, TypeInv, Constructed
<1>7. \A t \in members' : view'[t] \subseteq members' \cup gone'
  BY <1>1, <1>4
<1>8. \A t \in members' : \A m \in view'[t] : m \in m_mona_addresses'[t] \/ OnItsWay(t, m)'
  BY <1>1, <1>2, <1>4 DEF OnItsWay
<1>9. \A t \in members', m \in Servers :
        update'[t][<<m, "left">>] # "none" => m \in gone' /\ m \notin view'[t]
  BY <1>1, <1>4, <1>5
<1> QED
  BY <1>7, <1>8, <1>9

LEMMA UpdateKeepsBook ==
    ASSUME BookInv, NEW s \in members, NEW m \in Servers, MembershipUpdate(s, m), TypeInv'
    PROVE  BookInv'
<1> USE DEF BookInv
<1> members \subseteq Servers
  BY DEF TypeInv, TypeOK
<1>1. UNCHANGED <<members, gone, listening, m_mona_addresses, ctor, todo, tmp_addresses>>
  BY Flipped DEF groupVars, ctorVars
<1>f. /\ \A t \in members : t # s => view'[t] = view[t]
      /\ view'[s] = IF m \in view[s] THEN view[s] \ {m} ELSE view[s] \cup {m}
      /\ m \in view'[s] => m \in members
      /\ m \notin view'[s] => m \in view[s] /\ m \notin members
  BY Flipped DEF Flip
<1>2. \A t \in members' : view'[t] \subseteq members' \cup gone'
  <2> SUFFICES ASSUME NEW t \in members PROVE view'[t] \subseteq members \cup gone
    BY <1>1
  <2>1. view[t] \subseteq members \cup gone
    OBVIOUS
  <2>2. CASE t = s
    BY <1>f, <2>1, <2>2
  <2>3. CASE t # s
    BY <1>f, <2>1, <2>3
  <2> QED
    BY <2>2, <2>3
<1> DEFINE kind == IF m \in members THEN "joined" ELSE "left"
           p == IF kind = "joined" THEN "ask" ELSE "record"
<1>3. /\ m \in view'[s] => kind = "joined"
      /\ m \notin view'[s] => kind = "left" /\ m \in gone
  BY <1>f
<1>4. \A t \in Servers, n \in Servers, k \in {"joined", "left"} :
        \/ update'[t][<<n, k>>] = update[t][<<n, k>>]
        \/ t = s /\ n = m /\ k = kind
  <2>1. update' = update \/ update' = [update EXCEPT ![s] = [@ EXCEPT ![<<m, kind>>] = p]]
    BY DEF MembershipUpdate, GotoUpdate
  <2>2. update \in [Servers -> [Updates -> UpdatePcs]]
    BY DEF TypeInv, TypeOK
  <2>3. \A n \in Servers, k \in {"joined", "left"} : <<n, k>> \in Updates
    BY DEF Updates
  <2> HIDE DEF kind, p
  <2> SUFFICES ASSUME NEW t \in Servers, NEW n \in Servers, NEW k \in {"joined", "left"},
                      ~(t = s /\ n = m /\ k = kind)
               PROVE  update'[t][<<n, k>>] = update[t][<<n, k>>]
    OBVIOUS
  <2>4. <<n, k>> = <<m, kind>> => n = m /\ k = kind
    OBVIOUS
  <2>5. CASE t # s
    BY <2>1, <2>2, <2>5
  <2>6. CASE t = s
    <3>1. <<n, k>> # <<m, kind>> /\ <<n, k>> \in Updates
      BY <2>3, <2>4, <2>6
    <3>2. update[s] \in [Updates -> UpdatePcs]
      BY <2>2
    <3> QED
      BY <2>1, <2>2, <2>6, <3>1, <3>2
  <2> QED
    BY <2>5, <2>6
<1>5. m \in view'[s] => m \in m_mona_addresses[s] \/ OnItsWay(s, m)'
  <2> SUFFICES ASSUME m \in view'[s] PROVE OnItsWay(s, m)'
    OBVIOUS
  <2>1. CASE s \in listening
    <3>1. update' = [update EXCEPT ![s] = [@ EXCEPT ![<<m, "joined">>] = "ask"]]
      BY <1>3, <2>1 DEF MembershipUpdate, GotoUpdate
    <3>2. update'[s][<<m, "joined">>] = "ask"
      BY <3>1 DEF TypeInv, TypeOK, Updates
    <3> QED
      BY <3>2 DEF OnItsWay
  <2>2. CASE s \notin listening
    BY <1>1, <2>2 DEF OnItsWay, TypeInv, Constructed
  <2> QED
    BY <2>1, <2>2
<1>6. \A t \in members : \A n \in view'[t] : t # s \/ n # m => n \in view[t]
  BY <1>f
<1>7. ASSUME NEW t \in members, NEW n \in Servers, t # s \/ n # m, OnItsWay(t, n)
      PROVE  OnItsWay(t, n)'
  <2>1. update'[t][<<n, "joined">>] = update[t][<<n, "joined">>]
    BY <1>4, <1>7
  <2> QED
    BY <1>1, <1>7, <2>1 DEF OnItsWay
<1>8. \A t \in members' : \A n \in view'[t] :
        n \in m_mona_addresses'[t] \/ OnItsWay(t, n)'
  <2> SUFFICES ASSUME NEW t \in members, NEW n \in view'[t]
               PROVE  n \in m_mona_addresses[t] \/ OnItsWay(t, n)'
    BY <1>1
  <2>1. CASE t = s /\ n = m
    BY <1>5, <2>1
  <2>2. CASE t # s \/ n # m
    <3>1. n \in view[t] /\ n \in Servers
      BY <1>6, <2>2 DEF TypeInv, TypeOK
    <3> QED
      BY <1>7, <2>2, <3>1
  <2> QED
    BY <2>1, <2>2
<1>9. \A t \in members', n \in Servers :
        update'[t][<<n, "left">>] # "none" => n \in gone' /\ n \notin view'[t]
  <2> SUFFICES ASSUME NEW t \in members, NEW n \in Servers, update'[t][<<n, "left">>] # "none"
               PROVE  n \in gone /\ n \notin view'[t]
    BY <1>1
  <2>1. CASE t = s /\ n = m /\ kind = "left"
    BY <1>3, <2>1
  <2>2. CASE ~(t = s /\ n = m /\ kind = "left")
    <3>1. update[t][<<n, "left">>] # "none"
      BY <1>4, <2>2
    <3>2. n \in gone /\ n \notin view[t] /\ n \notin members
      BY <3>1 DEF TypeInv, TypeOK
    <3>3. t # s \/ n # m => n \notin view'[t]
      BY <1>f, <3>2
    <3>4. t = s /\ n = m => n \notin view'[t]
      BY <1>f, <3>2
    <3> QED
      BY <3>2, <3>3, <3>4
  <2> QED
    BY <2>1, <2>2
<1> QED
  BY <1>2, <1>8, <1>9

LEMMA ConstructKeepsBook ==
    ASSUME BookInv, NEW s \in members, Construct(s), TypeInv'
    PROVE  BookInv'
<1> USE DEF BookInv
<1> members \subseteq Servers
  BY DEF TypeInv, TypeOK
<1>1. /\ UNCHANGED <<members, gone, view, update>>
      /\ \A t \in Servers : t # s => /\ m_mona_addresses'[t] = m_mona_addresses[t]
                                     /\ ctor'[t] = ctor[t] /\ todo'[t] = todo[t]
                                     /\ tmp_addresses'[t] = tmp_addresses[t]
  BY DEF Construct, AddCallback, ComputeGroupHash, StoreGroupHash, SetSelfAddress, ListMembers,
         InsertAddresses, ResolveMember, GotoCtor, TypeInv, TypeOK, groupVars, viewVars, updateVars
<1>2. \A m \in view[s] : m \in m_mona_addresses'[s] \/ OnItsWay(s, m)'
  <2> USE DEF TypeInv, TypeOK, GotoCtor, OnItsWay
  <2>1. CASE AddCallback(s)
    BY <2>1 DEF AddCallback
  <2>2. CASE ComputeGroupHash(s)
    BY <2>2 DEF ComputeGroupHash
  <2>3. CASE StoreGroupHash(s)
    BY <2>3 DEF StoreGroupHash
  <2>4. CASE SetSelfAddress(s)
    BY <2>4 DEF SetSelfAddress
  <2>5. CASE ListMembers(s)
    <3>1. ctor'[s] = "resolve" /\ todo'[s] = view[s] \ {s} /\ tmp_addresses'[s] = {s}
      BY <2>5 DEF ListMembers
    <3> QED
      BY <3>1
  <2>6. CASE InsertAddresses(s)
    <3>1. /\ ctor[s] = "resolve" /\ todo[s] = {}
          /\ m_mona_addresses'[s] = m_mona_addresses[s] \cup tmp_addresses[s]
      BY <2>6 DEF InsertAddresses
    <3> QED
      BY <1>1, <3>1
  <2>7. ASSUME NEW m \in Servers, ResolveMember(s, m)
        PROVE  \A n \in view[s] : n \in m_mona_addresses'[s] \/ OnItsWay(s, n)'
    <3>1. /\ ctor[s] = "resolve" /\ ctor' = ctor /\ m_mona_addresses' = m_mona_addresses
          /\ todo'[s] = todo[s] \ {m}
      BY <2>7 DEF ResolveMember
    <3>2. \/ m \in m_mona_addresses[s] /\ tmp_addresses' = tmp_addresses
          \/ tmp_addresses'[s] = tmp_addresses[s] \cup {m}
      BY <2>7 DEF ResolveMember
    <3> QED
      BY <1>1, <3>1, <3>2
  <2> QED
    BY <2>1, <2>2, <2>3, <2>4, <2>5, <2>6, <2>7 DEF Construct
<1>3. ASSUME NEW t \in members, NEW m \in view[t]
      PROVE  m \in m_mona_addresses'[t] \/ OnItsWay(t, m)'
  <2>1. CASE t = s
    BY <1>2, <2>1
  <2>2. CASE t # s
    <3>1. m \in m_mona_addresses[t] \/ OnItsWay(t, m)
      OBVIOUS
    <3> QED
      BY <1>1, <2>2, <3>1 DEF OnItsWay
  <2> QED
    BY <2>1, <2>2
<1> QED
  BY <1>1, <1>3

LEMMA HandleUpdateKeepsBook ==
    ASSUME BookInv, NEW s \in members, NEW u \in Updates, HandleUpdate(s, u), TypeInv'
    PROVE  BookInv'
<1> USE DEF BookInv
<1> members \subseteq Servers
  BY DEF TypeInv, TypeOK
<1>1. UNCHANGED <<members, gone, view, ctor, todo, tmp_addresses>>
  BY DEF HandleUpdate, AskMember, RecordUpdate, CopyAddresses, GiveAddresses,
         groupVars, viewVars, ctorVars
<1>0. u = <<u[1], u[2]>> /\ u[1] \in Servers /\ u[2] \in {"joined", "left"}
  BY DEF Updates
<1>t. /\ \A m \in Servers, k \in {"joined", "left"} : <<m, k>> \in Updates
      /\ update \in [Servers -> [Updates -> UpdatePcs]]
      /\ m_mona_addresses \in [Servers -> SUBSET Servers]
  BY DEF TypeInv, TypeOK, Updates
<1>2. \A t \in Servers, m \in Servers :
        update'[t][<<m, "left">>] # "none" => update[t][<<m, "left">>] # "none"
  <2>1. CASE AskMember(s, u[1])
    BY <2>1, <1>t DEF AskMember, GotoUpdate
  <2>2. CASE RecordUpdate(s, u)
    BY <2>2, <1>t DEF RecordUpdate, GotoUpdate
  <2>3. CASE CopyAddresses(s, u)
    BY <2>3, <1>t DEF CopyAddresses, GotoUpdate
  <2>4. CASE GiveAddresses(s, u)
    BY <2>4, <1>t DEF GiveAddresses, GotoUpdate
  <2> QED
    BY <2>1, <2>2, <2>3, <2>4 DEF HandleUpdate
<1>3. ASSUME NEW t \in members, NEW m \in view[t],
             m \in m_mona_addresses[t] \/ OnItsWay(t, m)
      PROVE  m \in m_mona_addresses'[t] \/ OnItsWay(t, m)'
  <2>0. m \in Servers
    BY DEF TypeInv, TypeOK
  <2>1. CASE AskMember(s, u[1])
    <3>1. /\ m_mona_addresses' = m_mona_addresses
          /\ update' = [update EXCEPT ![s] = [@ EXCEPT ![<<u[1], "joined">>] = "record"]]
      BY <2>1 DEF AskMember, GotoUpdate
    <3>2. \/ update'[t][<<m, "joined">>] = update[t][<<m, "joined">>]
          \/ update'[t][<<m, "joined">>] = "record"
      BY <1>0, <1>t, <2>0, <3>1
    <3> QED
      BY <1>1, <1>3, <3>1, <3>2 DEF OnItsWay
  <2>2. CASE RecordUpdate(s, u)
    <3>1. /\ update[s][u] = "record"
          /\ update' = [update EXCEPT ![s] = [@ EXCEPT ![u] = "copy"]]
          /\ m_mona_addresses' = [m_mona_addresses EXCEPT ![s] =
                                    IF u[2] = "joined" THEN @ \cup {u[1]} ELSE @ \ {u[1]}]
      BY <2>2 DEF RecordUpdate, GotoUpdate
    <3>2. CASE t # s \/ u[1] # m
      <4>1. update'[t][<<m, "joined">>] = update[t][<<m, "joined">>]
        BY <1>0, <1>t, <2>0, <3>1, <3>2
      <4>2. m \in m_mona_addresses[t] => m \in m_mona_addresses'[t]
        BY <1>t, <3>1, <3>2
      <4> QED
        BY <1>1, <1>3, <4>1, <4>2 DEF OnItsWay
    <3>3. CASE t = s /\ u[1] = m /\ u[2] = "joined"
      BY <1>t, <3>1, <3>3
    <3>4. CASE t = s /\ u[1] = m /\ u[2] = "left"
      <4>1. update[s][<<m, "left">>] # "none"
        BY <1>0, <3>1, <3>4
      <4> QED
        BY <2>0, <3>4, <4>1
    <3> QED
      BY <1>0, <3>2, <3>3, <3>4
  <2>3. CASE CopyAddresses(s, u) \/ GiveAddresses(s, u)
    <3>1. /\ m_mona_addresses' = m_mona_addresses
          /\ update[s][u] \in {"copy", "give"}
          /\ \/ update' = [update EXCEPT ![s] = [@ EXCEPT ![u] = "give"]]
             \/ update' = [update EXCEPT ![s] = [@ EXCEPT ![u] = "none"]]
      BY <2>3 DEF CopyAddresses, GiveAddresses, GotoUpdate
    <3>2. ASSUME update[t][<<m, "joined">>] \in {"ask", "record"}
          PROVE  update'[t][<<m, "joined">>] = update[t][<<m, "joined">>]
      <4>1. t # s \/ u # <<m, "joined">>
        BY <3>1, <3>2
      <4>2. <<m, "joined">> \in Updates
        BY <1>t, <2>0
      <4> QED
        BY <1>t, <3>1, <4>1, <4>2
    <3> QED
      BY <1>1, <1>3, <3>1, <3>2 DEF OnItsWay
  <2> QED
    BY <2>1, <2>2, <2>3 DEF HandleUpdate
<1> QED
  BY <1>1, <1>2, <1>3 DEF TypeInv, TypeOK

LEMMA StepKeepsBook ==
    ASSUME BookInv, NEW s \in Servers, Step(s), TypeInv'
    PROVE  BookInv'
<1>1. CASE Join(s)
  BY <1>1, JoinKeepsBook
<1>2. CASE s \in members /\ Leave(s)
  <2>1. /\ members' = members \ {s} /\ gone' = gone \cup {s}
        /\ UNCHANGED <<view, m_mona_addresses, ctor, todo, tmp_addresses, update>>
    BY <1>2 DEF Leave, viewVars, ctorVars, updateVars
  <2> QED
    BY <2>1 DEF BookInv, OnItsWay
<1>3. CASE s \in members /\ (ReadAddresses(s) \/ RegisterPipeline(s))
  <2>1. UNCHANGED <<members, gone, view, m_mona_addresses, ctor, todo, tmp_addresses, update>>
    BY <1>3 DEF ReadAddresses, RegisterPipeline, groupVars, viewVars, ctorVars, updateVars
  <2> QED
    BY <2>1 DEF BookInv, OnItsWay
<1> QED
  BY <1>1, <1>2, <1>3, UpdateKeepsBook, ConstructKeepsBook, HandleUpdateKeepsBook DEF Step

LEMMA InitBook == Init => BookInv
<1> SUFFICES ASSUME Init PROVE BookInv
  OBVIOUS
<1>1. TypeInv
  BY InitTyped
<1> QED
  BY <1>1, GroupKnown DEF BookInv, Init, OnItsWay, Updates

LEMMA NextBook == BookInv /\ [Next]_vars => BookInv'
<1> SUFFICES ASSUME BookInv, [Next]_vars PROVE BookInv'
  OBVIOUS
<1>1. TypeInv'
  BY NextTyped DEF BookInv
<1>2. CASE UNCHANGED vars
  BY <1>1, <1>2 DEF BookInv, OnItsWay, vars, groupVars, viewVars, ctorVars, updateVars
<1> QED
  BY <1>1, <1>2, StepOrStutter, StepKeepsBook DEF BookInv

LEMMA BookInvariance == Spec => []BookInv
  BY InitBook, NextBook, PTL DEF Spec

\* A provider whose updates were handled has the address of every member of its
\* view: neither _resolveMonaAddresses nor the threads of _membershipUpdate
\* lose one, in whatever order they run.
THEOREM MembersKnown == Spec => []EveryMemberKnown
<1>1. BookInv => EveryMemberKnown
  <2> SUFFICES ASSUME BookInv, NEW s \in members, Settled(s), NEW m \in view[s]
               PROVE  m \in m_mona_addresses[s]
    BY DEF EveryMemberKnown
  <2>1. <<m, "joined">> \in Updates
    BY DEF BookInv, TypeInv, TypeOK, Updates
  <2> QED
    BY <2>1 DEF BookInv, OnItsWay, Settled
<1> QED
  BY <1>1, BookInvariance, PTL

------------------------------------------------------------------------------
(* Waiting for an address. Who is asked was a member when it was asked.     *)

AskedInv ==
    /\ BookInv
    /\ \A s \in members : ctor[s] = "resolve" => todo[s] \subseteq members \cup gone
    /\ \A s \in members, m \in Servers :
         update[s][<<m, "joined">>] = "ask" => m \in members \cup gone
    /\ \A s \in Servers : ctor[s] \in {"list", "resolve", "ready"} => s \in named

LEMMA StepKeepsAsked ==
    ASSUME AskedInv, NEW s \in Servers, Step(s), BookInv'
    PROVE  AskedInv'
<1> USE DEF AskedInv
<1> members \subseteq Servers
  BY DEF BookInv, TypeInv, TypeOK
<1>t. /\ ctor \in [Servers -> CtorPcs] /\ todo \in [Servers -> SUBSET Servers]
      /\ update \in [Servers -> [Updates -> UpdatePcs]]
      /\ \A m \in Servers, k \in {"joined", "left"} : <<m, k>> \in Updates
  BY DEF BookInv, TypeInv, TypeOK, Updates
<1>1. CASE Join(s)
  <2>1. /\ members' = members \cup {s} /\ ctor[s] = "off" /\ ctor'[s] = "hash"
        /\ \A t \in Servers : t # s => ctor'[t] = ctor[t]
        /\ UNCHANGED <<gone, named, todo, update>>
    BY <1>1, <1>t DEF Join, GotoCtor, updateVars
  <2>2. \A m \in Servers : update[s][<<m, "joined">>] # "ask"
    BY <1>t, <2>1 DEF BookInv, TypeInv, Constructed
  <2> QED
    BY <2>1, <2>2
<1>2. CASE s \in members /\ Leave(s)
  BY <1>2 DEF Leave, viewVars, ctorVars, updateVars
<1>3. ASSUME s \in members, NEW m \in Servers, MembershipUpdate(s, m) PROVE AskedInv'
  <2>1. UNCHANGED <<members, gone, ctor, todo, named>>
    BY <1>3 DEF MembershipUpdate, groupVars, ctorVars
  <2>2. ASSUME NEW t \in members, NEW n \in Servers, update'[t][<<n, "joined">>] = "ask"
        PROVE  update[t][<<n, "joined">>] = "ask" \/ n \in members
    <3> DEFINE kind == IF m \in members THEN "joined" ELSE "left"
               p == IF kind = "joined" THEN "ask" ELSE "record"
    <3>1. update' = update \/ update' = [update EXCEPT ![s] = [@ EXCEPT ![<<m, kind>>] = p]]
      BY <1>3 DEF MembershipUpdate, GotoUpdate
    <3>2. kind = "joined" => m \in members
      OBVIOUS
    <3>3. <<m, kind>> \in Updates /\ <<n, "joined">> \in Updates
      BY DEF Updates
    <3>4. <<n, "joined">> = <<m, kind>> => n = m /\ kind = "joined"
      OBVIOUS
    <3> HIDE DEF kind, p
    <3>5. CASE <<n, "joined">> = <<m, kind>>
      BY <3>2, <3>4, <3>5
    <3>6. CASE <<n, "joined">> # <<m, kind>>
      <4> DEFINE w == <<m, kind>>
                 x == <<n, "joined">>
      <4>1. x # w /\ w \in Updates /\ x \in Updates
        BY <3>3, <3>6
      <4>2. update' = update \/ update' = [update EXCEPT ![s] = [@ EXCEPT ![w] = p]]
        BY <3>1
      <4> HIDE DEF w, x
      <4>3. update'[t][x] = update[t][x]
        BY <1>t, <4>1, <4>2
      <4> QED
        BY <2>2, <4>3 DEF x
    <3> QED
      BY <3>5, <3>6
  <2> QED
    BY <2>1, <2>2
<1>4. CASE s \in members /\ Construct(s)
  <2>1. /\ UNCHANGED <<members, gone, update>>
        /\ named \subseteq named'
        /\ \A t \in Servers : t # s => ctor'[t] = ctor[t] /\ todo'[t] = todo[t]
    BY <1>4 DEF Construct, AddCallback, ComputeGroupHash, StoreGroupHash, SetSelfAddress,
       ListMembers, InsertAddresses, ResolveMember, GotoCtor, BookInv, TypeInv, TypeOK,
       groupVars, viewVars, updateVars
  <2>2. ctor'[s] \in {"list", "resolve", "ready"} => s \in named'
    BY <1>4, <1>t DEF Construct, AddCallback, ComputeGroupHash, StoreGroupHash,
       SetSelfAddress, ListMembers, InsertAddresses, ResolveMember, GotoCtor, viewVars
  <2>3. ctor'[s] = "resolve" => todo'[s] \subseteq members \cup gone
    <3>1. CASE ListMembers(s)
      BY <1>4, <1>t, <3>1 DEF ListMembers, BookInv
    <3>2. ASSUME NEW m \in Servers, ResolveMember(s, m)
          PROVE  ctor'[s] = "resolve" => todo'[s] \subseteq members \cup gone
      BY <1>4, <1>t, <3>2 DEF ResolveMember
    <3>3. CASE ~ListMembers(s) /\ \A m \in Servers : ~ResolveMember(s, m)
      BY <1>4, <1>t, <3>3 DEF Construct, AddCallback, ComputeGroupHash, StoreGroupHash,
         SetSelfAddress, InsertAddresses, GotoCtor
    <3> QED
      BY <3>1, <3>2, <3>3
  <2> QED
    BY <2>1, <2>2, <2>3
<1>5. ASSUME s \in members, NEW u \in Updates, HandleUpdate(s, u) PROVE AskedInv'
  <2>1. UNCHANGED <<members, gone, ctor, todo, named>>
    BY <1>5 DEF HandleUpdate, AskMember, RecordUpdate, CopyAddresses, GiveAddresses,
       groupVars, viewVars, ctorVars
  <2>2. PICK p \in {"record", "copy", "give", "none"}, v \in Updates :
          update' = [update EXCEPT ![s] = [@ EXCEPT ![v] = p]]
    BY <1>5, <1>t DEF HandleUpdate, AskMember, RecordUpdate, CopyAddresses, GiveAddresses,
       GotoUpdate, Updates
  <2>3. ASSUME NEW t \in members, NEW n \in Servers, update'[t][<<n, "joined">>] = "ask"
        PROVE  update[t][<<n, "joined">>] = "ask"
    BY <1>t, <2>2, <2>3
  <2> QED
    BY <2>1, <2>3
<1>6. CASE s \in members /\ (ReadAddresses(s) \/ RegisterPipeline(s))
  BY <1>6 DEF ReadAddresses, RegisterPipeline, groupVars, viewVars, ctorVars, updateVars
<1> QED
  BY <1>1, <1>2, <1>3, <1>4, <1>5, <1>6 DEF Step

\* Constructors and the threads of updates never wait for each other in a circle,
\* if every server has a stream that runs its RPC handlers; on any number of
\* servers, whatever joins and leaves.
THEOREM WaitsEnd == ASSUME Serving = Servers PROVE Spec => []NoWaitCycle
<1>1. Init => AskedInv
  <2> SUFFICES ASSUME Init PROVE AskedInv
    OBVIOUS
  <2>1. BookInv
    BY InitBook
  <2> QED
    BY <2>1, GroupKnown DEF AskedInv, Init, Updates
<1>2. AskedInv /\ BookInv' /\ [Next]_vars => AskedInv'
  <2> SUFFICES ASSUME AskedInv, BookInv', [Next]_vars PROVE AskedInv'
    OBVIOUS
  <2>1. CASE UNCHANGED vars
    BY <2>1 DEF AskedInv, vars, groupVars, viewVars, ctorVars, updateVars
  <2> QED
    BY <2>1, StepOrStutter, StepKeepsAsked DEF AskedInv, BookInv
<1>3. AskedInv => NoWaitCycle
  <2> SUFFICES ASSUME AskedInv, NEW s \in members, NEW m \in Asked(s), m \notin gone
               PROVE  \/ Answers(m)
                      \/ m \in members /\ ctor[m] \in {"register", "hash", "store", "address"}
    BY DEF NoWaitCycle
  <2>1. m \in Servers /\ m \in members
    BY DEF Asked, AskedInv
  <2>2. ctor[m] \in CtorPcs /\ ctor[m] # "off"
    BY <2>1 DEF AskedInv, BookInv, TypeInv, TypeOK, Constructed
  <2> QED
    BY <2>1, <2>2 DEF AskedInv, Answers, CtorPcs
<1> QED
  BY <1>1, <1>2, <1>3, BookInvariance, PTL DEF Spec

==============================================================================
