----------------------------- MODULE LookupProofs -----------------------------
(***************************************************************************)
(* The two lookups keep their promises for any number of peers, whatever   *)
(* each of them knows, has and answers, and in whatever order the answers  *)
(* and failures arrive.                                                    *)
(*                                                                         *)
(* First what the operations of LookupState do, which both are made of;    *)
(* then LookupValue, and then LookupNode.  The two share the state of the  *)
(* lookup; LookupNode's definitions have names of their own.               *)
(***************************************************************************)
EXTENDS LookupValue, LookupNode, RoutingTableProofs

\* A node is queried at most once in a lookup, whether or not it answered, and
\* of the nodes it could query the round picks those closest to the target.
ClosestFirstAndOnce ==
    [][\A p \in spawned' \ spawned :
            /\ p \notin contacted
            /\ \A q \in IDs(candidates) \ (contacted \cup spawned') :
                    Less(p, q, Target)]_spawned

\* A lookup never has more than Alpha queries open, those it leaves behind when
\* it returns early included: there is no round after an early return.
AtMostAlphaOpen == Cardinality(spawned \cup sent) <= Alpha

PeerContacts == [id : Peers, addr : Addrs]

\* What a peer can answer: a node at most once, the closest first.
Answers == {a \in Seq([id : Peers \cup {Self}, addr : Addrs]) : Ascending(a, Target)}

\* What a lookup's candidates are at any time: other nodes, the closest first.
CandidatesInOrder ==
    candidates \in Seq(PeerContacts) /\ Ascending(candidates, Target)

LEMMA PeerContactsAreContacts ==
    /\ PeerContacts \subseteq Contacts
    /\ [id : Peers \cup {Self}, addr : Addrs] \subseteq Contacts
BY LookupAssumption, TableAssumption DEF PeerContacts, Contacts

LEMMA InRange ==
    ASSUME NEW S, NEW s \in Seq(S)
    PROVE  /\ Range(s) \in SUBSET S
           /\ \A i \in DOMAIN s : s[i] \in Range(s)
           /\ \A c \in Range(s) : \E i \in DOMAIN s : c = s[i]
           /\ DOMAIN s = 1..Len(s) /\ Len(s) \in Nat
BY DEF Range

LEMMA InLargerSeq ==
    ASSUME NEW S, NEW T, S \subseteq T, NEW s \in Seq(S)
    PROVE  s \in Seq(T)
OBVIOUS

LEMMA NoIDs == IDs(<<>>) = {}
BY DEF IDs, Range

LEMMA CandidatesArePeers ==
    ASSUME NEW s \in Seq(PeerContacts)
    PROVE  s \in Seq(Contacts) /\ IDs(s) \subseteq Peers
<1>1. s \in Seq(Contacts)
  BY PeerContactsAreContacts, InLargerSeq
<1>2. Range(s) \in SUBSET PeerContacts
  BY InRange
<1> QED
  BY <1>1, <1>2 DEF IDs, PeerContacts

\* A list of contacts in ascending order has no node twice, and is finite.
LEMMA AscendingFacts ==
    ASSUME NEW S \in SUBSET Contacts, NEW s \in Seq(S), Ascending(s, Target)
    PROVE  OnePerNode(Range(s)) /\ IsFiniteSet(Range(s))
<1>1. DOMAIN s = 1..Len(s) /\ Len(s) \in Nat /\ \A i \in DOMAIN s : s[i].id \in NodeIDs
  BY DEF Contacts
<1>2. ASSUME NEW i \in DOMAIN s, NEW j \in DOMAIN s, s[i].id = s[j].id
      PROVE  i = j
  <2>1. ~Less(s[i].id, s[i].id, Target)
    BY <1>1, LessIrreflexive, LookupAssumption
  <2> QED
    BY <1>1, <1>2, <2>1 DEF Ascending
<1>3. OnePerNode(Range(s))
  BY <1>2 DEF OnePerNode, Range
<1>4. IsFiniteSet(DOMAIN s)
  <2>1. \A n \in Nat : IsFiniteSet(1..n)
    BY FS_Interval
  <2> QED
    BY <1>1, <2>1
<1>5. s \in Surjection(DOMAIN s, Range(s))
  <2>1. s \in [DOMAIN s -> S]
    OBVIOUS
  <2> QED
    BY <2>1 DEF Surjection, Range
<1>6. IsFiniteSet(Range(s))
  BY <1>4, <1>5, FS_Surjection
<1> QED
  BY <1>3, <1>6

-----------------------------------------------------------------------------
\* The seeds of a lookup.
LEMMA SeedFacts ==
    ASSUME NEW t, GoodTable(t), Known(t) \subseteq Peers
    PROVE  /\ TableClosest(t, Target, K) \in Seq(PeerContacts)
           /\ Ascending(TableClosest(t, Target, K), Target)
<1>1. Target \in NodeIDs /\ K \in Nat
  BY LookupAssumption, TableAssumption
<1>2. /\ TableClosest(t, Target, K) \in Seq(Entries(t))
      /\ Ascending(TableClosest(t, Target, K), Target)
  BY <1>1, ClosestFacts
<1>3. Entries(t) \subseteq PeerContacts
  BY EntriesFacts DEF Known, Contacts, PeerContacts
<1> QED
  BY <1>2, <1>3

\* What a peer answers.
LEMMA AnswerFacts ==
    ASSUME NEW ids \in SUBSET (Peers \cup {Self})
    PROVE  ClosestKnown(ids) \in Answers
<1> DEFINE addr == CHOOSE a \in Addrs : TRUE
           S == [id : Peers \cup {Self}, addr : Addrs]
           sorted == SortByDistance(ContactsOf(ids), Target)
<1>1. addr \in Addrs
  BY LookupAssumption
<1> HIDE DEF addr
<1>2. ContactsOf(ids) = {[id |-> p, addr |-> addr] : p \in ids}
  BY DEF ContactsOf, addr
<1>3. /\ ContactsOf(ids) \in SUBSET S /\ OnePerNode(ContactsOf(ids))
      /\ S \in SUBSET Contacts
  BY <1>1, <1>2, PeerContactsAreContacts DEF OnePerNode
<1>4. IsFiniteSet(ContactsOf(ids))
  <2> DEFINE f == [p \in ids |-> [id |-> p, addr |-> addr]]
  <2>1. f \in Surjection(ids, ContactsOf(ids))
    BY <1>2 DEF Surjection
  <2>2. IsFiniteSet(ids)
    <3>1. IsFiniteSet(Peers \cup {Self})
      BY LookupAssumption, FS_AddElement
    <3> QED
      BY <3>1, FS_Subset
  <2> QED
    BY <2>1, <2>2, FS_Surjection
<1>5. Target \in NodeIDs /\ K \in Nat
  BY LookupAssumption, TableAssumption
<1>6. sorted \in Seq(ContactsOf(ids)) /\ Ascending(sorted, Target)
  BY <1>3, <1>4, <1>5, SortFacts
<1> HIDE DEF sorted, S
<1>7. sorted \in Seq(S)
  BY <1>3, <1>6
<1>8. FirstOf(sorted, K) \in Seq(S) /\ Ascending(FirstOf(sorted, K), Target)
  BY <1>3, <1>5, <1>6, <1>7, FirstOfFacts, FirstOfAscending
<1> QED
  BY <1>8 DEF ClosestKnown, Answers, sorted, S

\* After addCandidates: the same candidates and every other node of the answer,
\* in order again.
LEMMA AddFacts ==
    ASSUME CandidatesInOrder, contacted \subseteq IDs(candidates),
           NEW contacts \in Answers
    PROVE  LET new == SortByDistance(Range(candidates) \cup Fresh(contacts), Target)
           IN  /\ new \in Seq(PeerContacts)
               /\ Ascending(new, Target)
               /\ IDs(new) = IDs(candidates) \cup (IDs(contacts) \ {Self})
<1> DEFINE all == Range(candidates) \cup Fresh(contacts)
           new == SortByDistance(all, Target)
           S == [id : Peers \cup {Self}, addr : Addrs]
<1>1. /\ candidates \in Seq(PeerContacts) /\ Ascending(candidates, Target)
      /\ contacts \in Seq(S) /\ Ascending(contacts, Target)
      /\ PeerContacts \in SUBSET Contacts /\ S \in SUBSET Contacts
      /\ Target \in NodeIDs
  BY PeerContactsAreContacts, LookupAssumption DEF CandidatesInOrder, Answers
<1>2. Range(candidates) \in SUBSET PeerContacts /\ Range(contacts) \in SUBSET S
  BY <1>1, InRange
<1>3. /\ OnePerNode(Range(candidates)) /\ IsFiniteSet(Range(candidates))
      /\ OnePerNode(Range(contacts)) /\ IsFiniteSet(Range(contacts))
  BY <1>1, AscendingFacts
<1>4. Fresh(contacts) \in SUBSET Range(contacts)
  BY DEF Fresh
<1>5. all \in SUBSET PeerContacts
  BY <1>2 DEF Fresh, PeerContacts
<1>6. OnePerNode(all)
  BY <1>3 DEF OnePerNode, Fresh, IDs
<1>7. IsFiniteSet(all)
  BY <1>3, <1>4, FS_Subset, FS_Union
<1> HIDE DEF all
<1>8. new \in Seq(all) /\ Range(new) = all /\ Ascending(new, Target)
  BY <1>1, <1>5, <1>6, <1>7, SortFacts
<1> HIDE DEF new
<1>9. new \in Seq(PeerContacts)
  BY <1>5, <1>8
<1>10. IDs(new) = IDs(candidates) \cup (IDs(contacts) \ {Self})
  <2>1. IDs(new) = {c.id : c \in all}
    BY <1>8 DEF IDs
  <2>2. \A c \in Range(candidates) : c.id # Self
    BY <1>2, TableAssumption DEF PeerContacts
  <2>3. \A c \in Range(contacts) :
            c.id # Self => c \in Fresh(contacts) \/ c.id \in IDs(candidates)
    BY DEF Fresh
  <2>4. \A c \in Fresh(contacts) : c \in Range(contacts) /\ c.id # Self
    BY DEF Fresh
  <2> QED
    BY <2>1, <2>2, <2>3, <2>4 DEF IDs, all
<1> QED
  BY <1>8, <1>9, <1>10 DEF new, all

LEMMA NothingForgotten ==
    ASSUME CandidatesInOrder, contacted \subseteq IDs(candidates),
           NEW contacts \in Answers, addCandidates(contacts)
    PROVE  IDs(candidates) \subseteq IDs(candidates')
BY AddFacts DEF addCandidates

\* The next round: of the nodes not contacted yet, the Alpha closest, and nobody
\* only if there are none.
LEMMA BatchFacts ==
    ASSUME CandidatesInOrder
    PROVE  /\ nextBatch \subseteq IDs(candidates) \ contacted
           /\ IsFiniteSet(nextBatch) /\ Cardinality(nextBatch) <= Alpha
           /\ nextBatch = {} => IDs(candidates) \subseteq contacted
           /\ \A p \in nextBatch, q \in IDs(candidates) \ (contacted \cup nextBatch) :
                Less(p, q, Target)
<1> DEFINE before(k) == {j \in Uncontacted : j < k}
           first == {k \in Uncontacted : Cardinality(before(k)) < Alpha}
           place == [k \in first |-> Cardinality(before(k))]
<1>1. /\ candidates \in Seq(PeerContacts) /\ Ascending(candidates, Target)
      /\ DOMAIN candidates = 1..Len(candidates) /\ Len(candidates) \in Nat
      /\ Alpha \in Nat \ {0}
  BY LookupAssumption DEF CandidatesInOrder
<1>2. Uncontacted \in SUBSET (1..Len(candidates))
  BY <1>1 DEF Uncontacted
<1>3. IsFiniteSet(Uncontacted) /\ Uncontacted \subseteq Nat
  <2>1. \A n \in Nat : IsFiniteSet(1..n) /\ 1..n \subseteq Nat
    BY FS_Interval
  <2> QED
    BY <1>1, <1>2, <2>1, FS_Subset
<1>4. nextBatch = {candidates[i].id : i \in first}
  BY DEF nextBatch
<1>5. ASSUME NEW k \in Uncontacted
      PROVE  IsFiniteSet(before(k)) /\ Cardinality(before(k)) \in Nat
  <2>1. before(k) \in SUBSET Uncontacted
    OBVIOUS
  <2> QED
    BY <1>3, <2>1, FS_Subset, FS_CardinalityType
<1>6. ASSUME NEW k \in Uncontacted, NEW m \in Uncontacted, k < m
      PROVE  Cardinality(before(k)) < Cardinality(before(m))
  <2>1. before(k) \in SUBSET before(m)
    <3>1. \A j \in Nat : j < k => j < m
      BY <1>3, <1>6
    <3> QED
      BY <1>3, <3>1
  <2>2. k \in before(m) /\ k \notin before(k)
    BY <1>2, <1>6
  <2> HIDE DEF before
  <2>3. /\ Cardinality(before(k)) <= Cardinality(before(m))
        /\ Cardinality(before(m)) = Cardinality(before(k)) => before(m) = before(k)
    BY <1>5, <2>1, FS_Subset
  <2> QED
    BY <1>5, <2>2, <2>3
<1>7. nextBatch \subseteq IDs(candidates) \ contacted
  BY <1>4 DEF Uncontacted, IDs, Range
<1> HIDE DEF before
<1>8. IsFiniteSet(nextBatch) /\ Cardinality(nextBatch) <= Alpha
  <2>1. IsFiniteSet(0..(Alpha - 1)) /\ Cardinality(0..(Alpha - 1)) = Alpha
    BY <1>1, FS_Interval
  <2>2. place \in [first -> 0..(Alpha - 1)]
    BY <1>1, <1>5
  <2>3. ASSUME NEW k \in first, NEW m \in first, place[k] = place[m]
        PROVE  k = m
    <3>1. k \in Int /\ m \in Int
      BY <1>2
    <3>2. ~(k < m) /\ ~(m < k)
      BY <1>5, <1>6, <2>3
    <3> QED
      BY <3>1, <3>2
  <2>4. place \in Injection(first, 0..(Alpha - 1))
    BY <2>2, <2>3 DEF Injection, IsInjective
  <2>5. IsFiniteSet(first) /\ Cardinality(first) <= Alpha
    BY <2>1, <2>4, FS_Injection
  <2>6. [k \in first |-> candidates[k].id] \in Surjection(first, nextBatch)
    BY <1>4 DEF Surjection
  <2>7. IsFiniteSet(nextBatch) /\ Cardinality(nextBatch) <= Cardinality(first)
    BY <2>5, <2>6, FS_Surjection
  <2>8. Cardinality(nextBatch) \in Nat /\ Cardinality(first) \in Nat
    BY <2>5, <2>7, FS_CardinalityType
  <2> QED
    BY <1>1, <2>5, <2>7, <2>8
<1>9. ASSUME nextBatch = {} PROVE IDs(candidates) \subseteq contacted
  <2>1. SUFFICES ASSUME Uncontacted # {} PROVE FALSE
    BY DEF Uncontacted, IDs, Range
  <2>2. Uncontacted \subseteq Nat
    BY <1>2
  <2>3. PICK m \in Uncontacted : \A k \in Uncontacted : m <= k
    BY <2>1, <2>2, LeastNat
  <2>4. before(m) = {}
    <3>1. \A j \in Uncontacted : ~(j < m)
      BY <2>2, <2>3
    <3> QED
      BY <3>1 DEF before
  <2>5. Cardinality(before(m)) = 0
    BY <2>4, FS_EmptySet
  <2>6. m \in first
    BY <1>1, <2>5
  <2> QED
    BY <1>4, <1>9, <2>6
<1>10. ASSUME NEW p \in nextBatch, NEW q \in IDs(candidates) \ (contacted \cup nextBatch)
       PROVE  Less(p, q, Target)
  <2>1. PICK k \in first : p = candidates[k].id
    BY <1>4
  <2>2. PICK m \in DOMAIN candidates : q = candidates[m].id
    BY DEF IDs, Range
  <2>3. m \in Uncontacted /\ m \notin first
    BY <1>4, <2>2 DEF Uncontacted
  <2>4. k < m
    <3>1. k \in Int /\ m \in Int /\ k # m
      BY <1>2, <2>1, <2>3
    <3>2. ~(m < k)
      BY <1>1, <1>5, <1>6, <2>1, <2>3
    <3> QED
      BY <3>1, <3>2
  <2> QED
    BY <1>1, <1>2, <2>1, <2>2, <2>4 DEF Ascending
<1> QED
  BY <1>7, <1>8, <1>9, <1>10

-----------------------------------------------------------------------------
\* LookupValue.  The nodes of a round are candidates, and are marked before
\* they are asked.
Tracked == contacted \cup spawned \subseteq IDs(candidates) /\ sent \subseteq contacted

ValueTypes ==
    /\ TypeOK /\ GoodTable(table) /\ CandidatesInOrder
    /\ answer \in [Peers -> Answers]

\* There is one round at a time: between rounds nobody is being asked.
ValueRounds ==
    /\ pc = "start" => Known(table) \subseteq Peers /\ contacted = {} /\ candidates = <<>>
    /\ pc \in {"start", "plan"} \/ done => spawned = {} /\ sent = {}
    /\ AtMostAlphaOpen

\* How the lookup ends.
ValueEnding ==
    /\ outcome = "none" <=> pc # "done"
    /\ outcome = "exhausted" =>
            IDs(candidates) \subseteq contacted /\ spawned = {} /\ sent = {}

\* Whom the nodes that answered know are candidates.
ValueLearned ==
    \A p \in contacted \ (sent \cup holders \cup silent) :
        IDs(answer[p]) \ {Self} \subseteq IDs(candidates)

ValueInv == ValueTypes /\ Tracked /\ ValueRounds /\ ValueEnding /\ ValueLearned

LEMMA ValueInvInit == Init => ValueInv
<1> SUFFICES ASSUME Init PROVE ValueInv
  OBVIOUS
<1>1. PICK topology \in Topologies : answer = [p \in Peers |-> ClosestKnown(topology[p])]
  BY DEF Init
<1>2. answer \in [Peers -> Answers]
  <2>1. \A p \in Peers : topology[p] \in SUBSET (Peers \cup {Self})
    BY LookupAssumption
  <2> QED
    BY <1>1, <2>1, AnswerFacts
<1>3. GoodTable(table) /\ Known(table) \subseteq Peers
  BY LookupAssumption DEF Init
<1>4. candidates = <<>> /\ IDs(candidates) = {}
  BY NoIDs DEF Init
<1>5. CandidatesInOrder
  BY <1>4 DEF CandidatesInOrder, Ascending
<1>6. TypeOK
  <2>1. candidates \in Seq(Contacts) /\ table \in Tables
    BY <1>3, <1>4 DEF GoodTable
  <2> QED
    BY <2>1 DEF Init, TypeOK
<1>7. Cardinality(spawned \cup sent) <= Alpha
  <2>1. spawned \cup sent = {}
    BY DEF Init
  <2>2. Cardinality({}) <= Alpha
    BY FS_EmptySet, LookupAssumption
  <2> QED
    BY <2>1, <2>2
<1>8. Tracked /\ ValueRounds /\ ValueEnding /\ ValueLearned
  BY <1>3, <1>4, <1>7
     DEF Init, Tracked, ValueRounds, ValueEnding, ValueLearned, AtMostAlphaOpen
<1> QED
  BY <1>2, <1>3, <1>5, <1>6, <1>8 DEF ValueInv, ValueTypes

\* Fewer open queries are no more than Alpha.
LEMMA FewerOpen ==
    ASSUME NEW S \in SUBSET Peers, Cardinality(S) <= Alpha, NEW T \in SUBSET S
    PROVE  Cardinality(T) <= Alpha
<1>1. IsFiniteSet(S)
  BY LookupAssumption, FS_Subset
<1>2. IsFiniteSet(T) /\ Cardinality(T) <= Cardinality(S)
  BY <1>1, FS_Subset
<1>3. Cardinality(S) \in Nat /\ Cardinality(T) \in Nat
  BY <1>1, <1>2, FS_CardinalityType
<1> QED
  BY <1>3, <1>2, LookupAssumption

LEMMA ValueInvNext == ValueInv /\ [Next]_vars => ValueInv'
<1> SUFFICES ASSUME ValueInv, [Next]_vars PROVE ValueInv'
  OBVIOUS
<1> USE DEF ValueInv, ValueTypes, TypeOK, Tracked, ValueRounds, ValueEnding,
            ValueLearned, AtMostAlphaOpen, CandidatesInOrder
<1>1. CASE LocalRecord
  BY <1>1 DEF LocalRecord, Return, network
<1>2. CASE Seed
  <2>1. GoodTable(table) /\ Known(table) \subseteq Peers
    BY <1>2 DEF Seed
  <2>2. candidates' \in Seq(PeerContacts) /\ Ascending(candidates', Target)
    BY <1>2, <2>1, SeedFacts DEF Seed
  <2>3. candidates' \in Seq(Contacts)
    BY <2>2, CandidatesArePeers
  <2>4. /\ UNCHANGED <<answer, table, contacted, spawned, sent, found, done, returned>>
        /\ contacted = {} /\ spawned = {} /\ sent = {} /\ outcome = "none"
        /\ \/ pc' = "done" /\ outcome' = "no known nodes"
           \/ pc' = "plan" /\ outcome' = "none"
    BY <1>2 DEF Seed, Return, network
  <2> QED
    BY <2>2, <2>3, <2>4
<1>3. CASE PlanRound
  <2>1. /\ nextBatch \subseteq IDs(candidates) /\ Cardinality(nextBatch) <= Alpha
    BY BatchFacts
  <2>2. spawned' \cup sent' = nextBatch
    BY <1>3 DEF PlanRound
  <2>3. IDs(candidates) \subseteq Peers
    BY CandidatesArePeers
  <2> QED
    BY <1>3, <2>1, <2>2, <2>3 DEF PlanRound, network
<1>4. CASE Exhausted
  <2>1. IDs(candidates) \subseteq contacted
    BY <1>4, BatchFacts DEF Exhausted
  <2> QED
    BY <1>4, <2>1 DEF Exhausted, Return, network
<1>5. CASE SelectFound
  BY <1>5 DEF SelectFound, Return, network
<1>6. CASE SelectDone
  BY <1>6 DEF SelectDone, network
<1>7. CASE Park
  BY <1>7 DEF Park, network
<1>8. CASE CloseDone
  BY <1>8 DEF CloseDone, network
<1>9. CASE Timeout
  BY <1>9 DEF Timeout, Return, network
<1>10. ASSUME NEW p \in Peers, markContacted(p) PROVE ValueInv'
  <2>1. spawned' \cup sent' = spawned \cup sent
    BY <1>10 DEF markContacted
  <2>2. /\ UNCHANGED <<answer, table, candidates, pc, found, done, outcome,
                       returned, holders, silent>>
        /\ p \in spawned /\ spawned' = spawned \ {p}
        /\ contacted' = contacted \cup {p} /\ sent' = sent \cup {p}
    BY <1>10 DEF markContacted, network
  <2>3. AtMostAlphaOpen'
    BY <2>1
  <2>4. ValueEnding' /\ ValueLearned'
    BY <2>2
  <2>5. Tracked' /\ ValueTypes'
    BY <2>2
  <2> QED
    BY <2>2, <2>3, <2>4, <2>5
<1>11. ASSUME NEW p \in Peers, FoundValue(p) PROVE ValueInv'
  <2>1. Cardinality(spawned' \cup sent') <= Alpha
    <3>1. spawned' \cup sent' \in SUBSET (spawned \cup sent)
      BY <1>11 DEF FoundValue
    <3> QED
      BY <3>1, FewerOpen
  <2>2. /\ UNCHANGED <<answer, table, candidates, contacted, spawned, done, holders, silent>>
        /\ p \in sent /\ p \in holders /\ sent' = sent \ {p}
        /\ returned' = (returned \/ pc # "done")
        /\ \/ pc = "parked" /\ pc' = "done" /\ outcome' = "record" /\ found' = found
           \/ pc # "parked" /\ found' = TRUE /\ pc' = pc /\ outcome' = outcome
    BY <1>11 DEF FoundValue, Return, network
  <2>3. ValueEnding'
    BY <2>2
  <2>4. ValueLearned' /\ Tracked'
    BY <2>2
  <2>5. ValueTypes'
    BY <2>2
  <2> QED
    BY <2>1, <2>2, <2>3, <2>4, <2>5
<1>12. ASSUME NEW p \in Peers, FoundNodes(p) PROVE ValueInv'
  <2>1. Cardinality(spawned' \cup sent') <= Alpha
    <3>1. spawned' \cup sent' \in SUBSET (spawned \cup sent)
      BY <1>12 DEF FoundNodes
    <3> QED
      BY <3>1, FewerOpen
  <2>2. /\ UNCHANGED <<answer, table, pc, contacted, spawned, found, done, outcome,
                       returned, holders, silent>>
        /\ p \in sent /\ p \notin holders /\ sent' = sent \ {p}
    BY <1>12 DEF FoundNodes, network
  <2>3. /\ candidates' \in Seq(PeerContacts) /\ Ascending(candidates', Target)
        /\ IDs(candidates') = IDs(candidates) \cup (IDs(answer[p]) \ {Self})
    <3>1. CASE answer[p] = <<>>
      <4>1. IDs(answer[p]) = {}
        BY <3>1, NoIDs
      <4> QED
        BY <1>12, <3>1, <4>1 DEF FoundNodes
    <3>2. CASE answer[p] # <<>>
      <4>1. /\ answer[p] \in Answers /\ contacted \subseteq IDs(candidates)
            /\ CandidatesInOrder
        OBVIOUS
      <4>2. candidates' = SortByDistance(Range(candidates) \cup Fresh(answer[p]), Target)
        BY <1>12, <3>2 DEF FoundNodes, addCandidates
      <4> QED
        BY <4>1, <4>2, AddFacts
    <3> QED
      BY <3>1, <3>2
  <2>4. candidates' \in Seq(Contacts)
    BY <2>3, CandidatesArePeers
  <2>5. ValueEnding' /\ ValueLearned' /\ Tracked'
    BY <2>2, <2>3
  <2>6. ValueTypes'
    BY <2>2, <2>3, <2>4
  <2> QED
    BY <2>1, <2>2, <2>5, <2>6
<1>13. ASSUME NEW p \in Peers, FindValueError(p) PROVE ValueInv'
  <2>1. Cardinality(spawned' \cup sent') <= Alpha
    <3>1. spawned' \cup sent' \in SUBSET (spawned \cup sent)
      BY <1>13 DEF FindValueError
    <3> QED
      BY <3>1, FewerOpen
  <2>2. /\ UNCHANGED <<answer, candidates, pc, contacted, spawned, found, done, outcome,
                       returned, holders, silent>>
        /\ p \in sent /\ p \in silent /\ sent' = sent \ {p}
        /\ table' = TableRemove(table, p)
    BY <1>13 DEF FindValueError, network
  <2>3. GoodTable(table')
    BY <2>2, TableAssumption, TableRemoveFacts
  <2>4. ValueEnding' /\ ValueLearned' /\ Tracked'
    BY <2>2
  <2>5. ValueTypes'
    BY <2>2, <2>3 DEF GoodTable
  <2> QED
    BY <2>1, <2>2, <2>4, <2>5
<1>14. CASE UNCHANGED vars
  BY <1>14 DEF vars, network
<1> QED
  BY <1>1, <1>2, <1>3, <1>4, <1>5, <1>6, <1>7, <1>8, <1>9, <1>10, <1>11, <1>12,
     <1>13, <1>14 DEF Next, Main, Query

LEMMA ValueInvariant == Spec => []ValueInv
BY ValueInvInit, ValueInvNext, PTL DEF Spec

\* The state of a value lookup has its shape; in particular it never queries
\* its own node.
THEOREM ValueLookupTypes == Spec => []TypeOK
BY ValueInvariant, PTL DEF ValueInv, ValueTypes

\* However a lookup ends, it never has more than Alpha queries open, those of
\* an early return included.
THEOREM NeverMoreThanAlphaOpen == Spec => []AtMostAlphaOpen
BY ValueInvariant, PTL DEF ValueInv, ValueRounds

\* A lookup gives up only when every node it heard of was asked and has
\* answered or failed; it has then heard of everybody the answers name.
THEOREM GivesUpOnlyWhenAllAsked == Spec => []ExhaustedMeansAsked
<1>1. ValueInv => ExhaustedMeansAsked
  BY DEF ValueInv, Tracked, ValueEnding, ValueLearned, ExhaustedMeansAsked
<1> QED
  BY <1>1, ValueInvariant, PTL

\* A value lookup too asks nobody twice, and the closest of those left first,
\* whatever the goroutines of earlier rounds have added to the candidates.
THEOREM ValueQueriesClosestFirst == Spec => ClosestFirstAndOnce
<1> DEFINE Chosen ==
        \A p \in spawned' \ spawned :
            /\ p \notin contacted
            /\ \A q \in IDs(candidates) \ (contacted \cup spawned') :
                    Less(p, q, Target)
<1>1. ValueInv /\ [Next]_vars => Chosen
  <2> SUFFICES ASSUME ValueInv, [Next]_vars PROVE Chosen
    OBVIOUS
  <2>1. CASE PlanRound
    <3>1. CandidatesInOrder
      BY DEF ValueInv, ValueTypes
    <3>2. spawned' = nextBatch
      BY <2>1 DEF PlanRound
    <3> QED
      BY <3>1, <3>2, BatchFacts
  <2>2. CASE ~PlanRound
    <3>1. spawned' \in SUBSET spawned
      BY <2>2 DEF Next, Main, Query, LocalRecord, Seed, Exhausted, SelectFound,
                  SelectDone, Park, CloseDone, Timeout, markContacted, FoundValue,
                  FoundNodes, FindValueError, vars
    <3> QED
      BY <3>1
  <2> QED
    BY <2>1, <2>2
<1> QED
  BY <1>1, ValueInvariant, PTL DEF Spec, ClosestFirstAndOnce

\* What the abstract search is written with.
LEMMA ValueSearchMeans ==
    /\ \A p, q, t : Search!Less(p, q, t) = Less(p, q, t)
    /\ \A S : Search!Cardinality(S) = Cardinality(S)
<1>1. \A p, q, t : Search!Less(p, q, t) = Less(p, q, t)
  BY Zenon DEF Search!Less, Less, Search!XOR, XOR, Search!Bits, Bits
<1>2. \A S : Search!Cardinality(S) = Cardinality(S)
  BY Zenon DEF Search!Cardinality, Cardinality
<1> QED
  BY <1>1, <1>2

LEMMA ValueSearchInit == Init => Search!Init
BY NoIDs DEF Init, Search!Init

LEMMA ValueSearchNext == ValueInv /\ [Next]_vars => [Search!Next]_(Search!vars)
<1> SUFFICES ASSUME ValueInv, [Next]_vars PROVE [Search!Next]_(Search!vars)
  OBVIOUS
<1> USE DEF Search!Next, Search!vars, ValueInv, ValueRounds, ValueEnding
<1>1. CASE PlanRound
  <2>1. /\ nextBatch \subseteq IDs(candidates) \ contacted /\ Cardinality(nextBatch) <= Alpha
        /\ \A p \in nextBatch, q \in IDs(candidates) \ (contacted \cup nextBatch) :
                Less(p, q, Target)
    BY BatchFacts DEF ValueTypes
  <2>2. /\ pc = "plan" /\ pc' = "select" /\ spawned = {} /\ sent = {} /\ sent' = {}
        /\ nextBatch # {} /\ spawned' = nextBatch
        /\ UNCHANGED <<candidates, contacted, outcome>>
    BY <1>1 DEF PlanRound
  <2>3. spawned' \cup sent' = nextBatch /\ spawned \cup sent = {}
    BY <2>2
  <2> QED
    BY <2>1, <2>2, <2>3, ValueSearchMeans DEF Search!Ask
<1>2. CASE Seed
  <2>1. /\ pc = "start" /\ contacted = {} /\ spawned = {} /\ sent = {}
        /\ UNCHANGED <<contacted, spawned, sent>> /\ outcome = "none"
        /\ \/ pc' = "done" /\ outcome' = "no known nodes" /\ candidates' = <<>>
           \/ pc' = "plan" /\ outcome' = "none"
    BY <1>2 DEF Seed, Return
  <2>2. IDs(candidates) = {}
    BY <2>1, NoIDs
  <2>3. candidates' = <<>> => IDs(candidates') = {}
    BY NoIDs
  <2> QED
    BY <2>1, <2>2, <2>3 DEF Return, Search!Hear, Search!Break
<1>3. CASE Exhausted
  BY <1>3, BatchFacts DEF Exhausted, Return, Search!Exhaust, ValueTypes
<1>4. CASE LocalRecord \/ SelectFound \/ Timeout
  BY <1>4 DEF LocalRecord, SelectFound, Timeout, Return, Search!Break
<1>5. CASE SelectDone \/ Park \/ CloseDone
  BY <1>5 DEF SelectDone, Park, CloseDone
<1>6. ASSUME NEW p \in Peers, markContacted(p) PROVE Search!Hear
  BY <1>6 DEF markContacted, Search!Hear
<1>7. ASSUME NEW p \in Peers, FoundValue(p) PROVE Search!Hear \/ Search!Break
  BY <1>7 DEF FoundValue, Return, Search!Hear, Search!Break
<1>8. ASSUME NEW p \in Peers, FoundNodes(p) PROVE Search!Hear
  <2>1. IDs(candidates) \subseteq IDs(candidates')
    BY <1>8, NothingForgotten DEF FoundNodes, ValueTypes, Tracked
  <2> QED
    BY <1>8, <2>1 DEF FoundNodes, Search!Hear
<1>9. ASSUME NEW p \in Peers, FindValueError(p) PROVE Search!Hear
  BY <1>9 DEF FindValueError, Search!Hear
<1>10. CASE UNCHANGED vars
  BY <1>10 DEF vars
<1> QED
  BY <1>1, <1>2, <1>3, <1>4, <1>5, <1>6, <1>7, <1>8, <1>9, <1>10 DEF Next, Main, Query

\* A value lookup is an iterative search: whatever its goroutines do at the same
\* time, and after it has returned, it asks in rounds, the closest first.
THEOREM ValueLookupIsSearch == Spec => SearchSpec
BY ValueInvariant, ValueSearchInit, ValueSearchNext, PTL DEF Spec, SearchSpec, Search!Spec

-----------------------------------------------------------------------------
\* LookupNode.
LEMMA AnswersAreContacts == Answers \subseteq Seq(Contacts)
<1> DEFINE S == [id : Peers \cup {Self}, addr : Addrs]
<1>1. S \in SUBSET Contacts
  BY PeerContactsAreContacts
<1>2. \A a \in Seq(S) : a \in Seq(Contacts)
  BY <1>1, InLargerSeq
<1> QED
  BY <1>2 DEF Answers

LEMMA InAppended ==
    ASSUME NEW S, NEW s \in Seq(S), NEW x \in S
    PROVE  Range(s) \in SUBSET Range(Append(s, x)) /\ x \in Range(Append(s, x))
<1>1. /\ DOMAIN s = 1..Len(s) /\ Len(s) \in Nat
      /\ DOMAIN Append(s, x) = 1..(Len(s) + 1)
      /\ \A i \in 1..Len(s) : Append(s, x)[i] = s[i]
      /\ Append(s, x)[Len(s) + 1] = x
  OBVIOUS
<1>2. Len(s) + 1 \in DOMAIN Append(s, x)
  BY <1>1
<1>3. \A i \in DOMAIN s : i \in DOMAIN Append(s, x)
  BY <1>1
<1> QED
  BY <1>1, <1>2, <1>3 DEF Range

LEMMA HeadAndTail ==
    ASSUME NEW S, NEW s \in Seq(S), s # <<>>
    PROVE  \A x \in Range(s) : x = Head(s) \/ x \in Range(Tail(s))
<1> SUFFICES ASSUME NEW x \in Range(s), x # Head(s) PROVE x \in Range(Tail(s))
  OBVIOUS
<1>1. PICK i \in 1..Len(s) : x = s[i]
  BY DEF Range
<1>2. i # 1
  BY <1>1
<1>3. /\ DOMAIN Tail(s) = 1..(Len(s) - 1)
      /\ i - 1 \in 1..(Len(s) - 1) /\ Tail(s)[i - 1] = s[i]
  BY <1>1, <1>2
<1> QED
  BY <1>1, <1>3 DEF Range

-----------------------------------------------------------------------------
NodeTypes ==
    /\ NodeTypeOK /\ GoodTable(table) /\ CandidatesInOrder
    /\ answer \in [Peers -> Answers]
    /\ results \in Seq(Answers)

\* The rounds: nothing is open, and no answer left, between them; after the last
\* one nobody is left to ask.
NodeRounds ==
    /\ pc = "start" => Known(table) \subseteq Peers /\ contacted = {} /\ candidates = <<>>
    /\ pc \in {"start", "plan", "done"} => spawned = {} /\ sent = {} /\ results = <<>>
    /\ pc = "done" => IDs(candidates) \subseteq contacted

\* Whom the nodes that answered know are candidates, or will be when the main
\* goroutine has taken their answer from the channel.
NodeLearned ==
    /\ answered \subseteq contacted
    /\ \A p \in answered :
        \/ IDs(answer[p]) \ {Self} \subseteq IDs(candidates)
        \/ answer[p] \in Range(results)

NodeInv == NodeTypes /\ Tracked /\ NodeRounds /\ NodeLearned

LEMMA NodeInvInit == NodeInit => NodeInv
<1> SUFFICES ASSUME NodeInit PROVE NodeInv
  OBVIOUS
<1>1. PICK topology \in Topologies : answer = [p \in Peers |-> ClosestKnown(topology[p])]
  BY DEF NodeInit
<1>2. answer \in [Peers -> Answers]
  <2>1. \A p \in Peers : topology[p] \in SUBSET (Peers \cup {Self})
    BY LookupAssumption
  <2> QED
    BY <1>1, <2>1, AnswerFacts
<1>3. GoodTable(table) /\ Known(table) \subseteq Peers
  BY LookupAssumption DEF NodeInit
<1>4. candidates = <<>> /\ IDs(candidates) = {}
  BY NoIDs DEF NodeInit
<1>5. CandidatesInOrder
  BY <1>4 DEF CandidatesInOrder, Ascending
<1>6. NodeTypeOK
  <2>1. candidates \in Seq(Contacts) /\ table \in Tables
    BY <1>3, <1>4 DEF GoodTable
  <2>2. results \in Seq(Seq(Contacts)) /\ adding \in Seq(Contacts)
    BY DEF NodeInit
  <2> QED
    BY <2>1, <2>2 DEF NodeInit, NodeTypeOK
<1>7. Tracked /\ NodeRounds /\ NodeLearned /\ results \in Seq(Answers)
  BY <1>3, <1>4 DEF NodeInit, Tracked, NodeRounds, NodeLearned
<1> QED
  BY <1>2, <1>3, <1>5, <1>6, <1>7 DEF NodeInv, NodeTypes

LEMMA NodeInvNext == NodeInv /\ [NodeNext]_nodeVars => NodeInv'
<1> SUFFICES ASSUME NodeInv, [NodeNext]_nodeVars PROVE NodeInv'
  OBVIOUS
<1> USE DEF NodeInv, NodeTypes, NodeTypeOK, Tracked, NodeRounds, NodeLearned,
            CandidatesInOrder
<1>1. CASE NodeSeed
  <2>1. GoodTable(table) /\ Known(table) \subseteq Peers
    BY <1>1 DEF NodeSeed
  <2>2. candidates' \in Seq(PeerContacts) /\ Ascending(candidates', Target)
    BY <1>1, <2>1, SeedFacts DEF NodeSeed
  <2>3. candidates' \in Seq(Contacts)
    BY <2>2, CandidatesArePeers
  <2>4. /\ UNCHANGED <<table, answer, contacted, spawned, sent, results, adding, answered>>
        /\ contacted = {} /\ spawned = {} /\ sent = {} /\ results = <<>>
        /\ \/ pc' = "done" /\ candidates' = <<>>
           \/ pc' = "plan"
    BY <1>1 DEF NodeSeed
  <2>5. candidates' = <<>> => IDs(candidates') = {}
    BY NoIDs
  <2>6. NodeTypes'
    BY <2>2, <2>3, <2>4
  <2>7. Tracked' /\ NodeRounds'
    BY <2>1, <2>4, <2>5
  <2>8. NodeLearned'
    <3>1. answered' = {}
      BY <2>4
    <3> QED
      BY <3>1
  <2> QED
    BY <2>6, <2>7, <2>8
<1>2. CASE NodePlanRound
  <2>1. /\ nextBatch \subseteq IDs(candidates)
        /\ nextBatch = {} => IDs(candidates) \subseteq contacted
    BY BatchFacts
  <2>2. IDs(candidates) \subseteq Peers
    BY CandidatesArePeers
  <2> QED
    BY <1>2, <2>1, <2>2 DEF NodePlanRound
<1>3. ASSUME NEW p \in Peers, NodeMarkContacted(p) PROVE NodeInv'
  BY <1>3 DEF NodeMarkContacted
<1>4. ASSUME NEW p \in Peers, FindNodeAnswer(p) PROVE NodeInv'
  <2>1. /\ UNCHANGED <<table, answer, pc, candidates, contacted, spawned, adding>>
        /\ p \in sent /\ sent' = sent \ {p}
        /\ results' = Append(results, answer[p])
        /\ answered' = answered \cup {p}
    BY <1>4 DEF FindNodeAnswer
  <2>2. answer[p] \in Answers
    OBVIOUS
  <2>3. results' \in Seq(Answers)
    BY <2>1, <2>2
  <2>4. results' \in Seq(Seq(Contacts))
    BY <2>3, AnswersAreContacts, InLargerSeq
  <2>5. Range(results) \in SUBSET Range(results') /\ answer[p] \in Range(results')
    BY <2>1, <2>2, InAppended
  <2>6. NodeTypes'
    BY <2>1, <2>3, <2>4
  <2>7. Tracked' /\ NodeRounds'
    BY <2>1
  <2>8. NodeLearned'
    BY <2>1, <2>5
  <2> QED
    BY <2>6, <2>7, <2>8
<1>5. ASSUME NEW p \in Peers, FindNodeError(p) PROVE NodeInv'
  BY <1>5 DEF FindNodeError
<1>6. CASE Collect
  <2> DEFINE r == Head(results)
  <2>1. /\ UNCHANGED <<table, answer, contacted, spawned, sent, answered>>
        /\ pc = "collect" /\ pc' = "add" /\ results # <<>>
        /\ adding' = r /\ results' = Tail(results)
        /\ addCandidates(r)
    BY <1>6 DEF Collect
  <2>2. r \in Answers /\ results' \in Seq(Answers)
    BY <2>1
  <2>3. results' \in Seq(Seq(Contacts)) /\ adding' \in Seq(Contacts)
    BY <2>1, <2>2, AnswersAreContacts, InLargerSeq
  <2>4. \A a \in Range(results) : a = r \/ a \in Range(results')
    BY <2>1, HeadAndTail
  <2>5. /\ candidates' \in Seq(PeerContacts) /\ Ascending(candidates', Target)
        /\ IDs(candidates') = IDs(candidates) \cup (IDs(r) \ {Self})
    <3>1. candidates' = SortByDistance(Range(candidates) \cup Fresh(r), Target)
      BY <2>1 DEF addCandidates
    <3>2. CandidatesInOrder /\ contacted \subseteq IDs(candidates)
      OBVIOUS
    <3> HIDE DEF r, CandidatesInOrder
    <3> QED
      BY <2>2, <3>1, <3>2, AddFacts
  <2>6. candidates' \in Seq(Contacts)
    BY <2>5, CandidatesArePeers
  <2> HIDE DEF r
  <2>7. NodeTypes'
    BY <2>1, <2>2, <2>3, <2>5, <2>6
  <2>8. Tracked' /\ NodeRounds'
    BY <2>1, <2>5
  <2>9. NodeLearned'
    <3>1. ASSUME NEW q \in answered
          PROVE  \/ IDs(answer[q]) \ {Self} \subseteq IDs(candidates')
                 \/ answer[q] \in Range(results')
      <4>1. CASE answer[q] \in Range(results')
        BY <4>1
      <4>2. CASE answer[q] = r
        <5>1. IDs(answer[q]) = IDs(r)
          BY <4>2
        <5> QED
          BY <2>5, <5>1
      <4>3. CASE IDs(answer[q]) \ {Self} \subseteq IDs(candidates)
        BY <2>5, <4>3
      <4> QED
        BY <2>4, <4>1, <4>2, <4>3
    <3> QED
      BY <2>1, <3>1
  <2> QED
    BY <2>7, <2>8, <2>9
<1>7. CASE AddToTable
  <2>1. /\ UNCHANGED <<answer, pc, candidates, contacted, spawned, sent, results, answered>>
        /\ pc = "add" /\ adding # <<>> /\ adding' = Tail(adding)
        /\ table' = TableAdd(table, Head(adding))
    BY <1>7 DEF AddToTable
  <2>2. Head(adding) \in Contacts /\ adding' \in Seq(Contacts)
    BY <2>1
  <2>3. GoodTable(table')
    BY <2>1, <2>2, TableAddFacts
  <2>4. NodeTypes'
    BY <2>1, <2>2, <2>3 DEF GoodTable
  <2>5. Tracked' /\ NodeRounds' /\ NodeLearned'
    BY <2>1
  <2> QED
    BY <2>4, <2>5
<1>8. CASE AddedAll
  BY <1>8 DEF AddedAll
<1>9. CASE RoundOver
  BY <1>9 DEF RoundOver
<1>10. CASE UNCHANGED nodeVars
  BY <1>10 DEF nodeVars
<1> QED
  BY <1>1, <1>2, <1>3, <1>4, <1>5, <1>6, <1>7, <1>8, <1>9, <1>10
     DEF NodeNext, NodeMain, NodeQuery

LEMMA NodeInvariant == NodeSpec => []NodeInv
BY NodeInvInit, NodeInvNext, PTL DEF NodeSpec

\* The state of a node lookup has its shape; in particular it never queries its
\* own node.
THEOREM NodeLookupTypes == NodeSpec => []NodeTypeOK
BY NodeInvariant, PTL DEF NodeInv, NodeTypes

\* No node is queried twice in a lookup, and those a round queries are closer to
\* the target than every other node it could have queried.
THEOREM NodeQueriesClosestFirst == NodeSpec => ClosestFirstAndOnce
<1> DEFINE Chosen ==
        \A p \in spawned' \ spawned :
            /\ p \notin contacted
            /\ \A q \in IDs(candidates) \ (contacted \cup spawned') :
                    Less(p, q, Target)
<1>1. NodeInv /\ [NodeNext]_nodeVars => Chosen
  <2> SUFFICES ASSUME NodeInv, [NodeNext]_nodeVars PROVE Chosen
    OBVIOUS
  <2>1. CASE NodePlanRound
    <3>1. CandidatesInOrder
      BY DEF NodeInv, NodeTypes
    <3>2. spawned' = nextBatch
      BY <2>1 DEF NodePlanRound
    <3> QED
      BY <3>1, <3>2, BatchFacts
  <2>2. CASE ~NodePlanRound
    <3>1. spawned' \in SUBSET spawned
      BY <2>2 DEF NodeNext, NodeMain, NodeQuery, NodeSeed, NodeMarkContacted,
                  FindNodeAnswer, FindNodeError, Collect,
                  AddToTable, AddedAll, RoundOver, nodeVars
    <3> QED
      BY <3>1
  <2> QED
    BY <2>1, <2>2
<1> QED
  BY <1>1, NodeInvariant, PTL DEF NodeSpec, ClosestFirstAndOnce

\* A node lookup returns only when it has contacted every node any answer named,
\* and it returns the K closest of them.
THEOREM LookupIsExhaustive == NodeSpec => []Exhaustive
<1>1. NodeInv => Exhaustive
  <2> SUFFICES ASSUME NodeInv, pc = "done"
               PROVE  /\ contacted = IDs(candidates)
                      /\ \A p \in answered : IDs(answer[p]) \ {Self} \subseteq contacted
                      /\ \A p \in contacted \ IDs(closest) :
                            \A q \in IDs(closest) : Less(q, p, Target)
    BY DEF Exhaustive
  <2>1. contacted = IDs(candidates)
    BY DEF NodeInv, Tracked, NodeRounds
  <2>2. \A p \in answered : IDs(answer[p]) \ {Self} \subseteq contacted
    <3>1. Range(results) = {}
      BY DEF NodeInv, NodeRounds, Range
    <3> QED
      BY <2>1, <3>1 DEF NodeInv, NodeLearned
  <2>3. ASSUME NEW p \in contacted \ IDs(closest), NEW q \in IDs(closest)
        PROVE  Less(q, p, Target)
    <3>1. /\ candidates \in Seq(PeerContacts) /\ Ascending(candidates, Target)
          /\ DOMAIN candidates = 1..Len(candidates) /\ Len(candidates) \in Nat
          /\ K \in Nat
      BY TableAssumption DEF NodeInv, NodeTypes, CandidatesInOrder
    <3>2. /\ DOMAIN closest \subseteq DOMAIN candidates
          /\ \A i \in DOMAIN closest : closest[i] = candidates[i]
          /\ \A i \in DOMAIN candidates : i <= K => i \in DOMAIN closest
          /\ \A i \in DOMAIN closest : i <= K
      BY <3>1, FirstOfFacts DEF closest
    <3>3. PICK i \in DOMAIN closest : q = closest[i].id
      BY DEF IDs, Range
    <3>4. PICK j \in DOMAIN candidates : p = candidates[j].id
      BY <2>1 DEF IDs, Range
    <3>5. j \notin DOMAIN closest
      BY <3>2, <3>4 DEF IDs, Range
    <3>6. i < j
      <4>1. i \in Int /\ j \in Int /\ K \in Int
        BY <3>1, <3>2
      <4> QED
        BY <3>2, <3>5, <4>1
    <3> QED
      BY <3>1, <3>2, <3>3, <3>4, <3>6 DEF Ascending
  <2> QED
    BY <2>1, <2>2, <2>3
<1> QED
  BY <1>1, NodeInvariant, PTL

\* What the abstract search is written with.
LEMMA NodeSearchMeans ==
    /\ \A p, q, t : NodeSearch!Less(p, q, t) = Less(p, q, t)
    /\ \A S : NodeSearch!Cardinality(S) = Cardinality(S)
<1>1. \A p, q, t : NodeSearch!Less(p, q, t) = Less(p, q, t)
  BY Zenon DEF NodeSearch!Less, Less, NodeSearch!XOR, XOR, NodeSearch!Bits, Bits
<1>2. \A S : NodeSearch!Cardinality(S) = Cardinality(S)
  BY Zenon DEF NodeSearch!Cardinality, Cardinality
<1> QED
  BY <1>1, <1>2

LEMMA NodeSearchInit == NodeInit => NodeSearch!Init
BY NoIDs DEF NodeInit, NodeSearch!Init

LEMMA NodeSearchNext ==
    NodeInv /\ [NodeNext]_nodeVars => [NodeSearch!Next]_(NodeSearch!vars)
<1> SUFFICES ASSUME NodeInv, [NodeNext]_nodeVars PROVE [NodeSearch!Next]_(NodeSearch!vars)
  OBVIOUS
<1> USE DEF NodeSearch!Next, NodeSearch!vars, NodeInv, NodeRounds
<1>1. CASE NodePlanRound
  <2>1. /\ nextBatch \subseteq IDs(candidates) \ contacted /\ Cardinality(nextBatch) <= Alpha
        /\ nextBatch = {} => IDs(candidates) \subseteq contacted
        /\ \A p \in nextBatch, q \in IDs(candidates) \ (contacted \cup nextBatch) :
                Less(p, q, Target)
    BY BatchFacts DEF NodeTypes
  <2>2. /\ pc = "plan" /\ spawned = {} /\ sent = {} /\ sent' = {}
        /\ spawned' = nextBatch /\ pc' = IF nextBatch = {} THEN "done" ELSE "collect"
        /\ UNCHANGED <<candidates, contacted>>
    BY <1>1 DEF NodePlanRound
  <2>3. spawned' \cup sent' = nextBatch /\ spawned \cup sent = {}
    BY <2>2
  <2>4. CASE nextBatch = {}
    BY <2>1, <2>2, <2>4 DEF NodeSearch!Exhaust
  <2>5. CASE nextBatch # {}
    BY <2>1, <2>2, <2>3, <2>5, NodeSearchMeans DEF NodeSearch!Ask
  <2> QED
    BY <2>4, <2>5
<1>2. CASE NodeSeed
  <2>1. /\ pc = "start" /\ contacted = {} /\ spawned = {} /\ sent = {}
        /\ UNCHANGED <<contacted, spawned, sent>>
        /\ \/ pc' = "done" /\ candidates' = <<>>
           \/ pc' = "plan"
    BY <1>2 DEF NodeSeed
  <2>2. IDs(candidates) = {}
    BY <2>1, NoIDs
  <2>3. candidates' = <<>> => IDs(candidates') = {}
    BY NoIDs
  <2> QED
    BY <2>1, <2>2, <2>3 DEF NodeSearch!Hear, NodeSearch!Exhaust
<1>3. CASE Collect
  <2>1. Head(results) \in Answers
    BY <1>3 DEF Collect, NodeTypes
  <2>2. IDs(candidates) \subseteq IDs(candidates')
    BY <1>3, <2>1, NothingForgotten DEF Collect, NodeTypes, Tracked
  <2>3. /\ pc = "collect" /\ pc' = "add"
        /\ UNCHANGED <<contacted, spawned, sent>>
    BY <1>3 DEF Collect
  <2> QED
    BY <2>2, <2>3 DEF NodeSearch!Hear
<1>4. ASSUME NEW p \in Peers, NodeMarkContacted(p) PROVE NodeSearch!Hear
  BY <1>4 DEF NodeMarkContacted, NodeSearch!Hear
<1>5. ASSUME NEW p \in Peers, NodeQuery(p) PROVE NodeSearch!Hear
  BY <1>5 DEF NodeQuery, FindNodeAnswer, FindNodeError, NodeSearch!Hear
<1>6. CASE AddToTable \/ AddedAll \/ RoundOver
  BY <1>6 DEF AddToTable, AddedAll, RoundOver
<1>7. CASE UNCHANGED nodeVars
  BY <1>7 DEF nodeVars
<1> QED
  BY <1>1, <1>2, <1>3, <1>4, <1>5, <1>6, <1>7 DEF NodeNext, NodeMain

\* A node lookup is an iterative search that ends only when everybody was asked.
THEOREM NodeLookupIsSearch == NodeSpec => NodeSearchSpec
BY NodeInvariant, NodeSearchInit, NodeSearchNext, PTL
   DEF NodeSpec, NodeSearchSpec, NodeSearch!Spec
=============================================================================
