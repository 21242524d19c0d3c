-------------------------- MODULE RoutingTableProofs --------------------------
(***************************************************************************)
(* The routing table keeps its invariant, for identifiers of any length,   *)
(* any bucket capacity and any number of nodes, addresses and calls.       *)
(*                                                                         *)
(* First, the XOR metric: Less orders the identifiers strictly and totally *)
(* by distance to any target, so that the sorts of Closest and of the      *)
(* lookups have one result; bucketIndex is a bucket number; and buckets    *)
(* are compatible with the metric.  Then that sort.  Then what Add and     *)
(* Remove do to a table; the proofs about the lookups rest on these facts  *)
(* as well.  Last, what follows for a node's table, as NodeTable has it.   *)
(***************************************************************************)
EXTENDS NodeTable, TLAPS, WellFoundedInduction, FiniteSetTheorems, SequenceTheorems

\* Every non-empty set of naturals has a least element: how an argument about
\* the first differing bit gets that bit.
LEMMA LeastNat ==
    ASSUME NEW T, T \subseteq Nat, T # {}
    PROVE  \E m \in T : \A n \in T : m <= n
<1> DEFINE Lt == OpToRel(<, Nat)
<1>1. IsWellFoundedOn(Lt, Nat)
  BY NatLessThanWellFounded
<1>2. \A x, y \in Nat : y < x => <<y, x>> \in Lt
  BY DEF OpToRel
<1> HIDE DEF Lt
<1>3. PICK m \in T : \A y \in T : ~(<<y, m>> \in Lt)
  BY <1>1, WFMin
<1>4. ASSUME NEW n \in T PROVE m <= n
  <2>1. m \in Nat /\ n \in Nat
    OBVIOUS
  <2>2. ~(n < m)
    BY <1>2, <1>3, <2>1
  <2> QED
    BY <2>1, <2>2
<1> QED
  BY <1>4

\* Two different identifiers have a first bit where they differ.
LEMMA FirstDifference ==
    ASSUME NEW p \in NodeIDs, NEW q \in NodeIDs, p # q
    PROVE  \E b \in Bits : p[b] # q[b] /\ \A c \in 1..(b - 1) : p[c] = q[c]
<1> USE NumBitsAssumption DEF Bits, NodeIDs
<1> DEFINE D == {b \in Bits : p[b] # q[b]}
<1>1. D # {}
  OBVIOUS
<1>2. D \subseteq Nat
  OBVIOUS
<1>3. PICK b \in D : \A n \in D : b <= n
  BY <1>1, <1>2, LeastNat
<1>4. \A c \in 1..(b - 1) : p[c] = q[c]
  BY <1>3
<1> QED
  BY <1>3, <1>4

\* Distances are determined bit by bit, and are again identifiers.
LEMMA XORFacts ==
    ASSUME NEW p \in NodeIDs, NEW q \in NodeIDs, NEW t \in NodeIDs
    PROVE  /\ XOR(p, t) \in NodeIDs
           /\ \A b \in Bits : XOR(p, t)[b] = XOR(q, t)[b] <=> p[b] = q[b]
BY DEF XOR, NodeIDs

\* What Less says, in terms of the identifiers rather than of the distances.
LEMMA LessMeans ==
    ASSUME NEW p \in NodeIDs, NEW q \in NodeIDs, NEW t \in NodeIDs
    PROVE  Less(p, q, t) <=> \E b \in Bits : /\ p[b] = t[b]
                                             /\ q[b] # t[b]
                                             /\ \A c \in 1..(b - 1) : p[c] = q[c]
<1> USE NumBitsAssumption DEF Bits
<1>1. ASSUME NEW b \in Bits
      PROVE  (XOR(p, t)[b] < XOR(q, t)[b]) <=> (p[b] = t[b] /\ q[b] # t[b])
  BY DEF XOR, NodeIDs
<1>2. ASSUME NEW b \in Bits, NEW c \in 1..(b - 1)
      PROVE  XOR(p, t)[c] = XOR(q, t)[c] <=> p[c] = q[c]
  <2>1. c \in Bits
    OBVIOUS
  <2> QED
    BY <2>1, XORFacts
<1> QED
  BY <1>1, <1>2 DEF Less

\* No identifier is closer to a target than itself.
THEOREM LessIrreflexive ==
    ASSUME NEW p \in NodeIDs, NEW t \in NodeIDs
    PROVE  ~Less(p, p, t)
BY LessMeans

\* Being closer is transitive (and, with irreflexivity, asymmetric): the
\* comparison the code sorts with is a strict order, for every target.
THEOREM LessTransitive ==
    ASSUME NEW p \in NodeIDs, NEW q \in NodeIDs, NEW r \in NodeIDs,
           NEW t \in NodeIDs, Less(p, q, t), Less(q, r, t)
    PROVE  Less(p, r, t)
<1> USE NumBitsAssumption DEF Bits
<1>1. PICK b \in Bits : /\ p[b] = t[b] /\ q[b] # t[b]
                        /\ \A c \in 1..(b - 1) : p[c] = q[c]
  BY LessMeans
<1>2. PICK d \in Bits : /\ q[d] = t[d] /\ r[d] # t[d]
                        /\ \A c \in 1..(d - 1) : q[c] = r[c]
  BY LessMeans
<1>3. b # d
  BY <1>1, <1>2
<1>4. CASE b < d
  <2>1. r[b] # t[b] /\ \A c \in 1..(b - 1) : p[c] = r[c]
    BY <1>1, <1>2, <1>4
  <2> QED
    BY <1>1, <2>1, LessMeans
<1>5. CASE d < b
  <2>1. p[d] = t[d] /\ \A c \in 1..(d - 1) : p[c] = r[c]
    BY <1>1, <1>2, <1>5
  <2> QED
    BY <1>2, <2>1, LessMeans
<1> QED
  BY <1>3, <1>4, <1>5

\* Two different nodes are never equally far from a target, so "the K closest"
\* is one definite set and a sort by Less has one result.
THEOREM LessTotal ==
    ASSUME NEW p \in NodeIDs, NEW q \in NodeIDs, NEW t \in NodeIDs, p # q
    PROVE  Less(p, q, t) \/ Less(q, p, t)
<1>1. PICK b \in Bits : p[b] # q[b] /\ \A c \in 1..(b - 1) : p[c] = q[c]
  BY FirstDifference
<1>2. p[b] = t[b] \/ q[b] = t[b]
  BY <1>1 DEF NodeIDs
<1> QED
  BY <1>1, <1>2, LessMeans

\* The bucket of another node is a bucket number, and the index of the first
\* bit (counted from 0) in which it differs from this node.
THEOREM BucketIndexFirstDifference ==
    ASSUME NEW p \in NodeIDs, NEW q \in NodeIDs, p # q
    PROVE  /\ bucketIndex(p, q) \in 0..(NumBits - 1)
           /\ p[bucketIndex(p, q) + 1] # q[bucketIndex(p, q) + 1]
           /\ \A b \in 1..bucketIndex(p, q) : p[b] = q[b]
<1> USE NumBitsAssumption DEF Bits
<1> DEFINE xor == XOR(p, q)
           First(i) == xor[i + 1] # 0 /\ \A b \in 1..i : xor[b] = 0
<1>1. \A b \in Bits : xor[b] = 0 <=> p[b] = q[b]
  BY DEF XOR
<1>2. PICK d \in Bits : p[d] # q[d] /\ \A c \in 1..(d - 1) : p[c] = q[c]
  BY FirstDifference
<1>3. d - 1 \in 0..(NumBits - 1) /\ First(d - 1)
  BY <1>1, <1>2
<1>4. bucketIndex(p, q) = CHOOSE i \in 0..(NumBits - 1) : First(i)
  BY <1>1, <1>2 DEF bucketIndex
<1>5. bucketIndex(p, q) \in 0..(NumBits - 1) /\ First(bucketIndex(p, q))
  <2> HIDE DEF First
  <2> QED
    BY <1>3, <1>4
<1> QED
  BY <1>1, <1>5

\* A node that is in the target's bucket of p's table is closer to the target
\* than any node of another bucket: why the answer to FIND_NODE is drawn from
\* that bucket first.
THEOREM SameBucketCloser ==
    ASSUME NEW p \in NodeIDs, NEW t \in NodeIDs,
           NEW c \in NodeIDs, NEW d \in NodeIDs,
           p # t, p # c, p # d,
           bucketIndex(p, c) = bucketIndex(p, t),
           bucketIndex(p, d) # bucketIndex(p, t)
    PROVE  Less(c, d, t)
<1> USE NumBitsAssumption DEF Bits
<1> DEFINE i == bucketIndex(p, t)
           j == bucketIndex(p, d)
<1>1. /\ i \in 0..(NumBits - 1) /\ j \in 0..(NumBits - 1) /\ i # j
      /\ p[i + 1] # t[i + 1] /\ p[i + 1] # c[i + 1] /\ p[j + 1] # d[j + 1]
      /\ \A b \in 1..i : p[b] = t[b] /\ p[b] = c[b]
      /\ \A b \in 1..j : p[b] = d[b]
  BY BucketIndexFirstDifference
<1>2. /\ p[i + 1] \in {0, 1} /\ t[i + 1] \in {0, 1} /\ c[i + 1] \in {0, 1}
      /\ i + 1 \in Bits /\ j + 1 \in Bits
  BY <1>1 DEF NodeIDs
<1> HIDE DEF i, j
<1>3. CASE i < j
  <2>1. c[i + 1] = t[i + 1] /\ d[i + 1] # t[i + 1]
    BY <1>1, <1>2, <1>3
  <2>2. \A b \in 1..((i + 1) - 1) : c[b] = d[b]
    BY <1>1, <1>3
  <2> QED
    BY <1>2, <2>1, <2>2, LessMeans
<1>4. CASE j < i
  <2>1. c[j + 1] = t[j + 1] /\ d[j + 1] # t[j + 1]
    BY <1>1, <1>2, <1>4
  <2>2. \A b \in 1..((j + 1) - 1) : c[b] = d[b]
    BY <1>1, <1>4
  <2> QED
    BY <1>2, <2>1, <2>2, LessMeans
<1> QED
  BY <1>1, <1>3, <1>4

\* From this node itself, a higher bucket is nearer.
THEOREM HigherBucketCloser ==
    ASSUME NEW p \in NodeIDs, NEW c \in NodeIDs, NEW d \in NodeIDs,
           p # c, p # d, bucketIndex(p, c) < bucketIndex(p, d)
    PROVE  Less(d, c, p)
<1> USE NumBitsAssumption DEF Bits
<1> DEFINE i == bucketIndex(p, c)
           j == bucketIndex(p, d)
<1>1. /\ i \in 0..(NumBits - 1) /\ j \in 0..(NumBits - 1)
      /\ p[i + 1] # c[i + 1]
      /\ \A b \in 1..i : p[b] = c[b]
      /\ \A b \in 1..j : p[b] = d[b]
  BY BucketIndexFirstDifference
<1> HIDE DEF i, j
<1>2. i < j
  BY DEF i, j
<1>3. i + 1 \in Bits /\ d[i + 1] = p[i + 1] /\ c[i + 1] # p[i + 1]
  BY <1>1, <1>2
<1>4. \A b \in 1..((i + 1) - 1) : d[b] = c[b]
  BY <1>1, <1>2
<1> QED
  BY <1>3, <1>4, LessMeans

-----------------------------------------------------------------------------
\* At most one contact per node.
OnePerNode(S) == \A c, d \in S : c.id = d.id => c = d

\* The contacts come in the order of their distance to target, no node twice.
Ascending(s, target) ==
    \A i, j \in DOMAIN s : i < j => Less(s[i].id, s[j].id, target)

\* How many contacts are nearer gives each contact a place of its own.
LEMMA Places ==
    ASSUME NEW S \in SUBSET Contacts, IsFiniteSet(S), OnePerNode(S),
           NEW target \in NodeIDs
    PROVE  LET nearer == [c \in S |->
                            Cardinality({d \in S : Less(d.id, c.id, target)})]
           IN  /\ nearer \in Bijection(S, 0..(Cardinality(S) - 1))
               /\ \A c, d \in S : Less(c.id, d.id, target) <=> nearer[c] < nearer[d]
<1> DEFINE before(c) == {d \in S : Less(d.id, c.id, target)}
           nearer == [c \in S |-> Cardinality(before(c))]
           n == Cardinality(S)
<1>1. n \in Nat
  BY FS_CardinalityType
<1>2. \A c \in S : c.id \in NodeIDs
  BY DEF Contacts
<1>3. ASSUME NEW c \in S
      PROVE  /\ IsFiniteSet(before(c)) /\ Cardinality(before(c)) \in 0..(n - 1)
  <2>1. before(c) \in SUBSET S /\ c \notin before(c)
    BY <1>2, LessIrreflexive
  <2>2. IsFiniteSet(before(c)) /\ Cardinality(before(c)) <= n
        /\ (n = Cardinality(before(c)) => S = before(c))
    BY <2>1, FS_Subset
  <2>3. Cardinality(before(c)) \in Nat
    BY <2>2, FS_CardinalityType
  <2>4. Cardinality(before(c)) # n
    BY <2>1, <2>2
  <2> QED
    BY <1>1, <2>2, <2>3, <2>4
<1>4. ASSUME NEW c \in S, NEW d \in S, Less(c.id, d.id, target)
      PROVE  nearer[c] < nearer[d]
  <2>1. before(c) \in SUBSET before(d)
    <3> SUFFICES ASSUME NEW e \in S, Less(e.id, c.id, target)
                 PROVE  Less(e.id, d.id, target)
      OBVIOUS
    <3> QED
      BY <1>2, <1>4, LessTransitive
  <2>2. c \in before(d) /\ c \notin before(c)
    BY <1>2, <1>4, LessIrreflexive
  <2> HIDE DEF before
  <2>3. /\ Cardinality(before(c)) <= Cardinality(before(d))
        /\ Cardinality(before(d)) = Cardinality(before(c)) => before(d) = before(c)
    BY <1>3, <2>1, FS_Subset
  <2>4. Cardinality(before(c)) < Cardinality(before(d))
    BY <1>1, <1>3, <2>2, <2>3
  <2> QED
    BY <2>4
<1> HIDE DEF before
<1>5. nearer \in [S -> 0..(n - 1)]
  BY <1>3
<1>6. \A c, d \in S : c # d => Less(c.id, d.id, target) \/ Less(d.id, c.id, target)
  BY <1>2, LessTotal DEF OnePerNode
<1> HIDE DEF nearer
<1>7. \A c \in S : nearer[c] \in Int
  BY <1>1, <1>5
<1>8. nearer \in Injection(S, 0..(n - 1))
  BY <1>4, <1>5, <1>6, <1>7 DEF Injection, IsInjective
<1>9. nearer \in Surjection(S, 0..(n - 1))
  <2>1. IsFiniteSet(0..(n - 1)) /\ Cardinality(0..(n - 1)) = n
    BY <1>1, FS_Interval
  <2> QED
    BY <1>8, <2>1, FS_Injection
<1>10. \A c, d \in S : nearer[c] < nearer[d] => Less(c.id, d.id, target)
  BY <1>4, <1>6, <1>7
<1>11. nearer \in Bijection(S, 0..(n - 1))
  BY <1>8, <1>9 DEF Bijection
<1> QED
  BY <1>4, <1>10, <1>11 DEF nearer, before

\* What sorting gives: the same contacts, nearest first.
LEMMA SortFacts ==
    ASSUME NEW S \in SUBSET Contacts, IsFiniteSet(S), OnePerNode(S),
           NEW target \in NodeIDs
    PROVE  LET sorted == SortByDistance(S, target)
           IN  /\ sorted \in Seq(S)
               /\ Range(sorted) = S
               /\ Ascending(sorted, target)
               /\ Len(sorted) = Cardinality(S)
<1> DEFINE nearer == [c \in S |->
                        Cardinality({d \in S : Less(d.id, c.id, target)})]
           n == Cardinality(S)
           sorted == SortByDistance(S, target)
<1>1. /\ nearer \in Bijection(S, 0..(n - 1))
      /\ \A c, d \in S : Less(c.id, d.id, target) <=> nearer[c] < nearer[d]
  BY Places
<1>2. sorted = [i \in 1..n |-> CHOOSE c \in S : nearer[c] = i - 1]
  BY DEF SortByDistance
<1>3. n \in Nat
  BY FS_CardinalityType
<1> HIDE DEF nearer, n
<1>4. ASSUME NEW i \in 1..n PROVE \E c \in S : nearer[c] = i - 1
  <2>1. i - 1 \in 0..(n - 1)
    BY <1>3
  <2> QED
    BY <1>1, <2>1 DEF Bijection, Surjection
<1>5. ASSUME NEW i \in 1..n PROVE sorted[i] \in S /\ nearer[sorted[i]] = i - 1
  BY <1>2, <1>4
<1>6. DOMAIN sorted = 1..n
  BY <1>2
<1> HIDE DEF sorted
<1>7. sorted \in [1..n -> S]
  BY <1>2, <1>5
<1>8. sorted \in Seq(S) /\ Len(sorted) = n
  BY <1>3, <1>7, SeqDef
<1>9. ASSUME NEW c \in S PROVE c \in Range(sorted)
  <2>1. nearer[c] \in 0..(n - 1)
    BY <1>1 DEF Bijection, Surjection
  <2>2. nearer[c] + 1 \in 1..n
    BY <1>3, <2>1
  <2>3. nearer[sorted[nearer[c] + 1]] = nearer[c] /\ sorted[nearer[c] + 1] \in S
    BY <1>5, <2>1, <2>2
  <2>4. sorted[nearer[c] + 1] = c
    BY <1>1, <2>3 DEF Bijection, Injection, IsInjective
  <2> QED
    BY <1>6, <2>2, <2>4 DEF Range
<1>10. Range(sorted) = S
  BY <1>5, <1>6, <1>9 DEF Range
<1>11. ASSUME NEW i \in 1..n, NEW j \in 1..n, i < j
       PROVE  Less(sorted[i].id, sorted[j].id, target)
  <2>1. i - 1 < j - 1
    BY <1>3, <1>11
  <2> QED
    BY <1>1, <1>5, <2>1
<1> QED
  BY <1>6, <1>8, <1>10, <1>11 DEF Ascending, sorted, n

\* The first elements of a sequence, in the same order.
LEMMA FirstOfFacts ==
    ASSUME NEW S, NEW s \in Seq(S), NEW count \in Nat
    PROVE  /\ FirstOf(s, count) \in Seq(S)
           /\ Len(FirstOf(s, count)) \in Nat
           /\ DOMAIN FirstOf(s, count) = 1..Len(FirstOf(s, count))
           /\ Len(FirstOf(s, count)) = IF count > Len(s) THEN Len(s) ELSE count
           /\ \A i \in DOMAIN FirstOf(s, count) :
                i \in DOMAIN s /\ FirstOf(s, count)[i] = s[i]
<1> DEFINE m == IF count > Len(s) THEN Len(s) ELSE count
<1>1. Len(s) \in Nat /\ DOMAIN s = 1..Len(s)
  OBVIOUS
<1>2. m \in 0..Len(s)
  BY <1>1
<1>3. FirstOf(s, count) = SubSeq(s, 1, m)
  BY DEF FirstOf
<1> HIDE DEF m
<1>4. /\ SubSeq(s, 1, m) \in Seq(S) /\ Len(SubSeq(s, 1, m)) = m
      /\ DOMAIN SubSeq(s, 1, m) = 1..m
      /\ \A i \in 1..m : SubSeq(s, 1, m)[i] = s[i]
  BY <1>1, <1>2
<1> QED
  BY <1>1, <1>2, <1>3, <1>4 DEF m

\* The first contacts of a sorted list are sorted, and no later contact of the
\* list is nearer than any of them.
LEMMA FirstOfAscending ==
    ASSUME NEW S \in SUBSET Contacts, NEW s \in Seq(S), NEW target \in NodeIDs,
           Ascending(s, target), NEW count \in Nat
    PROVE  /\ Ascending(FirstOf(s, count), target)
           /\ Range(FirstOf(s, count)) \subseteq Range(s)
           /\ \A c \in Range(s), d \in Range(FirstOf(s, count)) :
                Less(c.id, d.id, target) => c \in Range(FirstOf(s, count))
<1> DEFINE f == FirstOf(s, count)
<1>1. /\ DOMAIN f = 1..Len(f) /\ Len(f) \in Nat /\ DOMAIN s = 1..Len(s) /\ Len(s) \in Nat
      /\ \A i \in DOMAIN f : i \in DOMAIN s /\ f[i] = s[i]
  BY FirstOfFacts
<1> HIDE DEF f
<1>2. Ascending(f, target) /\ Range(f) \subseteq Range(s)
  BY <1>1 DEF Ascending, Range
<1>3. ASSUME NEW c \in Range(s), NEW d \in Range(f), Less(c.id, d.id, target)
      PROVE  c \in Range(f)
  <2>1. PICK i \in DOMAIN s, j \in DOMAIN f : c = s[i] /\ d = f[j]
    BY DEF Range
  <2>2. f[j] = s[j] /\ j \in DOMAIN s
    BY <1>1
  <2>3. s[i].id \in NodeIDs /\ s[j].id \in NodeIDs
    BY <1>1, <2>2 DEF Contacts
  <2>4. ~Less(s[j].id, s[i].id, target) /\ c # d
    BY <1>3, <2>1, <2>2, <2>3, LessIrreflexive, LessTransitive
  <2>5. i < j
    BY <1>1, <2>1, <2>2, <2>4 DEF Ascending
  <2>6. i \in DOMAIN f /\ f[i] = s[i]
    BY <1>1, <2>5
  <2> QED
    BY <2>1, <2>6 DEF Range
<1> QED
  BY <1>2, <1>3 DEF f

-----------------------------------------------------------------------------
\* The entries of new are entries of old, in the order they had there.
SameOrder(old, new) ==
    /\ \A m \in DOMAIN new : \E j \in DOMAIN old : old[j] = new[m]
    /\ \A m, n \in DOMAIN new : m < n =>
        \E j, k \in DOMAIN old : j < k /\ old[j] = new[m] /\ old[k] = new[n]

\* A bucket before and after hearing of c: c's entry comes last, if c has one,
\* and the others are in the order they had.
AfterHearing(old, new, c) ==
    /\ \A m \in DOMAIN new :
        \/ m = Len(new) /\ new[m] = c
        \/ new[m].id # c.id /\ \E j \in DOMAIN old : old[j] = new[m]
    /\ \A m, n \in DOMAIN new : m < n =>
        \/ n = Len(new) /\ new[n] = c
        \/ \E j, k \in DOMAIN old : j < k /\ old[j] = new[m] /\ old[k] = new[n]

-----------------------------------------------------------------------------
\* Removing the i-th element of a sequence closes the gap.
LEMMA RemoveAtFacts ==
    ASSUME NEW S, NEW s \in Seq(S), NEW i \in DOMAIN s
    PROVE  /\ RemoveAt(s, i) \in Seq(S)
           /\ Len(RemoveAt(s, i)) = Len(s) - 1
           /\ \A j \in 1..(Len(s) - 1) :
                RemoveAt(s, i)[j] = IF j < i THEN s[j] ELSE s[j + 1]
<1> DEFINE front == SubSeq(s, 1, i - 1)
           back  == SubSeq(s, i + 1, Len(s))
<1>1. i \in 1..Len(s) /\ Len(s) \in Nat
  OBVIOUS
<1>2. /\ front \in Seq(S) /\ Len(front) = i - 1
      /\ \A j \in 1..(i - 1) : front[j] = s[j]
  BY <1>1
<1>3. /\ back \in Seq(S) /\ Len(back) = Len(s) - i
      /\ \A j \in 1..(Len(s) - i) : back[j] = s[j + i]
  BY <1>1
<1> HIDE DEF front, back
<1>4. RemoveAt(s, i) = front \o back
  BY DEF RemoveAt, front, back
<1> QED
  BY <1>1, <1>2, <1>3, <1>4

LEMMA RemovedAreThere ==
    ASSUME NEW S, NEW s \in Seq(S), NEW i \in DOMAIN s
    PROVE  RemoveAt(s, i) \in Seq(S) /\ Range(RemoveAt(s, i)) \subseteq Range(s)
<1>1. /\ RemoveAt(s, i) \in Seq(S)
      /\ Len(RemoveAt(s, i)) = Len(s) - 1
      /\ \A j \in 1..(Len(s) - 1) :
            RemoveAt(s, i)[j] = IF j < i THEN s[j] ELSE s[j + 1]
  BY RemoveAtFacts
<1> DEFINE new == RemoveAt(s, i)
<1> HIDE DEF new
<1>2. new \in Seq(S) /\ DOMAIN new = 1..(Len(s) - 1) /\ DOMAIN s = 1..Len(s)
      /\ Len(s) \in Nat
  BY <1>1 DEF new
<1>3. ASSUME NEW j \in DOMAIN new PROVE \E k \in DOMAIN s : new[j] = s[k]
  <2>1. j \in DOMAIN s /\ j + 1 \in DOMAIN s
    BY <1>2
  <2> QED
    BY <1>1, <1>2, <2>1 DEF new
<1> QED
  BY <1>1, <1>3 DEF Range, new

\* In a bucket with one entry per node, EntryOf is that entry.
LEMMA EntryOfFacts ==
    ASSUME NEW i, NEW bucket, GoodBucket(i, bucket), NEW id, Holds(bucket, id)
    PROVE  EntryOf(bucket, id) \in DOMAIN bucket /\ bucket[EntryOf(bucket, id)].id = id
<1> DEFINE First(e) == /\ bucket[e].id = id
                       /\ \A j \in 1..(e - 1) : bucket[j].id # id
<1>1. PICK e \in DOMAIN bucket : bucket[e].id = id
  BY DEF Holds
<1>2. First(e)
  BY <1>1 DEF GoodBucket
<1>3. EntryOf(bucket, id) = CHOOSE x \in DOMAIN bucket : First(x)
  BY DEF EntryOf
<1>4. EntryOf(bucket, id) \in DOMAIN bucket /\ First(EntryOf(bucket, id))
  <2> HIDE DEF First
  <2> QED
    BY <1>1, <1>2, <1>3
<1> QED
  BY <1>4

\* Removing a node from a bucket.
LEMMA RemovedBucket ==
    ASSUME NEW i, NEW bucket, GoodBucket(i, bucket), NEW id, Holds(bucket, id)
    PROVE  LET new == RemoveAt(bucket, EntryOf(bucket, id))
           IN  /\ GoodBucket(i, new)
               /\ SameOrder(bucket, new)
               /\ ~Holds(new, id)
               /\ Len(new) = Len(bucket) - 1
               /\ \A j \in DOMAIN bucket :
                    bucket[j].id # id => \E k \in DOMAIN new : new[k] = bucket[j]
<1> DEFINE e == EntryOf(bucket, id)
           new == RemoveAt(bucket, e)
<1>1. e \in DOMAIN bucket /\ bucket[e].id = id
  BY EntryOfFacts
<1>2. /\ bucket \in Seq(Contacts) /\ Len(bucket) \in Nat /\ Len(bucket) <= K
      /\ DOMAIN bucket = 1..Len(bucket)
  BY DEF GoodBucket
<1> HIDE DEF e
<1>3. /\ new \in Seq(Contacts) /\ Len(new) = Len(bucket) - 1
      /\ DOMAIN new = 1..(Len(bucket) - 1)
      /\ \A j \in 1..(Len(bucket) - 1) :
            new[j] = IF j < e THEN bucket[j] ELSE bucket[j + 1]
  <2>1. bucket \in Seq(Contacts) /\ e \in DOMAIN bucket
    BY <1>1, <1>2
  <2>2. /\ new \in Seq(Contacts)
        /\ Len(new) = Len(bucket) - 1
        /\ \A j \in 1..(Len(bucket) - 1) :
              new[j] = IF j < e THEN bucket[j] ELSE bucket[j + 1]
    BY <2>1, RemoveAtFacts
  <2>3. DOMAIN new = 1..Len(new)
    BY <2>2
  <2> QED
    BY <2>2, <2>3
<1> HIDE DEF new
<1> DEFINE was(m) == IF m < e THEN m ELSE m + 1    \* where new[m] was before
<1>4. /\ \A m \in DOMAIN new : was(m) \in DOMAIN bucket /\ new[m] = bucket[was(m)]
      /\ \A m, n \in DOMAIN new : was(m) < was(n) <=> m < n
      /\ \A m, n \in DOMAIN new : was(m) = was(n) => m = n
  BY <1>1, <1>2, <1>3
<1> HIDE DEF was
<1>5. GoodBucket(i, new) /\ SameOrder(bucket, new)
  <2>1. /\ \A m \in DOMAIN new :
              new[m].id # Self /\ bucketIndex(Self, new[m].id) = i
        /\ \A m, n \in DOMAIN new : new[m].id = new[n].id => m = n
    BY <1>4 DEF GoodBucket
  <2>2. Len(new) <= K
    BY <1>2, <1>3, TableAssumption
  <2>3. SameOrder(bucket, new)
    BY <1>4 DEF SameOrder
  <2> QED
    BY <1>3, <2>1, <2>2, <2>3 DEF GoodBucket
<1>6. ~Holds(new, id)
  <2>1. \A m \in DOMAIN new : was(m) # e
    BY <1>1, <1>2, <1>3 DEF was
  <2> QED
    BY <1>1, <1>4, <2>1 DEF GoodBucket, Holds
<1>7. ASSUME NEW j \in DOMAIN bucket, bucket[j].id # id
      PROVE  \E k \in DOMAIN new : new[k] = bucket[j]
  <2>1. CASE j < e
    BY <1>1, <1>2, <1>3, <2>1
  <2>2. CASE j > e
    <3>1. j - 1 \in 1..(Len(bucket) - 1) /\ new[j - 1] = bucket[j]
      BY <1>1, <1>2, <1>3, <2>2
    <3> QED
      BY <1>3, <3>1
  <2>3. j # e /\ j \in 1..Len(bucket) /\ e \in 1..Len(bucket)
    BY <1>1, <1>2, <1>7
  <2> QED
    BY <2>1, <2>2, <2>3
<1> QED
  BY <1>3, <1>5, <1>6, <1>7 DEF new, e

\* Appending a node the bucket does not hold.
LEMMA AppendedBucket ==
    ASSUME NEW i, NEW bucket, GoodBucket(i, bucket), Len(bucket) < K,
           NEW c \in Contacts, c.id # Self, bucketIndex(Self, c.id) = i,
           ~Holds(bucket, c.id)
    PROVE  /\ GoodBucket(i, Append(bucket, c))
           /\ AfterHearing(bucket, Append(bucket, c), c)
<1> DEFINE new == Append(bucket, c)
<1>1. /\ bucket \in Seq(Contacts) /\ Len(bucket) \in Nat
      /\ DOMAIN bucket = 1..Len(bucket)
  BY DEF GoodBucket
<1>2. /\ new \in Seq(Contacts) /\ Len(new) = Len(bucket) + 1
      /\ DOMAIN new = 1..(Len(bucket) + 1)
      /\ new[Len(bucket) + 1] = c
      /\ \A j \in 1..Len(bucket) : new[j] = bucket[j]
  BY <1>1
<1> HIDE DEF new
<1>3. GoodBucket(i, new)
  BY <1>1, <1>2, TableAssumption DEF GoodBucket, Holds
<1>4. AfterHearing(bucket, new, c)
  BY <1>1, <1>2 DEF GoodBucket, Holds, AfterHearing
<1> QED
  BY <1>3, <1>4 DEF new

\* A bucket after hearing of a node of its range: the invariant holds, the
\* other nodes keep their order, and nobody disappears.
LEMMA RefreshedBucket ==
    ASSUME NEW i, NEW bucket, GoodBucket(i, bucket),
           NEW c \in Contacts, c.id # Self, bucketIndex(Self, c.id) = i
    PROVE  LET new == Refreshed(bucket, c)
           IN  /\ GoodBucket(i, new)
               /\ AfterHearing(bucket, new, c)
               /\ \A j \in DOMAIN bucket : Holds(new, bucket[j].id)
<1>1. CASE Holds(bucket, c.id)
  <2> DEFINE mid == RemoveAt(bucket, EntryOf(bucket, c.id))
             new == Append(mid, c)
  <2>1. Refreshed(bucket, c) = new
    BY <1>1 DEF Refreshed
  <2>2. /\ GoodBucket(i, mid) /\ SameOrder(bucket, mid) /\ ~Holds(mid, c.id)
        /\ Len(mid) = Len(bucket) - 1
        /\ \A j \in DOMAIN bucket :
             bucket[j].id # c.id => \E k \in DOMAIN mid : mid[k] = bucket[j]
    BY <1>1, RemovedBucket
  <2>3. /\ bucket \in Seq(Contacts) /\ Len(bucket) \in Nat /\ Len(bucket) <= K
        /\ mid \in Seq(Contacts) /\ Len(mid) \in Nat
    BY <2>2 DEF GoodBucket
  <2> HIDE DEF mid
  <2>4. GoodBucket(i, new)
    BY <2>2, <2>3, AppendedBucket, TableAssumption
  <2>5. /\ Len(new) = Len(mid) + 1 /\ DOMAIN new = 1..(Len(mid) + 1)
        /\ DOMAIN mid = 1..Len(mid)
        /\ new[Len(mid) + 1] = c
        /\ \A j \in 1..Len(mid) : new[j] = mid[j]
    BY <2>3
  <2> HIDE DEF new
  <2>6. AfterHearing(bucket, new, c)
    <3>1. \A m \in DOMAIN new : m = Len(new) \/ m \in DOMAIN mid
      BY <2>3, <2>5
    <3>2. Len(new) \in DOMAIN new /\ new[Len(new)] = c
      BY <2>3, <2>5
    <3>3. ASSUME NEW m \in DOMAIN mid
          PROVE  new[m].id # c.id /\ \E j \in DOMAIN bucket : bucket[j] = new[m]
      BY <2>2, <2>5, <3>3 DEF Holds, SameOrder
    <3>4. ASSUME NEW m \in DOMAIN mid, NEW n \in DOMAIN mid, m < n
          PROVE  \E j, k \in DOMAIN bucket :
                    j < k /\ bucket[j] = new[m] /\ bucket[k] = new[n]
      BY <2>2, <2>5, <3>4 DEF SameOrder
    <3>5. \A m, n \in DOMAIN new : m < n => m \in DOMAIN mid
      BY <2>3, <2>5
    <3> QED
      BY <3>1, <3>2, <3>3, <3>4, <3>5 DEF AfterHearing
  <2>7. ASSUME NEW j \in DOMAIN bucket PROVE Holds(new, bucket[j].id)
    <3>1. CASE bucket[j].id = c.id
      BY <2>3, <2>5, <3>1 DEF Holds
    <3>2. CASE bucket[j].id # c.id
      BY <2>2, <2>3, <2>5, <3>2 DEF Holds
    <3> QED
      BY <3>1, <3>2
  <2> QED
    BY <2>1, <2>4, <2>6, <2>7
<1>2. CASE ~Holds(bucket, c.id) /\ Len(bucket) < K
  <2>1. Refreshed(bucket, c) = Append(bucket, c)
    BY <1>2 DEF Refreshed
  <2>2. GoodBucket(i, Append(bucket, c)) /\ AfterHearing(bucket, Append(bucket, c), c)
    BY <1>2, AppendedBucket
  <2>3. \A j \in DOMAIN bucket : Holds(Append(bucket, c), bucket[j].id)
    BY DEF Holds, GoodBucket
  <2> QED
    BY <2>1, <2>2, <2>3
<1>3. CASE ~Holds(bucket, c.id) /\ ~(Len(bucket) < K)
  <2>1. Refreshed(bucket, c) = bucket
    BY <1>3 DEF Refreshed
  <2>2. AfterHearing(bucket, bucket, c)
    BY <1>3 DEF AfterHearing, Holds
  <2> QED
    BY <2>1, <2>2 DEF Holds
<1> QED
  BY <1>1, <1>2, <1>3

-----------------------------------------------------------------------------
\* A node is known when some bucket holds an entry for it.
LEMMA KnownMeans ==
    ASSUME NEW t, NEW id
    PROVE  id \in Known(t) <=> \E i \in BucketNums : Holds(t[i], id)
BY DEF Known, Entries, Holds, Range

\* A bucket that c does not belong to is as it should be after hearing of c.
LEMMA OtherBucket ==
    ASSUME NEW i, NEW bucket, GoodBucket(i, bucket), NEW c \in Contacts,
           c.id = Self \/ bucketIndex(Self, c.id) # i
    PROVE  AfterHearing(bucket, bucket, c)
BY DEF AfterHearing, GoodBucket

\* What one Add does to a table.
LEMMA TableAddFacts ==
    ASSUME NEW t, GoodTable(t), NEW c \in Contacts
    PROVE  /\ GoodTable(TableAdd(t, c))
           /\ \A i \in BucketNums : AfterHearing(t[i], TableAdd(t, c)[i], c)
           /\ Known(t) \subseteq Known(TableAdd(t, c))
<1> DEFINE idx == bucketIndex(Self, c.id)
           new == TableAdd(t, c)
<1>1. CASE c.id = Self \/ idx < 0
  <2>1. new = t
    BY <1>1 DEF TableAdd
  <2>2. \A i \in BucketNums : GoodBucket(i, t[i]) /\ ~(i < 0)
    BY NumBitsAssumption DEF GoodTable, BucketNums
  <2> QED
    BY <1>1, <2>1, <2>2, OtherBucket
<1>2. CASE ~(c.id = Self \/ idx < 0)
  <2>1. c.id # Self /\ idx \in BucketNums
    BY <1>2, BucketIndexFirstDifference, TableAssumption DEF Contacts, BucketNums
  <2>2. new = [t EXCEPT ![idx] = Refreshed(t[idx], c)]
    BY <1>2 DEF TableAdd
  <2> HIDE DEF new
  <2>3. /\ GoodBucket(idx, Refreshed(t[idx], c))
        /\ AfterHearing(t[idx], Refreshed(t[idx], c), c)
        /\ \A j \in DOMAIN t[idx] : Holds(Refreshed(t[idx], c), t[idx][j].id)
    BY <2>1, RefreshedBucket DEF GoodTable
  <2>4. Refreshed(t[idx], c) \in Seq(Contacts)
    BY <2>3 DEF GoodBucket
  <2> HIDE DEF idx
  <2>5. /\ new \in Tables
        /\ new[idx] = Refreshed(t[idx], c)
        /\ \A i \in BucketNums : i # idx => new[i] = t[i]
    BY <2>1, <2>2, <2>4 DEF GoodTable, Tables
  <2>6. GoodTable(new)
    BY <2>3, <2>5 DEF GoodTable
  <2>7. \A i \in BucketNums : AfterHearing(t[i], new[i], c)
    BY <2>3, <2>5, OtherBucket DEF GoodTable, idx
  <2>8. ASSUME NEW id \in Known(t) PROVE id \in Known(new)
    <3>1. PICK i \in BucketNums : Holds(t[i], id)
      BY <2>8, KnownMeans
    <3>2. Holds(new[i], id)
      BY <2>3, <2>5, <3>1 DEF Holds
    <3> QED
      BY <3>2, KnownMeans
  <2> QED
    BY <2>6, <2>7, <2>8 DEF new
<1> QED
  BY <1>1, <1>2

\* What one Remove does to a table.
LEMMA TableRemoveFacts ==
    ASSUME NEW t, GoodTable(t), NEW id \in NodeIDs
    PROVE  /\ GoodTable(TableRemove(t, id))
           /\ \A i \in BucketNums : SameOrder(t[i], TableRemove(t, id)[i])
           /\ Known(t) \ {id} \subseteq Known(TableRemove(t, id))
<1> DEFINE idx == bucketIndex(Self, id)
           new == TableRemove(t, id)
<1>1. CASE ~(idx >= 0 /\ Holds(t[idx], id))
  <2>1. new = t
    BY <1>1 DEF TableRemove
  <2> QED
    BY <2>1 DEF SameOrder
<1>2. CASE idx >= 0 /\ Holds(t[idx], id)
  <2> DEFINE bucket == RemoveAt(t[idx], EntryOf(t[idx], id))
  <2>1. idx \in BucketNums
    <3>1. CASE id = Self
      <4>1. idx = -1
        BY <3>1 DEF bucketIndex, XOR
      <4> QED
        BY <1>2, <4>1
    <3>2. CASE id # Self
      BY <3>2, BucketIndexFirstDifference, TableAssumption DEF BucketNums
    <3> QED
      BY <3>1, <3>2
  <2>2. new = [t EXCEPT ![idx] = bucket]
    BY <1>2 DEF TableRemove
  <2> HIDE DEF new
  <2>3. /\ GoodBucket(idx, bucket) /\ SameOrder(t[idx], bucket)
        /\ \A j \in DOMAIN t[idx] :
             t[idx][j].id # id => \E k \in DOMAIN bucket : bucket[k] = t[idx][j]
    BY <1>2, <2>1, RemovedBucket DEF GoodTable
  <2> HIDE DEF bucket, idx
  <2>4. bucket \in Seq(Contacts)
    BY <2>3 DEF GoodBucket
  <2>5. /\ new \in Tables
        /\ new[idx] = bucket
        /\ \A i \in BucketNums : i # idx => new[i] = t[i]
    BY <2>1, <2>2, <2>4 DEF GoodTable, Tables
  <2>6. GoodTable(new)
    BY <2>3, <2>5 DEF GoodTable
  <2>7. \A i \in BucketNums : SameOrder(t[i], new[i])
    BY <2>3, <2>5 DEF SameOrder
  <2>8. ASSUME NEW other \in Known(t) \ {id} PROVE other \in Known(new)
    <3>1. PICK i \in BucketNums : Holds(t[i], other)
      BY <2>8, KnownMeans
    <3>2. Holds(new[i], other)
      BY <2>3, <2>5, <2>8, <3>1 DEF Holds
    <3> QED
      BY <3>2, KnownMeans
  <2> QED
    BY <2>6, <2>7, <2>8 DEF new
<1> QED
  BY <1>1, <1>2

-----------------------------------------------------------------------------
\* The entries of a bucket are finitely many, and so are those of a table.
LEMMA EntriesFinite ==
    ASSUME NEW t, GoodTable(t)
    PROVE  IsFiniteSet(Entries(t)) /\ TableSize(t) \in Nat
<1> DEFINE ranges == [i \in BucketNums |-> Range(t[i])]
           slots == [i \in BucketNums |-> {i} \X DOMAIN t[i]]
<1>1. IsFiniteSet(BucketNums)
  BY NumBitsAssumption, FS_Interval DEF BucketNums
<1>2. \A i \in BucketNums : t[i] \in Seq(Contacts)
  BY DEF GoodTable, Tables
<1>3. ASSUME NEW i \in BucketNums
      PROVE  IsFiniteSet(DOMAIN t[i]) /\ IsFiniteSet(Range(t[i]))
  <2>1. DOMAIN t[i] = 1..Len(t[i]) /\ Len(t[i]) \in Nat
    BY <1>2
  <2>2. IsFiniteSet(DOMAIN t[i])
    <3>1. \A n \in Nat : IsFiniteSet(1..n)
      BY FS_Interval
    <3> QED
      BY <2>1, <3>1
  <2>3. t[i] \in Surjection(DOMAIN t[i], Range(t[i]))
    <3>1. t[i] \in [DOMAIN t[i] -> Contacts]
      BY <1>2
    <3> QED
      BY <3>1 DEF Surjection, Range
  <2> QED
    BY <2>2, <2>3, FS_Surjection
<1>4. IsFiniteSet(Entries(t))
  <2>1. ranges \in Surjection(BucketNums, {Range(t[i]) : i \in BucketNums})
    BY DEF Surjection
  <2>2. IsFiniteSet({Range(t[i]) : i \in BucketNums})
    BY <1>1, <2>1, FS_Surjection
  <2> QED
    BY <1>3, <2>2, FS_UNION DEF Entries
<1>5. IsFiniteSet(UNION {{i} \X DOMAIN t[i] : i \in BucketNums})
  <2>1. slots \in Surjection(BucketNums, {{i} \X DOMAIN t[i] : i \in BucketNums})
    BY DEF Surjection
  <2>2. IsFiniteSet({{i} \X DOMAIN t[i] : i \in BucketNums})
    BY <1>1, <2>1, FS_Surjection
  <2>3. ASSUME NEW i \in BucketNums PROVE IsFiniteSet({i} \X DOMAIN t[i])
    BY <1>3, FS_Singleton, FS_Product
  <2> QED
    BY <2>2, <2>3, FS_UNION
<1> QED
  BY <1>4, <1>5, FS_CardinalityType DEF TableSize

\* The entries of a table that satisfies the invariant are contacts of
\* different nodes, and each is in the bucket its identifier belongs to.
LEMMA EntriesFacts ==
    ASSUME NEW t, GoodTable(t)
    PROVE  /\ Entries(t) \in SUBSET Contacts
           /\ OnePerNode(Entries(t))
           /\ \A c \in Entries(t) : /\ c.id # Self
                                    /\ bucketIndex(Self, c.id) \in BucketNums
                                    /\ c \in Range(t[bucketIndex(Self, c.id)])
           /\ \A i \in BucketNums : Range(t[i]) \subseteq Entries(t)
<1>1. \A i \in BucketNums : GoodBucket(i, t[i])
  BY DEF GoodTable
<1>2. ASSUME NEW c \in Entries(t)
      PROVE  /\ c \in Contacts /\ c.id # Self
             /\ bucketIndex(Self, c.id) \in BucketNums
             /\ c \in Range(t[bucketIndex(Self, c.id)])
  <2>1. PICK i \in BucketNums : c \in Range(t[i])
    BY DEF Entries
  <2>2. PICK j \in DOMAIN t[i] : c = t[i][j]
    BY <2>1 DEF Range
  <2>3. c \in Contacts /\ c.id # Self /\ bucketIndex(Self, c.id) = i
    BY <1>1, <2>2 DEF GoodBucket
  <2> QED
    BY <2>1, <2>3
<1>3. ASSUME NEW c \in Entries(t), NEW d \in Entries(t), c.id = d.id
      PROVE  c = d
  <2> DEFINE i == bucketIndex(Self, c.id)
  <2>1. i \in BucketNums /\ c \in Range(t[i]) /\ d \in Range(t[i])
    BY <1>2, <1>3
  <2> HIDE DEF i
  <2>2. PICK j, k \in DOMAIN t[i] : c = t[i][j] /\ d = t[i][k]
    BY <2>1 DEF Range
  <2> QED
    BY <1>1, <1>3, <2>1, <2>2 DEF GoodBucket
<1>4. \A i \in BucketNums : Range(t[i]) \subseteq Entries(t)
  BY DEF Entries
<1> QED
  BY <1>2, <1>3, <1>4 DEF OnePerNode

\* What a Closest answer is: known contacts, no two of one node, nearest first,
\* nobody left out who is nearer than somebody in it, and as many as asked for
\* or everybody.
THEOREM ClosestFacts ==
    ASSUME NEW t, GoodTable(t), NEW target \in NodeIDs, NEW count \in Nat
    PROVE  LET answer == TableClosest(t, target, count)
               size   == Cardinality(Entries(t))
           IN  /\ answer \in Seq(Entries(t))
               /\ Ascending(answer, target)
               /\ \A c \in Entries(t), d \in Range(answer) :
                    Less(c.id, d.id, target) => c \in Range(answer)
               /\ Len(answer) = IF count > size THEN size ELSE count
<1> DEFINE sorted == SortByDistance(Entries(t), target)
<1>1. /\ Entries(t) \in SUBSET Contacts /\ OnePerNode(Entries(t))
      /\ IsFiniteSet(Entries(t))
  BY EntriesFacts, EntriesFinite
<1>2. /\ sorted \in Seq(Entries(t)) /\ Range(sorted) = Entries(t)
      /\ Ascending(sorted, target) /\ Len(sorted) = Cardinality(Entries(t))
  BY <1>1, SortFacts
<1> HIDE DEF sorted
<1>3. TableClosest(t, target, count) = FirstOf(sorted, count)
  BY DEF TableClosest, sorted
<1> QED
  BY <1>1, <1>2, <1>3, FirstOfFacts, FirstOfAscending

\* Add brings in nobody but the contact it is called with.
LEMMA AddBringsOne ==
    ASSUME NEW t, GoodTable(t), NEW c \in Contacts
    PROVE  Entries(TableAdd(t, c)) \subseteq Entries(t) \cup {c}
<1> DEFINE idx == bucketIndex(Self, c.id)
<1>1. CASE c.id = Self \/ idx < 0
  BY <1>1 DEF TableAdd
<1>2. CASE ~(c.id = Self \/ idx < 0)
  <2>1. idx \in BucketNums
    BY <1>2, BucketIndexFirstDifference, TableAssumption DEF Contacts, BucketNums
  <2>2. TableAdd(t, c) = [t EXCEPT ![idx] = Refreshed(t[idx], c)]
    BY <1>2 DEF TableAdd
  <2> HIDE DEF idx
  <2>3. Range(Refreshed(t[idx], c)) \subseteq Range(t[idx]) \cup {c}
    <3>1. GoodBucket(idx, t[idx]) /\ t[idx] \in Seq(Contacts)
      BY <2>1 DEF GoodTable, GoodBucket
    <3>2. \A s \in Seq(Contacts) : Range(Append(s, c)) \subseteq Range(s) \cup {c}
      BY DEF Range
    <3>3. ASSUME Holds(t[idx], c.id)
          PROVE  LET mid == RemoveAt(t[idx], EntryOf(t[idx], c.id))
                 IN  mid \in Seq(Contacts) /\ Range(mid) \subseteq Range(t[idx])
      <4>1. EntryOf(t[idx], c.id) \in DOMAIN t[idx]
        BY <3>1, <3>3, EntryOfFacts
      <4> QED
        BY <3>1, <4>1, RemovedAreThere
    <3> QED
      BY <3>1, <3>2, <3>3 DEF Refreshed
  <2>4. \A i \in BucketNums : Range(TableAdd(t, c)[i]) \subseteq Range(t[i]) \cup {c}
    BY <2>1, <2>2, <2>3 DEF GoodTable, Tables
  <2> QED
    BY <2>4 DEF Entries
<1> QED
  BY <1>1, <1>2

\* Remove brings in nobody.
LEMMA RemoveBringsNone ==
    ASSUME NEW t, GoodTable(t), NEW id \in NodeIDs
    PROVE  Entries(TableRemove(t, id)) \subseteq Entries(t)
<1> DEFINE idx == bucketIndex(Self, id)
<1>1. CASE ~(idx >= 0 /\ Holds(t[idx], id))
  BY <1>1 DEF TableRemove
<1>2. CASE idx >= 0 /\ Holds(t[idx], id)
  <2>1. idx \in BucketNums
    <3>1. CASE id = Self
      <4>1. idx = -1
        BY <3>1 DEF bucketIndex, XOR
      <4> QED
        BY <1>2, <4>1
    <3>2. CASE id # Self
      BY <3>2, BucketIndexFirstDifference, TableAssumption DEF BucketNums
    <3> QED
      BY <3>1, <3>2
  <2>2. TableRemove(t, id) = [t EXCEPT ![idx] = RemoveAt(t[idx], EntryOf(t[idx], id))]
    BY <1>2 DEF TableRemove
  <2>3. Holds(t[idx], id)
    BY <1>2
  <2> HIDE DEF idx
  <2>4. GoodBucket(idx, t[idx]) /\ t[idx] \in Seq(Contacts)
    BY <2>1 DEF GoodTable, GoodBucket
  <2>5. EntryOf(t[idx], id) \in DOMAIN t[idx]
    BY <2>3, <2>4, EntryOfFacts
  <2>6. Range(RemoveAt(t[idx], EntryOf(t[idx], id))) \subseteq Range(t[idx])
    BY <2>4, <2>5, RemovedAreThere
  <2>7. \A i \in BucketNums : Range(TableRemove(t, id)[i]) \subseteq Range(t[i])
    BY <2>1, <2>2, <2>6 DEF GoodTable, Tables
  <2> QED
    BY <2>7 DEF Entries
<1> QED
  BY <1>1, <1>2

-----------------------------------------------------------------------------
\* The invariant is inductive together with the types: TableInv alone does not
\* say that the buckets are sequences of contacts.
LEMMA TableInvMeans == table \in Tables => (TableInv <=> GoodTable(table))
BY DEF Tables, TableInv, RightBucket, WithinCapacity, OneEntryPerNode, GoodTable,
       GoodBucket

LEMMA SendersAreContacts == Senders \subseteq Contacts
BY TableAssumption DEF Senders, Contacts

\* What a step does: it changes the table by the Add of a contact it hears of,
\* by the one Remove that ends a query, or not at all, and keeps the other
\* variables in range.
StepEffect ==
    /\ \/ table' = table /\ UNCHANGED history
       \/ \E c \in Senders : table' = TableAdd(table, c) /\ Hear(c)
       \/ /\ UNCHANGED history
          /\ \E c \in queries \ queries' : table' = TableRemove(table, c.id)
    /\ pings' \subseteq Addrs
    /\ queries' \subseteq [id : Peers, addr : Addrs]

LEMMA HistoryTypes ==
    ASSUME heard \subseteq [id : Peers, addr : Addrs],
           quietSince \in [Peers -> SUBSET Peers],
           NEW c \in Senders, Hear(c) \/ UNCHANGED history
    PROVE  /\ heard' \subseteq [id : Peers, addr : Addrs]
           /\ quietSince' \in [Peers -> SUBSET Peers]
<1>1. CASE UNCHANGED history
  BY <1>1 DEF history
<1>2. CASE c.id # Self /\ Hear(c)
  BY <1>2 DEF Hear, Senders
<1>3. CASE c.id = Self /\ Hear(c)
  BY <1>3 DEF Hear, history
<1> QED
  BY <1>1, <1>2, <1>3

LEMMA EveryStepEffect == TableTypeOK /\ [TableNext]_tableVars => StepEffect
<1> SUFFICES ASSUME TableTypeOK, [TableNext]_tableVars PROVE StepEffect
  OBVIOUS
<1> USE SendersAreContacts DEF TableTypeOK, StepEffect, history
<1>1. ASSUME NEW c \in Senders, HandlePing(c) PROVE StepEffect
  BY <1>1 DEF HandlePing
<1>2. ASSUME NEW c \in Senders, LookupNodeAdd(c) PROVE StepEffect
  BY <1>2 DEF LookupNodeAdd
<1>3. ASSUME NEW c \in Senders, QueryStart(c) PROVE StepEffect
  BY <1>3 DEF QueryStart, Senders
<1>4. ASSUME NEW c \in Senders, QueryAnswered(c) PROVE StepEffect
  BY <1>4 DEF QueryAnswered
<1>5. ASSUME NEW c \in Senders, QueryError(c) PROVE StepEffect
  BY <1>5 DEF QueryError
<1>6. ASSUME NEW a \in Addrs, PingPeerDial(a) PROVE StepEffect
  BY <1>6 DEF PingPeerDial
<1>7. ASSUME NEW a \in Addrs, PingPeerError(a) PROVE StepEffect
  BY <1>7 DEF PingPeerError
<1>8. ASSUME NEW a \in Addrs, NEW id \in Peers \cup {Self}, PingPeerPong(a, id)
      PROVE  StepEffect
  <2>1. [id |-> id, addr |-> a] \in Senders
    BY DEF Senders
  <2> QED
    BY <1>8, <2>1 DEF PingPeerPong
<1>9. CASE UNCHANGED tableVars
  BY <1>9 DEF tableVars, Entries
<1> QED
  BY <1>1, <1>2, <1>3, <1>4, <1>5, <1>6, <1>7, <1>8, <1>9 DEF TableNext

\* The effect of a step on a table that satisfies the invariant.
LEMMA StepKeeps ==
    TableTypeOK /\ TableInv /\ StepEffect =>
        /\ GoodTable(table')
        /\ \A id \in Known(table) \ Known(table') :
                \E c \in queries \ queries' : c.id = id
<1> SUFFICES ASSUME TableTypeOK, TableInv, StepEffect
             PROVE  /\ GoodTable(table')
                    /\ \A id \in Known(table) \ Known(table') :
                            \E c \in queries \ queries' : c.id = id
  OBVIOUS
<1>1. GoodTable(table)
  BY TableInvMeans DEF TableTypeOK
<1>2. CASE table' = table
  BY <1>1, <1>2
<1>3. ASSUME NEW c \in Senders, table' = TableAdd(table, c)
      PROVE  GoodTable(table') /\ Known(table) \subseteq Known(table')
  BY <1>1, <1>3, TableAddFacts, SendersAreContacts
<1>4. ASSUME NEW c \in queries \ queries', table' = TableRemove(table, c.id)
      PROVE  GoodTable(table') /\ Known(table) \ {c.id} \subseteq Known(table')
  <2>1. c.id \in NodeIDs
    BY TableAssumption DEF TableTypeOK
  <2> QED
    BY <1>1, <1>4, <2>1, TableRemoveFacts
<1> QED
  BY <1>2, <1>3, <1>4 DEF StepEffect

\* The order of a bucket after hearing of a node, the node's own place included.
LEMMA HearingKeepsOrder ==
    ASSUME TableTypeOK, GoodTable(table), OrderOfLastContact,
           NEW c \in Senders, table' = TableAdd(table, c), Hear(c)
    PROVE  OrderOfLastContact'
<1>1. /\ GoodTable(table')
      /\ \A i \in BucketNums : AfterHearing(table[i], table'[i], c)
  BY TableAddFacts, SendersAreContacts
<1>2. heard \subseteq [id : Peers, addr : Addrs] /\ quietSince \in [Peers -> SUBSET Peers]
  BY DEF TableTypeOK
<1>3. /\ \A d \in heard : d.id # c.id => d \in heard'
      /\ c.id # Self => c \in heard'
  BY DEF Hear, history
<1>4. /\ c.id # Self => quietSince'[c.id] = Peers \ {c.id}
      /\ \A p, q \in Peers :
            p # c.id /\ q # c.id /\ q \in quietSince[p] => q \in quietSince'[p]
  <2>1. CASE c.id = Self
    BY <2>1 DEF Hear, history
  <2>2. CASE c.id # Self
    BY <2>2 DEF Hear, Senders
  <2> QED
    BY <2>1, <2>2
<1> SUFFICES ASSUME NEW i \in BucketNums, NEW m \in DOMAIN table'[i]
             PROVE  /\ table'[i][m] \in heard'
                    /\ \A n \in DOMAIN table'[i] : m < n =>
                         table'[i][m].id \in quietSince'[table'[i][n].id]
  BY DEF OrderOfLastContact
<1> DEFINE old == table[i]
           new == table'[i]
<1>5. /\ \A j \in DOMAIN new : new[j].id # Self
      /\ \A j, k \in DOMAIN new : new[j].id = new[k].id => j = k
      /\ new \in Seq(Contacts)
  BY <1>1 DEF GoodTable, GoodBucket
<1>6. /\ \A j \in DOMAIN old : old[j] \in heard
      /\ \A j, k \in DOMAIN old : j < k => old[j].id \in quietSince[old[k].id]
  BY DEF OrderOfLastContact
<1>7. AfterHearing(old, new, c)
  BY <1>1
<1>8. \A j \in DOMAIN new : j \in Nat /\ j <= Len(new) /\ Len(new) \in Nat
  BY <1>5
<1>9. m \in DOMAIN new
  OBVIOUS
<1> HIDE DEF old, new
<1>10. \A j \in DOMAIN new : \/ j = Len(new) /\ new[j] = c
                             \/ new[j].id # c.id /\ new[j] \in heard
  BY <1>6, <1>7 DEF AfterHearing
<1>11. \A j \in DOMAIN new : new[j] \in heard'
  BY <1>3, <1>5, <1>10
<1>12. \A j \in DOMAIN new : new[j].id \in Peers
  BY <1>2, <1>5, <1>10 DEF Senders
<1>13. ASSUME NEW n \in DOMAIN new, m < n
       PROVE  new[m].id \in quietSince'[new[n].id]
  <2>1. m # n /\ m # Len(new)
    BY <1>8, <1>9, <1>13
  <2>2. new[m].id # c.id
    BY <1>9, <1>10, <2>1
  <2>3. CASE new[n].id = c.id
    BY <1>4, <1>5, <1>9, <1>12, <2>2, <2>3
  <2>4. CASE new[n].id # c.id
    <3>1. PICK j, k \in DOMAIN old : j < k /\ old[j] = new[m] /\ old[k] = new[n]
      BY <1>7, <1>9, <1>13, <2>4 DEF AfterHearing
    <3>2. new[m].id \in quietSince[new[n].id]
      BY <1>6, <3>1
    <3> QED
      BY <1>4, <1>9, <1>12, <2>2, <2>4, <3>2
  <2> QED
    BY <2>3, <2>4
<1> QED
  BY <1>9, <1>11, <1>13 DEF new

\* A failed query takes its node out and leaves the others as they were.
LEMMA RemovingKeepsOrder ==
    ASSUME TableTypeOK, GoodTable(table), OrderOfLastContact,
           NEW id \in NodeIDs, table' = TableRemove(table, id), UNCHANGED history
    PROVE  OrderOfLastContact'
<1>1. /\ \A i \in BucketNums : SameOrder(table[i], table'[i])
      /\ heard' = heard /\ quietSince' = quietSince
  BY TableRemoveFacts DEF history
<1> QED
  BY <1>1 DEF SameOrder, OrderOfLastContact

\* The table of a node never holds two entries for one node, an entry in a
\* bucket where Add and Remove would not look for it, an entry for the node
\* itself, or more than K entries in a bucket: whatever PINGs, PONGs, answers
\* and failures arrive, in whatever order.
THEOREM TableInvariant == TableSpec => [](TableTypeOK /\ TableInv)
<1>1. TableInit => TableTypeOK /\ TableInv
  <2> SUFFICES ASSUME TableInit PROVE TableTypeOK /\ TableInv
    OBVIOUS
  <2>1. \A i \in BucketNums : table[i] = <<>>
    BY DEF TableInit, EmptyTable
  <2>2. TableTypeOK
    BY DEF TableInit, EmptyTable, TableTypeOK, Tables
  <2>3. TableInv
    BY <2>1, TableAssumption
       DEF TableInv, RightBucket, WithinCapacity, OneEntryPerNode
  <2> QED
    BY <2>2, <2>3
<1>2. TableTypeOK /\ TableInv /\ [TableNext]_tableVars => (TableTypeOK /\ TableInv)'
  <2> SUFFICES ASSUME TableTypeOK, TableInv, [TableNext]_tableVars PROVE TableTypeOK' /\ TableInv'
    OBVIOUS
  <2>1. StepEffect
    BY EveryStepEffect
  <2>2. GoodTable(table')
    BY <2>1, StepKeeps
  <2>3. TableTypeOK'
    <3>1. heard' \subseteq [id : Peers, addr : Addrs] /\ quietSince' \in [Peers -> SUBSET Peers]
      <4>1. CASE UNCHANGED history
        BY <4>1 DEF history, TableTypeOK
      <4>2. ASSUME NEW c \in Senders, Hear(c)
            PROVE  /\ heard' \subseteq [id : Peers, addr : Addrs]
                   /\ quietSince' \in [Peers -> SUBSET Peers]
        BY <4>2, HistoryTypes DEF TableTypeOK
      <4> QED
        BY <2>1, <4>1, <4>2 DEF StepEffect
    <3> QED
      BY <2>1, <2>2, <3>1 DEF TableTypeOK, StepEffect, GoodTable
  <2>4. TableInv'
    BY <2>2 DEF GoodTable, GoodBucket, Tables, TableInv, RightBucket,
                WithinCapacity, OneEntryPerNode
  <2> QED
    BY <2>3, <2>4
<1> QED
  BY <1>1, <1>2, PTL DEF TableSpec

\* Entries are in the bucket of their identifier, where Add and Remove look for
\* them.
THEOREM EntriesInTheirBucket == TableSpec => []RightBucket
BY TableInvariant, PTL DEF TableInv

\* No bucket outgrows its capacity.
THEOREM BucketsWithinCapacity == TableSpec => []WithinCapacity
BY TableInvariant, PTL DEF TableInv

\* A node has one entry, under whatever addresses it was heard of.
THEOREM EntriesAreUnique == TableSpec => []OneEntryPerNode
BY TableInvariant, PTL DEF TableInv

\* A node leaves the table only when a query LookupValue sent it fails; Add
\* never drops anyone, even when a bucket is full.
THEOREM NeverDroppedByAdd == TableSpec => LeavesOnFailedQuery
<1>1. TableTypeOK /\ TableInv /\ [TableNext]_tableVars =>
        [\A id \in Known(table) \ Known(table') :
            \E c \in queries \ queries' : c.id = id]_tableVars
  BY EveryStepEffect, StepKeeps
<1> QED
  BY <1>1, TableInvariant, PTL DEF TableSpec, LeavesOnFailedQuery

\* Buckets stay in the order of last contact, and the addresses are those of
\* the last contact, whichever of PING, PONG, answers and failures come when.
THEOREM BucketsKeepOrder == TableSpec => []OrderOfLastContact
<1>1. TableInit => OrderOfLastContact
  BY DEF TableInit, EmptyTable, OrderOfLastContact
<1>2. TableTypeOK /\ TableInv /\ OrderOfLastContact /\ [TableNext]_tableVars
        => OrderOfLastContact'
  <2> SUFFICES ASSUME TableTypeOK, TableInv, OrderOfLastContact, StepEffect
               PROVE  OrderOfLastContact'
    BY EveryStepEffect
  <2>1. GoodTable(table)
    BY TableInvMeans DEF TableTypeOK
  <2>2. CASE table' = table /\ UNCHANGED history
    BY <2>2 DEF history, OrderOfLastContact
  <2>3. ASSUME NEW c \in Senders, table' = TableAdd(table, c), Hear(c)
        PROVE  OrderOfLastContact'
    BY <2>1, <2>3, HearingKeepsOrder
  <2>4. ASSUME NEW c \in queries, table' = TableRemove(table, c.id), UNCHANGED history
        PROVE  OrderOfLastContact'
    <3>1. c.id \in NodeIDs
      BY TableAssumption DEF TableTypeOK
    <3> QED
      BY <2>1, <2>4, <3>1, RemovingKeepsOrder
  <2> QED
    BY <2>2, <2>3, <2>4 DEF StepEffect
<1> QED
  BY <1>1, <1>2, TableInvariant, PTL DEF TableSpec

\* What the lookups assume of the table they start from (LookupAssumption, in
\* LookupState) is so: it has entries for other nodes only, each in its bucket,
\* no two for one node, whatever messages claim.
THEOREM TablesFitLookups == TableSpec => [](GoodTable(table) /\ Known(table) \subseteq Peers)
<1> DEFINE OnlySenders == Entries(table) \subseteq Senders
<1>1. TableInit => OnlySenders
  <2> SUFFICES ASSUME TableInit PROVE OnlySenders
    OBVIOUS
  <2>1. \A i \in BucketNums : Range(table[i]) = {}
    BY DEF TableInit, EmptyTable, Range
  <2> QED
    BY <2>1 DEF Entries
<1>2. TableTypeOK /\ TableInv /\ OnlySenders /\ [TableNext]_tableVars => OnlySenders'
  <2> SUFFICES ASSUME TableTypeOK, TableInv, OnlySenders, StepEffect PROVE OnlySenders'
    BY EveryStepEffect
  <2>1. GoodTable(table)
    BY TableInvMeans DEF TableTypeOK
  <2>2. CASE table' = table
    BY <2>2 DEF Entries
  <2>3. ASSUME NEW c \in Senders, table' = TableAdd(table, c) PROVE OnlySenders'
    <3>1. Entries(table') \subseteq Entries(table) \cup {c}
      BY <2>1, <2>3, AddBringsOne, SendersAreContacts
    <3> QED
      BY <3>1
  <2>4. ASSUME NEW c \in queries, table' = TableRemove(table, c.id) PROVE OnlySenders'
    <3>1. c.id \in NodeIDs
      BY TableAssumption DEF TableTypeOK
    <3>2. Entries(table') \subseteq Entries(table)
      BY <2>1, <2>4, <3>1, RemoveBringsNone
    <3> QED
      BY <3>2
  <2> QED
    BY <2>2, <2>3, <2>4 DEF StepEffect
<1>3. TableTypeOK /\ TableInv /\ OnlySenders => GoodTable(table) /\ Known(table) \subseteq Peers
  <2> SUFFICES ASSUME TableTypeOK, TableInv, OnlySenders
               PROVE  GoodTable(table) /\ Known(table) \subseteq Peers
    OBVIOUS
  <2>1. GoodTable(table)
    BY TableInvMeans DEF TableTypeOK
  <2> QED
    BY <2>1, EntriesFacts DEF Known, Senders
<1> HIDE DEF OnlySenders
<1> QED
  BY <1>1, <1>2, <1>3, TableInvariant, PTL DEF TableSpec

\* The answers to FIND_NODE and the seeds of lookups: from any target, the nodes
\* of the target's bucket come before all others, and from the node itself the
\* nodes of a higher bucket before those of a lower one.
THEOREM NearBucketsComeFirst == TableSpec => []NearBucketsFirst
<1>1. TableTypeOK /\ TableInv => NearBucketsFirst
  <2> SUFFICES ASSUME TableTypeOK, TableInv PROVE NearBucketsFirst
    OBVIOUS
  <2>1. GoodTable(table) /\ Self \in NodeIDs /\ K \in Nat
    BY TableInvMeans, TableAssumption DEF TableTypeOK
  <2>2. ASSUME NEW t \in NodeIDs \ {Self},
               NEW c \in Range(table[bucketIndex(Self, t)]),
               NEW d \in Range(TableClosest(table, t, K)),
               d \notin Range(table[bucketIndex(Self, t)])
        PROVE  c \in Range(TableClosest(table, t, K))
    <3> DEFINE i == bucketIndex(Self, t)
               best == TableClosest(table, t, K)
    <3>1. i \in BucketNums
      BY <2>1, BucketIndexFirstDifference DEF BucketNums
    <3>2. /\ best \in Seq(Entries(table))
          /\ \A x \in Entries(table), y \in Range(best) :
                Less(x.id, y.id, t) => x \in Range(best)
      BY <2>1, ClosestFacts
    <3> HIDE DEF best
    <3>3. c \in Entries(table) /\ d \in Entries(table)
      BY <2>1, <2>2, <3>1, <3>2, EntriesFacts DEF best, Range
    <3>4. PICK j \in DOMAIN table[i] : c = table[i][j]
      BY DEF Range
    <3>5. bucketIndex(Self, c.id) = i
      BY <2>1, <3>1, <3>4 DEF GoodTable, GoodBucket
    <3>6. d \in Range(table[bucketIndex(Self, d.id)])
      BY <2>1, <3>3, EntriesFacts
    <3>7. bucketIndex(Self, d.id) # i
      BY <2>2, <3>6
    <3>8. c.id \in NodeIDs /\ d.id \in NodeIDs /\ c.id # Self /\ d.id # Self
      BY <2>1, <3>3, EntriesFacts DEF Contacts
    <3>9. Less(c.id, d.id, t)
      BY <2>1, <3>5, <3>7, <3>8, SameBucketCloser
    <3> QED
      BY <3>2, <3>3, <3>9 DEF best
  <2>3. ASSUME NEW i \in DOMAIN TableClosest(table, Self, TableSize(table)),
               NEW j \in DOMAIN TableClosest(table, Self, TableSize(table)), i < j
        PROVE  bucketIndex(Self, TableClosest(table, Self, TableSize(table))[i].id)
                >= bucketIndex(Self, TableClosest(table, Self, TableSize(table))[j].id)
    <3> DEFINE list == TableClosest(table, Self, TableSize(table))
               c == list[i]
               d == list[j]
    <3>1. list \in Seq(Entries(table)) /\ Ascending(list, Self)
      BY <2>1, EntriesFinite, ClosestFacts
    <3>2. i \in DOMAIN list /\ j \in DOMAIN list
      OBVIOUS
    <3> HIDE DEF list
    <3>3. c \in Entries(table) /\ d \in Entries(table) /\ Less(c.id, d.id, Self)
      BY <2>3, <3>1, <3>2 DEF Ascending
    <3> HIDE DEF c, d
    <3>4. /\ c.id \in NodeIDs \ {Self} /\ d.id \in NodeIDs \ {Self}
          /\ bucketIndex(Self, c.id) \in Int /\ bucketIndex(Self, d.id) \in Int
      BY <2>1, <3>3, EntriesFacts DEF Contacts, BucketNums
    <3>5. ~Less(d.id, c.id, Self)
      BY <2>1, <3>3, <3>4, LessIrreflexive, LessTransitive
    <3>6. ~(bucketIndex(Self, c.id) < bucketIndex(Self, d.id))
      BY <2>1, <3>4, <3>5, HigherBucketCloser
    <3>7. bucketIndex(Self, c.id) >= bucketIndex(Self, d.id)
      BY <3>4, <3>6
    <3> QED
      BY <3>7 DEF c, d, list
  <2> QED
    BY <2>2, <2>3 DEF NearBucketsFirst
<1> QED
  BY <1>1, TableInvariant, PTL
=============================================================================
