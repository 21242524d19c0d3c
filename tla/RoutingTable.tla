---------------------------- MODULE RoutingTable ----------------------------
(***************************************************************************)
(* The routing table of dht/routing.go as a value, and its operations as   *)
(* operators on that value.  Every method of the source holds rt.mu for    *)
(* its whole body, so an operation is one step of whoever calls it.        *)
(*                                                                         *)
(* A table maps a bucket index to the sequence of contacts of the bucket,  *)
(* the contact heard of most recently last.                                *)
(***************************************************************************)
EXTENDS NodeID, SequencesExt

CONSTANTS
    Self,       \* rt.self
    Peers,      \* the identifiers of the other nodes
    Addrs,      \* the network addresses of contacts (IP and port together)
    K           \* capacity of a bucket, and size of a Closest answer (20)

ASSUME TableAssumption ==
    /\ Self \in NodeIDs
    /\ K \in Nat \ {0}
    /\ Peers \subseteq NodeIDs \ {Self}

\* The table of this node, shared by everything that works on it.
VARIABLE table      \* d.table.buckets

Contacts == [id : NodeIDs, addr : Addrs]

BucketNums == 0..(NumBits - 1)

Tables == [BucketNums -> Seq(Contacts)]

EmptyTable == [i \in BucketNums |-> <<>>]

Holds(bucket, id) == \E i \in DOMAIN bucket : bucket[i].id = id

\* The first entry for id, the one the loops of Add and Remove stop at.
EntryOf(bucket, id) ==
    CHOOSE i \in DOMAIN bucket :
        /\ bucket[i].id = id
        /\ \A j \in 1..(i - 1) : bucket[j].id # id

\* A bucket after hearing of contact c: a known node is moved to the tail with
\* its new address, a new one is appended while there is room, and dropped when
\* the bucket is full.
\* The first three definitions are faulty variants: the loop over the existing
\* entries forgotten; the oldest entry evicted; a known node moved only when its
\* address is new.
Refreshed_NoScan(bucket, c) ==
    IF Len(bucket) < K THEN Append(bucket, c) ELSE bucket

Refreshed_Evict(bucket, c) ==
    IF Holds(bucket, c.id)
    THEN Append(RemoveAt(bucket, EntryOf(bucket, c.id)), c)
    ELSE Append(IF Len(bucket) < K THEN bucket ELSE Tail(bucket), c)

Refreshed_Unchanged(bucket, c) ==
    IF Holds(bucket, c.id)
    THEN IF c \in Range(bucket) THEN bucket
         ELSE Append(RemoveAt(bucket, EntryOf(bucket, c.id)), c)
    ELSE IF Len(bucket) < K THEN Append(bucket, c) ELSE bucket

Refreshed(bucket, c) ==
    IF Holds(bucket, c.id)
    THEN Append(RemoveAt(bucket, EntryOf(bucket, c.id)), c)
    ELSE IF Len(bucket) < K THEN Append(bucket, c) ELSE bucket

\* Add.  In the variant a node its own bucket has no room for goes to the next.
TableAdd_NextBucket(t, c) ==
    LET idx  == bucketIndex(Self, c.id)
        full == Len(t[idx]) = K /\ ~Holds(t[idx], c.id) /\ idx + 1 \in BucketNums
        home == IF full THEN idx + 1 ELSE idx
    IN  IF c.id = Self \/ idx < 0 THEN t ELSE [t EXCEPT ![home] = Refreshed(@, c)]

TableAdd(t, c) ==
    LET idx == bucketIndex(Self, c.id) IN
    IF c.id = Self \/ idx < 0 THEN t ELSE [t EXCEPT ![idx] = Refreshed(@, c)]

TableRemove(t, id) ==
    LET idx == bucketIndex(Self, id) IN
    IF idx >= 0 /\ Holds(t[idx], id)
    THEN [t EXCEPT ![idx] = RemoveAt(@, EntryOf(@, id))]
    ELSE t

\* Everything in the table.  The buckets are put one after the other; what is
\* made of that (sorting it, counting it, saving it) does not depend on the order.
Entries(t) == UNION {Range(t[i]) : i \in BucketNums}

TableSize(t) == Cardinality(UNION {{i} \X DOMAIN t[i] : i \in BucketNums})

\* The entries of different nodes, sorted by distance to target as sort.Slice
\* and the insertion sort of addCandidates leave them: each at the place given
\* by how many are nearer.
SortByDistance(contacts, target) ==
    LET nearer == [c \in contacts |->
                    Cardinality({d \in contacts : Less(d.id, c.id, target)})]
    IN  [i \in 1..Cardinality(contacts) |->
            CHOOSE c \in contacts : nearer[c] = i - 1]

FirstOf(contacts, count) ==
    SubSeq(contacts, 1, IF count > Len(contacts) THEN Len(contacts) ELSE count)

\* The count known contacts nearest to target, nearest first.
TableClosest(t, target, count) ==
    FirstOf(SortByDistance(Entries(t), target), count)

-----------------------------------------------------------------------------
\* What the tables of a running node are like, for stating properties.
Known(t) == {c.id : c \in Entries(t)}

\* One bucket: of at most K entries, all of its range, no two for one node.
GoodBucket(i, bucket) ==
    /\ bucket \in Seq(Contacts)
    /\ Len(bucket) <= K
    /\ \A j \in DOMAIN bucket :
        bucket[j].id # Self /\ bucketIndex(Self, bucket[j].id) = i
    /\ \A j, k \in DOMAIN bucket : bucket[j].id = bucket[k].id => j = k

GoodTable(t) == t \in Tables /\ \A i \in BucketNums : GoodBucket(i, t[i])
=============================================================================
