------------------------------ MODULE NodeTable ------------------------------
(***************************************************************************)
(* One node's routing table under everything that changes it: the server's *)
(* PING handler, PingPeer (called by the start sequence, by the API and by *)
(* LoadPeers), the answers LookupNode feeds into it, and the failed        *)
(* FIND_VALUE queries LookupValue removes from it.                         *)
(*                                                                         *)
(* A call to another node is two steps, its start and its end, because the *)
(* code holds no lock while it waits; any other step can come in between.  *)
(***************************************************************************)
EXTENDS RoutingTable

CONSTANT MaxCalls   \* bound on the calls in flight at once

ASSUME CallsAssumption == MaxCalls \in Nat

VARIABLES
    pings,      \* addresses PingPeer has dialed and not heard from yet
    queries,    \* contacts LookupValue has sent FIND_VALUE and waits for
    \* History, for the property OrderOfLastContact; no step depends on it:
    heard,      \* the latest contact of every node heard of
    quietSince  \* the nodes not heard of since a node was

tableVars == <<table, pings, queries, heard, quietSince>>
history == <<heard, quietSince>>

\* Every identifier a message can carry, this node's own included: it may dial
\* itself, and other nodes list it in their answers.
Senders == [id : Peers \cup {Self}, addr : Addrs]

Calls == Cardinality(pings) + Cardinality(queries)

TableInit ==
    /\ table = EmptyTable
    /\ pings = {}
    /\ queries = {}
    /\ heard = {}
    /\ quietSince = [p \in Peers |-> {}]

\* This node hears of c: Add is called with it, whatever Add then does.
Hear(c) ==
    IF c.id = Self THEN UNCHANGED history
    ELSE /\ heard' = {d \in heard : d.id # c.id} \cup {c}
         /\ quietSince' = [p \in Peers |->
                IF p = c.id THEN Peers \ {p} ELSE quietSince[p] \ {c.id}]

\* The server side: handlePing adds the sender under the address it reports.
HandlePing(c) ==
    /\ table' = TableAdd(table, c)
    /\ Hear(c)
    /\ UNCHANGED <<pings, queries>>

PingPeerDial(a) ==
    /\ Calls < MaxCalls
    /\ a \notin pings
    /\ pings' = pings \cup {a}
    /\ UNCHANGED <<table, queries, heard, quietSince>>

\* The pong names the node that answers at a; the entry gets the dialed address.
PingPeerPong(a, id) ==
    /\ a \in pings
    /\ pings' = pings \ {a}
    /\ table' = TableAdd(table, [id |-> id, addr |-> a])
    /\ Hear([id |-> id, addr |-> a])
    /\ UNCHANGED queries

PingPeerError(a) ==
    /\ a \in pings
    /\ pings' = pings \ {a}
    /\ UNCHANGED <<table, queries, heard, quietSince>>

\* LookupNode adds each contact of each answer to the table.
LookupNodeAdd(c) ==
    /\ table' = TableAdd(table, c)
    /\ Hear(c)
    /\ UNCHANGED <<pings, queries>>

\* A goroutine of LookupValue starts a query.  Its contact is a copy made some
\* time ago: from the table, or from another node's answer, where addCandidates
\* skips this node itself.  In the variant it does not.
QueryStart_SelfToo(c) ==
    /\ Calls < MaxCalls
    /\ c \notin queries
    /\ queries' = queries \cup {c}
    /\ UNCHANGED <<table, pings, heard, quietSince>>

QueryStart(c) ==
    /\ Calls < MaxCalls
    /\ c.id # Self
    /\ c \notin queries
    /\ queries' = queries \cup {c}
    /\ UNCHANGED <<table, pings, heard, quietSince>>

QueryAnswered(c) ==
    /\ c \in queries
    /\ queries' = queries \ {c}
    /\ UNCHANGED <<table, pings, heard, quietSince>>

\* Any error (refused, timed out, undecodable) removes the node by identifier,
\* whatever address the table has for it by now.
QueryError(c) ==
    /\ c \in queries
    /\ queries' = queries \ {c}
    /\ table' = TableRemove(table, c.id)
    /\ UNCHANGED <<pings, heard, quietSince>>

TableNext ==
    \/ \E c \in Senders :
        \/ HandlePing(c)
        \/ LookupNodeAdd(c)
        \/ QueryStart(c)
        \/ QueryAnswered(c)
        \/ QueryError(c)
    \/ \E a \in Addrs :
        \/ PingPeerDial(a)
        \/ PingPeerError(a)
        \/ \E id \in Peers \cup {Self} : PingPeerPong(a, id)

TableSpec == TableInit /\ [][TableNext]_tableVars

-----------------------------------------------------------------------------
\* The shape of the state; queries are never addressed to this node.
TableTypeOK ==
    /\ table \in Tables
    /\ pings \subseteq Addrs
    /\ queries \subseteq [id : Peers, addr : Addrs]
    /\ heard \subseteq [id : Peers, addr : Addrs]
    /\ quietSince \in [Peers -> SUBSET Peers]

\* An entry is in the bucket its identifier belongs to (so the lookups by
\* bucket in Add and Remove find it), never for this node itself.
RightBucket ==
    \A i \in BucketNums : \A j \in DOMAIN table[i] :
        /\ table[i][j].id # Self
        /\ bucketIndex(Self, table[i][j].id) = i

\* No bucket holds more than K entries.
WithinCapacity == \A i \in BucketNums : Len(table[i]) <= K

\* A node has at most one entry, however often and under however many
\* addresses it was heard of.
OneEntryPerNode ==
    \A i \in BucketNums : \A j, k \in DOMAIN table[i] :
        table[i][j].id = table[i][k].id => j = k

TableInv == RightBucket /\ WithinCapacity /\ OneEntryPerNode

\* What makes the buckets useful to the XOR metric: from any target, the nodes
\* in the target's own bucket come before all others in a Closest answer, and
\* for the node itself a higher bucket comes before a lower one.  It relates
\* bucketIndex, Less, Add and the sort of Closest.
NearBucketsFirst ==
    /\ \A t \in NodeIDs \ {Self} :
        LET best == TableClosest(table, t, K)
            own  == table[bucketIndex(Self, t)]
        IN  \A c \in Range(own), d \in Range(best) :
                d \notin Range(own) => c \in Range(best)
    /\ LET byDistance == TableClosest(table, Self, TableSize(table))
       IN  \A i, j \in DOMAIN byDistance :
            i < j => bucketIndex(Self, byDistance[i].id)
                        >= bucketIndex(Self, byDistance[j].id)

\* A node leaves the table only when a FIND_VALUE query to it fails: a full
\* bucket, a new address or another node's answer never drops it.
LeavesOnFailedQuery ==
    [][\A id \in Known(table) \ Known(table') :
            \E c \in queries \ queries' : c.id = id]_tableVars

\* A bucket lists its nodes in the order in which they were last heard of, the
\* one heard of longest ago first, and each under the address of that contact:
\* a node heard of again goes to the tail, also when nothing about it changed,
\* and no other step disturbs the order.
OrderOfLastContact ==
    \A i \in BucketNums : \A j \in DOMAIN table[i] :
        /\ table[i][j] \in heard
        /\ \A k \in DOMAIN table[i] :
            j < k => table[i][j].id \in quietSince[table[i][k].id]
=============================================================================
