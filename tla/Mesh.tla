-------------------------------- MODULE Mesh --------------------------------
(***************************************************************************)
(* A mesh of nodes: pings fill the routing tables, the owner of a name     *)
(* announces its record over what its lookup finds, and other nodes look   *)
(* the name up, while nodes stop and start.  It composes what RoutingTable,*)
(* LookupNode, LookupValue, RecordStore and PeersFile say of one node each:*)
(* a table is here the set of the nodes in it, a lookup asks every node it *)
(* hears of, the closest first, and a store has a record of the name or not*)
(***************************************************************************)
EXTENDS NodeID, FiniteSets

CONSTANTS
    Nodes,
    ID,             \* the identifier of each
    Owner,          \* the node that announces
    Searchers,      \* the nodes that look the name up
    Target,         \* the identifier of the name
    Alpha,          \* how many of the closest a lookup asks at a time
    K,              \* size of a bucket, of an answer and of an announcement
    MaxPings,       \* bound on the pings that change a table
    MaxFailures     \* bound on crashes, on copies that expire and on calls to a
                    \* running node that get no answer

ASSUME MeshAssumption ==
    /\ IsFiniteSet(Nodes) /\ ID \in [Nodes -> NodeIDs]
    /\ \A n, m \in Nodes : ID[n] = ID[m] => n = m
    /\ Owner \in Nodes /\ Searchers \subseteq Nodes \ {Owner}
    /\ Target \in NodeIDs
    /\ Alpha \in Nat \ {0} /\ K \in Nat \ {0} /\ MaxPings \in Nat /\ MaxFailures \in Nat

VARIABLES
    up,         \* the nodes that run
    known,      \* the nodes in the routing table of each node
    holds,      \* the nodes whose store has the record
    valid,      \* is the record of the owner's present life not yet expired?
    job,        \* the Announce or LookupValue each node is in
    late,       \* whom it is still asking for a lookup that has returned
    pings, failures,
    served      \* history: the nodes an undisturbed announcement was to reach

vars == <<up, known, holds, valid, job, late, pings, failures, served>>

\* closest: the nodes heard of, of which asked were contacted, or to which the
\* record is still to be sent.  due: should the lookup succeed, or the
\* announcement reach start, as nothing has failed since it began?  lost: has a
\* round dropped the record that a node returned?
Idle == [step |-> "idle", closest |-> {}, asked |-> {}, start |-> {}, due |-> FALSE,
         lost |-> FALSE]

\* LookupValue returns nil, as all were asked or as the timer of a round fires.
ReturnsNil(n) == [Idle EXCEPT !.step = "notfound", !.due = job[n].due, !.lost = job[n].lost]

TimerFires(n) == [Idle EXCEPT !.step = "notfound"]

Init ==
    /\ up = Nodes
    /\ known = [n \in Nodes |-> {}]
    /\ holds = {} /\ valid = TRUE
    /\ job = [n \in Nodes |-> Idle]
    /\ late = [n \in Nodes |-> {}]
    /\ pings = 0 /\ failures = 0
    /\ served = {}

\* Nodes that have each other in their tables, and the nodes connected with n by
\* such pairs: those that no set can leave out which n is in and no pair leaves.
Linked(l, m) == m \in known[l] /\ l \in known[m]

Connected(n) ==
    {m \in Nodes : \A within \in SUBSET Nodes :
        n \in within /\ (\A l \in within, k \in Nodes : Linked(l, k) => k \in within)
            => m \in within}

\* How many nodes are nearer to the name than n; the bucket of a node at another.
Rank == [n \in Nodes |-> Cardinality({m \in Nodes : Less(ID[m], ID[n], Target)})]

Bucket == [n \in Nodes |-> [m \in Nodes |-> bucketIndex(ID[n], ID[m])]]

Nearest(nodes, count) ==
    {m \in nodes : Cardinality({l \in nodes : Rank[l] < Rank[m]}) < count}

\* Table.Closest.  The variant gives one less.
Closest_OneShort(nodes) == Nearest(nodes, K - 1)

Closest(nodes) == Nearest(nodes, K)

\* nextBatch
Batch(n) == Nearest(job[n].closest \ job[n].asked, Alpha)

\* The table of n after Table.Add of the nodes heard, the closest first.  The
\* variant does not skip n.
Heard_Self(n, heard) ==
    known[n] \cup {m \in heard :
        Cardinality({l \in (known[n] \cup heard) \ {m} :
            /\ Bucket[n][l] = Bucket[n][m]
            /\ l \in known[n] \/ Rank[l] < Rank[m]}) < K}

Heard(n, heard) ==
    known[n] \cup {m \in heard \ {n} :
        Cardinality({l \in (known[n] \cup heard) \ {m} :
            /\ Bucket[n][l] = Bucket[n][m]
            /\ l \in known[n] \/ Rank[l] < Rank[m]}) < K}

Fail ==
    /\ failures < MaxFailures
    /\ failures' = failures + 1

\* Whatever is in progress may miss what it should have reached.
Disturbed(jobs) == [n \in Nodes |-> [jobs[n] EXCEPT !.due = FALSE, !.start = {}]]

-----------------------------------------------------------------------------
\* PingPeer of n at m: handlePing adds n, the pong m.
Ping(n, m) ==
    /\ {n, m} \subseteq up /\ n # m /\ ~(m \in known[n] /\ n \in known[m])
    /\ known' = [known EXCEPT ![m] = Heard(m, {n}), ![n] = Heard(n, {m})]
    /\ pings < MaxPings /\ pings' = pings + 1
    /\ UNCHANGED <<up, holds, valid, job, late, failures, served>>

-----------------------------------------------------------------------------
\* Announce: the own store first, which refuses an expired record, then
\* LookupNode.
Announce ==
    /\ Owner \in up /\ job[Owner].step = "idle" /\ valid
    /\ holds' = holds \cup {Owner}
    /\ job' = [job EXCEPT ![Owner] = [Idle EXCEPT
                    !.step = "announce", !.closest = Closest(known[Owner]),
                    !.start = Connected(Owner), !.due = TRUE]]
    /\ UNCHANGED <<up, known, valid, late, pings, failures, served>>

\* LookupValue, of a name that is not in the own store.
Search(n) ==
    /\ n \in up \ holds /\ job[n].step \in {"idle", "notfound"}
    /\ job' = [job EXCEPT ![n] = [Idle EXCEPT
                    !.step = "search", !.closest = Closest(known[n]),
                    !.due = Connected(n) \cap served # {}]]
    /\ UNCHANGED <<up, known, holds, valid, late, pings, failures, served>>

\* The node asked answers: to FIND_NODE with the closest it knows, which the
\* caller adds to its table; to FIND_VALUE with the record or the same.
FindNode(m) ==
    /\ job[Owner].step = "announce" /\ m \in up
    /\ m \in Batch(Owner)
    /\ LET nodes == Closest(known[m]) IN
       /\ job' = [job EXCEPT ![Owner].closest = @ \cup (nodes \ {Owner}),
                             ![Owner].asked = @ \cup {m}]
       /\ known' = [known EXCEPT ![Owner] = Heard(Owner, nodes)]
    /\ UNCHANGED <<up, holds, valid, late, pings, failures, served>>

\* The record ends the lookup, while others of the round are still being asked;
\* or, if all of them are through, the select takes done: the record is dropped,
\* and the lookup goes on without the node that has it.
FindValue(n, m) ==
    /\ job[n].step = "search" /\ m \in up
    /\ m \in Batch(n)
    /\ \/ /\ m \in holds
          /\ job' = [job EXCEPT ![n] = Idle]
          /\ late' = [late EXCEPT ![n] = @ \cup (Batch(n) \ {m})]
       \/ /\ m \in holds
          /\ job' = [job EXCEPT ![n].asked = @ \cup {m}, ![n].lost = TRUE]
          /\ UNCHANGED late
       \/ /\ m \notin holds
          /\ job' = [job EXCEPT ![n].closest = @ \cup (Closest(known[m]) \ {n}),
                                ![n].asked = @ \cup {m}]
          /\ UNCHANGED late
    /\ UNCHANGED <<up, known, holds, valid, pings, failures, served>>

\* A query that fails while the lookup waits for it.  LookupValue drops the node
\* from the table, LookupNode does not.
Fails(n, m) ==
    known' = IF job[n].step = "announce" THEN known ELSE [known EXCEPT ![n] = @ \ {m}]

\* The node asked does not run: the connection is refused, or it lasts until the
\* dial times out, and the timer of the round may end a LookupValue before that.
NotRunning(n, m) ==
    /\ job[n].step \in {"announce", "search"} /\ m \notin up
    /\ m \in Batch(n)
    /\ \/ /\ job' = [job EXCEPT ![n].asked = @ \cup {m}]
          /\ Fails(n, m)
          /\ UNCHANGED late
       \/ /\ job[n].step = "search"
          /\ job' = [job EXCEPT ![n] = TimerFires(n)]
          /\ late' = [late EXCEPT ![n] = @ \cup Batch(n)]
          /\ UNCHANGED known
    /\ UNCHANGED <<up, holds, valid, pings, failures, served>>

\* It runs, but its answer is lost, or later than the timer.
NoAnswer(n, m) ==
    /\ job[n].step \in {"announce", "search"} /\ m \in up
    /\ m \in Batch(n)
    /\ Fail
    /\ \/ /\ job' = Disturbed([job EXCEPT ![n].asked = @ \cup {m}])
          /\ Fails(n, m)
          /\ UNCHANGED late
       \/ /\ job[n].step = "search"
          /\ job' = Disturbed([job EXCEPT ![n] = TimerFires(n)])
          /\ late' = [late EXCEPT ![n] = @ \cup Batch(n)]
          /\ UNCHANGED known
    /\ UNCHANGED <<up, holds, valid, pings, served>>

\* A query that outlived its lookup fails, and drops the node from the table.
\* One that is answered changes nothing any more.
LateFailure(n, m) ==
    /\ m \in late[n]
    /\ late' = [late EXCEPT ![n] = @ \ {m}]
    /\ known' = [known EXCEPT ![n] = @ \ {m}]
    /\ \/ m \notin up /\ UNCHANGED <<job, failures>>
       \/ m \in up /\ Fail /\ job' = Disturbed(job)
    /\ UNCHANGED <<up, holds, valid, pings, served>>

\* Every node heard of was asked.
NotFound(n) ==
    /\ job[n].step = "search" /\ job[n].closest \subseteq job[n].asked
    /\ job' = [job EXCEPT ![n] = ReturnsNil(n)]
    /\ UNCHANGED <<up, known, holds, valid, late, pings, failures, served>>

Located ==
    /\ job[Owner].step = "announce" /\ job[Owner].closest \subseteq job[Owner].asked
    /\ job' = [job EXCEPT ![Owner].step = "store", ![Owner].closest = Closest(@),
                          ![Owner].asked = {}]
    /\ UNCHANGED <<up, known, holds, valid, late, pings, failures, served>>

\* STORE arrives, and is refused if the record has expired; or it does not.
Store(m) ==
    /\ job[Owner].step = "store" /\ m \in job[Owner].closest
    /\ \/ /\ holds' = IF m \in up /\ valid THEN holds \cup {m} ELSE holds
          /\ job' = [job EXCEPT ![Owner].closest = @ \ {m}]
          /\ UNCHANGED failures
       \/ /\ m \in up /\ Fail
          /\ job' = Disturbed([job EXCEPT ![Owner].closest = @ \ {m}])
          /\ UNCHANGED holds
    /\ UNCHANGED <<up, known, valid, late, pings, served>>

Announced ==
    /\ job[Owner].step = "store" /\ job[Owner].closest = {}
    /\ job' = [job EXCEPT ![Owner] = Idle]
    /\ served' = IF job[Owner].due THEN served \cup job[Owner].start ELSE served
    /\ UNCHANGED <<up, known, holds, valid, late, pings, failures>>

-----------------------------------------------------------------------------
\* A copy of the record expires by the clock of its node: with the owner's own one
\* the record that it repeats, at the others also one of an earlier life.
Expire(n) ==
    /\ n \in holds /\ Fail
    /\ holds' = holds \ {n}
    /\ served' = served \ {n}
    /\ valid' = (valid /\ n # Owner)
    /\ job' = Disturbed(job)
    /\ UNCHANGED <<up, known, late, pings>>

\* A node stops; its table and its store are in memory only.  Started again, it
\* pings those it finds in peers.json, or others, and the owner signs a new record.
Crash(n) ==
    /\ n \in up /\ Fail
    /\ up' = up \ {n}
    /\ known' = [known EXCEPT ![n] = {}]
    /\ holds' = holds \ {n}
    /\ job' = [Disturbed(job) EXCEPT ![n] = Idle]
    /\ late' = [late EXCEPT ![n] = {}]
    /\ served' = served \ {n}
    /\ UNCHANGED <<valid, pings>>

Restart(n) ==
    /\ n \notin up
    /\ up' = up \cup {n}
    /\ valid' = (valid \/ n = Owner)
    /\ UNCHANGED <<known, holds, job, late, pings, failures, served>>

-----------------------------------------------------------------------------
Pings == \E n, m \in Nodes : Ping(n, m)

Announcing == Announce \/ Located \/ Announced \/ \E m \in Nodes : FindNode(m) \/ Store(m)

Searching(n) == Search(n) \/ NotFound(n) \/ \E m \in Nodes : FindValue(n, m)

Failing ==
    \/ \E n, m \in Nodes : NotRunning(n, m) \/ NoAnswer(n, m) \/ LateFailure(n, m)
    \/ \E n \in Nodes : Crash(n) \/ Restart(n) \/ Expire(n)

Next == Pings \/ Announcing \/ (\E n \in Searchers : Searching(n)) \/ Failing

Spec == Init /\ [][Next]_vars

-----------------------------------------------------------------------------
\* The shape of the state.
TypeOK ==
    /\ up \subseteq Nodes /\ holds \subseteq up /\ served \subseteq up
    /\ known \in [Nodes -> SUBSET Nodes] /\ \A n \in Nodes : n \notin known[n]
    /\ job \in [Nodes -> [step : {"idle", "announce", "store", "search", "notfound"},
                          closest : SUBSET Nodes, asked : SUBSET Nodes,
                          start : SUBSET Nodes, due : BOOLEAN, lost : BOOLEAN]]
    /\ late \in [Nodes -> SUBSET Nodes] /\ valid \in BOOLEAN
    /\ pings \in 0..MaxPings /\ failures \in 0..MaxFailures

\* In a mesh of at most K + 1 nodes an announced record is found: by every node
\* that is connected, since before or after the announcement, with one that the
\* announcement reached and that still runs and has it, whether or not the owner
\* runs.  If nothing it depends on went away while a search lasted, and no node
\* kept it waiting beyond the timer of a round, it finds nothing only when a node
\* did return the record and the select of that round dropped it.  A larger mesh
\* may not find it.
AnnouncedIsFound ==
    \A n \in Searchers : job[n].step = "notfound" /\ job[n].due => job[n].lost
=============================================================================
