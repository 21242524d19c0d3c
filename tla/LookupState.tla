----------------------------- MODULE LookupState -----------------------------
(***************************************************************************)
(* What LookupNode and LookupValue share: the candidates and the contacted *)
(* nodes of one lookup (lookupState in dht/lookup.go), as operators.  Each *)
(* method of the source runs under state.mu, so it is one step.            *)
(*                                                                         *)
(* Also the answers of the other nodes, as far as a lookup sees them.      *)
(***************************************************************************)
EXTENDS RoutingTable

CONSTANTS
    Target,         \* the identifier looked up
    Alpha,          \* queries per round (3)
    Topologies,     \* the possible tables of the peers: whom each knows
    SeedTables      \* the possible tables of this node when the lookup starts

\* NodeTable shows that the tables of a running node are like this.
ASSUME LookupAssumption ==
    /\ IsFiniteSet(Peers)
    /\ Addrs # {}
    /\ Target \in NodeIDs
    /\ Alpha \in Nat \ {0}
    /\ \A topology \in Topologies : topology \in [Peers -> SUBSET (Peers \cup {Self})]
    /\ \A t \in SeedTables : GoodTable(t) /\ Known(t) \subseteq Peers

VARIABLES
    candidates,     \* state.candidates
    contacted,      \* state.contacted
    answer,         \* the closest nodes each peer knows; fixed during a lookup
    pc,             \* where the main goroutine is
    spawned,        \* goroutines that have not run markContacted yet
    sent            \* goroutines waiting for the answer to their query

IDs(contacts) == {c.id : c \in Range(contacts)}

\* A lookup never compares addresses; every contact gets the same one here.
ContactsOf(ids) == {[id |-> p, addr |-> CHOOSE a \in Addrs : TRUE] : p \in ids}

\* handleFindNode, and handleFindValue without the record, at a node that knows
\* ids: Closest over its own table.
ClosestKnown(ids) == FirstOf(SortByDistance(ContactsOf(ids), Target), K)

\* The contacts addCandidates appends; an answer lists a node once, being the
\* entries of a table.  In the variant this node is not skipped.
Fresh_Self(contacts) ==
    {c \in Range(contacts) : c.id \notin contacted \cup IDs(candidates)}

Fresh(contacts) ==
    {c \in Range(contacts) : /\ c.id # Self
                             /\ c.id \notin contacted
                             /\ c.id \notin IDs(candidates)}

\* The candidates are sorted after the new ones were appended.  Variants: the
\* new ones, sorted themselves, are left at the end; only the K closest are kept.
addCandidates_Unsorted(contacts) ==
    candidates' = candidates \o SortByDistance(Fresh(contacts), Target)

addCandidates_Truncated(contacts) ==
    \E all \in {Range(candidates) \cup Fresh(contacts)} :
        candidates' = FirstOf(SortByDistance(all, Target), K)

addCandidates(contacts) ==
    candidates' = SortByDistance(Range(candidates) \cup Fresh(contacts), Target)

\* What the lookup returns.
closest == FirstOf(candidates, K)

\* The candidates that were not contacted yet, by their places in the list.
Uncontacted == {i \in DOMAIN candidates : candidates[i].id \notin contacted}

\* The nodes of the first Alpha of them.
nextBatch ==
    {candidates[i].id : i \in {k \in Uncontacted :
                                Cardinality({j \in Uncontacted : j < k}) < Alpha}}
=============================================================================
