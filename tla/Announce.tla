------------------------------ MODULE Announce ------------------------------
(***************************************************************************)
(* One name on several nodes: what each node does at start and every 45    *)
(* minutes to keep its record registered (Announce in dht/lookup.go, the   *)
(* Reannouncer of dht/announce.go, as cmdStart of cli/cli.go calls them),  *)
(* and the STOREs this sends.  Every owner has a key of its own and wants  *)
(* the name.                                                               *)
(*                                                                         *)
(* There is no clock: a record carries its remaining time, expires - now,  *)
(* which Tick takes off every copy.  A unit is a quarter of an hour; what  *)
(* takes seconds or minutes (an announcement, the delivery of a STORE, the *)
(* removal of an expired entry) is over before the next Tick.  Stores are  *)
(* in memory and their Put is one step here; RecordStore has its details.  *)
(***************************************************************************)
EXTENDS Integers, FiniteSets

CONSTANTS
    Nodes,
    Owners,             \* the nodes that announce the name
    RecordTTL,          \* in units: 4, an hour
    reannounceInterval, \* in units: 3, 45 minutes
    Lossy,              \* can a call to a running node fail?
    None

ASSUME AnnounceAssumption ==
    /\ Owners \subseteq Nodes
    /\ RecordTTL \in Nat
    /\ reannounceInterval \in Nat \ {0}
    /\ Lossy \in BOOLEAN
    /\ None \notin [key : Owners, left : Int]

VARIABLES
    running,    \* the nodes that run
    knows,      \* the routing table of each node, as a set
    store,      \* the entry for the name in the store of each node
    record,     \* the record of each owner, fixed while it runs
    ticker,     \* units until the Reannouncer's ticker fires, None before it starts
    pc,         \* where each owner's announcement is
    targets,    \* the nodes an announcement has yet to send a STORE to
    inflight,   \* STOREs written and not handled
    accepted    \* history: the nodes whose store took the owner's record, and no
                \* record of an earlier run of it since

nodeState == <<running, knows>>
vars == <<running, knows, store, record, ticker, pc, targets, inflight, accepted>>

\* An expired record has left = -1, however long ago it expired.
Records == [key : Owners, left : -1..RecordTTL]

IsExpired(r) == r.left < 0

Older(r) == [r EXCEPT !.left = IF @ < 0 THEN @ ELSE @ - 1]

\* Put of dht/store.go.  Variants: the entry of another key is replaced; the
\* record counts from when it was stored.
Put_AnyKey(n, r) ==
    /\ ~IsExpired(r)
    /\ store' = [store EXCEPT ![n] = r]

Put_Redated(n, r) ==
    /\ ~IsExpired(r)
    /\ store[n] # None => store[n].key = r.key
    /\ store' = [store EXCEPT ![n] = [r EXCEPT !.left = RecordTTL]]

Put(n, r) ==
    /\ ~IsExpired(r)
    /\ store[n] # None => store[n].key = r.key
    /\ store' = [store EXCEPT ![n] = r]

PutRefused(n, r) == IsExpired(r) \/ (store[n] # None /\ store[n].key # r.key)

\* Store p took a record: the one its owner has now, or one of an earlier run.
Took(p, r) ==
    accepted' = [accepted EXCEPT ![r.key] =
                    IF r = record[r.key] THEN @ \cup {p} ELSE @ \ {p}]

Init ==
    /\ running = {}
    /\ knows = [n \in Nodes |-> {}]
    /\ store = [n \in Nodes |-> None]
    /\ record = [n \in Owners |-> [key |-> n, left |-> -1]]
    /\ ticker = [n \in Owners |-> None]
    /\ pc = [n \in Owners |-> "idle"]
    /\ targets = [n \in Owners |-> {}]
    /\ inflight = {}
    /\ accepted = [n \in Owners |-> {}]

-----------------------------------------------------------------------------
\* A process starts, or starts again, with an empty store and table; if the name
\* is its own, it goes on to CreateRecord and the first Announce.  Nothing waits
\* for the STOREs of its previous run.
Start(n) ==
    /\ n \notin running
    /\ running' = running \cup {n}
    /\ IF n \in Owners
       THEN /\ record' = [record EXCEPT ![n].left = RecordTTL]
            /\ pc' = [pc EXCEPT ![n] = "put"]
            /\ accepted' = [accepted EXCEPT ![n] = {}]
       ELSE UNCHANGED <<record, pc, accepted>>
    /\ UNCHANGED <<knows, store, ticker, targets, inflight>>

\* It is stopped or dies, anywhere, and everything in memory is lost.
Crash(n) ==
    /\ n \in running
    /\ running' = running \ {n}
    /\ knows' = [knows EXCEPT ![n] = {}]
    /\ store' = [store EXCEPT ![n] = None]
    /\ inflight' = {m \in inflight : m.to # n}
    /\ accepted' = [o \in Owners |-> accepted[o] \ {n}]
    /\ IF n \in Owners
       THEN /\ pc' = [pc EXCEPT ![n] = "idle"]
            /\ targets' = [targets EXCEPT ![n] = {}]
            /\ ticker' = [ticker EXCEPT ![n] = None]
       ELSE UNCHANGED <<pc, targets, ticker>>
    /\ UNCHANGED record

\* A ping between two nodes, which makes them known to each other, and a node
\* dropped from the table of another by a failed LookupValue query.
Connect(n, p) ==
    /\ n # p /\ n \in running /\ p \in running
    /\ knows' = [knows EXCEPT ![n] = @ \cup {p}, ![p] = @ \cup {n}]
    /\ UNCHANGED <<running, store, record, ticker, pc, targets, inflight, accepted>>

Forget(n, p) ==
    /\ n \in running /\ p \in knows[n]
    /\ p \notin running \/ Lossy
    /\ knows' = [knows EXCEPT ![n] = @ \ {p}]
    /\ UNCHANGED <<running, store, record, ticker, pc, targets, inflight, accepted>>

-----------------------------------------------------------------------------
\* Announce has returned, with an error or not.  The Reannouncer is started
\* after the first time; its ticker goes on while Announce runs.
AnnounceOver(n) ==
    /\ pc' = [pc EXCEPT ![n] = "idle"]
    /\ ticker' = [ticker EXCEPT ![n] = IF @ = None THEN reannounceInterval ELSE @]

\* Announce, step by step.  First the local store, and if that refuses the
\* record nothing else happens.  The variant goes on all the same.
AnnouncePut_Ignored(n) ==
    /\ pc[n] = "put"
    /\ pc' = [pc EXCEPT ![n] = "lookup"]
    /\ \/ Put(n, record[n]) /\ Took(n, record[n])
       \/ PutRefused(n, record[n]) /\ UNCHANGED <<store, accepted>>
    /\ UNCHANGED <<nodeState, record, ticker, targets, inflight>>

AnnouncePut(n) ==
    /\ pc[n] = "put"
    /\ \/ /\ Put(n, record[n])
          /\ pc' = [pc EXCEPT ![n] = "lookup"]
          /\ Took(n, record[n])
          /\ UNCHANGED ticker
       \/ /\ PutRefused(n, record[n])
          /\ AnnounceOver(n)
          /\ UNCHANGED <<store, accepted>>
    /\ UNCHANGED <<nodeState, record, targets, inflight>>

\* All a node can hear of from the nodes it knows, asking those that run.
Heard(n) ==
    {p \in Nodes \ {n} :
        \A S \in SUBSET Nodes :
            (knows[n] \subseteq S /\ \A q \in S \cap running : knows[q] \subseteq S)
                => p \in S}

\* LookupNode: it asks every node it hears of, so it finds all of them unless a
\* query fails, and they are now in the table.  There are fewer than K nodes.
AnnounceLookup(n) ==
    /\ pc[n] = "lookup"
    /\ \E closest \in SUBSET Heard(n) :
        /\ knows[n] \subseteq closest
        /\ knows[n] = {} => closest = {}
        /\ ~Lossy => closest = Heard(n)
        /\ knows' = [knows EXCEPT ![n] = closest]
        /\ targets' = [targets EXCEPT ![n] = closest]
    /\ pc' = [pc EXCEPT ![n] = "send"]
    /\ UNCHANGED <<running, store, record, ticker, inflight, accepted>>

\* SendStore returns nil once the message is written.  It reads no answer.
SendStore(n, p) ==
    /\ pc[n] = "send" /\ p \in targets[n]
    /\ p \in running
    /\ targets' = [targets EXCEPT ![n] = @ \ {p}]
    /\ inflight' = inflight \cup {[to |-> p, record |-> record[n]]}
    /\ UNCHANGED <<nodeState, store, record, ticker, pc, accepted>>

SendStoreError(n, p) ==
    /\ pc[n] = "send" /\ p \in targets[n]
    /\ p \notin running \/ Lossy
    /\ targets' = [targets EXCEPT ![n] = @ \ {p}]
    /\ UNCHANGED <<nodeState, store, record, ticker, pc, inflight,
                   accepted>>

\* All goroutines are through.
AnnounceSent(n) ==
    /\ pc[n] = "send" /\ targets[n] = {}
    /\ AnnounceOver(n)
    /\ UNCHANGED <<nodeState, store, record, targets, inflight, accepted>>

\* The ticker fires: the same record again.
Reannounce(n) ==
    /\ pc[n] = "idle" /\ ticker[n] = 0
    /\ ticker' = [ticker EXCEPT ![n] = reannounceInterval]
    /\ pc' = [pc EXCEPT ![n] = "put"]
    /\ UNCHANGED <<nodeState, store, record, targets, inflight, accepted>>

\* handleStore, which ignores the result of Put and answers nothing.
handleStore(m) ==
    /\ m \in inflight
    /\ inflight' = inflight \ {m}
    /\ \/ Put(m.to, m.record) /\ Took(m.to, m.record)
       \/ PutRefused(m.to, m.record) /\ UNCHANGED <<store, accepted>>
    /\ UNCHANGED <<nodeState, record, ticker, pc, targets>>

\* A unit of time.  The cleanup goroutines remove what has expired; in the
\* variant they are not running.
Quiet ==
    /\ inflight = {}
    /\ \A n \in Owners : pc[n] = "idle" /\ ticker[n] # 0

Tick_NoCleanup ==
    /\ Quiet
    /\ record' = [n \in Owners |-> Older(record[n])]
    /\ store' = [n \in Nodes |-> IF store[n] = None THEN None ELSE Older(store[n])]
    /\ ticker' = [n \in Owners |-> IF ticker[n] = None THEN None ELSE ticker[n] - 1]
    /\ UNCHANGED <<nodeState, pc, targets, inflight, accepted>>

Tick ==
    /\ Quiet
    /\ record' = [n \in Owners |-> Older(record[n])]
    /\ store' = [n \in Nodes |->
            IF store[n] = None \/ IsExpired(Older(store[n])) THEN None
            ELSE Older(store[n])]
    /\ ticker' = [n \in Owners |-> IF ticker[n] = None THEN None ELSE ticker[n] - 1]
    /\ UNCHANGED <<nodeState, pc, targets, inflight, accepted>>

Send(n) == \E p \in Nodes : SendStore(n, p) \/ SendStoreError(n, p)

Announcing(n) ==
    \/ AnnouncePut(n) \/ AnnounceLookup(n) \/ Send(n)
    \/ AnnounceSent(n) \/ Reannounce(n)

Handling == \E m \in inflight : handleStore(m)

Next ==
    \/ \E n \in Nodes : Start(n) \/ Crash(n)
    \/ \E n, p \in Nodes : Connect(n, p) \/ Forget(n, p)
    \/ \E n \in Owners : Announcing(n)
    \/ Handling
    \/ Tick

\* Running goroutines run and time passes.  Nobody has to start, stop, connect
\* or forget.
Fairness ==
    /\ \A n \in Owners : WF_vars(Announcing(n))
    /\ WF_vars(Handling)
    /\ WF_vars(Tick)

Spec == Init /\ [][Next]_vars /\ Fairness

-----------------------------------------------------------------------------
\* The shape of the state.
TypeOK ==
    /\ running \subseteq Nodes
    /\ knows \in [Nodes -> SUBSET Nodes]
    /\ store \in [Nodes -> {r \in Records : ~IsExpired(r)} \cup {None}]
    /\ record \in [Owners -> Records]
    /\ ticker \in [Owners -> 0..reannounceInterval \cup {None}]
    /\ pc \in [Owners -> {"idle", "put", "lookup", "send"}]
    /\ targets \in [Owners -> SUBSET Nodes]
    /\ inflight \subseteq [to : Nodes, record : Records]
    /\ accepted \in [Owners -> SUBSET Nodes]

\* A store that took an owner's record has that very record until it expires,
\* unless it loses its memory or takes a record the same owner made in an
\* earlier run, which Put accepts however late it comes.  No contender displaces
\* it, and no STORE of the present run.
KeptUntilExpiry ==
    \A n \in Owners : \A p \in accepted[n] :
        ~IsExpired(record[n]) => store[p] = record[n]

\* A node distributes its record only while its own store serves it: one that
\* knows of another owner keeps its claim to itself.
SendsOnlyWhatItServes ==
    \A n \in Owners : pc[n] \in {"lookup", "send"} => store[n] = record[n]

\* No copy anywhere lasts longer than the record its owner made last, however
\* often it was announced, and from whichever run of the owner it is: a late
\* STORE of an older record can shorten what a store has, never prolong it.
NoCopyOutlivesRecord ==
    \A p \in Nodes : store[p] # None => store[p].left <= record[store[p].key].left

\* When an owner stops for good, its name becomes free on every node for good,
\* if only nodes do not start and stop for ever (a start takes seconds, so in
\* the end a unit does pass, but the model has no seconds).
FreedAfterStop ==
    \A n \in Owners :
        <>[](n \notin running) /\ <>[][UNCHANGED running]_vars =>
            <>[](\A p \in Nodes : store[p] # None => store[p].key # n)

-----------------------------------------------------------------------------
\* dht/announce.go:9: the interval "must be less than RecordTTL (1 hour) to
\* prevent expiry".  The record of a node that keeps running does not expire.
NoExpiryWhileRunning == \A n \in Owners \cap running : ~IsExpired(record[n])
=============================================================================
