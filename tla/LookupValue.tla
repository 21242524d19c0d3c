----------------------------- MODULE LookupValue -----------------------------
(***************************************************************************)
(* LookupValue of dht/lookup.go: a lookup that ends as soon as a node      *)
(* returns the record.  It shares lookupState with LookupNode, but the     *)
(* goroutines of a round add the candidates themselves, a failed query     *)
(* drops the node from the table, and the main goroutine does not collect: *)
(* it sits in a select on the round's found and done channels and a timer. *)
(* When it returns early the other goroutines of the round live on.        *)
(*                                                                         *)
(* A select is two steps.  It first polls its channels, and takes any one  *)
(* that is ready; with none ready it parks, and from then on the first     *)
(* event wakes it.  The timer starts with the select, so it only ever      *)
(* fires on a parked main goroutine.                                       *)
(***************************************************************************)
EXTENDS LookupState

CONSTANTS
    HolderSets,     \* the possible sets of nodes that return the record
    SilentSets      \* the possible sets of nodes that do not answer in time

ASSUME ValueAssumption ==
    /\ \A holders \in HolderSets : holders \subseteq Peers
    /\ \A silent \in SilentSets : silent \subseteq Peers

VARIABLES
    local,          \* this node's own store has the record
    holders,        \* the nodes whose store has it
    silent,         \* the nodes that may need more than readTimeout, or fail
    dead,           \* those of them that do not run at all
    found,          \* the round's found channel, of capacity one, is full
    done,           \* the round's done channel is closed
    outcome,        \* what LookupValue returns; "exhausted" and "timeout" are
                    \* both (nil, nil)
    returned        \* history: a node has returned the record to the lookup

network == <<local, holders, silent, dead, answer>>
vars == <<network, table, pc, candidates, contacted, spawned, sent, found,
          done, outcome, returned>>

Init ==
    /\ local \in BOOLEAN
    /\ holders \in HolderSets
    /\ silent \in SilentSets
    /\ dead \in {{}, silent}
    /\ \E topology \in Topologies :
        answer = [p \in Peers |-> ClosestKnown(topology[p])]
    /\ table \in SeedTables
    /\ pc = "start"
    /\ candidates = <<>>
    /\ contacted = {} /\ spawned = {} /\ sent = {}
    /\ found = FALSE /\ done = FALSE
    /\ outcome = "none"
    /\ returned = FALSE

Return(result) ==
    /\ pc' = "done"
    /\ outcome' = result

LocalRecord ==
    /\ pc = "start"
    /\ local
    /\ Return("record")
    /\ UNCHANGED <<network, table, candidates, contacted, spawned, sent, found,
                   done, returned>>

\* The closest known nodes are the seeds; without any the lookup is an error.
Seed ==
    /\ pc = "start"
    /\ ~local
    /\ candidates' = TableClosest(table, Target, K)
    /\ IF candidates' = <<>>
       THEN Return("no known nodes")
       ELSE pc' = "plan" /\ UNCHANGED outcome
    /\ UNCHANGED <<network, table, contacted, spawned, sent, found, done, returned>>

\* A round has channels of its own.
PlanRound ==
    /\ pc = "plan"
    /\ nextBatch # {}
    /\ spawned' = nextBatch
    /\ found' = FALSE /\ done' = FALSE
    /\ pc' = "select"
    /\ UNCHANGED <<network, table, candidates, contacted, sent, outcome, returned>>

Exhausted ==
    /\ pc = "plan"
    /\ nextBatch = {}
    /\ Return("exhausted")
    /\ UNCHANGED <<network, table, candidates, contacted, spawned, sent, found,
                   done, returned>>

-----------------------------------------------------------------------------
\* The goroutines of a round.  The variant forgets to mark the node.
markContacted_Forgotten(p) ==
    /\ p \in spawned
    /\ spawned' = spawned \ {p}
    /\ sent' = sent \cup {p}
    /\ UNCHANGED <<network, table, pc, candidates, contacted, found, done,
                   outcome, returned>>

markContacted(p) ==
    /\ p \in spawned
    /\ spawned' = spawned \ {p}
    /\ contacted' = contacted \cup {p}
    /\ sent' = sent \cup {p}
    /\ UNCHANGED <<network, table, pc, candidates, found, done, outcome, returned>>

\* The node has the record: a parked main goroutine receives it at once and
\* returns it; otherwise it goes into the channel, or nowhere if that is full.
\* In the variant the send has no default case.
FoundValue_Blocking(p) ==
    /\ p \in sent /\ p \in holders \ dead
    /\ ~found
    /\ sent' = sent \ {p}
    /\ returned' = (returned \/ pc # "done")
    /\ IF pc = "parked"
       THEN Return("record") /\ UNCHANGED found
       ELSE found' = TRUE /\ UNCHANGED <<pc, outcome>>
    /\ UNCHANGED <<network, table, candidates, contacted, spawned, done>>

FoundValue(p) ==
    /\ p \in sent /\ p \in holders \ dead
    /\ sent' = sent \ {p}
    /\ returned' = (returned \/ pc # "done")
    /\ IF pc = "parked"
       THEN Return("record") /\ UNCHANGED found
       ELSE found' = TRUE /\ UNCHANGED <<pc, outcome>>
    /\ UNCHANGED <<network, table, candidates, contacted, spawned, done>>

\* The node has not, and returns nodes closer to the name, if it knows any.
FoundNodes(p) ==
    /\ p \in sent /\ p \notin holders \cup dead
    /\ sent' = sent \ {p}
    /\ IF answer[p] = <<>> THEN UNCHANGED candidates ELSE addCandidates(answer[p])
    /\ UNCHANGED <<network, table, pc, contacted, spawned, found, done, outcome,
                   returned>>

\* Dialing, sending or reading fails, in the case of a silent node because a
\* deadline has passed: the node leaves the table.
FindValueError(p) ==
    /\ p \in sent /\ p \in silent
    /\ sent' = sent \ {p}
    /\ table' = TableRemove(table, p)
    /\ UNCHANGED <<network, pc, candidates, contacted, spawned, found, done,
                   outcome, returned>>

\* The goroutine waiting for the others closes done, and so wakes a parked main
\* goroutine, which starts the next round.
CloseDone ==
    /\ pc \in {"select", "parked"}
    /\ spawned = {} /\ sent = {} /\ ~done
    /\ done' = TRUE
    /\ pc' = IF pc = "parked" THEN "plan" ELSE pc
    /\ UNCHANGED <<network, table, candidates, contacted, spawned, sent, found,
                   outcome, returned>>

-----------------------------------------------------------------------------
\* The main goroutine's select.
SelectFound ==
    /\ pc = "select"
    /\ found
    /\ Return("record")
    /\ UNCHANGED <<network, table, candidates, contacted, spawned, sent, found,
                   done, returned>>

SelectDone ==
    /\ pc = "select"
    /\ done
    /\ pc' = "plan"
    /\ UNCHANGED <<network, table, candidates, contacted, spawned, sent, found,
                   done, outcome, returned>>

Park ==
    /\ pc = "select"
    /\ ~found /\ ~done
    /\ pc' = "parked"
    /\ UNCHANGED <<network, table, candidates, contacted, spawned, sent, found,
                   done, outcome, returned>>

\* After readTimeout every goroutine has long started and only silent nodes are
\* still waited for.  (An answer at that very moment, and this step: the other
\* order gives the same state.)  In the variant, a break that only leaves the
\* select.
Timeout_Break ==
    /\ pc = "parked"
    /\ spawned = {} /\ sent # {} /\ sent \subseteq silent
    /\ pc' = "plan"
    /\ UNCHANGED <<network, table, candidates, contacted, spawned, sent, found,
                   done, outcome, returned>>

Timeout ==
    /\ pc = "parked"
    /\ spawned = {} /\ sent # {} /\ sent \subseteq silent
    /\ Return("timeout")
    /\ UNCHANGED <<network, table, candidates, contacted, spawned, sent, found,
                   done, returned>>

Main ==
    LocalRecord \/ Seed \/ PlanRound \/ Exhausted \/ SelectFound \/ SelectDone \/ Park

Query(p) == FoundValue(p) \/ FoundNodes(p) \/ FindValueError(p)

Next ==
    \/ Main \/ CloseDone \/ Timeout
    \/ \E p \in Peers : markContacted(p) \/ Query(p)

\* Goroutines that can run do run; a query ends, because dialing and reading
\* have deadlines.  Nothing is assumed of the timer.
Fairness ==
    /\ WF_vars(Main)
    /\ WF_vars(CloseDone)
    /\ \A p \in Peers : WF_vars(markContacted(p)) /\ WF_vars(Query(p))

Spec == Init /\ [][Next]_vars /\ Fairness

-----------------------------------------------------------------------------
\* The shape of the state; a query is only ever addressed to another node.
TypeOK ==
    /\ table \in Tables
    /\ pc \in {"start", "plan", "select", "parked", "done"}
    /\ candidates \in Seq(Contacts)
    /\ contacted \subseteq Peers /\ spawned \subseteq Peers /\ sent \subseteq Peers
    /\ found \in BOOLEAN /\ done \in BOOLEAN /\ returned \in BOOLEAN
    /\ outcome \in {"none", "record", "no known nodes", "exhausted", "timeout"}

\* When the lookup gives up for want of candidates, it has asked every node it
\* heard of, nobody is still being asked, and it has heard of everybody the
\* answers named.
ExhaustedMeansAsked ==
    outcome = "exhausted" =>
        /\ IDs(candidates) = contacted
        /\ spawned = {} /\ sent = {}
        /\ \A p \in contacted \ (holders \cup silent) :
                IDs(answer[p]) \ {Self} \subseteq contacted

\* The lookup is an iterative search too, which the record or the timer may end
\* early, although the goroutines add candidates and go on when it has returned.
Search == INSTANCE IterativeSearch
    WITH heard <- IDs(candidates), asked <- contacted \cup spawned,
         open <- spawned \cup sent,
         over <- IF pc # "done" THEN "no"
                 ELSE IF outcome = "exhausted" THEN "exhausted" ELSE "early"

SearchSpec == Search!Spec

\* The lookup returns, whatever the nodes do and without help of its timer.
Returns == <>(pc = "done")

\* No goroutine is left behind for ever: in particular two nodes that both
\* return the record, one of them after the lookup returned, do not block.
GoroutinesEnd == pc = "done" ~> (spawned = {} /\ sent = {})

\* cli/cli.go:274: "Not found: %q is not registered on the mesh".  The lookup
\* returns the nil that is reported like this only if, at that moment, it knows
\* of no node that would have returned the record.
NotFoundIsRight ==
    [][outcome = "none" /\ outcome' \in {"exhausted", "timeout"} =>
            IDs(candidates) \cap holders \subseteq silent]_vars

\* dev-docs/meshnet-build.md:66: the lookup "stops the moment any node returns
\* the record".  A lookup that was still running when a node returned the record
\* ends with the record.
RecordEndsLookup == returned /\ pc = "done" => outcome = "record"
=============================================================================
