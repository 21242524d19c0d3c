----------------------------- MODULE LookupNode -----------------------------
(***************************************************************************)
(* LookupNode of dht/lookup.go: the main goroutine that plans rounds and   *)
(* collects answers, and one goroutine per query of a round.               *)
(*                                                                         *)
(* The other nodes are represented by what they answer: each returns the K *)
(* nodes of its own table closest to the target, or the query fails        *)
(* (refused, lost, too slow, undecodable).                                 *)
(***************************************************************************)
EXTENDS LookupState

VARIABLES
    results,        \* the channel of the round
    adding,         \* contacts of the answer being added to the table
    answered        \* history: the nodes that have answered

nodeVars == <<table, answer, pc, candidates, contacted, spawned, sent, results, adding,
          answered>>

NodeInit ==
    /\ \E topology \in Topologies :
        answer = [p \in Peers |-> ClosestKnown(topology[p])]
    /\ table \in SeedTables
    /\ pc = "start"
    /\ candidates = <<>>
    /\ contacted = {} /\ spawned = {} /\ sent = {}
    /\ results = <<>> /\ adding = <<>>
    /\ answered = {}

NodeSeed ==
    /\ pc = "start"
    /\ candidates' = TableClosest(table, Target, K)
    /\ pc' = IF candidates' = <<>> THEN "done" ELSE "plan"
    /\ UNCHANGED <<table, answer, contacted, spawned, sent, results,
                   adding, answered>>

\* Start a round, or return when every candidate has been contacted.
NodePlanRound ==
    /\ pc = "plan"
    /\ spawned' = nextBatch
    /\ pc' = IF nextBatch = {} THEN "done" ELSE "collect"
    /\ UNCHANGED <<table, answer, candidates, contacted, sent, results,
                   adding, answered>>

\* A goroutine of the round starts: NodeMarkContacted, dial, send.  The variant
\* forgets the first.
NodeMarkContacted_Forgotten(p) ==
    /\ p \in spawned
    /\ spawned' = spawned \ {p}
    /\ sent' = sent \cup {p}
    /\ UNCHANGED <<table, answer, pc, candidates, contacted, results, adding, answered>>

NodeMarkContacted(p) ==
    /\ p \in spawned
    /\ spawned' = spawned \ {p}
    /\ contacted' = contacted \cup {p}
    /\ sent' = sent \cup {p}
    /\ UNCHANGED <<table, answer, pc, candidates, results, adding, answered>>

\* The answer arrives and goes into the channel, which has room for one
\* message per goroutine of the round.
FindNodeAnswer(p) ==
    /\ p \in sent
    /\ sent' = sent \ {p}
    /\ results' = Append(results, answer[p])
    /\ answered' = answered \cup {p}
    /\ UNCHANGED <<table, answer, pc, candidates, contacted, spawned, adding>>

FindNodeError(p) ==
    /\ p \in sent
    /\ sent' = sent \ {p}
    /\ UNCHANGED <<table, answer, pc, candidates, contacted, spawned, results,
                   adding, answered>>

\* The main goroutine takes one answer: addCandidates first, then table.Add of
\* each of its contacts, one critical section each.
Collect ==
    /\ pc = "collect"
    /\ results # <<>>
    /\ addCandidates(Head(results))
    /\ adding' = Head(results)
    /\ results' = Tail(results)
    /\ pc' = "add"
    /\ UNCHANGED <<table, answer, contacted, spawned, sent, answered>>

AddToTable ==
    /\ pc = "add"
    /\ adding # <<>>
    /\ table' = TableAdd(table, Head(adding))
    /\ adding' = Tail(adding)
    /\ UNCHANGED <<answer, pc, candidates, contacted, spawned, sent, results, answered>>

AddedAll ==
    /\ pc = "add"
    /\ adding = <<>>
    /\ pc' = "collect"
    /\ UNCHANGED <<table, answer, candidates, contacted, spawned, sent, results,
                   adding, answered>>

\* The channel is closed once every goroutine of the round has returned, and
\* the main goroutine leaves its loop when it is drained.
RoundOver ==
    /\ pc = "collect"
    /\ spawned = {} /\ sent = {} /\ results = <<>>
    /\ pc' = "plan"
    /\ UNCHANGED <<table, answer, candidates, contacted, spawned, sent, results,
                   adding, answered>>

NodeMain == NodeSeed \/ NodePlanRound \/ Collect \/ AddToTable \/ AddedAll \/ RoundOver

NodeQuery(p) == FindNodeAnswer(p) \/ FindNodeError(p)

NodeNext == NodeMain \/ \E p \in Peers : NodeMarkContacted(p) \/ NodeQuery(p)

\* Goroutines that can run do run, and a query ends: dialing and reading both
\* have a deadline of ten seconds.
NodeFairness ==
    /\ WF_nodeVars(NodeMain)
    /\ \A p \in Peers : WF_nodeVars(NodeMarkContacted(p)) /\ WF_nodeVars(NodeQuery(p))

NodeSpec == NodeInit /\ [][NodeNext]_nodeVars /\ NodeFairness

-----------------------------------------------------------------------------
\* The shape of the state; a query is only ever addressed to another node.
NodeTypeOK ==
    /\ table \in Tables
    /\ pc \in {"start", "plan", "collect", "add", "done"}
    /\ candidates \in Seq(Contacts)
    /\ contacted \subseteq Peers /\ spawned \subseteq Peers /\ sent \subseteq Peers
    /\ results \in Seq(Seq(Contacts)) /\ adding \in Seq(Contacts)

\* When the lookup returns, it has contacted every node it heard of, and what it
\* returns are the K closest of them.
Exhaustive ==
    pc = "done" =>
        /\ contacted = IDs(candidates)
        /\ \A p \in answered : IDs(answer[p]) \ {Self} \subseteq contacted
        /\ \A p \in contacted \ IDs(closest) :
                \A q \in IDs(closest) : Less(q, p, Target)

\* The lookup is an iterative search that nothing ends early: queries in flight
\* and answers in the channel, in whatever order they come, never make it ask a
\* node twice, more than Alpha at a time, or a node farther than one left out.
NodeSearch == INSTANCE IterativeSearch
    WITH heard <- IDs(candidates), asked <- contacted \cup spawned,
         open <- spawned \cup sent,
         over <- IF pc = "done" THEN "exhausted" ELSE "no"

NodeSearchSpec == NodeSearch!Spec

\* Whatever the nodes answer and however many fail, the lookup returns.
NodeReturns == <>(pc = "done")
=============================================================================
