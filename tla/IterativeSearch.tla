-------------------------- MODULE IterativeSearch --------------------------
(***************************************************************************)
(* What an iterative lookup promises, whatever it is for: it asks nodes it *)
(* has heard of in rounds of at most Alpha, nobody twice, the closest to   *)
(* the target first, one round at a time; and unless something makes it    *)
(* return early it goes on until it has asked everybody.                   *)
(***************************************************************************)
EXTENDS NodeID, FiniteSets

CONSTANTS
    Target,     \* the identifier looked up
    Alpha       \* how many are asked at a time

VARIABLES
    heard,      \* the nodes the lookup has heard of
    asked,      \* those it has decided to ask
    open,       \* those of them it still waits for
    over        \* "no", "exhausted", or "early"

vars == <<heard, asked, open, over>>

Init ==
    /\ heard = {} /\ asked = {} /\ open = {}
    /\ over = "no"

\* The next round: the closest of those not asked yet.
Ask ==
    /\ over = "no" /\ open = {}
    /\ open' # {} /\ Cardinality(open') <= Alpha
    /\ open' \subseteq heard \ asked
    /\ asked' = asked \cup open'
    /\ \A p \in open', q \in heard \ asked' : Less(p, q, Target)
    /\ UNCHANGED <<heard, over>>

\* A query ends, with an answer or without; nodes are heard of.  This may go on
\* after an early return.
Hear ==
    /\ open' \subseteq open
    /\ heard \subseteq heard'
    /\ UNCHANGED <<asked, over>>

Exhaust ==
    /\ over = "no" /\ over' = "exhausted"
    /\ open = {} /\ heard \subseteq asked
    /\ UNCHANGED <<heard, asked, open>>

\* Something ends the lookup: what is looked for was found, or took too long.
\* The query that brings it ends as well.
Break ==
    /\ over = "no" /\ over' = "early"
    /\ open' \subseteq open
    /\ UNCHANGED <<heard, asked>>

Next == Ask \/ Hear \/ Exhaust \/ Break

Spec == Init /\ [][Next]_vars
=============================================================================
