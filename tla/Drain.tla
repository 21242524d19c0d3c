-------------------------------- MODULE Drain --------------------------------
(***************************************************************************)
(* What a server that is stopped promises: each connection is served at    *)
(* most once, and Stop returns when nothing is being served and nothing    *)
(* will be.                                                                *)
(***************************************************************************)
CONSTANT Conns

VARIABLES phase, serving, served

Init == phase = "new" /\ serving = {} /\ served = {}

Open ==
    /\ phase = "new"
    /\ phase' = "open"
    /\ UNCHANGED <<serving, served>>

\* Stop has been called; it returns later.
Close ==
    /\ phase = "open"
    /\ phase' = "closing"
    /\ UNCHANGED <<serving, served>>

Return ==
    /\ phase = "closing" /\ serving = {}
    /\ phase' = "stopped"
    /\ UNCHANGED <<serving, served>>

Begin(c) ==
    /\ phase \in {"open", "closing"}
    /\ c \notin serving \cup served
    /\ serving' = serving \cup {c}
    /\ UNCHANGED <<phase, served>>

Finish(c) ==
    /\ c \in serving
    /\ serving' = serving \ {c}
    /\ served' = served \cup {c}
    /\ UNCHANGED phase

Next == Open \/ Close \/ Return \/ \E c \in Conns : Begin(c) \/ Finish(c)

Spec == Init /\ [][Next]_<<phase, serving, served>>
=============================================================================
