------------------------------ MODULE NameLease ------------------------------
(***************************************************************************)
(* What one record store promises about names, without saying how: a name  *)
(* is free or leased to one key until some time.  The key that holds the   *)
(* lease may replace it at will, by an earlier end too; everybody else     *)
(* waits until the lease has run out and the store has taken it back.      *)
(***************************************************************************)
EXTENDS Integers

CONSTANTS Names, Keys, Free

VARIABLES
    now,        \* the clock
    lease       \* Names -> Free or [key, until]

vars == <<now, lease>>

RunOut(n) == lease[n] # Free /\ now > lease[n].until

Init ==
    /\ now = 0
    /\ lease = [n \in Names |-> Free]

Pass == now' = now + 1 /\ UNCHANGED lease

\* Name n gets a lease, a new one or the next one of the same key.
Grant(n) ==
    /\ lease'[n] \in [key : Keys, until : Int]
    /\ lease[n] # Free => lease'[n].key = lease[n].key
    /\ lease' = [lease EXCEPT ![n] = lease'[n]]
    /\ UNCHANGED now

TakeBack ==
    /\ lease' = [n \in Names |-> IF RunOut(n) THEN Free ELSE lease[n]]
    /\ UNCHANGED now

Next ==
    \/ Pass
    \/ TakeBack
    \/ \E n \in Names : Grant(n)

Spec == Init /\ [][Next]_vars
=============================================================================
