----------------------------- MODULE RecordStore -----------------------------
(***************************************************************************)
(* The record store of one node (dht/store.go): the STORE handler and the  *)
(* local Put of Announce on one side, the cleanup goroutine on the other,  *)
(* and the records that CreateRecord signs somewhere on the mesh.          *)
(*                                                                         *)
(* Put checks expiry and signature before it takes s.mu and ownership      *)
(* after, so it is two steps.  A record once created may be put any number *)
(* of times, late and out of order: its owner re-announces it, and several *)
(* announcements of one owner are on their way at the same time.           *)
(***************************************************************************)
EXTENDS Integers, FiniteSets

CONSTANTS
    Names, Keys,
    GroupKeys,      \* the group keys in use
    NoGroup,        \* the empty group key of a public record
    TTLs,           \* lifetimes CreateRecord is called with
    CleanupEvery,   \* period of the cleanup ticker
    MaxTime,        \* bound on the clock
    MaxIssued,      \* bound on the records created
    None            \* no record

Records == [name : Names, publicKey : Keys, groupKey : GroupKeys \cup {NoGroup},
            expires : Int, signature : {"good", "bad"}]

ASSUME StoreAssumption ==
    /\ TTLs \subseteq Nat
    /\ CleanupEvery \in Nat \ {0}
    /\ MaxTime \in Nat
    /\ MaxIssued \in Nat
    /\ None \notin Records \cup [key : Keys, until : Int]

VARIABLES
    now,            \* the clock
    records,        \* s.records: Names -> record or None
    issued,         \* the records signed so far, by anyone
    checked,        \* Put calls past their checks, before s.mu.Lock
    lastCleanup,    \* when the ticker last fired
    storedAt        \* history: when each entry was written

vars == <<now, records, issued, checked, lastCleanup, storedAt>>

IsExpired(r) == now > r.expires

IsPublic(r) == r.groupKey = NoGroup

\* The signature covers every field but itself.  Signing is abstracted to
\* whether the fields are still the ones that were signed.
Verify(r) == r.signature = "good"

\* What a STORE may carry (handleStore hands it to Put as it came): a record whose
\* fields are not those that were signed.
Torn(r) == [r EXCEPT !.signature = "bad"]

Get(n) == IF records[n] # None /\ ~IsExpired(records[n]) THEN records[n] ELSE None

GetPublic(n) == IF Get(n) # None /\ IsPublic(Get(n)) THEN Get(n) ELSE None

GetForGroup(n, g) == IF Get(n) # None /\ Get(n).groupKey = g THEN Get(n) ELSE None

Init ==
    /\ now = 0
    /\ records = [n \in Names |-> None]
    /\ issued = {}
    /\ checked = {}
    /\ lastCleanup = 0
    /\ storedAt = [n \in Names |-> 0]

CreateRecord(k, n, g, ttl) ==
    /\ Cardinality(issued) < MaxIssued
    /\ issued' = issued \cup {[name |-> n, publicKey |-> k, groupKey |-> g,
                               expires |-> now + ttl, signature |-> "good"]}
    /\ UNCHANGED <<now, records, checked, lastCleanup, storedAt>>

\* Put before the lock.  The variants forget one of the two checks.
PutCheck_NoVerify(r) ==
    /\ ~IsExpired(r)
    /\ checked' = checked \cup {r}
    /\ UNCHANGED <<now, records, issued, lastCleanup, storedAt>>

PutCheck(r) ==
    /\ ~IsExpired(r)
    /\ Verify(r)
    /\ checked' = checked \cup {r}
    /\ UNCHANGED <<now, records, issued, lastCleanup, storedAt>>

\* Put under the lock: an entry of another key wins, expired or not; an entry
\* of the same key is replaced whatever its expiry.  Variants: another key is
\* let in; another key is let in once the entry has expired.
Owned_Never(r) == FALSE

Owned_Lapsing(r) ==
    /\ records[r.name] # None
    /\ ~IsExpired(records[r.name])
    /\ records[r.name].publicKey # r.publicKey

Owned(r) ==
    /\ records[r.name] # None
    /\ records[r.name].publicKey # r.publicKey

PutStore(r) ==
    /\ r \in checked
    /\ checked' = checked \ {r}
    /\ IF Owned(r)
       THEN UNCHANGED <<records, storedAt>>
       ELSE /\ records' = [records EXCEPT ![r.name] = r]
            /\ storedAt' = [storedAt EXCEPT ![r.name] = now]
    /\ UNCHANGED <<now, issued, lastCleanup>>

\* Every tick of the ticker removes every expired entry.  In the
\* variant only one is removed.
cleanup_First ==
    /\ now = lastCleanup + CleanupEvery
    /\ lastCleanup' = now
    /\ LET old == {n \in Names : records[n] # None /\ IsExpired(records[n])}
       IN  records' = [n \in Names |->
                IF old # {} /\ n = CHOOSE m \in old : TRUE THEN None ELSE records[n]]
    /\ UNCHANGED <<now, issued, checked, storedAt>>

cleanup ==
    /\ now = lastCleanup + CleanupEvery
    /\ lastCleanup' = now
    /\ records' = [n \in Names |->
            IF records[n] # None /\ IsExpired(records[n]) THEN None ELSE records[n]]
    /\ UNCHANGED <<now, issued, checked, storedAt>>

\* The clock does not run past a tick of the ticker: the goroutine is assumed
\* to wake up within the time unit in which its ticker fires.  In the variant
\* it was never started.
Tick_NoCleanupLoop ==
    /\ now < MaxTime
    /\ now' = now + 1
    /\ UNCHANGED <<records, issued, checked, lastCleanup, storedAt>>

Tick ==
    /\ now < MaxTime
    /\ now < lastCleanup + CleanupEvery
    /\ now' = now + 1
    /\ UNCHANGED <<records, issued, checked, lastCleanup, storedAt>>

Put == \E r \in issued \cup {Torn(x) : x \in issued} : PutCheck(r) \/ PutStore(r)

Next ==
    \/ Tick
    \/ cleanup
    \/ Put
    \/ \E k \in Keys, n \in Names, g \in GroupKeys \cup {NoGroup}, ttl \in TTLs :
            CreateRecord(k, n, g, ttl)

Spec == Init /\ [][Next]_vars

-----------------------------------------------------------------------------
\* The shape of the state.
TypeOK ==
    /\ lastCleanup \in Nat
    /\ now \in lastCleanup..(lastCleanup + CleanupEvery)
    /\ records \in [Names -> Records \cup {None}]
    /\ issued \subseteq Records
    /\ checked \subseteq Records
    /\ storedAt \in [Names -> Nat]

\* Every entry is, under its own name, a record that its owner signed exactly
\* like this, whatever STOREs carry, and although the checks are made on a copy
\* and before the lock.
StoredAsSigned ==
    \A n \in Names : records[n] # None =>
        records[n].name = n /\ records[n] \in issued

\* An entry outlives its expiry (or, if Put's checks were passed just before
\* the expiry, its insertion) by at most one period of the ticker: after that
\* the name can be registered again.
BlockedAtMostOnePeriod ==
    \A n \in Names : records[n] # None =>
        \/ now <= records[n].expires + CleanupEvery
        \/ now <= storedAt[n] + CleanupEvery

\* What a reader sees: a name never passes from one key to another from one
\* moment to the next, there is always a time in between when Get finds nothing.
OwnerChangesThroughNobody ==
    [][\A n \in Names : Get(n) # None /\ Get(n)' # None
            => Get(n)'.publicKey = Get(n).publicKey]_vars

\* The abstract promise: names are leases.
Lease == INSTANCE NameLease WITH
    Free <- None,
    lease <- [n \in Names |->
                IF records[n] = None THEN None
                ELSE [key |-> records[n].publicKey, until |-> records[n].expires]]

LeaseSpec == Lease!Spec

=============================================================================
