-------------------------- MODULE RecordStoreProofs --------------------------
(***************************************************************************)
(* The record store grants names as leases, for any number of names, keys  *)
(* and records, any lifetimes and any cleanup period.                      *)
(***************************************************************************)
EXTENDS RecordStore, TLAPS

\* Only genuine records wait for the lock: Put's checks on its own copy are as
\* good as checks under the lock would be, signatures do not go stale.
CheckedAreIssued ==
    /\ checked \subseteq issued
    /\ \A r \in issued : r.signature = "good"

\* An entry that has survived a cleanup had not expired then, unless it is
\* younger.
SurvivedCleanup ==
    \A n \in Names : records[n] # None =>
        \/ records[n].expires >= lastCleanup
        \/ storedAt[n] >= lastCleanup

IInv == TypeOK /\ CheckedAreIssued /\ StoredAsSigned /\ SurvivedCleanup

LEMMA PutAlternatives ==
    ASSUME NEW r \in issued \cup {Torn(x) : x \in issued}, CheckedAreIssued,
           PutCheck(r)
    PROVE  r \in issued
<1>1. r.signature = "good"
  BY DEF PutCheck, Verify
<1>2. ASSUME NEW x \in issued PROVE Torn(x).signature # "good"
  BY DEF Torn
<1> QED
  BY <1>1, <1>2

LEMMA InitIInv == Init => IInv
BY StoreAssumption DEF Init, IInv, TypeOK, CheckedAreIssued, StoredAsSigned,
                       SurvivedCleanup

LEMMA NextIInv == IInv /\ [Next]_vars => IInv'
<1> SUFFICES ASSUME IInv, [Next]_vars PROVE IInv'
  OBVIOUS
<1> USE StoreAssumption DEF IInv, TypeOK, CheckedAreIssued, StoredAsSigned,
                            SurvivedCleanup
<1>1. CASE Tick
  BY <1>1 DEF Tick
<1>2. CASE cleanup
  <2>1. TypeOK' /\ CheckedAreIssued' /\ StoredAsSigned'
    BY <1>2 DEF cleanup
  <2>2. ASSUME NEW n \in Names, records'[n] # None
        PROVE  records'[n].expires >= lastCleanup'
    <3>1. /\ records'[n] = records[n] /\ ~IsExpired(records[n])
          /\ lastCleanup' = now
      BY <1>2, <2>2 DEF cleanup
    <3>2. records[n].expires \in Int /\ now \in Int
      BY <2>2, <3>1 DEF Records
    <3> QED
      BY <3>1, <3>2 DEF IsExpired
  <2> QED
    BY <2>1, <2>2
<1>3. ASSUME NEW r \in issued \cup {Torn(x) : x \in issued}, PutCheck(r)
      PROVE  IInv'
  <2>1. r \in issued
    BY <1>3, PutAlternatives
  <2> QED
    BY <1>3, <2>1 DEF PutCheck
<1>4. ASSUME NEW r \in issued \cup {Torn(x) : x \in issued}, PutStore(r)
      PROVE  IInv'
  <2>1. r \in issued /\ r \in Records /\ r.name \in Names
    BY <1>4 DEF PutStore, Records
  <2>2. CASE Owned(r)
    BY <1>4, <2>2 DEF PutStore
  <2>3. CASE ~Owned(r)
    <3>1. /\ records' = [records EXCEPT ![r.name] = r]
          /\ storedAt' = [storedAt EXCEPT ![r.name] = now]
          /\ UNCHANGED <<now, issued, lastCleanup>>
          /\ checked' = checked \ {r}
      BY <1>4, <2>3 DEF PutStore
    <3>2. TypeOK' /\ CheckedAreIssued'
      BY <2>1, <3>1
    <3>3. StoredAsSigned'
      BY <2>1, <3>1
    <3>4. SurvivedCleanup'
      BY <2>1, <3>1
    <3> QED
      BY <3>2, <3>3, <3>4
  <2> QED
    BY <2>2, <2>3
<1>5. ASSUME NEW k \in Keys, NEW n \in Names, NEW g \in GroupKeys \cup {NoGroup},
             NEW ttl \in TTLs, CreateRecord(k, n, g, ttl)
      PROVE  IInv'
  <2>0. now + ttl \in Int
    <3>1. lastCleanup \in Int /\ CleanupEvery \in Int
      OBVIOUS
    <3>2. now \in Int
      BY <3>1
    <3>3. ttl \in Int
      OBVIOUS
    <3> QED
      BY <3>2, <3>3
  <2>1. [name |-> n, publicKey |-> k, groupKey |-> g, expires |-> now + ttl,
         signature |-> "good"] \in Records
    <3> HIDE DEF IInv, TypeOK, CheckedAreIssued, StoredAsSigned, SurvivedCleanup
    <3> QED
      BY <2>0 DEF Records
  <2> QED
    BY <1>5, <2>1 DEF CreateRecord
<1>6. CASE UNCHANGED vars
  BY <1>6 DEF vars
<1> QED
  BY <1>1, <1>2, <1>3, <1>4, <1>5, <1>6 DEF Next, Put

LEMMA InvariantHolds == Spec => []IInv
BY InitIInv, NextIInv, PTL DEF Spec

\* The state of a store always has its shape.
THEOREM StoreTypes == Spec => []TypeOK
BY InvariantHolds, PTL DEF IInv

\* Every stored record is one its owner signed, although Put verifies before
\* it takes the lock.
THEOREM OnlySignedRecords == Spec => []StoredAsSigned
BY InvariantHolds, PTL DEF IInv

\* A name is blocked by a dead entry for one cleanup period at most.
THEOREM CleanupIsPrompt == Spec => []BlockedAtMostOnePeriod
<1>1. IInv => BlockedAtMostOnePeriod
  <2> SUFFICES ASSUME IInv, NEW n \in Names, records[n] # None
               PROVE  \/ now <= records[n].expires + CleanupEvery
                      \/ now <= storedAt[n] + CleanupEvery
    BY DEF BlockedAtMostOnePeriod
  <2>1. /\ lastCleanup \in Nat /\ now \in Int
        /\ now <= lastCleanup + CleanupEvery
        /\ CleanupEvery \in Nat
        /\ records[n].expires \in Int /\ storedAt[n] \in Nat
    BY StoreAssumption DEF IInv, TypeOK, Records
  <2>2. records[n].expires >= lastCleanup \/ storedAt[n] >= lastCleanup
    BY DEF IInv, SurvivedCleanup
  <2> QED
    BY <2>1, <2>2
<1> QED
  BY <1>1, InvariantHolds, PTL

\* What a step does to the entry of one name.
EntryStep(n) ==
    \/ records'[n] = records[n]
    \/ records'[n] = None /\ IsExpired(records[n])
    \/ /\ records'[n] \in Records
       /\ records[n] # None => records'[n].publicKey = records[n].publicKey

LEMMA EveryEntryStep ==
    ASSUME IInv, [Next]_vars, NEW n \in Names
    PROVE  EntryStep(n)
<1> USE DEF IInv, TypeOK, EntryStep
<1>1. CASE Tick
  BY <1>1 DEF Tick
<1>2. CASE cleanup
  BY <1>2 DEF cleanup
<1>3. ASSUME NEW r \in issued \cup {Torn(x) : x \in issued}, PutCheck(r)
      PROVE  EntryStep(n)
  BY <1>3 DEF PutCheck
<1>4. ASSUME NEW r \in issued \cup {Torn(x) : x \in issued}, PutStore(r)
      PROVE  EntryStep(n)
  BY <1>4 DEF PutStore, Owned, CheckedAreIssued
<1>5. ASSUME NEW k \in Keys, NEW m \in Names, NEW g \in GroupKeys \cup {NoGroup},
             NEW ttl \in TTLs, CreateRecord(k, m, g, ttl)
      PROVE  EntryStep(n)
  BY <1>5 DEF CreateRecord
<1>6. CASE UNCHANGED vars
  BY <1>6 DEF vars
<1> QED
  BY <1>1, <1>2, <1>3, <1>4, <1>5, <1>6 DEF Next, Put

\* A reader never sees a name pass from one key directly to another.
THEOREM NoDirectHandover == Spec => OwnerChangesThroughNobody
<1>1. IInv /\ [Next]_vars =>
        [\A n \in Names : Get(n) # None /\ Get(n)' # None
            => Get(n)'.publicKey = Get(n).publicKey]_vars
  <2> SUFFICES ASSUME IInv, [Next]_vars, NEW n \in Names,
                      Get(n) # None, Get(n)' # None
               PROVE  Get(n)'.publicKey = Get(n).publicKey
    OBVIOUS
  <2>1. /\ Get(n) = records[n] /\ records[n] # None
        /\ Get(n)' = records'[n] /\ records'[n] # None
    BY DEF Get
  <2>2. EntryStep(n)
    BY EveryEntryStep
  <2> QED
    BY <2>1, <2>2 DEF EntryStep
<1> QED
  BY <1>1, InvariantHolds, PTL DEF Spec, OwnerChangesThroughNobody

-----------------------------------------------------------------------------
\* Every step of the store is a step of the lease of names, or leaves it alone.
LEMMA StepImplementsLease == IInv /\ [Next]_vars => [Lease!Next]_(Lease!vars)
<1> SUFFICES ASSUME IInv, [Next]_vars PROVE [Lease!Next]_(Lease!vars)
  OBVIOUS
<1> DEFINE LeaseOf(r) == IF r = None THEN None
                         ELSE [key |-> r.publicKey, until |-> r.expires]
           lease == [n \in Names |-> LeaseOf(records[n])]
           leaseNext == [n \in Names |-> LeaseOf(records'[n])]
<1> USE DEF IInv, TypeOK, Lease!vars
<1>1. CASE Tick
  BY <1>1 DEF Tick, Lease!Next, Lease!Pass
<1>2. CASE cleanup
  <2>1. UNCHANGED now
    BY <1>2 DEF cleanup
  <2>2. ASSUME NEW n \in Names
        PROVE  leaseNext[n] = IF lease[n] # None /\ now > lease[n].until
                              THEN None ELSE lease[n]
    <3>1. CASE records[n] = None
      BY <1>2, <3>1 DEF cleanup
    <3>2. CASE records[n] # None
      <4>1. lease[n] = [key |-> records[n].publicKey, until |-> records[n].expires]
        BY <3>2
      <4>2. lease[n] # None /\ lease[n].until = records[n].expires
        BY <3>2, <4>1, StoreAssumption DEF Records
      <4>3. records'[n] = IF IsExpired(records[n]) THEN None ELSE records[n]
        BY <1>2, <3>2 DEF cleanup
      <4> QED
        BY <3>2, <4>1, <4>2, <4>3 DEF IsExpired
    <3> QED
      BY <3>1, <3>2
  <2>3. Lease!TakeBack
    BY <2>1, <2>2 DEF Lease!TakeBack, Lease!RunOut
  <2> QED
    BY <2>3 DEF Lease!Next
<1>3. ASSUME NEW r \in issued \cup {Torn(x) : x \in issued}, PutCheck(r)
      PROVE  UNCHANGED Lease!vars
  BY <1>3 DEF PutCheck
<1>4. ASSUME NEW r \in issued \cup {Torn(x) : x \in issued}, PutStore(r)
      PROVE  [Lease!Next]_(Lease!vars)
  <2>1. r \in Records /\ r.name \in Names /\ UNCHANGED now
    BY <1>4 DEF PutStore, Records, CheckedAreIssued
  <2>2. CASE Owned(r)
    BY <1>4, <2>2 DEF PutStore
  <2>3. CASE ~Owned(r)
    <3> DEFINE n == r.name
    <3>1. records' = [records EXCEPT ![n] = r]
      BY <1>4, <2>3 DEF PutStore
    <3>2. r # None
      BY <2>1, StoreAssumption
    <3>3. leaseNext[n] = [key |-> r.publicKey, until |-> r.expires]
      BY <2>1, <3>1, <3>2
    <3>4. leaseNext[n] \in [key : Keys, until : Int]
      BY <2>1, <3>3 DEF Records
    <3>5. lease[n] # None => leaseNext[n].key = lease[n].key
      BY <2>1, <2>3, <3>3 DEF Owned
    <3>6. leaseNext = [lease EXCEPT ![n] = leaseNext[n]]
      BY <2>1, <3>1
    <3>7. Lease!Grant(n)
      BY <2>1, <3>4, <3>5, <3>6 DEF Lease!Grant
    <3> QED
      BY <2>1, <3>7 DEF Lease!Next
  <2> QED
    BY <2>2, <2>3
<1>5. ASSUME NEW k \in Keys, NEW m \in Names, NEW g \in GroupKeys \cup {NoGroup},
             NEW ttl \in TTLs, CreateRecord(k, m, g, ttl)
      PROVE  UNCHANGED Lease!vars
  BY <1>5 DEF CreateRecord
<1>6. CASE UNCHANGED vars
  BY <1>6 DEF vars
<1> QED
  BY <1>1, <1>2, <1>3, <1>4, <1>5, <1>6 DEF Next, Put

\* The store implements leases: a name changes hands only after the record
\* that holds it has expired and was cleaned up.
THEOREM StoreImplementsLease == Spec => LeaseSpec
<1>1. Init => Lease!Init
  BY DEF Init, Lease!Init
<1> QED
  BY <1>1, InvariantHolds, StepImplementsLease, PTL DEF Spec, LeaseSpec, Lease!Spec
=============================================================================
