---------------------------- MODULE AnnounceProofs ----------------------------
(***************************************************************************)
(* A store that took a record keeps it, and not for longer than it lives,  *)
(* for any number of nodes and contending owners, any lifetime and any     *)
(* interval, whatever is lost and whoever restarts.                        *)
(***************************************************************************)
EXTENDS Announce, TLAPS

OwnRecords == \A n \in Owners : record[n].key = n

\* The STOREs under way are of this run of their owner or of an earlier one, and
\* have no more time left than what the owner made last: every record gets the
\* same time when it is made.
SentAreNotNewer ==
    \A m \in inflight :
        m.record.key \in Owners /\ m.record.left <= record[m.record.key].left

\* A node sends its record to other nodes only: no late STORE gets into the
\* store of its own owner.
SentToOthers ==
    /\ \A n \in Owners : n \notin targets[n]
    /\ \A m \in inflight : m.to # m.record.key

IInv ==
    /\ TypeOK /\ OwnRecords /\ SentAreNotNewer /\ SentToOthers
    /\ KeptUntilExpiry /\ SendsOnlyWhatItServes /\ NoCopyOutlivesRecord

\* The part of IInv that speaks of records.
RecordInv ==
    /\ OwnRecords /\ SentAreNotNewer /\ SentToOthers
    /\ KeptUntilExpiry /\ SendsOnlyWhatItServes /\ NoCopyOutlivesRecord

LEMMA InitIInv == Init => IInv
BY AnnounceAssumption
   DEF Init, IInv, TypeOK, Records, OwnRecords, SentAreNotNewer, SentToOthers, KeptUntilExpiry,
       SendsOnlyWhatItServes, NoCopyOutlivesRecord

-----------------------------------------------------------------------------
\* One Put that the store accepts, of the record an owner has or of an older one.
LEMMA PutKeeps ==
    ASSUME TypeOK, OwnRecords, KeptUntilExpiry, SendsOnlyWhatItServes,
           NoCopyOutlivesRecord,
           NEW p \in Nodes, NEW r \in Records, r.left <= record[r.key].left,
           r = record[r.key] \/ p # r.key,
           Put(p, r), Took(p, r)
    PROVE  /\ store' \in [Nodes -> {x \in Records : ~IsExpired(x)} \cup {None}]
           /\ accepted' \in [Owners -> SUBSET Nodes]
           /\ store'[p] = r
           /\ \A n \in Owners : \A q \in accepted'[n] :
                ~IsExpired(record[n]) => store'[q] = record[n]
           /\ \A n \in Owners : pc[n] \in {"lookup", "send"} => store'[n] = record[n]
           /\ \A q \in Nodes : store'[q] # None =>
                store'[q].left <= record[store'[q].key].left
<1> USE AnnounceAssumption
<1> DEFINE k == r.key
<1>1. /\ k \in Owners /\ r # None /\ ~IsExpired(r)
      /\ record[k] \in Records /\ record[k].key = k
  BY DEF TypeOK, OwnRecords, Put, Records
<1>2. /\ store' = [store EXCEPT ![p] = r]
      /\ store \in [Nodes -> {x \in Records : ~IsExpired(x)} \cup {None}]
      /\ store[p] # None => store[p].key = k
  BY DEF Put, TypeOK
<1>3. /\ accepted' = [accepted EXCEPT ![k] =
                        IF r = record[k] THEN accepted[k] \cup {p} ELSE accepted[k] \ {p}]
      /\ accepted \in [Owners -> SUBSET Nodes]
  BY DEF Took, TypeOK
<1> HIDE DEF k
<1>4. ASSUME NEW n \in Owners, store[p] = record[n]
      PROVE  n = k
  BY <1>2, <1>4 DEF TypeOK, OwnRecords, Records
<1>5. ASSUME NEW n \in Owners, NEW q \in accepted'[n], ~IsExpired(record[n])
      PROVE  store'[q] = record[n]
  <2>1. CASE n = k /\ q = p
    <3>1. r = record[k]
      BY <1>1, <1>3, <1>5, <2>1
    <3> QED
      BY <1>2, <2>1, <3>1
  <2>2. CASE ~(n = k /\ q = p)
    <3>1. q \in accepted[n] /\ q \in Nodes
      BY <1>1, <1>3, <1>5, <2>2
    <3>2. store[q] = record[n]
      BY <1>5, <3>1 DEF KeptUntilExpiry
    <3>3. q # p
      BY <1>4, <2>2, <3>2
    <3> QED
      BY <1>2, <3>1, <3>2, <3>3
  <2> QED
    BY <2>1, <2>2
<1>6. ASSUME NEW n \in Owners, pc[n] \in {"lookup", "send"}
      PROVE  store'[n] = record[n]
  <2>1. store[n] = record[n] /\ n \in Nodes
    BY <1>6 DEF SendsOnlyWhatItServes
  <2>2. n = p => n = k
    BY <1>4, <2>1
  <2> QED
    BY <1>2, <2>1, <2>2 DEF k
<1>7. ASSUME NEW q \in Nodes, store'[q] # None
      PROVE  store'[q].left <= record[store'[q].key].left
  <2>1. CASE q = p
    BY <1>2, <2>1
  <2>2. CASE q # p
    BY <1>2, <1>7, <2>2 DEF NoCopyOutlivesRecord
  <2> QED
    BY <2>1, <2>2
<1>8. store' \in [Nodes -> {x \in Records : ~IsExpired(x)} \cup {None}]
  BY <1>1, <1>2
<1>9. accepted' \in [Owners -> SUBSET Nodes]
  BY <1>1, <1>3
<1> QED
  BY <1>2, <1>5, <1>6, <1>7, <1>8, <1>9

LEMMA OlderFacts ==
    ASSUME NEW r \in Records
    PROVE  /\ Older(r) \in Records /\ Older(r).key = r.key
           /\ r.left >= 0 => Older(r).left = r.left - 1
           /\ r.left < 0 => Older(r).left = r.left
BY AnnounceAssumption DEF Older, Records

LEMMA RecordsAreNotNone == None \notin Records
BY AnnounceAssumption DEF Records

-----------------------------------------------------------------------------
\* The shape of the state, action by action.
LEMMA NextTypeOK ==
    ASSUME TypeOK, OwnRecords, SentAreNotNewer, SentToOthers, KeptUntilExpiry,
           SendsOnlyWhatItServes, NoCopyOutlivesRecord, [Next]_vars
    PROVE  TypeOK'
<1> USE AnnounceAssumption
<1>1. ASSUME NEW n \in Nodes, Start(n) PROVE TypeOK'
  <2>1. CASE n \in Owners
    <3>1. record' \in [Owners -> Records]
      <4>1. [record[n] EXCEPT !.left = RecordTTL] \in Records
        BY <2>1 DEF TypeOK, Records
      <4> QED
        BY <1>1, <2>1, <4>1 DEF Start, TypeOK
    <3> QED
      BY <1>1, <2>1, <3>1 DEF Start, TypeOK
  <2>2. CASE n \notin Owners
    BY <1>1, <2>2 DEF Start, TypeOK
  <2> QED
    BY <2>1, <2>2
<1>2. ASSUME NEW n \in Nodes, Crash(n) PROVE TypeOK'
  <2>1. /\ running' \subseteq Nodes /\ knows' \in [Nodes -> SUBSET Nodes]
        /\ store' \in [Nodes -> {r \in Records : ~IsExpired(r)} \cup {None}]
        /\ record' = record
        /\ inflight' \subseteq [to : Nodes, record : Records]
        /\ accepted' \in [Owners -> SUBSET Nodes]
    BY <1>2 DEF Crash, TypeOK
  <2>2. /\ ticker' \in [Owners -> 0..reannounceInterval \cup {None}]
        /\ pc' \in [Owners -> {"idle", "put", "lookup", "send"}]
        /\ targets' \in [Owners -> SUBSET Nodes]
    BY <1>2 DEF Crash, TypeOK
  <2> QED
    BY <2>1, <2>2 DEF TypeOK, IsExpired
<1>3. ASSUME NEW n \in Nodes, NEW p \in Nodes, Connect(n, p) \/ Forget(n, p)
      PROVE  TypeOK'
  <2>1. knows' \in [Nodes -> SUBSET Nodes]
    BY <1>3 DEF Connect, Forget, TypeOK
  <2> QED
    BY <1>3, <2>1 DEF Connect, Forget, TypeOK
<1>4. ASSUME NEW n \in Owners, AnnouncePut(n) PROVE TypeOK'
  <2>1. CASE Put(n, record[n]) /\ Took(n, record[n])
    <3>1. /\ record[n] \in Records /\ record[n].key = n
          /\ record[n].left <= record[record[n].key].left /\ n \in Nodes
      BY DEF TypeOK, OwnRecords, Records
    <3>2. /\ store' \in [Nodes -> {r \in Records : ~IsExpired(r)} \cup {None}]
          /\ accepted' \in [Owners -> SUBSET Nodes]
      BY <2>1, <3>1, PutKeeps
    <3> QED
      BY <1>4, <3>2 DEF AnnouncePut, AnnounceOver, nodeState, TypeOK
  <2>2. CASE UNCHANGED <<store, accepted>>
    BY <1>4, <2>2 DEF AnnouncePut, AnnounceOver, nodeState, TypeOK
  <2> QED
    BY <1>4, <2>1, <2>2 DEF AnnouncePut
<1>5. ASSUME NEW n \in Owners, AnnounceLookup(n) PROVE TypeOK'
  BY <1>5 DEF AnnounceLookup, Heard, TypeOK
<1>6. ASSUME NEW n \in Owners, NEW p \in Nodes, SendStore(n, p) PROVE TypeOK'
  <2>1. [to |-> p, record |-> record[n]] \in [to : Nodes, record : Records]
    BY DEF TypeOK
  <2> QED
    BY <1>6, <2>1 DEF SendStore, nodeState, TypeOK
<1>7. ASSUME NEW n \in Owners, NEW p \in Nodes, SendStoreError(n, p) PROVE TypeOK'
  BY <1>7 DEF SendStoreError, nodeState, TypeOK
<1>8. ASSUME NEW n \in Owners, AnnounceSent(n) \/ Reannounce(n) PROVE TypeOK'
  BY <1>8 DEF AnnounceSent, AnnounceOver, Reannounce, nodeState, TypeOK
<1>9. ASSUME NEW m \in inflight, handleStore(m) PROVE TypeOK'
  <2>1. CASE Put(m.to, m.record) /\ Took(m.to, m.record)
    <3>1. /\ m.record \in Records /\ m.to \in Nodes /\ m.to # m.record.key
          /\ m.record.left <= record[m.record.key].left
      BY DEF SentAreNotNewer, SentToOthers, TypeOK
    <3>2. /\ store' \in [Nodes -> {r \in Records : ~IsExpired(r)} \cup {None}]
          /\ accepted' \in [Owners -> SUBSET Nodes]
      BY <2>1, <3>1, PutKeeps
    <3> QED
      BY <1>9, <3>2 DEF handleStore, nodeState, TypeOK, SentAreNotNewer
  <2>2. CASE UNCHANGED <<store, accepted>>
    BY <1>9, <2>2 DEF handleStore, nodeState, TypeOK, SentAreNotNewer
  <2> QED
    BY <1>9, <2>1, <2>2 DEF handleStore
<1>10. CASE Tick
  <2>1. record' \in [Owners -> Records]
    BY <1>10, OlderFacts DEF Tick, TypeOK
  <2>2. store' \in [Nodes -> {r \in Records : ~IsExpired(r)} \cup {None}]
    BY <1>10, OlderFacts DEF Tick, TypeOK
  <2>3. ticker' \in [Owners -> 0..reannounceInterval \cup {None}]
    BY <1>10 DEF Tick, Quiet, TypeOK
  <2> QED
    BY <1>10, <2>1, <2>2, <2>3 DEF Tick, nodeState, TypeOK
<1>11. CASE UNCHANGED vars
  BY <1>11 DEF vars, TypeOK
<1> QED
  BY <1>1, <1>2, <1>3, <1>4, <1>5, <1>6, <1>7, <1>8, <1>9, <1>10, <1>11
     DEF Next, Announcing, Send, Handling

-----------------------------------------------------------------------------
\* What a step does to the records: a start gives one owner a new record and
\* forgets who had the old one, a crash empties one store, ...
LEMMA NextRecordInv ==
    ASSUME TypeOK, RecordInv, [Next]_vars
    PROVE  RecordInv'
<1> USE AnnounceAssumption DEF RecordInv
<1>1. ASSUME NEW n \in Nodes, Start(n) PROVE RecordInv'
  <2>1. CASE n \in Owners
    <3>1. /\ record' = [record EXCEPT ![n].left = RecordTTL]
          /\ pc' = [pc EXCEPT ![n] = "put"]
          /\ accepted' = [accepted EXCEPT ![n] = {}]
          /\ UNCHANGED <<store, inflight, targets>>
      BY <1>1, <2>1 DEF Start
    <3>2. /\ \A o \in Owners : o # n => record'[o] = record[o]
          /\ record'[n].left = RecordTTL /\ record'[n].key = n
      BY <2>1, <3>1 DEF TypeOK, OwnRecords, Records
    <3>3. OwnRecords' /\ SentAreNotNewer' /\ SentToOthers'
      <4>1. \A m \in inflight : m.record.left <= RecordTTL /\ m.record.left \in Int
        BY DEF TypeOK, Records
      <4> QED
        BY <3>1, <3>2, <4>1 DEF OwnRecords, SentAreNotNewer, SentToOthers
    <3>4. KeptUntilExpiry' /\ SendsOnlyWhatItServes'
      BY <3>1, <3>2 DEF KeptUntilExpiry, SendsOnlyWhatItServes, TypeOK
    <3>5. NoCopyOutlivesRecord'
      <4> SUFFICES ASSUME NEW p \in Nodes, store[p] # None
                   PROVE  store[p].left <= record'[store[p].key].left
        BY <3>1 DEF NoCopyOutlivesRecord
      <4>1. store[p].key \in Owners /\ store[p].left <= RecordTTL
        BY DEF TypeOK, Records
      <4> QED
        BY <3>2, <4>1 DEF NoCopyOutlivesRecord
    <3> QED
      BY <3>3, <3>4, <3>5
  <2>2. CASE n \notin Owners
    BY <1>1, <2>2 DEF Start, OwnRecords, SentAreNotNewer, SentToOthers, KeptUntilExpiry,
                      SendsOnlyWhatItServes, NoCopyOutlivesRecord
  <2> QED
    BY <2>1, <2>2
<1>2. ASSUME NEW n \in Nodes, Crash(n) PROVE RecordInv'
  <2>1. /\ store' = [store EXCEPT ![n] = None]
        /\ accepted' = [o \in Owners |-> accepted[o] \ {n}]
        /\ inflight' \subseteq inflight
        /\ \A o \in Owners : targets'[o] \subseteq targets[o]
        /\ record' = record
        /\ \A o \in Owners : pc'[o] \in {"lookup", "send"} => o # n /\ pc'[o] = pc[o]
    BY <1>2 DEF Crash, TypeOK
  <2>2. \A p \in Nodes : p # n => store'[p] = store[p]
    BY <2>1 DEF TypeOK
  <2>3. store'[n] = None
    BY <2>1 DEF TypeOK
  <2>4. OwnRecords' /\ SentAreNotNewer' /\ SentToOthers'
    BY <2>1 DEF OwnRecords, SentAreNotNewer, SentToOthers
  <2>5. KeptUntilExpiry'
    BY <2>1, <2>2 DEF KeptUntilExpiry, TypeOK
  <2>6. SendsOnlyWhatItServes' /\ NoCopyOutlivesRecord'
    BY <2>1, <2>2, <2>3 DEF SendsOnlyWhatItServes, NoCopyOutlivesRecord
  <2> QED
    BY <2>4, <2>5, <2>6
<1>3. ASSUME NEW n \in Owners, AnnouncePut(n) PROVE RecordInv'
  <2>1. /\ record' = record /\ inflight' = inflight /\ targets' = targets
        /\ \A o \in Owners : o # n => pc'[o] = pc[o]
    BY <1>3 DEF AnnouncePut, AnnounceOver, TypeOK
  <2>2. CASE Put(n, record[n]) /\ Took(n, record[n])
    <3>0. /\ record[n] \in Records /\ record[n].key = n
          /\ record[n].left <= record[record[n].key].left /\ n \in Nodes
      BY DEF TypeOK, OwnRecords, Records
    <3>1. /\ store'[n] = record[n]
          /\ \A o \in Owners : \A q \in accepted'[o] :
                ~IsExpired(record[o]) => store'[q] = record[o]
          /\ \A o \in Owners : pc[o] \in {"lookup", "send"} => store'[o] = record[o]
          /\ \A q \in Nodes : store'[q] # None =>
                store'[q].left <= record[store'[q].key].left
      BY <2>2, <3>0, PutKeeps
    <3>2. KeptUntilExpiry'
      BY <2>1, <2>2, <3>1 DEF KeptUntilExpiry, TypeOK
    <3>3. SendsOnlyWhatItServes' /\ NoCopyOutlivesRecord'
      BY <2>1, <3>1 DEF SendsOnlyWhatItServes, NoCopyOutlivesRecord
    <3> QED
      BY <2>1, <3>2, <3>3 DEF OwnRecords, SentAreNotNewer, SentToOthers
  <2>3. CASE AnnounceOver(n) /\ UNCHANGED <<store, accepted>>
    <3>1. pc'[n] = "idle"
      BY <2>3 DEF AnnounceOver, TypeOK
    <3> QED
      BY <2>1, <2>3, <3>1 DEF OwnRecords, SentAreNotNewer, SentToOthers, KeptUntilExpiry,
                              SendsOnlyWhatItServes, NoCopyOutlivesRecord
  <2> QED
    BY <1>3, <2>2, <2>3 DEF AnnouncePut
<1>4. ASSUME NEW m \in inflight, handleStore(m) PROVE RecordInv'
  <2>1. /\ record' = record /\ inflight' \subseteq inflight /\ pc' = pc
        /\ targets' = targets
        /\ m.record \in Records /\ m.record.left <= record[m.record.key].left
        /\ m.to \in Nodes /\ m.to # m.record.key
    BY <1>4 DEF handleStore, SentAreNotNewer, SentToOthers, TypeOK
  <2>2. CASE Put(m.to, m.record) /\ Took(m.to, m.record)
    <3>1. /\ store'[m.to] = m.record
          /\ \A o \in Owners : \A q \in accepted'[o] :
                ~IsExpired(record[o]) => store'[q] = record[o]
          /\ \A o \in Owners : pc[o] \in {"lookup", "send"} => store'[o] = record[o]
          /\ \A q \in Nodes : store'[q] # None =>
                store'[q].left <= record[store'[q].key].left
      BY <2>1, <2>2, PutKeeps
    <3>2. KeptUntilExpiry'
      BY <2>1, <2>2, <3>1 DEF KeptUntilExpiry, TypeOK
    <3>3. SendsOnlyWhatItServes' /\ NoCopyOutlivesRecord'
      BY <2>1, <3>1 DEF SendsOnlyWhatItServes, NoCopyOutlivesRecord
    <3> QED
      BY <2>1, <3>2, <3>3 DEF OwnRecords, SentAreNotNewer, SentToOthers
  <2>3. CASE UNCHANGED <<store, accepted>>
    BY <2>1, <2>3 DEF OwnRecords, SentAreNotNewer, SentToOthers, KeptUntilExpiry,
                      SendsOnlyWhatItServes, NoCopyOutlivesRecord
  <2> QED
    BY <1>4, <2>2, <2>3 DEF handleStore
<1>5. CASE Tick
  <2>1. /\ inflight' = {} /\ accepted' = accepted /\ targets' = targets
        /\ \A n \in Owners : pc'[n] = "idle"
        /\ \A n \in Owners : record'[n] = Older(record[n])
        /\ \A p \in Nodes :
            \/ store'[p] = None
            \/ store[p] # None /\ store'[p] = Older(store[p])
        /\ \A p \in Nodes : store[p] # None /\ ~IsExpired(Older(store[p]))
            => store'[p] = Older(store[p])
    BY <1>5 DEF Tick, Quiet
  <2>2. OwnRecords' /\ SentAreNotNewer' /\ SentToOthers' /\ SendsOnlyWhatItServes'
    BY <2>1, OlderFacts
       DEF OwnRecords, SentAreNotNewer, SentToOthers, SendsOnlyWhatItServes, TypeOK
  <2>3. KeptUntilExpiry'
    <3> SUFFICES ASSUME NEW n \in Owners, NEW p \in accepted[n],
                        ~IsExpired(Older(record[n]))
                 PROVE  store'[p] = Older(record[n])
      BY <2>1 DEF KeptUntilExpiry
    <3>1. record[n] \in Records /\ p \in Nodes
      BY DEF TypeOK
    <3>2. ~IsExpired(record[n])
      BY <3>1, OlderFacts DEF IsExpired, Records
    <3>3. store[p] = record[n] /\ store[p] # None
      BY <3>1, <3>2, RecordsAreNotNone DEF KeptUntilExpiry
    <3> QED
      BY <2>1, <3>1, <3>3
  <2>4. NoCopyOutlivesRecord'
    <3> SUFFICES ASSUME NEW p \in Nodes, store'[p] # None
                 PROVE  store'[p].left <= record'[store'[p].key].left
      BY DEF NoCopyOutlivesRecord
    <3>1. store[p] # None /\ store'[p] = Older(store[p])
      BY <2>1
    <3>2. /\ store[p] \in Records /\ store[p].left >= 0 /\ store[p].key \in Owners
          /\ record[store[p].key] \in Records
      BY <3>1 DEF TypeOK, IsExpired, Records
    <3>3. store[p].left <= record[store[p].key].left
      BY <3>1 DEF NoCopyOutlivesRecord
    <3>4. /\ store'[p].left = store[p].left - 1 /\ store'[p].key = store[p].key
          /\ record'[store[p].key].left = record[store[p].key].left - 1
      BY <2>1, <3>1, <3>2, <3>3, OlderFacts DEF Records
    <3> QED
      BY <3>2, <3>3, <3>4 DEF Records
  <2> QED
    BY <2>2, <2>3, <2>4
<1>6. ASSUME NEW n \in Owners, NEW p \in Nodes, SendStore(n, p) PROVE RecordInv'
  <2>1. /\ inflight' = inflight \cup {[to |-> p, record |-> record[n]]}
        /\ p # n /\ record[n].key = n /\ record[n].left \in Int
        /\ \A o \in Owners : targets'[o] \subseteq targets[o]
        /\ record' = record
    BY <1>6 DEF SendStore, SentToOthers, OwnRecords, TypeOK, Records
  <2>2. SentAreNotNewer' /\ SentToOthers'
    BY <2>1 DEF SentAreNotNewer, SentToOthers
  <2> QED
    BY <1>6, <2>2 DEF SendStore, OwnRecords, KeptUntilExpiry, SendsOnlyWhatItServes,
                      NoCopyOutlivesRecord
<1>7. ASSUME UNCHANGED <<store, record, inflight, accepted>>,
             \A n \in Owners : pc'[n] \in {"lookup", "send"} =>
                                    pc[n] \in {"lookup", "send"},
             \A n \in Owners : n \notin targets'[n]
      PROVE  RecordInv'
  BY <1>7 DEF OwnRecords, SentAreNotNewer, SentToOthers, KeptUntilExpiry, SendsOnlyWhatItServes,
              NoCopyOutlivesRecord
<1>8. ASSUME NEW n \in Owners,
             AnnounceLookup(n) \/ AnnounceSent(n) \/ Reannounce(n)
      PROVE  RecordInv'
  <2>1. \A o \in Owners : o \notin targets'[o]
    BY <1>8 DEF AnnounceLookup, AnnounceSent, Reannounce, Heard, SentToOthers, TypeOK
  <2> QED
    BY <1>7, <1>8, <2>1
       DEF AnnounceLookup, AnnounceSent, AnnounceOver, Reannounce, TypeOK
<1>9. ASSUME NEW n \in Nodes, NEW p \in Nodes,
             \/ Connect(n, p) \/ Forget(n, p)
             \/ n \in Owners /\ SendStoreError(n, p)
      PROVE  RecordInv'
  <2>1. \A o \in Owners : o \notin targets'[o]
    BY <1>9 DEF Connect, Forget, SendStoreError, SentToOthers, TypeOK
  <2> QED
    BY <1>7, <1>9, <2>1 DEF Connect, Forget, SendStoreError
<1>10. CASE UNCHANGED vars
  BY <1>7, <1>10 DEF vars, SentToOthers
<1> QED
  BY <1>1, <1>2, <1>3, <1>4, <1>5, <1>6, <1>8, <1>9, <1>10
     DEF Next, Announcing, Send, Handling

LEMMA InvariantHolds == Spec => []IInv
<1>1. IInv /\ [Next]_vars => IInv'
  BY NextTypeOK, NextRecordInv DEF IInv, RecordInv
<1> QED
  BY InitIInv, <1>1, PTL DEF Spec

-----------------------------------------------------------------------------
\* The state of the nodes always has its shape; no store keeps an expired entry
\* past a unit of time.
THEOREM AnnounceTypes == Spec => []TypeOK
BY InvariantHolds, PTL DEF IInv

\* Put of dht/store.go protects what a store took: no contender displaces it
\* before it expires, and no STORE of the same run of its owner; only one of an
\* earlier run, which the restarted owner does not wait for, can.
THEOREM AcceptedIsKept == Spec => []KeptUntilExpiry
BY InvariantHolds, PTL DEF IInv

\* Announce of dht/lookup.go sends a record to other nodes only while the own
\* store serves it.
THEOREM ServesWhatItSends == Spec => []SendsOnlyWhatItServes
BY InvariantHolds, PTL DEF IInv

\* The Reannouncer of dht/announce.go never prolongs a copy beyond the record
\* its owner made last.
THEOREM CopiesExpire == Spec => []NoCopyOutlivesRecord
BY InvariantHolds, PTL DEF IInv
=============================================================================
