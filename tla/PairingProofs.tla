--------------------------- MODULE PairingProofs ---------------------------
(***************************************************************************)
(* Pairing and contacts, for any number of devices, codes and joiners, any *)
(* two deadlines and any number of failures of the hash table.             *)
(***************************************************************************)
EXTENDS Pairing, FiniteSetTheorems, TLAPS

-----------------------------------------------------------------------------
\* The contact book.  A Save under way has the whole book in its list, because
\* Add waits for it; what was saved is in the book; and on disk is all of it,
\* unless a Save is just writing it.
ListIsBook ==
    \A d \in Devices, u \in Users : save[d][u].step = "save" => save[d][u].list = book[d]

KeptInBook == \A d \in Devices : kept[d] \subseteq book[d]

DiskComplete ==
    \A d \in Devices :
        IF disk[d] = Unreadable THEN ReadLocked(d) ELSE kept[d] \subseteq disk[d]

BookInv == BookTypeOK /\ ListIsBook /\ KeptInBook /\ DiskComplete

BookStep ==
    \/ UNCHANGED bookVars
    \/ \E d \in Devices, u \in Users :
            SaveBegin(d, u) \/ SaveWrite(d, u) \/ \E c \in Devices : Add(d, u, c)

LEMMA BookInvInit == BookInit => BookInv
<1> SUFFICES ASSUME BookInit PROVE BookInv
  OBVIOUS
<1>1. BookTypeOK
  BY DEF BookInit, BookTypeOK
<1> QED
  BY <1>1, ContactsAssumption DEF BookInit, BookInv, ListIsBook, KeptInBook, DiskComplete

LEMMA BookStepKeepsInv ==
    ASSUME BookInv, BookStep
    PROVE  BookInv'
<1> USE DEF BookInv, BookTypeOK, ListIsBook, KeptInBook, DiskComplete, ReadLocked
<1>1. CASE UNCHANGED bookVars
  BY <1>1 DEF bookVars
<1>2. ASSUME NEW d \in Devices, NEW u \in Users, NEW c \in Devices, Add(d, u, c)
      PROVE  BookInv'
  <2>1. /\ \A e \in Devices, v \in Users : save[e][v].step = "save" =>
                save'[e][v] = save[e][v] /\ e # d
        /\ \A e \in Devices, v \in Users : save'[e][v].step = "save" =>
                save'[e][v] = save[e][v]
    BY <1>2 DEF Add
  <2>2. BookTypeOK'
    <3> DEFINE Saves1 == [step : {"none", "added", "save", "saved"}, list : SUBSET Devices]
    <3>0. save[d][u] \in Saves1
      OBVIOUS
    <3>1. [save[d][u] EXCEPT !.step = "added"] \in Saves1
      BY <3>0
    <3>2. [save[d] EXCEPT ![u] = [save[d][u] EXCEPT !.step = "added"]] \in [Users -> Saves1]
      BY <3>1
    <3>3. save' \in [Devices -> [Users -> Saves1]]
      BY <1>2, <3>2 DEF Add
    <3> QED
      BY <1>2, <3>3 DEF Add
  <2>3. /\ \A e \in Devices : book[e] \subseteq book'[e]
        /\ \A e \in Devices : e # d => book'[e] = book[e]
        /\ UNCHANGED <<disk, kept>>
    BY <1>2 DEF Add
  <2> QED
    BY <2>1, <2>2, <2>3
<1>3. ASSUME NEW d \in Devices, NEW u \in Users, SaveBegin(d, u)
      PROVE  BookInv'
  BY <1>3 DEF SaveBegin
<1>4. ASSUME NEW d \in Devices, NEW u \in Users, SaveWrite(d, u)
      PROVE  BookInv'
  <2> DEFINE list == save[d][u].list
  <2>1. /\ list = book[d] /\ list \in SUBSET Devices
        /\ disk' = [disk EXCEPT ![d] = list]
        /\ kept' = [kept EXCEPT ![d] = @ \cup list]
        /\ UNCHANGED book
    BY <1>4 DEF SaveWrite
  <2>2. \A e \in Devices, v \in Users :
            save'[e][v] = IF e = d /\ v = u THEN [step |-> "saved", list |-> {}]
                          ELSE save[e][v]
    BY <1>4 DEF SaveWrite
  <2>3. BookTypeOK'
    <3>1. save' \in [Devices -> [Users -> [step : {"none", "added", "save", "saved"},
                                           list : SUBSET Devices]]]
      BY <1>4 DEF SaveWrite
    <3> HIDE DEF list
    <3> QED
      BY <2>1, <3>1
  <2>4. disk'[d] # Unreadable /\ kept'[d] \subseteq disk'[d]
    <3> HIDE DEF list
    <3> QED
      BY <2>1, ContactsAssumption
  <2>5. ListIsBook' /\ KeptInBook'
    <3> HIDE DEF list
    <3>1. \A e \in Devices, v \in Users : save'[e][v].step = "save" =>
                save'[e][v] = save[e][v]
      BY <2>2
    <3>2. ListIsBook'
      BY <2>1, <3>1
    <3>3. \A e \in Devices : kept'[e] \subseteq kept[e] \cup (IF e = d THEN list ELSE {})
      BY <2>1
    <3>4. KeptInBook'
      BY <2>1, <3>3
    <3> QED
      BY <3>2, <3>4
  <2>6. DiskComplete'
    <3> HIDE DEF list
    <3> QED
      BY <2>1, <2>2, <2>4
  <2> QED
    BY <2>3, <2>5, <2>6
<1> QED
  BY <1>1, <1>2, <1>3, <1>4 DEF BookStep

LEMMA BookInvMeans == BookInv => SavedContactStays
  BY DEF BookInv, DiskComplete, SavedContactStays

-----------------------------------------------------------------------------
\* The exchange.
Entries == [by : Devices, left : 0..PairingTTL] \cup {None}

InitCalls ==
    [step : {"idle", "announce", "poll", "paired", "timedout"},
     code : Codes \cup {None}, partner : Devices \cup {None}, left : 0..PairingTimeout]

JoinCalls ==
    [step : {"idle", "respond", "announce", "joined"},
     code : Codes \cup {None}, partner : Devices \cup {None}, early : BOOLEAN]

ExchangeTypeOK ==
    /\ store \in [Devices -> [Names -> Entries]]
    /\ init \in [Initiators -> InitCalls]
    /\ join \in [Joiners -> JoinCalls]
    /\ targets \in [Users -> [Devices -> SUBSET Devices]]
    /\ lost \in 0..MaxLost

\* Whoever initiated has a code, and is done only when its time is up; whoever
\* joins does so under the code of an initiator.
InitiatorsKnow ==
    \A i \in Initiators :
        /\ IF init[i].step = "idle" THEN init[i].code = None ELSE init[i].code \in Codes
        /\ init[i].step = "timedout" => init[i].left = 0

JoinersKnow ==
    \A j \in Joiners :
        /\ join[j].step # "idle" => /\ join[j].code \in Codes
                                    /\ join[j].partner \in Initiators
                                    /\ init[join[j].partner].code = join[j].code
        /\ join[j].early => join[j].step = "joined"

\* The records that are about were announced by those who initiated with the
\* code, or joined with it.
CodesAreAnnounced ==
    \A d \in Devices, c \in Codes : store[d][Code(c)] # None =>
        LET i == store[d][Code(c)].by IN i \in Initiators /\ init[i].code = c

HasJoined(j, c) ==
    j \in Joiners /\ join[j].code = c /\ join[j].step \in {"announce", "joined"}

ResponsesAreAnnounced ==
    \A d \in Devices, c \in Codes :
        store[d][Response(c)] # None => HasJoined(store[d][Response(c)].by, c)

PartnersHaveJoined ==
    \A i \in Initiators :
        init[i].step = "paired" => HasJoined(init[i].partner, init[i].code)

\* As long as nothing is lost, a response is in every store it has been sent to,
\* and stays in that of an initiator whose partner was early until it is found.
ResponseReached ==
    lost = 0 =>
        \A j \in Joiners : join[j].step = "announce" =>
            \A d \in Devices \ targets["Join"][j] : store[d][Response(join[j].code)] # None

EarlyIsThere ==
    lost = 0 =>
        \A j \in Joiners : join[j].early =>
            LET i == join[j].partner IN
            \/ init[i].step = "paired"
            \/ /\ init[i].step \in {"announce", "poll"} /\ init[i].left > 0
               /\ store[i][Response(init[i].code)] # None

Answers == CodesAreAnnounced /\ ResponsesAreAnnounced

Timely == ResponseReached /\ EarlyIsThere

ExchangeInv ==
    /\ ExchangeTypeOK /\ InitiatorsKnow /\ JoinersKnow
    /\ Answers /\ PartnersHaveJoined /\ Timely

IInv == BookInv /\ ExchangeInv

-----------------------------------------------------------------------------
\* The names of codes and responses differ from one another.
LEMMA NamesDiffer ==
    /\ \A c \in Codes : Code(c) \in Names /\ Response(c) \in Names
    /\ \A c, d \in Codes : /\ Code(c) # Response(d)
                           /\ Code(c) = Code(d) => c = d
                           /\ Response(c) = Response(d) => c = d
  BY DEF Code, Response, Names

\* What Put and Send do to the entries.
NewEntry(d) == [by |-> d, left |-> PairingTTL]

LEMMA PutFacts ==
    ASSUME ExchangeTypeOK, NEW d \in Devices, NEW n \in Names, NEW owner \in Devices,
           Put(d, n, owner)
    PROVE  /\ store' \in [Devices -> [Names -> Entries]]
           /\ \A e \in Devices, m \in Names :
                store'[e][m] = IF e = d /\ m = n THEN NewEntry(owner) ELSE store[e][m]
           /\ NewEntry(owner) # None /\ NewEntry(owner).by = owner
<1>1. NewEntry(owner) \in [by : Devices, left : 0..PairingTTL]
  BY PairingAssumption DEF NewEntry
<1>2. NewEntry(owner) # None /\ NewEntry(owner).by = owner
  BY <1>1, PairingAssumption DEF NewEntry
<1>3. [store[d] EXCEPT ![n] = NewEntry(owner)] \in [Names -> Entries]
  BY <1>1 DEF ExchangeTypeOK, Entries
<1>4. store' = [store EXCEPT ![d] = [store[d] EXCEPT ![n] = NewEntry(owner)]]
  BY DEF Put, NewEntry
<1>5. store' \in [Devices -> [Names -> Entries]]
  BY <1>3, <1>4 DEF ExchangeTypeOK
<1>6. \A e \in Devices, m \in Names :
        store'[e][m] = IF e = d /\ m = n THEN NewEntry(owner) ELSE store[e][m]
  BY <1>4 DEF ExchangeTypeOK
<1> QED
  BY <1>2, <1>5, <1>6

\* After a Put, or in its place, there is an entry, and the others are as before.
EntryAdded(n, owner) ==
    /\ store' \in [Devices -> [Names -> Entries]]
    /\ \A e \in Devices, m \in Names :
        \/ store'[e][m] = store[e][m]
        \/ m = n /\ store'[e][m] # None /\ store'[e][m].by = owner

LEMMA AnnounceFacts ==
    ASSUME ExchangeTypeOK, NEW u \in Users, NEW d \in Devices, NEW n \in Names,
           Announce(u, d, n)
    PROVE  /\ EntryAdded(n, d) /\ store'[d][n] # None
           /\ targets' \in [Users -> [Devices -> SUBSET Devices]]
           /\ \A v \in Users, e \in Devices :
                v # u \/ e # d => targets'[v][e] = targets[v][e]
           /\ lost' \in 0..MaxLost
           /\ lost' = 0 => lost = 0 /\ targets'[u][d] = Devices \ {d}
<1>1. PICK reached \in SUBSET (Devices \ {d}) :
        /\ lost' = lost + Cardinality(Devices \ {d}) - Cardinality(reached)
        /\ lost' <= MaxLost
        /\ targets' = [targets EXCEPT ![u][d] = reached]
  BY DEF Announce
<1>2. EntryAdded(n, d) /\ store'[d][n] # None
  BY PutFacts DEF Announce, EntryAdded
<1>3. IsFiniteSet(Devices \ {d})
  BY ContactsAssumption, FS_Subset
<1>4. /\ Cardinality(Devices \ {d}) \in Nat /\ Cardinality(reached) \in Nat
      /\ Cardinality(reached) <= Cardinality(Devices \ {d})
      /\ Cardinality(reached) = Cardinality(Devices \ {d}) => reached = Devices \ {d}
  BY <1>3, FS_Subset, FS_CardinalityType
<1>5. /\ targets' \in [Users -> [Devices -> SUBSET Devices]]
      /\ targets'[u][d] = reached
      /\ \A v \in Users, e \in Devices : v # u \/ e # d => targets'[v][e] = targets[v][e]
  BY <1>1 DEF ExchangeTypeOK
<1>6. lost' \in 0..MaxLost /\ (lost' = 0 => lost = 0 /\ reached = Devices \ {d})
  <2> DEFINE all == Cardinality(Devices \ {d})
             some == Cardinality(reached)
  <2>1. /\ all \in Nat /\ some \in Nat /\ some <= all
        /\ lost' = lost + all - some /\ lost' <= MaxLost
        /\ lost \in Nat /\ MaxLost \in Nat
    BY <1>1, <1>4, PairingAssumption DEF ExchangeTypeOK
  <2> HIDE DEF all, some
  <2>2. lost' \in 0..MaxLost /\ (lost' = 0 => lost = 0 /\ some = all)
    BY <2>1
  <2> QED
    BY <2>2, <1>4 DEF all, some
<1> QED
  BY <1>2, <1>5, <1>6

LEMMA SendFacts ==
    ASSUME ExchangeTypeOK, NEW u \in Users, NEW d \in Devices, NEW n \in Names,
           Send(u, d, n)
    PROVE  \E e \in targets[u][d] :
            /\ EntryAdded(n, d) /\ store'[e][n] # None
            /\ targets' \in [Users -> [Devices -> SUBSET Devices]]
            /\ targets'[u][d] = targets[u][d] \ {e}
            /\ \A v \in Users, f \in Devices :
                v # u \/ f # d => targets'[v][f] = targets[v][f]
<1>1. PICK e \in targets[u][d] :
        /\ targets' = [targets EXCEPT ![u][d] = @ \ {e}]
        /\ IF Free(e, n, d) THEN Put(e, n, d) ELSE UNCHANGED store
  BY DEF Send
<1>2. e \in Devices
  BY DEF ExchangeTypeOK
<1>3. EntryAdded(n, d) /\ store'[e][n] # None
  <2>1. CASE Put(e, n, d)
    BY <1>2, <2>1, PutFacts DEF EntryAdded
  <2>2. CASE ~Free(e, n, d) /\ UNCHANGED store
    BY <1>2, <2>2 DEF EntryAdded, Free, ExchangeTypeOK
  <2> QED
    BY <1>1, <2>1, <2>2
<1>4. /\ targets' \in [Users -> [Devices -> SUBSET Devices]]
      /\ targets'[u][d] = targets[u][d] \ {e}
      /\ \A v \in Users, f \in Devices : v # u \/ f # d => targets'[v][f] = targets[v][f]
  BY <1>1 DEF ExchangeTypeOK
<1> QED
  BY <1>3, <1>4

-----------------------------------------------------------------------------
LEMMA ExchangeInit == Init => ExchangeInv
<1> SUFFICES ASSUME Init PROVE ExchangeInv
  OBVIOUS
<1>1. ExchangeTypeOK
  BY PairingAssumption DEF Init, ExchangeTypeOK, InitCalls, JoinCalls, Entries, NotJoining
<1>2. \A d \in Devices, n \in Names : store[d][n] = None
  BY DEF Init
<1>3. Answers
  BY <1>2, NamesDiffer DEF Answers, CodesAreAnnounced, ResponsesAreAnnounced
<1>4. InitiatorsKnow /\ JoinersKnow /\ PartnersHaveJoined
  BY DEF Init, InitiatorsKnow, JoinersKnow, PartnersHaveJoined, NotJoining
<1>5. Timely
  BY DEF Init, Timely, ResponseReached, EarlyIsThere, NotJoining
<1> QED
  BY <1>1, <1>3, <1>4, <1>5 DEF ExchangeInv


\* A new entry for a code leaves the responses alone, and the other way round; and
\* no entry goes.
LEMMA AddedElsewhere ==
    ASSUME NEW c \in Codes, NEW owner \in Devices
    PROVE  /\ EntryAdded(Code(c), owner) =>
                /\ \A d \in Devices, e \in Codes :
                        store'[d][Response(e)] = store[d][Response(e)]
                /\ \A d \in Devices, e \in Codes :
                        \/ store'[d][Code(e)] = store[d][Code(e)]
                        \/ e = c /\ store'[d][Code(e)].by = owner
           /\ EntryAdded(Response(c), owner) =>
                /\ \A d \in Devices, e \in Codes : store'[d][Code(e)] = store[d][Code(e)]
                /\ \A d \in Devices, e \in Codes :
                        \/ store'[d][Response(e)] = store[d][Response(e)]
                        \/ /\ e = c /\ store'[d][Response(e)].by = owner
                           /\ store'[d][Response(e)] # None
  BY NamesDiffer DEF EntryAdded

\* An initiator announces: those who joined, and their responses, are as before.
LEMMA InitiateKeeps ==
    ASSUME ExchangeInv, NEW i \in Initiators, Initiate(i)
    PROVE  ExchangeInv'
<1> USE DEF ExchangeInv
<1>1. PICK c \in Codes :
        /\ init[i].step = "idle"
        /\ init' = [init EXCEPT ![i].step = "announce", ![i].code = c]
        /\ Announce("Initiate", i, Code(c))
        /\ UNCHANGED <<join, bookVars>>
  BY DEF Initiate
<1>2. i \in Devices /\ Code(c) \in Names /\ "Initiate" \in Users /\ "Join" \in Users
  BY PairingAssumption, NamesDiffer
<1>3. /\ EntryAdded(Code(c), i)
      /\ targets' \in [Users -> [Devices -> SUBSET Devices]]
      /\ \A e \in Devices : targets'["Join"][e] = targets["Join"][e]
      /\ lost' \in 0..MaxLost /\ (lost' = 0 => lost = 0)
  BY <1>1, <1>2, AnnounceFacts
<1>4. init' = [init EXCEPT ![i] = [init[i] EXCEPT !.step = "announce", !.code = c]]
  BY <1>1 DEF ExchangeTypeOK
<1>5. ExchangeTypeOK'
  <2>1. init[i] \in InitCalls
    BY DEF ExchangeTypeOK
  <2>2. [init[i] EXCEPT !.step = "announce", !.code = c] \in InitCalls
    BY <2>1 DEF InitCalls
  <2> QED
    BY <1>1, <1>3, <1>4, <2>2 DEF ExchangeTypeOK, EntryAdded
<1>6. /\ init[i].code = None /\ init'[i].code = c /\ init'[i].step = "announce"
      /\ \A k \in Initiators \ {i} : init'[k] = init[k]
  BY <1>1, <1>4 DEF ExchangeTypeOK, InitCalls, InitiatorsKnow
<1>7. InitiatorsKnow' /\ PartnersHaveJoined'
  BY <1>1, <1>6 DEF InitiatorsKnow, PartnersHaveJoined, HasJoined
<1>8. \A j \in Joiners : join[j].step # "idle" => join[j].partner # i
  BY <1>6, PairingAssumption DEF JoinersKnow
<1>9. JoinersKnow'
  <2> SUFFICES ASSUME NEW j \in Joiners
               PROVE  /\ join[j].step # "idle" =>
                            /\ join[j].code \in Codes
                            /\ join[j].partner \in Initiators
                            /\ init'[join[j].partner].code = join[j].code
                      /\ join[j].early => join[j].step = "joined"
    BY <1>1 DEF JoinersKnow
  <2> QED
    BY <1>6, <1>8 DEF JoinersKnow
<1>10. Answers'
  <2>1. CodesAreAnnounced'
    <3> SUFFICES ASSUME NEW d \in Devices, NEW e \in Codes, store'[d][Code(e)] # None
                 PROVE  LET k == store'[d][Code(e)].by IN
                        k \in Initiators /\ init'[k].code = e
      BY DEF CodesAreAnnounced
    <3>1. \/ store'[d][Code(e)] = store[d][Code(e)]
          \/ e = c /\ store'[d][Code(e)].by = i
      BY <1>2, <1>3, AddedElsewhere
    <3> QED
      BY <1>6, <3>1, PairingAssumption DEF Answers, CodesAreAnnounced
  <2>2. ResponsesAreAnnounced'
    BY <1>1, <1>2, <1>3, AddedElsewhere DEF Answers, ResponsesAreAnnounced, HasJoined
  <2> QED
    BY <2>1, <2>2 DEF Answers
<1>11. Timely'
  <2>1. ResponseReached'
    BY <1>1, <1>2, <1>3, AddedElsewhere, PairingAssumption
    DEF ResponseReached, Timely, JoinersKnow
  <2>2. EarlyIsThere'
    <3> SUFFICES ASSUME lost' = 0, NEW j \in Joiners, join[j].early
                 PROVE  LET k == join[j].partner IN
                        \/ init'[k].step = "paired"
                        \/ /\ init'[k].step \in {"announce", "poll"} /\ init'[k].left > 0
                           /\ store'[k][Response(init'[k].code)] # None
      BY <1>1 DEF EarlyIsThere
    <3>1. join[j].partner \in Initiators \ {i} /\ init[join[j].partner].code \in Codes
      BY <1>8 DEF JoinersKnow
    <3> QED
      BY <1>2, <1>3, <1>6, <3>1, AddedElsewhere, PairingAssumption
      DEF Timely, EarlyIsThere
  <2> QED
    BY <2>1, <2>2 DEF Timely
<1> QED
  BY <1>5, <1>7, <1>9, <1>10, <1>11

LEMMA InitiateSendsKeeps ==
    ASSUME ExchangeInv, NEW i \in Initiators, InitiateSends(i)
    PROVE  ExchangeInv'
<1> USE DEF ExchangeInv
<1> DEFINE c == init[i].code
<1>1. /\ init[i].step = "announce" /\ c \in Codes
      /\ UNCHANGED <<join, lost>>
      /\ i \in Devices /\ Code(c) \in Names /\ "Initiate" \in Users /\ "Join" \in Users
  BY PairingAssumption, NamesDiffer DEF InitiateSends, InitiatorsKnow
<1>2. CASE Send("Initiate", i, Code(c)) /\ UNCHANGED init
  <2>1. /\ EntryAdded(Code(c), i)
        /\ targets' \in [Users -> [Devices -> SUBSET Devices]]
        /\ \A e \in Devices : targets'["Join"][e] = targets["Join"][e]
    <3> HIDE DEF c
    <3> QED
      BY <1>1, <1>2, SendFacts
  <2>2. ExchangeTypeOK' /\ InitiatorsKnow' /\ JoinersKnow' /\ PartnersHaveJoined'
    BY <1>1, <1>2, <2>1
    DEF ExchangeTypeOK, EntryAdded, InitiatorsKnow, JoinersKnow, PartnersHaveJoined, HasJoined
  <2>3. /\ \A d \in Devices, e \in Codes : store'[d][Response(e)] = store[d][Response(e)]
        /\ \A d \in Devices, e \in Codes :
                \/ store'[d][Code(e)] = store[d][Code(e)]
                \/ e = c /\ store'[d][Code(e)].by = i
    <3> HIDE DEF c
    <3> QED
      BY <1>1, <2>1, AddedElsewhere
  <2>4. CodesAreAnnounced'
    BY <1>2, <2>3 DEF Answers, CodesAreAnnounced
  <2>5. ResponsesAreAnnounced'
    BY <1>1, <2>3 DEF Answers, ResponsesAreAnnounced, HasJoined
  <2>6. ResponseReached'
    BY <1>1, <2>1, <2>3, PairingAssumption DEF ResponseReached, Timely, JoinersKnow
  <2>7. EarlyIsThere'
    <3>1. \A j \in Joiners : join[j].early =>
                join[j].partner \in Devices /\ init[join[j].partner].code \in Codes
      BY PairingAssumption DEF JoinersKnow
    <3> QED
      BY <1>1, <1>2, <2>3, <3>1 DEF EarlyIsThere, Timely
  <2> QED
    BY <2>2, <2>4, <2>5, <2>6, <2>7 DEF Answers, Timely
<1>3. CASE init' = [init EXCEPT ![i].step = "poll"] /\ UNCHANGED <<store, targets>>
  <2>1. /\ init'[i].step = "poll" /\ init'[i].code = c /\ init'[i].left = init[i].left
        /\ \A k \in Initiators : k # i => init'[k] = init[k]
    BY <1>3 DEF ExchangeTypeOK, InitCalls
  <2>2. ExchangeTypeOK'
    <3>1. init' = [init EXCEPT ![i] = [init[i] EXCEPT !.step = "poll"]]
      BY <1>3 DEF ExchangeTypeOK
    <3>2. init[i] \in InitCalls
      BY DEF ExchangeTypeOK
    <3>3. [init[i] EXCEPT !.step = "poll"] \in InitCalls
      BY <3>2 DEF InitCalls
    <3> QED
      BY <1>1, <1>3, <3>1, <3>3 DEF ExchangeTypeOK
  <2>3. InitiatorsKnow' /\ PartnersHaveJoined'
    BY <1>1, <2>1 DEF InitiatorsKnow, PartnersHaveJoined, HasJoined
  <2>4. \A k \in Initiators : init'[k].code = init[k].code
    BY <2>1
  <2>5. JoinersKnow' /\ Answers'
    BY <1>1, <1>3, <2>4
    DEF JoinersKnow, Answers, CodesAreAnnounced, ResponsesAreAnnounced, HasJoined
  <2>6. Timely'
    BY <1>1, <1>3, <2>1 DEF JoinersKnow, Timely, ResponseReached, EarlyIsThere
  <2> QED
    BY <2>2, <2>3, <2>5, <2>6
<1> QED
  BY <1>2, <1>3 DEF InitiateSends

\* What a poll finds was announced by a device that joined.
LEMMA PollKeeps ==
    ASSUME ExchangeInv, NEW i \in Initiators, Poll(i)
    PROVE  ExchangeInv'
<1> USE DEF ExchangeInv
<1>1. PICK j \in Found(i, Response(init[i].code)) :
        /\ init[i].step = "poll"
        /\ init' = [init EXCEPT ![i].step = "paired", ![i].partner = j]
        /\ UNCHANGED <<store, join, targets, lost, bookVars>>
  BY DEF Poll
<1>2. init[i].code \in Codes
  BY <1>1 DEF InitiatorsKnow
<1>3. PICK e \in Devices : /\ store[e][Response(init[i].code)] # None
                           /\ store[e][Response(init[i].code)].by = j
  BY <1>1 DEF Found
<1>4. HasJoined(j, init[i].code) /\ j \in Devices
  BY <1>2, <1>3, PairingAssumption DEF Answers, ResponsesAreAnnounced, HasJoined
<1>5. init' = [init EXCEPT ![i] = [init[i] EXCEPT !.step = "paired", !.partner = j]]
  BY <1>1 DEF ExchangeTypeOK
<1>6. init[i] \in InitCalls /\ [init[i] EXCEPT !.step = "paired", !.partner = j] \in InitCalls
  <2>1. init[i] \in InitCalls
    BY DEF ExchangeTypeOK
  <2> QED
    BY <1>4, <2>1 DEF InitCalls
<1>7. ExchangeTypeOK'
  BY <1>1, <1>5, <1>6 DEF ExchangeTypeOK
<1>8. /\ init'[i].step = "paired" /\ init'[i].partner = j /\ init'[i].code = init[i].code
      /\ \A k \in Initiators : k # i => init'[k] = init[k]
  BY <1>5, <1>6 DEF ExchangeTypeOK, InitCalls
<1>9. InitiatorsKnow' /\ PartnersHaveJoined'
  BY <1>1, <1>2, <1>4, <1>8 DEF InitiatorsKnow, PartnersHaveJoined, HasJoined
<1>10. \A k \in Initiators : init'[k].code = init[k].code
  BY <1>8
<1>11. UNCHANGED <<store, join, targets, lost>>
  BY <1>1
<1>12. JoinersKnow' /\ Answers'
  BY <1>10, <1>11
  DEF JoinersKnow, Answers, CodesAreAnnounced, ResponsesAreAnnounced, HasJoined
<1>13. init'[i].step = "paired" /\ \A k \in Initiators : k # i => init'[k] = init[k]
  BY <1>8
<1>14. Timely'
  BY <1>11, <1>13, <1>10 DEF JoinersKnow, Timely, ResponseReached, EarlyIsThere
<1> QED
  BY <1>7, <1>9, <1>12, <1>14

\* Whoever times out had no early partner, or something was lost.
LEMMA TimeoutKeeps ==
    ASSUME ExchangeInv, NEW i \in Initiators, Timeout(i)
    PROVE  ExchangeInv'
<1> USE DEF ExchangeInv
<1>1. /\ init[i].step = "poll" /\ init[i].left = 0
      /\ init' = [init EXCEPT ![i] = [init[i] EXCEPT !.step = "timedout"]]
      /\ UNCHANGED <<store, join, targets, lost, bookVars>>
  BY DEF Timeout, ExchangeTypeOK
<1>2. init[i] \in InitCalls /\ [init[i] EXCEPT !.step = "timedout"] \in InitCalls
  <2>1. init[i] \in InitCalls
    BY DEF ExchangeTypeOK
  <2> QED
    BY <2>1 DEF InitCalls
<1>3. ExchangeTypeOK'
  BY <1>1, <1>2 DEF ExchangeTypeOK
<1>4. /\ init'[i].step = "timedout" /\ init'[i].left = 0 /\ init'[i].code = init[i].code
      /\ \A k \in Initiators : k # i => init'[k] = init[k]
  BY <1>1, <1>2 DEF ExchangeTypeOK, InitCalls
<1>5. InitiatorsKnow' /\ PartnersHaveJoined'
  BY <1>1, <1>4 DEF InitiatorsKnow, PartnersHaveJoined, HasJoined
<1>6. \A k \in Initiators : init'[k].code = init[k].code
  BY <1>4
<1>7. JoinersKnow' /\ Answers'
  BY <1>1, <1>6 DEF JoinersKnow, Answers, CodesAreAnnounced, ResponsesAreAnnounced, HasJoined
<1>8. Timely'
  BY <1>1, <1>4 DEF JoinersKnow, Timely, ResponseReached, EarlyIsThere
<1> QED
  BY <1>3, <1>5, <1>7, <1>8

-----------------------------------------------------------------------------
\* The steps of the joiners.  Who has joined stays so.
LEMMA JoinKeeps ==
    ASSUME ExchangeInv, NEW j \in Joiners, Join(j)
    PROVE  ExchangeInv'
<1> USE DEF ExchangeInv
<1>1. PICK i \in Initiators :
        LET c == init[i].code IN
        /\ c # None
        /\ \/ \E r \in Found(j, Code(c)) :
                /\ join' = [join EXCEPT ![j] = [@ EXCEPT
                        !.step = "respond", !.code = c, !.partner = r]]
                /\ UNCHANGED lost
           \/ /\ UNCHANGED join
              /\ lost' = lost + (IF Found(j, Code(c)) = {} THEN 0 ELSE 1)
              /\ lost' <= MaxLost
  BY DEF Join
<1> DEFINE c == init[i].code
<1>2. /\ join[j].step = "idle" /\ ~join[j].early /\ c \in Codes
      /\ UNCHANGED <<store, init, targets, bookVars>>
  BY <1>1 DEF Join, JoinersKnow, ExchangeTypeOK, InitCalls
<1>3. ASSUME NEW r \in Found(j, Code(c)), UNCHANGED lost,
             join' = [join EXCEPT ![j] = [@ EXCEPT
                        !.step = "respond", !.code = c, !.partner = r]]
      PROVE  ExchangeInv'
  <2>1. r \in Initiators /\ init[r].code = c /\ r \in Devices
    <3>1. PICK e \in Devices : store[e][Code(c)] # None /\ store[e][Code(c)].by = r
      BY <1>3 DEF Found
    <3> QED
      BY <1>2, <3>1, PairingAssumption DEF Answers, CodesAreAnnounced
  <2> HIDE DEF c
  <2>2. join[j] \in JoinCalls
    BY DEF ExchangeTypeOK
  <2>3. [join[j] EXCEPT !.step = "respond", !.code = c, !.partner = r] \in JoinCalls
    BY <1>2, <2>1, <2>2 DEF JoinCalls
  <2>4. /\ join'[j].step = "respond" /\ join'[j].code = c /\ join'[j].partner = r
        /\ ~join'[j].early
        /\ \A k \in Joiners : k # j => join'[k] = join[k]
    BY <1>2, <1>3, <2>2 DEF ExchangeTypeOK, JoinCalls
  <2>5. ExchangeTypeOK'
    BY <1>2, <1>3, <2>3 DEF ExchangeTypeOK
  <2>6. InitiatorsKnow' /\ JoinersKnow'
    BY <1>2, <2>1, <2>4 DEF InitiatorsKnow, JoinersKnow
  <2>7. \A k, d : HasJoined(k, d) => HasJoined(k, d)'
    BY <1>2, <2>4 DEF HasJoined
  <2>8. Answers' /\ PartnersHaveJoined'
    BY <1>2, <2>7 DEF Answers, CodesAreAnnounced, ResponsesAreAnnounced, PartnersHaveJoined
  <2>9. Timely'
    BY <1>2, <1>3, <2>4 DEF Timely, ResponseReached, EarlyIsThere
  <2> QED
    BY <2>5, <2>6, <2>8, <2>9
<1>4. CASE /\ UNCHANGED join
           /\ lost' = lost + (IF Found(j, Code(c)) = {} THEN 0 ELSE 1)
           /\ lost' <= MaxLost
  <2>1. lost' \in 0..MaxLost /\ (lost' = 0 => lost = 0)
    BY <1>4, PairingAssumption DEF ExchangeTypeOK
  <2> QED
    BY <1>2, <1>4, <2>1
    DEF ExchangeTypeOK, InitiatorsKnow, JoinersKnow, Answers, CodesAreAnnounced,
        ResponsesAreAnnounced, PartnersHaveJoined, HasJoined, Timely, ResponseReached,
        EarlyIsThere
<1> QED
  BY <1>1, <1>3, <1>4

\* A response in the own store: the joiner has joined from here on.
LEMMA RespondKeeps ==
    ASSUME ExchangeInv, NEW j \in Joiners, Respond(j)
    PROVE  ExchangeInv'
<1> USE DEF ExchangeInv
<1> DEFINE c == join[j].code
<1>1. /\ join[j].step = "respond" /\ ~join[j].early /\ c \in Codes
      /\ UNCHANGED <<init, bookVars>>
      /\ j \in Devices /\ Response(c) \in Names /\ "Join" \in Users
  BY PairingAssumption, NamesDiffer DEF Respond, JoinersKnow
<1>2. CASE /\ join' = [join EXCEPT ![j].step = "announce"]
           /\ Announce("Join", j, Response(c))
  <2>1. /\ EntryAdded(Response(c), j) /\ store'[j][Response(c)] # None
        /\ targets' \in [Users -> [Devices -> SUBSET Devices]]
        /\ \A e \in Devices : e # j => targets'["Join"][e] = targets["Join"][e]
        /\ lost' \in 0..MaxLost
        /\ lost' = 0 => lost = 0 /\ targets'["Join"][j] = Devices \ {j}
    <3> HIDE DEF c
    <3> QED
      BY <1>1, <1>2, AnnounceFacts
  <2>2. join' = [join EXCEPT ![j] = [join[j] EXCEPT !.step = "announce"]]
    BY <1>2 DEF ExchangeTypeOK
  <2>3. join[j] \in JoinCalls /\ [join[j] EXCEPT !.step = "announce"] \in JoinCalls
    <3>1. join[j] \in JoinCalls
      BY DEF ExchangeTypeOK
    <3> QED
      BY <3>1 DEF JoinCalls
  <2>4. ExchangeTypeOK'
    BY <1>1, <2>1, <2>2, <2>3 DEF ExchangeTypeOK, EntryAdded
  <2>5. /\ join'[j].step = "announce" /\ join'[j].code = c
        /\ join'[j].partner = join[j].partner /\ ~join'[j].early
        /\ \A k \in Joiners : k # j => join'[k] = join[k]
    BY <1>1, <2>2, <2>3 DEF ExchangeTypeOK, JoinCalls
  <2>6. /\ \A d \in Devices, e \in Codes : store'[d][Code(e)] = store[d][Code(e)]
        /\ \A d \in Devices, e \in Codes :
                \/ store'[d][Response(e)] = store[d][Response(e)]
                \/ /\ e = c /\ store'[d][Response(e)].by = j
                   /\ store'[d][Response(e)] # None
    <3> HIDE DEF c
    <3> QED
      BY <1>1, <2>1, AddedElsewhere
  <2>7. InitiatorsKnow' /\ JoinersKnow'
    BY <1>1, <2>5 DEF InitiatorsKnow, JoinersKnow
  <2>8. HasJoined(j, c)' /\ \A k, d : HasJoined(k, d) => HasJoined(k, d)'
    BY <1>1, <2>5 DEF HasJoined
  <2>9. Answers' /\ PartnersHaveJoined'
    <3>1. CodesAreAnnounced' /\ PartnersHaveJoined'
      BY <1>1, <2>6, <2>8 DEF Answers, CodesAreAnnounced, PartnersHaveJoined
    <3>2. ResponsesAreAnnounced'
      <4> SUFFICES ASSUME NEW d \in Devices, NEW e \in Codes, store'[d][Response(e)] # None
                   PROVE  HasJoined(store[d][Response(e)].by, e)'
        BY DEF ResponsesAreAnnounced
      <4>1. CASE store'[d][Response(e)] = store[d][Response(e)]
        <5>1. HasJoined(store[d][Response(e)].by, e)
          BY <4>1 DEF Answers, ResponsesAreAnnounced
        <5> QED
          BY <4>1, <5>1, <2>8 DEF HasJoined
      <4>2. CASE e = c /\ store'[d][Response(e)].by = j
        BY <4>2, <2>5 DEF HasJoined
      <4> QED
        BY <2>6, <4>1, <4>2
    <3> QED
      BY <3>1, <3>2 DEF Answers
  <2>10. Timely'
    <3>1. \A d \in Devices, e \in Codes :
            store[d][Response(e)] # None => store'[d][Response(e)] # None
      BY <2>6
    <3>2. ResponseReached'
      <4> SUFFICES ASSUME lost' = 0, NEW k \in Joiners, join'[k].step = "announce",
                          NEW d \in Devices \ targets'["Join"][k]
                   PROVE  store'[d][Response(join'[k].code)] # None
        BY DEF ResponseReached
      <4>1. CASE k = j
        BY <2>1, <2>5, <4>1
      <4>2. CASE k # j
        <5>1. join[k].step = "announce" /\ join[k].code \in Codes
          BY <2>5, <4>2 DEF JoinersKnow
        <5>2. d \notin targets["Join"][k]
          BY <2>1, <4>2, PairingAssumption
        <5> QED
          BY <2>1, <2>5, <3>1, <4>2, <5>1, <5>2 DEF Timely, ResponseReached
      <4> QED
        BY <4>1, <4>2
    <3>3. EarlyIsThere'
      <4> SUFFICES ASSUME lost' = 0, NEW k \in Joiners, join'[k].early
                   PROVE  LET i == join'[k].partner IN
                          \/ init[i].step = "paired"
                          \/ /\ init[i].step \in {"announce", "poll"} /\ init[i].left > 0
                             /\ store'[i][Response(init[i].code)] # None
        BY <1>1 DEF EarlyIsThere
      <4>1. /\ k # j /\ join'[k] = join[k]
            /\ join[k].partner \in Devices /\ init[join[k].partner].code \in Codes
        BY <2>5, PairingAssumption DEF JoinersKnow
      <4> QED
        BY <2>1, <3>1, <4>1 DEF Timely, EarlyIsThere
    <3> QED
      BY <3>2, <3>3 DEF Timely
  <2> QED
    BY <2>4, <2>7, <2>9, <2>10
<1>3. CASE join' = [join EXCEPT ![j] = NotJoining] /\ UNCHANGED <<store, targets, lost>>
  <2>1. NotJoining \in JoinCalls
    BY DEF NotJoining, JoinCalls
  <2>2. ExchangeTypeOK'
    BY <1>1, <1>3, <2>1 DEF ExchangeTypeOK
  <2>3. /\ join'[j].step = "idle" /\ ~join'[j].early
        /\ \A k \in Joiners : k # j => join'[k] = join[k]
    BY <1>3 DEF ExchangeTypeOK, NotJoining
  <2>4. InitiatorsKnow' /\ JoinersKnow'
    BY <1>1, <2>3 DEF InitiatorsKnow, JoinersKnow
  <2>5. \A k, d : HasJoined(k, d) => HasJoined(k, d)'
    BY <1>1, <2>3 DEF HasJoined
  <2>6. Answers' /\ PartnersHaveJoined'
    BY <1>1, <1>3, <2>5
    DEF Answers, CodesAreAnnounced, ResponsesAreAnnounced, PartnersHaveJoined
  <2>7. Timely'
    BY <1>1, <1>3, <2>3 DEF Timely, ResponseReached, EarlyIsThere
  <2> QED
    BY <2>2, <2>4, <2>6, <2>7
<1> QED
  BY <1>2, <1>3 DEF Respond

\* The response is out, and Join done: everybody has it, and an initiator that
\* still has time keeps polling until it has found one.
LEMMA JoinSendsKeeps ==
    ASSUME ExchangeInv, NEW j \in Joiners, JoinSends(j)
    PROVE  ExchangeInv'
<1> USE DEF ExchangeInv
<1> DEFINE c == join[j].code
<1>1. /\ join[j].step = "announce" /\ ~join[j].early /\ c \in Codes
      /\ join[j].partner \in Initiators /\ init[join[j].partner].code = c
      /\ UNCHANGED <<init, lost>>
      /\ j \in Devices /\ Response(c) \in Names /\ "Join" \in Users
  BY PairingAssumption, NamesDiffer DEF JoinSends, JoinersKnow
<1>2. CASE Send("Join", j, Response(c)) /\ UNCHANGED join
  <2>1. PICK f \in targets["Join"][j] :
            /\ EntryAdded(Response(c), j) /\ store'[f][Response(c)] # None
            /\ targets' \in [Users -> [Devices -> SUBSET Devices]]
            /\ targets'["Join"][j] = targets["Join"][j] \ {f}
            /\ \A v \in Users, e \in Devices :
                v # "Join" \/ e # j => targets'[v][e] = targets[v][e]
    <3> HIDE DEF c
    <3> QED
      BY <1>1, <1>2, SendFacts
  <2>2. /\ \A d \in Devices, e \in Codes : store'[d][Code(e)] = store[d][Code(e)]
        /\ \A d \in Devices, e \in Codes :
                \/ store'[d][Response(e)] = store[d][Response(e)]
                \/ /\ e = c /\ store'[d][Response(e)].by = j
                   /\ store'[d][Response(e)] # None
    <3> HIDE DEF c
    <3> QED
      BY <1>1, <2>1, AddedElsewhere
  <2>3. ExchangeTypeOK' /\ InitiatorsKnow' /\ JoinersKnow' /\ PartnersHaveJoined'
    BY <1>1, <1>2, <2>1
    DEF ExchangeTypeOK, EntryAdded, InitiatorsKnow, JoinersKnow, PartnersHaveJoined, HasJoined
  <2>4. CodesAreAnnounced'
    BY <1>1, <2>2 DEF Answers, CodesAreAnnounced
  <2>5. ResponsesAreAnnounced'
    <3> SUFFICES ASSUME NEW d \in Devices, NEW e \in Codes, store'[d][Response(e)] # None
                 PROVE  HasJoined(store[d][Response(e)].by, e)'
      BY DEF ResponsesAreAnnounced
    <3>1. CASE store'[d][Response(e)] = store[d][Response(e)]
      <4>1. HasJoined(store[d][Response(e)].by, e)
        BY <3>1 DEF Answers, ResponsesAreAnnounced
      <4> QED
        BY <1>2, <3>1, <4>1 DEF HasJoined
    <3>2. CASE e = c /\ store'[d][Response(e)].by = j
      BY <1>1, <1>2, <3>2 DEF HasJoined
    <3> QED
      BY <2>2, <3>1, <3>2
  <2>6. \A d \in Devices, e \in Codes :
            store[d][Response(e)] # None => store'[d][Response(e)] # None
    BY <2>2
  <2>7. ResponseReached'
    <3> SUFFICES ASSUME lost = 0, NEW k \in Joiners, join[k].step = "announce",
                        NEW d \in Devices \ targets'["Join"][k]
                 PROVE  store'[d][Response(join[k].code)] # None
      BY <1>1, <1>2 DEF ResponseReached
    <3>1. CASE k = j
      BY <1>1, <2>1, <2>6, <3>1 DEF Timely, ResponseReached
    <3>2. CASE k # j
      <4>1. d \notin targets["Join"][k] /\ join[k].code \in Codes
        BY <2>1, <1>1, <3>2, PairingAssumption DEF JoinersKnow
      <4> QED
        BY <2>6, <4>1 DEF Timely, ResponseReached
    <3> QED
      BY <3>1, <3>2
  <2>8. EarlyIsThere'
    <3>1. \A k \in Joiners : join[k].early =>
                join[k].partner \in Devices /\ init[join[k].partner].code \in Codes
      BY PairingAssumption DEF JoinersKnow
    <3> QED
      BY <1>1, <1>2, <2>6, <3>1 DEF EarlyIsThere, Timely
  <2> QED
    BY <2>3, <2>4, <2>5, <2>7, <2>8 DEF Answers, Timely
<1>3. CASE /\ targets["Join"][j] = {}
           /\ join' = [join EXCEPT ![j].step = "joined",
                        ![j].early = \E i \in Initiators :
                            i = join[j].partner /\ init[i].left > 0]
           /\ UNCHANGED <<store, targets>>
  <2> DEFINE call == [join[j] EXCEPT !.step = "joined",
                        !.early = \E i \in Initiators :
                            i = join[j].partner /\ init[i].left > 0]
  <2>1. join' = [join EXCEPT ![j] = call]
    BY <1>3 DEF ExchangeTypeOK
  <2>2. join[j] \in JoinCalls
    BY DEF ExchangeTypeOK
  <2>3. (\E i \in Initiators : i = join[j].partner /\ init[i].left > 0) \in BOOLEAN
    OBVIOUS
  <2>4. call \in JoinCalls
    BY <2>2, <2>3 DEF JoinCalls
  <2>5. /\ call.step = "joined" /\ call.code = c /\ call.partner = join[j].partner
        /\ call.early => init[join[j].partner].left > 0
    BY <2>2 DEF JoinCalls
  <2> HIDE DEF call
  <2>6. /\ join'[j] = call
        /\ \A k \in Joiners : k # j => join'[k] = join[k]
    BY <2>1 DEF ExchangeTypeOK
  <2>7. ExchangeTypeOK'
    BY <1>1, <1>3, <2>1, <2>4 DEF ExchangeTypeOK
  <2>8. InitiatorsKnow' /\ JoinersKnow'
    BY <1>1, <2>5, <2>6 DEF InitiatorsKnow, JoinersKnow
  <2>9. \A k, d : HasJoined(k, d) => HasJoined(k, d)'
    BY <2>5, <2>6 DEF HasJoined
  <2>10. Answers' /\ PartnersHaveJoined'
    BY <1>1, <1>3, <2>9
    DEF Answers, CodesAreAnnounced, ResponsesAreAnnounced, PartnersHaveJoined
  <2>11. ResponseReached'
    BY <1>1, <1>3, <2>5, <2>6 DEF Timely, ResponseReached
  <2>12. EarlyIsThere'
    <3> SUFFICES ASSUME lost = 0, NEW k \in Joiners, join'[k].early
                 PROVE  LET i == join'[k].partner IN
                        \/ init[i].step = "paired"
                        \/ /\ init[i].step \in {"announce", "poll"} /\ init[i].left > 0
                           /\ store[i][Response(init[i].code)] # None
      BY <1>1, <1>3 DEF EarlyIsThere
    <3>1. CASE k # j
      BY <2>6, <3>1 DEF Timely, EarlyIsThere
    <3>2. CASE k = j
      <4> DEFINE i == join[j].partner
      <4>1. join'[k].partner = i /\ init[i].left > 0 /\ i \in Devices
        BY <1>1, <2>5, <2>6, <3>2, PairingAssumption
      <4>2. init[i].step \in {"announce", "poll", "paired"}
        <5>1. init[i] \in InitCalls
          BY <1>1 DEF ExchangeTypeOK
        <5>2. init[i].step \in {"idle", "announce", "poll", "paired", "timedout"}
          BY <5>1 DEF InitCalls
        <5>3. init[i].step # "idle"
          BY <1>1, PairingAssumption DEF InitiatorsKnow
        <5>4. init[i].step # "timedout"
          BY <1>1, <4>1 DEF InitiatorsKnow
        <5> QED
          BY <5>2, <5>3, <5>4
      <4>3. store[i][Response(init[i].code)] # None
        BY <1>1, <1>3, <4>1 DEF Timely, ResponseReached
      <4> QED
        BY <4>1, <4>2, <4>3
    <3> QED
      BY <3>1, <3>2
  <2> QED
    BY <2>7, <2>8, <2>10, <2>11, <2>12 DEF Timely
<1> QED
  BY <1>2, <1>3 DEF JoinSends

-----------------------------------------------------------------------------
\* Five minutes pass: entries may go, but none comes; who still polls has found
\* no response, and so has no early partner.
LEMMA TickKeeps ==
    ASSUME ExchangeInv, Tick
    PROVE  ExchangeInv'
<1> USE DEF ExchangeInv
<1> DEFINE missed == {i \in Initiators :
            init[i].step = "poll" /\ Found(i, Response(init[i].code)) # {}}
           left(i) == IF init[i].code = None \/ init[i].left = 0 THEN init[i].left
                      ELSE init[i].left - 1
<1>1. /\ Settled /\ lost' = lost + Cardinality(missed) /\ lost' <= MaxLost
      /\ UNCHANGED <<join, targets>>
  BY DEF Tick
<1>2. /\ init' \in [Initiators -> InitCalls]
      /\ \A i \in Initiators : /\ init'[i].step = init[i].step
                               /\ init'[i].code = init[i].code
                               /\ init'[i].partner = init[i].partner
                               /\ init[i].left = 0 => init'[i].left = 0
  <2>1. init' = [i \in Initiators |-> [init[i] EXCEPT !.left = left(i)]]
    BY DEF Tick
  <2>2. ASSUME NEW i \in Initiators
        PROVE  /\ init'[i] \in InitCalls
               /\ init'[i].step = init[i].step /\ init'[i].code = init[i].code
               /\ init'[i].partner = init[i].partner
               /\ init[i].left = 0 => init'[i].left = 0
    <3>1. init[i] \in InitCalls /\ init'[i] = [init[i] EXCEPT !.left = left(i)]
      BY <2>1 DEF ExchangeTypeOK
    <3>2. left(i) \in 0..PairingTimeout /\ (init[i].left = 0 => left(i) = 0)
      BY <3>1, PairingAssumption DEF InitCalls
    <3> HIDE DEF left
    <3> QED
      BY <3>1, <3>2 DEF InitCalls
  <2> HIDE DEF left
  <2> QED
    BY <2>1, <2>2
<1>3. /\ store' \in [Devices -> [Names -> Entries]]
      /\ \A d \in Devices, n \in Names : store'[d][n] # None =>
            store[d][n] # None /\ store'[d][n].by = store[d][n].by
  <2> DEFINE entry(d, n) == IF store[d][n] = None \/ store[d][n].left = 0 THEN None
                            ELSE [store[d][n] EXCEPT !.left = store[d][n].left - 1]
  <2>1. store' = [d \in Devices |-> [n \in Names |-> entry(d, n)]]
    BY DEF Tick
  <2>2. ASSUME NEW d \in Devices, NEW n \in Names
        PROVE  /\ entry(d, n) \in Entries
               /\ entry(d, n) # None =>
                    store[d][n] # None /\ entry(d, n).by = store[d][n].by
    <3>1. store[d][n] \in Entries
      BY DEF ExchangeTypeOK
    <3> QED
      BY <3>1, PairingAssumption DEF Entries
  <2> HIDE DEF entry
  <2> QED
    BY <2>1, <2>2
<1>4. lost' \in 0..MaxLost /\ (lost' = 0 => lost = 0 /\ missed = {})
  <2>1. IsFiniteSet(missed)
    <3>1. IsFiniteSet(Initiators)
      BY PairingAssumption, ContactsAssumption, FS_Subset
    <3> QED
      BY <3>1, FS_Subset
  <2>2. Cardinality(missed) \in Nat /\ (Cardinality(missed) = 0 <=> missed = {})
    BY <2>1, FS_CardinalityType, FS_EmptySet
  <2> HIDE DEF missed
  <2> QED
    BY <1>1, <2>2, PairingAssumption DEF ExchangeTypeOK
<1>5. ExchangeTypeOK'
  BY <1>1, <1>2, <1>3, <1>4 DEF ExchangeTypeOK
<1>6. InitiatorsKnow' /\ JoinersKnow' /\ PartnersHaveJoined'
  BY <1>1, <1>2 DEF InitiatorsKnow, JoinersKnow, PartnersHaveJoined, HasJoined
<1>7. Answers'
  <2>1. CodesAreAnnounced'
    BY <1>2, <1>3, NamesDiffer DEF Answers, CodesAreAnnounced
  <2>2. ResponsesAreAnnounced'
    BY <1>1, <1>3, NamesDiffer DEF Answers, ResponsesAreAnnounced, HasJoined
  <2> QED
    BY <2>1, <2>2 DEF Answers
<1>8. ResponseReached'
  BY <1>1 DEF ResponseReached, Settled
<1>9. EarlyIsThere'
  <2> SUFFICES ASSUME lost' = 0, NEW j \in Joiners, join[j].early
               PROVE  init'[join[j].partner].step = "paired"
    BY <1>1 DEF EarlyIsThere
  <2> DEFINE i == join[j].partner
  <2>1. i \in Initiators /\ i \in Devices /\ init[i].step # "announce"
    BY <1>1, PairingAssumption DEF JoinersKnow, Settled
  <2>2. SUFFICES ASSUME init[i].step # "paired" PROVE FALSE
    BY <1>2, <2>1
  <2>3. init[i].step = "poll" /\ store[i][Response(init[i].code)] # None
    BY <1>4, <2>1, <2>2 DEF Timely, EarlyIsThere
  <2>4. store[i][Response(init[i].code)].by \in Found(i, Response(init[i].code))
    BY <2>1, <2>3 DEF Found
  <2> QED
    BY <1>4, <2>1, <2>3, <2>4
<1> QED
  BY <1>5, <1>6, <1>7, <1>8, <1>9 DEF Timely

-----------------------------------------------------------------------------
LEMMA IInvInductive == IInv /\ [Next]_vars => IInv'
<1> SUFFICES ASSUME IInv, [Next]_vars PROVE IInv'
  OBVIOUS
<1>1. BookStep
  <2>1. CASE \/ \E i \in Initiators : Initiate(i) \/ Initiating(i)
             \/ \E j \in Joiners : Join(j) \/ Joining(j)
             \/ Tick
    BY <2>1 DEF Initiate, Initiating, InitiateSends, Poll, Timeout, Join, Joining, Respond,
                JoinSends, Tick, BookStep
  <2>2. CASE Keep
    <3>1. ASSUME NEW i \in Initiators, init[i].step = "paired",
                 Keeps(i, "Initiate", init[i].partner)
          PROVE  BookStep
      BY <3>1, PairingAssumption
      DEF IInv, ExchangeInv, PartnersHaveJoined, HasJoined, Keeps, BookStep
    <3>2. ASSUME NEW j \in Joiners, join[j].step = "joined",
                 Keeps(j, "Join", join[j].partner)
          PROVE  BookStep
      BY <3>2, PairingAssumption DEF IInv, ExchangeInv, JoinersKnow, Keeps, BookStep
    <3> QED
      BY <2>2, <3>1, <3>2 DEF Keep
  <2>3. CASE \E d \in Devices, u \in Users : Saves(d, u)
    BY <2>3 DEF Saves, BookStep
  <2>4. CASE UNCHANGED vars
    BY <2>4 DEF vars, BookStep
  <2> QED
    BY <2>1, <2>2, <2>3, <2>4 DEF Next
<1>2. BookInv'
  BY <1>1, BookStepKeepsInv DEF IInv
<1>3. ExchangeInv'
  <2>1. CASE UNCHANGED <<store, init, join, targets, lost>>
    BY <2>1
    DEF IInv, ExchangeInv, ExchangeTypeOK, InitiatorsKnow, JoinersKnow, Answers,
        CodesAreAnnounced, ResponsesAreAnnounced, PartnersHaveJoined, HasJoined, Timely,
        ResponseReached, EarlyIsThere
  <2>2. ASSUME NEW i \in Initiators, Initiate(i) \/ Initiating(i)
        PROVE  ExchangeInv'
    BY <2>2, InitiateKeeps, InitiateSendsKeeps, PollKeeps, TimeoutKeeps DEF IInv, Initiating
  <2>3. ASSUME NEW j \in Joiners, Join(j) \/ Joining(j)
        PROVE  ExchangeInv'
    BY <2>3, JoinKeeps, RespondKeeps, JoinSendsKeeps DEF IInv, Joining
  <2>4. CASE Tick
    BY <2>4, TickKeeps DEF IInv
  <2>5. CASE Keep \/ (\E d \in Devices, u \in Users : Saves(d, u)) \/ UNCHANGED vars
    <3>1. UNCHANGED <<store, init, join, targets, lost>>
      BY <2>5 DEF Keep, Keeps, Saves, vars
    <3> QED
      BY <2>1, <3>1
  <2> QED
    BY <2>2, <2>3, <2>4, <2>5 DEF Next
<1> QED
  BY <1>2, <1>3 DEF IInv

LEMMA IInvHolds == Spec => []IInv
<1>1. Init => IInv
  BY ExchangeInit, BookInvInit DEF Init, IInv
<1> QED
  BY <1>1, IInvInductive, PTL DEF Spec

-----------------------------------------------------------------------------
\* The state has its shape: no failure is counted past the bound, and no entry
\* outlives its time.
THEOREM PairingTypes == Spec => []TypeOK
<1>1. IInv => TypeOK
  BY DEF IInv, BookInv, ExchangeInv, ExchangeTypeOK, InitCalls, JoinCalls, Entries, TypeOK
<1> QED
  BY <1>1, IInvHolds, PTL

\* Whoever Initiate reports as the partner has joined with that code, and has the
\* initiator as its partner in turn, if no other initiator drew the same code.
THEOREM PairingIsMutual == Spec => []PairedIsMutual
<1>1. IInv => PairedIsMutual
  <2> SUFFICES ASSUME IInv, NEW i \in Initiators, init[i].step = "paired"
               PROVE  LET j == init[i].partner IN
                      /\ HasJoined(j, init[i].code)
                      /\ (\A k \in Initiators \ {i} : init[k].code # init[i].code) =>
                            join[j].partner = i
    BY DEF PairedIsMutual, HasJoined
  <2>1. HasJoined(init[i].partner, init[i].code)
    BY DEF IInv, ExchangeInv, PartnersHaveJoined
  <2> DEFINE j == init[i].partner
  <2>2. join[j].partner \in Initiators /\ init[join[j].partner].code = init[i].code
    BY <2>1 DEF HasJoined, IInv, ExchangeInv, JoinersKnow
  <2> QED
    BY <2>1, <2>2
<1> QED
  BY <1>1, IInvHolds, PTL

\* While the hash table fails nobody, an initiator whose partner was done in time
\* does not time out, whatever others join with and announce meanwhile.
THEOREM PromptPartnerFound == Spec => []NoPartnerMissed
<1>1. IInv => NoPartnerMissed
  BY DEF IInv, ExchangeInv, Timely, EarlyIsThere, NoPartnerMissed
<1> QED
  BY <1>1, IInvHolds, PTL

\* What a Save that has returned has written stays in the file, however the Saves
\* of a device overlap.
THEOREM SavedStays == Spec => []SavedContactStays
<1>1. IInv => SavedContactStays
  BY BookInvMeans DEF IInv
<1> QED
  BY <1>1, IInvHolds, PTL
=============================================================================
