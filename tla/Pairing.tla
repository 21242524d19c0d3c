------------------------------ MODULE Pairing ------------------------------
(***************************************************************************)
(* Pairing with a short code (pairing/pairing.go).  Initiate announces a   *)
(* record under the code and polls for a response until PairingTimeout;    *)
(* Join looks the code up, announces a response and is done.  Both then    *)
(* keep the other as a contact.  The records go through the hash table:    *)
(* the store of every device, first come first served, as in Announce.     *)
(* A unit of time is five minutes; polling every two seconds and an        *)
(* announcement take less.                                                 *)
(***************************************************************************)
EXTENDS Contacts

CONSTANTS
    Initiators, Joiners,    \* the devices that call Initiate, and Join
    Codes,
    PairingTTL,             \* in units: 2
    PairingTimeout,         \* in units: 1
    MaxLost,                \* bound on the failures of the hash table
    None

ASSUME PairingAssumption ==
    /\ Initiators \subseteq Devices /\ Joiners \subseteq Devices
    /\ Users = {"Initiate", "Join"}
    /\ PairingTTL \in Nat /\ PairingTimeout \in Nat
    /\ MaxLost \in Nat
    /\ None \notin Codes
    /\ None \notin [by : Devices, left : 0..PairingTTL]

VARIABLES
    store,      \* the entry for each name in the store of each device
    init,       \* the call of Initiate of each initiator
    join,       \* the call of Join of each joiner
    targets,    \* the devices an announcement has yet to reach
    lost        \* history: how often the hash table has failed a device

vars == <<store, init, join, targets, lost, bookVars>>

\* The names of the two records; nothing uses pairingKey.  In the variant the
\* response has the name of the record it responds to.
Code(c) == <<c, "code">>

Response_AsCode(c) == <<c, "code">>

Response(c) == <<c, "response">>

Names == Codes \X {"code", "response"}

NotJoining == [step |-> "idle", code |-> None, partner |-> None, early |-> FALSE]

Init ==
    /\ store = [d \in Devices |-> [n \in Names |-> None]]
    /\ init = [i \in Initiators |->
            [step |-> "idle", code |-> None, partner |-> None, left |-> PairingTimeout]]
    /\ join = [j \in Joiners |-> NotJoining]
    /\ targets = [u \in Users |-> [d \in Devices |-> {}]]
    /\ lost = 0
    /\ BookInit

-----------------------------------------------------------------------------
\* The hash table.  Put of a store; LookupValue: the own store first, then any
\* other that has a record, or nothing.
Free(d, n, owner) == store[d][n] # None => store[d][n].by = owner

Put(d, n, owner) ==
    store' = [store EXCEPT ![d][n] = [by |-> owner, left |-> PairingTTL]]

Found(d, n) ==
    {store[e][n].by : e \in {e \in Devices :
        store[e][n] # None /\ (store[d][n] # None => e = d)}}

\* Announce: the own store, then a STORE to everybody else but those it will not
\* reach, at most MaxLost in all.  A STORE is taken or refused.
Announce(u, d, n) ==
    /\ Put(d, n, d)
    /\ \E reached \in SUBSET (Devices \ {d}) :
        /\ lost' = lost + Cardinality(Devices \ {d}) - Cardinality(reached)
        /\ lost' <= MaxLost
        /\ targets' = [targets EXCEPT ![u][d] = reached]

Send(u, d, n) ==
    \E e \in targets[u][d] :
        /\ targets' = [targets EXCEPT ![u][d] = @ \ {e}]
        /\ IF Free(e, n, d) THEN Put(e, n, d) ELSE UNCHANGED store

-----------------------------------------------------------------------------
\* Initiate: a code, its record in the own store, and out.  If the own store
\* refuses it Initiate returns an error, and nothing is left of the call.
Initiate(i) ==
    /\ init[i].step = "idle"
    /\ \E c \in Codes :
        /\ Free(i, Code(c), i)
        /\ init' = [init EXCEPT ![i].step = "announce", ![i].code = c]
        /\ Announce("Initiate", i, Code(c))
    /\ UNCHANGED <<join, bookVars>>

InitiateSends(i) ==
    /\ init[i].step = "announce"
    /\ IF targets["Initiate"][i] # {}
       THEN Send("Initiate", i, Code(init[i].code)) /\ UNCHANGED init
       ELSE /\ init' = [init EXCEPT ![i].step = "poll"]
            /\ UNCHANGED <<store, targets>>
    /\ UNCHANGED <<join, lost, bookVars>>

\* A poll that finds a response ends it; one that finds none changes nothing,
\* but in the variant it ends as well.
Poll_Once(i) ==
    /\ init[i].step = "poll"
    /\ LET found == Found(i, Response(init[i].code)) IN
       IF found = {} THEN init' = [init EXCEPT ![i].step = "timedout"]
       ELSE \E j \in found :
                init' = [init EXCEPT ![i].step = "paired", ![i].partner = j]
    /\ UNCHANGED <<store, join, targets, lost, bookVars>>

Poll(i) ==
    /\ init[i].step = "poll"
    /\ \E j \in Found(i, Response(init[i].code)) :
        init' = [init EXCEPT ![i].step = "paired", ![i].partner = j]
    /\ UNCHANGED <<store, join, targets, lost, bookVars>>

Timeout(i) ==
    /\ init[i].step = "poll" /\ init[i].left = 0
    /\ init' = [init EXCEPT ![i].step = "timedout"]
    /\ UNCHANGED <<store, join, targets, lost, bookVars>>

-----------------------------------------------------------------------------
\* Join, with a code that somebody was shown; it may be called again after an
\* error.
Join(j) ==
    /\ join[j].step = "idle"
    /\ \E i \in Initiators :
        LET c == init[i].code IN
        /\ c # None
        /\ \/ \E r \in Found(j, Code(c)) :
                /\ join' = [join EXCEPT ![j] = [@ EXCEPT
                        !.step = "respond", !.code = c, !.partner = r]]
                /\ UNCHANGED lost
           \/ /\ UNCHANGED join
              /\ lost' = lost + (IF Found(j, Code(c)) = {} THEN 0 ELSE 1)
              /\ lost' <= MaxLost
    /\ UNCHANGED <<store, init, targets, bookVars>>

\* The response in the own store, and out; then Join reports success.
Respond(j) ==
    /\ join[j].step = "respond"
    /\ LET n == Response(join[j].code) IN
       IF Free(j, n, j)
       THEN /\ join' = [join EXCEPT ![j].step = "announce"]
            /\ Announce("Join", j, n)
       ELSE /\ join' = [join EXCEPT ![j] = NotJoining]
            /\ UNCHANGED <<store, targets, lost>>
    /\ UNCHANGED <<init, bookVars>>

JoinSends(j) ==
    /\ join[j].step = "announce"
    /\ IF targets["Join"][j] # {}
       THEN Send("Join", j, Response(join[j].code)) /\ UNCHANGED join
       ELSE /\ join' = [join EXCEPT ![j].step = "joined",
                        ![j].early = \E i \in Initiators :
                            i = join[j].partner /\ init[i].left > 0]
            /\ UNCHANGED <<store, targets>>
    /\ UNCHANGED <<init, lost, bookVars>>

\* Both keep the partner.
Keeps(d, u, partner) ==
    /\ Add(d, u, partner)
    /\ UNCHANGED <<store, init, join, targets, lost>>

Keep ==
    \/ \E i \in Initiators : init[i].step = "paired" /\ Keeps(i, "Initiate", init[i].partner)
    \/ \E j \in Joiners : join[j].step = "joined" /\ Keeps(j, "Join", join[j].partner)

Saves(d, u) ==
    /\ SaveBegin(d, u) \/ SaveWrite(d, u)
    /\ UNCHANGED <<store, init, join, targets, lost>>

-----------------------------------------------------------------------------
\* Announcements and Saves are over, and so are the polls whose deadline has come.
Settled ==
    /\ \A d \in Devices, u \in Users : save[d][u].step \notin {"added", "save"}
    /\ \A i \in Initiators :
        init[i].step # "announce" /\ (init[i].step = "poll" => init[i].left > 0)
    /\ \A j \in Joiners : join[j].step \notin {"respond", "announce"}

\* Five minutes pass, and with them expired records.  A poll that could have
\* found a response all this time must have failed.
Tick_NoExpiry ==
    /\ Settled
    /\ lost' = lost + Cardinality({i \in Initiators :
            init[i].step = "poll" /\ Found(i, Response(init[i].code)) # {}})
    /\ lost' <= MaxLost
    /\ init' = [i \in Initiators |->
            [init[i] EXCEPT !.left = IF init[i].code = None \/ @ = 0 THEN @ ELSE @ - 1]]
    /\ store' = [d \in Devices |-> [n \in Names |->
            IF store[d][n] = None THEN None ELSE [store[d][n] EXCEPT !.left = @ - 1]]]
    /\ UNCHANGED <<join, targets, bookVars>>

Tick ==
    /\ Settled
    /\ lost' = lost + Cardinality({i \in Initiators :
            init[i].step = "poll" /\ Found(i, Response(init[i].code)) # {}})
    /\ lost' <= MaxLost
    /\ init' = [i \in Initiators |->
            [init[i] EXCEPT !.left = IF init[i].code = None \/ @ = 0 THEN @ ELSE @ - 1]]
    /\ store' = [d \in Devices |-> [n \in Names |->
            IF store[d][n] = None \/ store[d][n].left = 0 THEN None
            ELSE [store[d][n] EXCEPT !.left = @ - 1]]]
    /\ UNCHANGED <<join, targets, bookVars>>

Initiating(i) == InitiateSends(i) \/ Poll(i) \/ Timeout(i)

Joining(j) == Respond(j) \/ JoinSends(j)

Next ==
    \/ \E i \in Initiators : Initiate(i) \/ Initiating(i)
    \/ \E j \in Joiners : Join(j) \/ Joining(j)
    \/ Keep
    \/ \E d \in Devices, u \in Users : Saves(d, u)
    \/ Tick

Spec == Init /\ [][Next]_vars

-----------------------------------------------------------------------------
\* The shape of the state.
TypeOK ==
    /\ BookTypeOK
    /\ \A d \in Devices : \A n \in Names :
        store[d][n] \in [by : Devices, left : 0..PairingTTL] \cup {None}
    /\ init \in [Initiators ->
            [step : {"idle", "announce", "poll", "paired", "timedout"},
             code : Codes \cup {None}, partner : Devices \cup {None},
             left : 0..PairingTimeout]]
    /\ join \in [Joiners ->
            [step : {"idle", "respond", "announce", "joined"},
             code : Codes \cup {None}, partner : Devices \cup {None},
             early : BOOLEAN]]
    /\ targets \in [Users -> [Devices -> SUBSET Devices]]
    /\ lost \in 0..MaxLost

\* Whoever the initiator is paired with has joined with this very code, and has
\* the initiator as its partner, unless another initiator drew the same code.
PairedIsMutual ==
    \A i \in Initiators : init[i].step = "paired" =>
        LET j == init[i].partner IN
        /\ j \in Joiners /\ join[j].code = init[i].code
        /\ join[j].step \in {"announce", "joined"}
        /\ (\A k \in Initiators \ {i} : init[k].code # init[i].code) =>
                join[j].partner = i

\* If calls between the devices succeed, an initiator whose partner was done
\* within the first unit does not time out, however many devices join.
NoPartnerMissed ==
    lost = 0 => \A i \in Initiators : \A j \in Joiners :
        join[j].early /\ join[j].partner = i => init[i].step # "timedout"
=============================================================================
