-------------------------- MODULE LifecycleProofs --------------------------
(***************************************************************************)
(* What a node leaves behind, for any peers, keys and number of starts:    *)
(* the file of peers, its identity and its subprocess.                     *)
(***************************************************************************)
EXTENDS Lifecycle, FiniteSetTheorems, TLAPS

-----------------------------------------------------------------------------
\* The file.  What is saved is never an empty list; while an undisturbed save
\* has the file open, the file is empty and open for nobody else.  The table of
\* this node is empty until somebody is in contact with it.
ListsAreNotEmpty ==
    \A w \in Writers : saving[w].step \in {"listed", "open"} => saving[w].list # {}

OneOpen ==
    ~disturbed => \A v, w \in Writers : OpenFor(v) /\ OpenFor(w) => v = w

OpenIsEmpty ==
    ~disturbed => \A w \in Writers : OpenFor(w) => file = Empty

TableContacted == table # {} => contacted

FileInv ==
    /\ FileTypeOK /\ ListsAreNotEmpty /\ OneOpen /\ OpenIsEmpty /\ TableContacted
    /\ IsolatedKeepsFile /\ UnreadableOnlyIfDisturbed

\* All that can happen to the file, the table and those who save it.
MeetSome ==
    /\ \E new \in SUBSET Peers : Meet(new)
    /\ UNCHANGED <<file, saving, disturbed>>

BeginSave(w, new) ==
    /\ saving[w].step = "idle"
    /\ Meet(new)
    /\ SavePeers(w)
    /\ UNCHANGED <<file, disturbed>>

FileStep ==
    \/ UNCHANGED fileVars
    \/ MeetSome
    \/ \E p \in Peers : Drop(p)
    \/ \E named \in SUBSET Peers : Learn(named)
    \/ \E new \in SUBSET Peers, w \in Own : BeginSave(w, new)
    \/ \E w \in Writers : Saving(w)
    \/ PeerClear
    \/ FileEnd
    \/ \E list \in SUBSET Peers : OtherSaves(list)
    \/ OtherEnds

LEMMA FileInvInit == FileInit => FileInv
<1> SUFFICES ASSUME FileInit PROVE FileInv
  OBVIOUS
<1>1. \A w \in Writers : saving[w].step = "idle"
  BY DEF FileInit, Idle
<1>2. FileTypeOK
  BY DEF FileInit, FileTypeOK, Idle
<1> QED
  BY <1>1, <1>2, PeersFileAssumption
  DEF FileInit, FileInv, ListsAreNotEmpty, OneOpen, OpenIsEmpty, OpenFor, IsolatedKeepsFile,
      TableContacted, UnreadableOnlyIfDisturbed, Writers, Own

LEMMA FileStepKeepsInv ==
    ASSUME FileInv, FileStep
    PROVE  FileInv'
<1> USE DEF FileInv, FileTypeOK, ListsAreNotEmpty, OneOpen, OpenIsEmpty, IsolatedKeepsFile,
            TableContacted, UnreadableOnlyIfDisturbed, OpenFor, Writers, Own
<1>1. CASE UNCHANGED fileVars
  BY <1>1 DEF fileVars
<1>2. CASE MeetSome
  BY <1>2 DEF MeetSome, Meet
<1>3. ASSUME NEW p \in Peers, Drop(p)
      PROVE  FileInv'
  BY <1>3 DEF Drop
<1>4. ASSUME NEW new \in SUBSET Peers, NEW w \in Own, BeginSave(w, new)
      PROVE  FileInv'
  <2>1. /\ saving' \in [Writers -> [step : {"idle", "called", "listed", "open"},
                                   list : SUBSET Peers]]
        /\ saving'[w].step = "called"
        /\ \A v \in Writers : v # w => saving'[v] = saving[v]
    BY <1>4 DEF BeginSave, SavePeers
  <2>2. /\ table' \subseteq Peers /\ contacted' \in BOOLEAN /\ (contacted => contacted')
        /\ table' # {} => contacted'
        /\ UNCHANGED <<file, disturbed>>
    BY <1>4 DEF BeginSave, Meet
  <2>3. \A v \in Writers : saving'[v].step \in {"listed", "open"} => saving'[v] = saving[v]
    BY <2>1
  <2>4. \A v \in Writers : saving[v].step = "open" => v # w
    BY <1>4 DEF BeginSave
  <2>5. FileTypeOK' /\ ListsAreNotEmpty' /\ TableContacted' /\ IsolatedKeepsFile'
    BY <2>1, <2>2, <2>3
  <2>6. OneOpen' /\ OpenIsEmpty'
    BY <2>1, <2>2, <2>3
  <2>7. UnreadableOnlyIfDisturbed'
    BY <2>1, <2>2, <2>4
  <2> QED
    BY <2>5, <2>6, <2>7
<1>5. ASSUME NEW w \in Writers, SaveList(w)
      PROVE  FileInv'
  BY <1>5 DEF SaveList, Idle
<1>6. ASSUME NEW w \in Writers, SaveOpen(w)
      PROVE  FileInv'
  BY <1>6 DEF SaveOpen
<1>7. ASSUME NEW w \in Writers, SaveWrite(w)
      PROVE  FileInv'
  BY <1>7, PeersFileAssumption DEF SaveWrite, Idle
<1>8. CASE PeerClear
  BY <1>8, PeersFileAssumption DEF PeerClear, Idle
<1>9. CASE FileEnd
  BY <1>9 DEF FileEnd, Idle
<1>10. ASSUME NEW list \in SUBSET Peers, OtherSaves(list)
       PROVE  FileInv'
  <2>1. /\ saving' \in [Writers -> [step : {"idle", "called", "listed", "open"},
                                   list : SUBSET Peers]]
        /\ saving'["other"].step = "listed" /\ saving'["other"].list = list
        /\ \A v \in Writers : v # "other" => saving'[v] = saving[v]
        /\ UNCHANGED <<file, table, contacted, disturbed>>
    BY <1>10 DEF OtherSaves
  <2>2. list # {} /\ saving["other"].step = "idle" /\ "other" \notin Own
    BY <1>10, PeersFileAssumption DEF OtherSaves, Idle
  <2>3. \A v \in Own : saving'[v] = saving[v]
    BY <2>1, <2>2
  <2>4. \A v \in Writers : saving'[v].step = "open" <=> saving[v].step = "open"
    BY <2>1, <2>2
  <2>5. FileTypeOK' /\ ListsAreNotEmpty' /\ TableContacted'
    BY <2>1, <2>2
  <2>6. IsolatedKeepsFile'
    BY <2>1, <2>3
  <2>7. OneOpen' /\ OpenIsEmpty' /\ UnreadableOnlyIfDisturbed'
    BY <2>1, <2>4
  <2> QED
    BY <2>5, <2>6, <2>7
<1>11. CASE OtherEnds
  BY <1>11 DEF OtherEnds, Idle
<1>12. ASSUME NEW named \in SUBSET Peers, Learn(named)
       PROVE  FileInv'
  BY <1>12 DEF Learn
<1> HIDE DEF FileInv
<1> QED
  BY <1>1, <1>2, <1>3, <1>4, <1>5, <1>6, <1>7, <1>8, <1>9, <1>10, <1>11, <1>12
  DEF FileStep, Saving

-----------------------------------------------------------------------------
\* The process.  A subprocess runs only between the steps that start and stop
\* it; the process has a key once it is identified; only the shutdown saves for
\* "main".
ProcTypeOK ==
    /\ pc \in {"off", "identity", "create", "creating", "mesh", "tunwait", "listen", "load",
               "boot", "api", "announce", "running", "stop", "save", "leave"}
    /\ configured \in BOOLEAN /\ installed \in BOOLEAN /\ tun \in BOOLEAN
    /\ child \in BOOLEAN /\ unclean \in BOOLEAN
    /\ key \in Keys \cup {NoKey}
    /\ orphans \subseteq Keys

ChildInv ==
    child => pc \in {"tunwait", "listen", "load", "boot", "api", "announce", "running", "stop"}

Identified == pc \notin {"off", "identity", "create"} => key \in Keys

MainSaves == saving["main"].step # "idle" => pc = "save"

ProcInv == ProcTypeOK /\ ChildInv /\ Identified /\ MainSaves /\ OrphansOnlyIfUnclean

\* The identity.  As long as only one node has found no identity file, the file
\* is what that node has made of it: missing, empty, or its key.
IdTypeOK ==
    /\ otherKey \in Keys \cup {NoKey}
    /\ idfile \in {Absent, Empty} \cup Keys
    /\ other \in {"off", "create", "creating", "on"}
    /\ creators \subseteq {"main", "other"}
    /\ other \in {"creating", "on"} => otherKey \in Keys

CreatorsKnown ==
    /\ pc \in {"create", "creating"} => "main" \in creators
    /\ other \in {"create", "creating"} => "other" \in creators

OneCreator == ~({"main", "other"} \subseteq creators)

FileFollows ==
    ~configured /\ OneCreator =>
        /\ pc = "create" => idfile = Absent
        /\ other = "create" => idfile = Absent
        /\ pc = "creating" => idfile = Empty
        /\ other = "creating" => idfile = Empty
        /\ pc \notin {"off", "identity", "create", "creating"} => idfile = key
        /\ other = "on" => idfile = otherKey

IdInv == IdTypeOK /\ CreatorsKnown /\ FileFollows

IInv == FileInv /\ ProcInv /\ IdInv

LEMMA InvInit == Init => IInv
<1> SUFFICES ASSUME Init PROVE IInv
  OBVIOUS
<1>1. FileInv
  BY FileInvInit DEF Init
<1>2. ProcInv
  BY DEF Init, FileInit, Writers, Own, Idle, ProcInv, ProcTypeOK, ChildInv, Identified, MainSaves,
         OrphansOnlyIfUnclean
<1>3. IdInv
  BY DEF Init, IdInv, IdTypeOK, CreatorsKnown, FileFollows
<1> QED
  BY <1>1, <1>2, <1>3 DEF IInv

\* What the steps of the file mean for the process.
LEMMA ListedArePeers ==
    ASSUME FileInv
    PROVE  Listed \in SUBSET Peers
  BY DEF FileInv, FileTypeOK, Listed

LEMMA EndSavesNothing ==
    ASSUME FileInv, FileEnd
    PROVE  saving'["main"].step = "idle"
  BY DEF FileInv, FileTypeOK, FileEnd, Writers, Own, Idle

LEMMA SavingStaysIdle ==
    ASSUME FileInv, saving["main"].step = "idle", PeerClear \/ \E w \in Writers : Saving(w)
    PROVE  saving'["main"].step = "idle"
<1>1. CASE PeerClear
  BY <1>1 DEF FileInv, FileTypeOK, PeerClear, Writers, Own, Idle
<1>2. ASSUME NEW w \in Writers, Saving(w)
      PROVE  saving'["main"].step = "idle"
  BY <1>2 DEF FileInv, FileTypeOK, Saving, SaveList, SaveOpen, SaveWrite, OpenFor,
              Writers, Own, Idle
<1> QED
  BY <1>1, <1>2

\* Each action is a step of the file, and keeps the other two invariants.
LEMMA InvStep ==
    ASSUME IInv, Next
    PROVE  FileStep /\ ProcInv' /\ IdInv'
<1> DEFINE Goal == FileStep /\ ProcInv' /\ IdInv'
<1> USE KeysAssumption
    DEF IInv, ProcInv, ProcTypeOK, ChildInv, Identified, MainSaves, OrphansOnlyIfUnclean,
        IdInv, IdTypeOK, CreatorsKnown, OneCreator, FileFollows, At, Goto, idVars, fileVars,
        processVars
<1>1. CASE Start
  <2>1. FileStep
    BY <1>1 DEF Start, FileStep
  <2>2. ProcInv'
    BY <1>1 DEF Start
  <2>3. IdInv'
    BY <1>1 DEF Start
  <2> QED
    BY <2>1, <2>2, <2>3
<1>2. CASE LoadIdentity
  <2>1. FileStep
    BY <1>2 DEF LoadIdentity, Loaded, Ends, FileStep
  <2>2. ProcInv'
    <3>1. CASE Ends /\ UNCHANGED unclean
      BY <1>2, <3>1, EndSavesNothing DEF LoadIdentity, Ends
    <3>2. CASE Goto("create") /\ UNCHANGED fileVars
      BY <1>2, <3>2 DEF LoadIdentity
    <3>3. ASSUME NEW k \in Keys, Loaded(k)
          PROVE  ProcInv'
      BY <1>2, <3>3 DEF LoadIdentity, Loaded
    <3> QED
      BY <1>2, <3>1, <3>2, <3>3 DEF LoadIdentity
  <2>3. IdInv'
    BY <1>2 DEF LoadIdentity, Loaded, Ends
  <2> QED
    BY <2>1, <2>2, <2>3
<1>3. CASE CreateIdentity
  <2>1. FileStep
    BY <1>3 DEF CreateIdentity, NewKeys, FileStep
  <2>2. ProcInv'
    BY <1>3 DEF CreateIdentity, NewKeys
  <2>3. IdInv'
    BY <1>3 DEF CreateIdentity, NewKeys
  <2> QED
    BY <2>1, <2>2, <2>3
<1>4. CASE SaveIdentity
  <2>1. FileStep
    BY <1>4 DEF SaveIdentity, FileStep
  <2>2. ProcInv'
    BY <1>4 DEF SaveIdentity
  <2>3. IdInv'
    BY <1>4 DEF SaveIdentity
  <2> QED
    BY <2>1, <2>2, <2>3
<1>5. CASE ConnectEmbedded
  <2>1. FileStep
    BY <1>5 DEF ConnectEmbedded, FileStep
  <2>2. ProcInv'
    BY <1>5 DEF ConnectEmbedded
  <2>3. IdInv'
    BY <1>5 DEF ConnectEmbedded
  <2> QED
    BY <2>1, <2>2, <2>3
<1>6. CASE StartTun
  <2>1. FileStep
    BY <1>6 DEF StartTun, Ends, FileStep
  <2>2. ProcInv'
    <3>1. CASE Ends /\ UNCHANGED unclean
      BY <1>6, <3>1, EndSavesNothing DEF StartTun, Ends
    <3>2. CASE Goto("listen") /\ UNCHANGED fileVars
      BY <1>6, <3>2 DEF StartTun
    <3>3. CASE /\ pc' = "tunwait"
               /\ child' \in IF orphans = {} THEN {TRUE} ELSE BOOLEAN
               /\ UNCHANGED <<configured, installed, tun, key, orphans, unclean, fileVars>>
      <4>1. child' \in BOOLEAN
        BY <3>3
      <4> QED
        BY <1>6, <3>3, <4>1 DEF StartTun
    <3> QED
      BY <1>6, <3>1, <3>2, <3>3 DEF StartTun
  <2>3. /\ UNCHANGED <<configured, idVars>> /\ pc = "mesh"
        /\ (pc' \in {"listen", "tunwait"} /\ key' = key) \/ pc' = "off"
    BY <1>6 DEF StartTun, Ends
  <2>4. IdInv'
    BY <2>3
  <2> QED
    BY <2>1, <2>2, <2>4
<1>7. CASE TunReady
  <2>1. FileStep
    BY <1>7 DEF TunReady, FileStep
  <2>2. ProcInv'
    BY <1>7 DEF TunReady
  <2>3. IdInv'
    BY <1>7 DEF TunReady
  <2> QED
    BY <2>1, <2>2, <2>3
<1>8. CASE TunTimeout
  <2>1. FileStep
    BY <1>8 DEF TunTimeout, FileStep
  <2>2. ProcInv'
    BY <1>8, EndSavesNothing DEF TunTimeout
  <2>3. IdInv'
    BY <1>8 DEF TunTimeout
  <2> QED
    BY <2>1, <2>2, <2>3
<1>9. CASE Listen
  <2>1. FileStep
    BY <1>9 DEF Listen, FileStep
  <2>2. ProcInv'
    BY <1>9 DEF Listen
  <2>3. IdInv'
    BY <1>9 DEF Listen
  <2> QED
    BY <2>1, <2>2, <2>3
<1>10. CASE ListenFails
  <2>1. FileStep
    BY <1>10 DEF ListenFails, Ends, FileStep
  <2>2. ProcInv'
    BY <1>10, EndSavesNothing DEF ListenFails, Ends
  <2>3. IdInv'
    BY <1>10 DEF ListenFails, Ends
  <2> QED
    BY <2>1, <2>2, <2>3
<1>11. CASE Load
  <2>1. FileStep
    BY <1>11, ListedArePeers DEF Load, LoadPeers, MeetSome, FileStep
  <2>2. ProcInv'
    BY <1>11 DEF Load, LoadPeers, Meet
  <2>3. IdInv'
    BY <1>11 DEF Load, LoadPeers, Meet
  <2> QED
    BY <2>1, <2>2, <2>3
<1>12. CASE BootstrapDHT
  <2>1. FileStep
    <3>1. PICK answering \in SUBSET Bootstrap :
            Meet(IF table = {} THEN answering ELSE {})
      BY <1>12 DEF BootstrapDHT, PingBootstrap
    <3> QED
      BY <1>12, <3>1, PeersFileAssumption DEF BootstrapDHT, PingBootstrap, MeetSome, FileStep
  <2>2. ProcInv'
    BY <1>12 DEF BootstrapDHT, PingBootstrap, Meet
  <2>3. IdInv'
    BY <1>12 DEF BootstrapDHT, PingBootstrap, Meet
  <2> QED
    BY <2>1, <2>2, <2>3
<1>13. CASE StartAPI
  <2>1. FileStep
    BY <1>13 DEF StartAPI, FileStep
  <2>2. ProcInv'
    BY <1>13 DEF StartAPI
  <2>3. IdInv'
    BY <1>13 DEF StartAPI
  <2> QED
    BY <2>1, <2>2, <2>3
<1>14. CASE Announced
  <2>1. FileStep
    BY <1>14 DEF Announced, FileStep
  <2>2. ProcInv'
    BY <1>14 DEF Announced
  <2>3. IdInv'
    BY <1>14 DEF Announced
  <2> QED
    BY <2>1, <2>2, <2>3
<1>15. CASE Signal
  <2>1. FileStep
    BY <1>15 DEF Signal, FileStep
  <2>2. ProcInv'
    BY <1>15 DEF Signal
  <2>3. IdInv'
    BY <1>15 DEF Signal
  <2> QED
    BY <2>1, <2>2, <2>3
<1>16. CASE StopTun
  <2>1. FileStep
    <3>1. Meet({})
      <4>1. contacted \in BOOLEAN
        BY DEF FileInv, FileTypeOK
      <4>2. table' = table /\ contacted' = contacted
        BY <1>16 DEF StopTun
      <4> QED
        BY <4>1, <4>2 DEF Meet
    <3>2. saving["main"].step = "idle"
      BY <1>16 DEF StopTun
    <3>3. BeginSave("main", {})
      BY <1>16, <3>1, <3>2 DEF StopTun, BeginSave
    <3> QED
      BY <3>3 DEF FileStep, Own
  <2>2. ProcInv'
    BY <1>16 DEF StopTun, SavePeers
  <2>3. IdInv'
    BY <1>16 DEF StopTun, SavePeers
  <2> QED
    BY <2>1, <2>2, <2>3
<1>17. CASE StopDHT
  <2>1. FileStep
    BY <1>17 DEF StopDHT, Idle, FileStep
  <2>2. ProcInv'
    BY <1>17 DEF StopDHT, Idle
  <2>3. IdInv'
    BY <1>17 DEF StopDHT, Idle
  <2> QED
    BY <2>1, <2>2, <2>3
<1>18. CASE Leave
  <2>1. FileStep
    BY <1>18 DEF Leave, Ends, FileStep
  <2>2. ProcInv'
    BY <1>18, EndSavesNothing DEF Leave, Ends
  <2>3. IdInv'
    BY <1>18 DEF Leave, Ends
  <2> QED
    BY <2>1, <2>2, <2>3
<1>19. CASE Kill
  <2>1. FileStep
    BY <1>19 DEF Kill, Ends, FileStep
  <2>2. ProcInv'
    BY <1>19, EndSavesNothing DEF Kill, Ends
  <2>3. IdInv'
    BY <1>19 DEF Kill, Ends
  <2> QED
    BY <2>1, <2>2, <2>3
<1>20. CASE Clear
  <2>1. FileStep
    BY <1>20 DEF Clear, PeerClear, OpenFor, Idle, FileStep
  <2>2. ProcInv'
    BY <1>20, SavingStaysIdle DEF Clear
  <2>3. IdInv'
    BY <1>20 DEF Clear, PeerClear, OpenFor, Idle
  <2> QED
    BY <2>1, <2>2, <2>3
<1>21. CASE OtherStart
  <2>1. FileStep
    BY <1>21 DEF OtherStart, FileStep
  <2>2. ProcInv'
    BY <1>21 DEF OtherStart
  <2>3. IdInv'
    BY <1>21 DEF OtherStart
  <2> QED
    BY <2>1, <2>2, <2>3
<1>22. CASE OtherCreates
  <2>1. FileStep
    BY <1>22 DEF OtherCreates, NewKeys, FileStep
  <2>2. ProcInv'
    BY <1>22 DEF OtherCreates, NewKeys
  <2>3. IdInv'
    BY <1>22 DEF OtherCreates, NewKeys
  <2> QED
    BY <2>1, <2>2, <2>3
<1>23. CASE OtherSavesIdentity
  <2>1. FileStep
    BY <1>23 DEF OtherSavesIdentity, FileStep
  <2>2. ProcInv'
    BY <1>23 DEF OtherSavesIdentity
  <2>3. IdInv'
    BY <1>23 DEF OtherSavesIdentity
  <2> QED
    BY <2>1, <2>2, <2>3
<1>24. CASE OtherStops
  <2>1. FileStep
    BY <1>24 DEF OtherStops, OtherEnds, FileStep
  <2>2. ProcInv'
    BY <1>24 DEF OtherStops, OtherEnds
  <2>3. IdInv'
    BY <1>24 DEF OtherStops, OtherEnds
  <2> QED
    BY <2>1, <2>2, <2>3
<1>25. ASSUME NEW k \in Keys, OrphanEnds(k)
      PROVE  Goal
  <2>1. FileStep
    BY <1>25 DEF OrphanEnds, FileStep
  <2>2. ProcInv'
    BY <1>25 DEF OrphanEnds
  <2>3. IdInv'
    BY <1>25 DEF OrphanEnds
  <2> QED
    BY <2>1, <2>2, <2>3
<1>26. ASSUME NEW p \in Peers, Contacts(p)
      PROVE  Goal
  <2>1. FileStep
    <3>1. {p} \in SUBSET Peers
      OBVIOUS
    <3> QED
      BY <1>26, <3>1 DEF Contacts, MeetSome, FileStep
  <2>2. ProcInv'
    BY <1>26 DEF Contacts, Meet, Drop
  <2>3. IdInv'
    BY <1>26 DEF Contacts, Meet, Drop
  <2> QED
    BY <2>1, <2>2, <2>3
<1>27. ASSUME NEW p \in Peers, NEW h \in Handlers, PostPeer(p, h)
      PROVE  Goal
  <2>1. FileStep
    <3>1. {p} \in SUBSET Peers /\ h \in Own /\ BeginSave(h, {p})
      BY <1>27 DEF PostPeer, BeginSave, Idle, Own
    <3> QED
      BY <3>1 DEF FileStep
  <2>2. ProcInv'
    <3>1. saving'["main"] = saving["main"]
      BY <1>27, PeersFileAssumption DEF PostPeer, SavePeers, FileInv, FileTypeOK, Writers, Own
    <3> QED
      BY <1>27, <3>1 DEF PostPeer
  <2>3. IdInv'
    BY <1>27 DEF PostPeer, SavePeers, Meet
  <2> QED
    BY <2>1, <2>2, <2>3
<1>28. ASSUME NEW w \in Writers, Writes(w)
      PROVE  Goal
  <2>1. FileStep
    BY <1>28 DEF Writes, Saving, SaveList, SaveOpen, SaveWrite, Idle, Writers, Own, FileStep
  <2>2. ProcInv'
    BY <1>28, SavingStaysIdle DEF Writes
  <2>3. IdInv'
    BY <1>28 DEF Writes, Saving, SaveList, SaveOpen, SaveWrite, Idle, Writers, Own
  <2> QED
    BY <2>1, <2>2, <2>3
<1>29. ASSUME NEW list \in SUBSET Peers, OtherWrites(list)
      PROVE  Goal
  <2>1. FileStep
    BY <1>29 DEF OtherWrites, OtherSaves, FileStep
  <2>2. ProcInv'
    BY <1>29 DEF OtherWrites, OtherSaves
  <2>3. IdInv'
    BY <1>29 DEF OtherWrites, OtherSaves
  <2> QED
    BY <2>1, <2>2, <2>3
<1>30. ASSUME NEW p \in Peers, Lookup({p})
       PROVE  Goal
  <2>1. FileStep
    <3>1. {p} \in SUBSET Peers
      OBVIOUS
    <3> QED
      BY <1>30, <3>1 DEF Lookup, FileStep
  <2>2. ProcInv'
    BY <1>30 DEF Lookup, Learn
  <2>3. IdInv'
    BY <1>30 DEF Lookup, Learn
  <2> QED
    BY <2>1, <2>2, <2>3
<1> QED
  BY <1>1, <1>2, <1>3, <1>4, <1>5, <1>6, <1>7, <1>8, <1>9, <1>10, <1>11, <1>12, <1>13, <1>14,
     <1>15, <1>16, <1>17, <1>18, <1>19, <1>20, <1>21, <1>22, <1>23, <1>24, <1>25, <1>26, <1>27,
     <1>28, <1>29, <1>30
  DEF Next, Starting, Stopping, Other

LEMMA InvHolds == Spec => []IInv
<1>1. ASSUME IInv, [Next]_vars
      PROVE  IInv'
  <2>1. CASE Next
    <3>1. FileStep /\ ProcInv' /\ IdInv'
      BY <1>1, <2>1, InvStep
    <3> QED
      BY <1>1, <3>1, FileStepKeepsInv DEF IInv
  <2>2. CASE UNCHANGED vars
    <3>1. FileInv'
      BY <1>1, <2>2, FileStepKeepsInv DEF vars, FileStep, IInv
    <3>2. ProcInv' /\ IdInv'
      BY <1>1, <2>2
      DEF IInv, vars, processVars, idVars, fileVars, ProcInv, ProcTypeOK, ChildInv, Identified,
          MainSaves, OrphansOnlyIfUnclean, IdInv, IdTypeOK, CreatorsKnown, OneCreator,
          FileFollows
    <3> QED
      BY <3>1, <3>2 DEF IInv
  <2> QED
    BY <1>1, <2>1, <2>2
<1> QED
  BY InvInit, <1>1, PTL DEF Spec

-----------------------------------------------------------------------------
\* The state has its shape.  In particular a peers file that can be read is never
\* an empty list.
THEOREM LifecycleTypes == Spec => []TypeOK
<1>1. IInv => TypeOK
  BY DEF IInv, FileInv, ProcInv, ProcTypeOK, IdInv, IdTypeOK, TypeOK
<1> QED
  BY InvHolds, <1>1, PTL

\* A session in which nobody answers or calls writes nothing to the peers file, for
\* any number of peers and of handlers of POST /peer, and whatever is killed or
\* started again; an empty list is never written.
THEOREM IsolatedWritesNothing == Spec => []IsolatedKeepsFile
<1>1. IInv => IsolatedKeepsFile
  BY DEF IInv, FileInv
<1> QED
  BY InvHolds, <1>1, PTL

\* The peers file is unreadable only if a save was cut short or overlapped with
\* another.
THEOREM FileReadable == Spec => []UnreadableOnlyIfDisturbed
<1>1. IInv => UnreadableOnlyIfDisturbed
  BY DEF IInv, FileInv
<1> QED
  BY InvHolds, <1>1, PTL

\* A subprocess is left behind only by a kill or by a node that could not
\* listen.
THEOREM NoOrphans == Spec => []OrphansOnlyIfUnclean
<1>1. IInv => OrphansOnlyIfUnclean
  BY DEF IInv, ProcInv
<1> QED
  BY InvHolds, <1>1, PTL

\* Two who create are two.
LEMMA TwoCreators == Cardinality({"main", "other"}) = 2
<1>1. IsFiniteSet({"main"}) /\ Cardinality({"main"}) = 1
  BY FS_Singleton
<1>2. {"main", "other"} = {"main"} \cup {"other"} /\ "other" \notin {"main"}
  OBVIOUS
<1> QED
  BY <1>1, <1>2, FS_AddElement

\* A node uses the key that is in the identity file, whatever is killed when,
\* unless two nodes were first started together.
THEOREM KeyStaysOnDisk == Spec => []KeyIsOnDisk
<1>1. IInv => KeyIsOnDisk
  <2> SUFFICES ASSUME IInv, ~configured, Cardinality(creators) <= 1
               PROVE  /\ pc \notin {"off", "identity", "create", "creating"} => idfile = key
                      /\ other = "on" => idfile = otherKey
    BY DEF KeyIsOnDisk
  <2>1. OneCreator
    <3> SUFFICES ASSUME {"main", "other"} \subseteq creators PROVE FALSE
      BY DEF OneCreator
    <3>1. creators = {"main", "other"}
      BY DEF IInv, IdInv, IdTypeOK
    <3> QED
      BY <3>1, TwoCreators
  <2> QED
    BY <2>1 DEF IInv, IdInv, FileFollows
<1> QED
  BY InvHolds, <1>1, PTL
=============================================================================
