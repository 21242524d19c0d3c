----------------------------- MODULE PeersFile -----------------------------
(***************************************************************************)
(* The list of peers that a node keeps between sessions (dht/peers.go):    *)
(* SavePeers and LoadPeers over a file that is not written atomically.     *)
(* os.WriteFile opens the file, which empties it, and then writes; the     *)
(* callers of SavePeers, "main" at shutdown and each handler of a POST     *)
(* /peer, do not exclude each other, and another node started in the same  *)
(* directory, "other", writes the same file.  Lifecycle says when these    *)
(* actions run.                                                            *)
(***************************************************************************)
EXTENDS Integers, FiniteSets

CONSTANTS
    Peers,          \* nodes that may become peers
    Bootstrap,      \* meshnetBootstrapPeers
    Handlers,       \* the calls of POST /peer that may be handled at a time
    Absent,         \* no file
    Empty,          \* a file without content
    Broken          \* content that is not a list

ASSUME PeersFileAssumption ==
    /\ Bootstrap \subseteq Peers
    /\ Handlers \cap {"main", "other"} = {}
    /\ Absent \notin {Empty, Broken}
    /\ \A list \in SUBSET Peers : list \notin {Absent, Empty, Broken}

VARIABLES
    file,       \* peers.json: Absent, Empty, Broken or the peers it lists
    table,      \* the contacts in the routing table of this node
    saving,     \* the SavePeers of each writer: its step, and what it will write
    contacted,  \* history: has a peer answered or called in this session?
    disturbed   \* history: was the last save cut short, or did two overlap?

fileVars == <<file, table, saving, contacted, disturbed>>

Own == {"main"} \cup Handlers

Writers == Own \cup {"other"}

Idle == [step |-> "idle", list |-> {}]

FileInit ==
    /\ file = Absent
    /\ table = {}
    /\ saving = [w \in Writers |-> Idle]
    /\ contacted = FALSE
    /\ disturbed = FALSE

\* Peers answer or call (NodeTable has the details).  LookupNode adds whomever
\* an answer names, heard of or not, gone or not; a table that never had anybody
\* in it starts no lookup.  A peer that failed a query is dropped.
Meet(new) ==
    /\ table' = table \cup new
    /\ contacted' = (contacted \/ new # {})

Learn(named) ==
    /\ contacted
    /\ table' = table \cup named
    /\ UNCHANGED <<file, saving, contacted, disturbed>>

Drop(p) ==
    /\ p \in table
    /\ table' = table \ {p}
    /\ UNCHANGED <<file, saving, contacted, disturbed>>

-----------------------------------------------------------------------------
OpenFor(w) == saving[w].step = "open"

SavePeers(w) == saving' = [saving EXCEPT ![w].step = "called"]

\* All, and nothing is saved of an empty table.  The variant saves it.
SaveList_EvenEmpty(w) ==
    /\ saving[w].step = "called"
    /\ saving' = [saving EXCEPT ![w] = [step |-> "listed", list |-> table]]
    /\ UNCHANGED <<file, table, contacted, disturbed>>

SaveList(w) ==
    /\ saving[w].step = "called"
    /\ saving' = [saving EXCEPT ![w] =
            IF table = {} THEN Idle ELSE [step |-> "listed", list |-> table]]
    /\ UNCHANGED <<file, table, contacted, disturbed>>

\* os.WriteFile opens the file: created or truncated.  The variant does not
\* truncate.  Nothing disturbs this save if no other writer has the file open.
SaveOpen_NoTruncate(w) ==
    /\ saving[w].step = "listed"
    /\ saving' = [saving EXCEPT ![w].step = "open"]
    /\ file' = IF file = Absent THEN Empty ELSE file
    /\ disturbed' = \E v \in Writers : OpenFor(v)
    /\ UNCHANGED <<table, contacted>>

SaveOpen(w) ==
    /\ saving[w].step = "listed"
    /\ saving' = [saving EXCEPT ![w].step = "open"]
    /\ file' = Empty
    /\ disturbed' = \E v \in Writers : OpenFor(v)
    /\ UNCHANGED <<table, contacted>>

\* It writes from the start of the file, over what another writer put there; if
\* the new text is the shorter one, the end of the old one stays.
SaveWrite(w) ==
    /\ OpenFor(w)
    /\ \/ file' = saving[w].list
       \/ file \notin {Absent, Empty, saving[w].list} /\ file' = Broken
    /\ saving' = [saving EXCEPT ![w] = Idle]
    /\ UNCHANGED <<table, contacted, disturbed>>

\* meshnet peer clear.  A writer that has the file open writes into nothing.
PeerClear ==
    /\ file # Absent
    /\ file' = Absent
    /\ saving' = [w \in Writers |-> IF OpenFor(w) THEN Idle ELSE saving[w]]
    /\ UNCHANGED <<table, contacted, disturbed>>

-----------------------------------------------------------------------------
Listed == IF file \in {Absent, Empty, Broken} THEN {} ELSE file

\* LoadPeers: what does not decode counts as no file; the peers that answer a
\* ping are in the table.  The variant trusts the file.
LoadPeers_Unasked ==
    /\ table' = table \cup Listed
    /\ UNCHANGED <<file, saving, contacted, disturbed>>

LoadPeers ==
    /\ \E answering \in SUBSET Listed : Meet(answering)
    /\ UNCHANGED <<file, saving, disturbed>>

\* BootstrapDHT goes on to the well-known nodes if the table is empty.
PingBootstrap ==
    /\ \E answering \in SUBSET Bootstrap :
        Meet(IF table = {} THEN answering ELSE {})
    /\ UNCHANGED <<file, saving, disturbed>>

\* The process ends, with its table and whatever it was writing.
FileEnd ==
    /\ table' = {}
    /\ contacted' = FALSE
    /\ saving' = [w \in Writers |-> IF w \in Own THEN Idle ELSE saving[w]]
    /\ disturbed' = (disturbed \/ \E w \in Own : OpenFor(w))
    /\ UNCHANGED file

\* SavePeers of the other node, of whatever table it has, or its end.
OtherSaves(list) ==
    /\ saving["other"] = Idle /\ list # {}
    /\ saving' = [saving EXCEPT !["other"] = [step |-> "listed", list |-> list]]
    /\ UNCHANGED <<file, table, contacted, disturbed>>

OtherEnds ==
    /\ saving' = [saving EXCEPT !["other"] = Idle]
    /\ disturbed' = (disturbed \/ OpenFor("other"))
    /\ UNCHANGED <<file, table, contacted>>

Saving(w) == SaveList(w) \/ SaveOpen(w) \/ SaveWrite(w)

-----------------------------------------------------------------------------
FileTypeOK ==
    /\ file \in {Absent, Empty, Broken} \cup ((SUBSET Peers) \ {{}})
    /\ table \subseteq Peers /\ contacted \in BOOLEAN
    /\ saving \in [Writers -> [step : {"idle", "called", "listed", "open"},
                               list : SUBSET Peers]]
    /\ disturbed \in BOOLEAN

\* A session in which no peer answered or called writes nothing: neither an empty
\* list nor the contacts of the last session, of whom it knows nothing.  The file
\* stays for the session that does find somebody.
IsolatedKeepsFile ==
    \A w \in Own : saving[w].step \in {"listed", "open"} =>
        contacted /\ saving[w].list # {}

\* The file cannot be decoded only while it is being written, or after a writer
\* died in the middle or two overlapped; the next undisturbed save repairs it.
UnreadableOnlyIfDisturbed ==
    file \in {Empty, Broken} => disturbed \/ \E w \in Writers : OpenFor(w)
=============================================================================
