----------------------------- MODULE Lifecycle -----------------------------
(***************************************************************************)
(* One node from `meshnet start` to its end (cmdStart of cli/cli.go), with *)
(* what it leaves on disk and on the machine: the identity file            *)
(* (core/identity.go), the Yggdrasil subprocess of TUN mode                *)
(* (core/yggservice.go) and the peers file.  The process can be killed at  *)
(* any point, and started again.  Another node in the same directory       *)
(* shares the files; an installed Yggdrasil service shares its key.        *)
(***************************************************************************)
EXTENDS PeersFile

CONSTANTS Keys, ServiceKey, NoKey

ASSUME KeysAssumption ==
    /\ ServiceKey \in Keys
    /\ {NoKey, Absent, Empty} \cap Keys = {}

VARIABLES
    configured, \* is there a config of an installed Yggdrasil that can be read?
    installed,  \* does the service manager know the Yggdrasil service?
    pc,         \* where cmdStart is, "off" when there is no process
    tun,        \* the -tun flag
    key,        \* the key of this node
    child,      \* does its Yggdrasil subprocess run?
    orphans,    \* the keys of subprocesses that outlived their node
    unclean,    \* history: a node was killed or failed to listen
    idfile,     \* identity.json: Absent, Empty or a key
    other,      \* the other node: "off", "create", "creating" or "on"
    otherKey,
    creators    \* history: who found no identity file

processVars == <<configured, installed, pc, tun, key, child, orphans, unclean>>
idVars == <<idfile, other, otherKey, creators>>
vars == <<processVars, idVars, fileVars>>

NewKeys == Keys \ {ServiceKey, key, otherKey}

Init ==
    /\ FileInit
    /\ configured \in BOOLEAN /\ installed \in BOOLEAN
    /\ pc = "off" /\ tun = FALSE /\ key = NoKey /\ child = FALSE
    /\ orphans = {} /\ unclean = FALSE
    /\ idfile = Absent
    /\ other = "off" /\ otherKey = NoKey /\ creators = {}

\* The next step of cmdStart, and the end of the process: its memory and its
\* half of every file are gone, a subprocess is not.
Goto(p) == pc' = p /\ UNCHANGED <<configured, installed, tun, key, child, orphans, unclean>>

At(p, q) == pc = p /\ Goto(q)

Ends ==
    /\ pc' = "off" /\ tun' = FALSE
    /\ key' = NoKey
    /\ child' = FALSE
    /\ orphans' = IF child THEN orphans \cup {key} ELSE orphans
    /\ FileEnd
    /\ UNCHANGED <<configured, installed>>

Start ==
    /\ pc = "off"
    /\ tun' \in BOOLEAN
    /\ pc' = "identity"
    /\ UNCHANGED <<configured, installed, key, child, orphans, unclean, idVars, fileVars>>

-----------------------------------------------------------------------------
\* loadOrCreateIdentity: the key of the installed Yggdrasil, or that of the file;
\* only if there is no file a new one.  The variant takes any failure to read
\* a key for a missing file.
Loaded(k) ==
    /\ key' = k
    /\ pc' = "mesh"
    /\ UNCHANGED <<configured, installed, tun, child, orphans, unclean, idVars, fileVars>>

LoadIdentity_AnyErrorCreates ==
    /\ pc = "identity"
    /\ \/ configured /\ Loaded(ServiceKey)
       \/ ~configured /\ idfile \in Keys /\ Loaded(idfile)
       \/ /\ ~configured /\ idfile \notin Keys
          /\ Goto("create")
          /\ creators' = IF idfile = Absent THEN creators \cup {"main"} ELSE creators
          /\ UNCHANGED <<idfile, other, otherKey, fileVars>>

LoadIdentity ==
    /\ pc = "identity"
    /\ \/ configured /\ Loaded(ServiceKey)
       \/ ~configured /\ idfile \in Keys /\ Loaded(idfile)
       \/ /\ ~configured /\ idfile = Absent
          /\ Goto("create")
          /\ creators' = creators \cup {"main"}
          /\ UNCHANGED <<idfile, other, otherKey, fileVars>>
       \/ /\ ~configured /\ idfile = Empty       \* "failed to parse": os.Exit
          /\ Ends /\ UNCHANGED <<unclean, idVars>>

\* createAndSaveIdentity: os.WriteFile again, and the key is used when that is
\* done.
CreateIdentity ==
    /\ pc = "create"
    /\ key' \in NewKeys
    /\ pc' = "creating"
    /\ idfile' = Empty
    /\ UNCHANGED <<configured, installed, tun, child, orphans, unclean,
                   other, otherKey, creators, fileVars>>

SaveIdentity ==
    /\ At("creating", "mesh")
    /\ idfile' = key
    /\ UNCHANGED <<other, otherKey, creators, fileVars>>

-----------------------------------------------------------------------------
\* BootstrapPeers connects the embedded node; in TUN mode it stays alone.
ConnectEmbedded ==
    /\ ~tun /\ At("mesh", "listen")
    /\ UNCHANGED <<idVars, fileVars>>

\* YggService.Start.  An installed service is used as it is.  If not, the config
\* is written and the subprocess started, if there is one to start; a
\* subprocess that finds the admin port of an orphan may end at once.
StartTun ==
    /\ pc = "mesh" /\ tun
    /\ \/ installed /\ Goto("listen") /\ UNCHANGED fileVars
       \/ /\ ~installed
          /\ pc' = "tunwait"
          /\ child' \in IF orphans = {} THEN {TRUE} ELSE BOOLEAN
          /\ UNCHANGED <<configured, installed, tun, key, orphans, unclean, fileVars>>
       \/ ~installed /\ Ends /\ UNCHANGED unclean   \* cannot be executed: os.Exit
    /\ UNCHANGED idVars

\* Within thirty seconds its admin socket answers; or it is killed, and the node
\* gives up.  The variant does not kill it.
TunReady ==
    /\ At("tunwait", "listen")
    /\ UNCHANGED <<idVars, fileVars>>

TunTimeout_NotKilled ==
    /\ pc = "tunwait"
    /\ Ends
    /\ UNCHANGED <<unclean, idVars>>

TunTimeout ==
    /\ pc = "tunwait"
    /\ pc' = "off" /\ tun' = FALSE /\ key' = NoKey /\ child' = FALSE
    /\ FileEnd
    /\ UNCHANGED <<configured, installed, orphans, unclean, idVars>>

\* DHT.Start: the port is free, or os.Exit, with the subprocess running.
Listen ==
    /\ At("listen", "load")
    /\ UNCHANGED <<idVars, fileVars>>

ListenFails ==
    /\ pc = "listen"
    /\ Ends
    /\ unclean' = TRUE
    /\ UNCHANGED idVars

Load == At("load", "boot") /\ LoadPeers /\ UNCHANGED idVars

BootstrapDHT == At("boot", "api") /\ PingBootstrap /\ UNCHANGED idVars

\* StartAPI and, after the announcement, signal.Notify.  The peer of the -peer
\* flag is an ordinary Meet; what the lookup of Announce adds is in Lookup.
StartAPI == At("api", "announce") /\ UNCHANGED <<idVars, fileVars>>

Announced == At("announce", "running") /\ UNCHANGED <<idVars, fileVars>>

-----------------------------------------------------------------------------
\* Shutdown: the Reannouncer and the subprocess, SavePeers, Stop of the DHT,
\* node.Stop.  The variant leaves the subprocess out.
Signal == At("running", "stop") /\ UNCHANGED <<idVars, fileVars>>

StopTun_Forgotten ==
    /\ At("stop", "save")
    /\ SavePeers("main")
    /\ UNCHANGED <<idVars, file, table, contacted, disturbed>>

StopTun ==
    /\ pc = "stop"
    /\ pc' = "save"
    /\ child' = FALSE
    /\ SavePeers("main")
    /\ UNCHANGED <<configured, installed, tun, key, orphans, unclean, idVars,
                   file, table, contacted, disturbed>>

StopDHT ==
    /\ saving["main"] = Idle /\ At("save", "leave")
    /\ UNCHANGED <<idVars, fileVars>>

Leave ==
    /\ pc = "leave"
    /\ Ends
    /\ UNCHANGED <<unclean, idVars>>

\* Killed, by a signal before signal.Notify or by anything later.
Kill ==
    /\ pc # "off"
    /\ Ends
    /\ unclean' = TRUE
    /\ UNCHANGED idVars

OrphanEnds(k) ==
    /\ k \in orphans
    /\ orphans' = orphans \ {k}
    /\ UNCHANGED <<configured, installed, pc, tun, key, child, unclean, idVars, fileVars>>

-----------------------------------------------------------------------------
\* What happens around a listening node: contacts, the lookups of Announce, whose
\* repetition may outlast the Reannouncer, POST /peer, whose handlers run on while
\* the node shuts down, and the other node.
Serving == pc \in {"load", "boot", "api", "announce", "running", "stop", "save"}

HasAPI == pc \in {"announce", "running", "stop", "save", "leave"}

Contacts(p) ==
    /\ Serving
    /\ \/ Meet({p}) /\ UNCHANGED <<file, saving, disturbed>>
       \/ Drop(p)
    /\ UNCHANGED <<processVars, idVars>>

Lookup(named) ==
    /\ HasAPI
    /\ Learn(named)
    /\ UNCHANGED <<processVars, idVars>>

PostPeer(p, h) ==
    /\ HasAPI /\ saving[h] = Idle
    /\ Meet({p})
    /\ SavePeers(h)
    /\ UNCHANGED <<processVars, idVars, file, disturbed>>

Writes(w) == Saving(w) /\ UNCHANGED <<processVars, idVars>>

Clear == PeerClear /\ UNCHANGED <<processVars, idVars>>

OtherStart ==
    /\ other = "off"
    /\ \/ configured /\ otherKey' = ServiceKey /\ other' = "on" /\ UNCHANGED creators
       \/ /\ ~configured /\ idfile \in Keys
          /\ otherKey' = idfile /\ other' = "on" /\ UNCHANGED creators
       \/ /\ ~configured /\ idfile = Absent
          /\ other' = "create"
          /\ creators' = creators \cup {"other"}
          /\ UNCHANGED otherKey
    /\ UNCHANGED <<processVars, idfile, fileVars>>

OtherCreates ==
    /\ other = "create"
    /\ otherKey' \in NewKeys
    /\ other' = "creating"
    /\ idfile' = Empty
    /\ UNCHANGED <<processVars, creators, fileVars>>

OtherSavesIdentity ==
    /\ other = "creating"
    /\ other' = "on"
    /\ idfile' = otherKey
    /\ UNCHANGED <<processVars, otherKey, creators, fileVars>>

OtherStops ==
    /\ other # "off"
    /\ other' = "off"
    /\ otherKey' = NoKey
    /\ OtherEnds
    /\ UNCHANGED <<processVars, idfile, creators>>

OtherWrites(list) ==
    /\ other = "on"
    /\ OtherSaves(list)
    /\ UNCHANGED <<processVars, idVars>>

Starting ==
    \/ LoadIdentity \/ CreateIdentity \/ SaveIdentity
    \/ ConnectEmbedded \/ StartTun \/ TunReady \/ TunTimeout
    \/ Listen \/ ListenFails \/ Load \/ BootstrapDHT \/ StartAPI \/ Announced

Stopping == StopTun \/ StopDHT \/ Leave

Other ==
    \/ OtherStart \/ OtherCreates \/ OtherSavesIdentity \/ OtherStops
    \/ \E list \in SUBSET Peers : OtherWrites(list)

Next ==
    \/ Start \/ Starting \/ Signal \/ Stopping \/ Kill \/ Clear \/ Other
    \/ \E k \in Keys : OrphanEnds(k)
    \/ \E p \in Peers : Contacts(p) \/ Lookup({p}) \/ \E h \in Handlers : PostPeer(p, h)
    \/ \E w \in Writers : Writes(w)

Spec == Init /\ [][Next]_vars

-----------------------------------------------------------------------------
\* The shape of the state.
TypeOK ==
    /\ FileTypeOK
    /\ pc \in {"off", "identity", "create", "creating", "mesh", "tunwait", "listen", "load",
               "boot", "api", "announce", "running", "stop", "save", "leave"}
    /\ configured \in BOOLEAN /\ installed \in BOOLEAN /\ tun \in BOOLEAN
    /\ child \in BOOLEAN /\ unclean \in BOOLEAN
    /\ key \in Keys \cup {NoKey} /\ otherKey \in Keys \cup {NoKey}
    /\ orphans \subseteq Keys
    /\ idfile \in {Absent, Empty} \cup Keys
    /\ other \in {"off", "create", "creating", "on"}
    /\ creators \subseteq {"main", "other"}

\* A Yggdrasil subprocess outlives its node only if that was killed or could not
\* listen: neither a shutdown nor a subprocess that does not come up leaves one.
OrphansOnlyIfUnclean == orphans # {} => unclean

\* A node uses the key that the identity file will give it next time, whatever
\* is killed in between, unless two nodes of one directory are first started
\* together, when both find no file and both create one.
KeyIsOnDisk ==
    ~configured /\ Cardinality(creators) <= 1 =>
        /\ pc \notin {"off", "identity", "create", "creating"} => idfile = key
        /\ other = "on" => idfile = otherKey

=============================================================================
