# MeshNet in TLA+

A verification development of MeshNet: a Go program (`src/`) that gives every
device a name on a Yggdrasil mesh, and keeps the names in a Kademlia-like
distributed hash table (`src/dht/`). The modules model the hash table, the
process around it with what it leaves on disk, and pairing. The repository has
no tests; these runs and proofs are about the behaviours that tests would find
hardest to reach: interleavings, failures, restarts, late and lost messages.

To check everything: `tlc -config X.cfg M` for the pairs in the table of runs,
`tlapm M.tla` for the eight `*Proofs` modules.

## The system

| part | state | operations | hard because |
|---|---|---|---|
| routing table, `dht/routing.go`, `All` in `dht/peers.go` | 256 buckets of at most 20 contacts, most recent last | `Add`, `Remove`, `Closest`, `All`, `Size` | four callers on many goroutines; a call to another node holds no lock, so a `Remove` acts on a copy made long ago |
| record store, `dht/store.go`, `dht/register.go` | name -> signed record | `Put`, `Get`, `GetPublic`, `GetForGroup`, cleanup once a minute; `CreateRecord` | checks before the lock and write under it; an expired record that is still there; late and repeated STOREs |
| lookups, `dht/lookup.go` | candidates and contacted nodes of one lookup | `LookupNode`, `LookupValue` | goroutine per query, answers in any order, a select with three cases, early return |
| announcing, `Announce` in `dht/lookup.go`, `dht/announce.go` | the record of the Reannouncer, its ticker | `Announce`, `loop` | STORE is not answered; contenders; restarts forget everything; time |
| RPC, `dht/rpc.go`, `dht/dht.go` | listener, connections, WaitGroup | `Start`, accept loop, four request handlers, four client calls, `Stop` | one connection per request, a deadline for reading and none for writing; `Stop` against an Accept under way |
| peers file and bootstrap, `dht/peers.go`, `dht/bootstrap_peers.go` | `peers.json` | `SavePeers`, `LoadPeers`, `BootstrapDHT`, `peer clear` | several writers, a write that is not atomic; contacts nobody has heard from |
| local API, `dht/api.go` | none | `/status`, `/lookup`, `/peers`, `POST /peer` | calls into all of the above concurrently, also during shutdown |
| CLI, `cli/cli.go` | the process | `start`, `lookup`, `status`, `peer` | order of start and stop, `os.Exit` half way |
| identity, `core/identity.go` | `identity.json` | load or create | two first starts; the key of an installed service |
| Yggdrasil node and TUN service, `core/node.go`, `core/yggservice.go` | a library instance, or a subprocess | start, wait, stop | a subprocess outlives its parent |
| pairing, `pairing/` | `contacts.json`, a contact book | `Initiate`, `Join`, `Add`, `Save` | two parties, polling, expiry, concurrent Saves. No command calls it yet |
| certificate, `core/cert.go` | none | one pure function | - |

How they interact: `cmdStart` loads the identity, starts the embedded node or the
TUN service, creates the DHT, which starts the accept loop and the store's
cleanup goroutine; pings the peers of the last session (or the bootstrap nodes)
and the peer of the command line; starts the local API; signs one record and
announces it; and starts the Reannouncer. From then on requests of other nodes,
requests to the local API and the Reannouncer's ticker run concurrently over two
shared objects, the table and the store, each behind its own lock. A client
command talks to the local API. Pairing is written against the same DHT: its two
parties announce records under names made of a code, and look them up.

What makes each part correct, and where it is stated:

* table: an entry is in its bucket, once, within capacity, in order of last
  contact; it is dropped for one reason only; buckets and metric agree.
  `NodeTable`
* store: entries are signed as they stand; a name is leased to one key; a dead
  entry goes within a cleanup period. `RecordStore`, `NameLease`
* lookups: every node heard of is asked once, nearest first, at most alpha at a
  time; they return; nothing is left behind. `IterativeSearch`, `LookupNode`,
  `LookupValue`
* announcing: no contender displaces a record that a store took, no copy of it
  outlives it, and the name becomes free. `Announce`
* the mesh: whoever is connected is led to what was announced. `Mesh`
* server: nothing is served once Stop has returned, and it does return.
  `Server`, `Drain`
* peers file: a session that met nobody leaves it alone, and it is unreadable only
  when a save was disturbed. `PeersFile`, `Lifecycle`
* process: no subprocess left behind, a key that is on disk. `Lifecycle`
* pairing: mutual, with whoever has the code, in time; saved contacts stay.
  `Pairing`, `Contacts`

## The modules

**`NodeID`** - identifiers as functions from bit positions to bits, bit 1 the top
bit of byte 0. `XOR`, `Less` and `bucketIndex` of `dht/routing.go`. Comparing
bytes from the most significant one is comparing bits in that order.

**`RoutingTable`** - the table as a value and its methods as operators. All of
them hold `rt.mu` from start to end, so each is one step for its caller.
`TableClosest` is `Closest`: all entries, sorted by `Less`, cut at the count.
`SortByDistance` builds the sorted list from the set of its members, each at the
place given by how many are nearer; `LessTotal` says that different nodes never
tie, so neither the order of the buckets nor the instability of `sort.Slice`
shows. `GoodTable` says what the tables of running nodes are like. The variable
`table` is declared here, for all who work on it.

**`NodeTable`** - one node's table under everything that changes it. `HandlePing`
is `handlePing`; `PingPeerDial`, `PingPeerPong`, `PingPeerError` are `PingPeer`,
whose callers (`LoadPeers`, `BootstrapDHT`, `POST /peer`, the `-peer` flag) differ
only in the address; `LookupNodeAdd` is the `table.Add` of a lookup; `QueryStart`,
`QueryAnswered`, `QueryError` are a goroutine of `LookupValue`, which removes the
node on any error. `heard` and `quietSince` are history: the latest contact of each
node, and who was not heard of since; `OrderOfLastContact` compares the buckets
with them. Definitions are named `TableInit`, `TableSpec` and so on
where a lookup has the like, so that proofs can speak of both.

**`NameLease`** - what a store promises, abstractly: a name is free or leased to
a key until some time; the holder may renew, also to an earlier end; anybody
else waits until the lease has run out and was taken back.

**`RecordStore`** - the store. `PutCheck` is `Put` up to `s.mu.Lock`, `PutStore`
the rest. Signing is abstracted to whether the fields are those that were
signed; `Torn` is a record whose fields are not, as a STORE may carry it. The
cleanup ticker is a clock constraint: the clock does not pass the ticker's next
tick before `cleanup` ran, that is, the goroutine is assumed to wake up within
the time unit of its tick. `LeaseSpec` maps the store to `NameLease`.

**`IterativeSearch`** - what a lookup promises, abstractly: of the nodes heard of,
it asks in rounds of at most Alpha, one round at a time, nobody twice, the closest
first, and ends when everybody was asked or when something ends it early.

**`LookupState`** - `lookupState` of `dht/lookup.go`, the variables both lookups
have, and what the other nodes answer: `Closest` over a table that does not
change during the lookup. `addCandidates` sorts the union of the candidates and
the `Fresh` contacts of the answer, `nextBatch` is the first `Alpha` of those
`Uncontacted`. The table a lookup starts with is any of `SeedTables`; that the
tables of `NodeTable` satisfy what is assumed of them is `TablesFitLookups`.

**`LookupNode`**, **`LookupValue`** - the main goroutine has a program counter
`pc`; a query goroutine is in `spawned` until it ran `markContacted`, and in
`sent` until its call ends. `LookupNode` collects answers through a buffered
channel and feeds candidates and table; `LookupValue` lets the goroutines add
candidates and sits in a select. A Go select first polls, taking any ready case,
then parks and takes the first event; so it is two steps, in the first of which
`SelectDone` may drop a record that is ready too, and the timer, which
starts with the select, can only fire on a parked goroutine, when each node
still waited for has been silent for ten seconds. `silent` nodes may or may not
answer in time, `dead` ones never do. The specification of `LookupNode` is `NodeSpec`,
and its actions have the same prefix where `LookupValue` has one of that name.
`NodeSearchSpec` and `SearchSpec` map the two to `IterativeSearch`: heard of are the
candidates, asked is who is contacted or has a goroutine, open who still has one.

**`Announce`** - one name on several nodes. A record carries its remaining time
instead of a clock; a unit is a quarter of an hour. `Put` is one step here
(`RecordStore` splits it), the lookup inside `Announce` one step (`LookupNode`
has its details: it asks everybody it hears of, so it finds everybody reachable
unless queries fail), a STORE is in flight until `handleStore` runs, and the
sender learns nothing. `Crash` is a stop or a crash: store and table are gone.
A node may start again at once, while STOREs of its previous run are still in
flight: a store may take them after the new record, because `Put` does not compare
expiry times (`dht/store.go:117`). `Took` keeps account of it: `accepted` has the
nodes whose store took the owner's present record, and no earlier one since.

**`Drain`** - what a server that is stopped promises: each connection is served at
most once, and Stop returns when nothing is being served and nothing will be.

**`Server`** - `dht/dht.go`. The accept loop takes a connection (`Accept`), counts
its handler and starts it (`Spawn`), two steps between which Stop may run, and
Accept can fail (`AcceptError`) whether or not the listener is closed. A handler
reads, with a deadline (`ReadMessage`, `ReadError`), and answers, without one
(`Answer`). Stop is `CloseDone`, `CloseListener`, `Wait`, and `wg` is the counter
of the WaitGroup. `store.Stop`, between the last two, waits for nothing.
`DrainSpec` maps the server to `Drain`.

**`PeersFile`** - `peers.json` and the table it is a copy of. `SavePeers` is the
call, the list (`SaveList`, which saves nothing of an empty table), and
`os.WriteFile` in two steps, opening (and emptying) the file and writing it.
Its writers are the shutdown, up to `Handlers` calls of `POST /peer` at a time, and
another node that was started in the same directory. A peer that answers or
calls gets into the table by `Meet`; whoever a lookup's answer names by `Learn`,
heard of or not. `contacted` is history: has anybody answered or called in this
session? `LoadPeers` pings what the file lists, `PingBootstrap` is `BootstrapDHT`,
`PeerClear` the command.

**`Lifecycle`** - extends `PeersFile` by the process: `pc` walks through
`cmdStart`, with every `os.Exit`; `Kill` is possible anywhere, and stands also for
signals before `signal.Notify`, which is the last thing a start does. `Ends` is
what the end of a process does: memory and unfinished writes are gone, a
subprocess is not; nor does `cmdStart` wait for a handler before it ends. Whether
the config of an installed service can be read (`configured`, which decides on the
key) and whether the service manager knows it (`installed`, which decides on the
subprocess) are separate. `Lookup` is what the lookups of announcements add to the
table. The identity file is written in two steps like the peers file; `Other...` is
a second node in the directory, which shares both files.

**`Mesh`** - the composition: tables of several nodes that their own pings and the
lookups of announcements fill, one record announced over them, lookups for it,
lost answers, stops and restarts. Per node it is coarser than the modules above:
a table is the set of its nodes, subject to the capacity of buckets (`Heard`),
a store has the record or not, and a lookup takes one candidate at a time out of
its `Batch`. A `LookupValue` that is answered with the record ends with it, or, as
the select may take `done`, drops it and goes on (`lost`); it ends without it when
the timer of a round fires, because a node does not run and its dial is silent
(`NotRunning`) or answers late (`NoAnswer`); the queries it leaves behind (`late`)
may still remove nodes. Copies expire (`Expire`), and the owner's own copy with the
record that it repeats (`valid`). `Connected` is the smallest set of nodes that is
closed under mutual entries. What those abstractions leave out is what the
modules of the parts show.

**`Contacts`** - the contact book: `Add` under the write lock, `Save`, which holds
the read lock until the file is written, so that two Saves may overlap.

**`Pairing`** - `Initiate` and `Join` over the stores of all devices. Each is split
where it waits: the Put in the own store (`Initiate`, `Respond`), every STORE
(`InitiateSends`, `JoinSends`), every poll. A unit of time is five minutes, the
deadline of the initiator; records live for two units. The hash table may fail a
device `MaxLost` times: a STORE that is not delivered, a lookup that finds
nothing. `Users` are the goroutines of a device that pair and then add and save.

`MC*` modules hold constant values for TLC. `*Proofs` modules hold theorems.
Operators named `X_Something` before an `X` are faulty variants of `X`, each a
plausible bug, kept to show that the properties notice them: with the variant in
the place of `X` the property PROJECT.json names fails.

## The runs

| run | module, cfg | states | what it asks |
|---|---|---|---|
| NodeTable | MCNodeTable, NodeTable.cfg | 198,000 | well-formed buckets, metric, one reason to leave, order of last contact |
| RecordStore | MCRecordStore, RecordStore.cfg | 1,560,000 | signed entries, prompt cleanup, leases |
| LookupNode | MCLookupNode, LookupNode.cfg | 8,200 | an iterative search, and exhaustive; returns |
| LookupValue | MCLookupValue, LookupValue.cfg | 4,700 | an iterative search, right to give up, returns, leaks nothing |
| Announce | Announce, Announce.cfg | 25,800 | kept from contenders until expiry, no longer; serves what it sends; freed after the owner stopped |
| Server | Server, Server.cfg | 6,600 | drains; Stop returns |
| Lifecycle | MCLifecycle, Lifecycle.cfg | 3,095,000 | the two files, the subprocess, the key |
| Pairing | MCPairing, Pairing.cfg | 2,750,000 | mutual, prompt partners found, contacts kept |
| Mesh | MCMesh, Mesh.cfg | 1,611,000 | who is connected is led to what is announced |
| AnnounceExpiry, LookupValueNotFoundIsRight, LookupValueStopsAtRecord | as named | until the violation | sentences of the repository that the code does not keep, below |

### Bounds, and why they are enough

* NodeTable: 3-bit identifiers, four nodes, two addresses, buckets of two, two calls
  in flight. Bucket 0 has more candidates than room, so full buckets, refreshes at
  the tail and gaps after a removal occur; two addresses show re-addressing; two
  calls show one node queried at both addresses, and a pong between a query and
  its failure. The theorems hold without these bounds.
* RecordStore: two keys and names (symmetric), three records of lifetime 1, a
  ticker of period 2 and time up to 5: a record can expire before its tick, be
  passed by Put just before, be taken back, and the name go to the other key.
  The theorems again need no bound.
* LookupNode: 4-bit identifiers, seven nodes, K = alpha = 3: rounds of one, two
  and three queries, answers cut at K, candidates beyond K. Topologies: all know
  all, each knows the next, two layers. Proved for any of them.
* LookupValue: 3-bit identifiers, five nodes, alpha = 2: up to three rounds;
  none, one or two holders; none, one or two silent nodes, dead or slow. Its
  safety properties are proved for any number.
* Announce: two nodes that contend for the name, lifetime 4 and interval 3 as in
  the code, any call may fail. The safety properties are proved for any number of
  nodes and any two times.
* Server: four connections, so that one can be queued, one just accepted, one
  reading and one answering when Stop is called. Proved for any number.
* Lifecycle: two peers, both of them bootstrap nodes (lists of none, one and two),
  two handlers of `POST /peer` at a time beside the shutdown; three keys, one of
  them the installed service's (two nodes can each create one); any number of
  starts, kills and saves. Proved for any number of peers, handlers and keys.
* Pairing: three devices, one of which may initiate and join; two codes, which two
  initiators may draw alike; one failure of the hash table; the times of the
  code. Proved for any number, any times and any number of failures.
* Mesh: four nodes with 2-bit identifiers, K = 3, alpha = 1, three pings and one
  failure: a crash, an expiry, or a call to a running node without answer in time.
  Two nodes share a bucket of the others, and the nodes are as many as
  `AnnouncedIsFound` is about (K + 1); three pings connect all four. Proved for any
  K and alpha, any mesh of up to K + 1 nodes, any identifiers, searchers, pings and
  failures.
* NodeTable, RecordStore, Pairing and Mesh bound calls, clock, records, failures
  and pings in the guards (`MaxCalls`, `MaxTime`, `MaxIssued`, `MaxLost`,
  `MaxPings`, `MaxFailures`); nothing else is capped.
* Symmetry: addresses in NodeTable, names and keys in RecordStore, keys, peers and
  handlers in Lifecycle, codes in Pairing;
  none of these runs checks liveness.

`CHECK_DEADLOCK FALSE` only where the system really stops: a lookup has returned,
the server is stopped, every pairing is over and its contacts saved, or the
bounds of RecordStore and Mesh are used up.

### Fairness

* LookupNode and LookupValue: weak fairness of the main goroutine and of every
  query goroutine (the Go scheduler), and of the end of a query, because dialing
  and reading have deadlines of ten seconds. Writing the request has none
  (`dht/rpc.go:93`): it is one small message, which is assumed to fit into the
  buffers of a connection that was just opened. In LookupValue *nothing* is assumed
  of the timer: it returns without it.
* Announce: weak fairness of an owner's announcement steps, of handling STOREs
  and of time. Nobody has to start, stop, connect or forget.
  `FreedAfterStop` is about behaviours in which nodes do not start and stop for
  ever: the model has no seconds, so endless restarts could keep a quarter of an
  hour from passing.
* Server: weak fairness of the rest of Stop once it was called, of the accept loop
  unless it is blocked in Accept on an open listener, and of the end of a read
  (its deadline). Nothing is assumed of `Answer`: writing has no deadline
  (`dht/rpc.go:93`). So `StopReturns` says that Stop returns unless some handler
  answers for ever.
* RecordStore, NodeTable, Lifecycle, Pairing and Mesh state safety only.

### What the counterexamples show

* AnnounceExpiry: the Reannouncer announces the record of the first minute for
  ever (`dht/announce.go:53`), with its `Expires`. The announcement at 45 minutes
  changes nothing; at 60 minutes the name is gone from every store, and from 90
  minutes on the node's own `Put` refuses the record. `dht/announce.go:8`,
  `dev-docs/meshnet-build.md:74` and `dev-docs/meshnet-context.md:36` say records
  do not expire while the node runs.
* LookupValueNotFoundIsRight: one silent node in a round ends the lookup with
  "not registered" (`dht/lookup.go:246`, `cli/cli.go:274`) although a known,
  prompt node that has the record was never asked.
* LookupValueStopsAtRecord: a node returns the record as the last of its round, found
  and done are both ready when the select looks (`dht/lookup.go:242`), it takes done,
  and the record is dropped. `meshnet-build.md:66` says the lookup stops the moment
  any node returns the record.

### Seen while modelling, without a run

* dht: `LookupNode` does not converge early (`meshnet-build.md:64`), it asks every
  candidate; `Announce` counts STOREs written and not accepted
  (`meshnet-build.md:68`); a record stored locally for want of peers does not
  propagate when the first peer connects (`dht/lookup.go:270`) but at the next
  tick; of two owners who start at the same time each can hold the name on some
  nodes; `LookupNode` puts contacts nobody has heard from into the table
  (`dht/lookup.go:150`), from where they get into `peers.json` and into answers; a
  late STORE of an older record of the same owner overwrites a newer one
  (`dht/store.go:117`); the next ping overwrites the dialed address
  (`dht/dht.go:100`) that `meshnet-build.md:89` wants kept; ownership lasts as long
  as the record, `README.md:184` calls it permanent; one slow answer expels a
  running node in `LookupValue` (`dht/lookup.go:202`), which
  `meshnet-build.md:174` gave up for `LookupNode`.
* mesh: `AnnouncedIsFound` is about at most K + 1 = 21 nodes, and excepts the record
  that a select dropped. In a larger mesh that pings alone have built, a bucket
  may be full of nodes that do not know the ones that hold the record, and nothing
  refreshes buckets. The removals of `LookupValue` can cut the only link between two parts.
* process: a start without `-tun` always connects the embedded node
  (`cli/cli.go:132`), with the Yggdrasil service installed under the service's key,
  and after a `-tun` node that was killed or could not listen under the key of the
  subprocess that still runs, where `README.md:193`, `cli/cli.go:103-106` and
  `core/node.go:72` say that two instances of one key must not be on the mesh; a
  handler of `POST /peer` that has emptied `peers.json` when main returns
  (`dht/api.go:69`, `cli/cli.go:227-231`), or overlaps with the save of the shutdown,
  leaves a file the next start cannot decode, where `README.md:206` says that peers
  are restored; `meshnet peer clear` is undone by the next `SavePeers` of a running
  node; a signal before `signal.Notify` (`cli/cli.go:219`) ends the process
  without saving peers or stopping the subprocess; an identity file that a crash
  has cut stops every later start until it is removed; two nodes in one directory
  overwrite each other's files.
* pairing: `pairing.go:107` gives up after five minutes, the record under the code
  lives ten, so a later `Join` reports success to one side only;
  `pairingKey` has no caller.

## What is proved

tlapm checks these for every value of the constants, under the assumptions the
modules name (`NumBitsAssumption`, `TableAssumption`, `CallsAssumption`,
`LookupAssumption`, `ValueAssumption`, `MeshAssumption`,
`StoreAssumption`, `AnnounceAssumption`, `ConnsAssumption`, `PeersFileAssumption`,
`KeysAssumption`, `ContactsAssumption`, `PairingAssumption`: sizes are positive
naturals, sets that are counted are finite, `Self` is an identifier and not a
peer, and `None`, `Absent` and their like differ from what they stand in for),
which TLC evaluates on every run.

* `RoutingTableProofs`, the metric and the sort. For every target `Less` is a
  strict total order (`LessIrreflexive`, `LessTransitive`, `LessTotal`);
  `bucketIndex` is the length of the common prefix (`BucketIndexFirstDifference`);
  a node of the target's own bucket is closer than any of another bucket
  (`SameBucketCloser`), and seen from the node itself higher buckets are closer
  than lower ones (`HigherBucketCloser`). All rest on `FirstDifference`: two
  identifiers have a first bit in which they differ, by the well-foundedness of
  the naturals; and on `LessMeans`, which says `Less` in terms of the identifiers.
  `SortFacts`: with one entry per node, the number of nearer entries is a
  bijection between a finite set of contacts and its places, so `SortByDistance`
  lists each once, in ascending order. `ClosestFacts` follows: `Closest` returns as
  many as it may, nearest first, and nobody left out is nearer.
* `RoutingTableProofs`, the table of a node. `TableInvariant`, its parts
  `EntriesInTheirBucket`, `BucketsWithinCapacity` and `EntriesAreUnique`, the action
  property `NeverDroppedByAdd`, and `BucketsKeepOrder`: buckets are in the order of
  last contact (`HearingKeepsOrder`, `RemovingKeepsOrder`). `TableTypeOK /\
  TableInv` is inductive as it stands: each of its three parts is needed for the
  others, since `Add` finds an entry only in its own bucket and `Remove` takes one
  entry out. The lemmas go from sequences (`RemoveAtFacts`) over one bucket
  (`RemovedBucket`, `AppendedBucket`, `RefreshedBucket`) and the table
  (`TableAddFacts`, `TableRemoveFacts`) to a step (`EveryStepEffect`: one Add, one
  Remove that ends a query, or nothing). `NearBucketsComeFirst` brings metric,
  sort and invariant together, and `TablesFitLookups` justifies what the lookups
  assume of the table they start from.
* `LookupProofs`. `LookupValue`: `ValueLookupTypes`, `GivesUpOnlyWhenAllAsked` and
  the refinement `ValueLookupIsSearch`; `LookupNode`: `NodeLookupTypes`,
  `LookupIsExhaustive` and the refinement `NodeLookupIsSearch`; for any topology,
  seeds, holders and failures. What the refinements say of queries is also stated
  directly: `NeverMoreThanAlphaOpen`, `ValueQueriesClosestFirst`,
  `NodeQueriesClosestFirst`. Both inductive invariants say that the
  candidates are in ascending order (`CandidatesInOrder`), that whoever was or is
  about to be asked is a candidate (`Tracked`), that nothing is open between
  rounds (`ValueRounds`, `NodeRounds`), and that the nodes named in an answer are
  candidates or still in the channel (`ValueLearned`, `NodeLearned`).
  `ValueEnding` adds that a lookup that gives up has nobody left to ask. `AddFacts` and
  `BatchFacts` say what `addCandidates` and `nextBatch` do, and carry both proofs; that is why they share a module.
* `MeshProofs`: `MeshTypes`, and `AnnouncedRecordIsFound`, that a search comes back
  without the record only if it dropped it, for meshes of at most K + 1
  nodes (`Small`), which is what the property is about. There no bucket is ever
  full and no answer is cut off (`Closest` drops nobody). `SmallInv` adds three
  facts to the types (`BaseInv`): whom an announcement has served still holds the
  record; an announcement that nothing has disturbed is led on to all who were connected
  with the owner when it began, and sends it to them (`Reaching`); and a lookup
  that should succeed, and has not dropped the record, is led on to a node that
  holds it and was not asked (`Led`). To be led on (`OnTheWay`) is said of cuts: out of every set of
  nodes with the searcher in it and the holder outside there is a pair of mutual
  entries whose inner node, if it was asked, has told of the outer one. For the
  searcher and whom it has asked, the outer one is somebody heard of and not yet
  asked; so the lookup does not end before it has the record.
* `RecordStoreProofs`: `StoreTypes`, `OnlySignedRecords`, `CleanupIsPrompt`,
  `NoDirectHandover`, `StoreImplementsLease`. The inductive invariant `IInv` adds
  two facts to `TypeOK` and `StoredAsSigned`: the records that Put has checked
  but not stored are issued ones (`CheckedAreIssued`), and an entry that is there
  after a tick had not expired at the tick or was written since
  (`SurvivedCleanup`). `EveryEntryStep` lists what a step can do to one entry;
  the handover theorem and the refinement follow from it.
* `AnnounceProofs`: `AnnounceTypes`, `AcceptedIsKept`, `ServesWhatItSends`,
  `CopiesExpire`: any lifetime and interval, any number of owners. The three
  properties are not inductive alone: a STORE could carry anything. `IInv` adds
  that a STORE under way, of whichever run, has no more time left than its owner's
  present record (`SentAreNotNewer`), that it goes to other nodes only
  (`SentToOthers`), and `OwnRecords`. `PutKeeps` is the heart: what a Put that is
  accepted does to the records of everybody else, and to what `accepted` says.
* `ServerProofs`: `ServerTypes`, `StopWaits`, `ServerDrains`. The counter alone says
  nothing; `IInv` adds that it is the accept loop plus the running handlers
  (`Counted`), that at most one connection is between Accept and Spawn
  (`OneAccepted`), and how the listener, `done` and Stop go together (`Phases`). A
  counter of zero then means that nobody is left, and the refinement of `Drain`
  follows step by step.
* `LifecycleProofs`: `LifecycleTypes`, `IsolatedWritesNothing`, `FileReadable`,
  `NoOrphans`, `KeyStaysOnDisk`. `IInv` has three groups. `FileInv`: a list that is
  about to be written is not empty (`ListsAreNotEmpty`), the table stays empty until
  somebody answers or calls (`TableContacted`), an undisturbed save has the
  file to itself (`OneOpen`) and finds it empty (`OpenIsEmpty`). `ProcInv`: where a
  subprocess can be (`ChildInv`), who has a key (`Identified`), when the main
  goroutine saves (`MainSaves`). `IdInv`: who creates has found no file
  (`CreatorsKnown`), and what the file is in between (`FileFollows`).
* `PairingProofs`: `PairingTypes`, `PairingIsMutual`, `PromptPartnerFound`,
  `SavedStays`. For the contact book `BookInv`: the list of a Save under way is the
  whole book (`ListIsBook`), which holds only because Add waits for it. For the
  exchange `ExchangeInv`: every record about was announced by somebody who
  initiated, or joined, with its code (`Answers`), whoever joins knows an
  initiator with that code (`JoinersKnow`), and while nothing is lost a response
  is in every store it was sent to (`ResponseReached`) and stays in that of an
  initiator with time left until it is found (`EarlyIsThere`). `AnnounceFacts` and
  `SendFacts` say what the hash table does to the stores, and there is one lemma
  for each kind of step.

Every invariant and every safety action property of the passing runs, and all
four refinements, are proved. Only model-checked is what is out of TLAPS's reach:
liveness under fairness (`Returns`, `NodeReturns`, `GoroutinesEnd`,
`FreedAfterStop`, `StopReturns`). What a recursive definition computes for every
input cannot be proved either, and nothing here needs it: sorted lists are made
from sets by rank, `Connected` from closed sets, and no module declares a
RECURSIVE operator.

## Not modelled

* message framing and JSON (`dht/rpc.go`): a message arrives whole or the call
  fails;
* what nothing calls: `Store.Delete`, `Store.All`, `Reannouncer.UpdateRecord`,
  `AddPeer`, `Bootstrap`, `GetAddress`, `pairingKey`;
* `core/cert.go`, a pure function, and the inside of the Yggdrasil node, a
  library: the mesh is "a call succeeds or fails";
* cryptography: a signature is good or bad, and a code is one of a set;
* the client commands (`lookup`, `status`, `peer add`, `peer list`), which send one
  request or read one file, and print; HTTP; formatting; the installed service's
  config when it has no usable key, which ends the start;
* wall-clock limits against each other, such as the client's 15 seconds
  (`cli/cli.go:265`) against the ten of every round.

## Plan

Done: the table, the store over leases, both lookups over the iterative search,
announcing, the server over `Drain`, the files and the process, pairing with the
contact book, their composition in `Mesh`, and proofs of all their safety
properties. What is left, in this order:

1. The lookups of `Mesh` as iterative searches, which shows that asking one
   candidate at a time abstracts the rounds of `LookupNode` and `LookupValue`.
2. `Mesh` with several owners, joining it with `Announce`.
