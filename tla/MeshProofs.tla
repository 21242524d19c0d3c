----------------------------- MODULE MeshProofs -----------------------------
(***************************************************************************)
(* Over a mesh of any K + 1 nodes or fewer, whatever their identifiers and *)
(* in whatever order pings, lookups, announcements, stops and failures     *)
(* come, a search that can be led to an announced record gets it, and can  *)
(* only miss it by dropping it.                                            *)
(***************************************************************************)
EXTENDS Mesh, FiniteSetTheorems, TLAPS

JobSteps == {"idle", "announce", "store", "search", "notfound"}

Jobs == [step : JobSteps, closest : SUBSET Nodes, asked : SUBSET Nodes,
         start : SUBSET Nodes, due : BOOLEAN, lost : BOOLEAN]

\* A lookup of n hears of other nodes, and asks whom it has heard of.
GoodJob(n, j) ==
    /\ j \in Jobs
    /\ n \notin j.closest /\ j.asked \subseteq j.closest
    /\ j.step = "store" => j.asked = {}

\* A node that does not run has no job; whom an undisturbed announcement is to
\* reach has run ever since; and the owner serves what it announces, unless it
\* has expired meanwhile.
JobInv ==
    /\ job \in [Nodes -> Jobs]
    /\ \A n \in Nodes : GoodJob(n, job[n]) /\ job[n].start \subseteq up
    /\ \A n \in Nodes \ up : job[n] = Idle
    /\ job[Owner].due => Owner \in holds /\ valid

\* Nor has it a table.
TableInv ==
    /\ known \in [Nodes -> SUBSET Nodes]
    /\ \A n \in Nodes : n \notin known[n]
    /\ \A n \in Nodes \ up : known[n] = {}

NodeInv ==
    /\ up \subseteq Nodes /\ holds \subseteq up /\ served \subseteq up
    /\ late \in [Nodes -> SUBSET Nodes] /\ valid \in BOOLEAN
    /\ pings \in 0..MaxPings /\ failures \in 0..MaxFailures

BaseInv == NodeInv /\ TableInv /\ JobInv

LEMMA BaseTypes == BaseInv => TypeOK
BY DEF BaseInv, NodeInv, TableInv, JobInv, Jobs, JobSteps, TypeOK

LEMMA Constants ==
    /\ Owner \in Nodes /\ Searchers \in SUBSET (Nodes \ {Owner})
    /\ MaxFailures \in Nat /\ MaxPings \in Nat
    /\ IsFiniteSet(Nodes) /\ K \in Nat \ {0}
    /\ \A n \in Nodes : GoodJob(n, Idle)
BY MeshAssumption DEF Idle, Jobs, JobSteps, GoodJob

-----------------------------------------------------------------------------
\* The functions on sets of nodes.
LEMMA RankType == Rank \in [Nodes -> Nat]
<1>1. ASSUME NEW n \in Nodes
      PROVE  Cardinality({m \in Nodes : Less(ID[m], ID[n], Target)}) \in Nat
  <2>1. {m \in Nodes : Less(ID[m], ID[n], Target)} \in SUBSET Nodes
    OBVIOUS
  <2> QED
    BY <2>1, MeshAssumption, FS_Subset, FS_CardinalityType
<1> QED
  BY <1>1 DEF Rank

LEMMA ClosestAreThere ==
    ASSUME NEW S \in SUBSET Nodes
    PROVE  Closest(S) \in SUBSET S
BY DEF Closest, Nearest

LEMMA BatchFacts ==
    ASSUME NEW n, NEW m \in Batch(n)
    PROVE  m \in job[n].closest \ job[n].asked
BY DEF Batch, Nearest

LEMMA BatchOfNodes ==
    ASSUME JobInv, NEW n \in Nodes
    PROVE  Batch(n) \in SUBSET Nodes
BY DEF JobInv, Jobs, Batch, Nearest

LEMMA HeardFacts ==
    ASSUME TableInv, NEW n \in Nodes, NEW S \in SUBSET Nodes
    PROVE  /\ Heard(n, S) \in SUBSET Nodes
           /\ known[n] \subseteq Heard(n, S)
           /\ n \notin Heard(n, S)
BY DEF Heard, TableInv

LEMMA ConnectedRun ==
    ASSUME NodeInv, TableInv, NEW n \in up
    PROVE  Connected(n) \subseteq up
<1>1. \A l \in up, k \in Nodes : Linked(l, k) => k \in up
  BY DEF NodeInv, TableInv, Linked
<1>2. up \in SUBSET Nodes
  BY DEF NodeInv
<1> QED
  BY <1>1, <1>2 DEF Connected

-----------------------------------------------------------------------------
\* What a step does to the job of one node that runs.
LEMMA OneJob ==
    ASSUME BaseInv, NEW n \in up, NEW j, GoodJob(n, j), j.start \subseteq up,
           job' = [job EXCEPT ![n] = j], up' = up, holds \subseteq holds',
           valid' = valid, n = Owner /\ j.due => Owner \in holds' /\ valid
    PROVE  JobInv'
BY DEF BaseInv, JobInv, NodeInv, GoodJob

LEMMA BusyRuns ==
    ASSUME BaseInv, NEW n \in Nodes, job[n].step # "idle"
    PROVE  n \in up
BY DEF BaseInv, JobInv, Idle

\* How a job goes on: another node has been asked, and what it answered added;
\* a lookup is over; a STORE is over.
Asked(j, m) == [j EXCEPT !.asked = @ \cup {m}]

Told(j, S, m) == [j EXCEPT !.closest = @ \cup S, !.asked = @ \cup {m}]

Dropped(j, m) == [j EXCEPT !.asked = @ \cup {m}, !.lost = TRUE]

ToStore(j) == [j EXCEPT !.step = "store", !.closest = Closest(@), !.asked = {}]

Sent(j, m) == [j EXCEPT !.closest = @ \ {m}]

LEMMA AskedFacts ==
    ASSUME NEW n, NEW j, GoodJob(n, j), NEW m \in j.closest, j.step # "store"
    PROVE  /\ GoodJob(n, Asked(j, m))
           /\ Asked(j, m).step = j.step /\ Asked(j, m).start = j.start
           /\ Asked(j, m).due = j.due /\ Asked(j, m).closest = j.closest
           /\ Asked(j, m).asked = j.asked \cup {m} /\ Asked(j, m).lost = j.lost
BY DEF GoodJob, Jobs, Asked

LEMMA ToldFacts ==
    ASSUME NEW n, NEW j, GoodJob(n, j), NEW m \in j.closest, NEW S \in SUBSET Nodes,
           n \notin S, j.step # "store"
    PROVE  /\ GoodJob(n, Told(j, S, m))
           /\ Told(j, S, m).step = j.step /\ Told(j, S, m).start = j.start
           /\ Told(j, S, m).due = j.due /\ Told(j, S, m).closest = j.closest \cup S
           /\ Told(j, S, m).asked = j.asked \cup {m} /\ Told(j, S, m).lost = j.lost
BY DEF GoodJob, Jobs, Told

LEMMA DroppedFacts ==
    ASSUME NEW n, NEW j, GoodJob(n, j), NEW m \in j.closest, j.step # "store"
    PROVE  /\ GoodJob(n, Dropped(j, m))
           /\ Dropped(j, m).step = j.step /\ Dropped(j, m).start = j.start
           /\ Dropped(j, m).due = j.due /\ Dropped(j, m).lost = TRUE
BY DEF GoodJob, Jobs, Dropped

LEMMA ToStoreFacts ==
    ASSUME NEW n, NEW j, GoodJob(n, j)
    PROVE  /\ GoodJob(n, ToStore(j)) /\ ToStore(j).step = "store"
           /\ ToStore(j).start = j.start /\ ToStore(j).due = j.due
           /\ ToStore(j).closest = Closest(j.closest)
<1>1. Closest(j.closest) \in SUBSET j.closest
  BY ClosestAreThere DEF GoodJob, Jobs
<1> QED
  BY <1>1 DEF GoodJob, Jobs, JobSteps, ToStore

LEMMA SentFacts ==
    ASSUME NEW n, NEW j, GoodJob(n, j), NEW m, j.step = "store"
    PROVE  /\ GoodJob(n, Sent(j, m)) /\ Sent(j, m).step = j.step
           /\ Sent(j, m).start = j.start /\ Sent(j, m).due = j.due
           /\ Sent(j, m).closest = j.closest \ {m}
BY DEF GoodJob, Jobs, Sent

LEMMA NilFacts ==
    ASSUME NEW n \in Nodes, job[n] \in Jobs
    PROVE  /\ GoodJob(n, ReturnsNil(n)) /\ ReturnsNil(n).step = "notfound"
           /\ ReturnsNil(n).start = {} /\ ReturnsNil(n).due = job[n].due
           /\ ReturnsNil(n).lost = job[n].lost
BY DEF ReturnsNil, Idle, GoodJob, Jobs, JobSteps

LEMMA TimerFacts ==
    ASSUME NEW n \in Nodes
    PROVE  /\ GoodJob(n, TimerFires(n)) /\ TimerFires(n).step = "notfound"
           /\ TimerFires(n).start = {} /\ TimerFires(n).due = FALSE
BY DEF TimerFires, Idle, GoodJob, Jobs, JobSteps

LEMMA SameJob ==
    ASSUME NEW j \in Jobs, NEW k \in Jobs, j.step = k.step, j.closest = k.closest,
           j.asked = k.asked, j.start = k.start, j.due = k.due, j.lost = k.lost
    PROVE  j = k
BY DEF Jobs

LEMMA DisturbedFacts ==
    ASSUME NEW jobs \in [Nodes -> Jobs]
    PROVE  /\ Disturbed(jobs) \in [Nodes -> Jobs]
           /\ \A n \in Nodes :
                /\ Disturbed(jobs)[n].due = FALSE
                /\ Disturbed(jobs)[n].start = {}
                /\ Disturbed(jobs)[n].step = jobs[n].step
                /\ GoodJob(n, jobs[n]) => GoodJob(n, Disturbed(jobs)[n])
                /\ jobs[n] = Idle => Disturbed(jobs)[n] = Idle
<1>1. ASSUME NEW j \in Jobs
      PROVE  LET k == [j EXCEPT !.due = FALSE, !.start = {}]
             IN  /\ k \in Jobs /\ k.due = FALSE /\ k.start = {}
                 /\ k.step = j.step /\ k.closest = j.closest /\ k.asked = j.asked
                 /\ k.lost = j.lost
  BY DEF Jobs
<1>2. [Idle EXCEPT !.due = FALSE, !.start = {}] = Idle
  <2>1. Idle \in Jobs /\ Idle.due = FALSE /\ Idle.start = {}
    BY DEF Idle, Jobs, JobSteps
  <2> DEFINE k == [Idle EXCEPT !.due = FALSE, !.start = {}]
  <2> HIDE DEF Idle
  <2>2. /\ k \in Jobs /\ k.due = FALSE /\ k.start = {}
        /\ k.step = Idle.step /\ k.closest = Idle.closest /\ k.asked = Idle.asked
        /\ k.lost = Idle.lost
    BY <1>1, <2>1
  <2> HIDE DEF k
  <2>3. k = Idle
    BY <2>1, <2>2, SameJob
  <2> QED
    BY <2>3 DEF k
<1>3. ASSUME NEW n \in Nodes
      PROVE  Disturbed(jobs)[n] = [jobs[n] EXCEPT !.due = FALSE, !.start = {}]
  BY DEF Disturbed
<1>4. Disturbed(jobs) \in [Nodes -> Jobs]
  BY <1>1 DEF Disturbed
<1>5. ASSUME NEW n \in Nodes
      PROVE  /\ Disturbed(jobs)[n].due = FALSE
             /\ Disturbed(jobs)[n].start = {}
             /\ Disturbed(jobs)[n].step = jobs[n].step
             /\ GoodJob(n, jobs[n]) => GoodJob(n, Disturbed(jobs)[n])
             /\ jobs[n] = Idle => Disturbed(jobs)[n] = Idle
  <2> DEFINE k == [jobs[n] EXCEPT !.due = FALSE, !.start = {}]
  <2>1. /\ k \in Jobs /\ k.due = FALSE /\ k.start = {}
        /\ k.step = jobs[n].step /\ k.closest = jobs[n].closest
        /\ k.asked = jobs[n].asked
    BY <1>1
  <2>2. jobs[n] = Idle => k = Idle
    BY <1>2
  <2>3. Disturbed(jobs)[n] = k
    BY <1>3
  <2> HIDE DEF k
  <2> QED
    BY <2>1, <2>2, <2>3 DEF GoodJob
<1> QED
  BY <1>4, <1>5

\* A step that disturbs what is in progress, and goes on with one job.
LEMMA StaysGood ==
    ASSUME BaseInv, NEW n \in up, NEW j, GoodJob(n, j), up' = up,
           job' = Disturbed([job EXCEPT ![n] = j])
    PROVE  JobInv'
<1> DEFINE jobs == [job EXCEPT ![n] = j]
<1>1. /\ jobs \in [Nodes -> Jobs] /\ \A m \in Nodes : GoodJob(m, jobs[m])
      /\ \A m \in Nodes \ up : jobs[m] = Idle
  BY DEF BaseInv, JobInv, NodeInv, GoodJob
<1> HIDE DEF jobs
<1> QED
  BY <1>1, DisturbedFacts, Constants DEF JobInv, jobs

\* And one that disturbs and goes on with none.
LEMMA AllDisturbed ==
    ASSUME BaseInv, up' = up, job' = Disturbed(job)
    PROVE  JobInv'
BY DisturbedFacts, Constants DEF BaseInv, JobInv

LEMMA InitBase == Init => BaseInv
BY Constants DEF Init, BaseInv, NodeInv, TableInv, JobInv, Idle, GoodJob

LEMMA NextBase == BaseInv /\ [Next]_vars => BaseInv'
<1> SUFFICES ASSUME BaseInv, [Next]_vars PROVE BaseInv'
  OBVIOUS
<1> USE Constants DEF BaseInv
<1>1. ASSUME NEW n \in Nodes, NEW m \in Nodes, Ping(n, m) PROVE BaseInv'
  <2>1. /\ Heard(n, {m}) \in SUBSET Nodes /\ n \notin Heard(n, {m})
        /\ Heard(m, {n}) \in SUBSET Nodes /\ m \notin Heard(m, {n})
    BY HeardFacts
  <2>2. TableInv'
    BY <1>1, <2>1 DEF Ping, TableInv
  <2>3. NodeInv' /\ JobInv'
    BY <1>1 DEF Ping, NodeInv, JobInv
  <2> QED
    BY <2>2, <2>3
<1>2. CASE Announce
  <2> DEFINE j == [Idle EXCEPT !.step = "announce", !.closest = Closest(known[Owner]),
                               !.start = Connected(Owner), !.due = TRUE]
  <2>1. /\ Owner \in up /\ job' = [job EXCEPT ![Owner] = j]
        /\ holds' = holds \cup {Owner}
        /\ valid
        /\ UNCHANGED <<up, known, valid, late, pings, failures, served>>
    BY <1>2 DEF Announce
  <2>2. GoodJob(Owner, j) /\ j.start \subseteq up
    <3>1. Closest(known[Owner]) \in SUBSET Nodes /\ Owner \notin Closest(known[Owner])
      BY ClosestAreThere DEF TableInv
    <3>2. Connected(Owner) \in SUBSET up /\ up \in SUBSET Nodes
      BY <2>1, ConnectedRun DEF NodeInv
    <3> QED
      BY <3>1, <3>2 DEF GoodJob, Jobs, JobSteps, Idle
  <2> HIDE DEF j
  <2>3. JobInv'
    BY <2>1, <2>2, OneJob
  <2> QED
    BY <2>1, <2>3 DEF NodeInv, TableInv
<1>3. ASSUME NEW n \in Searchers, Search(n) PROVE BaseInv'
  <2> DEFINE j == [Idle EXCEPT !.step = "search", !.closest = Closest(known[n]),
                               !.due = Connected(n) \cap served # {}]
  <2>1. /\ n \in up /\ job' = [job EXCEPT ![n] = j]
        /\ UNCHANGED <<up, known, holds, valid, late, pings, failures, served>>
    BY <1>3 DEF Search
  <2>2. GoodJob(n, j) /\ n # Owner /\ j.start = {}
    <3>1. Closest(known[n]) \in SUBSET Nodes /\ n \notin Closest(known[n])
      BY ClosestAreThere DEF TableInv
    <3> QED
      BY <3>1 DEF GoodJob, Jobs, JobSteps, Idle
  <2> HIDE DEF j
  <2>3. JobInv'
    BY <2>1, <2>2, OneJob
  <2> QED
    BY <2>1, <2>3 DEF NodeInv, TableInv
<1>4. ASSUME NEW m \in Nodes, FindNode(m) PROVE BaseInv'
  <2> DEFINE nodes == Closest(known[m])
             j == Told(job[Owner], nodes \ {Owner}, m)
  <2>1. /\ job[Owner].step = "announce" /\ m \in Batch(Owner)
        /\ job' = [job EXCEPT ![Owner] = j]
        /\ known' = [known EXCEPT ![Owner] = Heard(Owner, nodes)]
        /\ UNCHANGED <<up, holds, valid, late, pings, failures, served>>
    BY <1>4 DEF FindNode, JobInv, Told
  <2>2. nodes \in SUBSET Nodes /\ Owner \in up
    BY <2>1, BusyRuns, ClosestAreThere DEF TableInv, JobInv
  <2>3. GoodJob(Owner, job[Owner]) /\ m \in job[Owner].closest
    BY <2>1, BatchFacts DEF JobInv
  <2> HIDE DEF nodes
  <2>4. GoodJob(Owner, j) /\ j.start \subseteq up /\ j.due = job[Owner].due
    BY <2>1, <2>2, <2>3, ToldFacts DEF JobInv
  <2> HIDE DEF j
  <2>5. JobInv'
    BY <2>1, <2>2, <2>4, OneJob DEF JobInv
  <2>6. TableInv'
    BY <2>1, <2>2, HeardFacts DEF TableInv
  <2> QED
    BY <2>1, <2>5, <2>6 DEF NodeInv
<1>5. ASSUME NEW n \in Searchers, NEW m \in Nodes, FindValue(n, m) PROVE BaseInv'
  <2> DEFINE nodes == Closest(known[m])
  <2>1. /\ job[n].step = "search" /\ m \in Batch(n) /\ late' \in [Nodes -> SUBSET Nodes]
        /\ UNCHANGED <<up, known, holds, valid, pings, failures, served>>
    <3>1. Batch(n) \in SUBSET Nodes
      BY BatchOfNodes
    <3> QED
      BY <1>5, <3>1 DEF FindValue, NodeInv
  <2>2. PICK j : /\ j \in {Idle, Dropped(job[n], m), Told(job[n], nodes \ {n}, m)}
                 /\ job' = [job EXCEPT ![n] = j]
    BY <1>5 DEF FindValue, JobInv, Told, Dropped
  <2>3. nodes \in SUBSET Nodes /\ n \in up /\ n # Owner
    BY <2>1, BusyRuns, ClosestAreThere DEF TableInv
  <2>4. GoodJob(n, job[n]) /\ m \in job[n].closest /\ job[n].start \subseteq up
    BY <2>1, BatchFacts DEF JobInv
  <2> HIDE DEF nodes
  <2>5. GoodJob(n, j) /\ j.start \subseteq up
    <3>1. CASE j = Idle
      BY <3>1 DEF Idle, GoodJob, Jobs, JobSteps
    <3>2. CASE j = Dropped(job[n], m)
      BY <2>1, <2>4, <3>2, DroppedFacts
    <3>3. CASE j = Told(job[n], nodes \ {n}, m)
      BY <2>1, <2>3, <2>4, <3>3, ToldFacts
    <3> QED
      BY <2>2, <3>1, <3>2, <3>3
  <2>6. JobInv'
    BY <2>1, <2>2, <2>3, <2>5, OneJob
  <2> QED
    BY <2>1, <2>6 DEF NodeInv, TableInv
<1>6. ASSUME NEW n \in Nodes, NEW m \in Nodes, NotRunning(n, m) PROVE BaseInv'
  <2>1. /\ job[n].step \in {"announce", "search"} /\ m \in Batch(n)
        /\ UNCHANGED <<up, holds, valid, pings, failures, served>>
    BY <1>6 DEF NotRunning
  <2>2. PICK j : /\ j \in {Asked(job[n], m), TimerFires(n)}
                 /\ job' = [job EXCEPT ![n] = j]
    BY <1>6 DEF NotRunning, JobInv, Asked
  <2>3. n \in up /\ GoodJob(n, job[n]) /\ m \in job[n].closest /\ job[n].start \subseteq up
    BY <2>1, BusyRuns, BatchFacts DEF JobInv
  <2>4. GoodJob(n, j) /\ j.start \subseteq up /\ (j.due => job[n].due)
    <3>1. CASE j = Asked(job[n], m)
      BY <2>1, <2>3, <3>1, AskedFacts
    <3>2. CASE j = TimerFires(n)
      BY <3>2, TimerFacts
    <3> QED
      BY <2>2, <3>1, <3>2
  <2>5. JobInv'
    BY <2>1, <2>2, <2>3, <2>4, OneJob DEF JobInv
  <2>6. late' \in [Nodes -> SUBSET Nodes]
    BY <1>6, BatchOfNodes DEF NotRunning, NodeInv
  <2>7. TableInv'
    BY <1>6, <2>1 DEF NotRunning, Fails, TableInv
  <2> QED
    BY <2>1, <2>5, <2>6, <2>7 DEF NodeInv
<1>7. ASSUME NEW n \in Nodes, NEW m \in Nodes, NoAnswer(n, m) PROVE BaseInv'
  <2>1. /\ job[n].step \in {"announce", "search"} /\ m \in Batch(n)
        /\ UNCHANGED <<up, holds, valid, pings, served>>
        /\ failures' = failures + 1 /\ failures < MaxFailures
    BY <1>7 DEF NoAnswer, Fail
  <2>2. PICK j : /\ j \in {Asked(job[n], m), TimerFires(n)}
                 /\ job' = Disturbed([job EXCEPT ![n] = j])
    BY <1>7 DEF NoAnswer, JobInv, Asked
  <2>3. n \in up /\ GoodJob(n, job[n]) /\ m \in job[n].closest
    BY <2>1, BusyRuns, BatchFacts DEF JobInv
  <2>4. GoodJob(n, j)
    <3>1. CASE j = Asked(job[n], m)
      BY <2>1, <2>3, <3>1, AskedFacts
    <3>2. CASE j = TimerFires(n)
      BY <3>2, TimerFacts
    <3> QED
      BY <2>2, <3>1, <3>2
  <2>5. JobInv'
    BY <2>1, <2>2, <2>3, <2>4, StaysGood
  <2>6. late' \in [Nodes -> SUBSET Nodes]
    BY <1>7, BatchOfNodes DEF NoAnswer, NodeInv
  <2>7. TableInv'
    BY <1>7, <2>1 DEF NoAnswer, Fails, TableInv
  <2> QED
    BY <2>1, <2>5, <2>6, <2>7 DEF NodeInv
<1>8. ASSUME NEW n \in Searchers, NotFound(n) PROVE BaseInv'
  <2>1. /\ job[n].step = "search" /\ n # Owner
        /\ job' = [job EXCEPT ![n] = ReturnsNil(n)]
        /\ UNCHANGED <<up, known, holds, valid, late, pings, failures, served>>
    BY <1>8 DEF NotFound
  <2>2. n \in up /\ GoodJob(n, ReturnsNil(n))
    BY <2>1, BusyRuns, NilFacts DEF JobInv
  <2>3. JobInv'
    BY <2>1, <2>2, OneJob, NilFacts DEF JobInv
  <2> QED
    BY <2>1, <2>3 DEF NodeInv, TableInv
<1>9. CASE Located
  <2> DEFINE j == ToStore(job[Owner])
  <2>1. /\ job[Owner].step = "announce" /\ job' = [job EXCEPT ![Owner] = j]
        /\ UNCHANGED <<up, known, holds, valid, late, pings, failures, served>>
    BY <1>9 DEF Located, JobInv, ToStore
  <2>2. Owner \in up /\ GoodJob(Owner, job[Owner])
    BY <2>1, BusyRuns DEF JobInv
  <2>3. GoodJob(Owner, j) /\ j.start \subseteq up /\ j.due = job[Owner].due
    BY <2>2, ToStoreFacts DEF JobInv
  <2> HIDE DEF j
  <2>4. JobInv'
    BY <2>1, <2>2, <2>3, OneJob DEF JobInv
  <2> QED
    BY <2>1, <2>4 DEF NodeInv, TableInv
<1>10. ASSUME NEW m \in Nodes, Store(m) PROVE BaseInv'
  <2> DEFINE j == Sent(job[Owner], m)
             jobs == [job EXCEPT ![Owner] = j]
  <2>1. /\ job[Owner].step = "store" /\ m \in job[Owner].closest
        /\ UNCHANGED <<up, known, valid, late, pings, served>>
        /\ \/ /\ holds' = IF m \in up /\ valid THEN holds \cup {m} ELSE holds
              /\ job' = jobs /\ failures' = failures
           \/ /\ holds' = holds /\ job' = Disturbed(jobs)
              /\ failures < MaxFailures /\ failures' = failures + 1
    BY <1>10 DEF Store, Fail, JobInv, Sent
  <2>2. Owner \in up /\ GoodJob(Owner, job[Owner])
    BY <2>1, BusyRuns DEF JobInv
  <2>3. GoodJob(Owner, j) /\ j.start \subseteq up /\ j.due = job[Owner].due
    BY <2>1, <2>2, SentFacts DEF JobInv
  <2> HIDE DEF j
  <2>4. JobInv'
    <3>1. CASE holds \subseteq holds' /\ job' = jobs
      BY <2>1, <2>2, <2>3, <3>1, OneJob DEF JobInv
    <3>2. CASE holds' = holds /\ job' = Disturbed(jobs)
      BY <2>1, <2>2, <2>3, <3>2, StaysGood
    <3> QED
      BY <2>1, <3>1, <3>2
  <2>5. NodeInv' /\ TableInv'
    BY <2>1 DEF NodeInv, TableInv
  <2> QED
    BY <2>4, <2>5
<1>11. CASE Announced
  <2>1. /\ job[Owner].step = "store" /\ job' = [job EXCEPT ![Owner] = Idle]
        /\ served' = IF job[Owner].due THEN served \cup job[Owner].start ELSE served
        /\ UNCHANGED <<up, known, holds, valid, late, pings, failures>>
    BY <1>11 DEF Announced
  <2>2. Owner \in up /\ Idle.due = FALSE /\ Idle.start = {}
    BY <2>1, BusyRuns DEF Idle
  <2>3. JobInv'
    BY <2>1, <2>2, OneJob
  <2>4. NodeInv' /\ TableInv'
    BY <2>1 DEF NodeInv, TableInv, JobInv
  <2> QED
    BY <2>3, <2>4
<1>12. ASSUME NEW n \in Nodes, Crash(n) PROVE BaseInv'
  <2>1. /\ up' = up \ {n} /\ known' = [known EXCEPT ![n] = {}]
        /\ holds' = holds \ {n} /\ served' = served \ {n}
        /\ job' = [Disturbed(job) EXCEPT ![n] = Idle]
        /\ failures < MaxFailures /\ failures' = failures + 1
        /\ late' = [late EXCEPT ![n] = {}] /\ UNCHANGED <<valid, pings>>
    BY <1>12 DEF Crash, Fail
  <2>2. NodeInv' /\ TableInv'
    BY <2>1 DEF NodeInv, TableInv
  <2>3. JobInv'
    <3>1. Idle.due = FALSE /\ Idle.start = {} /\ Idle \in Jobs
      BY DEF Idle, Jobs, JobSteps
    <3>2. /\ Disturbed(job) \in [Nodes -> Jobs]
          /\ \A m \in Nodes :
                /\ GoodJob(m, Disturbed(job)[m]) /\ Disturbed(job)[m].start = {}
                /\ m \notin up => Disturbed(job)[m] = Idle
                /\ Disturbed(job)[m].due = FALSE
      BY DisturbedFacts DEF JobInv
    <3>3. \A m \in Nodes : job'[m] = IF m = n THEN Idle ELSE Disturbed(job)[m]
      BY <2>1, <3>2
    <3> HIDE DEF Idle, Disturbed
    <3> QED
      BY <2>1, <3>1, <3>2, <3>3 DEF JobInv
  <2> QED
    BY <2>2, <2>3
<1>13. ASSUME NEW n \in Nodes, Restart(n) PROVE BaseInv'
  <2>1. /\ up' = up \cup {n} /\ valid' \in BOOLEAN /\ (valid => valid')
        /\ UNCHANGED <<known, holds, job, late, pings, failures, served>>
    BY <1>13 DEF Restart, NodeInv
  <2> QED
    BY <2>1 DEF NodeInv, TableInv, JobInv
<1>14. ASSUME NEW n \in Nodes, NEW m \in Nodes, LateFailure(n, m) PROVE BaseInv'
  <2>1. /\ UNCHANGED <<up, holds, valid, pings, served>>
        /\ late' = [late EXCEPT ![n] = @ \ {m}]
        /\ known' = [known EXCEPT ![n] = @ \ {m}]
        /\ \/ UNCHANGED <<job, failures>>
           \/ /\ failures < MaxFailures /\ failures' = failures + 1
              /\ job' = Disturbed(job)
    BY <1>14 DEF LateFailure, Fail
  <2>2. NodeInv' /\ TableInv'
    BY <2>1 DEF NodeInv, TableInv
  <2>3. JobInv'
    <3>1. CASE UNCHANGED job
      BY <2>1, <3>1 DEF JobInv
    <3>2. CASE job' = Disturbed(job)
      BY <2>1, <3>2, AllDisturbed
    <3> QED
      BY <2>1, <3>1, <3>2
  <2> QED
    BY <2>2, <2>3
<1>15. ASSUME NEW n \in Nodes, Expire(n) PROVE BaseInv'
  <2>1. /\ UNCHANGED <<up, known, late, pings>> /\ job' = Disturbed(job)
        /\ holds' = holds \ {n} /\ served' = served \ {n} /\ valid' \in BOOLEAN
        /\ failures < MaxFailures /\ failures' = failures + 1
    BY <1>15 DEF Expire, Fail
  <2>2. NodeInv' /\ TableInv'
    BY <2>1 DEF NodeInv, TableInv
  <2>3. JobInv'
    BY <2>1, AllDisturbed
  <2> QED
    BY <2>2, <2>3
<1>16. CASE UNCHANGED vars
  BY <1>16 DEF vars, NodeInv, TableInv, JobInv
<1> QED
  BY <1>1, <1>2, <1>3, <1>4, <1>5, <1>6, <1>7, <1>8, <1>9, <1>10, <1>11, <1>12,
     <1>13, <1>14, <1>15, <1>16 DEF Next, Pings, Announcing, Searching, Failing

LEMMA BaseInvariant == Spec => []BaseInv
BY InitBase, NextBase, PTL DEF Spec

\* The state of the mesh has its shape: in particular, whoever holds the record
\* or was served runs, and no node has itself in its table.
THEOREM MeshTypes == Spec => []TypeOK
BY BaseInvariant, BaseTypes, PTL

-----------------------------------------------------------------------------
\* With at most K other nodes, whom a node knows fits into one answer.
Small == Cardinality(Nodes) <= K + 1

LEMMA ClosestIsAll ==
    ASSUME Small, NEW n \in Nodes, NEW S \in SUBSET (Nodes \ {n})
    PROVE  Closest(S) = S
<1>1. IsFiniteSet(Nodes) /\ K \in Nat
  BY Constants
<1>2. /\ IsFiniteSet(S) /\ Cardinality(S) \in Nat
      /\ IsFiniteSet(Nodes \ {n}) /\ Cardinality(Nodes \ {n}) = Cardinality(Nodes) - 1
      /\ Cardinality(Nodes) \in Nat
  BY <1>1, FS_RemoveElement, FS_Subset, FS_CardinalityType
<1>3. Cardinality(S) <= K
  <2>1. Cardinality(S) <= Cardinality(Nodes \ {n})
    BY <1>2, FS_Subset
  <2> QED
    BY <1>1, <1>2, <2>1 DEF Small
<1>4. ASSUME NEW m \in S
      PROVE  Cardinality({l \in S : Rank[l] < Rank[m]}) < K
  <2> DEFINE before == {l \in S : Rank[l] < Rank[m]}
  <2>1. before \in SUBSET S /\ m \notin before
    BY RankType
  <2> HIDE DEF before
  <2>2. /\ IsFiniteSet(before) /\ Cardinality(before) <= Cardinality(S)
        /\ Cardinality(S) = Cardinality(before) => S = before
    BY <1>2, <2>1, FS_Subset
  <2>3. Cardinality(before) \in Nat
    BY <2>2, FS_CardinalityType
  <2>4. Cardinality(before) < K
    BY <1>1, <1>2, <1>3, <2>1, <2>2, <2>3
  <2> QED
    BY <2>4 DEF before
<1> QED
  BY <1>4 DEF Closest, Nearest

-----------------------------------------------------------------------------
\* The lookup of n, as far as it has got, is led on to w: out of every set of
\* nodes with n in it but without w there is a pair of nodes that have each other
\* in their tables, and if the one inside was asked (or is n), the lookup has
\* heard of the other.
OnTheWay(n, w) ==
    \A within \in SUBSET Nodes :
        n \in within /\ w \notin within =>
            \E l \in within, m \in Nodes \ within :
                /\ Linked(l, m)
                /\ l = n \/ l \in job[n].asked => m \in job[n].closest

\* An announcement that nothing has disturbed is led on to all it is to reach,
\* and then still has to send them the record or has done so.
Reaching ==
    job[Owner].due =>
        /\ job[Owner].step = "announce" =>
                \A w \in job[Owner].start : OnTheWay(Owner, w)
        /\ job[Owner].step = "store" =>
                job[Owner].start \subseteq holds \cup job[Owner].closest

\* A lookup that should succeed is led on to a node that has the record and was
\* not asked yet, unless it has dropped the record; and it does not end without.
Led(n) ==
    job[n].due /\ ~job[n].lost =>
        /\ job[n].step = "search" =>
                \E w \in holds \ job[n].asked : w # n /\ OnTheWay(n, w)
        /\ job[n].step # "notfound"

SmallInv == served \subseteq holds /\ Reaching /\ \A n \in Searchers : Led(n)

\* Pairs are not parted by a step.
LinksStay == \A l, m \in Nodes : Linked(l, m) => Linked(l, m)'

\* At the start every node connected with n is on the way.
LEMMA WayStarts ==
    ASSUME NEW n \in Nodes, NEW w \in Connected(n), LinksStay,
           known[n] \subseteq job'[n].closest, job'[n].asked = {}
    PROVE  OnTheWay(n, w)'
<1> SUFFICES ASSUME NEW within \in SUBSET Nodes, n \in within, w \notin within
             PROVE  \E l \in within, m \in Nodes \ within :
                        /\ Linked(l, m)'
                        /\ l = n \/ l \in job'[n].asked => m \in job'[n].closest
  BY DEF OnTheWay
<1>1. PICK l \in within, m \in Nodes \ within : Linked(l, m)
  BY DEF Connected
<1>2. Linked(l, m)'
  BY <1>1 DEF LinksStay
<1> QED
  BY <1>1, <1>2 DEF Linked

\* And stays there, when whom n asks tells it whom it knows.
LEMMA WayStays ==
    ASSUME NEW n \in Nodes, NEW w, OnTheWay(n, w), LinksStay,
           job[n].closest \subseteq job'[n].closest,
           \A x \in job'[n].asked \ job[n].asked : known[x] \ {n} \subseteq job'[n].closest
    PROVE  OnTheWay(n, w)'
<1> SUFFICES ASSUME NEW within \in SUBSET Nodes, n \in within, w \notin within
             PROVE  \E l \in within, m \in Nodes \ within :
                        /\ Linked(l, m)'
                        /\ l = n \/ l \in job'[n].asked => m \in job'[n].closest
  BY DEF OnTheWay
<1>1. PICK l \in within, m \in Nodes \ within :
            /\ Linked(l, m)
            /\ l = n \/ l \in job[n].asked => m \in job[n].closest
  BY DEF OnTheWay
<1>2. Linked(l, m)' /\ m \in known[l] /\ m # n
  BY <1>1 DEF LinksStay, Linked
<1>3. l = n \/ l \in job'[n].asked => m \in job'[n].closest
  BY <1>1, <1>2
<1> QED
  BY <1>2, <1>3

\* A lookup that has asked everybody it heard of has asked all on its way.
LEMMA WayEnds ==
    ASSUME NEW n \in Nodes, NEW w, OnTheWay(n, w), GoodJob(n, job[n]),
           job[n].closest \subseteq job[n].asked
    PROVE  w = n \/ w \in job[n].asked
<1> DEFINE within == {n} \cup job[n].asked
<1>1. within \in SUBSET Nodes
  BY DEF GoodJob, Jobs
<1>2. ~\E l \in within, m \in Nodes \ within :
            l = n \/ l \in job[n].asked => m \in job[n].closest
  OBVIOUS
<1> QED
  BY <1>1, <1>2 DEF OnTheWay

LEMMA ReachingStays ==
    ASSUME Reaching, LinksStay, job'[Owner] = job[Owner], holds \subseteq holds'
    PROVE  Reaching'
<1>1. \A w : OnTheWay(Owner, w) => OnTheWay(Owner, w)'
  BY WayStays, Constants
<1> QED
  BY <1>1 DEF Reaching

LEMMA LedStays ==
    ASSUME NEW n \in Nodes, Led(n), LinksStay, job'[n] = job[n], holds \subseteq holds'
    PROVE  Led(n)'
<1>1. \A w : OnTheWay(n, w) => OnTheWay(n, w)'
  BY WayStays
<1> QED
  BY <1>1 DEF Led

LEMMA NothingDue ==
    ASSUME \A n \in Nodes : ~job'[n].due, served' \subseteq holds'
    PROVE  SmallInv'
BY Constants DEF SmallInv, Reaching, Led

LEMMA GrowingLinksStay ==
    ASSUME \A n \in Nodes : known[n] \subseteq known'[n]
    PROVE  LinksStay
BY DEF LinksStay, Linked

\* A node that does not run is not part of a pair.
LEMMA GoneLinksStay ==
    ASSUME TableInv, NEW n \in Nodes, NEW m \in Nodes \ up,
           known' \in {known, [known EXCEPT ![n] = @ \ {m}]}
    PROVE  LinksStay
<1>1. \A l \in Nodes : known[l] \subseteq known'[l] \cup {m}
  BY DEF TableInv
<1>2. known[m] = {}
  BY DEF TableInv
<1> QED
  BY <1>1, <1>2 DEF LinksStay, Linked

LEMMA InitSmall == Init => SmallInv
BY Constants DEF Init, SmallInv, Reaching, Led, Idle

LEMMA NextSmall == Small /\ BaseInv /\ SmallInv /\ [Next]_vars => SmallInv'
<1> SUFFICES ASSUME Small, BaseInv, SmallInv, [Next]_vars PROVE SmallInv'
  OBVIOUS
<1> USE Constants
<1>0. /\ served \subseteq holds /\ Reaching /\ \A n \in Searchers : Led(n)
      /\ NodeInv /\ TableInv /\ JobInv
      /\ \A n \in Nodes : GoodJob(n, job[n])
      /\ \A n \in Nodes : Closest(known[n]) = known[n]
  <2>1. \A n \in Nodes : known[n] \in SUBSET (Nodes \ {n})
    BY DEF BaseInv, TableInv
  <2> QED
    BY <2>1, ClosestIsAll DEF SmallInv, BaseInv, JobInv
<1>a. ASSUME known' = known PROVE LinksStay
  BY <1>a, GrowingLinksStay
<1>b. ASSUME LinksStay, job' = job, holds \subseteq holds', served' = served
      PROVE  SmallInv'
  BY <1>0, <1>b, ReachingStays, LedStays DEF SmallInv
<1>1. ASSUME NEW n \in Nodes, NEW m \in Nodes, Ping(n, m) PROVE SmallInv'
  <2>1. LinksStay
    <3>1. known[n] \subseteq Heard(n, {m}) /\ known[m] \subseteq Heard(m, {n})
      BY <1>0, HeardFacts
    <3>2. \A l \in Nodes : known[l] \subseteq known'[l]
      BY <1>0, <1>1, <3>1 DEF Ping, TableInv
    <3> QED
      BY <3>2, GrowingLinksStay
  <2> QED
    BY <1>1, <1>b, <2>1 DEF Ping
<1>2. CASE Announce
  <2> DEFINE j == [Idle EXCEPT !.step = "announce", !.closest = Closest(known[Owner]),
                               !.start = Connected(Owner), !.due = TRUE]
  <2>1. /\ Owner \in up /\ job' = [job EXCEPT ![Owner] = j]
        /\ holds' = holds \cup {Owner}
        /\ UNCHANGED <<up, known, valid, late, pings, failures, served>>
    BY <1>2 DEF Announce
  <2>2. LinksStay
    BY <1>a, <2>1
  <2>3. /\ job'[Owner] = j /\ j.closest = known[Owner] /\ j.asked = {}
        /\ j.step = "announce" /\ j.start = Connected(Owner)
    BY <1>0, <2>1 DEF JobInv, Idle
  <2>4. Reaching'
    <3>1. \A w \in Connected(Owner) : OnTheWay(Owner, w)'
      BY <2>2, <2>3, WayStarts
    <3> QED
      BY <2>3, <3>1 DEF Reaching
  <2>5. ASSUME NEW n \in Searchers PROVE Led(n)'
    <3>1. job'[n] = job[n] /\ holds \subseteq holds'
      BY <1>0, <2>1 DEF JobInv
    <3> QED
      BY <1>0, <2>2, <3>1, LedStays
  <2> QED
    BY <1>0, <2>1, <2>4, <2>5 DEF SmallInv
<1>3. ASSUME NEW n \in Searchers, Search(n) PROVE SmallInv'
  <2> DEFINE j == [Idle EXCEPT !.step = "search", !.closest = Closest(known[n]),
                               !.due = Connected(n) \cap served # {}]
  <2>1. /\ n \in up \ holds /\ job' = [job EXCEPT ![n] = j]
        /\ UNCHANGED <<up, known, holds, valid, late, pings, failures, served>>
    BY <1>3 DEF Search
  <2>2. LinksStay
    BY <1>a, <2>1
  <2>3. /\ job'[n] = j /\ j.closest = known[n] /\ j.asked = {} /\ j.step = "search"
        /\ j.due <=> Connected(n) \cap served # {}
    BY <1>0, <2>1 DEF JobInv, Idle
  <2>4. Led(n)'
    <3>1. ASSUME Connected(n) \cap served # {}
          PROVE  \E w \in holds : w # n /\ OnTheWay(n, w)'
      <4>1. PICK w \in Connected(n) : w \in served
        BY <3>1
      <4>2. w \in holds /\ w # n
        BY <1>0, <2>1, <4>1
      <4>3. OnTheWay(n, w)'
        BY <2>2, <2>3, WayStarts
      <4> QED
        BY <4>2, <4>3
    <3> HIDE DEF j
    <3> QED
      BY <2>1, <2>3, <3>1 DEF Led
  <2>5. ASSUME NEW m \in Nodes, m # n PROVE job'[m] = job[m]
    BY <1>0, <2>1, <2>5 DEF JobInv
  <2>6. Reaching' /\ \A m \in Searchers : Led(m)'
    BY <1>0, <2>1, <2>2, <2>4, <2>5, ReachingStays, LedStays
  <2> QED
    BY <1>0, <2>1, <2>6 DEF SmallInv
<1>4. ASSUME NEW m \in Nodes, FindNode(m) PROVE SmallInv'
  <2> DEFINE nodes == Closest(known[m])
             j == Told(job[Owner], nodes \ {Owner}, m)
  <2>1. /\ job[Owner].step = "announce" /\ m \in Batch(Owner)
        /\ job' = [job EXCEPT ![Owner] = j]
        /\ known' = [known EXCEPT ![Owner] = Heard(Owner, nodes)]
        /\ UNCHANGED <<up, holds, valid, late, pings, failures, served>>
    BY <1>0, <1>4 DEF FindNode, JobInv, Told
  <2>2. nodes \in SUBSET Nodes /\ nodes = known[m]
    BY <1>0 DEF TableInv
  <2>3. m \in job[Owner].closest
    BY <2>1, BatchFacts
  <2> HIDE DEF nodes
  <2>4. /\ j.step = job[Owner].step /\ j.start = job[Owner].start
        /\ j.due = job[Owner].due
        /\ j.closest = job[Owner].closest \cup (nodes \ {Owner})
        /\ j.asked = job[Owner].asked \cup {m}
    BY <1>0, <2>1, <2>2, <2>3, ToldFacts
  <2> HIDE DEF j
  <2>5. LinksStay
    <3>1. \A l \in Nodes : known[l] \subseteq known'[l]
      BY <1>0, <2>1, <2>2, HeardFacts DEF TableInv
    <3> QED
      BY <3>1, GrowingLinksStay
  <2>6. job'[Owner] = j /\ \A n \in Searchers : job'[n] = job[n]
    BY <1>0, <2>1 DEF JobInv
  <2>7. Reaching'
    <3>1. \A w : OnTheWay(Owner, w) => OnTheWay(Owner, w)'
      <4>1. /\ job[Owner].closest \subseteq job'[Owner].closest
            /\ \A x \in job'[Owner].asked \ job[Owner].asked :
                    known[x] \ {Owner} \subseteq job'[Owner].closest
        BY <2>2, <2>4, <2>6
      <4> QED
        BY <2>5, <4>1, WayStays
    <3> QED
      BY <1>0, <2>1, <2>4, <2>6, <3>1 DEF Reaching
  <2>8. \A n \in Searchers : Led(n)'
    BY <1>0, <2>1, <2>5, <2>6, LedStays
  <2> QED
    BY <1>0, <2>1, <2>7, <2>8 DEF SmallInv
<1>5. ASSUME NEW n \in Searchers, NEW m \in Nodes, FindValue(n, m) PROVE SmallInv'
  <2> DEFINE nodes == Closest(known[m])
             told == Told(job[n], nodes \ {n}, m)
             dropped == Dropped(job[n], m)
  <2>1. /\ job[n].step = "search" /\ m \in Batch(n)
        /\ \/ job' = [job EXCEPT ![n] = Idle]
           \/ job' = [job EXCEPT ![n] = dropped]
           \/ m \notin holds /\ job' = [job EXCEPT ![n] = told]
        /\ UNCHANGED <<up, known, holds, valid, pings, failures, served>>
    BY <1>0, <1>5 DEF FindValue, JobInv, Told, Dropped
  <2>2. nodes \in SUBSET Nodes /\ nodes = known[m]
    BY <1>0 DEF TableInv
  <2>3. m \in job[n].closest
    BY <2>1, BatchFacts
  <2> HIDE DEF nodes
  <2>4. /\ told.step = "search" /\ told.due = job[n].due /\ told.lost = job[n].lost
        /\ told.closest = job[n].closest \cup (nodes \ {n})
        /\ told.asked = job[n].asked \cup {m}
    BY <1>0, <2>1, <2>2, <2>3, ToldFacts
  <2>9. dropped.lost
    BY <1>0, <2>1, <2>3, DroppedFacts
  <2> HIDE DEF told, dropped
  <2>5. LinksStay
    BY <1>a, <2>1
  <2>6. Led(n)'
    <3>1. CASE job' = [job EXCEPT ![n] = Idle]
      <4>1. job'[n] = Idle
        BY <1>0, <3>1 DEF JobInv
      <4> QED
        BY <4>1 DEF Led, Idle
    <3>2. CASE job' = [job EXCEPT ![n] = dropped]
      <4>1. job'[n] = dropped
        BY <1>0, <3>2 DEF JobInv
      <4> QED
        BY <2>9, <4>1 DEF Led
    <3>3. CASE m \notin holds /\ job' = [job EXCEPT ![n] = told]
      <4>1. job'[n] = told
        BY <1>0, <3>3 DEF JobInv
      <4>2. \A w : OnTheWay(n, w) => OnTheWay(n, w)'
        <5>1. /\ job[n].closest \subseteq job'[n].closest
              /\ \A x \in job'[n].asked \ job[n].asked :
                    known[x] \ {n} \subseteq job'[n].closest
          BY <2>2, <2>4, <4>1
        <5> QED
          BY <2>5, <5>1, WayStays
      <4>3. Led(n)
        BY <1>0
      <4> QED
        BY <2>1, <2>4, <3>3, <4>1, <4>2, <4>3 DEF Led
    <3> QED
      BY <2>1, <3>1, <3>2, <3>3
  <2>7. ASSUME NEW k \in Nodes, k # n PROVE job'[k] = job[k]
    BY <1>0, <2>1, <2>7 DEF JobInv
  <2>8. Reaching' /\ \A k \in Searchers : Led(k)'
    BY <1>0, <2>1, <2>5, <2>6, <2>7, ReachingStays, LedStays
  <2> QED
    BY <1>0, <2>1, <2>8 DEF SmallInv
<1>6. ASSUME NEW n \in Nodes, NEW m \in Nodes, NotRunning(n, m) PROVE SmallInv'
  <2> DEFINE j == Asked(job[n], m)
  <2>1. /\ job[n].step \in {"announce", "search"} /\ m \in Batch(n) /\ m \notin up
        /\ \/ job' = [job EXCEPT ![n] = j]
           \/ job[n].step = "search" /\ job' = [job EXCEPT ![n] = TimerFires(n)]
        /\ known' \in {known, [known EXCEPT ![n] = @ \ {m}]}
        /\ UNCHANGED <<up, holds, valid, pings, failures, served>>
    BY <1>0, <1>6 DEF NotRunning, Fails, JobInv, Asked
  <2>2. m \in job[n].closest /\ known[m] = {}
    BY <1>0, <2>1, BatchFacts DEF TableInv
  <2>3. /\ j.step = job[n].step /\ j.start = job[n].start /\ j.due = job[n].due
        /\ j.closest = job[n].closest /\ j.asked = job[n].asked \cup {m}
        /\ j.lost = job[n].lost
    BY <1>0, <2>1, <2>2, AskedFacts
  <2> HIDE DEF j
  <2>4. LinksStay
    BY <1>0, <2>1, GoneLinksStay
  <2>5. \A k \in Nodes : k # n => job'[k] = job[k]
    BY <1>0, <2>1 DEF JobInv
  <2>6. CASE job[n].step = "search" /\ job' = [job EXCEPT ![n] = TimerFires(n)]
    <3>1. job'[n] = TimerFires(n) /\ ~TimerFires(n).due
      BY <1>0, <2>6, TimerFacts DEF JobInv
    <3>2. Led(n)'
      BY <3>1 DEF Led
    <3>3. Reaching'
      <4>1. CASE n = Owner
        BY <3>1, <4>1 DEF Reaching
      <4>2. CASE n # Owner
        BY <1>0, <2>1, <2>4, <2>5, <4>2, ReachingStays
      <4> QED
        BY <4>1, <4>2
    <3>4. ASSUME NEW k \in Searchers, k # n PROVE Led(k)'
      BY <1>0, <2>1, <2>4, <2>5, <3>4, LedStays
    <3> QED
      BY <1>0, <2>1, <3>2, <3>3, <3>4 DEF SmallInv
  <2>7. CASE job' = [job EXCEPT ![n] = j]
    <3>1. job'[n] = j /\ m \notin holds
      BY <1>0, <2>1, <2>7 DEF JobInv, NodeInv
    <3>2. \A w : OnTheWay(n, w) => OnTheWay(n, w)'
      <4>1. /\ job[n].closest \subseteq job'[n].closest
            /\ \A x \in job'[n].asked \ job[n].asked :
                  known[x] \ {n} \subseteq job'[n].closest
        BY <2>2, <2>3, <3>1
      <4> QED
        BY <2>4, <4>1, WayStays
    <3>3. Reaching'
      <4>1. CASE n = Owner
        BY <1>0, <2>1, <2>3, <3>1, <3>2, <4>1 DEF Reaching
      <4>2. CASE n # Owner
        BY <1>0, <2>1, <2>4, <2>5, <4>2, ReachingStays
      <4> QED
        BY <4>1, <4>2
    <3>4. ASSUME NEW k \in Searchers PROVE Led(k)'
      <4>1. CASE k = n
        <5>1. Led(n)
          BY <1>0, <4>1
        <5> QED
          BY <2>1, <2>3, <3>1, <3>2, <4>1, <5>1 DEF Led
      <4>2. CASE k # n
        BY <1>0, <2>1, <2>4, <2>5, <4>2, LedStays
      <4> QED
        BY <4>1, <4>2
    <3> QED
      BY <1>0, <2>1, <3>3, <3>4 DEF SmallInv
  <2> QED
    BY <2>1, <2>6, <2>7
<1>7. ASSUME NEW n \in Nodes, NEW m \in Nodes, NoAnswer(n, m) PROVE SmallInv'
  <2>1. PICK j : /\ j \in {Asked(job[n], m), TimerFires(n)}
                 /\ job' = Disturbed([job EXCEPT ![n] = j])
    BY <1>0, <1>7 DEF NoAnswer, JobInv, Asked
  <2>2. j \in Jobs
    <3>1. m \in Batch(n) /\ job[n].step # "store"
      BY <1>7 DEF NoAnswer
    <3>2. Asked(job[n], m) \in Jobs
      BY <1>0, <3>1, BatchFacts, AskedFacts DEF GoodJob
    <3>3. TimerFires(n) \in Jobs
      BY TimerFacts DEF GoodJob
    <3> QED
      BY <2>1, <3>2, <3>3
  <2>3. [job EXCEPT ![n] = j] \in [Nodes -> Jobs]
    BY <1>0, <2>2 DEF JobInv
  <2>4. \A k \in Nodes : ~job'[k].due
    BY <2>1, <2>3, DisturbedFacts
  <2>5. served' \subseteq holds'
    BY <1>0, <1>7 DEF NoAnswer
  <2> QED
    BY <2>4, <2>5, NothingDue
<1>8. ASSUME NEW n \in Searchers, NotFound(n) PROVE SmallInv'
  <2>1. /\ job[n].step = "search" /\ job[n].closest \subseteq job[n].asked
        /\ job' = [job EXCEPT ![n] = ReturnsNil(n)]
        /\ UNCHANGED <<up, known, holds, valid, late, pings, failures, served>>
    BY <1>8 DEF NotFound
  <2>2. ~job[n].due \/ job[n].lost
    <3> SUFFICES ASSUME job[n].due, ~job[n].lost PROVE FALSE
      OBVIOUS
    <3>1. PICK w \in holds \ job[n].asked : w # n /\ OnTheWay(n, w)
      BY <1>0, <2>1 DEF Led
    <3> QED
      BY <1>0, <2>1, <3>1, WayEnds
  <2>3. Led(n)'
    <3>1. job'[n] = ReturnsNil(n)
      BY <1>0, <2>1 DEF JobInv
    <3>2. ~ReturnsNil(n).due \/ ReturnsNil(n).lost
      BY <1>0, <2>2, NilFacts DEF GoodJob
    <3> QED
      BY <3>1, <3>2 DEF Led
  <2>4. LinksStay
    BY <1>a, <2>1
  <2>5. ASSUME NEW k \in Nodes, k # n PROVE job'[k] = job[k]
    BY <1>0, <2>1, <2>5 DEF JobInv
  <2>6. Reaching' /\ \A k \in Searchers : Led(k)'
    BY <1>0, <2>1, <2>3, <2>4, <2>5, ReachingStays, LedStays
  <2> QED
    BY <1>0, <2>1, <2>6 DEF SmallInv
<1>9. CASE Located
  <2> DEFINE j == ToStore(job[Owner])
  <2>1. /\ job[Owner].step = "announce" /\ job[Owner].closest \subseteq job[Owner].asked
        /\ job' = [job EXCEPT ![Owner] = j]
        /\ UNCHANGED <<up, known, holds, valid, late, pings, failures, served>>
    BY <1>0, <1>9 DEF Located, JobInv, ToStore
  <2>2. /\ j.step = "store" /\ j.start = job[Owner].start /\ j.due = job[Owner].due
        /\ j.closest = Closest(job[Owner].closest)
    BY <1>0, ToStoreFacts
  <2>3. Closest(job[Owner].closest) = job[Owner].closest
    <3>1. job[Owner].closest \in SUBSET (Nodes \ {Owner})
      BY <1>0 DEF GoodJob, Jobs
    <3> QED
      BY <3>1, ClosestIsAll
  <2> HIDE DEF j
  <2>4. ASSUME job[Owner].due, NEW w \in job[Owner].start
        PROVE  w \in holds \cup job[Owner].closest
    <3>1. OnTheWay(Owner, w)
      BY <1>0, <2>1, <2>4 DEF Reaching
    <3>2. w = Owner \/ w \in job[Owner].asked
      BY <1>0, <2>1, <3>1, WayEnds
    <3> QED
      BY <1>0, <2>1, <3>2 DEF JobInv, GoodJob
  <2>5. job'[Owner] = j /\ \A n \in Searchers : job'[n] = job[n]
    BY <1>0, <2>1 DEF JobInv
  <2>6. Reaching'
    BY <2>1, <2>2, <2>3, <2>4, <2>5 DEF Reaching
  <2>7. \A n \in Searchers : Led(n)'
    BY <1>0, <1>a, <2>1, <2>5, LedStays
  <2> QED
    BY <1>0, <2>1, <2>6, <2>7 DEF SmallInv
<1>10. ASSUME NEW m \in Nodes, Store(m) PROVE SmallInv'
  <2> DEFINE j == Sent(job[Owner], m)
             jobs == [job EXCEPT ![Owner] = j]
  <2>1. /\ job[Owner].step = "store"
        /\ UNCHANGED <<up, known, valid, late, pings, served>>
        /\ \/ /\ holds' = IF m \in up /\ valid THEN holds \cup {m} ELSE holds
              /\ job' = jobs
           \/ /\ holds' = holds /\ job' = Disturbed(jobs)
    BY <1>0, <1>10 DEF Store, JobInv, Sent
  <2>2. /\ j \in Jobs /\ j.step = "store" /\ j.start = job[Owner].start
        /\ j.due = job[Owner].due /\ j.closest = job[Owner].closest \ {m}
    BY <1>0, <2>1, SentFacts DEF GoodJob
  <2> HIDE DEF j
  <2>3. jobs \in [Nodes -> Jobs]
    BY <1>0, <2>2 DEF JobInv
  <2>4. CASE holds' = holds /\ job' = Disturbed(jobs)
    <3>1. \A n \in Nodes : ~job'[n].due
      BY <2>3, <2>4, DisturbedFacts
    <3> QED
      BY <1>0, <2>1, <2>4, <3>1, NothingDue
  <2>5. CASE holds' = (IF m \in up /\ valid THEN holds \cup {m} ELSE holds) /\ job' = jobs
    <3>1. /\ job'[Owner] = j /\ \A n \in Searchers : job'[n] = job[n]
          /\ holds \subseteq holds' /\ (m \in up /\ valid => m \in holds')
      BY <1>0, <2>5 DEF JobInv
    <3>2. Reaching'
      BY <1>0, <2>1, <2>2, <3>1 DEF Reaching, JobInv
    <3>3. \A n \in Searchers : Led(n)'
      BY <1>0, <1>a, <2>1, <3>1, LedStays
    <3> QED
      BY <1>0, <2>1, <3>1, <3>2, <3>3 DEF SmallInv
  <2> QED
    BY <2>1, <2>4, <2>5
<1>11. CASE Announced
  <2>1. /\ job[Owner].step = "store" /\ job[Owner].closest = {}
        /\ job' = [job EXCEPT ![Owner] = Idle]
        /\ served' = IF job[Owner].due THEN served \cup job[Owner].start ELSE served
        /\ UNCHANGED <<up, known, holds, valid, late, pings, failures>>
    BY <1>11 DEF Announced
  <2>2. served' \subseteq holds'
    BY <1>0, <2>1 DEF Reaching
  <2>3. job'[Owner] = Idle /\ \A n \in Searchers : job'[n] = job[n]
    BY <1>0, <2>1 DEF JobInv
  <2>4. Reaching'
    BY <2>3 DEF Reaching, Idle
  <2>5. \A n \in Searchers : Led(n)'
    BY <1>0, <1>a, <2>1, <2>3, LedStays
  <2> QED
    BY <2>2, <2>4, <2>5 DEF SmallInv
<1>12. ASSUME NEW n \in Nodes, Crash(n) PROVE SmallInv'
  <2>1. /\ job' = [Disturbed(job) EXCEPT ![n] = Idle]
        /\ holds' = holds \ {n} /\ served' = served \ {n}
    BY <1>12 DEF Crash
  <2>2. /\ Disturbed(job) \in [Nodes -> Jobs]
        /\ \A k \in Nodes : Disturbed(job)[k].due = FALSE
    BY <1>0, DisturbedFacts DEF JobInv
  <2>3. Idle.due = FALSE
    BY DEF Idle
  <2>4. \A k \in Nodes : job'[k] = IF k = n THEN Idle ELSE Disturbed(job)[k]
    BY <2>1, <2>2
  <2>5. \A k \in Nodes : ~job'[k].due
    BY <2>2, <2>3, <2>4
  <2> QED
    BY <1>0, <2>1, <2>5, NothingDue
<1>13. ASSUME NEW n \in Nodes, Restart(n) PROVE SmallInv'
  BY <1>13, <1>a, <1>b DEF Restart
<1>14. ASSUME NEW n \in Nodes, NEW m \in Nodes, LateFailure(n, m) PROVE SmallInv'
  <2>1. /\ known' = [known EXCEPT ![n] = @ \ {m}] /\ UNCHANGED <<up, holds, served>>
        /\ (m \notin up /\ job' = job) \/ job' = Disturbed(job)
    BY <1>14 DEF LateFailure
  <2>2. CASE m \notin up /\ job' = job
    <3>1. LinksStay
      BY <1>0, <2>1, <2>2, GoneLinksStay
    <3> QED
      BY <1>b, <2>1, <2>2, <3>1
  <2>3. CASE job' = Disturbed(job)
    BY <1>0, <2>1, <2>3, DisturbedFacts, NothingDue DEF JobInv
  <2> QED
    BY <2>1, <2>2, <2>3
<1>15. ASSUME NEW n \in Nodes, Expire(n) PROVE SmallInv'
  <2>1. job' = Disturbed(job) /\ served' \subseteq holds'
    BY <1>0, <1>15 DEF Expire
  <2> QED
    BY <1>0, <2>1, DisturbedFacts, NothingDue DEF JobInv
<1>16. CASE UNCHANGED vars
  BY <1>16, <1>a, <1>b DEF vars
<1> QED
  BY <1>1, <1>2, <1>3, <1>4, <1>5, <1>6, <1>7, <1>8, <1>9, <1>10, <1>11, <1>12,
     <1>13, <1>14, <1>15, <1>16 DEF Next, Pings, Announcing, Searching, Failing

\* In a mesh of at most K + 1 nodes an announced record is found by every node
\* connected with one that an undisturbed announcement has reached, as long as
\* nothing it depends on goes away and no node keeps its lookup waiting beyond the
\* timer of a round; or the select of a round has dropped the record that a node
\* returned.  LookupNode, the STOREs of Announce and LookupValue together, in
\* tables that change meanwhile.
THEOREM AnnouncedRecordIsFound == Small => (Spec => []AnnouncedIsFound)
<1> SUFFICES ASSUME Small PROVE Spec => []AnnouncedIsFound
  OBVIOUS
<1>1. BaseInv /\ SmallInv /\ [Next]_vars => SmallInv'
  BY NextSmall
<1>2. SmallInv => AnnouncedIsFound
  BY DEF SmallInv, Led, AnnouncedIsFound
<1> QED
  BY <1>1, <1>2, InitSmall, BaseInvariant, PTL DEF Spec
=============================================================================
