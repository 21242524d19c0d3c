---------------------------- MODULE ServerProofs ----------------------------
(***************************************************************************)
(* Stop waits for everything that serves, for any number of connections:   *)
(* the WaitGroup counts exactly the goroutines there are.                  *)
(***************************************************************************)
EXTENDS Server, FiniteSetTheorems, TLAPS

LoopRuns == loop \notin {"none", "ended"}

\* The counter is the number of handlers, and one more for the accept loop.
Counted == wg = Cardinality(serving) + (IF LoopRuns THEN 1 ELSE 0)

\* There is an accepted connection only while the loop starts its handler.
OneAccepted ==
    \A c \in Conns : conn[c] = "accepted" =>
        loop = "spawn" /\ \A d \in Conns : conn[d] = "accepted" => d = c

\* The loop starts with the server, and after Stop there is nothing to count.
Phases ==
    /\ main = "new" <=> loop = "none"
    /\ main = "stopped" => wg = 0

IInv == TypeOK /\ Counted /\ OneAccepted /\ Phases

-----------------------------------------------------------------------------
\* What is served is a finite set, so its size is a natural number.
LEMMA ServingFinite ==
    IsFiniteSet(serving) /\ Cardinality(serving) \in Nat
  BY ConnsAssumption, FS_Subset, FS_CardinalityType DEF serving

\* Counting one handler more, and one less.
LEMMA OneMore ==
    ASSUME NEW c \in Conns, c \notin serving, serving' = serving \cup {c}
    PROVE  Cardinality(serving') = Cardinality(serving) + 1
  BY ServingFinite, FS_AddElement

LEMMA OneLess ==
    ASSUME NEW c \in Conns, c \in serving, serving' = serving \ {c}
    PROVE  Cardinality(serving') = Cardinality(serving) - 1
  BY ServingFinite, FS_RemoveElement

\* How a change of one connection shows in the two sets.
LEMMA SetFacts ==
    ASSUME TypeOK, NEW c \in Conns, NEW s, Set(c, s)
    PROVE  /\ \A d \in Conns : conn'[d] = IF d = c THEN s ELSE conn[d]
           /\ serving' = IF s \in {"reading", "answering"} THEN serving \cup {c}
                         ELSE serving \ {c}
           /\ served' = IF s = "finished" THEN served \cup {c} ELSE served \ {c}
<1>1. \A d \in Conns : conn'[d] = IF d = c THEN s ELSE conn[d]
  BY DEF Set, TypeOK
<1> QED
  BY <1>1 DEF serving, served

\* If nothing is being served and the loop has ended, nothing is accepted.
LEMMA ZeroMeansNothing ==
    ASSUME IInv, wg = 0
    PROVE  /\ serving = {} /\ ~LoopRuns
           /\ \A c \in Conns : conn[c] # "accepted"
<1>1. Cardinality(serving) = 0 /\ ~LoopRuns
  BY ServingFinite DEF IInv, Counted
<1>2. serving = {}
  BY <1>1, ServingFinite, FS_EmptySet
<1> QED
  BY <1>1, <1>2 DEF IInv, OneAccepted, LoopRuns

-----------------------------------------------------------------------------
LEMMA InvInit == Init => IInv
<1> SUFFICES ASSUME Init PROVE IInv
  OBVIOUS
<1>1. serving = {}
  BY DEF Init, serving
<1>2. Cardinality(serving) = 0
  BY <1>1, FS_EmptySet
<1>3. Counted
  BY <1>2 DEF Init, Counted, LoopRuns
<1>4. TypeOK
  BY DEF Init, TypeOK
<1>5. OneAccepted /\ Phases
  BY DEF Init, OneAccepted, Phases
<1> QED
  BY <1>3, <1>4, <1>5 DEF IInv

\* A handler ends: one goroutine less, one less to wait for.
LEMMA FinishedKeepsInv ==
    ASSUME IInv, NEW c \in Conns, c \in serving, Finished(c)
    PROVE  IInv'
<1>1. /\ \A d \in Conns : conn'[d] = IF d = c THEN "finished" ELSE conn[d]
      /\ serving' = serving \ {c}
  BY SetFacts DEF Finished, IInv
<1>2. Cardinality(serving') = Cardinality(serving) - 1
  BY <1>1, OneLess
<1>3. Counted'
  BY <1>2, ServingFinite DEF IInv, TypeOK, Counted, LoopRuns, Finished
<1>4. wg # 0
  BY ZeroMeansNothing
<1>5. TypeOK'
  BY <1>4 DEF IInv, TypeOK, Finished, Set
<1>6. OneAccepted' /\ Phases'
  BY <1>1, <1>4 DEF IInv, OneAccepted, Phases, Finished
<1> QED
  BY <1>3, <1>5, <1>6 DEF IInv

LEMMA InvStep == IInv /\ [Next]_vars => IInv'
<1> SUFFICES ASSUME IInv, [Next]_vars PROVE IInv'
  OBVIOUS
<1> USE DEF IInv
<1>1. CASE Start
  <2>1. loop = "none" /\ serving' = serving
    BY <1>1 DEF Start, Phases, serving
  <2> QED
    BY <1>1, <2>1, ServingFinite
    DEF Start, TypeOK, Counted, LoopRuns, OneAccepted, Phases
<1>2. CASE Stop
  <2>1. loop' = loop /\ wg' = wg
    BY <1>2 DEF Stop, CloseDone, CloseListener, Wait
  <2>2. /\ serving' = serving
        /\ \A c \in Conns : conn'[c] = "accepted" <=> conn[c] = "accepted"
    BY <1>2 DEF Stop, CloseDone, CloseListener, Wait, serving
  <2>3. TypeOK'
    BY <1>2 DEF Stop, CloseDone, CloseListener, Wait, TypeOK
  <2>4. Counted' /\ OneAccepted'
    BY <2>1, <2>2 DEF Counted, LoopRuns, OneAccepted
  <2>5. Phases'
    BY <1>2, <2>1 DEF Stop, CloseDone, CloseListener, Wait, Phases
  <2> QED
    BY <2>3, <2>4, <2>5
<1>3. CASE AcceptError
  BY <1>3 DEF AcceptError, TypeOK, Counted, LoopRuns, OneAccepted, Phases, serving
<1>4. CASE CheckDone
  <2>1. wg # 0 /\ serving' = serving
    BY <1>4, ZeroMeansNothing DEF CheckDone, LoopRuns, serving
  <2> QED
    BY <1>4, <2>1, ServingFinite
    DEF CheckDone, TypeOK, Counted, LoopRuns, OneAccepted, Phases
<1>5. ASSUME NEW c \in Conns, Accept(c) PROVE IInv'
  <2>1. /\ \A d \in Conns : conn'[d] = IF d = c THEN "accepted" ELSE conn[d]
        /\ serving' = serving
    BY <1>5, SetFacts DEF Accept, serving
  <2> QED
    BY <1>5, <2>1
    DEF Accept, Set, TypeOK, Counted, LoopRuns, OneAccepted, Phases
<1>6. ASSUME NEW c \in Conns, Spawn(c) PROVE IInv'
  <2>1. /\ \A d \in Conns : conn'[d] = IF d = c THEN "reading" ELSE conn[d]
        /\ serving' = serving \cup {c}
    BY <1>6, SetFacts DEF Spawn
  <2>2. Cardinality(serving') = Cardinality(serving) + 1
    BY <1>6, <2>1, OneMore DEF Spawn, serving
  <2>3. wg # 0
    BY <1>6, ZeroMeansNothing DEF Spawn, LoopRuns
  <2> QED
    BY <1>6, <2>1, <2>2, <2>3, ServingFinite
    DEF Spawn, Set, TypeOK, Counted, LoopRuns, OneAccepted, Phases
<1>7. ASSUME NEW c \in Conns, Dial(c) PROVE IInv'
  <2>1. /\ \A d \in Conns : conn'[d] = IF d = c THEN "queued" ELSE conn[d]
        /\ serving' = serving
    BY <1>7, SetFacts DEF Dial, serving
  <2> QED
    BY <1>7, <2>1
    DEF Dial, Set, TypeOK, Counted, LoopRuns, OneAccepted, Phases
<1>8. ASSUME NEW c \in Conns, ReadMessage(c) PROVE IInv'
  <2>1. /\ \A d \in Conns : conn'[d] = IF d = c THEN "answering" ELSE conn[d]
        /\ serving' = serving
    BY <1>8, SetFacts DEF ReadMessage, serving
  <2> QED
    BY <1>8, <2>1
    DEF ReadMessage, Set, TypeOK, Counted, LoopRuns, OneAccepted, Phases
<1>9. ASSUME NEW c \in Conns, ReadError(c) \/ Answer(c) PROVE IInv'
  BY <1>9, FinishedKeepsInv DEF ReadError, Answer, serving
<1>10. CASE UNCHANGED vars
  BY <1>10 DEF vars, TypeOK, Counted, LoopRuns, OneAccepted, Phases, serving
<1> QED
  BY <1>1, <1>2, <1>3, <1>4, <1>5, <1>6, <1>7, <1>8, <1>9, <1>10
  DEF Next, AcceptLoop, Read

LEMMA Invariance == Spec => []IInv
  BY InvInit, InvStep, PTL DEF Spec

\* The counter of the WaitGroup never goes below zero, and the rest of the state
\* keeps its shape.
THEOREM ServerTypes == Spec => []TypeOK
<1>1. IInv => TypeOK
  BY DEF IInv
<1> QED
  BY <1>1, Invariance, PTL

\* When Stop has returned, nothing serves and nothing will.
THEOREM StopWaits == Spec => []NothingServedAfterStop
<1>1. IInv => NothingServedAfterStop
  BY ZeroMeansNothing DEF IInv, Phases, LoopRuns, NothingServedAfterStop
<1> QED
  BY <1>1, Invariance, PTL

-----------------------------------------------------------------------------
\* A step of the server is a step of Drain or changes nothing there.
LEMMA StepRefines ==
    IInv /\ [Next]_vars => [Drained!Next]_<<phase, serving, served>>
<1> SUFFICES ASSUME IInv, [Next]_vars
             PROVE  [Drained!Next]_<<phase, serving, served>>
  OBVIOUS
<1> USE DEF IInv
<1>1. CASE Start
  BY <1>1 DEF Start, Drained!Next, Drained!Open, phase, serving, served
<1>2. CASE CloseDone
  BY <1>2 DEF CloseDone, Drained!Next, Drained!Close, phase, serving, served
<1>3. CASE CloseListener
  <2>1. serving' = serving /\ served' = served /\ phase' = phase
    BY <1>3 DEF CloseListener, serving, served, phase
  <2> QED
    BY <2>1
<1>4. CASE Wait
  <2>1. serving = {}
    BY <1>4, ZeroMeansNothing DEF Wait
  <2> QED
    BY <1>4, <2>1 DEF Wait, Drained!Next, Drained!Return, phase, serving, served
<1>5. CASE AcceptError \/ CheckDone \/ UNCHANGED vars
  BY <1>5 DEF AcceptError, CheckDone, vars, serving, served, phase
<1>6. ASSUME NEW c \in Conns, Accept(c) \/ Dial(c) \/ ReadMessage(c)
      PROVE  UNCHANGED <<phase, serving, served>>
  <2>1. serving' = serving /\ served' = served
    BY <1>6, SetFacts DEF Accept, Dial, ReadMessage, serving, served
  <2> QED
    BY <1>6, <2>1 DEF Accept, Dial, ReadMessage, phase
<1>7. ASSUME NEW c \in Conns, Spawn(c) PROVE Drained!Begin(c)
  <2>1. serving' = serving \cup {c} /\ served' = served /\ c \notin serving \cup served
    BY <1>7, SetFacts DEF Spawn, serving, served
  <2>2. main \in {"running", "closing", "waiting"}
    BY <1>7, ZeroMeansNothing DEF Spawn, LoopRuns, TypeOK, Phases
  <2> QED
    BY <1>7, <2>1, <2>2 DEF Spawn, Drained!Begin, phase
<1>8. ASSUME NEW c \in Conns, ReadError(c) \/ Answer(c) PROVE Drained!Finish(c)
  <2>1. c \in serving /\ Finished(c)
    BY <1>8 DEF ReadError, Answer, serving
  <2>2. serving' = serving \ {c} /\ served' = served \cup {c} /\ main' = main
    BY <2>1, SetFacts DEF Finished
  <2> QED
    BY <2>1, <2>2 DEF Drained!Finish, phase
<1> QED
  BY <1>1, <1>2, <1>3, <1>4, <1>5, <1>6, <1>7, <1>8
  DEF Next, Stop, AcceptLoop, Read, Drained!Next

\* The server implements Drain.
THEOREM ServerDrains == Spec => DrainSpec
<1>1. Init => Drained!Init
  BY DEF Init, Drained!Init, phase, serving, served
<1> QED
  BY <1>1, StepRefines, Invariance, PTL DEF Spec, DrainSpec, Drained!Spec
=============================================================================
