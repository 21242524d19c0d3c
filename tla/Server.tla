------------------------------- MODULE Server -------------------------------
(***************************************************************************)
(* The goroutines that serve other nodes (dht/dht.go): the accept loop, a  *)
(* handler for every connection, and Stop, which waits for all of them     *)
(* through the WaitGroup d.wg.  What a handler does to table and store is  *)
(* in NodeTable and RecordStore; here it only takes its time.              *)
(***************************************************************************)
EXTENDS Integers, FiniteSets

CONSTANT Conns      \* connections other nodes may open

ASSUME ConnsAssumption == IsFiniteSet(Conns)

VARIABLES
    main,       \* the caller of Start and Stop
    listener,   \* "none", "open" or "closed"
    done,       \* is the channel d.done closed?
    loop,       \* the accept loop: "none", "accept", "spawn", "failed", "ended"
    conn,       \* the state of each connection
    wg          \* the counter of d.wg

vars == <<main, listener, done, loop, conn, wg>>

Set(c, state) == conn' = [conn EXCEPT ![c] = state]

Init ==
    /\ main = "new"
    /\ listener = "none"
    /\ done = FALSE
    /\ loop = "none"
    /\ conn = [c \in Conns |-> "unopened"]
    /\ wg = 0

\* Start, when the port is free.  The variant does not count the accept loop.
Start_LoopNotCounted ==
    /\ main = "new"
    /\ main' = "running"
    /\ listener' = "open"
    /\ loop' = "accept"
    /\ UNCHANGED <<done, conn, wg>>

Start ==
    /\ main = "new"
    /\ main' = "running"
    /\ listener' = "open"
    /\ wg' = wg + 1
    /\ loop' = "accept"
    /\ UNCHANGED <<done, conn>>

\* Another node dials; the connection waits in the listener's queue.
Dial(c) ==
    /\ listener = "open" /\ conn[c] = "unopened"
    /\ Set(c, "queued")
    /\ UNCHANGED <<main, listener, done, loop, wg>>

-----------------------------------------------------------------------------
\* The accept loop.  Accept takes a connection, or fails: for want of file
\* descriptors, say, or because the listener is closed.
Accept(c) ==
    /\ loop = "accept" /\ conn[c] = "queued"
    /\ loop' = "spawn"
    /\ Set(c, "accepted")
    /\ UNCHANGED <<main, listener, done, wg>>

AcceptError ==
    /\ loop = "accept"
    /\ loop' = "failed"
    /\ UNCHANGED <<main, listener, done, conn, wg>>

\* After an error the loop ends if done is closed and goes on if not; its
\* deferred wg.Done is part of the end.
CheckDone ==
    /\ loop = "failed"
    /\ loop' = IF done THEN "ended" ELSE "accept"
    /\ wg' = IF done THEN wg - 1 ELSE wg
    /\ UNCHANGED <<main, listener, done, conn>>

\* Count the handler, then start it.  The variant only starts it.
Spawn_NotCounted(c) ==
    /\ loop = "spawn" /\ conn[c] = "accepted"
    /\ loop' = "accept"
    /\ Set(c, "reading")
    /\ UNCHANGED <<main, listener, done, wg>>

Spawn(c) ==
    /\ loop = "spawn" /\ conn[c] = "accepted"
    /\ wg' = wg + 1
    /\ loop' = "accept"
    /\ Set(c, "reading")
    /\ UNCHANGED <<main, listener, done>>

-----------------------------------------------------------------------------
\* A handler.  readMessage gets the message, or an error, at the latest when its
\* deadline of ten seconds has passed.
Finished(c) ==
    /\ Set(c, "finished")
    /\ wg' = wg - 1
    /\ UNCHANGED <<main, listener, done, loop>>

\* The variant calls wg.Done itself and leaves it to defer as well.
ReadError_DoneTwice(c) ==
    /\ conn[c] = "reading"
    /\ Set(c, "finished")
    /\ wg' = wg - 2
    /\ UNCHANGED <<main, listener, done, loop>>

ReadError(c) == conn[c] = "reading" /\ Finished(c)

ReadMessage(c) ==
    /\ conn[c] = "reading"
    /\ Set(c, "answering")
    /\ UNCHANGED <<main, listener, done, loop, wg>>

\* The request has been handled and the answer, if any, is written.  There is no
\* deadline for writing: as long as the other node neither reads an answer too
\* large for the socket nor closes, the handler stays.
Answer(c) == conn[c] = "answering" /\ Finished(c)

-----------------------------------------------------------------------------
\* Stop: close done, close the listener, which resets what is in its queue,
\* then (store.Stop, which waits for nothing, and) wait.
CloseDone ==
    /\ main = "running"
    /\ done' = TRUE
    /\ main' = "closing"
    /\ UNCHANGED <<listener, loop, conn, wg>>

\* The variant forgets the listener.
CloseListener_Forgotten ==
    /\ main = "closing"
    /\ main' = "waiting"
    /\ UNCHANGED <<listener, done, loop, conn, wg>>

CloseListener ==
    /\ main = "closing"
    /\ listener' = "closed"
    /\ conn' = [c \in Conns |-> IF conn[c] = "queued" THEN "refused" ELSE conn[c]]
    /\ main' = "waiting"
    /\ UNCHANGED <<done, loop, wg>>

Wait ==
    /\ main = "waiting" /\ wg = 0
    /\ main' = "stopped"
    /\ UNCHANGED <<listener, done, loop, conn, wg>>

Stop == CloseDone \/ CloseListener \/ Wait

AcceptLoop == AcceptError \/ CheckDone \/ \E c \in Conns : Accept(c) \/ Spawn(c)

Read(c) == ReadError(c) \/ ReadMessage(c)

Next ==
    \/ Start \/ Stop \/ AcceptLoop
    \/ \E c \in Conns : Dial(c) \/ Read(c) \/ Answer(c)

\* The scheduler runs the accept loop, and Stop once it is called; a read ends by
\* its deadline.  Accept blocks while the listener is open and its queue empty,
\* so it need not fail; once the listener is closed it does.
Fairness ==
    /\ WF_vars(CloseListener \/ Wait)
    /\ WF_vars((listener = "closed" \/ loop # "accept") /\ AcceptLoop)
    /\ \A c \in Conns : WF_vars(Read(c))

Spec == Init /\ [][Next]_vars /\ Fairness

-----------------------------------------------------------------------------
\* The shape of the state.  A negative counter would be a panic in the code.
TypeOK ==
    /\ main \in {"new", "running", "closing", "waiting", "stopped"}
    /\ listener \in {"none", "open", "closed"}
    /\ done \in BOOLEAN
    /\ loop \in {"none", "accept", "spawn", "failed", "ended"}
    /\ conn \in [Conns -> {"unopened", "queued", "accepted", "reading",
                           "answering", "finished", "refused"}]
    /\ wg \in Nat

serving == {c \in Conns : conn[c] \in {"reading", "answering"}}
served == {c \in Conns : conn[c] = "finished"}

\* When Stop has returned, the accept loop is gone and no handler runs or will
\* run: node.Stop, which follows, takes the mesh away from nobody.
NothingServedAfterStop ==
    main = "stopped" =>
        loop = "ended" /\ serving = {} /\ \A c \in Conns : conn[c] # "accepted"

\* The server drains: it implements Drain.
phase ==
    IF main = "running" THEN "open"
    ELSE IF main = "waiting" THEN "closing" ELSE main

Drained == INSTANCE Drain

DrainSpec == Drained!Spec

\* Stop returns, or waits for ever for a node that does not read its answer;
\* a node that does not send cannot hold it up.
StopReturns ==
    main = "closing" ~> (main = "stopped" \/ [](\E c \in Conns : conn[c] = "answering"))
=============================================================================
