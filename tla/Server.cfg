\* Four connections: some in the queue, one just accepted and some handled when
\* Stop is called.  The server is stopped once, and then nothing happens.
CONSTANTS
    Conns = {c1, c2, c3, c4}
SPECIFICATION Spec
INVARIANTS TypeOK NothingServedAfterStop
PROPERTIES DrainSpec StopReturns
CHECK_DEADLOCK FALSE
