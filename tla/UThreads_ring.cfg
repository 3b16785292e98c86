\* The run queue, suspension and signals of three user-level threads.
\* The program stops when the last thread exits and when every thread is
\* suspended (schedule spins forever), so deadlock is not an error here.
CONSTANTS
    Threads = {a, b, c}
    Signals = {0}
    Handlers = {h}
    NULL = NULL
    NULL_FUNC = NULL_FUNC
SPECIFICATION Spec
INVARIANT RingIntact
PROPERTY EveryRunnableRuns
CHECK_DEADLOCK FALSE
