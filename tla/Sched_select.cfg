\* Every scheduler of threads_sched.c, on run and release queues of up to
\* three threads built over ticks 0 to 3.
CONSTANTS
    IDs = {1, 2, 3}
    NULL = NULL
    Bursts = {1, 3}
    Prios = {1, 2}
    Deadlines = {2, 3}
    Quantum = 2
    MaxTime = 3
    MaxQueue = 3
SPECIFICATION Spec
INVARIANT SelectionIgnoresQueueOrder
PROPERTIES HrrnHighestResponseRatio PriorityRRRoundRobin DmSafeAllocation
