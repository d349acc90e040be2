\* As many threads as tasks, so that creating one never runs out of identities;
\* thread creation may fail.  Without symmetry, which TLC cannot combine with
\* liveness.
CONSTANTS
    t1 = t1
    t2 = t2
    t3 = t3
    t4 = t4
    w1 = w1
    w2 = w2
    w3 = w3
    w4 = w4
    Tasks = {t1, t2, t3, t4}
    Threads = {w1, w2, w3, w4}
    NoTask = NoTask
    CreateCanFail = TRUE
SPECIFICATION FairSpec
INVARIANTS
    IInv
    PendingCovered
    PoolOutlivesThreads
PROPERTIES
    EveryTaskStarts
    IdleThreadsWakeOnTerminate
\* After ~WorkerPoolImpl and the last thread's exit the pool is gone.
CHECK_DEADLOCK FALSE
