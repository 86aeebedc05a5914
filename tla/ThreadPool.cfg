CONSTANTS
    Workers = {w1, w2}
    Tasks = {t1, t2, t3}
SPECIFICATION Spec
INVARIANTS
    TaskInOnePlace
    QueueIsRestOfEnqueued
    NothingRunsAfterShutdown
CHECK_DEADLOCK FALSE
