SPECIFICATION FairSpec
CONSTANTS
    Clients = {c1, c2}
    min_thr_num = 1
    max_thr_num = 2
    queue_max_size = 1
    MIN_WAIT_TASK_NUM = 1
    DEFAULT_THREAD_VARY = 2
    MaxTasks = 2
    MayDestroy = TRUE
    SpawnMayFail = FALSE
CHECK_DEADLOCK FALSE
INVARIANTS TypeOK LiveBounds LiveCount SnapshotSane
PROPERTIES ImplementsTaskPool ShrinksToMin
