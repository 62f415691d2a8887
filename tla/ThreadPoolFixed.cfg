SPECIFICATION FairSpec
CONSTANTS
    Clients = {c1, c2}
    min_thr_num = 2
    max_thr_num = 2
    queue_max_size = 2
    MIN_WAIT_TASK_NUM = 2
    DEFAULT_THREAD_VARY = 2
    MaxTasks = 3
    MayDestroy = FALSE
    SpawnMayFail = FALSE
INVARIANTS NoIdleWorker NoIdleClient
PROPERTIES NothingStuck
