SPECIFICATION Spec
CONSTANTS
    Clients = {c1, c2}
    min_thr_num = 1
    max_thr_num = 1
    queue_max_size = 1
    MIN_WAIT_TASK_NUM = 1
    DEFAULT_THREAD_VARY = 1
    MaxTasks = 1
    MayDestroy = TRUE
    SpawnMayFail = FALSE
CHECK_DEADLOCK FALSE
INVARIANT DestroyStops
