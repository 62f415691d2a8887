SPECIFICATION FairSpec
CONSTANTS
    Clients = {c1, c2}
    min_thr_num = 1
    max_thr_num = 2
    queue_max_size = 2
    MIN_WAIT_TASK_NUM = 2
    DEFAULT_THREAD_VARY = 3
    MaxTasks = 4
    MayDestroy = FALSE
    SpawnMayFail = FALSE
PROPERTY TasksFinish
