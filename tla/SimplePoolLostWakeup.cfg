SPECIFICATION Spec
CONSTANTS
    Clients = {c1}
    thr_num = 1
    max_job_num = 1
    MaxTasks = 1
    MayDestroy = TRUE
CHECK_DEADLOCK FALSE
INVARIANT DestroyWakesAll
