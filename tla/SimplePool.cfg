SPECIFICATION FairSpec
CONSTANTS
    Clients = {c1, c2, c3}
    thr_num = 2
    max_job_num = 2
    MaxTasks = 4
    MayDestroy = TRUE
CHECK_DEADLOCK FALSE
INVARIANTS NoIdleWorker NoIdleClient
PROPERTIES ImplementsTaskPool NothingStuck
