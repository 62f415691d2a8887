----------------------------- MODULE ThreadPool -----------------------------
(***************************************************************************)
(* The elastic thread pool of thread/threadpool.c: clients put tasks in a  *)
(* ring buffer, workers take and run them, a manager thread grows and      *)
(* shrinks the set of workers, and threadpool_destroy tears it all down.   *)
(*                                                                         *)
(* Steps.  A step is a maximal piece of code with at most one access that  *)
(* other threads can race with: pool->lock protects the queue and the      *)
(* counters, but `shutdown' is written and read with and without it, the   *)
(* manager signals without it and destroy frees without it.  A thread that *)
(* keeps pool->lock from one step to the next is in a pc listed by         *)
(* WorkerHolds or ClientHolds; every other critical section is one step.   *)
(*                                                                         *)
(* Tasks are numbered in the order in which they enter the queue.          *)
(***************************************************************************)
EXTENDS Integers, FiniteSets

CONSTANTS
    Clients,              \* the threads that call threadpool_add
    min_thr_num,          \* the arguments of threadpool_create
    max_thr_num,
    queue_max_size,
    MIN_WAIT_TASK_NUM,    \* the manager grows the pool from this queue size on
    DEFAULT_THREAD_VARY,  \* how many threads the manager adds or retires at once
    MaxTasks,             \* bound: how many times the clients call threadpool_add
    MayDestroy,           \* does the program call threadpool_destroy?
    SpawnMayFail          \* may pthread_create run out of resources?

ASSUME PoolAssumption ==
    /\ min_thr_num \in Nat \ {0}
    /\ max_thr_num \in Nat /\ min_thr_num <= max_thr_num
    /\ queue_max_size \in Nat \ {0}
    /\ MIN_WAIT_TASK_NUM \in Nat
    /\ DEFAULT_THREAD_VARY \in Nat \ {0}
    /\ MaxTasks \in Nat
    /\ MayDestroy \in BOOLEAN
    /\ SpawnMayFail \in BOOLEAN

Slots == 0 .. max_thr_num - 1         \* indices of pool->threads
Cells == 0 .. queue_max_size - 1      \* indices of pool->task_queue
NoTask == 0

VARIABLES
    lock,               \* pool->lock: "free" or "held"
    shutdown,
    task_queue, queue_front, queue_rear, queue_size,
    live_thr_num, busy_thr_num, wait_exit_thr_num,
    pc,                 \* where the worker of each slot of pool->threads is
    task,               \* the local `task' of each worker
    cpc,                \* where each client is
    apc, adj, sigs,     \* the manager: where it is, its locals, signals to send
    dpc, di,            \* threadpool_destroy: where it is, its loop counter
    heap,               \* "live", "noarrays" (queue and threads freed), "freed"
    accepted,           \* history: tasks queued so far
    refused,            \* history: calls that returned 0 without queueing
    started,            \* history: tasks dequeued so far
    finished            \* history: tasks whose function has returned

queueVars   == <<task_queue, queue_front, queue_rear, queue_size>>
countVars   == <<live_thr_num, wait_exit_thr_num>>
workerVars  == <<pc, task, busy_thr_num>>
managerVars == <<apc, adj, sigs>>
destroyVars == <<dpc, di, heap, shutdown>>
historyVars == <<accepted, refused, started, finished>>
vars == <<lock, queueVars, countVars, workerVars, cpc, managerVars,
          destroyVars, historyVars>>

WorkerPcs == {"none",      \* threads[i] is 0: no thread was created in the slot
              "top",       \* about to lock the pool
              "toWait",    \* saw no task and no shutdown, about to wait
              "waiting",   \* blocked in pthread_cond_wait(queue_not_empty)
              "woken",     \* woken up, about to get pool->lock back
              "take",      \* saw a task and no shutdown, about to dequeue
              "taken",     \* has a task, not counted as busy yet
              "running",   \* counted as busy, runs the task
              "exiting",   \* unlocked, about to call pthread_exit
              "dead"}
ClientPcs == {"idle", "toWait", "waiting", "woken", "put"}
ManagerPcs == {"test", "sleep", "busy", "grow", "shrink", "signal", "dead"}
DestroyPcs == {"idle", "wake", "free", "done"}

WorkerHolds == {"toWait", "take"}
ClientHolds == {"toWait", "put"}
Busy  == {w \in Slots : pc[w] \in {"taken", "running"}}
Alive == {w \in Slots : pc[w] \notin {"none", "exiting", "dead"}}
-----------------------------------------------------------------------------
(* pthread condition variables.  A signal may wake any of the waiters.     *)

(* Variant: wake a worker only when the queue was empty.                   *)
SignalIfEmpty ==
    \/ /\ queue_size > 0 \/ \A w \in Slots : pc[w] # "waiting"
       /\ UNCHANGED pc
    \/ \E w \in Slots : /\ queue_size = 0 /\ pc[w] = "waiting"
                        /\ pc' = [pc EXCEPT ![w] = "woken"]

SignalNotEmpty ==
    \/ /\ \A w \in Slots : pc[w] # "waiting"
       /\ UNCHANGED pc
    \/ \E w \in Slots : /\ pc[w] = "waiting"
                        /\ pc' = [pc EXCEPT ![w] = "woken"]

BroadcastNotEmpty ==
    pc' = [w \in Slots |-> IF pc[w] = "waiting" THEN "woken" ELSE pc[w]]

(* Variant: wakes one client.                                              *)
SignalNotFull ==
    \/ /\ \A c \in Clients : cpc[c] # "waiting"
       /\ UNCHANGED cpc
    \/ \E c \in Clients : /\ cpc[c] = "waiting"
                          /\ cpc' = [cpc EXCEPT ![c] = "woken"]

BroadcastNotFull ==
    cpc' = [c \in Clients |-> IF cpc[c] = "waiting" THEN "woken" ELSE cpc[c]]
-----------------------------------------------------------------------------
(* The next index of the ring.  Variant: forgets to wrap around.           *)
AdvanceNoWrap(i) == i + 1

Advance(i) == (i + 1) % queue_max_size
-----------------------------------------------------------------------------
(* threadpool_create: the workers of the first min_thr_num slots and the   *)
(* manager.  The result of pthread_create is not looked at.                *)

Init ==
    /\ lock = "free" /\ shutdown = FALSE
    /\ task_queue = [i \in Cells |-> NoTask]
    /\ queue_front = 0 /\ queue_rear = 0 /\ queue_size = 0
    /\ live_thr_num = min_thr_num /\ busy_thr_num = 0 /\ wait_exit_thr_num = 0
    /\ \E failed \in SUBSET (0 .. min_thr_num - 1) :
          /\ failed # {} => SpawnMayFail
          /\ pc = [w \in Slots |-> IF w < min_thr_num /\ w \notin failed
                                   THEN "top" ELSE "none"]
    /\ task = [w \in Slots |-> NoTask]
    /\ cpc = [c \in Clients |-> "idle"]
    /\ apc = "test" /\ adj = [size |-> 0, live |-> 0, busy |-> 0] /\ sigs = 0
    /\ dpc = "idle" /\ di = 0 /\ heap = "live"
    /\ accepted = 0 /\ refused = 0 /\ started = 0 /\ finished = {}
-----------------------------------------------------------------------------
(* threadpool_add                                                          *)

(* With pool->lock just acquired: give up on shutdown, wait while the      *)
(* queue is full, or go and queue the task.                                *)
AddLocked(c) ==
    /\ lock = "free"
    /\ \/ /\ shutdown
          /\ refused' = refused + 1
          /\ cpc' = [cpc EXCEPT ![c] = "idle"]
          /\ BroadcastNotEmpty
          /\ UNCHANGED lock
       \/ /\ ~shutdown
          /\ lock' = "held"
          /\ cpc' = [cpc EXCEPT ![c] = IF queue_size = queue_max_size
                                       THEN "toWait" ELSE "put"]
          /\ UNCHANGED <<pc, refused>>
    /\ UNCHANGED <<queueVars, countVars, task, busy_thr_num, managerVars,
                   destroyVars, accepted, started, finished>>

AddCall(c) ==
    /\ cpc[c] = "idle"
    /\ accepted + refused < MaxTasks
    /\ AddLocked(c)

AddWait(c) ==
    /\ cpc[c] = "toWait"
    /\ cpc' = [cpc EXCEPT ![c] = "waiting"]
    /\ lock' = "free"
    /\ UNCHANGED <<queueVars, countVars, workerVars, managerVars, destroyVars,
                   historyVars>>

(* Variant: `if' instead of `while' around pthread_cond_wait.              *)
AddResumeIf(c) ==
    /\ cpc[c] = "woken" /\ lock = "free" /\ ~shutdown
    /\ lock' = "held"
    /\ cpc' = [cpc EXCEPT ![c] = "put"]
    /\ UNCHANGED <<queueVars, countVars, workerVars, managerVars, destroyVars,
                   historyVars>>

AddResume(c) == cpc[c] = "woken" /\ AddLocked(c)

AddPut(c) ==
    /\ cpc[c] = "put"
    /\ heap = "live"
    /\ task_queue' = [task_queue EXCEPT ![queue_rear] = accepted + 1]
    /\ queue_rear' = Advance(queue_rear)
    /\ queue_size' = queue_size + 1
    /\ accepted' = accepted + 1
    /\ SignalNotEmpty
    /\ lock' = "free"
    /\ cpc' = [cpc EXCEPT ![c] = "idle"]
    /\ UNCHANGED <<queue_front, countVars, task, busy_thr_num, managerVars,
                   destroyVars, refused, started, finished>>
-----------------------------------------------------------------------------
(* threadpool_thread                                                       *)

(* With pool->lock acquired: leave on shutdown, wait for a task, or go and *)
(* take one.  An `exiting' worker has released the lock.                   *)
Recheck(w) ==
    /\ pc' = [pc EXCEPT ![w] = IF shutdown THEN "exiting"
                               ELSE IF queue_size = 0 THEN "toWait" ELSE "take"]
    /\ lock' = IF shutdown THEN "free" ELSE "held"

(* Variant: `do ... while' instead of `while' around pthread_cond_wait.    *)
WorkerTestLate(w) ==
    /\ pc[w] = "top"
    /\ lock = "free" /\ lock' = "held"
    /\ pc' = [pc EXCEPT ![w] = "toWait"]
    /\ UNCHANGED <<queueVars, countVars, task, busy_thr_num, cpc, managerVars,
                   destroyVars, historyVars>>

WorkerTest(w) ==
    /\ pc[w] = "top"
    /\ lock = "free"
    /\ Recheck(w)
    /\ UNCHANGED <<queueVars, countVars, task, busy_thr_num, cpc, managerVars,
                   destroyVars, historyVars>>

WorkerWait(w) ==
    /\ pc[w] = "toWait"
    /\ pc' = [pc EXCEPT ![w] = "waiting"]
    /\ lock' = "free"
    /\ UNCHANGED <<queueVars, countVars, task, busy_thr_num, cpc, managerVars,
                   destroyVars, historyVars>>

(* Variant: retires without comparing live_thr_num with min_thr_num.       *)
WorkerWakeEager(w) ==
    /\ pc[w] = "woken"
    /\ lock = "free"
    /\ IF wait_exit_thr_num > 0
       THEN /\ wait_exit_thr_num' = wait_exit_thr_num - 1
            /\ live_thr_num' = live_thr_num - 1
            /\ pc' = [pc EXCEPT ![w] = "exiting"]
            /\ UNCHANGED lock
       ELSE UNCHANGED countVars /\ Recheck(w)
    /\ UNCHANGED <<queueVars, task, busy_thr_num, cpc, managerVars,
                   destroyVars, historyVars>>

(* Back from pthread_cond_wait the worker first answers a request to       *)
(* retire, whatever it was woken for.                                      *)
WorkerWake(w) ==
    /\ pc[w] = "woken"
    /\ lock = "free"
    /\ IF wait_exit_thr_num > 0 /\ live_thr_num > min_thr_num
       THEN /\ wait_exit_thr_num' = wait_exit_thr_num - 1
            /\ live_thr_num' = live_thr_num - 1
            /\ pc' = [pc EXCEPT ![w] = "exiting"]
            /\ UNCHANGED lock
       ELSE /\ wait_exit_thr_num' = IF wait_exit_thr_num > 0
                                    THEN wait_exit_thr_num - 1 ELSE 0
            /\ UNCHANGED live_thr_num
            /\ Recheck(w)
    /\ UNCHANGED <<queueVars, task, busy_thr_num, cpc, managerVars,
                   destroyVars, historyVars>>

WorkerTake(w) ==
    /\ pc[w] = "take"
    /\ heap = "live"
    /\ task' = [task EXCEPT ![w] = task_queue[queue_front]]
    /\ queue_front' = Advance(queue_front)
    /\ queue_size' = queue_size - 1
    /\ started' = started + 1
    /\ BroadcastNotFull
    /\ lock' = "free"
    /\ pc' = [pc EXCEPT ![w] = "taken"]
    /\ UNCHANGED <<task_queue, queue_rear, countVars, busy_thr_num, managerVars,
                   destroyVars, accepted, refused, finished>>

WorkerBegin(w) ==
    /\ pc[w] = "taken"
    /\ heap # "freed"
    /\ busy_thr_num' = busy_thr_num + 1
    /\ pc' = [pc EXCEPT ![w] = "running"]
    /\ UNCHANGED <<lock, queueVars, countVars, task, cpc, managerVars,
                   destroyVars, historyVars>>

(* Variant: forgets to count itself out of the busy threads.               *)
WorkerEndStillBusy(w) ==
    /\ pc[w] = "running"
    /\ heap # "freed"
    /\ finished' = finished \cup {task[w]}
    /\ task' = [task EXCEPT ![w] = NoTask]
    /\ pc' = [pc EXCEPT ![w] = "top"]
    /\ UNCHANGED <<lock, queueVars, countVars, busy_thr_num, cpc, managerVars,
                   destroyVars, accepted, refused, started>>

(* The task's function returns and the worker is no longer busy.           *)
WorkerEnd(w) ==
    /\ pc[w] = "running"
    /\ heap # "freed"
    /\ finished' = finished \cup {task[w]}
    /\ busy_thr_num' = busy_thr_num - 1
    /\ task' = [task EXCEPT ![w] = NoTask]
    /\ pc' = [pc EXCEPT ![w] = "top"]
    /\ UNCHANGED <<lock, queueVars, countVars, cpc, managerVars, destroyVars,
                   accepted, refused, started>>

WorkerExit(w) ==
    /\ pc[w] = "exiting"
    /\ pc' = [pc EXCEPT ![w] = "dead"]
    /\ UNCHANGED <<lock, queueVars, countVars, task, busy_thr_num, cpc,
                   managerVars, destroyVars, historyVars>>
-----------------------------------------------------------------------------
(* adjust_thread                                                           *)

ManagerTest ==
    /\ apc = "test"
    /\ heap # "freed"
    /\ apc' = IF shutdown THEN "dead" ELSE "sleep"
    /\ UNCHANGED <<lock, queueVars, countVars, workerVars, cpc, adj, sigs,
                   destroyVars, historyVars>>

(* sleep(DEFAULT_TIME) is over: look at the queue and at the live threads. *)
ManagerRead ==
    /\ apc = "sleep"
    /\ lock = "free"
    /\ adj' = [size |-> queue_size, live |-> live_thr_num, busy |-> 0]
    /\ apc' = "busy"
    /\ UNCHANGED <<lock, queueVars, countVars, workerVars, cpc, sigs,
                   destroyVars, historyVars>>

ManagerReadBusy ==
    /\ apc = "busy"
    /\ heap # "freed"
    /\ adj' = [size |-> adj.size, live |-> adj.live, busy |-> busy_thr_num]
    /\ apc' = "grow"
    /\ UNCHANGED <<lock, queueVars, countVars, workerVars, cpc, sigs,
                   destroyVars, historyVars>>

(* The loop over pool->threads creates a worker in each slot it finds free *)
(* until it has added DEFAULT_THREAD_VARY, the pool is full, or it is past *)
(* the last slot.  is_thread_alive asks pthread_kill about a thread that   *)
(* may be gone: detached or unjoined, its answer may be stale, so that any *)
(* subset of the dead slots may be found free.                             *)
SpawnSets ==
    UNION {{S \in SUBSET free :
              /\ \A s \in S, f \in free \ S : s < f
              /\ Cardinality(S) <= DEFAULT_THREAD_VARY
              /\ live_thr_num + Cardinality(S) <= max_thr_num
              /\ \/ S = free
                 \/ Cardinality(S) = DEFAULT_THREAD_VARY
                 \/ live_thr_num + Cardinality(S) = max_thr_num} :
           free \in {{w \in Slots : pc[w] = "none"} \cup dead :
                     dead \in SUBSET {w \in Slots : pc[w] = "dead"}}}

(* Variant: counts one new thread however many the loop created.           *)
ManagerGrowCountOne ==
    /\ apc = "grow"
    /\ apc' = "shrink"
    /\ IF adj.size >= MIN_WAIT_TASK_NUM /\ adj.live < max_thr_num
       THEN /\ lock = "free"
            /\ heap = "live"
            /\ \E S \in SpawnSets :
                  pc' = [w \in Slots |-> IF w \in S THEN "top" ELSE pc[w]]
            /\ live_thr_num' = live_thr_num + 1
       ELSE UNCHANGED <<pc, live_thr_num>>
    /\ UNCHANGED <<lock, queueVars, wait_exit_thr_num, task, busy_thr_num, cpc,
                   adj, sigs, destroyVars, historyVars>>

ManagerGrow ==
    /\ apc = "grow"
    /\ apc' = "shrink"
    /\ IF adj.size >= MIN_WAIT_TASK_NUM /\ adj.live < max_thr_num
       THEN /\ lock = "free"
            /\ heap = "live"
            /\ \E S \in SpawnSets : \E failed \in SUBSET S :
                  /\ failed # {} => SpawnMayFail
                  /\ pc' = [w \in Slots |-> IF w \in S \ failed THEN "top"
                                            ELSE pc[w]]
                  /\ live_thr_num' = live_thr_num + Cardinality(S)
       ELSE UNCHANGED <<pc, live_thr_num>>
    /\ UNCHANGED <<lock, queueVars, wait_exit_thr_num, task, busy_thr_num, cpc,
                   adj, sigs, destroyVars, historyVars>>

(* Variant: asks threads to retire and wakes none of them.                 *)
ManagerShrinkSilent ==
    /\ apc = "shrink"
    /\ \/ adj.busy * 2 >= adj.live \/ adj.live = min_thr_num \/ lock = "free"
    /\ wait_exit_thr_num' = IF adj.busy * 2 < adj.live /\ adj.live > min_thr_num
                            THEN DEFAULT_THREAD_VARY ELSE wait_exit_thr_num
    /\ apc' = "test"
    /\ UNCHANGED <<lock, queueVars, live_thr_num, workerVars, cpc, adj, sigs,
                   destroyVars, historyVars>>

ManagerShrink ==
    /\ apc = "shrink"
    /\ IF adj.busy * 2 < adj.live /\ adj.live > min_thr_num
       THEN /\ lock = "free"
            /\ wait_exit_thr_num' = DEFAULT_THREAD_VARY
            /\ sigs' = DEFAULT_THREAD_VARY
            /\ apc' = "signal"
       ELSE /\ apc' = "test"
            /\ UNCHANGED <<wait_exit_thr_num, sigs>>
    /\ UNCHANGED <<lock, queueVars, live_thr_num, workerVars, cpc, adj,
                   destroyVars, historyVars>>

ManagerSignal ==
    /\ apc = "signal"
    /\ heap # "freed"
    /\ SignalNotEmpty
    /\ sigs' = sigs - 1
    /\ apc' = IF sigs = 1 THEN "test" ELSE "signal"
    /\ UNCHANGED <<lock, queueVars, countVars, task, busy_thr_num, cpc, adj,
                   destroyVars, historyVars>>
-----------------------------------------------------------------------------
(* threadpool_destroy and threadpool_free.  The program calls it once.     *)

DestroyCall ==
    /\ MayDestroy
    /\ dpc = "idle"
    /\ shutdown' = TRUE
    /\ di' = 0
    /\ dpc' = "wake"
    /\ UNCHANGED <<lock, queueVars, countVars, workerVars, cpc, managerVars,
                   heap, historyVars>>

(* The broadcast loop, run without pool->lock, and then the two arrays.    *)
DestroyWake ==
    /\ dpc = "wake"
    /\ IF di < live_thr_num
       THEN BroadcastNotEmpty /\ di' = di + 1 /\ UNCHANGED <<dpc, heap>>
       ELSE dpc' = "free" /\ heap' = "noarrays" /\ UNCHANGED <<pc, di>>
    /\ UNCHANGED <<lock, queueVars, countVars, task, busy_thr_num, cpc,
                   managerVars, shutdown, historyVars>>

(* Lock both mutexes, destroy them and the condition variables while they  *)
(* are locked, free the pool: nobody gets pool->lock any more.             *)
DestroyFree ==
    /\ dpc = "free"
    /\ lock = "free"
    /\ lock' = "held"
    /\ heap' = "freed"
    /\ dpc' = "done"
    /\ UNCHANGED <<queueVars, countVars, workerVars, cpc, managerVars,
                   shutdown, di, historyVars>>
-----------------------------------------------------------------------------
(* POSIX lets pthread_cond_wait return without a signal.                   *)
SpuriousWakeup ==
    /\ \/ /\ \E w \in Slots : /\ pc[w] = "waiting"
                              /\ pc' = [pc EXCEPT ![w] = "woken"]
          /\ UNCHANGED cpc
       \/ /\ \E c \in Clients : /\ cpc[c] = "waiting"
                                /\ cpc' = [cpc EXCEPT ![c] = "woken"]
          /\ UNCHANGED pc
    /\ UNCHANGED <<lock, queueVars, countVars, task, busy_thr_num, managerVars,
                   destroyVars, historyVars>>

Client(c) == AddCall(c) \/ AddWait(c) \/ AddResume(c) \/ AddPut(c)
Worker(w) == \/ WorkerTest(w) \/ WorkerWait(w) \/ WorkerWake(w) \/ WorkerTake(w)
             \/ WorkerBegin(w) \/ WorkerEnd(w) \/ WorkerExit(w)
Manager == \/ ManagerTest \/ ManagerRead \/ ManagerReadBusy \/ ManagerGrow
           \/ ManagerShrink \/ ManagerSignal
Destroy == DestroyCall \/ DestroyWake \/ DestroyFree

Next == \/ \E c \in Clients : Client(c)
        \/ \E w \in Slots : Worker(w)
        \/ Manager
        \/ Destroy
        \/ SpuriousWakeup

Spec == Init /\ [][Next]_vars

(* Threads that can run are scheduled, tasks return, and a call that has   *)
(* begun goes on; nobody has to call threadpool_add or _destroy.  A mutex  *)
(* need not be fair: weak fairness is enough, as long as pthread_cond_wait *)
(* does not return without a signal for ever.                              *)
Fairness ==
    /\ \A w \in Slots : WF_vars(Worker(w))
    /\ \A c \in Clients : WF_vars(AddWait(c) \/ AddResume(c) \/ AddPut(c))
    /\ WF_vars(Manager)
    /\ <>[][~SpuriousWakeup]_vars

FairSpec == Spec /\ Fairness
-----------------------------------------------------------------------------
(* Every variable keeps its type; the ring's indices stay in the ring and  *)
(* its size within the memory threadpool_create allocated.                 *)
TypeOK ==
    /\ lock \in {"free", "held"} /\ shutdown \in BOOLEAN
    /\ task_queue \in [Cells -> Nat]
    /\ queue_front \in Cells /\ queue_rear \in Cells
    /\ queue_size \in 0 .. queue_max_size
    /\ live_thr_num \in Nat /\ busy_thr_num \in Int /\ wait_exit_thr_num \in Nat
    /\ pc \in [Slots -> WorkerPcs] /\ task \in [Slots -> Nat]
    /\ cpc \in [Clients -> ClientPcs]
    /\ apc \in ManagerPcs /\ sigs \in 0 .. DEFAULT_THREAD_VARY
    /\ adj \in [size : Nat, live : Nat, busy : Int]
    /\ dpc \in DestroyPcs /\ di \in Nat /\ heap \in {"live", "noarrays", "freed"}
    /\ accepted \in Nat /\ refused \in Nat /\ started \in Nat
    /\ finished \subseteq Nat

(* Whatever the order in which clients, workers, the manager and destroy   *)
(* run, the pool hands every accepted task to one worker, in the order in  *)
(* which the tasks were accepted, and never holds more than it has room    *)
(* for: it implements the pool of tasks of TaskPool.                       *)
Abstract == INSTANCE TaskPool WITH Capacity <- queue_max_size,
                                   Threads  <- Slots,
                                   holding  <- task
ImplementsTaskPool == Abstract!Spec

(* The manager and the retiring workers keep the live_thr_num of line 38   *)
(* between the two bounds of threadpool_create, in spite of the stale      *)
(* snapshot the manager decides on and of retirement requests nobody took. *)
LiveBounds == min_thr_num <= live_thr_num /\ live_thr_num <= max_thr_num

(* Line 38: live_thr_num is "the number of threads alive at present".      *)
LiveIsAlive == ~shutdown => live_thr_num = Cardinality(Alive)

(* It is, although three kinds of threads adjust it, as long as every      *)
(* pthread_create succeeds and nobody destroys the pool.                   *)
LiveCount == ~SpawnMayFail => LiveIsAlive

(* The busy and the live threads the manager compares at line 287 are read *)
(* under two different mutexes, one after the other: still it never sees   *)
(* more busy threads than live ones.                                       *)
SnapshotSane ==
    apc \in {"grow", "shrink"} /\ ~SpawnMayFail /\ ~shutdown
        => adj.busy <= adj.live

(* In a pool of fixed size no task waits in vain: while a worker sleeps in *)
(* line 186, every queued task has a worker of its own that is on its way  *)
(* to the queue (woken, or about to lock the pool).                        *)
Ready == {w \in Slots : pc[w] \in {"top", "woken", "take"}}
NoIdleWorker ==
    min_thr_num = max_thr_num /\ ~shutdown /\ (\E w \in Slots : pc[w] = "waiting")
        => queue_size <= Cardinality(Ready)

(* A client sleeps in line 141 only while the queue is full, however many  *)
(* clients wait and however many tasks are taken before they wake up.      *)
NoIdleClient ==
    (\E c \in Clients : cpc[c] = "waiting") => queue_size = queue_max_size

(* Every accepted task is eventually run to its end, whatever the          *)
(* interleaving: its wake-up (line 164) is not lost.                       *)
TasksFinish ==
    \A n \in 1 .. MaxTasks : accepted >= n ~> n \in finished

(* Every call of threadpool_add returns, those that wait for room included.*)
CallsReturn == \A c \in Clients : []<>(cpc[c] = "idle")

(* Neither tasks nor callers are left behind.                              *)
NothingStuck == TasksFinish /\ CallsReturn

(* When the clients stop calling, the manager takes the pool back to       *)
(* min_thr_num threads (lines 286-299), and there it stays, although the   *)
(* signals of a round may find no worker asleep.                           *)
ShrinksToMin == <>[](shutdown \/ live_thr_num = min_thr_num)
-----------------------------------------------------------------------------
(* pthreadpool.h:28: threadpool_destroy "stops" the pool.  Its threads are *)
(* detached and never joined, and still use the pool after free(pool).     *)
DestroyStops == dpc = "done" => Alive = {} /\ apc = "dead"
=============================================================================
