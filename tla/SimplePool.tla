----------------------------- MODULE SimplePool -----------------------------
(***************************************************************************)
(* The thread pool of fixed size of thread/threadpoolsimple.c.  Clients    *)
(* put tasks in a ring buffer whose two counters never stop growing,       *)
(* thr_num workers take and run them, destroy_threadpool ends the pool.    *)
(*                                                                         *)
(* Steps.  A critical section of pool_lock is one step, with one           *)
(* exception: a worker holds the lock from its test of `shutdown' to its   *)
(* pthread_cond_wait (pc "toWait"), because destroy_threadpool writes      *)
(* `shutdown' and broadcasts without the lock.  addtask signals after it   *)
(* has released the lock (cpc "signal").                                   *)
(*                                                                         *)
(* Task n is the one addtask stored when job_push was n - 1.               *)
(***************************************************************************)
EXTENDS Integers, FiniteSets

CONSTANTS
    Clients,      \* the threads that call addtask
    thr_num,      \* the arguments of create_threadpool
    max_job_num,
    MaxTasks,     \* bound: no call of addtask begins after that many tasks
    MayDestroy    \* does the program call destroy_threadpool?

ASSUME SimplePoolAssumption ==
    /\ IsFiniteSet(Clients)
    /\ thr_num \in Nat \ {0}
    /\ max_job_num \in Nat \ {0}
    /\ MaxTasks \in Nat
    /\ MayDestroy \in BOOLEAN

Threads == 0 .. thr_num - 1
Cells == 0 .. max_job_num - 1

VARIABLES
    tasks, job_num, job_push, job_pop,   \* the queue
    shutdown,
    pc,      \* where each worker is
    task,    \* the copy of a task each worker made for itself, 0 if done
    cpc,     \* where each client is
    dpc,     \* where destroy_threadpool is: "idle", "kill", "join", "done"
    finished \* history: the tasks whose function has returned

queueVars == <<tasks, job_num, job_push, job_pop>>
vars == <<queueVars, shutdown, pc, task, cpc, dpc, finished>>

WorkerPcs == {"top", "toWait", "waiting", "woken", "running", "dead"}
ClientPcs == {"idle", "waiting", "woken", "signal"}

(* pool_lock can be taken and is still there.                              *)
LockFree == dpc # "done" /\ \A w \in Threads : pc[w] # "toWait"
-----------------------------------------------------------------------------
(* Variant: copies the task with the wrong end's counter.                  *)
PopCellWrong == job_push % max_job_num

PopCell == job_pop % max_job_num
PushCell == job_push % max_job_num

(* pthread_cond_signal(empty_task) and (not_empty_task).  Variants: nobody *)
(* is told that there is room; a signal that fires only on an idle queue.  *)
KeepClients == UNCHANGED cpc

WakeClient ==
    \/ (\A c \in Clients : cpc[c] # "waiting") /\ UNCHANGED cpc
    \/ \E c \in Clients : /\ cpc[c] = "waiting"
                          /\ cpc' = [cpc EXCEPT ![c] = "woken"]

WakeWorkerIfAlone ==
    \/ /\ job_num # 1 \/ \A w \in Threads : pc[w] # "waiting"
       /\ UNCHANGED pc
    \/ \E w \in Threads : /\ job_num = 1 /\ pc[w] = "waiting"
                          /\ pc' = [pc EXCEPT ![w] = "woken"]

WakeWorker ==
    \/ (\A w \in Threads : pc[w] # "waiting") /\ UNCHANGED pc
    \/ \E w \in Threads : /\ pc[w] = "waiting"
                          /\ pc' = [pc EXCEPT ![w] = "woken"]
-----------------------------------------------------------------------------
(* create_threadpool                                                       *)
Init ==
    /\ tasks = [i \in Cells |-> 0]
    /\ job_num = 0 /\ job_push = 0 /\ job_pop = 0
    /\ shutdown = FALSE
    /\ pc = [w \in Threads |-> "top"]
    /\ task = [w \in Threads |-> 0]
    /\ cpc = [c \in Clients |-> "idle"]
    /\ dpc = "idle"
    /\ finished = {}
-----------------------------------------------------------------------------
(* addtask, with pool_lock just acquired: wait while the queue is full, or *)
(* store the task and release the lock.                                    *)
Put(c) ==
    /\ LockFree
    /\ IF max_job_num <= job_num
       THEN /\ cpc' = [cpc EXCEPT ![c] = "waiting"]
            /\ UNCHANGED queueVars
       ELSE /\ tasks' = [tasks EXCEPT ![PushCell] = job_push + 1]
            /\ job_push' = job_push + 1
            /\ job_num' = job_num + 1
            /\ cpc' = [cpc EXCEPT ![c] = "signal"]
            /\ UNCHANGED job_pop
    /\ UNCHANGED <<shutdown, pc, task, dpc, finished>>

AddCall(c) == cpc[c] = "idle" /\ job_push < MaxTasks /\ Put(c)
AddResume(c) == cpc[c] = "woken" /\ Put(c)

AddSignal(c) ==
    /\ cpc[c] = "signal"
    /\ dpc # "done"
    /\ cpc' = [cpc EXCEPT ![c] = "idle"]
    /\ WakeWorker
    /\ UNCHANGED <<queueVars, shutdown, task, dpc, finished>>
-----------------------------------------------------------------------------
(* thrRun                                                                  *)

(* With pool_lock acquired: wait if there is nothing to do and no shutdown,*)
(* else take a task if there is one, and run it unless the pool is shut    *)
(* down: then the worker ends, the task it has just taken with it.         *)
Serve(w) ==
    /\ LockFree
    /\ IF job_num = 0
       THEN /\ pc' = [pc EXCEPT ![w] = IF shutdown THEN "dead" ELSE "toWait"]
            /\ UNCHANGED <<queueVars, task, cpc>>
       ELSE /\ task' = [task EXCEPT ![w] = tasks[PopCell]]
            /\ job_pop' = job_pop + 1
            /\ job_num' = job_num - 1
            /\ WakeClient
            /\ pc' = [pc EXCEPT ![w] = IF shutdown THEN "dead" ELSE "running"]
            /\ UNCHANGED <<tasks, job_push>>
    /\ UNCHANGED <<shutdown, dpc, finished>>

WorkerTop(w) == pc[w] = "top" /\ Serve(w)
WorkerWake(w) == pc[w] = "woken" /\ Serve(w)

WorkerWait(w) ==
    /\ pc[w] = "toWait"
    /\ dpc # "done"
    /\ pc' = [pc EXCEPT ![w] = "waiting"]
    /\ UNCHANGED <<queueVars, shutdown, task, cpc, dpc, finished>>

(* taskRun returns.  Variant: the worker goes to sleep without looking at  *)
(* the queue, as if every task came with a signal for it.                  *)
WorkerRunThenSleep(w) ==
    /\ pc[w] = "running"
    /\ finished' = finished \cup {task[w]}
    /\ task' = [task EXCEPT ![w] = 0]
    /\ pc' = [pc EXCEPT ![w] = "waiting"]
    /\ UNCHANGED <<queueVars, shutdown, cpc, dpc>>

WorkerRun(w) ==
    /\ pc[w] = "running"
    /\ finished' = finished \cup {task[w]}
    /\ task' = [task EXCEPT ![w] = 0]
    /\ pc' = [pc EXCEPT ![w] = "top"]
    /\ UNCHANGED <<queueVars, shutdown, cpc, dpc>>
-----------------------------------------------------------------------------
(* destroy_threadpool                                                      *)

DestroyCall ==
    /\ MayDestroy
    /\ dpc = "idle"
    /\ shutdown' = TRUE
    /\ dpc' = "kill"
    /\ UNCHANGED <<queueVars, pc, task, cpc, finished>>

DestroyBroadcast ==
    /\ dpc = "kill"
    /\ pc' = [w \in Threads |-> IF pc[w] = "waiting" THEN "woken" ELSE pc[w]]
    /\ dpc' = "join"
    /\ UNCHANGED <<queueVars, shutdown, task, cpc, finished>>

(* pthread_join of a detached thread fails at once (EINVAL), its result is *)
(* not looked at: the pool is destroyed and freed whoever still uses it.   *)
DestroyFree ==
    /\ dpc = "join"
    /\ dpc' = "done"
    /\ UNCHANGED <<queueVars, shutdown, pc, task, cpc, finished>>

(* POSIX lets pthread_cond_wait return without a signal.                   *)
SpuriousWakeup ==
    /\ dpc # "done"
    /\ \/ /\ \E w \in Threads : /\ pc[w] = "waiting"
                                /\ pc' = [pc EXCEPT ![w] = "woken"]
          /\ UNCHANGED cpc
       \/ /\ \E c \in Clients : /\ cpc[c] = "waiting"
                                /\ cpc' = [cpc EXCEPT ![c] = "woken"]
          /\ UNCHANGED pc
    /\ UNCHANGED <<queueVars, shutdown, task, dpc, finished>>

Worker(w) == WorkerTop(w) \/ WorkerWait(w) \/ WorkerWake(w) \/ WorkerRun(w)
Client(c) == AddCall(c) \/ AddResume(c) \/ AddSignal(c)
Destroy == DestroyCall \/ DestroyBroadcast \/ DestroyFree

Next == \/ \E w \in Threads : Worker(w)
        \/ \E c \in Clients : Client(c)
        \/ Destroy
        \/ SpuriousWakeup

Spec == Init /\ [][Next]_vars

(* Threads that can run are scheduled, tasks return, a call that has begun *)
(* goes on, and pthread_cond_wait does not for ever return without a       *)
(* signal.                                                                 *)
Fairness ==
    /\ \A w \in Threads : WF_vars(Worker(w))
    /\ \A c \in Clients : WF_vars(AddResume(c) \/ AddSignal(c))
    /\ <>[][~SpuriousWakeup]_vars

FairSpec == Spec /\ Fairness
-----------------------------------------------------------------------------
(* Every variable keeps its type; job_num stays within the ring.           *)
TypeOK ==
    /\ tasks \in [Cells -> Nat]
    /\ job_num \in 0 .. max_job_num
    /\ job_push \in Nat /\ job_pop \in Nat
    /\ shutdown \in BOOLEAN
    /\ pc \in [Threads -> WorkerPcs] /\ task \in [Threads -> Nat]
    /\ cpc \in [Clients -> ClientPcs]
    /\ dpc \in {"idle", "kill", "join", "done"}
    /\ finished \subseteq Nat

(* The two counters that index the ring modulo its size (lines 30 and 122) *)
(* and job_num, kept apart from them, make a bounded FIFO queue: every     *)
(* task goes to one worker, in order.  A worker that dies at a shutdown    *)
(* keeps the task it took, for ever unfinished.                            *)
Abstract == INSTANCE TaskPool WITH Capacity <- max_job_num,
                                   Threads  <- Threads,
                                   accepted <- job_push,
                                   started  <- job_pop,
                                   holding  <- task
ImplementsTaskPool == Abstract!Spec

(* addtask signals after it has released the lock, so that the queue fills *)
(* up ahead of the signals.  Still, while a worker sleeps every queued     *)
(* task has a worker that is about to look at the queue, or a signal that  *)
(* a client is about to send.                                              *)
ReadyWorkers == {w \in Threads : pc[w] \in {"top", "woken"}}
Signalling == {c \in Clients : cpc[c] = "signal"}
NoIdleWorker ==
    ~shutdown /\ (\E w \in Threads : pc[w] = "waiting")
        => job_num <= Cardinality(ReadyWorkers) + Cardinality(Signalling)

(* A worker wakes one client for each task it takes (line 37), whoever got *)
(* the room in the meantime: a client sleeps only while every free place   *)
(* of the queue has a woken client coming for it.                          *)
WokenClients == {c \in Clients : cpc[c] = "woken"}
NoIdleClient ==
    (\E c \in Clients : cpc[c] = "waiting")
        => max_job_num - job_num <= Cardinality(WokenClients)

(* As long as nobody destroys the pool, every task that entered the queue  *)
(* is run and every call of addtask returns.                               *)
TasksFinish == \A n \in 1 .. MaxTasks : job_push >= n ~> n \in finished \/ shutdown
CallsReturn == \A c \in Clients : []<>(cpc[c] = "idle" \/ shutdown)
NothingStuck == TasksFinish /\ CallsReturn

(* Line 93: the broadcast lures all the sleeping workers to their end.  It *)
(* is sent without the lock, and one that has just tested `shutdown' and   *)
(* is about to wait sleeps on.                                             *)
DestroyWakesAll ==
    dpc \in {"join", "done"} => \A w \in Threads : pc[w] # "waiting"
=============================================================================
