-------------------------- MODULE SimplePoolProofs --------------------------
(***************************************************************************)
(* What is proved of SimplePool, for any number of clients and threads and *)
(* any queue size.                                                         *)
(***************************************************************************)
EXTENDS SimplePool, FiniteSetTheorems, TLAPS

(* Two numbers less than N apart lie in different cells of a ring of N.    *)
LEMMA DistinctCells ==
    ASSUME NEW N \in Nat \ {0}, NEW a \in Nat, NEW b \in Nat, a < b, b - a < N
    PROVE  a % N # b % N
<1> SUFFICES ASSUME a % N = b % N PROVE FALSE
  OBVIOUS
<1> DEFINE q == a \div N
           r == b \div N
<1>1. /\ a = N * q + (a % N) /\ b = N * r + (b % N) /\ q \in Int /\ r \in Int
      /\ a % N \in 0 .. N - 1
  BY SMT
<1> HIDE DEF q, r
<1>2. b - a = N * (r - q)
  BY <1>1, SMT
<1>3. CASE r - q <= 0
  BY <1>1, <1>2, <1>3, SMT
<1>4. CASE r - q >= 1
  BY <1>1, <1>2, <1>4, SMT
<1> QED
  BY <1>1, <1>3, <1>4, SMT

(* The two cells in use are cells of the ring.                             *)
LEMMA CellsOK ==
    ASSUME job_push \in Nat, job_pop \in Nat
    PROVE  PushCell \in Cells /\ PopCell \in Cells
BY SimplePoolAssumption, SMT DEF PushCell, PopCell, Cells

(* The tasks job_pop + 1 .. job_push lie in the ring, each in its cell;    *)
(* nothing is queued while a worker is about to wait; and a worker holds a *)
(* task from Serve to the end of WorkerRun.                                *)
QueueInv ==
    /\ job_push = job_pop + job_num
    /\ \A n \in Nat : job_pop <= n /\ n < job_push
                        => tasks[n % max_job_num] = n + 1

HoldInv ==
    \A w \in Threads :
        /\ pc[w] = "toWait" => job_num = 0
        /\ pc[w] = "running" => task[w] # 0
        /\ pc[w] \in {"top", "toWait", "waiting", "woken"} => task[w] = 0

BaseInv == TypeOK /\ QueueInv /\ HoldInv

(* The steps outside the critical sections that touch the queue.           *)
Quiet == UNCHANGED <<queueVars, task, finished>>

LEMMA StepKinds ==
    ASSUME [Next]_vars
    PROVE  \/ Quiet
           \/ \E c \in Clients : Put(c)
           \/ \E w \in Threads : \/ pc[w] \in {"top", "woken"} /\ Serve(w)
                                 \/ WorkerRun(w)
BY Zenon DEF Next, Worker, Client, Destroy, AddCall, AddResume, AddSignal, WorkerTop,
   WorkerWake, WorkerWait, DestroyCall, DestroyBroadcast, DestroyFree,
   SpuriousWakeup, Quiet, vars

LEMMA PutKeepsBase ==
    ASSUME BaseInv, NEW c \in Clients, Put(c)
    PROVE  BaseInv'
<1>0. TypeOK /\ QueueInv /\ HoldInv
  BY DEF BaseInv
<1>1. CASE max_job_num <= job_num
  BY <1>0, <1>1, SMT DEF Put, BaseInv, TypeOK, QueueInv, HoldInv, ClientPcs, queueVars
<1>2. CASE ~(max_job_num <= job_num)
  <2>1. /\ tasks' = [tasks EXCEPT ![PushCell] = job_push + 1]
        /\ job_push' = job_push + 1 /\ job_num' = job_num + 1
        /\ cpc' = [cpc EXCEPT ![c] = "signal"]
        /\ UNCHANGED <<job_pop, shutdown, pc, task, dpc, finished>>
        /\ \A w \in Threads : pc[w] # "toWait"
    BY <1>2 DEF Put, LockFree
  <2>2. job_num < max_job_num /\ job_num \in Nat /\ job_push \in Nat /\ job_pop \in Nat
    BY <1>0, <1>2, SimplePoolAssumption, SMT DEF TypeOK
  <2>3. TypeOK'
    BY <1>0, <2>1, <2>2, CellsOK, SimplePoolAssumption, SMT DEF TypeOK, ClientPcs
  <2>4. HoldInv'
    BY <1>0, <2>1 DEF HoldInv
  <2>5. ASSUME NEW n \in Nat, job_pop <= n, n < job_push + 1
        PROVE  tasks'[n % max_job_num] = n + 1
    <3>1. PushCell \in Cells /\ PushCell = job_push % max_job_num
      BY <2>2, CellsOK DEF PushCell
    <3>2. CASE n = job_push
      BY <1>0, <2>1, <3>1, <3>2 DEF TypeOK
    <3>3. CASE n < job_push
      <4>1. job_push - n < max_job_num
        BY <1>0, <2>2, <2>5, SimplePoolAssumption, SMT DEF QueueInv
      <4>2. n % max_job_num # PushCell
        BY <2>2, <3>1, <3>3, <4>1, DistinctCells, SimplePoolAssumption
      <4>3. n % max_job_num \in Cells
        BY SimplePoolAssumption, SMT DEF Cells
      <4>4. tasks[n % max_job_num] = n + 1
        BY <1>0, <2>5, <3>3 DEF QueueInv
      <4> QED
        BY <1>0, <2>1, <4>2, <4>3, <4>4 DEF TypeOK
    <3> QED
      BY <2>2, <2>5, <3>2, <3>3, SMT
  <2>6. job_push' = job_pop' + job_num'
    BY <1>0, <2>1, <2>2, SMT DEF QueueInv
  <2> QED
    BY <2>1, <2>3, <2>4, <2>5, <2>6 DEF BaseInv, QueueInv
<1> QED
  BY <1>1, <1>2

(* What a worker that finds a task does: it takes task job_pop + 1.        *)
LEMMA ServeTakes ==
    ASSUME BaseInv, NEW w \in Threads, Serve(w), job_num # 0
    PROVE  /\ task' = [task EXCEPT ![w] = job_pop + 1]
           /\ job_pop' = job_pop + 1 /\ job_num' = job_num - 1
           /\ job_pop < job_push /\ job_num > 0
           /\ WakeClient
           /\ pc' = [pc EXCEPT ![w] = IF shutdown THEN "dead" ELSE "running"]
           /\ UNCHANGED <<tasks, job_push, shutdown, dpc, finished>>
           /\ \A v \in Threads : pc[v] # "toWait"
<1>1. job_pop \in Nat /\ job_push \in Nat /\ job_num \in Nat
  BY SimplePoolAssumption, SMT DEF BaseInv, TypeOK
<1>2. job_pop < job_push /\ job_num > 0
  BY <1>1, SMT DEF BaseInv, QueueInv
<1>3. tasks[PopCell] = job_pop + 1
  BY <1>1, <1>2, SMT DEF BaseInv, QueueInv, PopCell
<1> QED
  BY <1>2, <1>3 DEF Serve, LockFree

LEMMA BaseInvStep == BaseInv /\ [Next]_vars => BaseInv'
<1> SUFFICES ASSUME BaseInv, [Next]_vars PROVE BaseInv'
  OBVIOUS
<1>0. TypeOK /\ QueueInv /\ HoldInv /\ job_num \in Nat /\ job_pop \in Nat
      /\ job_push \in Nat
  BY SimplePoolAssumption, SMT DEF BaseInv, TypeOK
<1> USE DEF WorkerPcs, ClientPcs
<1>1. CASE \/ \E c \in Clients : AddSignal(c)
           \/ \E w \in Threads : WorkerWait(w)
           \/ Destroy \/ SpuriousWakeup \/ UNCHANGED vars
  <2>1. /\ UNCHANGED <<queueVars, task, finished>>
        /\ pc' \in [Threads -> WorkerPcs] /\ cpc' \in [Clients -> ClientPcs]
        /\ shutdown' \in BOOLEAN /\ dpc' \in {"idle", "kill", "join", "done"}
    <3>1. ASSUME NEW c \in Clients, AddSignal(c) PROVE <2>1!:
      BY <1>0, <3>1, SMT DEF AddSignal, WakeWorker, TypeOK
    <3>2. ASSUME NEW w \in Threads, WorkerWait(w) PROVE <2>1!:
      BY <1>0, <3>2, SMT DEF WorkerWait, TypeOK
    <3>3. CASE Destroy
      <4>1. CASE DestroyBroadcast
        BY <1>0, <4>1, SMT DEF DestroyBroadcast, TypeOK
      <4>2. CASE DestroyCall \/ DestroyFree
        BY <1>0, <4>2 DEF DestroyCall, DestroyFree, TypeOK
      <4> QED
        BY <3>3, <4>1, <4>2 DEF Destroy
    <3>4. CASE SpuriousWakeup \/ UNCHANGED vars
      BY <1>0, <3>4, SMT DEF SpuriousWakeup, vars, TypeOK
    <3> QED
      BY <1>1, <3>1, <3>2, <3>3, <3>4
  <2>2. TypeOK' /\ QueueInv'
    BY <1>0, <2>1 DEF TypeOK, QueueInv, queueVars
  <2>3. \A w \in Threads : \/ pc'[w] = pc[w]
                           \/ /\ pc[w] \in {"toWait", "waiting"}
                              /\ pc'[w] \in {"waiting", "woken"}
    BY <1>0, <1>1, SMT DEF AddSignal, WakeWorker, WorkerWait, Destroy, DestroyCall,
       DestroyBroadcast, DestroyFree, SpuriousWakeup, vars, TypeOK
  <2>4. HoldInv'
    BY <1>0, <2>1, <2>3, SMT DEF HoldInv, queueVars
  <2> QED
    BY <2>2, <2>4 DEF BaseInv
<1>2. ASSUME NEW c \in Clients, Put(c) PROVE BaseInv'
  BY <1>2, PutKeepsBase
<1>3. ASSUME NEW w \in Threads, pc[w] \in {"top", "woken"}, Serve(w) PROVE BaseInv'
  <2>1. CASE job_num = 0
    BY <1>0, <1>3, <2>1, SMTT(30)
       DEF Serve, LockFree, queueVars, BaseInv, TypeOK, QueueInv, HoldInv
  <2>2. CASE job_num # 0
    <3>1. TypeOK'
      <4>1. cpc' \in [Clients -> ClientPcs]
        BY <1>0, <1>3, <2>2, ServeTakes, SMT DEF TypeOK, WakeClient
      <4>2. /\ task' \in [Threads -> Nat] /\ pc' \in [Threads -> WorkerPcs]
            /\ job_num' \in 0 .. max_job_num /\ job_pop' \in Nat
        BY <1>0, <1>3, <2>2, ServeTakes, SimplePoolAssumption, SMT DEF TypeOK
      <4> QED
        BY <1>0, <1>3, <2>2, <4>1, <4>2, ServeTakes DEF TypeOK
    <3>2. HoldInv'
      BY <1>0, <1>3, <2>2, ServeTakes, SMTT(30) DEF TypeOK, HoldInv
    <3>3. QueueInv'
      BY <1>0, <1>3, <2>2, ServeTakes, SMTT(30) DEF QueueInv
    <3> QED
      BY <3>1, <3>2, <3>3 DEF BaseInv
  <2> QED
    BY <2>1, <2>2
<1>4. ASSUME NEW w \in Threads, WorkerRun(w) PROVE BaseInv'
  <2>1. finished' \subseteq Nat
    <3>1. task[w] \in Nat /\ finished \subseteq Nat
      BY <1>0 DEF TypeOK
    <3> QED
      BY <1>4, <3>1, Zenon DEF WorkerRun
  <2>2. TypeOK'
    BY <1>0, <1>4, <2>1, SMTT(30) DEF WorkerRun, TypeOK, queueVars
  <2>3. HoldInv' /\ QueueInv'
    BY <1>0, <1>4, SMTT(30) DEF WorkerRun, TypeOK, HoldInv, QueueInv, queueVars
  <2> QED
    BY <2>2, <2>3 DEF BaseInv
<1> QED
  BY <1>1, <1>2, <1>3, <1>4, Zenon
     DEF Next, Worker, Client, AddCall, AddResume, WorkerTop, WorkerWake

LEMMA BaseInvInit == Init => BaseInv
<1> SUFFICES ASSUME Init PROVE BaseInv
  OBVIOUS
<1>1. /\ tasks \in [Cells -> Nat] /\ pc \in [Threads -> WorkerPcs]
      /\ task \in [Threads -> Nat] /\ cpc \in [Clients -> ClientPcs]
  BY SMT DEF Init, WorkerPcs, ClientPcs
<1>2. finished \subseteq Nat /\ shutdown \in BOOLEAN
  BY DEF Init
<1>3. TypeOK
  BY <1>1, <1>2, SimplePoolAssumption, SMT DEF Init, TypeOK
<1>4. QueueInv /\ HoldInv
  BY SMT DEF Init, QueueInv, HoldInv
<1> QED
  BY <1>3, <1>4 DEF BaseInv

LEMMA BaseInvariant == Spec => []BaseInv
BY BaseInvInit, BaseInvStep, PTL DEF Spec

(* The variables keep their types; job_num never exceeds max_job_num.      *)
THEOREM TypeCorrect == Spec => []TypeOK
<1>1. BaseInv => TypeOK
  BY DEF BaseInv
<1> QED
  BY <1>1, BaseInvariant, PTL

(* threadpoolsimple.c implements the pool of TaskPool: addtask accepts a   *)
(* task, thrRun starts the oldest one and taskRun finishes it.             *)
THEOREM Implements == Spec => ImplementsTaskPool
<1>1. Init => Abstract!Init
  BY DEF Init, Abstract!Init
<1>2. BaseInv /\ [Next]_vars => [Abstract!Next]_(Abstract!poolVars)
  <2> SUFFICES ASSUME BaseInv, [Next]_vars
               PROVE  Abstract!Next \/ UNCHANGED Abstract!poolVars
    OBVIOUS
  <2>0. TypeOK /\ QueueInv /\ HoldInv /\ job_num \in Nat /\ job_pop \in Nat
        /\ job_push \in Nat
    BY SimplePoolAssumption, SMT DEF BaseInv, TypeOK
  <2>1. CASE Quiet
    BY <2>1 DEF Quiet, queueVars, Abstract!poolVars
  <2>2. ASSUME NEW c \in Clients, Put(c)
        PROVE  Abstract!Accept \/ UNCHANGED Abstract!poolVars
    <3>1. CASE max_job_num <= job_num
      BY <2>2, <3>1 DEF Put, queueVars, Abstract!poolVars
    <3>2. CASE ~(max_job_num <= job_num)
      <4>1. job_push - job_pop < max_job_num
        BY <2>0, <3>2, SimplePoolAssumption, SMT DEF QueueInv
      <4> QED
        BY <2>2, <3>2, <4>1 DEF Put, Abstract!Accept
    <3> QED
      BY <3>1, <3>2
  <2>3. ASSUME NEW w \in Threads, pc[w] \in {"top", "woken"}, Serve(w)
        PROVE  Abstract!Start(w) \/ UNCHANGED Abstract!poolVars
    <3>1. CASE job_num = 0
      BY <2>3, <3>1 DEF Serve, queueVars, Abstract!poolVars
    <3>2. CASE job_num # 0
      <4>1. task[w] = 0
        BY <2>0, <2>3 DEF HoldInv
      <4> QED
        BY <2>3, <3>2, <4>1, ServeTakes DEF Abstract!Start
    <3> QED
      BY <3>1, <3>2
  <2>4. ASSUME NEW w \in Threads, WorkerRun(w) PROVE Abstract!Finish(w)
    <3>1. task[w] # 0
      BY <2>0, <2>4 DEF WorkerRun, HoldInv
    <3> QED
      BY <2>4, <3>1 DEF WorkerRun, queueVars, Abstract!Finish
  <2> QED
    BY <2>1, <2>2, <2>3, <2>4, StepKinds DEF Abstract!Next
<1> QED
  BY <1>1, <1>2, BaseInvariant, PTL DEF Spec, ImplementsTaskPool, Abstract!Spec
-----------------------------------------------------------------------------
LEMMA ThreadsFinite == ASSUME NEW T \in SUBSET Threads
                       PROVE  IsFiniteSet(T) /\ Cardinality(T) \in Nat
<1>1. IsFiniteSet(0 .. thr_num - 1)
  BY SimplePoolAssumption, FS_Interval, SMT
<1> QED
  BY <1>1, FS_Subset, FS_CardinalityType DEF Threads

LEMMA SizeTypes ==
    /\ IsFiniteSet(ReadyWorkers) /\ Cardinality(ReadyWorkers) \in Nat
    /\ IsFiniteSet(ReadyWorkers') /\ Cardinality(ReadyWorkers') \in Nat
    /\ IsFiniteSet(Signalling) /\ Cardinality(Signalling) \in Nat
    /\ IsFiniteSet(Signalling') /\ Cardinality(Signalling') \in Nat
    /\ IsFiniteSet(WokenClients) /\ Cardinality(WokenClients) \in Nat
    /\ IsFiniteSet(WokenClients') /\ Cardinality(WokenClients') \in Nat
<1>1. \A T \in SUBSET Clients : IsFiniteSet(T) /\ Cardinality(T) \in Nat
  BY SimplePoolAssumption, FS_Subset, FS_CardinalityType
<1> QED
  BY <1>1, ThreadsFinite DEF ReadyWorkers, Signalling, WokenClients

(* Steps that only wake workers, and let no queue grow, keep enough ready. *)
LEMMA ReadyGrows ==
    ASSUME NoIdleWorker, ReadyWorkers \subseteq ReadyWorkers',
           Signalling \subseteq Signalling', job_num' = job_num, job_num \in Nat,
           shutdown' = shutdown,
           \A w \in Threads : pc'[w] = "waiting" => pc[w] = "waiting"
    PROVE  NoIdleWorker'
<1>1. /\ Cardinality(ReadyWorkers) <= Cardinality(ReadyWorkers')
      /\ Cardinality(Signalling) <= Cardinality(Signalling')
  BY SizeTypes, FS_Subset
<1> QED
  BY <1>1, SizeTypes, SMT DEF NoIdleWorker

WorkerInv == BaseInv /\ NoIdleWorker

LEMMA WorkerInvStep == WorkerInv /\ [Next]_vars => WorkerInv'
<1> SUFFICES ASSUME WorkerInv, [Next]_vars PROVE NoIdleWorker'
  BY BaseInvStep DEF WorkerInv
<1>0. BaseInv /\ TypeOK /\ HoldInv /\ NoIdleWorker /\ job_num \in Nat
  BY SimplePoolAssumption, SMT DEF WorkerInv, BaseInv, TypeOK
<1> USE DEF WorkerPcs, ClientPcs, queueVars
<1>1. ASSUME NEW c \in Clients, cpc[c] \in {"idle", "woken"}, Put(c)
      PROVE  NoIdleWorker'
  <2>1. CASE max_job_num <= job_num
    <3>1. Signalling' = Signalling
      BY <1>0, <1>1, <2>1, SMT DEF Put, Signalling, TypeOK
    <3> QED
      BY <1>0, <1>1, <2>1, <3>1 DEF Put, NoIdleWorker, ReadyWorkers
  <2>2. CASE ~(max_job_num <= job_num)
    <3>1. Signalling' = Signalling \cup {c} /\ c \notin Signalling
      BY <1>0, <1>1, <2>2, SMT DEF Put, Signalling, TypeOK
    <3>2. Cardinality(Signalling') = Cardinality(Signalling) + 1
      BY <3>1, SizeTypes, FS_AddElement
    <3>3. ReadyWorkers' = ReadyWorkers /\ pc' = pc /\ shutdown' = shutdown
          /\ job_num' = job_num + 1
      BY <1>1, <2>2 DEF Put, ReadyWorkers
    <3> QED
      BY <1>0, <3>2, <3>3, SizeTypes, SMT DEF NoIdleWorker
  <2> QED
    BY <2>1, <2>2
<1>2. ASSUME NEW c \in Clients, AddSignal(c) PROVE NoIdleWorker'
  <2>1. CASE \A w \in Threads : pc[w] # "waiting"
    BY <1>2, <2>1, SMT DEF AddSignal, WakeWorker, NoIdleWorker
  <2>2. ASSUME NEW w \in Threads, pc[w] = "waiting", pc' = [pc EXCEPT ![w] = "woken"]
        PROVE  NoIdleWorker'
    <3>1. /\ ReadyWorkers' = ReadyWorkers \cup {w} /\ w \notin ReadyWorkers
          /\ Signalling' = Signalling \ {c} /\ c \in Signalling
      BY <1>0, <1>2, <2>2, SMT DEF AddSignal, ReadyWorkers, Signalling, TypeOK
    <3>2. Cardinality(ReadyWorkers') = Cardinality(ReadyWorkers) + 1
      BY <3>1, SizeTypes, FS_AddElement
    <3>3. Cardinality(Signalling') = Cardinality(Signalling) - 1
      BY <3>1, SizeTypes, FS_RemoveElement
    <3>4. job_num' = job_num /\ shutdown' = shutdown
      BY <1>2 DEF AddSignal
    <3> QED
      BY <1>0, <2>2, <3>2, <3>3, <3>4, SizeTypes, SMT DEF NoIdleWorker
  <2> QED
    BY <1>2, <2>1, <2>2 DEF AddSignal, WakeWorker
<1>3. ASSUME NEW w \in Threads, pc[w] \in {"top", "woken"}, Serve(w)
      PROVE  NoIdleWorker'
  <2>1. CASE shutdown
    BY <1>3, <2>1 DEF Serve, NoIdleWorker
  <2>2. CASE job_num = 0
    BY <1>3, <2>2, SizeTypes, SMT DEF Serve, NoIdleWorker
  <2>3. CASE job_num # 0 /\ ~shutdown
    <3>1. pc' = [pc EXCEPT ![w] = "running"] /\ job_num' = job_num - 1
          /\ shutdown' = shutdown
      BY <1>0, <1>3, <2>3, ServeTakes
    <3>2. ReadyWorkers' = ReadyWorkers \ {w} /\ w \in ReadyWorkers
      BY <1>0, <1>3, <3>1, SMT DEF ReadyWorkers, TypeOK
    <3>3. Signalling' = Signalling
      BY <1>0, <1>3, <2>3, ServeTakes, SMT DEF WakeClient, Signalling, TypeOK
    <3>4. Cardinality(ReadyWorkers') = Cardinality(ReadyWorkers) - 1
      BY <3>2, SizeTypes, FS_RemoveElement
    <3>5. \A v \in Threads : pc'[v] = "waiting" => pc[v] = "waiting"
      BY <1>0, <3>1, SMT DEF TypeOK
    <3> QED
      BY <1>0, <2>3, <3>1, <3>3, <3>4, <3>5, SizeTypes, SMT DEF NoIdleWorker
  <2> QED
    BY <2>1, <2>2, <2>3
<1>4. ASSUME NEW w \in Threads, WorkerWait(w) PROVE NoIdleWorker'
  BY <1>0, <1>4, SizeTypes, SMT DEF WorkerWait, HoldInv, NoIdleWorker
<1>5. ASSUME NEW w \in Threads, WorkerRun(w) PROVE NoIdleWorker'
  <2>1. /\ ReadyWorkers \subseteq ReadyWorkers' /\ Signalling \subseteq Signalling'
        /\ \A v \in Threads : pc'[v] = "waiting" => pc[v] = "waiting"
    BY <1>0, <1>5, SMT DEF WorkerRun, ReadyWorkers, Signalling, TypeOK
  <2> QED
    BY <1>0, <1>5, <2>1, ReadyGrows DEF WorkerRun
<1>6. CASE Destroy
  <2>1. CASE DestroyCall
    BY <2>1 DEF DestroyCall, NoIdleWorker
  <2>2. CASE DestroyBroadcast
    BY <1>0, <2>2, SMT DEF DestroyBroadcast, NoIdleWorker, TypeOK
  <2>3. CASE DestroyFree
    BY <1>0, <2>3 DEF DestroyFree, NoIdleWorker, ReadyWorkers, Signalling
  <2> QED
    BY <1>6, <2>1, <2>2, <2>3 DEF Destroy
<1>7. CASE SpuriousWakeup
  <2>1. /\ ReadyWorkers \subseteq ReadyWorkers' /\ Signalling \subseteq Signalling'
        /\ \A v \in Threads : pc'[v] = "waiting" => pc[v] = "waiting"
    BY <1>0, <1>7, SMT DEF SpuriousWakeup, ReadyWorkers, Signalling, TypeOK
  <2> QED
    BY <1>0, <1>7, <2>1, ReadyGrows DEF SpuriousWakeup
<1>8. CASE UNCHANGED vars
  BY <1>0, <1>8 DEF vars, NoIdleWorker, ReadyWorkers, Signalling
<1> QED
  BY <1>1, <1>2, <1>3, <1>4, <1>5, <1>6, <1>7, <1>8, Zenon
     DEF Next, Worker, Client, AddCall, AddResume, WorkerTop, WorkerWake

(* No queued task waits for a sleeping worker unless a worker or a signal  *)
(* is on its way for it, for any number of clients that signal late.       *)
THEOREM WorkersNotIdle == Spec => []NoIdleWorker
<1>1. Init => WorkerInv
  <2> SUFFICES ASSUME Init PROVE NoIdleWorker
    BY BaseInvInit DEF WorkerInv
  <2> QED
    BY SizeTypes, SMT DEF Init, NoIdleWorker
<1>2. WorkerInv => NoIdleWorker
  BY DEF WorkerInv
<1> QED
  BY <1>1, <1>2, WorkerInvStep, PTL DEF Spec
-----------------------------------------------------------------------------
ClientInv == BaseInv /\ NoIdleClient

LEMMA ClientInvStep == ClientInv /\ [Next]_vars => ClientInv'
<1> SUFFICES ASSUME ClientInv, [Next]_vars PROVE NoIdleClient'
  BY BaseInvStep DEF ClientInv
<1>0. /\ BaseInv /\ TypeOK /\ NoIdleClient
      /\ job_num \in Nat /\ max_job_num \in Nat
  BY SimplePoolAssumption, SMT DEF ClientInv, BaseInv, TypeOK
<1> USE DEF WorkerPcs, ClientPcs, queueVars
<1>1. ASSUME NEW c \in Clients, cpc[c] \in {"idle", "woken"}, Put(c)
      PROVE  NoIdleClient'
  <2>1. CASE max_job_num <= job_num
    BY <1>0, <1>1, <2>1, SizeTypes, SMT DEF Put, NoIdleClient
  <2>2. CASE ~(max_job_num <= job_num)
    <3>1. cpc' = [cpc EXCEPT ![c] = "signal"] /\ job_num' = job_num + 1
      BY <1>1, <2>2 DEF Put
    <3>2. WokenClients' = WokenClients \ {c}
      BY <1>0, <3>1, SMT DEF WokenClients, TypeOK
    <3>3. Cardinality(WokenClients') >= Cardinality(WokenClients) - 1
      BY <3>2, SizeTypes, FS_RemoveElement
    <3>4. \A d \in Clients : cpc'[d] = "waiting" => cpc[d] = "waiting"
      BY <1>0, <3>1, SMT DEF TypeOK
    <3> QED
      BY <1>0, <3>1, <3>3, <3>4, SizeTypes, SMT DEF NoIdleClient
  <2> QED
    BY <2>1, <2>2
<1>2. ASSUME NEW w \in Threads, pc[w] \in {"top", "woken"}, Serve(w)
      PROVE  NoIdleClient'
  <2>1. CASE job_num = 0
    BY <1>0, <1>2, <2>1 DEF Serve, NoIdleClient, WokenClients
  <2>2. CASE job_num # 0 /\ \A c \in Clients : cpc[c] # "waiting"
    BY <1>0, <1>2, <2>2, ServeTakes, SMT DEF WakeClient, NoIdleClient
  <2>3. ASSUME job_num # 0, NEW c \in Clients, cpc[c] = "waiting",
               cpc' = [cpc EXCEPT ![c] = "woken"]
        PROVE  NoIdleClient'
    <3>1. WokenClients' = WokenClients \cup {c} /\ c \notin WokenClients
      BY <1>0, <2>3, SMT DEF WokenClients, TypeOK
    <3>2. Cardinality(WokenClients') = Cardinality(WokenClients) + 1
      BY <3>1, SizeTypes, FS_AddElement
    <3>3. job_num' = job_num - 1
      BY <1>0, <1>2, <2>3, ServeTakes
    <3> QED
      BY <1>0, <2>3, <3>2, <3>3, SizeTypes, SMT DEF NoIdleClient
  <2> QED
    BY <1>0, <1>2, <2>1, <2>2, <2>3, ServeTakes DEF WakeClient
<1>3. CASE \/ \E c \in Clients : AddSignal(c)
           \/ \E w \in Threads : WorkerWait(w) \/ WorkerRun(w)
           \/ Destroy \/ SpuriousWakeup \/ UNCHANGED vars
  <2>1. /\ WokenClients \subseteq WokenClients'
        /\ \A c \in Clients : cpc'[c] = "waiting" => cpc[c] = "waiting"
        /\ job_num' = job_num
    BY <1>0, <1>3, SMT
       DEF AddSignal, WorkerWait, WorkerRun, Destroy, DestroyCall,
           DestroyBroadcast, DestroyFree, SpuriousWakeup, vars, WokenClients, TypeOK
  <2>2. Cardinality(WokenClients) <= Cardinality(WokenClients')
    BY <2>1, SizeTypes, FS_Subset
  <2> QED
    BY <1>0, <2>1, <2>2, SizeTypes, SMT DEF NoIdleClient
<1> QED
  BY <1>1, <1>2, <1>3, Zenon
     DEF Next, Worker, Client, AddCall, AddResume, WorkerTop, WorkerWake

(* One signal for each task taken is enough: no client sleeps while there  *)
(* is room that no woken client is coming for.                             *)
THEOREM ClientsNotIdle == Spec => []NoIdleClient
<1>1. Init => ClientInv
  <2> SUFFICES ASSUME Init PROVE NoIdleClient
    BY BaseInvInit DEF ClientInv
  <2> QED
    BY SMT DEF Init, NoIdleClient
<1>2. ClientInv => NoIdleClient
  BY DEF ClientInv
<1> QED
  BY <1>1, <1>2, ClientInvStep, PTL DEF Spec
=============================================================================
