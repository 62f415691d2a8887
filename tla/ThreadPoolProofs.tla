-------------------------- MODULE ThreadPoolProofs --------------------------
(***************************************************************************)
(* What is proved of ThreadPool, for any number of clients, any bounds and *)
(* any queue size.  The invariant is built in layers, each of which rests  *)
(* on the ones before it.                                                  *)
(***************************************************************************)
EXTENDS ThreadPool, FiniteSetTheorems, TLAPS

(* Layer 1.  pool->lock has at most one holder, and what a holder read     *)
(* before it got to its present line still holds there.                    *)
LockInv ==
    /\ lock = "free" => /\ \A w \in Slots : pc[w] \notin WorkerHolds
                        /\ \A c \in Clients : cpc[c] \notin ClientHolds
    /\ \A v, w \in Slots : pc[v] \in WorkerHolds /\ pc[w] \in WorkerHolds => v = w
    /\ \A c, d \in Clients :
          cpc[c] \in ClientHolds /\ cpc[d] \in ClientHolds => c = d
    /\ \A w \in Slots, c \in Clients :
          ~(pc[w] \in WorkerHolds /\ cpc[c] \in ClientHolds)

HoldInv ==
    /\ \A w \in Slots : /\ pc[w] = "take" => queue_size > 0
                        /\ pc[w] = "toWait" => queue_size = 0
    /\ \A c \in Clients : /\ cpc[c] = "put" => queue_size < queue_max_size
                          /\ cpc[c] = "toWait" => queue_size = queue_max_size
    /\ apc = "signal" => sigs > 0

BaseInv == TypeOK /\ LockInv /\ HoldInv

(* The index after a cell of the ring is a cell of the ring.               *)
LEMMA AdvanceCell ==
    ASSUME NEW i \in Cells
    PROVE  /\ Advance(i) \in Cells
           /\ Advance(i) = IF i + 1 = queue_max_size THEN 0 ELSE i + 1
BY PoolAssumption, SMT DEF Cells, Advance

(* The sets of slots the manager fills are subsets of the slots, and their *)
(* size is a number that fits below max_thr_num.                           *)
LEMMA SpawnSetsFit ==
    ASSUME NEW S \in SpawnSets, live_thr_num \in Nat
    PROVE  /\ S \subseteq {w \in Slots : pc[w] \in {"none", "dead"}}
           /\ IsFiniteSet(S)
           /\ Cardinality(S) \in Nat
           /\ live_thr_num + Cardinality(S) <= max_thr_num
<1>1. PICK free \in {{w \in Slots : pc[w] = "none"} \cup dead :
                      dead \in SUBSET {w \in Slots : pc[w] = "dead"}} :
                S \in SUBSET free /\ live_thr_num + Cardinality(S) <= max_thr_num
  BY Zenon DEF SpawnSets
<1>2. S \subseteq {w \in Slots : pc[w] \in {"none", "dead"}}
  BY <1>1
<1>3. IsFiniteSet(Slots)
  BY PoolAssumption, FS_Interval, SMT DEF Slots
<1>4. IsFiniteSet(S)
  BY <1>2, <1>3, FS_Subset
<1> QED
  BY <1>1, <1>2, <1>4, FS_CardinalityType

(* The pool threadpool_create returns satisfies layer 1.                   *)
LEMMA BaseInvInit == Init => BaseInv
<1> SUFFICES ASSUME Init PROVE BaseInv
  OBVIOUS
<1>1. pc \in [Slots -> {"top", "none"}]
  BY DEF Init
<1>2. TypeOK
  <2>1. adj \in [size : Nat, live : Nat, busy : Int] /\ task \in [Slots -> Nat]
    BY SMT DEF Init, NoTask
  <2>2. pc \in [Slots -> WorkerPcs]
    BY <1>1, SMT DEF WorkerPcs
  <2>3. task_queue \in [Cells -> Nat] /\ cpc \in [Clients -> ClientPcs]
    BY SMT DEF Init, NoTask, ClientPcs
  <2>4. queue_front \in Cells /\ queue_rear \in Cells
    BY PoolAssumption, SMT DEF Init, Cells
  <2>5. finished \subseteq Nat /\ shutdown \in BOOLEAN
    BY DEF Init
  <2> QED
    BY <2>1, <2>2, <2>3, <2>4, <2>5, PoolAssumption, SMT
     DEF Init, TypeOK, WorkerPcs, ClientPcs, ManagerPcs, DestroyPcs, Slots, Cells, NoTask
<1>3. LockInv /\ HoldInv
  BY <1>1, SMT DEF Init, LockInv, HoldInv, WorkerHolds, ClientHolds
<1> QED
  BY <1>2, <1>3 DEF BaseInv

(* Every step keeps layer 1.                                               *)
LEMMA BaseInvStep == BaseInv /\ [Next]_vars => BaseInv'
<1> SUFFICES ASSUME BaseInv, [Next]_vars PROVE BaseInv'
  OBVIOUS
<1> USE PoolAssumption
    DEF BaseInv, TypeOK, LockInv, HoldInv, WorkerPcs, ClientPcs, ManagerPcs,
        DestroyPcs, WorkerHolds, ClientHolds, queueVars, countVars, workerVars,
        managerVars, destroyVars, historyVars
<1>1. ASSUME NEW c \in Clients, AddCall(c) PROVE BaseInv'
  BY <1>1, SMTT(30) DEF AddCall, AddLocked, BroadcastNotEmpty
<1>2. ASSUME NEW c \in Clients, AddWait(c) PROVE BaseInv'
  BY <1>2, SMTT(30) DEF AddWait
<1>3. ASSUME NEW c \in Clients, AddResume(c) PROVE BaseInv'
  BY <1>3, SMTT(30) DEF AddResume, AddLocked, BroadcastNotEmpty
<1>4. ASSUME NEW c \in Clients, AddPut(c) PROVE BaseInv'
  BY <1>4, AdvanceCell, SMTT(30) DEF AddPut, SignalNotEmpty
<1>5. ASSUME NEW w \in Slots, WorkerTest(w) PROVE BaseInv'
  BY <1>5, SMTT(30) DEF WorkerTest, Recheck
<1>6. ASSUME NEW w \in Slots, WorkerWait(w) PROVE BaseInv'
  BY <1>6, SMTT(30) DEF WorkerWait
<1>7. ASSUME NEW w \in Slots, WorkerWake(w) PROVE BaseInv'
  BY <1>7, SMTT(30) DEF WorkerWake, Recheck
<1>8. ASSUME NEW w \in Slots, WorkerTake(w) PROVE BaseInv'
  BY <1>8, AdvanceCell, SMTT(30) DEF WorkerTake, BroadcastNotFull
<1>9. ASSUME NEW w \in Slots, WorkerBegin(w) PROVE BaseInv'
  BY <1>9, SMTT(30) DEF WorkerBegin
<1>10. ASSUME NEW w \in Slots, WorkerEnd(w) PROVE BaseInv'
  <2>1. task' \in [Slots -> Nat] /\ pc' \in [Slots -> WorkerPcs]
    BY <1>10, SMTT(30) DEF WorkerEnd, NoTask
  <2>2. finished' \subseteq Nat
    <3>1. task[w] \in Nat /\ finished \subseteq Nat
      OBVIOUS
    <3> QED
      BY <1>10, <3>1, Zenon DEF WorkerEnd
  <2>3. busy_thr_num' \in Int
    BY <1>10, SMTT(30) DEF WorkerEnd
  <2> QED
    BY <1>10, <2>1, <2>2, <2>3, SMTT(30) DEF WorkerEnd
<1>11. ASSUME NEW w \in Slots, WorkerExit(w) PROVE BaseInv'
  BY <1>11, SMTT(30) DEF WorkerExit
<1>12. CASE ManagerTest
  BY <1>12, SMTT(30) DEF ManagerTest
<1>13. CASE ManagerRead
  BY <1>13, SMTT(30) DEF ManagerRead
<1>14. CASE ManagerReadBusy
  BY <1>14, SMTT(30) DEF ManagerReadBusy
<1>15. CASE ManagerGrow
  BY <1>15, SpawnSetsFit, SMTT(30) DEF ManagerGrow
<1>16. CASE ManagerShrink
  BY <1>16, SMTT(30) DEF ManagerShrink
<1>17. CASE ManagerSignal
  BY <1>17, SMTT(30) DEF ManagerSignal, SignalNotEmpty
<1>18. CASE Destroy
  <2>1. CASE DestroyCall
    BY <2>1, SMTT(30) DEF DestroyCall
  <2>2. CASE DestroyWake
    BY <2>2, SMTT(30) DEF DestroyWake, BroadcastNotEmpty
  <2>3. CASE DestroyFree
    BY <2>3, SMTT(30) DEF DestroyFree
  <2> QED
    BY <1>18, <2>1, <2>2, <2>3 DEF Destroy
<1>19. CASE SpuriousWakeup
  BY <1>19, SMTT(30) DEF SpuriousWakeup
<1>20. CASE UNCHANGED vars
  BY <1>20, SMTT(30) DEF vars
<1> QED
  BY <1>1, <1>2, <1>3, <1>4, <1>5, <1>6, <1>7, <1>8, <1>9, <1>10, <1>11, <1>12,
     <1>13, <1>14, <1>15, <1>16, <1>17, <1>18, <1>19, <1>20
     DEF Next, Client, Worker, Manager

(* In every reachable state every variable has its type: in particular the *)
(* ring's indices never leave task_queue and queue_size never exceeds the  *)
(* queue_max_size of threadpool_create.                                    *)
THEOREM TypeCorrect == Spec => []TypeOK
<1>1. Spec => []BaseInv
  BY BaseInvInit, BaseInvStep, PTL DEF Spec
<1>2. BaseInv => TypeOK
  BY DEF BaseInv
<1> QED
  BY <1>1, <1>2, PTL
-----------------------------------------------------------------------------
(* Layer 2.  The queued tasks lie in the ring in the order in which they   *)
(* were accepted, from queue_front on, and the busy workers hold tasks     *)
(* that were taken from it.                                                *)
Cell(k) == IF queue_front + k < queue_max_size THEN queue_front + k
           ELSE queue_front + k - queue_max_size

RingInv ==
    /\ accepted = started + queue_size
    /\ queue_rear = Cell(queue_size)
    /\ \A k \in Nat : k < queue_size => task_queue[Cell(k)] = started + k + 1

RunInv ==
    \A w \in Slots : IF w \in Busy THEN task[w] \in 1 .. started
                     ELSE task[w] = NoTask

FifoInv == BaseInv /\ RingInv /\ RunInv

(* All steps but three leave the queue and the tasks of the workers alone. *)
Quiet == /\ UNCHANGED <<queueVars, task, accepted, started, finished>>
         /\ Busy' = Busy

LEMMA StepKinds ==
    ASSUME BaseInv, [Next]_vars
    PROVE  \/ Quiet
           \/ \E c \in Clients : AddPut(c)
           \/ \E w \in Slots : WorkerTake(w) \/ WorkerEnd(w)
<1> USE DEF BaseInv, TypeOK, WorkerPcs, Quiet, Busy, queueVars, countVars,
            workerVars, managerVars, destroyVars, historyVars
<1>1. ASSUME NEW c \in Clients, AddCall(c) \/ AddWait(c) \/ AddResume(c)
      PROVE  Quiet
  BY <1>1, SMTT(30) DEF AddCall, AddWait, AddResume, AddLocked, BroadcastNotEmpty
<1>2. ASSUME NEW w \in Slots,
             WorkerTest(w) \/ WorkerWait(w) \/ WorkerWake(w) \/ WorkerBegin(w)
             \/ WorkerExit(w)
      PROVE  Quiet
  BY <1>2, SMTT(30)
     DEF WorkerTest, WorkerWait, WorkerWake, WorkerBegin, WorkerExit, Recheck
<1>3. CASE ManagerTest \/ ManagerRead \/ ManagerReadBusy \/ ManagerShrink
  BY <1>3, SMTT(30) DEF ManagerTest, ManagerRead, ManagerReadBusy, ManagerShrink
<1>4. CASE ManagerGrow
  BY <1>4, SpawnSetsFit, SMTT(30) DEF ManagerGrow
<1>5. CASE ManagerSignal
  BY <1>5, SMTT(30) DEF ManagerSignal, SignalNotEmpty
<1>6. CASE Destroy
  BY <1>6, SMTT(30)
     DEF Destroy, DestroyCall, DestroyWake, DestroyFree, BroadcastNotEmpty
<1>7. CASE SpuriousWakeup
  BY <1>7, SMTT(30) DEF SpuriousWakeup
<1>8. CASE UNCHANGED vars
  BY <1>8, SMTT(30) DEF vars
<1> QED
  BY <1>1, <1>2, <1>3, <1>4, <1>5, <1>6, <1>7, <1>8
     DEF Next, Client, Worker, Manager

(* Every step keeps layer 2: AddPut writes the cell behind the last task,  *)
(* WorkerTake takes the task in front.                                     *)
LEMMA FifoInvStep == FifoInv /\ [Next]_vars => FifoInv'
<1> SUFFICES ASSUME FifoInv, [Next]_vars PROVE (RingInv /\ RunInv)'
  BY BaseInvStep DEF FifoInv
<1>0. BaseInv /\ RingInv /\ RunInv /\ TypeOK
  BY DEF FifoInv, BaseInv
<1>1. CASE Quiet
  BY <1>0, <1>1 DEF Quiet, RingInv, RunInv, Cell, queueVars
<1>2. ASSUME NEW c \in Clients, AddPut(c) PROVE (RingInv /\ RunInv)'
  <2>1. /\ queue_size < queue_max_size
        /\ queue_size' = queue_size + 1 /\ accepted' = accepted + 1
        /\ task_queue' = [task_queue EXCEPT ![queue_rear] = accepted + 1]
        /\ queue_rear' = Advance(queue_rear)
        /\ UNCHANGED <<queue_front, started, task>>
    BY <1>0, <1>2, SMT DEF AddPut, BaseInv, HoldInv
  <2>2. Busy' = Busy
    BY <1>0, <1>2, SMT DEF AddPut, SignalNotEmpty, Busy, TypeOK, WorkerPcs
  <2>3. accepted' = started' + queue_size'
    BY <1>0, <2>1, SMT DEF RingInv, TypeOK
  <2>4. queue_rear' = Cell(queue_size)'
    <3>1. queue_rear' = IF queue_rear + 1 = queue_max_size THEN 0 ELSE queue_rear + 1
      BY <1>0, <2>1, AdvanceCell DEF TypeOK
    <3> QED
      BY <1>0, <2>1, <3>1, PoolAssumption, SMT DEF RingInv, TypeOK, Cell, Cells
  <2>5. ASSUME NEW k \in Nat, k < queue_size'
        PROVE  task_queue'[Cell(k)'] = started' + k + 1
    <3>1. Cell(k)' = Cell(k) /\ Cell(k) \in Cells
      BY <1>0, <2>1, <2>5, PoolAssumption, SMT DEF TypeOK, Cell, Cells
    <3>2. CASE k = queue_size
      BY <1>0, <2>1, <3>1, <3>2, SMT DEF RingInv, TypeOK
    <3>3. CASE k < queue_size
      <4>1. Cell(k) # queue_rear
        BY <1>0, <2>1, <3>3, PoolAssumption, SMT DEF RingInv, TypeOK, Cell, Cells
      <4> QED
        BY <1>0, <2>1, <3>1, <3>3, <4>1, SMT DEF RingInv, TypeOK
    <3> QED
      BY <1>0, <2>1, <2>5, <3>2, <3>3, SMT DEF TypeOK
  <2>6. RunInv'
    BY <1>0, <2>1, <2>2 DEF RunInv
  <2> QED
    BY <2>3, <2>4, <2>5, <2>6 DEF RingInv
<1>3. ASSUME NEW w \in Slots, WorkerTake(w) PROVE (RingInv /\ RunInv)'
  <2>1. /\ queue_size > 0 /\ queue_size' = queue_size - 1
        /\ started' = started + 1
        /\ queue_front' = Advance(queue_front)
        /\ task' = [task EXCEPT ![w] = task_queue[queue_front]]
        /\ UNCHANGED <<task_queue, queue_rear, accepted>>
    BY <1>0, <1>3, SMT DEF WorkerTake, BaseInv, HoldInv
  <2>2. Busy' = Busy \cup {w} /\ w \notin Busy
    BY <1>0, <1>3, SMT DEF WorkerTake, Busy, TypeOK
  <2>3. accepted' = started' + queue_size'
    BY <1>0, <2>1, SMT DEF RingInv, TypeOK
  <2>front. queue_front' = IF queue_front + 1 = queue_max_size THEN 0 ELSE queue_front + 1
    BY <1>0, <2>1, AdvanceCell DEF TypeOK
  <2>4. queue_rear' = Cell(queue_size)'
    BY <1>0, <2>1, <2>front, PoolAssumption, SMT DEF RingInv, TypeOK, Cell, Cells
  <2>5. ASSUME NEW k \in Nat, k < queue_size'
        PROVE  task_queue'[Cell(k)'] = started' + k + 1
    <3>1. Cell(k)' = Cell(k + 1)
      BY <1>0, <2>1, <2>5, <2>front, PoolAssumption, SMT DEF TypeOK, Cell, Cells
    <3>2. k + 1 \in Nat /\ k + 1 < queue_size
      BY <1>0, <2>1, <2>5, SMT DEF TypeOK
    <3> QED
      BY <1>0, <2>1, <3>1, <3>2, SMT DEF RingInv, TypeOK
  <2>6. task_queue[queue_front] = started + 1
    <3>1. Cell(0) = queue_front
      BY <1>0, PoolAssumption, SMT DEF TypeOK, Cell, Cells
    <3> QED
      BY <1>0, <2>1, <3>1, SMT DEF RingInv, TypeOK
  <2>7. task' \in [Slots -> Nat] /\ task'[w] = started + 1
    BY <1>0, <2>1, <2>6, SMT DEF TypeOK
  <2>8. RunInv'
    BY <1>0, <2>1, <2>2, <2>7, SMT DEF RunInv, TypeOK, Busy
  <2> QED
    BY <2>3, <2>4, <2>5, <2>8 DEF RingInv
<1>4. ASSUME NEW w \in Slots, WorkerEnd(w) PROVE (RingInv /\ RunInv)'
  <2>1. Busy' = Busy \ {w}
    BY <1>0, <1>4, SMT DEF WorkerEnd, Busy, TypeOK
  <2>3. RunInv'
    BY <1>0, <1>4, <2>1, SMT DEF WorkerEnd, RunInv, TypeOK, NoTask
  <2>4. RingInv'
    BY <1>0, <1>4 DEF WorkerEnd, RingInv, Cell, queueVars
  <2> QED
    BY <2>3, <2>4
<1> QED
  BY <1>0, <1>1, <1>2, <1>3, <1>4, StepKinds

LEMMA FifoInvInit == Init => FifoInv
<1> SUFFICES ASSUME Init PROVE RingInv /\ RunInv
  BY BaseInvInit DEF FifoInv
<1>1. RingInv
  BY PoolAssumption, SMT DEF Init, RingInv, Cell
<1>2. Busy = {}
  <2>1. pc \in [Slots -> {"top", "none"}]
    BY DEF Init
  <2> QED
    BY <2>1, SMT DEF Busy
<1> QED
  BY <1>1, <1>2 DEF Init, RunInv

LEMMA FifoInvariant == Spec => []FifoInv
BY FifoInvInit, FifoInvStep, PTL DEF Spec
-----------------------------------------------------------------------------
(* threadpool.c implements the pool of TaskPool: AddPut accepts a task,    *)
(* WorkerTake starts the task accepted first, WorkerEnd finishes one, and  *)
(* no other step of any thread is visible to the clients.                  *)
THEOREM Implements == Spec => ImplementsTaskPool
<1>1. Init => Abstract!Init
  BY DEF Init, Abstract!Init, NoTask
<1>2. FifoInv /\ [Next]_vars => [Abstract!Next]_(Abstract!poolVars)
  <2> SUFFICES ASSUME FifoInv, [Next]_vars
               PROVE  Abstract!Next \/ UNCHANGED Abstract!poolVars
    OBVIOUS
  <2>0. BaseInv /\ TypeOK /\ RingInv /\ RunInv
    BY DEF FifoInv, BaseInv
  <2>1. CASE Quiet
    BY <2>1 DEF Quiet, Abstract!poolVars
  <2>2. ASSUME NEW c \in Clients, AddPut(c) PROVE Abstract!Accept
    <3>1. accepted - started < queue_max_size
      BY <2>0, <2>2, SMT DEF AddPut, BaseInv, HoldInv, RingInv, TypeOK
    <3> QED
      BY <2>2, <3>1 DEF AddPut, Abstract!Accept
  <2>3. ASSUME NEW w \in Slots, WorkerTake(w) PROVE Abstract!Start(w)
    <3>1. task[w] = 0
      BY <2>0, <2>3, SMT DEF WorkerTake, RunInv, Busy, NoTask
    <3>2. 0 < queue_size
      BY <2>0, <2>3, SMT DEF WorkerTake, BaseInv, HoldInv
    <3>3. started < accepted /\ Cell(0) = queue_front
      BY <2>0, <3>2, PoolAssumption, SMT DEF RingInv, TypeOK, Cell, Cells
    <3>4. task_queue[queue_front] = started + 1
      BY <2>0, <3>2, <3>3, SMT DEF RingInv, TypeOK
    <3> QED
      BY <2>3, <3>1, <3>3, <3>4 DEF WorkerTake, Abstract!Start
  <2>4. ASSUME NEW w \in Slots, WorkerEnd(w) PROVE Abstract!Finish(w)
    <3>1. task[w] # 0
      BY <2>0, <2>4, SMT DEF WorkerEnd, RunInv, Busy, TypeOK
    <3> QED
      BY <2>4, <3>1 DEF WorkerEnd, Abstract!Finish, NoTask
  <2> QED
    BY <2>0, <2>1, <2>2, <2>3, <2>4, StepKinds DEF Abstract!Next
<1> QED
  BY <1>1, <1>2, FifoInvariant, PTL DEF Spec, ImplementsTaskPool, Abstract!Spec
-----------------------------------------------------------------------------
(* Layer 3.  Only a retiring worker and the manager change live_thr_num.   *)
LiveInv == BaseInv /\ LiveBounds

LEMMA LiveSteps ==
    ASSUME BaseInv, [Next]_vars
    PROVE  \/ UNCHANGED live_thr_num
           \/ \E w \in Slots : WorkerWake(w)
           \/ ManagerGrow
<1> USE DEF queueVars, countVars, workerVars, managerVars, destroyVars, historyVars
<1>1. ASSUME NEW c \in Clients, Client(c) PROVE UNCHANGED live_thr_num
  BY <1>1, SMTT(30) DEF Client, AddCall, AddWait, AddResume, AddLocked, AddPut
<1>2. ASSUME NEW w \in Slots, Worker(w), ~WorkerWake(w) PROVE UNCHANGED live_thr_num
  BY <1>2, SMTT(30) DEF Worker, WorkerTest, WorkerWait, WorkerTake, WorkerBegin,
                        WorkerEnd, WorkerExit
<1>3. ASSUME Manager, ~ManagerGrow PROVE UNCHANGED live_thr_num
  BY <1>3, SMTT(30) DEF Manager, ManagerTest, ManagerRead, ManagerReadBusy,
                        ManagerShrink, ManagerSignal
<1>4. CASE Destroy
  BY <1>4, SMTT(30) DEF Destroy, DestroyCall, DestroyWake, DestroyFree
<1>5. CASE SpuriousWakeup \/ UNCHANGED vars
  BY <1>5, SMTT(30) DEF SpuriousWakeup, vars
<1> QED
  BY <1>1, <1>2, <1>3, <1>4, <1>5 DEF Next

LEMMA LiveInvStep == LiveInv /\ [Next]_vars => LiveInv'
<1> SUFFICES ASSUME LiveInv, [Next]_vars PROVE LiveBounds'
  BY BaseInvStep DEF LiveInv
<1>0. BaseInv /\ LiveBounds /\ live_thr_num \in Nat
  BY DEF LiveInv, BaseInv, TypeOK
<1>1. CASE UNCHANGED live_thr_num
  BY <1>0, <1>1 DEF LiveBounds
<1>2. ASSUME NEW w \in Slots, WorkerWake(w) PROVE LiveBounds'
  BY <1>0, <1>2, PoolAssumption, SMT DEF WorkerWake, LiveBounds
<1>3. CASE ManagerGrow
  <2>1. CASE UNCHANGED live_thr_num
    BY <1>0, <2>1 DEF LiveBounds
  <2>2. ASSUME NEW S \in SpawnSets, live_thr_num' = live_thr_num + Cardinality(S)
        PROVE  LiveBounds'
    <3>1. Cardinality(S) \in Nat /\ live_thr_num + Cardinality(S) <= max_thr_num
      BY <1>0, SpawnSetsFit
    <3> QED
      BY <1>0, <2>2, <3>1, PoolAssumption, SMT DEF LiveBounds
  <2> QED
    BY <1>3, <2>1, <2>2 DEF ManagerGrow
<1> QED
  BY <1>0, <1>1, <1>2, <1>3, LiveSteps

(* The number of live threads stays between the bounds threadpool_create   *)
(* was given, for all interleavings of retiring workers and the manager.   *)
THEOREM LiveBounded == Spec => []LiveBounds
<1>1. Init => LiveInv
  BY BaseInvInit, PoolAssumption, SMT DEF Init, LiveInv, LiveBounds
<1>2. LiveInv => LiveBounds
  BY DEF LiveInv
<1> QED
  BY <1>1, <1>2, LiveInvStep, PTL DEF Spec
-----------------------------------------------------------------------------
(* Layer 4.  A client waits only under the lock that makes the queue full, *)
(* and the step that makes room wakes all of them.                         *)
ClientInv == BaseInv /\ NoIdleClient

LEMMA ClientInvStep == ClientInv /\ [Next]_vars => ClientInv'
<1> SUFFICES ASSUME ClientInv, [Next]_vars PROVE NoIdleClient'
  BY BaseInvStep DEF ClientInv
<1>0. BaseInv /\ TypeOK /\ HoldInv /\ NoIdleClient
  BY DEF ClientInv, BaseInv
<1> USE DEF NoIdleClient, TypeOK, ClientPcs, queueVars, countVars, workerVars,
            managerVars, destroyVars, historyVars
<1>1. ASSUME NEW c \in Clients, AddCall(c) \/ AddResume(c) PROVE NoIdleClient'
  BY <1>0, <1>1, SMTT(30) DEF AddCall, AddResume, AddLocked
<1>2. ASSUME NEW c \in Clients, AddWait(c) PROVE NoIdleClient'
  BY <1>0, <1>2, SMTT(30) DEF AddWait, HoldInv
<1>3. ASSUME NEW c \in Clients, AddPut(c) PROVE NoIdleClient'
  BY <1>0, <1>3, SMTT(30) DEF AddPut, HoldInv
<1>4. ASSUME NEW w \in Slots, WorkerTake(w) PROVE NoIdleClient'
  BY <1>0, <1>4, SMTT(30) DEF WorkerTake, BroadcastNotFull
<1>5. ASSUME NEW w \in Slots, Worker(w), ~WorkerTake(w) PROVE NoIdleClient'
  BY <1>0, <1>5, SMTT(30) DEF Worker, WorkerTest, WorkerWait, WorkerWake,
                              WorkerBegin, WorkerEnd, WorkerExit
<1>6. CASE Manager
  BY <1>0, <1>6, SMTT(30) DEF Manager, ManagerTest, ManagerRead, ManagerReadBusy,
                              ManagerGrow, ManagerShrink, ManagerSignal
<1>7. CASE Destroy
  BY <1>0, <1>7, SMTT(30) DEF Destroy, DestroyCall, DestroyWake, DestroyFree
<1>8. CASE SpuriousWakeup \/ UNCHANGED vars
  BY <1>0, <1>8, SMTT(30) DEF SpuriousWakeup, vars
<1> QED
  BY <1>1, <1>2, <1>3, <1>4, <1>5, <1>6, <1>7, <1>8 DEF Next, Client

(* No client of a pool of any size ever sleeps on a queue that has room.   *)
THEOREM ClientsNotIdle == Spec => []NoIdleClient
<1>1. Init => ClientInv
  BY BaseInvInit, SMT DEF Init, ClientInv, NoIdleClient
<1>2. ClientInv => NoIdleClient
  BY DEF ClientInv
<1> QED
  BY <1>1, <1>2, ClientInvStep, PTL DEF Spec
-----------------------------------------------------------------------------
(* Layer 5.  Each wake-up that threadpool_add sends adds a worker to Ready *)
(* and each task taken removes one.  In a pool of fixed size no worker     *)
(* retires, because live_thr_num cannot exceed min_thr_num.                *)
WakeInv == LiveInv /\ NoIdleWorker

LEMMA ReadyFinite ==
    /\ IsFiniteSet(Ready) /\ IsFiniteSet(Ready')
    /\ Cardinality(Ready) \in Nat /\ Cardinality(Ready') \in Nat
<1>1. IsFiniteSet(Slots)
  <2>1. IsFiniteSet(0 .. max_thr_num - 1)
    BY PoolAssumption, FS_Interval, SMT
  <2> QED
    BY <2>1 DEF Slots
<1>2. Ready \subseteq Slots /\ Ready' \subseteq Slots
  BY DEF Ready
<1> QED
  BY <1>1, <1>2, FS_Subset, FS_CardinalityType

(* Steps that wake workers or leave them alone keep enough of them ready.  *)
LEMMA ReadyGrows ==
    ASSUME NoIdleWorker, Ready \subseteq Ready', queue_size' = queue_size,
           queue_size \in Nat, shutdown' = shutdown,
           \A w \in Slots : pc'[w] = "waiting" => pc[w] = "waiting"
    PROVE  NoIdleWorker'
<1>1. Cardinality(Ready) <= Cardinality(Ready')
  BY ReadyFinite, FS_Subset
<1> QED
  BY <1>1, ReadyFinite, SMT DEF NoIdleWorker

LEMMA WakeInvStep == WakeInv /\ [Next]_vars => WakeInv'
<1> SUFFICES ASSUME WakeInv, [Next]_vars PROVE NoIdleWorker'
  BY LiveInvStep DEF WakeInv
<1>0. /\ BaseInv /\ TypeOK /\ HoldInv /\ NoIdleWorker /\ LiveBounds
      /\ queue_size \in Nat /\ live_thr_num \in Nat
  BY PoolAssumption, SMT DEF WakeInv, LiveInv, BaseInv, TypeOK
<1> USE DEF queueVars, countVars, workerVars, managerVars, destroyVars, historyVars
<1>1. ASSUME NEW c \in Clients, AddCall(c) \/ AddWait(c) \/ AddResume(c)
      PROVE  NoIdleWorker'
  <2>1. CASE shutdown'
    BY <2>1 DEF NoIdleWorker
  <2>2. CASE ~shutdown'
    <3>1. pc' = pc /\ queue_size' = queue_size /\ shutdown' = shutdown
      BY <1>1, <2>2 DEF AddCall, AddWait, AddResume, AddLocked
    <3> QED
      BY <1>0, <3>1 DEF NoIdleWorker, Ready
  <2> QED
    BY <2>1, <2>2
<1>2. ASSUME NEW c \in Clients, AddPut(c) PROVE NoIdleWorker'
  <2>1. CASE \A w \in Slots : pc[w] # "waiting"
    BY <1>2, <2>1, SMT DEF AddPut, SignalNotEmpty, NoIdleWorker
  <2>2. CASE \E w \in Slots : pc[w] = "waiting" /\ pc' = [pc EXCEPT ![w] = "woken"]
    <3>1. PICK w \in Slots : pc[w] = "waiting" /\ pc' = [pc EXCEPT ![w] = "woken"]
      BY <2>2
    <3>2. Ready' = Ready \cup {w} /\ w \notin Ready
      BY <1>0, <3>1, SMT DEF Ready, TypeOK
    <3>3. Cardinality(Ready') = Cardinality(Ready) + 1
      BY <3>2, ReadyFinite, FS_AddElement
    <3>4. queue_size' = queue_size + 1 /\ shutdown' = shutdown
      BY <1>2 DEF AddPut
    <3> QED
      BY <1>0, <3>1, <3>3, <3>4, ReadyFinite, SMT DEF NoIdleWorker
  <2> QED
    BY <1>2, <2>1, <2>2 DEF AddPut, SignalNotEmpty
<1>3. ASSUME NEW w \in Slots, pc[w] \in {"top", "woken"}, Recheck(w),
             UNCHANGED <<queue_size, shutdown>>
      PROVE  NoIdleWorker'
  <2>1. CASE shutdown
    BY <1>3, <2>1 DEF NoIdleWorker
  <2>2. CASE ~shutdown /\ queue_size = 0
    BY <1>3, <2>2, ReadyFinite, SMT DEF NoIdleWorker
  <2>3. CASE ~shutdown /\ queue_size # 0
    <3>1. pc' = [pc EXCEPT ![w] = "take"]
      BY <1>3, <2>3 DEF Recheck
    <3>2. Ready \subseteq Ready' /\ \A v \in Slots : pc'[v] = "waiting" => pc[v] = "waiting"
      BY <1>0, <1>3, <3>1, SMT DEF Ready, TypeOK
    <3> QED
      BY <1>0, <1>3, <3>2, ReadyGrows
  <2> QED
    BY <2>1, <2>2, <2>3
<1>4. ASSUME NEW w \in Slots, WorkerTest(w) PROVE NoIdleWorker'
  BY <1>3, <1>4 DEF WorkerTest
<1>5. ASSUME NEW w \in Slots, WorkerWait(w) PROVE NoIdleWorker'
  BY <1>0, <1>5, ReadyFinite, SMT DEF WorkerWait, HoldInv, NoIdleWorker
<1>6. ASSUME NEW w \in Slots, WorkerWake(w) PROVE NoIdleWorker'
  <2>1. CASE wait_exit_thr_num > 0 /\ live_thr_num > min_thr_num
    <3>1. min_thr_num # max_thr_num
      BY <1>0, <2>1, PoolAssumption, SMT DEF LiveBounds
    <3> QED
      BY <3>1 DEF NoIdleWorker
  <2>2. CASE ~(wait_exit_thr_num > 0 /\ live_thr_num > min_thr_num)
    BY <1>3, <1>6, <2>2 DEF WorkerWake
  <2> QED
    BY <2>1, <2>2
<1>7. ASSUME NEW w \in Slots, WorkerTake(w) PROVE NoIdleWorker'
  <2>1. Ready' = Ready \ {w} /\ w \in Ready
    BY <1>0, <1>7, SMT DEF WorkerTake, Ready, TypeOK
  <2>2. Cardinality(Ready') = Cardinality(Ready) - 1
    BY <2>1, ReadyFinite, FS_RemoveElement
  <2>3. \A v \in Slots : pc'[v] = "waiting" => pc[v] = "waiting"
    BY <1>0, <1>7, SMT DEF WorkerTake, TypeOK
  <2> QED
    BY <1>0, <1>7, <2>2, <2>3, ReadyFinite, SMT DEF WorkerTake, NoIdleWorker
<1>8. ASSUME NEW w \in Slots, WorkerBegin(w) \/ WorkerEnd(w) \/ WorkerExit(w)
      PROVE  NoIdleWorker'
  <2>1. Ready \subseteq Ready' /\ \A v \in Slots : pc'[v] = "waiting" => pc[v] = "waiting"
    BY <1>0, <1>8, SMT DEF WorkerBegin, WorkerEnd, WorkerExit, Ready, TypeOK
  <2>2. UNCHANGED <<queue_size, shutdown>>
    BY <1>8 DEF WorkerBegin, WorkerEnd, WorkerExit
  <2> QED
    BY <1>0, <2>1, <2>2, ReadyGrows
<1>9. CASE Manager
  <2>1. CASE UNCHANGED pc
    BY <1>0, <1>9, <2>1
       DEF Manager, ManagerTest, ManagerRead, ManagerReadBusy, ManagerGrow,
           ManagerShrink, ManagerSignal, NoIdleWorker, Ready
  <2>2. CASE ManagerGrow
    <3>1. Ready \subseteq Ready' /\ \A v \in Slots : pc'[v] = "waiting" => pc[v] = "waiting"
      BY <1>0, <2>2, SMT DEF ManagerGrow, Ready, TypeOK
    <3> QED
      BY <1>0, <2>2, <3>1, ReadyGrows DEF ManagerGrow
  <2>3. CASE ManagerSignal
    <3>1. Ready \subseteq Ready' /\ \A v \in Slots : pc'[v] = "waiting" => pc[v] = "waiting"
      BY <1>0, <2>3, SMT DEF ManagerSignal, SignalNotEmpty, Ready, TypeOK
    <3> QED
      BY <1>0, <2>3, <3>1, ReadyGrows DEF ManagerSignal
  <2> QED
    BY <1>9, <2>1, <2>2, <2>3
       DEF Manager, ManagerTest, ManagerRead, ManagerReadBusy, ManagerShrink
<1>10. CASE Destroy
  <2>1. CASE shutdown'
    BY <2>1 DEF NoIdleWorker
  <2>2. CASE DestroyFree
    BY <1>0, <2>2 DEF DestroyFree, NoIdleWorker, Ready
  <2>3. CASE DestroyWake
    <3>1. Ready \subseteq Ready' /\ \A v \in Slots : pc'[v] = "waiting" => pc[v] = "waiting"
      BY <1>0, <2>3, SMT DEF DestroyWake, BroadcastNotEmpty, Ready, TypeOK
    <3> QED
      BY <1>0, <2>3, <3>1, ReadyGrows DEF DestroyWake
  <2> QED
    BY <1>10, <2>1, <2>2, <2>3 DEF Destroy, DestroyCall
<1>11. CASE SpuriousWakeup
  <2>1. Ready \subseteq Ready' /\ \A v \in Slots : pc'[v] = "waiting" => pc[v] = "waiting"
    BY <1>0, <1>11, SMT DEF SpuriousWakeup, Ready, TypeOK
  <2> QED
    BY <1>0, <1>11, <2>1, ReadyGrows DEF SpuriousWakeup
<1>12. CASE UNCHANGED vars
  BY <1>0, <1>12 DEF vars, NoIdleWorker, Ready
<1> QED
  BY <1>1, <1>2, <1>4, <1>5, <1>6, <1>7, <1>8, <1>9, <1>10, <1>11, <1>12
     DEF Next, Client, Worker

(* In a pool with min_thr_num = max_thr_num no task waits while a worker   *)
(* sleeps, unless another worker is on its way for that very task.         *)
THEOREM WorkersNotIdle == Spec => []NoIdleWorker
<1>1. Init => WakeInv
  <2> SUFFICES ASSUME Init PROVE LiveBounds /\ NoIdleWorker
    BY BaseInvInit DEF WakeInv, LiveInv
  <2>1. queue_size = 0
    BY DEF Init
  <2> QED
    BY <2>1, ReadyFinite, PoolAssumption, SMT DEF Init, LiveBounds, NoIdleWorker
<1>2. WakeInv => NoIdleWorker
  BY DEF WakeInv
<1> QED
  BY <1>1, <1>2, WakeInvStep, PTL DEF Spec
-----------------------------------------------------------------------------
(* Layer 6.  Every change of live_thr_num comes with a thread that starts  *)
(* or that retires.                                                        *)
CountInv == LiveInv /\ LiveCount

LEMMA SlotsFinite == ASSUME NEW T \in SUBSET Slots
                     PROVE  IsFiniteSet(T) /\ Cardinality(T) \in Nat
<1>1. IsFiniteSet(0 .. max_thr_num - 1)
  BY PoolAssumption, FS_Interval, SMT
<1> QED
  BY <1>1, FS_Subset, FS_CardinalityType DEF Slots

LEMMA CountInvStep == CountInv /\ [Next]_vars => CountInv'
<1> SUFFICES ASSUME CountInv, [Next]_vars, ~SpawnMayFail, ~shutdown'
             PROVE  live_thr_num' = Cardinality(Alive')
  BY LiveInvStep DEF CountInv, LiveCount, LiveIsAlive
<1>0. BaseInv /\ TypeOK /\ LiveCount /\ live_thr_num \in Nat
  BY SMT DEF CountInv, LiveInv, BaseInv, TypeOK
<1> USE DEF queueVars, countVars, workerVars, managerVars, destroyVars, historyVars
<1>1. CASE UNCHANGED live_thr_num /\ Alive' = Alive /\ ~shutdown
  BY <1>0, <1>1 DEF LiveCount, LiveIsAlive
<1>2. ASSUME NEW c \in Clients, Client(c)
      PROVE  UNCHANGED live_thr_num /\ Alive' = Alive /\ ~shutdown
  BY <1>0, <1>2, SMTT(30)
     DEF Client, AddCall, AddWait, AddResume, AddLocked, AddPut, SignalNotEmpty,
         Alive, TypeOK
<1>3. ASSUME NEW w \in Slots, Worker(w), ~WorkerWake(w)
      PROVE  UNCHANGED live_thr_num /\ Alive' = Alive /\ ~shutdown
  BY <1>0, <1>3, SMTT(30)
     DEF Worker, WorkerTest, WorkerWait, WorkerTake, WorkerBegin, WorkerEnd,
         WorkerExit, Recheck, Alive, TypeOK
<1>4. ASSUME NEW w \in Slots, WorkerWake(w)
      PROVE  live_thr_num' = Cardinality(Alive')
  <2>1. CASE wait_exit_thr_num > 0 /\ live_thr_num > min_thr_num
    <3>1. /\ pc[w] = "woken" /\ pc' = [pc EXCEPT ![w] = "exiting"]
          /\ live_thr_num' = live_thr_num - 1 /\ ~shutdown
      BY <1>4, <2>1 DEF WorkerWake
    <3>2. Alive' = Alive \ {w} /\ w \in Alive
      BY <1>0, <3>1, SMT DEF Alive, TypeOK
    <3>3. Cardinality(Alive \ {w}) = Cardinality(Alive) - 1
      BY <3>2, SlotsFinite, FS_RemoveElement DEF Alive
    <3> QED
      BY <1>0, <3>1, <3>2, <3>3 DEF LiveCount, LiveIsAlive
  <2>2. CASE ~(wait_exit_thr_num > 0 /\ live_thr_num > min_thr_num)
    <3>1. UNCHANGED live_thr_num /\ Alive' = Alive /\ ~shutdown
      BY <1>0, <1>4, <2>2, SMT DEF WorkerWake, Recheck, Alive, TypeOK
    <3> QED
      BY <1>1, <3>1
  <2> QED
    BY <2>1, <2>2
<1>5. CASE ManagerGrow
  <2>1. CASE UNCHANGED <<pc, live_thr_num>>
    BY <1>1, <1>5, <2>1 DEF ManagerGrow, Alive
  <2>2. ASSUME NEW S \in SpawnSets,
               pc' = [w \in Slots |-> IF w \in S THEN "top" ELSE pc[w]],
               live_thr_num' = live_thr_num + Cardinality(S)
        PROVE  live_thr_num' = Cardinality(Alive')
    <3>1. S \subseteq {w \in Slots : pc[w] \in {"none", "dead"}}
      BY <1>0, SpawnSetsFit
    <3>2. Alive' = Alive \cup S /\ Alive \cap S = {}
      BY <1>0, <2>2, <3>1, SMT DEF Alive, TypeOK
    <3>3. /\ IsFiniteSet(Alive) /\ Cardinality(Alive) \in Nat
          /\ IsFiniteSet(S) /\ Cardinality(S) \in Nat
      BY <3>1, SlotsFinite DEF Alive
    <3>4. Cardinality(Alive \cup S) = Cardinality(Alive) + Cardinality(S)
      <4>1. Cardinality(Alive \cap S) = 0
        BY <3>2, FS_EmptySet
      <4>2. Cardinality(Alive \cup S)
              = Cardinality(Alive) + Cardinality(S) - Cardinality(Alive \cap S)
        BY <3>3, FS_Union
      <4> QED
        BY <3>3, <4>1, <4>2, SMT
    <3>5. ~shutdown
      BY <1>5 DEF ManagerGrow
    <3> QED
      BY <1>0, <2>2, <3>2, <3>4, <3>5 DEF LiveCount, LiveIsAlive
  <2> QED
    BY <1>5, <2>1, <2>2 DEF ManagerGrow
<1>6. ASSUME Manager, ~ManagerGrow
      PROVE  UNCHANGED live_thr_num /\ Alive' = Alive /\ ~shutdown
  BY <1>0, <1>6, SMTT(30)
     DEF Manager, ManagerTest, ManagerRead, ManagerReadBusy, ManagerShrink,
         ManagerSignal, SignalNotEmpty, Alive, TypeOK
<1>7. CASE Destroy \/ SpuriousWakeup
  <2>1. UNCHANGED live_thr_num /\ Alive' = Alive /\ ~shutdown
    BY <1>0, <1>7, SMTT(30)
       DEF Destroy, DestroyCall, DestroyWake, DestroyFree, BroadcastNotEmpty,
           SpuriousWakeup, Alive, TypeOK
  <2> QED
    BY <1>1, <2>1
<1>8. CASE UNCHANGED vars
  BY <1>1, <1>8 DEF vars, Alive
<1> QED
  BY <1>1, <1>2, <1>3, <1>4, <1>5, <1>6, <1>7, <1>8 DEF Next

LEMMA CountInvInit == Init => CountInv
<1> SUFFICES ASSUME Init PROVE LiveBounds /\ LiveCount
  BY BaseInvInit DEF CountInv, LiveInv
<1>1. LiveBounds
  BY PoolAssumption, SMT DEF Init, LiveBounds
<1>2. ASSUME ~SpawnMayFail PROVE live_thr_num = Cardinality(Alive)
  <2>1. pc = [w \in Slots |-> IF w < min_thr_num THEN "top" ELSE "none"]
    BY <1>2 DEF Init
  <2>2. Alive = 0 .. min_thr_num - 1
    BY <2>1, PoolAssumption, SMT DEF Alive, Slots
  <2>3. Cardinality(0 .. min_thr_num - 1) = min_thr_num
    BY PoolAssumption, FS_Interval, SMT
  <2> QED
    BY <2>2, <2>3 DEF Init
<1> QED
  BY <1>1, <1>2 DEF LiveCount, LiveIsAlive

(* If no pthread_create fails, live_thr_num is the number of threads that  *)
(* serve the queue, until the pool is destroyed.                           *)
THEOREM LiveCounted == Spec => []LiveCount
<1>1. CountInv => LiveCount
  BY DEF CountInv
<1> QED
  BY <1>1, CountInvInit, CountInvStep, PTL DEF Spec
-----------------------------------------------------------------------------
(* Layer 7.  busy_thr_num is the number of workers that run a task, and no *)
(* thread is born between the two halves of the manager's snapshot.        *)
Running == {w \in Slots : pc[w] = "running"}

SnapshotInv ==
    /\ CountInv
    /\ busy_thr_num = Cardinality(Running)
    /\ apc = "busy" /\ ~SpawnMayFail /\ ~shutdown => live_thr_num <= adj.live
    /\ SnapshotSane

LEMMA RunningStep ==
    ASSUME SnapshotInv, [Next]_vars
    PROVE  busy_thr_num' = Cardinality(Running')
<1>0. TypeOK /\ busy_thr_num = Cardinality(Running) /\ BaseInv
  BY DEF SnapshotInv, CountInv, LiveInv, BaseInv
<1> USE DEF queueVars, countVars, workerVars, managerVars, destroyVars, historyVars
<1>1. ASSUME NEW w \in Slots, WorkerBegin(w) PROVE busy_thr_num' = Cardinality(Running')
  <2>1. Running' = Running \cup {w} /\ w \notin Running
    BY <1>0, <1>1, SMT DEF WorkerBegin, Running, TypeOK
  <2>2. Cardinality(Running \cup {w}) = Cardinality(Running) + 1
    BY <2>1, SlotsFinite, FS_AddElement DEF Running
  <2> QED
    BY <1>0, <1>1, <2>1, <2>2 DEF WorkerBegin
<1>2. ASSUME NEW w \in Slots, WorkerEnd(w) PROVE busy_thr_num' = Cardinality(Running')
  <2>1. Running' = Running \ {w} /\ w \in Running
    BY <1>0, <1>2, SMT DEF WorkerEnd, Running, TypeOK
  <2>2. Cardinality(Running \ {w}) = Cardinality(Running) - 1
    BY <2>1, SlotsFinite, FS_RemoveElement DEF Running
  <2> QED
    BY <1>0, <1>2, <2>1, <2>2 DEF WorkerEnd
<1>3. CASE UNCHANGED busy_thr_num /\ Running' = Running
  BY <1>0, <1>3
<1>4. ASSUME NEW c \in Clients, Client(c)
      PROVE  UNCHANGED busy_thr_num /\ Running' = Running
  BY <1>0, <1>4, SMTT(30)
     DEF Client, AddCall, AddWait, AddResume, AddLocked, AddPut, SignalNotEmpty,
         BroadcastNotEmpty, Running, TypeOK
<1>5. ASSUME NEW w \in Slots, Worker(w), ~WorkerBegin(w), ~WorkerEnd(w)
      PROVE  UNCHANGED busy_thr_num /\ Running' = Running
  BY <1>0, <1>5, SMTT(30)
     DEF Worker, WorkerTest, WorkerWait, WorkerWake, WorkerTake, WorkerExit,
         Recheck, Running, TypeOK
<1>6. CASE ManagerGrow
  <2>1. UNCHANGED busy_thr_num /\ Running' = Running
    BY <1>0, <1>6, SpawnSetsFit, SMTT(30) DEF ManagerGrow, Running, TypeOK
  <2> QED
    BY <1>3, <2>1
<1>7. ASSUME Manager, ~ManagerGrow
      PROVE  UNCHANGED busy_thr_num /\ Running' = Running
  BY <1>0, <1>7, SMTT(30)
     DEF Manager, ManagerTest, ManagerRead, ManagerReadBusy, ManagerShrink,
         ManagerSignal, SignalNotEmpty, Running, TypeOK
<1>8. CASE Destroy \/ SpuriousWakeup
  <2>1. UNCHANGED busy_thr_num /\ Running' = Running
    BY <1>0, <1>8, SMTT(30)
       DEF Destroy, DestroyCall, DestroyWake, DestroyFree, BroadcastNotEmpty,
           SpuriousWakeup, Running, TypeOK
  <2> QED
    BY <1>3, <2>1
<1>9. CASE UNCHANGED vars
  BY <1>3, <1>9 DEF vars, Running
<1> QED
  BY <1>1, <1>2, <1>3, <1>4, <1>5, <1>6, <1>7, <1>8, <1>9 DEF Next

(* Only the manager changes its snapshot and only the manager adds threads,*)
(* so that while it holds a snapshot live_thr_num can only fall.           *)
LEMMA ManagerAlone ==
    ASSUME BaseInv, [Next]_vars, ~Manager
    PROVE  /\ UNCHANGED <<apc, adj>> /\ live_thr_num' <= live_thr_num
           /\ shutdown => shutdown'
<1>0. TypeOK /\ live_thr_num \in Nat
  BY DEF BaseInv, TypeOK
<1> USE DEF queueVars, countVars, workerVars, managerVars, destroyVars, historyVars
<1>1. ASSUME NEW c \in Clients, Client(c)
      PROVE  UNCHANGED <<apc, adj, live_thr_num, shutdown>>
  BY <1>1 DEF Client, AddCall, AddWait, AddResume, AddLocked, AddPut
<1>2. ASSUME NEW w \in Slots, Worker(w), ~WorkerWake(w)
      PROVE  UNCHANGED <<apc, adj, live_thr_num, shutdown>>
  BY <1>2 DEF Worker, WorkerTest, WorkerWait, WorkerTake, WorkerBegin, WorkerEnd,
              WorkerExit
<1>3. ASSUME NEW w \in Slots, WorkerWake(w)
      PROVE  /\ UNCHANGED <<apc, adj, shutdown>>
             /\ live_thr_num' = live_thr_num \/ live_thr_num' = live_thr_num - 1
  BY <1>3 DEF WorkerWake
<1>4. CASE Destroy
  BY <1>0, <1>4, SMT DEF Destroy, DestroyCall, DestroyWake, DestroyFree
<1>5. CASE SpuriousWakeup \/ UNCHANGED vars
  BY <1>0, <1>5, SMT DEF SpuriousWakeup, vars
<1> QED
  BY <1>0, <1>1, <1>2, <1>3, <1>4, <1>5, SMT DEF Next

LEMMA SnapshotInvStep == SnapshotInv /\ [Next]_vars => SnapshotInv'
<1> SUFFICES ASSUME SnapshotInv, [Next]_vars, ~SpawnMayFail, ~shutdown'
             PROVE  /\ apc' = "busy" => live_thr_num' <= adj'.live
                    /\ apc' \in {"grow", "shrink"} => adj'.busy <= adj'.live
  BY CountInvStep, RunningStep DEF SnapshotInv, SnapshotSane
<1>0. /\ BaseInv /\ TypeOK /\ LiveCount
      /\ live_thr_num \in Nat /\ live_thr_num' \in Nat
      /\ adj \in [size : Nat, live : Nat, busy : Int]
  BY BaseInvStep DEF SnapshotInv, CountInv, LiveInv, BaseInv, TypeOK
<1> USE DEF queueVars, countVars, workerVars, managerVars, destroyVars, historyVars
<1>1. CASE ~Manager
  BY <1>0, <1>1, ManagerAlone, SMT DEF SnapshotInv, SnapshotSane
<1>2. CASE ManagerTest \/ ManagerShrink \/ ManagerSignal
  BY <1>2, SMT DEF ManagerTest, ManagerShrink, ManagerSignal
<1>3. CASE ManagerRead
  BY <1>0, <1>3, SMT DEF ManagerRead
<1>4. CASE ManagerReadBusy
  <2>1. Cardinality(Running) <= Cardinality(Alive)
    BY SlotsFinite, FS_Subset DEF Running, Alive
  <2>2. ~shutdown /\ apc = "busy" /\ apc' = "grow"
        /\ adj' = [size |-> adj.size, live |-> adj.live, busy |-> busy_thr_num]
    BY <1>4 DEF ManagerReadBusy
  <2>3. busy_thr_num <= live_thr_num /\ live_thr_num <= adj.live
    BY <1>0, <2>1, <2>2 DEF SnapshotInv, LiveCount, LiveIsAlive
  <2>4. busy_thr_num \in Int
    BY <1>0 DEF TypeOK
  <2> QED
    BY <1>0, <2>2, <2>3, <2>4, SMT
<1>5. CASE ManagerGrow
  BY <1>0, <1>5, SMT DEF ManagerGrow, SnapshotInv, SnapshotSane
<1> QED
  BY <1>1, <1>2, <1>3, <1>4, <1>5 DEF Manager

(* The manager never decides on a snapshot with more busy threads than     *)
(* live ones, although it reads the two under different mutexes.           *)
THEOREM SnapshotsSane == Spec => []SnapshotSane
<1>1. Init => SnapshotInv
  <2> SUFFICES ASSUME Init PROVE SnapshotInv
    OBVIOUS
  <2>1. pc \in [Slots -> {"top", "none"}]
    BY DEF Init
  <2>2. Running = {}
    BY <2>1, SMT DEF Running
  <2>3. busy_thr_num = Cardinality(Running)
    BY <2>2, FS_EmptySet DEF Init
  <2> QED
    BY <2>3, CountInvInit, SMT DEF Init, SnapshotInv, SnapshotSane
<1>2. SnapshotInv => SnapshotSane
  BY DEF SnapshotInv
<1> QED
  BY <1>1, <1>2, SnapshotInvStep, PTL DEF Spec
=============================================================================
