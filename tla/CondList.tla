------------------------------ MODULE CondList ------------------------------
(***************************************************************************)
(* The producers and consumers of pipe/lock.c that share a linked list     *)
(* under a mutex and a condition variable (testThreadMutex).  A producer   *)
(* appends a node under the mutex, signals without it and then prints the  *)
(* list, without it too.  A consumer waits while the list is empty, takes  *)
(* the last node, and frees it when it has unlocked.                       *)
(*                                                                         *)
(* A critical section of s_mutex is one step; list_show takes a step for   *)
(* each pointer it reads.  Nodes are numbered in the order of insertion.   *)
(***************************************************************************)
EXTENDS Integers, Sequences, FiniteSets

CONSTANTS Producers, Consumers,
          MaxItems    \* bound: the producers stop after that many nodes

ASSUME CondListAssumption ==
    /\ IsFiniteSet(Producers) /\ IsFiniteSet(Consumers)
    /\ Producers \cap Consumers = {}
    /\ MaxItems \in Nat

VARIABLES
    list,      \* the nodes of the list, from the head to the tail
    inserted,  \* history: how many nodes have been inserted
    pc,        \* where each thread is
    ptr,       \* the P of a producer's list_show, 0 for NULL
    value,     \* the node each consumer has taken, 0 for NULL
    freed,     \* the nodes given back to malloc
    crashed    \* a thread has followed NULL or read freed memory and died

vars == <<list, inserted, pc, ptr, value, freed, crashed>>

Threads == Producers \cup Consumers
ProducerPcs == {"insert", "signal", "show", "test", "advance"}
ConsumerPcs == {"top", "waiting", "woken", "got"}

(* The next field of a node of the list, or of one that was its last node. *)
Next_(n) ==
    IF \E k \in 1 .. Len(list) - 1 : list[k] = n
    THEN list[(CHOOSE k \in 1 .. Len(list) : list[k] = n) + 1]
    ELSE 0
-----------------------------------------------------------------------------
Init ==
    /\ list = <<>> /\ inserted = 0
    /\ pc = [t \in Threads |-> IF t \in Producers THEN "insert" ELSE "top"]
    /\ ptr = [t \in Producers |-> 0]
    /\ value = [t \in Consumers |-> 0]
    /\ freed = {}
    /\ crashed = FALSE
-----------------------------------------------------------------------------
(* producer.  list_tail_insert may fail for want of memory; its result is  *)
(* not looked at.                                                          *)
Insert(t) ==
    /\ pc[t] = "insert"
    /\ inserted < MaxItems
    /\ \/ list' = Append(list, inserted + 1) /\ inserted' = inserted + 1
       \/ UNCHANGED <<list, inserted>>
    /\ pc' = [pc EXCEPT ![t] = "signal"]
    /\ UNCHANGED <<ptr, value, freed, crashed>>

(* Variant: wakes a consumer only if the list was empty before.            *)
SignalIfFirst(t) ==
    /\ pc[t] = "signal"
    /\ \/ /\ Len(list) # 1 \/ \A c \in Consumers : pc[c] # "waiting"
          /\ pc' = [pc EXCEPT ![t] = "show"]
       \/ \E c \in Consumers : /\ pc[c] = "waiting" /\ Len(list) = 1
                               /\ pc' = [pc EXCEPT ![t] = "show", ![c] = "woken"]
    /\ UNCHANGED <<list, inserted, ptr, value, freed, crashed>>

Signal(t) ==
    /\ pc[t] = "signal"
    /\ \/ /\ \A c \in Consumers : pc[c] # "waiting"
          /\ pc' = [pc EXCEPT ![t] = "show"]
       \/ \E c \in Consumers : /\ pc[c] = "waiting"
                               /\ pc' = [pc EXCEPT ![t] = "show", ![c] = "woken"]
    /\ UNCHANGED <<list, inserted, ptr, value, freed, crashed>>

(* list_show reads P->next: of a node of the list, of one a consumer has   *)
(* unlinked, of NULL, or of a freed node.  The memory of a freed node may  *)
(* be gone, hold NULL, or be a node of the list again.                     *)
Show(t) ==
    /\ pc[t] = "show"
    /\ ptr' = [ptr EXCEPT ![t] = IF list = <<>> THEN 0 ELSE Head(list)]
    /\ pc' = [pc EXCEPT ![t] = "test"]
    /\ UNCHANGED <<list, inserted, value, freed, crashed>>

ShowDies(t) ==
    /\ pc[t] \in {"test", "advance"}
    /\ ptr[t] \in freed \cup {0}
    /\ crashed' = TRUE
    /\ UNCHANGED <<list, inserted, pc, ptr, value, freed>>

ShowStray(t) ==
    /\ pc[t] = "test"
    /\ ptr[t] \in freed
    /\ \E n \in {list[k] : k \in 1 .. Len(list)} : ptr' = [ptr EXCEPT ![t] = n]
    /\ UNCHANGED <<list, inserted, pc, value, freed, crashed>>

ShowTest(t) ==
    /\ pc[t] = "test"
    /\ ptr[t] # 0
    /\ pc' = [pc EXCEPT ![t] = IF Next_(ptr[t]) = 0 THEN "insert" ELSE "advance"]
    /\ UNCHANGED <<list, inserted, ptr, value, freed, crashed>>

ShowAdvance(t) ==
    /\ pc[t] = "advance"
    /\ ptr' = [ptr EXCEPT ![t] = Next_(ptr[t])]
    /\ pc' = [pc EXCEPT ![t] = "test"]
    /\ UNCHANGED <<list, inserted, value, freed, crashed>>
-----------------------------------------------------------------------------
(* consumer.  Variant: takes the node and leaves it linked.                *)
PopLinked(t) ==
    /\ value' = [value EXCEPT ![t] = IF list = <<>> THEN 0 ELSE list[Len(list)]]
    /\ pc' = [pc EXCEPT ![t] = IF list = <<>> THEN "top" ELSE "got"]
    /\ UNCHANGED list

(* list_poo, and what the consumer does after unlocking if it is NULL.     *)
Pop(t) ==
    IF list = <<>>
    THEN pc' = [pc EXCEPT ![t] = "top"] /\ UNCHANGED <<list, value>>
    ELSE /\ value' = [value EXCEPT ![t] = list[Len(list)]]
         /\ list' = SubSeq(list, 1, Len(list) - 1)
         /\ pc' = [pc EXCEPT ![t] = "got"]

(* Variant: waits without looking at the list first.                       *)
ConsumerTopWaits(t) ==
    /\ pc[t] = "top"
    /\ pc' = [pc EXCEPT ![t] = "waiting"]
    /\ UNCHANGED <<list, inserted, ptr, value, freed, crashed>>

ConsumerTop(t) ==
    /\ pc[t] = "top"
    /\ IF list = <<>>
       THEN pc' = [pc EXCEPT ![t] = "waiting"] /\ UNCHANGED <<list, value>>
       ELSE Pop(t)
    /\ UNCHANGED <<inserted, ptr, freed, crashed>>

(* Back from pthread_cond_wait the consumer does not look again whether    *)
(* the list is empty: another consumer may have emptied it.                *)
ConsumerWake(t) ==
    /\ pc[t] = "woken"
    /\ Pop(t)
    /\ UNCHANGED <<inserted, ptr, freed, crashed>>

Free(t) ==
    /\ pc[t] = "got"
    /\ freed' = freed \cup {value[t]}
    /\ value' = [value EXCEPT ![t] = 0]
    /\ pc' = [pc EXCEPT ![t] = "top"]
    /\ UNCHANGED <<list, inserted, ptr, crashed>>

(* POSIX lets pthread_cond_wait return without a signal.                   *)
SpuriousWakeup ==
    /\ ~crashed
    /\ \E c \in Consumers : /\ pc[c] = "waiting"
                            /\ pc' = [pc EXCEPT ![c] = "woken"]
    /\ UNCHANGED <<list, inserted, ptr, value, freed, crashed>>

Producer(t) ==
    /\ ~crashed
    /\ \/ Insert(t) \/ Signal(t)
       \/ Show(t) \/ ShowDies(t) \/ ShowStray(t) \/ ShowTest(t) \/ ShowAdvance(t)
Consumer(t) == ~crashed /\ (ConsumerTop(t) \/ ConsumerWake(t) \/ Free(t))

Next == \/ \E t \in Producers : Producer(t)
        \/ \E t \in Consumers : Consumer(t)
        \/ SpuriousWakeup

(* Threads that can run are scheduled; pthread_cond_wait does not for ever *)
(* return without a signal.                                                *)
Spec == Init /\ [][Next]_vars
Fairness == /\ \A t \in Producers : WF_vars(Producer(t))
            /\ \A t \in Consumers : WF_vars(Consumer(t))
            /\ <>[][~SpuriousWakeup]_vars
FairSpec == Spec /\ Fairness
-----------------------------------------------------------------------------
(* Every variable keeps its type, and the list holds inserted nodes only.  *)
TypeOK ==
    /\ list \in Seq(1 .. inserted) /\ inserted \in Nat
    /\ pc \in [Threads -> ProducerPcs \cup ConsumerPcs]
    /\ \A t \in Producers : pc[t] \in ProducerPcs
    /\ \A t \in Consumers : pc[t] \in ConsumerPcs
    /\ ptr \in [Producers -> 0 .. inserted]
    /\ value \in [Consumers -> 0 .. inserted]
    /\ freed \subseteq 1 .. inserted /\ crashed \in BOOLEAN

(* However the consumers race for the nodes, each inserted node is in the  *)
(* list, in the hands of one consumer, or freed, and only one of these: no *)
(* node is lost and no node is freed twice (line 118).                     *)
Linked == {list[k] : k \in 1 .. Len(list)}
Taken == {value[t] : t \in Consumers} \ {0}
OneOwner ==
    /\ Linked \cup Taken \cup freed = 1 .. inserted
    /\ Linked \cap Taken = {} /\ Linked \cap freed = {} /\ Taken \cap freed = {}
    /\ \A k, m \in 1 .. Len(list) : list[k] = list[m] => k = m
    /\ \A t, u \in Consumers : value[t] = value[u] /\ value[t] # 0 => t = u

(* The producer signals after it has unlocked (line 93), and a woken       *)
(* consumer does not test again: still, while one consumer sleeps, every   *)
(* node of the list has a consumer coming for it, or a signal.             *)
Coming == {t \in Consumers : pc[t] \in {"top", "woken", "got"}}
Signalling == {t \in Producers : pc[t] = "signal"}
NoIdleConsumer ==
    (\E t \in Consumers : pc[t] = "waiting")
        => Len(list) <= Cardinality(Coming) + Cardinality(Signalling)

(* Once the producers are done, every node is consumed and freed, unless   *)
(* the process has died in list_show.                                      *)
Drained == inserted = MaxItems ~> freed = 1 .. MaxItems \/ crashed

(* The nodes, and the threads' places and pointers.                        *)
NodesOK == TypeOK /\ OneOwner
=============================================================================
