------------------------------- MODULE SemList ------------------------------
(***************************************************************************)
(* producer2 and consumer2 of pipe/lock.c: threads that share a list and   *)
(* two semaphores, which both start at 5, and no mutex.  As long as no two *)
(* threads are in the list at the same time (overlap) it is as long as the *)
(* insertions and removals make it; when they are, or when list_show meets *)
(* an empty list and follows NULL (linkList.c:147), what happens next is   *)
(* not defined, and the model stops.                                       *)
(***************************************************************************)
EXTENDS Integers, FiniteSets

CONSTANTS
    Producers, Consumers,   \* 5 threads each in the code
    Start                   \* the value of both semaphores at the start

VARIABLES
    sem_producer, sem_consumer,
    length,      \* of the list
    pc,          \* "wait", "call", "in", "post"; producers: "show", "showing"
    undefined

vars == <<sem_producer, sem_consumer, length, pc, undefined>>

Threads == Producers \cup Consumers
At(S, places) == Cardinality({t \in S : pc[t] \in places})
-----------------------------------------------------------------------------
Init ==
    /\ sem_producer = Start /\ sem_consumer = Start
    /\ length = 0
    /\ pc = [t \in Threads |-> "wait"]
    /\ undefined = FALSE

Goto(t, from, to) == ~undefined /\ pc[t] = from /\ pc' = [pc EXCEPT ![t] = to]

(* sem_wait: the producer's, the consumer's.                               *)
Wait(t) ==
    /\ Goto(t, "wait", "call")
    /\ \/ t \in Producers /\ sem_producer > 0
          /\ sem_producer' = sem_producer - 1 /\ UNCHANGED sem_consumer
       \/ t \in Consumers /\ sem_consumer > 0
          /\ sem_consumer' = sem_consumer - 1 /\ UNCHANGED sem_producer
    /\ UNCHANGED <<length, undefined>>

(* A list operation begins; list_tail_insert and list_poo write.           *)
Enter(t) ==
    /\ Goto(t, "call", "in")
    /\ undefined' = \E u \in Threads : pc[u] \in {"in", "showing"}
    /\ UNCHANGED <<sem_producer, sem_consumer, length>>

(* It ends.  list_poo returns NULL when the list is empty.                 *)
Insert(t) ==
    /\ t \in Producers
    /\ Goto(t, "in", "post")
    /\ length' = length + 1
    /\ UNCHANGED <<sem_producer, sem_consumer, undefined>>

Pop(t) ==
    /\ t \in Consumers
    /\ Goto(t, "in", "post")
    /\ length' = IF length > 0 THEN length - 1 ELSE 0
    /\ UNCHANGED <<sem_producer, sem_consumer, undefined>>

(* sem_post.  Variant: each its own semaphore.                             *)
PostOwn(t) ==
    /\ \/ /\ t \in Producers /\ Goto(t, "post", "show")
          /\ sem_producer' = sem_producer + 1 /\ UNCHANGED sem_consumer
       \/ /\ t \in Consumers /\ Goto(t, "post", "wait")
          /\ sem_consumer' = sem_consumer + 1 /\ UNCHANGED sem_producer
    /\ UNCHANGED <<length, undefined>>

Post(t) ==
    /\ \/ /\ t \in Producers /\ Goto(t, "post", "show")
          /\ sem_consumer' = sem_consumer + 1 /\ UNCHANGED sem_producer
       \/ /\ t \in Consumers /\ Goto(t, "post", "wait")
          /\ sem_producer' = sem_producer + 1 /\ UNCHANGED sem_consumer
    /\ UNCHANGED <<length, undefined>>

(* list_show, which only reads.                                            *)
Show(t) ==
    /\ Goto(t, "show", "showing")
    /\ undefined' = (length = 0 \/ \E u \in Threads : pc[u] = "in")
    /\ UNCHANGED <<sem_producer, sem_consumer, length>>

Shown(t) == Goto(t, "showing", "wait") /\ UNCHANGED <<sem_producer, sem_consumer, length, undefined>>

Thread(t) == Wait(t) \/ Enter(t) \/ Insert(t) \/ Pop(t) \/ Post(t) \/ Show(t) \/ Shown(t)
Next == \E t \in Threads : Thread(t)
Spec == Init /\ [][Next]_vars
-----------------------------------------------------------------------------
(* Until then nobody is left waiting beside a node: each node of the list  *)
(* has a unit of sem_consumer, or a thread that is about to take one or to *)
(* give one, although consumers also use up units on the empty list.  The  *)
(* units are never fewer or more than at the start, so that the list holds *)
(* twice Start at most and some thread can always go on.                   *)
NodesBacked ==
    /\ length <= sem_consumer + At(Consumers, {"call", "in"}) + At(Producers, {"post"})
    /\ sem_producer + sem_consumer + At(Threads, {"call", "in", "post"}) = 2 * Start
=============================================================================
