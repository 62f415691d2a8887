------------------------------ MODULE Counters ------------------------------
(***************************************************************************)
(* Threads that count under a lock: testRwlock of pipe/lock.c, writers and *)
(* readers of n_number under a reader-writer lock, and testCreateThread6   *)
(* of pipe/thread.c, two threads that add to s_number under a mutex, which *)
(* is the same without readers, and a main thread that joins them and      *)
(* prints the number.  The number is read into a local variable and        *)
(* written back in a step of its own.                                      *)
(***************************************************************************)
EXTENDS Integers, FiniteSetsExt

CONSTANTS
    Writers, Readers,
    Rounds   \* of each thread: 5000 in thread.c, a bound for those of lock.c

Threads == Writers \cup Readers

VARIABLES
    number,       \* n_number, s_number
    holders,      \* of the lock
    pc, cur,      \* each thread: "lock", "read", "write", "unlock"; its copy
    round,        \* the rounds each thread has ended
    total         \* what main has printed, -1 before

vars == <<number, holders, pc, cur, round, total>>
-----------------------------------------------------------------------------
Init ==
    /\ number = 0 /\ holders = {} /\ total = -1
    /\ pc = [t \in Threads |-> "lock"] /\ cur = [t \in Threads |-> 0]
    /\ round = [t \in Threads |-> 0]

(* pthread_rwlock_wrlock, pthread_rwlock_rdlock, pthread_mutex_lock.       *)
(* Variant: readers do not keep a writer out.                              *)
LockOften(t) ==
    /\ pc[t] = "lock" /\ round[t] < Rounds
    /\ holders \cap Writers = {}
    /\ holders' = holders \cup {t}
    /\ pc' = [pc EXCEPT ![t] = "read"]
    /\ UNCHANGED <<number, cur, round, total>>

Lock(t) ==
    /\ pc[t] = "lock" /\ round[t] < Rounds
    /\ holders = {} \/ (t \in Readers /\ holders \subseteq Readers)
    /\ holders' = holders \cup {t}
    /\ pc' = [pc EXCEPT ![t] = "read"]
    /\ UNCHANGED <<number, cur, round, total>>

Read(t) ==
    /\ pc[t] = "read"
    /\ cur' = [cur EXCEPT ![t] = IF t \in Writers THEN number + 1 ELSE number]
    /\ pc' = [pc EXCEPT ![t] = IF t \in Writers THEN "write" ELSE "unlock"]
    /\ UNCHANGED <<number, holders, round, total>>

Write(t) ==
    /\ pc[t] = "write"
    /\ number' = cur[t]
    /\ pc' = [pc EXCEPT ![t] = "unlock"]
    /\ UNCHANGED <<holders, cur, round, total>>

(* cur is printed before the lock is given back.                           *)
Unlock(t) ==
    /\ pc[t] = "unlock"
    /\ holders' = holders \ {t}
    /\ round' = [round EXCEPT ![t] = @ + 1]
    /\ pc' = [pc EXCEPT ![t] = "lock"]
    /\ UNCHANGED <<number, cur, total>>

(* testCreateThread6 after its joins.                                      *)
Joined ==
    /\ Readers = {} /\ total = -1
    /\ \A t \in Writers : round[t] = Rounds
    /\ total' = number
    /\ UNCHANGED <<number, holders, pc, cur, round>>

Next == Joined \/ \E t \in Threads : Lock(t) \/ Read(t) \/ Write(t) \/ Unlock(t)
Spec == Init /\ [][Next]_vars
-----------------------------------------------------------------------------
(* No addition is lost, and what a thread prints is the number at that     *)
(* very moment: nobody writes between its access and its printing.  Main   *)
(* prints the sum of all the rounds.                                       *)
CountRight ==
    /\ number = MapThenSumSet(LAMBDA t : round[t], Writers)
                + Cardinality({t \in Writers : pc[t] = "unlock"})
    /\ \A t \in Threads : pc[t] = "unlock" => cur[t] = number
    /\ total \in {-1, Cardinality(Writers) * Rounds}
=============================================================================
