------------------------------ MODULE TaskPool ------------------------------
(***************************************************************************)
(* What a pool of threads promises its clients, whatever its queue and its *)
(* threads look like.  Tasks are numbered in the order in which the pool   *)
(* accepts them, so that the tasks still waiting are always the numbers    *)
(* started + 1 .. accepted:                                                *)
(*   - a task starts after every task accepted before it (FIFO),           *)
(*   - a task is handed to one thread, once, and finishes there,           *)
(*   - at most Capacity tasks wait, and a thread runs one task at a time.  *)
(***************************************************************************)
EXTENDS Naturals

CONSTANTS Capacity,  \* how many accepted tasks may wait
          Threads    \* the threads of the pool

VARIABLES accepted,  \* number of tasks accepted so far
          started,   \* number of tasks handed to a thread so far
          holding,   \* the task each thread runs, 0 if none
          finished   \* the tasks whose function has returned

poolVars == <<accepted, started, holding, finished>>

Init ==
    /\ accepted = 0
    /\ started = 0
    /\ holding = [t \in Threads |-> 0]
    /\ finished = {}

Accept ==
    /\ accepted - started < Capacity
    /\ accepted' = accepted + 1
    /\ UNCHANGED <<started, holding, finished>>

Start(t) ==
    /\ started < accepted
    /\ holding[t] = 0
    /\ started' = started + 1
    /\ holding' = [holding EXCEPT ![t] = started + 1]
    /\ UNCHANGED <<accepted, finished>>

Finish(t) ==
    /\ holding[t] # 0
    /\ holding' = [holding EXCEPT ![t] = 0]
    /\ finished' = finished \cup {holding[t]}
    /\ UNCHANGED <<accepted, started>>

Next == Accept \/ \E t \in Threads : Start(t) \/ Finish(t)

Spec == Init /\ [][Next]_poolVars
=============================================================================
