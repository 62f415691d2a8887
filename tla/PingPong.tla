------------------------------ MODULE PingPong ------------------------------
(***************************************************************************)
(* testSigchld2 of pipe/signal.c: after a fork parent and child print the  *)
(* even and the odd numbers in turn.  Each waits in a loop for its flag to *)
(* be 0, sends the other a signal and sets its flag to 1; the handler of   *)
(* the signal prints the next number and sets the flag to 0.               *)
(*                                                                         *)
(* num and flag belong to each process alone, and its main loop stands     *)
(* still while its handler runs, so the handler is one step; it may come   *)
(* between any two steps of the loop.  flag is not volatile; CMakeLists.txt *)
(* asks for no optimisation, so the loop reads it each time round.         *)
(***************************************************************************)
EXTENDS Integers

CONSTANT MaxNum   \* bound: the numbers that are printed

Players == {"parent", "child"}
Other(p) == IF p = "parent" THEN "child" ELSE "parent"

VARIABLES
    pc,        \* "register", "test", "kill", "set", "dead"
    num, flag, \* the variables of the code, for each process
    pending    \* the processes for which a signal is pending

vars == <<pc, num, flag, pending>>
-----------------------------------------------------------------------------
Init ==
    /\ pc = [p \in Players |-> "register"]
    /\ num = [p \in Players |-> IF p = "parent" THEN 0 ELSE 1]
    /\ flag = [p \in Players |-> IF p = "parent" THEN 1 ELSE 0]
    /\ pending = {}

Goto(p, from, to) == pc[p] = from /\ pc' = [pc EXCEPT ![p] = to]

Register(p) == Goto(p, "register", "test") /\ UNCHANGED <<num, flag, pending>>

(* Variant: does not look at the flag.                                     *)
TestNothing(p) == Goto(p, "test", "kill") /\ UNCHANGED <<num, flag, pending>>

Test(p) ==
    /\ flag[p] = 0
    /\ Goto(p, "test", "kill")
    /\ UNCHANGED <<num, flag, pending>>

(* A signal ends a process that has not registered its handler yet; sent   *)
(* by a child whose parent has gone it reaches nobody.                     *)
Kill(p) ==
    /\ pc[p] = "kill"
    /\ LET q == Other(p)
       IN  /\ pc' = [pc EXCEPT ![p] = "set", ![q] = IF @ = "register" THEN "dead" ELSE @]
           /\ pending' = IF pc[q] \in {"register", "dead"} THEN pending
                         ELSE pending \cup {q}
    /\ UNCHANGED <<num, flag>>

Set(p) ==
    /\ Goto(p, "set", "test")
    /\ flag' = [flag EXCEPT ![p] = 1]
    /\ UNCHANGED <<num, pending>>

(* func1, func2.  Variant: leaves the flag.                                *)
HandleOnly(p) ==
    /\ p \in pending /\ num[p] < MaxNum
    /\ pending' = pending \ {p}
    /\ num' = [num EXCEPT ![p] = @ + 2]
    /\ UNCHANGED <<pc, flag>>

Handle(p) ==
    /\ p \in pending /\ num[p] < MaxNum
    /\ pending' = pending \ {p}
    /\ num' = [num EXCEPT ![p] = @ + 2]
    /\ flag' = [flag EXCEPT ![p] = 0]
    /\ UNCHANGED pc

Player(p) == Register(p) \/ Test(p) \/ Kill(p) \/ Set(p) \/ Handle(p)
Next == \E p \in Players : Player(p)
Spec == Init /\ [][Next]_vars

(* Both processes run, and the kernel delivers a pending signal.           *)
Fairness == \A p \in Players : WF_vars(Player(p))
-----------------------------------------------------------------------------
Printed == (num["parent"] + num["child"] - 1) \div 2

(* The numbers are printed in order, none twice and none left out, though  *)
(* signals do not queue and num is not shared: the processes' numbers stay *)
(* next to each other, and at most one signal is under way.  Only the      *)
(* parent can be ended by a signal that comes before its handler.          *)
InTurn ==
    /\ num["parent"] - num["child"] \in {-1, 1}
    /\ pending # Players
    /\ \A p \in pending : num[p] < num[Other(p)]
    /\ pc["child"] # "dead"

(* The answer came between kill and flag = 1 (lines 211-212, 222-223): the *)
(* handler's flag = 0 is about to be overwritten, or has been.             *)
Overwritten == \E p \in Players :
    pc[p] = "set" /\ flag[p] = 0 /\ pending = {} /\ num[p] > num[Other(p)] /\ Printed > 0

(* Unless that happens, or the parent is ended at the start, the game goes *)
(* on to the last number.                                                  *)
GoesOn == <>(Printed = MaxNum \/ pc["parent"] = "dead" \/ Overwritten)
=============================================================================
