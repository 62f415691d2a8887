--------------------------- MODULE ProgramsProofs ---------------------------
(***************************************************************************)
(* What is proved of the programs of MCPrograms: no child is forgotten,    *)
(* the numbers come in turn, the nodes of the list are backed by units of  *)
(* the semaphore, the answers are the client's own, the log's files are    *)
(* what it says they are, no count made under a lock is lost, names are    *)
(* decoded to what they stand for, and a text arrives in whole pieces; for *)
(* any number of children, threads, clients and inputs, and for names,     *)
(* texts and buffers of any length.                                        *)
(***************************************************************************)
EXTENDS MCPrograms, FiniteSetTheorems, SequenceTheorems, WellFoundedInduction, TLAPS

(* Where the parent stands decides what it has done to its signals; and    *)
(* already while SIGCHLD is blocked each zombie has left it pending.       *)
Mask ==
    /\ pc \in {"fork", "install", "unblock"} => blocked
    /\ installed <=> pc \in {"unblock", "sleep"}
    /\ handler # "out" => pc = "sleep"
NotYet == pc = "block" => \A c \in Children : child[c] = "none"
Remembered ==
    KeepsIgnored /\ pc # "gone" /\ Zombies # {} => pending \/ handler = "wait"

ReaperTypes ==
    /\ child \in [Children -> {"none", "running", "zombie", "reaped"}]
    /\ pending \in BOOLEAN /\ blocked \in BOOLEAN /\ installed \in BOOLEAN
    /\ pc \in ParentPcs /\ handler \in {"out", "wait", "return"}
    /\ i \in 0 .. NumChildren
ReaperInv == ReaperTypes /\ Mask /\ NotYet /\ Remembered

LEMMA InitReaper == Init => ReaperInv
<1> SUFFICES ASSUME Init PROVE ReaperInv
  OBVIOUS
<1>1. Zombies = {}
  BY DEF Init, Zombies
<1>2. 0 \in 0 .. NumChildren
  BY ReaperAssumption
<1> QED BY <1>1, <1>2 DEF Init, ReaperInv, ReaperTypes, Mask, NotYet, Remembered, ParentPcs

(* A step that leaves the children as they are leaves the zombies.         *)
LEMMA ParentStep == ReaperInv /\ Parent => ReaperInv'
<1> SUFFICES ASSUME ReaperInv, Parent PROVE ReaperInv'
  OBVIOUS
<1> USE DEF ReaperInv, ReaperTypes, Mask, NotYet, ParentPcs
<1>1. CASE Block
  BY <1>1 DEF Block, Remembered, Zombies
<1>2. CASE Fork
  <2>1. CASE child' = [child EXCEPT ![i + 1] = "running"] /\ i' = i + 1 /\ UNCHANGED pc
    <3>1. i + 1 \in Children /\ i' \in 0 .. NumChildren
      BY <1>2, <2>1, ReaperAssumption DEF Fork, Children
    <3>2. Zombies' \subseteq Zombies
      BY <2>1, <3>1 DEF Zombies
    <3> QED BY <1>2, <2>1, <3>1, <3>2 DEF Fork, Remembered
  <2>2. CASE pc' = "gone" /\ UNCHANGED <<child, i>>
    BY <1>2, <2>2 DEF Fork, Remembered
  <2> QED BY <1>2, <2>1, <2>2 DEF Fork
<1>3. CASE Forked
  BY <1>3 DEF Forked, Remembered, Zombies
<1>4. CASE Install
  BY <1>4 DEF Install, Remembered, Zombies
<1>5. CASE Unblock
  <2>1. Zombies' = Zombies
    BY <1>5 DEF Unblock, Zombies
  <2> QED BY <1>5, <2>1 DEF Unblock, Remembered
<1> QED BY <1>1, <1>2, <1>3, <1>4, <1>5 DEF Parent

LEMMA HandlerStep == ReaperInv /\ Handler => ReaperInv'
<1> SUFFICES ASSUME ReaperInv, Handler PROVE ReaperInv'
  OBVIOUS
<1> USE DEF ReaperInv, ReaperTypes, Mask, NotYet, ParentPcs
<1>1. CASE Deliver
  <2>1. pc = "sleep"
    BY <1>1 DEF Deliver
  <2> QED BY <1>1, <2>1 DEF Deliver, Remembered
<1>2. CASE WaitPid
  <2>1. CASE Zombies = {}
    <3>1. UNCHANGED child
      BY <1>2, <2>1 DEF WaitPid
    <3>2. Zombies' = {}
      BY <2>1, <3>1 DEF Zombies
    <3> QED BY <1>2, <2>1, <3>1, <3>2 DEF WaitPid, Remembered
  <2>2. CASE Zombies # {}
    <3>1. PICK c \in Zombies : child' = [child EXCEPT ![c] = "reaped"]
      BY <1>2, <2>2 DEF WaitPid
    <3>2. c \in Children /\ handler' = "wait"
      BY <1>2, <2>2 DEF WaitPid, Zombies
    <3> QED BY <1>2, <3>1, <3>2 DEF WaitPid, Remembered
  <2> QED BY <2>1, <2>2
<1>3. CASE Return
  BY <1>3 DEF Return, Remembered, Zombies
<1> QED BY <1>1, <1>2, <1>3 DEF Handler

LEMMA ExitStep == ASSUME NEW c \in Children PROVE ReaperInv /\ Exit(c) => ReaperInv'
<1> SUFFICES ASSUME ReaperInv, Exit(c) PROVE ReaperInv'
  OBVIOUS
<1>1. pc \in {"fork", "install", "unblock", "sleep", "gone"}
  BY DEF ReaperInv, ReaperTypes, NotYet, ParentPcs, Exit
<1>2. ReaperTypes' /\ Mask' /\ NotYet'
  BY <1>1 DEF ReaperInv, ReaperTypes, Mask, NotYet, Exit
<1>3. KeepsIgnored /\ pc # "gone" => pending'
  BY <1>1 DEF ReaperInv, ReaperTypes, Mask, Exit
<1> QED BY <1>2, <1>3 DEF ReaperInv, Remembered, Exit

LEMMA ReaperStep == ReaperInv /\ [Next]_vars => ReaperInv'
<1>1. ReaperInv /\ UNCHANGED vars => ReaperInv'
  BY DEF ReaperInv, ReaperTypes, Mask, NotYet, Remembered, Zombies, vars
<1> QED
  BY <1>1, ParentStep, HandlerStep, ExitStep DEF Next

LEMMA ReaperInvariance == Spec => []ReaperInv
BY InitReaper, ReaperStep, PTL DEF Spec

(* The variables keep their types and waitchild never runs before the      *)
(* parent has let its signal through.                                      *)
THEOREM TypeCorrect == Spec => []TypeOK
<1>1. ReaperInv => TypeOK
  BY DEF ReaperInv, ReaperTypes, Mask, TypeOK
<1> QED BY <1>1, ReaperInvariance, PTL

(* However many children end at whatever moment, as long as one of them is *)
(* a zombie the handler is at its loop or its signal is pending.           *)
THEOREM NobodyForgotten == Spec => []NoneForgotten
<1>1. ReaperInv => NoneForgotten
  BY DEF ReaperInv, Remembered, NoneForgotten
<1> QED BY <1>1, ReaperInvariance, PTL
-----------------------------------------------------------------------------
(* A step is one of the program that runs.                                 *)
LEMMA Alone ==
    ASSUME [ProgramsNext]_ProgramsVars
    PROVE  /\ Pong!Next \/ UNCHANGED pongVars
           /\ Sem!Next \/ UNCHANGED semVars
           /\ Udp!Next \/ UNCHANGED udpVars
           /\ Log!Next \/ UNCHANGED logVars
           /\ Url!Next \/ UNCHANGED urlVars
           /\ Wrap!Next \/ UNCHANGED wrapVars
           /\ Next \/ UNCHANGED vars
BY DEF ProgramsNext, OthersStay, ProgramsVars

(* The same of testSigchld where another program may run in its place.     *)
THEOREM NoChildForgotten == ProgramsSpec => []NoneForgotten
<1>1. ProgramsInit => ReaperInv
  <2> SUFFICES ASSUME ProgramsInit PROVE ReaperInv
    OBVIOUS
  <2>1. CASE program = "sigchld"
    BY <2>1, InitReaper DEF ProgramsInit
  <2>2. CASE program # "sigchld"
    <3>1. /\ child = [c \in Children |-> "none"] /\ i = 0
          /\ pending = FALSE /\ blocked = TRUE /\ installed = FALSE
          /\ pc = "gone" /\ handler = "out"
      BY <2>2 DEF ProgramsInit
    <3>2. 0 \in 0 .. NumChildren
      BY ReaperAssumption
    <3> QED
      BY <3>1, <3>2 DEF ReaperInv, ReaperTypes, Mask, NotYet, Remembered, ParentPcs
  <2> QED
    BY <2>1, <2>2
<1>2. ReaperInv /\ [ProgramsNext]_ProgramsVars => ReaperInv'
  BY Alone, ReaperStep
<1>3. ReaperInv => NoneForgotten
  BY DEF ReaperInv, Remembered, NoneForgotten
<1> QED
  BY <1>1, <1>2, <1>3, PTL DEF ProgramsSpec
-----------------------------------------------------------------------------
(* testSigchld2.  The turn is with the player who has printed last: the    *)
(* other one is in its loop with flag 1, or will be when flag = 1 is done; *)
(* and as long as the one whose turn it is has still to signal, nothing is *)
(* pending.  A child without a handler has the turn, so that no signal     *)
(* ends it.                                                                *)
Turn(p) == num[p] > num[Pong!Other(p)]
PongInv ==
    /\ pong_pc \in [Pong!Players -> {"register", "test", "kill", "set", "dead"}]
    /\ num \in [Pong!Players -> Int] /\ flag \in [Pong!Players -> {0, 1}]
    /\ sent \subseteq Pong!Players
    /\ num["parent"] - num["child"] \in {-1, 1}
    /\ \A p \in Pong!Players :
          IF Turn(p)
          THEN pong_pc[p] = "kill" \/ (flag[p] = 0 /\ pong_pc[p] # "set") => sent = {}
          ELSE pong_pc[p] # "kill" /\ (flag[p] = 0 => pong_pc[p] = "set")
    /\ \A p \in sent : ~Turn(p)
    /\ pong_pc["child"] # "dead"
    /\ pong_pc["child"] = "register" => flag["child"] = 0

LEMMA InitPong == ProgramsInit => PongInv
BY DEF ProgramsInit, PongInv, Turn, Pong!Init, Pong!Players, Pong!Other

LEMMA PongStep ==
    ASSUME PongInv, NEW p \in Pong!Players, Pong!Player(p)
    PROVE  PongInv'
<1> DEFINE q == Pong!Other(p)
<1>1. /\ q \in Pong!Players /\ q # p /\ Pong!Other(q) = p
      /\ \A x \in Pong!Players : x = p \/ x = q
      /\ (p = "parent" /\ q = "child") \/ (p = "child" /\ q = "parent")
  BY DEF Pong!Players, Pong!Other
<1>2. /\ pong_pc \in [Pong!Players -> {"register", "test", "kill", "set", "dead"}]
      /\ num \in [Pong!Players -> Int] /\ flag \in [Pong!Players -> {0, 1}]
      /\ sent \subseteq Pong!Players
  BY DEF PongInv
<1>3. /\ num[p] - num[q] \in {-1, 1} /\ num[p] \in Int /\ num[q] \in Int
      /\ \A x \in sent : x = p \/ x = q
  BY <1>1, <1>2 DEF PongInv
<1>4. /\ Turn(p) <=> num[p] = num[q] + 1
      /\ Turn(q) <=> num[q] = num[p] + 1
  BY <1>1, <1>3 DEF Turn
<1>5. /\ Turn(p) => (pong_pc[p] = "kill" \/ (flag[p] = 0 /\ pong_pc[p] # "set") => sent = {})
      /\ Turn(q) => (pong_pc[q] = "kill" \/ (flag[q] = 0 /\ pong_pc[q] # "set") => sent = {})
      /\ ~Turn(p) => pong_pc[p] # "kill" /\ (flag[p] = 0 => pong_pc[p] = "set")
      /\ ~Turn(q) => pong_pc[q] # "kill" /\ (flag[q] = 0 => pong_pc[q] = "set")
      /\ p \in sent => ~Turn(p)
      /\ q \in sent => ~Turn(q)
      /\ pong_pc["child"] # "dead" /\ (pong_pc["child"] = "register" => flag["child"] = 0)
  BY <1>1 DEF PongInv
<1> HIDE DEF q
<1>6. CASE Pong!Register(p) \/ Pong!Test(p)
  <2>1. /\ UNCHANGED <<num, flag, sent>>
        /\ pong_pc' \in [Pong!Players -> {"register", "test", "kill", "set", "dead"}]
        /\ pong_pc'[q] = pong_pc[q] /\ pong_pc'[p] \in {"test", "kill"}
        /\ pong_pc[p] \in {"register", "test"} /\ (pong_pc'[p] = "kill" => flag[p] = 0)
    BY <1>1, <1>2, <1>6 DEF Pong!Register, Pong!Test, Pong!Goto
  <2>2. Turn(p)' = Turn(p) /\ Turn(q)' = Turn(q)
    BY <2>1 DEF Turn
  <2>3. \A x \in Pong!Players :
          IF Turn(x)'
          THEN pong_pc'[x] = "kill" \/ (flag'[x] = 0 /\ pong_pc'[x] # "set") => sent' = {}
          ELSE pong_pc'[x] # "kill" /\ (flag'[x] = 0 => pong_pc'[x] = "set")
    BY <1>1, <1>5, <2>1, <2>2
  <2>4. \A x \in sent' : ~Turn(x)'
    BY <1>3, <1>5, <2>1, <2>2
  <2>5. pong_pc'["child"] # "dead" /\ (pong_pc'["child"] = "register" => flag'["child"] = 0)
    BY <1>1, <1>5, <2>1
  <2> QED
    BY <1>2, <2>1, <2>3, <2>4, <2>5 DEF PongInv
<1>7. CASE Pong!Kill(p)
  <2>1. Turn(p) /\ sent = {} /\ pong_pc[p] = "kill" /\ ~Turn(q)
    BY <1>3, <1>4, <1>5, <1>7 DEF Pong!Kill
  <2>2. /\ UNCHANGED <<num, flag>> /\ sent' \subseteq {q}
        /\ pong_pc' = [pong_pc EXCEPT ![p] = "set", ![q] = IF @ = "register" THEN "dead" ELSE @]
    BY <1>7, <2>1 DEF Pong!Kill, q
  <2>3. /\ pong_pc' \in [Pong!Players -> {"register", "test", "kill", "set", "dead"}]
        /\ pong_pc'[p] = "set"
        /\ pong_pc'[q] = IF pong_pc[q] = "register" THEN "dead" ELSE pong_pc[q]
    BY <1>1, <1>2, <2>2
  <2>4. Turn(p)' = Turn(p) /\ Turn(q)' = Turn(q)
    BY <2>2 DEF Turn
  <2>5. pong_pc[q] = "register" => flag[q] # 0
    BY <1>5, <2>1
  <2>6. \A x \in Pong!Players :
          IF Turn(x)'
          THEN pong_pc'[x] = "kill" \/ (flag'[x] = 0 /\ pong_pc'[x] # "set") => sent' = {}
          ELSE pong_pc'[x] # "kill" /\ (flag'[x] = 0 => pong_pc'[x] = "set")
    BY <1>1, <1>5, <2>1, <2>2, <2>3, <2>4, <2>5
  <2>7. \A x \in sent' : ~Turn(x)'
    BY <2>1, <2>2, <2>4
  <2>8. pong_pc'["child"] # "dead" /\ (pong_pc'["child"] = "register" => flag'["child"] = 0)
    BY <1>1, <1>5, <2>2, <2>3, <2>5
  <2>9. sent' \subseteq Pong!Players
    BY <1>1, <2>2
  <2> QED
    BY <1>2, <2>2, <2>3, <2>6, <2>7, <2>8, <2>9 DEF PongInv
<1>8. CASE Pong!Set(p)
  <2>1. /\ UNCHANGED <<num, sent>> /\ pong_pc[p] = "set"
        /\ pong_pc' = [pong_pc EXCEPT ![p] = "test"] /\ flag' = [flag EXCEPT ![p] = 1]
    BY <1>8 DEF Pong!Set, Pong!Goto
  <2>2. /\ pong_pc' \in [Pong!Players -> {"register", "test", "kill", "set", "dead"}]
        /\ flag' \in [Pong!Players -> {0, 1}]
        /\ pong_pc'[p] = "test" /\ pong_pc'[q] = pong_pc[q] /\ flag'[p] = 1 /\ flag'[q] = flag[q]
    BY <1>1, <1>2, <2>1
  <2>3. Turn(p)' = Turn(p) /\ Turn(q)' = Turn(q)
    BY <2>1 DEF Turn
  <2>4. \A x \in Pong!Players :
          IF Turn(x)'
          THEN pong_pc'[x] = "kill" \/ (flag'[x] = 0 /\ pong_pc'[x] # "set") => sent' = {}
          ELSE pong_pc'[x] # "kill" /\ (flag'[x] = 0 => pong_pc'[x] = "set")
    BY <1>1, <1>5, <2>1, <2>2, <2>3
  <2>5. \A x \in sent' : ~Turn(x)'
    BY <1>3, <1>5, <2>1, <2>3
  <2>6. pong_pc'["child"] # "dead" /\ (pong_pc'["child"] = "register" => flag'["child"] = 0)
    BY <1>1, <1>5, <2>2
  <2> QED
    BY <1>2, <2>1, <2>2, <2>4, <2>5, <2>6 DEF PongInv
<1>9. CASE Pong!Handle(p)
  <2>1. /\ p \in sent /\ sent' = sent \ {p} /\ UNCHANGED pong_pc
        /\ num' = [num EXCEPT ![p] = @ + 2] /\ flag' = [flag EXCEPT ![p] = 0]
    BY <1>9 DEF Pong!Handle
  <2>2. ~Turn(p) /\ Turn(q) /\ sent = {p} /\ sent' = {}
    BY <1>3, <1>4, <1>5, <2>1
  <2>3. /\ num' \in [Pong!Players -> Int] /\ flag' \in [Pong!Players -> {0, 1}]
        /\ num'[p] = num[p] + 2 /\ num'[q] = num[q] /\ flag'[p] = 0 /\ flag'[q] = flag[q]
    BY <1>1, <1>2, <2>1
  <2>4. num'[p] = num'[q] + 1
    BY <1>3, <1>4, <2>2, <2>3
  <2>5. Turn(p)' /\ ~Turn(q)'
    <3>1. num'[q] \in Int
      BY <1>3, <2>3
    <3> QED
      BY <1>1, <2>4, <3>1 DEF Turn, q
  <2>6. \A x \in Pong!Players :
          IF Turn(x)'
          THEN pong_pc'[x] = "kill" \/ (flag'[x] = 0 /\ pong_pc'[x] # "set") => sent' = {}
          ELSE pong_pc'[x] # "kill" /\ (flag'[x] = 0 => pong_pc'[x] = "set")
    BY <1>1, <1>5, <2>1, <2>2, <2>3, <2>5
  <2>7. num'["parent"] - num'["child"] \in {-1, 1}
    BY <1>1, <1>3, <2>3, <2>4
  <2>8. pong_pc'["child"] # "dead" /\ (pong_pc'["child"] = "register" => flag'["child"] = 0)
    BY <1>1, <1>5, <2>1, <2>3
  <2> QED
    BY <1>2, <2>1, <2>2, <2>3, <2>6, <2>7, <2>8 DEF PongInv
<1> QED
  BY <1>6, <1>7, <1>8, <1>9 DEF Pong!Player

(* InTurn: the numbers are printed in order, none twice and none left out, *)
(* whenever the signals come.                                              *)
THEOREM NumbersInTurn == ProgramsSpec => []InTurn
<1>1. PongInv /\ [ProgramsNext]_ProgramsVars => PongInv'
  <2> SUFFICES ASSUME PongInv, [ProgramsNext]_ProgramsVars PROVE PongInv'
    OBVIOUS
  <2>1. CASE Pong!Next
    BY <2>1, PongStep DEF Pong!Next
  <2>2. CASE UNCHANGED pongVars
    BY <2>2 DEF PongInv, Turn, pongVars
  <2> QED
    BY <2>1, <2>2, Alone
<1>2. PongInv => InTurn
  <2> SUFFICES ASSUME PongInv PROVE InTurn
    OBVIOUS
  <2>1. /\ num["parent"] \in Int /\ num["child"] \in Int
        /\ num["parent"] - num["child"] \in {-1, 1} /\ \A p \in sent : ~Turn(p)
        /\ pong_pc["child"] # "dead" /\ sent \subseteq Pong!Players
    BY DEF PongInv, Pong!Players
  <2>2. \A p \in sent : num[p] < num[Pong!Other(p)]
    BY <2>1 DEF Turn, Pong!Players, Pong!Other
  <2>3. sent # Pong!Players
    BY <2>1 DEF Turn, Pong!Players, Pong!Other
  <2> QED
    BY <2>1, <2>2, <2>3 DEF InTurn, Pong!InTurn
<1> QED
  BY InitPong, <1>1, <1>2, PTL DEF ProgramsSpec
-----------------------------------------------------------------------------
(* producer2 and consumer2.  One thread moves at a time, and the number of *)
(* threads of a kind at some places changes by that one.                   *)
LEMMA MovesOut ==
    ASSUME NEW S, IsFiniteSet(S), NEW t \in S, NEW places, NEW f, NEW g,
           f[t] \in places, g[t] \notin places, \A u \in S \ {t} : g[u] = f[u]
    PROVE  Cardinality({u \in S : g[u] \in places}) = Cardinality({u \in S : f[u] \in places}) - 1
<1> DEFINE A == {u \in S : f[u] \in places}
<1>1. {u \in S : g[u] \in places} = A \ {t}
  OBVIOUS
<1>2. IsFiniteSet(A) /\ t \in A
  BY FS_Subset
<1> HIDE DEF A
<1>3. Cardinality(A \ {t}) = Cardinality(A) - 1
  BY <1>2, FS_RemoveElement
<1> QED
  BY <1>1, <1>3 DEF A

LEMMA MovesIn ==
    ASSUME NEW S, IsFiniteSet(S), NEW t \in S, NEW places, NEW f, NEW g,
           f[t] \notin places, g[t] \in places, \A u \in S \ {t} : g[u] = f[u]
    PROVE  Cardinality({u \in S : g[u] \in places}) = Cardinality({u \in S : f[u] \in places}) + 1
<1> DEFINE A == {u \in S : f[u] \in places}
<1>1. {u \in S : g[u] \in places} = A \cup {t}
  OBVIOUS
<1>2. IsFiniteSet(A) /\ t \notin A
  BY FS_Subset
<1> HIDE DEF A
<1>3. Cardinality(A \cup {t}) = Cardinality(A) + 1
  BY <1>2, FS_AddElement
<1> QED
  BY <1>1, <1>3 DEF A

LEMMA AtCounts ==
    ASSUME NEW S, NEW places
    PROVE  /\ Sem!At(S, places) = Cardinality({u \in S : sem_pc[u] \in places})
           /\ Sem!At(S, places)' = Cardinality({u \in S : sem_pc'[u] \in places})
<1>1. \A A : Sem!Cardinality(A) = Cardinality(A)
  BY DEF Sem!Cardinality, Cardinality
<1> QED
  BY <1>1 DEF Sem!At

LEMMA Moves ==
    ASSUME NEW t \in Sem!Threads, NEW a, NEW b, Sem!Goto(t, a, b),
           DOMAIN sem_pc = Sem!Threads,
           NEW S \in {Producers, Consumers, Sem!Threads}, NEW places
    PROVE  /\ Sem!At(S, places) \in Nat /\ Sem!At(S, places)' \in Nat
           /\ Sem!At(S, places)' = IF t \notin S \/ (a \in places <=> b \in places)
                                   THEN Sem!At(S, places)
                                   ELSE IF a \in places THEN Sem!At(S, places) - 1
                                   ELSE Sem!At(S, places) + 1
<1>1. IsFiniteSet(S) /\ S \subseteq Sem!Threads
  <2>1. IsFiniteSet(Producers) /\ IsFiniteSet(Consumers)
    BY ProgramsAssumption
  <2>2. IsFiniteSet(Producers \cup Consumers)
    BY <2>1, FS_Union
  <2> QED
    BY <2>1, <2>2 DEF Sem!Threads
<1>2. /\ sem_pc[t] = a /\ sem_pc'[t] = b
      /\ \A u \in Sem!Threads \ {t} : sem_pc'[u] = sem_pc[u]
  BY DEF Sem!Goto
<1>3. /\ Sem!At(S, places) = Cardinality({u \in S : sem_pc[u] \in places})
      /\ Sem!At(S, places)' = Cardinality({u \in S : sem_pc'[u] \in places})
  BY AtCounts
<1>4. Sem!At(S, places) \in Nat /\ Sem!At(S, places)' \in Nat
  <2>1. IsFiniteSet({u \in S : sem_pc[u] \in places}) /\ IsFiniteSet({u \in S : sem_pc'[u] \in places})
    BY <1>1, FS_Subset
  <2> QED
    BY <1>3, <2>1, FS_CardinalityType
<1>5. CASE t \notin S \/ (a \in places <=> b \in places)
  <2>1. {u \in S : sem_pc'[u] \in places} = {u \in S : sem_pc[u] \in places}
    BY <1>1, <1>2, <1>5
  <2> QED
    BY <1>4, <1>3, <1>5, <2>1
<1>6. CASE t \in S /\ a \in places /\ b \notin places
  <2>1. \A u \in S \ {t} : sem_pc'[u] = sem_pc[u]
    BY <1>1, <1>2
  <2>2. PICK f : f = sem_pc
    OBVIOUS
  <2>3. PICK g : g = sem_pc'
    OBVIOUS
  <2>4. Cardinality({u \in S : g[u] \in places}) = Cardinality({u \in S : f[u] \in places}) - 1
    BY <1>1, <1>2, <1>6, <2>1, <2>2, <2>3, MovesOut
  <2> QED
    BY <1>4, <1>3, <1>6, <2>2, <2>3, <2>4
<1>7. CASE t \in S /\ a \notin places /\ b \in places
  <2>1. \A u \in S \ {t} : sem_pc'[u] = sem_pc[u]
    BY <1>1, <1>2
  <2>2. PICK f : f = sem_pc
    OBVIOUS
  <2>3. PICK g : g = sem_pc'
    OBVIOUS
  <2>4. Cardinality({u \in S : g[u] \in places}) = Cardinality({u \in S : f[u] \in places}) + 1
    BY <1>1, <1>2, <1>7, <2>1, <2>2, <2>3, MovesIn
  <2> QED
    BY <1>4, <1>3, <1>7, <2>2, <2>3, <2>4
<1> QED
  BY <1>4, <1>5, <1>6, <1>7

(* The nodes are backed at every step, which is already inductive: the     *)
(* other threads' units stay where they are.                               *)
Calling == Sem!At(Consumers, {"call", "in"})
Posting == Sem!At(Producers, {"post"})
Holding == Sem!At(Sem!Threads, {"call", "in", "post"})
SemInv ==
    /\ sem_producer \in Nat /\ sem_consumer \in Nat /\ length \in Nat
    /\ DOMAIN sem_pc = Sem!Threads
    /\ Sem!NodesBacked

LEMMA SemMoves ==
    ASSUME SemInv, NEW t \in Sem!Threads, NEW a, NEW b, Sem!Goto(t, a, b)
    PROVE  /\ Calling \in Nat /\ Posting \in Nat /\ Holding \in Nat
           /\ Calling' \in Nat /\ Posting' \in Nat /\ Holding' \in Nat
           /\ DOMAIN sem_pc' = Sem!Threads
           /\ Calling' = IF t \notin Consumers \/ (a \in {"call", "in"} <=> b \in {"call", "in"})
                         THEN Calling ELSE IF a \in {"call", "in"} THEN Calling - 1 ELSE Calling + 1
           /\ Posting' = IF t \notin Producers \/ (a \in {"post"} <=> b \in {"post"})
                         THEN Posting ELSE IF a \in {"post"} THEN Posting - 1 ELSE Posting + 1
           /\ Holding' = IF a \in {"call", "in", "post"} <=> b \in {"call", "in", "post"}
                         THEN Holding
                         ELSE IF a \in {"call", "in", "post"} THEN Holding - 1 ELSE Holding + 1
<1>1. DOMAIN sem_pc = Sem!Threads
  BY DEF SemInv
<1>2. DOMAIN sem_pc' = Sem!Threads
  BY <1>1 DEF Sem!Goto
<1> QED
  BY <1>1, <1>2, Moves DEF Calling, Posting, Holding

LEMMA InitSem == ProgramsInit => SemInv
<1> SUFFICES ASSUME ProgramsInit PROVE SemInv
  OBVIOUS
<1>1. /\ sem_producer = Start /\ sem_consumer = Start /\ length = 0 /\ Start \in Nat
      /\ sem_pc = [t \in Sem!Threads |-> "wait"]
  BY ProgramsAssumption DEF ProgramsInit, Sem!Init
<1>2. ASSUME NEW S \in SUBSET Sem!Threads, NEW places, "wait" \notin places
      PROVE  Sem!At(S, places) = 0
  <2>1. {u \in S : sem_pc[u] \in places} = {}
    BY <1>1, <1>2
  <2>2. Sem!At(S, places) = Cardinality({u \in S : sem_pc[u] \in places})
    BY AtCounts
  <2> QED
    BY <2>1, <2>2, FS_EmptySet
<1>3. /\ Sem!At(Consumers, {"call", "in"}) = 0 /\ Sem!At(Producers, {"post"}) = 0
      /\ Sem!At(Sem!Threads, {"call", "in", "post"}) = 0
  BY <1>2 DEF Sem!Threads
<1> QED
  BY <1>1, <1>3 DEF SemInv, Sem!NodesBacked

LEMMA SemStep ==
    ASSUME SemInv, NEW t \in Sem!Threads, Sem!Thread(t)
    PROVE  SemInv'
<1>1. /\ sem_producer \in Nat /\ sem_consumer \in Nat /\ length \in Nat /\ Start \in Nat
      /\ length <= sem_consumer + Calling + Posting
      /\ sem_producer + sem_consumer + Holding = 2 * Start
  BY ProgramsAssumption DEF SemInv, Sem!NodesBacked, Calling, Posting, Holding
<1>2. t \in Consumers <=> t \notin Producers
  BY ProgramsAssumption DEF Sem!Threads
<1>3. ASSUME sem_producer' \in Nat, sem_consumer' \in Nat, length' \in Nat,
             DOMAIN sem_pc' = Sem!Threads,
             length' <= sem_consumer' + Calling' + Posting',
             sem_producer' + sem_consumer' + Holding' = 2 * Start
      PROVE  SemInv'
  BY <1>3 DEF SemInv, Sem!NodesBacked, Calling, Posting, Holding
<1>4. CASE Sem!Wait(t)
  <2>1. Sem!Goto(t, "wait", "call") /\ length' = length
    BY <1>4 DEF Sem!Wait
  <2>2. /\ Posting' = Posting /\ Holding' = Holding + 1 /\ DOMAIN sem_pc' = Sem!Threads
        /\ Calling' = (IF t \in Consumers THEN Calling + 1 ELSE Calling)
        /\ Calling \in Nat /\ Posting \in Nat /\ Holding \in Nat
    BY <2>1, SemMoves
  <2>3. CASE t \in Producers
    <3>1. sem_producer > 0 /\ sem_producer' = sem_producer - 1 /\ sem_consumer' = sem_consumer
      BY <1>2, <1>4, <2>3 DEF Sem!Wait
    <3> QED
      BY <1>1, <1>2, <1>3, <2>1, <2>2, <2>3, <3>1
  <2>4. CASE t \in Consumers
    <3>1. sem_consumer > 0 /\ sem_consumer' = sem_consumer - 1 /\ sem_producer' = sem_producer
      BY <1>2, <1>4, <2>4 DEF Sem!Wait
    <3> QED
      BY <1>1, <1>2, <1>3, <2>1, <2>2, <2>4, <3>1
  <2> QED
    BY <1>2, <2>3, <2>4
<1>5. CASE Sem!Enter(t) \/ Sem!Show(t) \/ Sem!Shown(t)
  <2>1. UNCHANGED <<sem_producer, sem_consumer, length>>
    BY <1>5 DEF Sem!Enter, Sem!Show, Sem!Shown
  <2>2. \/ Sem!Goto(t, "call", "in")
        \/ Sem!Goto(t, "show", "showing")
        \/ Sem!Goto(t, "showing", "wait")
    BY <1>5 DEF Sem!Enter, Sem!Show, Sem!Shown
  <2>3. Calling' = Calling /\ Posting' = Posting /\ Holding' = Holding /\ DOMAIN sem_pc' = Sem!Threads
    BY <2>2, SemMoves
  <2> QED
    BY <1>1, <1>3, <2>1, <2>3
<1>6. CASE Sem!Insert(t)
  <2>1. /\ Sem!Goto(t, "in", "post") /\ length' = length + 1 /\ t \in Producers
        /\ UNCHANGED <<sem_producer, sem_consumer>>
    BY <1>6 DEF Sem!Insert
  <2>2. /\ Calling' = Calling /\ Posting' = Posting + 1 /\ Holding' = Holding
        /\ DOMAIN sem_pc' = Sem!Threads /\ Calling \in Nat /\ Posting \in Nat
    BY <1>2, <2>1, SemMoves
  <2> QED
    BY <1>1, <1>3, <2>1, <2>2
<1>7. CASE Sem!Pop(t)
  <2>1. /\ Sem!Goto(t, "in", "post") /\ length' = (IF length > 0 THEN length - 1 ELSE 0)
        /\ t \in Consumers /\ UNCHANGED <<sem_producer, sem_consumer>>
    BY <1>7 DEF Sem!Pop
  <2>2. /\ Calling' = Calling - 1 /\ Posting' = Posting /\ Holding' = Holding
        /\ DOMAIN sem_pc' = Sem!Threads /\ Calling' \in Nat /\ Calling \in Nat /\ Posting \in Nat
    BY <1>2, <2>1, SemMoves
  <2> QED
    BY <1>1, <1>3, <2>1, <2>2
<1>8. CASE Sem!Post(t)
  <2>1. CASE t \in Producers
    <3>1. /\ Sem!Goto(t, "post", "show") /\ sem_consumer' = sem_consumer + 1
          /\ UNCHANGED <<sem_producer, length>>
      BY <1>2, <1>8, <2>1 DEF Sem!Post
    <3>2. /\ Calling' = Calling /\ Posting' = Posting - 1 /\ Holding' = Holding - 1
          /\ DOMAIN sem_pc' = Sem!Threads /\ Calling \in Nat /\ Posting \in Nat /\ Holding \in Nat
      BY <1>2, <2>1, <3>1, SemMoves
    <3> QED
      BY <1>1, <1>3, <3>1, <3>2
  <2>2. CASE t \in Consumers
    <3>1. /\ Sem!Goto(t, "post", "wait") /\ sem_producer' = sem_producer + 1
          /\ UNCHANGED <<sem_consumer, length>>
      BY <1>2, <1>8, <2>2 DEF Sem!Post
    <3>2. /\ Calling' = Calling /\ Posting' = Posting /\ Holding' = Holding - 1
          /\ DOMAIN sem_pc' = Sem!Threads /\ Calling \in Nat /\ Posting \in Nat /\ Holding \in Nat
      BY <1>2, <2>2, <3>1, SemMoves
    <3> QED
      BY <1>1, <1>3, <3>1, <3>2
  <2> QED
    BY <1>2, <2>1, <2>2
<1> QED
  BY <1>4, <1>5, <1>6, <1>7, <1>8 DEF Sem!Thread

(* NodesBacked: with any numbers of producers and consumers and any start  *)
(* value, each node of the list has a unit of sem_consumer or a thread on  *)
(* its way for it, and no unit is lost or made.                            *)
THEOREM ListBacked == ProgramsSpec => []NodesBacked
<1>1. SemInv /\ [ProgramsNext]_ProgramsVars => SemInv'
  <2> SUFFICES ASSUME SemInv, [ProgramsNext]_ProgramsVars PROVE SemInv'
    OBVIOUS
  <2>1. CASE Sem!Next
    BY <2>1, SemStep DEF Sem!Next
  <2>2. CASE UNCHANGED semVars
    <3>1. UNCHANGED <<sem_producer, sem_consumer, length, sem_pc>>
      BY <2>2 DEF semVars
    <3>2. ASSUME NEW S, NEW places PROVE Sem!At(S, places)' = Sem!At(S, places)
      <4>1. /\ Sem!At(S, places) = Cardinality({u \in S : sem_pc[u] \in places})
            /\ Sem!At(S, places)' = Cardinality({u \in S : sem_pc'[u] \in places})
        BY AtCounts
      <4> QED
        BY <3>1, <4>1
    <3>3. UNCHANGED <<Calling, Posting, Holding>>
      BY <3>2 DEF Calling, Posting, Holding
    <3> QED
      BY <3>1, <3>3 DEF SemInv, Sem!NodesBacked, Calling, Posting, Holding
  <2> QED
    BY <2>1, <2>2, Alone
<1>2. SemInv => NodesBacked
  BY DEF SemInv, NodesBacked
<1> QED
  BY InitSem, <1>1, <1>2, PTL DEF ProgramsSpec
-----------------------------------------------------------------------------
(* testUdpServer and testUdpClient.  What is under way is addressed to who *)
(* has typed it; as long as the network has repeated nothing it is the     *)
(* last input of a client that waits for it, in one place.                 *)
UdpTypes ==
    /\ typed \in [UdpClients -> Nat] /\ repeated \in Nat
    /\ udp_pc \in [UdpClients -> {"input", "reply"}]
    /\ shown \in [UdpClients -> [from : UdpClients, n : Nat]]
    /\ toServer \subseteq [from : UdpClients, n : Nat]
    /\ server \cup toClient \subseteq [to : UdpClients, from : UdpClients, n : Nat]
OwnInv ==
    /\ \A m \in toServer : m.n <= typed[m.from]
    /\ \A m \in server \cup toClient : m.to = m.from /\ m.n <= typed[m.from]
    /\ \A c \in UdpClients : shown[c].from = c /\ shown[c].n <= typed[c]
OnceInv == repeated = 0 =>
    /\ \A m \in toServer : m.n = typed[m.from] /\ udp_pc[m.from] = "reply"
    /\ \A m \in server \cup toClient : m.n = typed[m.from] /\ udp_pc[m.from] = "reply"
    /\ \A m \in toServer, a \in server \cup toClient : m.from # a.from
    /\ \A a \in server, b \in toClient : a.from # b.from
    /\ \A a, b \in server : a = b
    /\ \A c \in UdpClients : udp_pc[c] = "input" => shown[c].n = typed[c]
UdpInv == UdpTypes /\ OwnInv /\ OnceInv

LEMMA InitUdp == ProgramsInit => UdpInv
<1> SUFFICES ASSUME ProgramsInit PROVE UdpInv
  OBVIOUS
<1>1. /\ toServer = {} /\ toClient = {} /\ server = {} /\ repeated = 0
      /\ udp_pc = [c \in UdpClients |-> "input"] /\ typed = [c \in UdpClients |-> 0]
      /\ shown = [c \in UdpClients |-> [from |-> c, n |-> 0]]
  BY DEF ProgramsInit, Udp!Init
<1>2. UdpTypes
  BY <1>1 DEF UdpTypes
<1>3. \A c \in UdpClients : shown[c].from = c /\ shown[c].n = 0 /\ typed[c] = 0
  BY <1>1
<1> QED
  BY <1>1, <1>2, <1>3 DEF UdpInv, OwnInv, OnceInv

(* The network may lose whatever is under way.                             *)
LEMMA FewerKeeps ==
    ASSUME UdpInv, toServer' \subseteq toServer, toClient' \subseteq toClient,
           UNCHANGED <<server, udp_pc, typed, shown, repeated>>
    PROVE  UdpInv'
<1>1. UdpTypes'
  BY DEF UdpInv, UdpTypes
<1>2. OwnInv'
  BY DEF UdpInv, OwnInv
<1>3. OnceInv'
  BY DEF UdpInv, OnceInv
<1> QED
  BY <1>1, <1>2, <1>3 DEF UdpInv

LEMMA RecvFromKeeps ==
    ASSUME UdpInv, Udp!RecvFrom
    PROVE  UdpInv'
<1>1. PICK m \in toServer :
         /\ server' = {[to |-> m.from, from |-> m.from, n |-> m.n]}
         /\ \/ toServer' = toServer \ {m} /\ repeated' = repeated
            \/ toServer' = toServer /\ repeated' = repeated + 1
  BY DEF Udp!RecvFrom, Udp!Deliver
<1>2. server = {} /\ UNCHANGED <<udp_pc, typed, shown, toClient>>
  BY DEF Udp!RecvFrom, Udp!clientVars
<1>3. PICK a : a = [to |-> m.from, from |-> m.from, n |-> m.n]
  OBVIOUS
<1>4. server' = {a} /\ a.to = m.from /\ a.from = m.from /\ a.n = m.n
  BY <1>1, <1>3
<1>5. m \in [from : UdpClients, n : Nat] /\ a \in [to : UdpClients, from : UdpClients, n : Nat]
  BY <1>3 DEF UdpInv, UdpTypes
<1>6. UdpTypes'
  BY <1>1, <1>2, <1>4, <1>5 DEF UdpInv, UdpTypes
<1>7. OwnInv'
  <2>1. toServer' \subseteq toServer /\ a.n <= typed[a.from]
    BY <1>1, <1>4 DEF UdpInv, OwnInv
  <2> QED
    BY <1>2, <1>4, <2>1 DEF UdpInv, OwnInv
<1>8. OnceInv'
  <2> SUFFICES ASSUME repeated' = 0 PROVE OnceInv'
    BY DEF OnceInv
  <2>1. toServer' = toServer \ {m} /\ repeated = 0
    BY <1>1 DEF UdpInv, UdpTypes
  <2>2. \A b \in toServer' : b.from # a.from
    <3> SUFFICES ASSUME NEW b \in toServer', b.from = m.from PROVE FALSE
      BY <1>4
    <3>1. b \in toServer /\ b # m /\ b.n = m.n
      BY <2>1 DEF UdpInv, OnceInv
    <3>2. b = [from |-> b.from, n |-> b.n] /\ m = [from |-> m.from, n |-> m.n]
      BY <1>5, <3>1 DEF UdpInv, UdpTypes
    <3> QED
      BY <3>1, <3>2
  <2>3. a.n = typed[a.from] /\ udp_pc[a.from] = "reply" /\ \A b \in toClient : a.from # b.from
    BY <1>4, <2>1 DEF UdpInv, OnceInv
  <2> QED
    BY <1>2, <1>4, <2>1, <2>2, <2>3 DEF UdpInv, OnceInv
<1> QED
  BY <1>6, <1>7, <1>8 DEF UdpInv

LEMMA SendToKeeps ==
    ASSUME UdpInv, Udp!SendTo
    PROVE  UdpInv'
<1>1. /\ toClient' = toClient \cup server /\ server' = {}
      /\ UNCHANGED <<udp_pc, typed, shown, toServer, repeated>>
  BY DEF Udp!SendTo, Udp!clientVars
<1>2. UdpTypes'
  BY <1>1 DEF UdpInv, UdpTypes
<1>3. OwnInv'
  BY <1>1 DEF UdpInv, OwnInv
<1>4. OnceInv'
  BY <1>1 DEF UdpInv, OnceInv
<1> QED
  BY <1>2, <1>3, <1>4 DEF UdpInv

LEMMA InputKeeps ==
    ASSUME UdpInv, NEW c \in UdpClients, Udp!Input(c)
    PROVE  UdpInv'
<1>1. PICK k \in Nat : k = typed[c] + 1
  BY DEF UdpInv, UdpTypes
<1>2. PICK m : m = [from |-> c, n |-> k]
  OBVIOUS
<1>3. /\ udp_pc[c] = "input" /\ typed' = [typed EXCEPT ![c] = k]
      /\ toServer' = toServer \cup {m} /\ udp_pc' = [udp_pc EXCEPT ![c] = "reply"]
      /\ UNCHANGED <<toClient, repeated, server, shown>>
  BY <1>1, <1>2 DEF Udp!Input
<1>4. /\ m \in [from : UdpClients, n : Nat] /\ m.from = c /\ m.n = k
      /\ typed' \in [UdpClients -> Nat] /\ udp_pc' \in [UdpClients -> {"input", "reply"}]
      /\ typed'[c] = k /\ udp_pc'[c] = "reply"
      /\ \A d \in UdpClients \ {c} : typed'[d] = typed[d] /\ udp_pc'[d] = udp_pc[d]
      /\ typed[c] \in Nat /\ typed[c] <= k
  BY <1>1, <1>2, <1>3 DEF UdpInv, UdpTypes
<1>5. UdpTypes'
  BY <1>3, <1>4 DEF UdpInv, UdpTypes
<1>6. OwnInv'
  <2>1. \A d \in UdpClients, j \in Nat : j <= typed[d] => j <= typed'[d]
    BY <1>4 DEF UdpInv, UdpTypes
  <2>2. \A b \in toServer \cup server \cup toClient : b.from \in UdpClients /\ b.n \in Nat
    BY DEF UdpInv, UdpTypes
  <2>3. \A d \in UdpClients : shown[d].n \in Nat
    BY DEF UdpInv, UdpTypes
  <2> QED
    BY <1>3, <1>4, <2>1, <2>2, <2>3 DEF UdpInv, OwnInv
<1>7. OnceInv'
  <2> SUFFICES ASSUME repeated = 0 PROVE OnceInv'
    BY <1>3 DEF OnceInv
  <2>1. \A b \in toServer \cup server \cup toClient : b.from \in UdpClients \ {c}
    BY <1>3 DEF UdpInv, UdpTypes, OnceInv
  <2> QED
    BY <1>3, <1>4, <2>1 DEF UdpInv, OnceInv
<1> QED
  BY <1>5, <1>6, <1>7 DEF UdpInv

LEMMA ReplyKeeps ==
    ASSUME UdpInv, NEW c \in UdpClients, Udp!Reply(c)
    PROVE  UdpInv'
<1>1. PICK m \in toClient :
         /\ m.to = c /\ shown' = [shown EXCEPT ![c] = [from |-> m.from, n |-> m.n]]
         /\ \/ toClient' = toClient \ {m} /\ repeated' = repeated
            \/ toClient' = toClient /\ repeated' = repeated + 1
  BY DEF Udp!Reply, Udp!Deliver
<1>2. /\ udp_pc[c] = "reply" /\ udp_pc' = [udp_pc EXCEPT ![c] = "input"]
      /\ UNCHANGED <<toServer, server, typed>>
  BY DEF Udp!Reply
<1>3. /\ m \in [to : UdpClients, from : UdpClients, n : Nat] /\ m.from = c
      /\ m.n \in Nat /\ m.n <= typed[c]
  BY <1>1 DEF UdpInv, UdpTypes, OwnInv
<1>4. /\ shown' \in [UdpClients -> [from : UdpClients, n : Nat]]
      /\ shown'[c].from = c /\ shown'[c].n = m.n
      /\ \A d \in UdpClients \ {c} : shown'[d] = shown[d]
      /\ udp_pc' \in [UdpClients -> {"input", "reply"}] /\ udp_pc'[c] = "input"
      /\ \A d \in UdpClients \ {c} : udp_pc'[d] = udp_pc[d]
  BY <1>1, <1>2, <1>3 DEF UdpInv, UdpTypes
<1>5. UdpTypes'
  BY <1>1, <1>2, <1>4 DEF UdpInv, UdpTypes
<1>6. OwnInv'
  <2>1. toClient' \subseteq toClient
    BY <1>1
  <2> QED
    BY <1>2, <1>3, <1>4, <2>1 DEF UdpInv, OwnInv
<1>7. OnceInv'
  <2> SUFFICES ASSUME repeated' = 0 PROVE OnceInv'
    BY DEF OnceInv
  <2>1. toClient' = toClient \ {m} /\ repeated = 0 /\ m.n = typed[c]
    BY <1>1, <1>3 DEF UdpInv, UdpTypes, OnceInv
  <2>2. \A b \in toClient' : b.from # c
    <3> SUFFICES ASSUME NEW b \in toClient', b.from = c PROVE FALSE
      OBVIOUS
    <3>1. b \in toClient /\ b # m /\ b.n = m.n /\ b.to = m.to
      BY <1>1, <1>3, <2>1 DEF UdpInv, OnceInv, OwnInv
    <3>2. /\ b = [to |-> b.to, from |-> b.from, n |-> b.n]
          /\ m = [to |-> m.to, from |-> m.from, n |-> m.n]
      BY <1>3, <3>1 DEF UdpInv, UdpTypes
    <3> QED
      BY <1>3, <3>1, <3>2
  <2>3. \A b \in toServer \cup server : b.from # c
    BY <1>3, <2>1 DEF UdpInv, OnceInv
  <2>4. \A b \in toServer \cup server \cup toClient : b.from \in UdpClients
    BY DEF UdpInv, UdpTypes
  <2> QED
    BY <1>2, <1>4, <2>1, <2>2, <2>3, <2>4 DEF UdpInv, OnceInv
<1> QED
  BY <1>5, <1>6, <1>7 DEF UdpInv

(* OwnAnswers: with any number of clients, whatever the network loses,     *)
(* repeats and reorders, a client sees answers to its own inputs only, and *)
(* the last one's if nothing has been repeated.                            *)
THEOREM AnswersOwn == ProgramsSpec => []OwnAnswers
<1>1. UdpInv /\ [ProgramsNext]_ProgramsVars => UdpInv'
  <2> SUFFICES ASSUME UdpInv, [ProgramsNext]_ProgramsVars PROVE UdpInv'
    OBVIOUS
  <2>1. CASE Udp!Server
    BY <2>1, RecvFromKeeps, SendToKeeps DEF Udp!Server
  <2>2. ASSUME NEW c \in UdpClients, Udp!Input(c) \/ Udp!Reply(c) PROVE UdpInv'
    BY <2>2, InputKeeps, ReplyKeeps
  <2>3. ASSUME NEW m \in toServer \cup toClient, Udp!Lose(m) PROVE UdpInv'
    BY <2>3, FewerKeeps DEF Udp!Lose, Udp!clientVars
  <2>4. CASE UNCHANGED udpVars
    BY <2>4, FewerKeeps DEF udpVars
  <2> QED
    BY <2>1, <2>2, <2>3, <2>4, Alone DEF Udp!Next
<1>2. UdpInv => OwnAnswers
  BY DEF UdpInv, OwnInv, OnceInv, OwnAnswers, Udp!OwnAnswers
<1> QED
  BY InitUdp, <1>1, <1>2, PTL DEF ProgramsSpec
-----------------------------------------------------------------------------
(* web/log.c.  FilesRight needs nothing but the files' types beside it.    *)
LogInv ==
    /\ file \in [Log!Files -> {"null", "open", "closed"}]
    /\ handles \in [Log!Files -> Int]
    /\ FilesRight

LEMMA InitLog == ProgramsInit => LogInv
BY DEF ProgramsInit, Log!Init, LogInv, FilesRight, Log!FilesRight

LEMMA LogTypes ==
    ASSUME LogInv
    PROVE  /\ file \in [Log!Files -> {"null", "open", "closed"}]
           /\ handles \in [Log!Files -> Int]
           /\ \A f \in Log!Files : handles[f] = IF file[f] = "open" THEN 1 ELSE 0
           /\ opened /\ ~log_undefined => \A f \in Log!Files : handles[f] = 1 /\ opt[f] = Log!Default
BY DEF LogInv, FilesRight, Log!FilesRight

LEMMA OpenKeeps ==
    ASSUME LogInv, NEW names \in SUBSET Log!Files, Log!Open(names)
    PROVE  LogInv'
<1>1. PICK missing, new :
         /\ new \subseteq missing /\ missing = {f \in names : file[f] = "null"}
         /\ Log!TryOpen(missing, new)
  BY DEF Log!Open
<1>2. /\ file' = [f \in Log!Files |-> IF f \in new THEN "open" ELSE file[f]]
      /\ handles' = [f \in Log!Files |-> IF f \in new THEN handles[f] + 1 ELSE handles[f]]
      /\ opened' = (new = missing /\ \A f \in Log!Files : file'[f] # "null")
      /\ opt' = IF opened' THEN [f \in Log!Files |-> Log!Default] ELSE opt
      /\ log_undefined' = (opened' /\ \E f \in Log!Files : file'[f] = "closed")
  BY <1>1 DEF Log!TryOpen
<1>3. \A f \in new : file[f] = "null"
  BY <1>1
<1>4. /\ file' \in [Log!Files -> {"null", "open", "closed"}]
      /\ handles' \in [Log!Files -> Int]
  BY <1>2, LogTypes
<1>5. \A f \in Log!Files : handles'[f] = IF file'[f] = "open" THEN 1 ELSE 0
  BY <1>2, <1>3, LogTypes
<1>6. ASSUME opened', ~log_undefined', NEW f \in Log!Files
      PROVE  handles'[f] = 1 /\ opt'[f] = Log!Default
  <2>1. file'[f] = "open"
    BY <1>2, <1>4, <1>6
  <2> QED
    BY <1>2, <1>5, <1>6, <2>1
<1> QED
  BY <1>4, <1>5, <1>6 DEF LogInv, FilesRight, Log!FilesRight

LEMMA CloseKeeps ==
    ASSUME LogInv, Log!Close
    PROVE  LogInv'
<1>1. /\ handles' = [f \in Log!Files |-> IF file[f] = "open" THEN handles[f] - 1 ELSE handles[f]]
      /\ file' = [f \in Log!Files |-> IF file[f] = "null" THEN "null" ELSE "closed"]
      /\ opened' = FALSE
  BY DEF Log!Close
<1>2. /\ file' \in [Log!Files -> {"null", "open", "closed"}]
      /\ handles' \in [Log!Files -> Int]
      /\ \A f \in Log!Files : handles'[f] = IF file'[f] = "open" THEN 1 ELSE 0
  BY <1>1, LogTypes
<1> QED
  BY <1>1, <1>2 DEF LogInv, FilesRight, Log!FilesRight

(* FilesRight: however often opening fails and is tried again, no file is  *)
(* opened twice, and an open that returns 0 leaves both files open with    *)
(* the options of a fresh start.                                           *)
THEOREM LogRight == ProgramsSpec => []FilesRight
<1>1. LogInv /\ [ProgramsNext]_ProgramsVars => LogInv'
  <2> SUFFICES ASSUME LogInv, [ProgramsNext]_ProgramsVars PROVE LogInv'
    OBVIOUS
  <2>1. ASSUME NEW names \in SUBSET Log!Files, Log!Open(names) PROVE LogInv'
    BY <2>1, OpenKeeps
  <2>2. ASSUME UNCHANGED <<file, handles>>, opened' = FALSE PROVE LogInv'
    BY <2>2, LogTypes DEF LogInv, FilesRight, Log!FilesRight
  <2>3. CASE Log!Close
    BY <2>3, CloseKeeps
  <2>4. CASE UNCHANGED logVars
    BY <2>4 DEF logVars, LogInv, FilesRight, Log!FilesRight
  <2> QED
    BY <2>1, <2>2, <2>3, <2>4, Alone DEF Log!Next, Log!Format, Log!Log
<1>2. LogInv => FilesRight
  BY DEF LogInv
<1> QED
  BY InitLog, <1>1, <1>2, PTL DEF ProgramsSpec
-----------------------------------------------------------------------------
(* Sums over finite sets, which MapThenSumSet defines by recursion.  What  *)
(* holds of {} and of a set if it holds of the set without the element     *)
(* that is added last holds of all subsets.                                *)
LEMMA LeastNumber ==
    ASSUME NEW K \in SUBSET Nat, K # {}
    PROVE  \E m \in K : \A k \in K : m <= k
<1> DEFINE R == OpToRel(<, Nat)
<1>1. IsWellFoundedOn(R, Nat)
  BY NatLessThanWellFounded, Zenon
<1>2. \A a, b \in Nat : a < b => <<a, b>> \in R
  BY DEF OpToRel
<1> HIDE DEF R
<1>3. PICK m \in K : \A k \in K : ~ (<<k, m>> \in R)
  BY <1>1, WFMin
<1>4. ASSUME NEW k \in K PROVE m <= k
  <2>1. ~ (k < m) /\ m \in Nat /\ k \in Nat
    BY <1>2, <1>3, Zenon
  <2> QED
    BY <2>1, SMT
<1> QED
  BY <1>4

LEMMA AllNumbers ==
    ASSUME NEW K, 0 \in K, \A k \in Nat : k \in K => k + 1 \in K
    PROVE  \A k \in Nat : k \in K
<1> SUFFICES ASSUME Nat \ K # {} PROVE FALSE
  OBVIOUS
<1>1. PICK m \in Nat \ K : \A k \in Nat \ K : m <= k
  BY LeastNumber
<1>2. m # 0 /\ m - 1 \in Nat
  BY <1>1
<1>3. m - 1 \in K
  BY <1>1, <1>2
<1>4. (m - 1) + 1 \in K
  BY <1>2, <1>3
<1> QED
  BY <1>1, <1>4

Last(s) == CHOOSE x \in s : TRUE

LEMMA Smaller ==
    ASSUME NEW T, IsFiniteSet(T), NEW s \in SUBSET T, s # {}
    PROVE  /\ Last(s) \in s /\ s \ {Last(s)} \in SUBSET T /\ IsFiniteSet(s)
           /\ Cardinality(s) \in Nat /\ Cardinality(s \ {Last(s)}) \in Nat
           /\ Cardinality(s) = Cardinality(s \ {Last(s)}) + 1
<1>1. Last(s) \in s
  BY DEF Last
<1>2. IsFiniteSet(s) /\ IsFiniteSet(s \ {Last(s)})
  BY FS_Subset
<1>3. Cardinality(s) \in Nat /\ Cardinality(s \ {Last(s)}) \in Nat
  BY <1>2, FS_CardinalityType
<1>4. Cardinality(s \ {Last(s)}) = Cardinality(s) - 1
  BY <1>1, <1>2, FS_RemoveElement
<1> QED
  BY <1>1, <1>2, <1>3, <1>4

LEMMA AllSubsets ==
    ASSUME NEW T, IsFiniteSet(T), NEW P, {} \in P,
           \A s \in SUBSET T : s # {} /\ s \ {Last(s)} \in P => s \in P
    PROVE  \A s \in SUBSET T : s \in P
<1> DEFINE K == {k \in Nat : \A s \in SUBSET T : Cardinality(s) = k => s \in P}
<1>1. 0 \in K
  <2>1. \A s \in SUBSET T : Cardinality(s) = 0 => s = {}
    <3> SUFFICES ASSUME NEW s \in SUBSET T, Cardinality(s) = 0 PROVE s = {}
      OBVIOUS
    <3>1. IsFiniteSet(s)
      BY FS_Subset
    <3> QED
      BY <3>1, FS_EmptySet
  <2> QED
    BY <2>1
<1>2. ASSUME NEW k \in Nat, k \in K PROVE k + 1 \in K
  <2> SUFFICES ASSUME NEW s \in SUBSET T, Cardinality(s) = k + 1 PROVE s \in P
    OBVIOUS
  <2>1. s # {}
    BY FS_EmptySet
  <2>2. s \ {Last(s)} \in SUBSET T /\ Cardinality(s \ {Last(s)}) = k
    BY <2>1, Smaller
  <2> QED
    BY <1>2, <2>1, <2>2
<1> HIDE DEF K
<1>3. \A k \in Nat : k \in K
  BY <1>1, <1>2, AllNumbers
<1>4. ASSUME NEW s \in SUBSET T PROVE s \in P
  <2>1. Cardinality(s) \in Nat
    BY FS_Subset, FS_CardinalityType
  <2> QED
    BY <1>3, <2>1 DEF K
<1> QED
  BY <1>4

Sums(f, T) ==
    LET iter[s \in SUBSET T] ==
            IF s = {} THEN 0
            ELSE f[CHOOSE x \in s : TRUE] + iter[s \ {CHOOSE x \in s : TRUE}]
    IN  iter
Body(f, g, s) == IF s = {} THEN 0 ELSE f[Last(s)] + g[s \ {Last(s)}]

LEMMA SumsDefined ==
    ASSUME NEW T, IsFiniteSet(T), NEW f, \A x \in T : f[x] \in Int
    PROVE  \A s \in SUBSET T : Sums(f, T)[s] = Body(f, Sums(f, T), s)
<1> DEFINE K == {k \in Nat : \E g \in [SUBSET T -> Int] :
                    \A s \in SUBSET T : Cardinality(s) <= k => g[s] = Body(f, g, s)}
<1>1. 0 \in K
  <2> DEFINE g == [s \in SUBSET T |-> 0]
  <2>1. g \in [SUBSET T -> Int]
    OBVIOUS
  <2>2. ASSUME NEW s \in SUBSET T, Cardinality(s) <= 0 PROVE g[s] = Body(f, g, s)
    <3>1. IsFiniteSet(s)
      BY FS_Subset
    <3>2. Cardinality(s) = 0
      BY <2>2, <3>1, FS_CardinalityType
    <3>3. s = {}
      BY <3>1, <3>2, FS_EmptySet
    <3> QED
      BY <3>3 DEF Body
  <2> QED
    BY <2>1, <2>2
<1>2. ASSUME NEW k \in Nat, k \in K PROVE k + 1 \in K
  <2>1. PICK g \in [SUBSET T -> Int] :
           \A s \in SUBSET T : Cardinality(s) <= k => g[s] = Body(f, g, s)
    BY <1>2
  <2> DEFINE h == [s \in SUBSET T |-> Body(f, g, s)]
  <2>2. h \in [SUBSET T -> Int]
    <3> SUFFICES ASSUME NEW s \in SUBSET T PROVE Body(f, g, s) \in Int
      OBVIOUS
    <3>1. CASE s = {}
      BY <3>1 DEF Body
    <3>2. CASE s # {}
      <4>1. f[Last(s)] \in Int /\ g[s \ {Last(s)}] \in Int
        BY <3>2, Smaller
      <4> QED
        BY <3>2, <4>1 DEF Body
    <3> QED
      BY <3>1, <3>2
  <2>3. ASSUME NEW s \in SUBSET T, Cardinality(s) <= k + 1 PROVE h[s] = Body(f, h, s)
    <3>1. CASE s = {}
      BY <3>1 DEF Body
    <3>2. CASE s # {}
      <4>1. s \ {Last(s)} \in SUBSET T /\ Cardinality(s \ {Last(s)}) <= k
        BY <2>3, <3>2, Smaller
      <4>2. h[s \ {Last(s)}] = g[s \ {Last(s)}]
        BY <2>1, <4>1
      <4>3. h[s] = Body(f, g, s)
        OBVIOUS
      <4> HIDE DEF h
      <4> QED
        BY <3>2, <4>2, <4>3 DEF Body
    <3> QED
      BY <3>1, <3>2
  <2> HIDE DEF h
  <2> QED
    BY <2>2, <2>3
<1> HIDE DEF K
<1>3. \A k \in Nat : k \in K
  BY <1>1, <1>2, AllNumbers
<1>4. Cardinality(T) \in Nat
  BY FS_CardinalityType
<1>5. PICK g \in [SUBSET T -> Int] :
         \A s \in SUBSET T : Cardinality(s) <= Cardinality(T) => g[s] = Body(f, g, s)
  BY <1>3, <1>4 DEF K
<1>6. \A s \in SUBSET T : Cardinality(s) <= Cardinality(T)
  BY FS_Subset
<1>7. g = [s \in SUBSET T |-> IF s = {} THEN 0
              ELSE f[CHOOSE x \in s : TRUE] + g[s \ {CHOOSE x \in s : TRUE}]]
  BY <1>5, <1>6 DEF Body, Last
<1>8. Sums(f, T) = [s \in SUBSET T |-> IF s = {} THEN 0
              ELSE f[CHOOSE x \in s : TRUE] + Sums(f, T)[s \ {CHOOSE x \in s : TRUE}]]
  BY <1>7 DEF Sums
<1>9. ASSUME NEW s \in SUBSET T PROVE Sums(f, T)[s] = Body(f, Sums(f, T), s)
  <2>1. Sums(f, T)[s] = IF s = {} THEN 0
            ELSE f[CHOOSE x \in s : TRUE] + Sums(f, T)[s \ {CHOOSE x \in s : TRUE}]
    BY <1>8
  <2> QED
    BY <2>1 DEF Body, Last
<1> QED
  BY <1>9

LEMMA SumsTypes ==
    ASSUME NEW T, IsFiniteSet(T), NEW f, \A x \in T : f[x] \in Int
    PROVE  \A s \in SUBSET T : Sums(f, T)[s] \in Int
<1> DEFINE P == {s \in SUBSET T : Sums(f, T)[s] \in Int}
<1>1. {} \in P
  <2>1. Sums(f, T)[{}] = 0
    BY SumsDefined DEF Body
  <2> QED
    BY <2>1
<1>2. ASSUME NEW s \in SUBSET T, s # {}, s \ {Last(s)} \in P PROVE s \in P
  <2>1. Sums(f, T)[s] = f[Last(s)] + Sums(f, T)[s \ {Last(s)}]
    BY <1>2, SumsDefined DEF Body
  <2>2. f[Last(s)] \in Int
    BY <1>2, Smaller
  <2> QED
    BY <1>2, <2>1, <2>2
<1> HIDE DEF P
<1>3. \A s \in SUBSET T : s \in P
  BY <1>1, <1>2, AllSubsets
<1> QED
  BY <1>3 DEF P

(* One more in one place adds one to the sum.                              *)
LEMMA SumsGrow ==
    ASSUME NEW T, IsFiniteSet(T), NEW f, \A x \in T : f[x] \in Int, NEW y,
           NEW h, \A x \in T : h[x] = IF x = y THEN f[x] + 1 ELSE f[x]
    PROVE  Sums(h, T)[T] = IF y \in T THEN Sums(f, T)[T] + 1 ELSE Sums(f, T)[T]
<1> DEFINE P == {s \in SUBSET T :
                    Sums(h, T)[s] = IF y \in s THEN Sums(f, T)[s] + 1 ELSE Sums(f, T)[s]}
<1>1. \A x \in T : h[x] \in Int
  OBVIOUS
<1>2. {} \in P
  <2>1. Sums(f, T)[{}] = 0
    BY SumsDefined DEF Body
  <2>2. Sums(h, T)[{}] = 0
    BY <1>1, SumsDefined DEF Body
  <2> QED
    BY <2>1, <2>2
<1>3. ASSUME NEW s \in SUBSET T, s # {}, s \ {Last(s)} \in P PROVE s \in P
  <2>1. Sums(f, T)[s] = f[Last(s)] + Sums(f, T)[s \ {Last(s)}]
    BY <1>3, SumsDefined DEF Body
  <2>2. Sums(h, T)[s] = h[Last(s)] + Sums(h, T)[s \ {Last(s)}]
    BY <1>1, <1>3, SumsDefined DEF Body
  <2>3. Last(s) \in s /\ f[Last(s)] \in Int
    BY <1>3, Smaller
  <2>4. h[Last(s)] = IF Last(s) = y THEN f[Last(s)] + 1 ELSE f[Last(s)]
    BY <2>3
  <2>5. Sums(f, T)[s \ {Last(s)}] \in Int
    BY SumsTypes
  <2>6. y \in s <=> y = Last(s) \/ y \in s \ {Last(s)}
    BY <2>3
  <2>7. Sums(h, T)[s \ {Last(s)}] = IF y \in s \ {Last(s)} THEN Sums(f, T)[s \ {Last(s)}] + 1
                                    ELSE Sums(f, T)[s \ {Last(s)}]
    BY <1>3
  <2>8. Sums(h, T)[s] = IF y \in s THEN Sums(f, T)[s] + 1 ELSE Sums(f, T)[s]
    <3>1. CASE y = Last(s)
      BY <2>1, <2>2, <2>3, <2>4, <2>5, <2>7, <3>1
    <3>2. CASE y # Last(s)
      BY <2>1, <2>2, <2>3, <2>4, <2>5, <2>6, <2>7, <3>2
    <3> QED
      BY <3>1, <3>2
  <2> QED
    BY <2>8
<1> HIDE DEF P
<1>4. \A s \in SUBSET T : s \in P
  BY <1>2, <1>3, AllSubsets
<1> QED
  BY <1>4 DEF P

(* The sum of equal numbers.                                               *)
LEMMA SumsEqual ==
    ASSUME NEW T, IsFiniteSet(T), NEW f, NEW n \in Int, \A x \in T : f[x] = n
    PROVE  Sums(f, T)[T] = Cardinality(T) * n
<1> DEFINE P == {s \in SUBSET T : Sums(f, T)[s] = Cardinality(s) * n}
<1>1. \A x \in T : f[x] \in Int
  OBVIOUS
<1>2. {} \in P
  <2>1. Sums(f, T)[{}] = 0
    BY <1>1, SumsDefined DEF Body
  <2> QED
    BY <2>1, FS_EmptySet
<1>3. ASSUME NEW s \in SUBSET T, s # {}, s \ {Last(s)} \in P PROVE s \in P
  <2>1. Sums(f, T)[s] = f[Last(s)] + Sums(f, T)[s \ {Last(s)}]
    BY <1>1, <1>3, SumsDefined DEF Body
  <2>2. f[Last(s)] = n /\ Cardinality(s \ {Last(s)}) \in Nat
        /\ Cardinality(s) = Cardinality(s \ {Last(s)}) + 1
    BY <1>3, Smaller
  <2>3. PICK k \in Nat : k = Cardinality(s \ {Last(s)})
    BY <2>2
  <2>4. Sums(f, T)[s] = n + k * n
    BY <1>3, <2>1, <2>2, <2>3
  <2>5. n + k * n = (k + 1) * n
    BY <2>3
  <2> QED
    BY <2>2, <2>3, <2>4, <2>5
<1> HIDE DEF P
<1>4. \A s \in SUBSET T : s \in P
  BY <1>2, <1>3, AllSubsets
<1> QED
  BY <1>4 DEF P
-----------------------------------------------------------------------------
(* testRwlock and testCreateThread6, for any writers W, readers R and      *)
(* rounds N.  The holders of the lock are the threads between lock and     *)
(* unlock; a writer holds it alone, so that nothing comes between its      *)
(* reading and its writing.                                                *)
C(W, R, N) == INSTANCE Counters WITH
    Writers <- W, Readers <- R, Rounds <- N, pc <- count_pc

Written(W) == Cardinality({u \in W : count_pc[u] \in {"unlock"}})
CountGoes(t, b) == count_pc' = [count_pc EXCEPT ![t] = b]
CountTypes(T) ==
    /\ count_pc \in [T -> {"lock", "read", "write", "unlock"}]
    /\ number \in Int /\ cur \in [T -> Int] /\ round \in [T -> Nat]
LockInv(W, T) ==
    /\ holders = {t \in T : count_pc[t] # "lock"}
    /\ \A w \in W : w \in holders => holders = {w}
NumberInv(W, T, N) ==
    /\ number = Sums(round, W)[W] + Written(W)
    /\ \A t \in T :
          /\ count_pc[t] = "write" => t \in W /\ cur[t] = number + 1
          /\ count_pc[t] = "unlock" => cur[t] = number
          /\ round[t] <= N /\ (count_pc[t] # "lock" => round[t] < N)
    /\ total \in {-1, Cardinality(W) * N}
CountInv(W, T, N) == CountTypes(T) /\ LockInv(W, T) /\ NumberInv(W, T, N)

LEMMA WrittenMoves ==
    ASSUME NEW W, IsFiniteSet(W), NEW T, W \subseteq T, NEW t \in T, NEW b,
           CountTypes(T), CountGoes(t, b)
    PROVE  /\ Written(W) \in Nat /\ Written(W)' \in Nat
           /\ Written(W)' = IF t \in W /\ count_pc[t] = "unlock" /\ b # "unlock" THEN Written(W) - 1
                            ELSE IF t \in W /\ count_pc[t] # "unlock" /\ b = "unlock"
                            THEN Written(W) + 1
                            ELSE Written(W)
<1>1. PICK f : f = count_pc
  OBVIOUS
<1>2. PICK g : g = count_pc'
  OBVIOUS
<1> DEFINE places == {"unlock"}
<1>3. g[t] = b /\ \A u \in W \ {t} : g[u] = f[u]
  BY <1>1, <1>2 DEF CountTypes, CountGoes
<1>4. /\ Written(W) = Cardinality({u \in W : f[u] \in places})
      /\ Written(W)' = Cardinality({u \in W : g[u] \in places})
  BY <1>1, <1>2 DEF Written
<1>0. \A x : x \in places <=> x = "unlock"
  OBVIOUS
<1> HIDE DEF places
<1>5. Written(W) \in Nat /\ Written(W)' \in Nat
  <2>1. IsFiniteSet({u \in W : f[u] \in places}) /\ IsFiniteSet({u \in W : g[u] \in places})
    BY FS_Subset
  <2> QED
    BY <1>4, <2>1, FS_CardinalityType
<1>6. CASE t \in W /\ f[t] = "unlock" /\ b # "unlock"
  <2>1. Cardinality({u \in W : g[u] \in places})
          = Cardinality({u \in W : f[u] \in places}) - 1
    <3>1. t \in W /\ f[t] \in places /\ g[t] \notin places
      BY <1>0, <1>3, <1>6
    <3>2. \A u \in W \ {t} : g[u] = f[u]
      BY <1>3
    <3> QED
      BY <3>1, <3>2, MovesOut
  <2> QED
    BY <1>1, <1>4, <1>5, <1>6, <2>1
<1>7. CASE t \in W /\ f[t] # "unlock" /\ b = "unlock"
  <2>1. Cardinality({u \in W : g[u] \in places})
          = Cardinality({u \in W : f[u] \in places}) + 1
    <3>1. t \in W /\ f[t] \notin places /\ g[t] \in places
      BY <1>0, <1>3, <1>7
    <3>2. \A u \in W \ {t} : g[u] = f[u]
      BY <1>3
    <3> QED
      BY <3>1, <3>2, MovesIn
  <2> QED
    BY <1>1, <1>4, <1>5, <1>7, <2>1
<1>8. CASE t \notin W \/ (f[t] = "unlock" <=> b = "unlock")
  <2>1. {u \in W : g[u] \in places} = {u \in W : f[u] \in places}
    BY <1>0, <1>3, <1>8
  <2> QED
    BY <1>1, <1>4, <1>5, <1>8, <2>1
<1> QED
  BY <1>1, <1>6, <1>7, <1>8

LEMMA CountInit ==
    ASSUME NEW W, IsFiniteSet(W), NEW R, NEW N \in Nat, C(W, R, N)!Init
    PROVE  CountInv(W, W \cup R, N)
<1> DEFINE T == W \cup R
<1>1. /\ number = 0 /\ holders = {} /\ total = -1
      /\ count_pc = [t \in T |-> "lock"] /\ cur = [t \in T |-> 0] /\ round = [t \in T |-> 0]
  BY DEF C!Init, C!Threads
<1>2. W \subseteq T
  OBVIOUS
<1> HIDE DEF T
<1>3. CountTypes(T) /\ LockInv(W, T)
  BY <1>1, <1>2 DEF CountTypes, LockInv
<1>4. Sums(round, W)[W] = 0
  <2>1. Sums(round, W)[W] = Cardinality(W) * 0
    BY <1>1, <1>2, SumsEqual
  <2>2. Cardinality(W) \in Nat
    BY FS_CardinalityType
  <2> QED
    BY <2>1, <2>2
<1>5. Written(W) = 0
  <2>1. {u \in W : count_pc[u] \in {"unlock"}} = {}
    BY <1>1, <1>2
  <2> QED
    BY <2>1, FS_EmptySet DEF Written
<1>6. NumberInv(W, T, N)
  BY <1>1, <1>4, <1>5 DEF NumberInv
<1> QED
  BY <1>3, <1>6 DEF CountInv, T

LEMMA LockKeeps ==
    ASSUME NEW W, IsFiniteSet(W), NEW R, W \cap R = {}, NEW N \in Nat,
           CountInv(W, W \cup R, N), NEW t \in W \cup R, C(W, R, N)!Lock(t)
    PROVE  CountInv(W, W \cup R, N)'
<1> DEFINE T == W \cup R
<1>1. /\ count_pc[t] = "lock" /\ round[t] < N /\ holders' = holders \cup {t}
      /\ holders = {} \/ (t \in R /\ holders \subseteq R)
      /\ count_pc' = [count_pc EXCEPT ![t] = "read"]
      /\ UNCHANGED <<number, cur, round, total>>
  BY DEF C!Lock
<1>2. W \subseteq T /\ t \in T /\ CountInv(W, T, N)
  OBVIOUS
<1>3. W \cap R = {}
  OBVIOUS
<1>4. \A w \in W : w \in holders' => holders' = {w}
  BY <1>1, <1>3
<1> HIDE DEF T
<1>5. /\ count_pc' \in [T -> {"lock", "read", "write", "unlock"}] /\ count_pc'[t] = "read"
      /\ \A u \in T \ {t} : count_pc'[u] = count_pc[u]
  BY <1>1, <1>2 DEF CountInv, CountTypes
<1>6. CountTypes(T)' /\ LockInv(W, T)'
  BY <1>1, <1>2, <1>4, <1>5 DEF CountInv, CountTypes, LockInv
<1>7. Written(W)' = Written(W)
  <2>1. CountTypes(T) /\ CountGoes(t, "read") /\ count_pc[t] # "unlock"
    BY <1>1, <1>2 DEF CountInv, CountGoes
  <2> QED
    BY <1>2, <2>1, WrittenMoves
<1>8. Sums(round, W)[W]' = Sums(round, W)[W]
  BY <1>1
<1>9. \A u \in T :
        /\ count_pc'[u] = "write" => u \in W /\ cur[u] = number + 1
        /\ count_pc'[u] = "unlock" => cur[u] = number
        /\ round[u] <= N /\ (count_pc'[u] # "lock" => round[u] < N)
  BY <1>1, <1>2, <1>5 DEF CountInv, NumberInv
<1>10. NumberInv(W, T, N)'
  BY <1>1, <1>2, <1>7, <1>8, <1>9 DEF CountInv, NumberInv
<1> QED
  BY <1>6, <1>10 DEF CountInv, T

LEMMA ReadKeeps ==
    ASSUME NEW W, IsFiniteSet(W), NEW R, W \cap R = {}, NEW N \in Nat,
           CountInv(W, W \cup R, N), NEW t \in W \cup R, C(W, R, N)!Read(t)
    PROVE  CountInv(W, W \cup R, N)'
<1> DEFINE T == W \cup R
           b == IF t \in W THEN "write" ELSE "unlock"
<1>1. /\ count_pc[t] = "read" /\ CountGoes(t, b)
      /\ cur' = [cur EXCEPT ![t] = IF t \in W THEN number + 1 ELSE number]
      /\ UNCHANGED <<number, holders, round, total>>
  BY DEF C!Read, CountGoes
<1>2. W \subseteq T /\ t \in T /\ CountInv(W, T, N)
  OBVIOUS
<1>3. b \in {"write", "unlock"} /\ (b = "write" <=> t \in W)
  OBVIOUS
<1> HIDE DEF T, b
<1>4. /\ count_pc' \in [T -> {"lock", "read", "write", "unlock"}] /\ count_pc'[t] = b
      /\ \A u \in T \ {t} : count_pc'[u] = count_pc[u]
  BY <1>1, <1>2, <1>3 DEF CountInv, CountTypes, CountGoes
<1>5. /\ cur' \in [T -> Int] /\ cur'[t] = IF t \in W THEN number + 1 ELSE number
      /\ \A u \in T \ {t} : cur'[u] = cur[u]
  BY <1>1, <1>2 DEF CountInv, CountTypes
<1>6. CountTypes(T)' /\ LockInv(W, T)'
  BY <1>1, <1>2, <1>3, <1>4, <1>5 DEF CountInv, CountTypes, LockInv
<1>7. Written(W)' = Written(W)
  <2>1. CountTypes(T)
    BY <1>2 DEF CountInv
  <2>2. count_pc[t] # "unlock" /\ ~(t \in W /\ b = "unlock")
    BY <1>1, <1>3
  <2> QED
    BY <1>1, <1>2, <2>1, <2>2, WrittenMoves
<1>8. Sums(round, W)[W]' = Sums(round, W)[W]
  BY <1>1
<1>9. \A u \in T :
        /\ count_pc'[u] = "write" => u \in W /\ cur'[u] = number + 1
        /\ count_pc'[u] = "unlock" => cur'[u] = number
        /\ round[u] <= N /\ (count_pc'[u] # "lock" => round[u] < N)
  BY <1>1, <1>2, <1>3, <1>4, <1>5 DEF CountInv, NumberInv
<1>10. NumberInv(W, T, N)'
  BY <1>1, <1>2, <1>7, <1>8, <1>9 DEF CountInv, NumberInv
<1> QED
  BY <1>6, <1>10 DEF CountInv, T

(* The writer that writes is alone among the threads that are not waiting. *)
LEMMA WriteKeeps ==
    ASSUME NEW W, IsFiniteSet(W), NEW R, W \cap R = {}, NEW N \in Nat,
           CountInv(W, W \cup R, N), NEW t \in W \cup R, C(W, R, N)!Write(t)
    PROVE  CountInv(W, W \cup R, N)'
<1> DEFINE T == W \cup R
<1>1. /\ count_pc[t] = "write" /\ CountGoes(t, "unlock") /\ number' = cur[t]
      /\ UNCHANGED <<holders, cur, round, total>>
  BY DEF C!Write, CountGoes
<1>2. W \subseteq T /\ t \in T /\ CountInv(W, T, N)
  OBVIOUS
<1> HIDE DEF T
<1>3. /\ count_pc' \in [T -> {"lock", "read", "write", "unlock"}] /\ count_pc'[t] = "unlock"
      /\ \A u \in T \ {t} : count_pc'[u] = count_pc[u]
  BY <1>1, <1>2 DEF CountInv, CountTypes, CountGoes
<1>4. t \in W /\ cur[t] = number + 1
  BY <1>1, <1>2 DEF CountInv, NumberInv
<1>5. \A u \in T \ {t} : count_pc[u] = "lock"
  BY <1>1, <1>2, <1>4 DEF CountInv, LockInv
<1>6. number \in Int /\ number' = number + 1
  BY <1>1, <1>2, <1>4 DEF CountInv, CountTypes
<1>7. CountTypes(T)' /\ LockInv(W, T)'
  BY <1>1, <1>2, <1>3, <1>6 DEF CountInv, CountTypes, LockInv
<1>8. Written(W)' = Written(W) + 1
  <2>1. CountTypes(T) /\ count_pc[t] # "unlock"
    BY <1>1, <1>2 DEF CountInv
  <2> QED
    BY <1>1, <1>2, <1>4, <2>1, WrittenMoves
<1>9. Sums(round, W)[W]' = Sums(round, W)[W]
  BY <1>1
<1>10. number' = Sums(round, W)[W]' + Written(W)'
  <2>1. number = Sums(round, W)[W] + Written(W)
    BY <1>2 DEF CountInv, NumberInv
  <2>2. Written(W) \in Int /\ Sums(round, W)[W] \in Int
    <3>1. \A u \in W : round[u] \in Int
      BY <1>2 DEF CountInv, CountTypes
    <3>2. Written(W) \in Nat
      BY <1>1, <1>2, WrittenMoves DEF CountInv
    <3>3. Sums(round, W)[W] \in Int
      BY <3>1, SumsTypes
    <3> QED
      BY <3>2, <3>3
  <2> QED
    BY <1>6, <1>8, <1>9, <2>1, <2>2
<1>11. \A u \in T :
        /\ count_pc'[u] = "write" => u \in W /\ cur[u] = number'  + 1
        /\ count_pc'[u] = "unlock" => cur[u] = number'
        /\ round[u] <= N /\ (count_pc'[u] # "lock" => round[u] < N)
  BY <1>1, <1>2, <1>3, <1>5 DEF CountInv, NumberInv
<1>12. NumberInv(W, T, N)'
  BY <1>1, <1>2, <1>10, <1>11 DEF CountInv, NumberInv
<1> QED
  BY <1>7, <1>12 DEF CountInv, T

(* What was written is now a round that has ended.                         *)
LEMMA UnlockKeeps ==
    ASSUME NEW W, IsFiniteSet(W), NEW R, W \cap R = {}, NEW N \in Nat,
           CountInv(W, W \cup R, N), NEW t \in W \cup R, C(W, R, N)!Unlock(t)
    PROVE  CountInv(W, W \cup R, N)'
<1> DEFINE T == W \cup R
<1>1. /\ count_pc[t] = "unlock" /\ CountGoes(t, "lock") /\ holders' = holders \ {t}
      /\ round' = [round EXCEPT ![t] = @ + 1]
      /\ UNCHANGED <<number, cur, total>>
  BY DEF C!Unlock, CountGoes
<1>2. W \subseteq T /\ t \in T /\ CountInv(W, T, N)
  OBVIOUS
<1> HIDE DEF T
<1>3. /\ count_pc' \in [T -> {"lock", "read", "write", "unlock"}] /\ count_pc'[t] = "lock"
      /\ \A u \in T \ {t} : count_pc'[u] = count_pc[u]
  BY <1>1, <1>2 DEF CountInv, CountTypes, CountGoes
<1>4. /\ round' \in [T -> Nat] /\ round'[t] = round[t] + 1
      /\ \A u \in T \ {t} : round'[u] = round[u]
  BY <1>1, <1>2 DEF CountInv, CountTypes
<1>5. CountTypes(T)'
  BY <1>1, <1>2, <1>3, <1>4 DEF CountInv, CountTypes
<1>6. LockInv(W, T)'
  BY <1>1, <1>2, <1>3 DEF CountInv, LockInv
<1>7. Written(W)' = IF t \in W THEN Written(W) - 1 ELSE Written(W)
  BY <1>1, <1>2, WrittenMoves DEF CountInv
<1>8. Sums(round, W)[W]' = IF t \in W THEN Sums(round, W)[W] + 1 ELSE Sums(round, W)[W]
  <2>1. PICK f : f = round
    OBVIOUS
  <2>2. PICK h : h = round'
    OBVIOUS
  <2>3. \A x \in W : f[x] \in Int
    BY <1>2, <2>1 DEF CountInv, CountTypes
  <2>4. \A x \in W : h[x] = IF x = t THEN f[x] + 1 ELSE f[x]
    BY <1>2, <1>4, <2>1, <2>2
  <2>5. Sums(h, W)[W] = IF t \in W THEN Sums(f, W)[W] + 1 ELSE Sums(f, W)[W]
    BY <2>3, <2>4, SumsGrow
  <2> QED
    BY <2>1, <2>2, <2>5
<1>9. number' = Sums(round, W)[W]' + Written(W)'
  <2>1. number = Sums(round, W)[W] + Written(W)
    BY <1>2 DEF CountInv, NumberInv
  <2>2. Written(W) \in Int /\ Sums(round, W)[W] \in Int
    <3>1. \A u \in W : round[u] \in Int
      BY <1>2 DEF CountInv, CountTypes
    <3>2. Written(W) \in Nat
      BY <1>1, <1>2, WrittenMoves DEF CountInv
    <3>3. Sums(round, W)[W] \in Int
      BY <3>1, SumsTypes
    <3> QED
      BY <3>2, <3>3
  <2> QED
    BY <1>1, <1>7, <1>8, <2>1, <2>2
<1>10. \A u \in T :
        /\ count_pc'[u] = "write" => u \in W /\ cur[u] = number + 1
        /\ count_pc'[u] = "unlock" => cur[u] = number
        /\ round'[u] <= N /\ (count_pc'[u] # "lock" => round'[u] < N)
  BY <1>1, <1>2, <1>3, <1>4 DEF CountInv, CountTypes, NumberInv
<1>11. NumberInv(W, T, N)'
  BY <1>1, <1>2, <1>9, <1>10 DEF CountInv, NumberInv
<1> QED
  BY <1>5, <1>6, <1>11 DEF CountInv, T

(* Main joins adders that have all given the lock back.                    *)
LEMMA JoinedKeeps ==
    ASSUME NEW W, IsFiniteSet(W), NEW R, NEW N \in Nat,
           CountInv(W, W \cup R, N), C(W, R, N)!Joined
    PROVE  CountInv(W, W \cup R, N)'
<1> DEFINE T == W \cup R
<1>1. /\ \A u \in W : round[u] = N
      /\ total' = number /\ UNCHANGED <<number, holders, count_pc, cur, round>>
  BY DEF C!Joined
<1>2. W \subseteq T /\ CountInv(W, T, N)
  OBVIOUS
<1> HIDE DEF T
<1>3. \A u \in W : count_pc[u] = "lock"
  BY <1>1, <1>2 DEF CountInv, NumberInv
<1>4. Written(W) = 0
  <2>1. {u \in W : count_pc[u] \in {"unlock"}} = {}
    BY <1>3
  <2> QED
    BY <2>1, FS_EmptySet DEF Written
<1>5. Sums(round, W)[W] = Cardinality(W) * N
  BY <1>1, SumsEqual
<1>6. number = Cardinality(W) * N
  <2>1. Cardinality(W) \in Nat
    BY FS_CardinalityType
  <2>2. number = Sums(round, W)[W] + 0
    BY <1>2, <1>4 DEF CountInv, NumberInv
  <2>3. Cardinality(W) * N \in Int
    BY <2>1
  <2> QED
    BY <1>5, <2>2, <2>3
<1>7. CountTypes(T)' /\ LockInv(W, T)'
  BY <1>1, <1>2 DEF CountInv, CountTypes, LockInv
<1>8. Sums(round, W)[W]' = Sums(round, W)[W] /\ Written(W)' = Written(W)
  BY <1>1 DEF Written
<1>9. NumberInv(W, T, N)'
  BY <1>1, <1>2, <1>6, <1>8 DEF CountInv, NumberInv
<1> QED
  BY <1>7, <1>9 DEF CountInv, T

(* The instance that runs and what it keeps.                               *)
CountsInv ==
    IF program = "sum" THEN CountInv(Adders, Adders \cup {}, Additions)
    ELSE CountInv(Writers, Writers \cup Readers, Rounds)

LEMMA InitCounts == ProgramsInit => CountsInv
<1>1. ASSUME ProgramsInit, program = "sum" PROVE CountInv(Adders, Adders \cup {}, Additions)
  <2>1. C(Adders, {}, Additions)!Init
    BY <1>1 DEF ProgramsInit, Sum!Init, Sum!Threads, C!Init, C!Threads
  <2> QED
    BY <2>1, ProgramsAssumption, CountInit
<1>2. ASSUME ProgramsInit, program # "sum"
      PROVE  CountInv(Writers, Writers \cup Readers, Rounds)
  <2>1. C(Writers, Readers, Rounds)!Init
    BY <1>2 DEF ProgramsInit, Count!Init, Count!Threads, C!Init, C!Threads
  <2> QED
    BY <2>1, ProgramsAssumption, CountInit
<1> QED
  BY <1>1, <1>2 DEF CountsInv

LEMMA CountsKeep ==
    ASSUME NEW W, IsFiniteSet(W), NEW R, W \cap R = {}, NEW N \in Nat,
           CountInv(W, W \cup R, N), C(W, R, N)!Next
    PROVE  CountInv(W, W \cup R, N)'
<1>1. CASE C(W, R, N)!Joined
  BY <1>1, JoinedKeeps
<1>2. ASSUME NEW t \in W \cup R, C(W, R, N)!Lock(t) PROVE CountInv(W, W \cup R, N)'
  BY <1>2, LockKeeps
<1>3. ASSUME NEW t \in W \cup R, C(W, R, N)!Read(t) PROVE CountInv(W, W \cup R, N)'
  BY <1>3, ReadKeeps
<1>4. ASSUME NEW t \in W \cup R, C(W, R, N)!Write(t) PROVE CountInv(W, W \cup R, N)'
  BY <1>4, WriteKeeps
<1>5. ASSUME NEW t \in W \cup R, C(W, R, N)!Unlock(t) PROVE CountInv(W, W \cup R, N)'
  BY <1>5, UnlockKeeps
<1> QED
  BY <1>1, <1>2, <1>3, <1>4, <1>5 DEF C!Next, C!Threads

LEMMA CountsStay ==
    ASSUME NEW W, NEW T, NEW N, CountInv(W, T, N), UNCHANGED countVars
    PROVE  CountInv(W, T, N)'
<1>1. UNCHANGED <<number, holders, count_pc, cur, round, total>>
  BY DEF countVars
<1>2. Sums(round, W)[W]' = Sums(round, W)[W] /\ Written(W)' = Written(W)
  BY <1>1 DEF Written
<1> QED
  BY <1>1, <1>2 DEF CountInv, CountTypes, LockInv, NumberInv

(* CountRight: under the reader-writer lock and under the mutex no         *)
(* addition is lost, for any number of threads and rounds; what a thread   *)
(* prints is the number at that moment, and what testCreateThread6 prints  *)
(* after its joins is the sum of all additions.                            *)
THEOREM CountsRight == ProgramsSpec => []CountRight
<1>1. CountsInv /\ [ProgramsNext]_ProgramsVars => CountsInv'
  <2> SUFFICES ASSUME CountsInv, [ProgramsNext]_ProgramsVars PROVE CountsInv'
    OBVIOUS
  <2>1. program' = program
    BY DEF ProgramsNext, OthersStay, ProgramsVars
  <2>2. CASE program = "sum"
    <3>1. C(Adders, {}, Additions)!Next \/ UNCHANGED countVars
      <4>1. Sum!Next \/ UNCHANGED countVars
        BY <2>2 DEF ProgramsNext, OthersStay, ProgramsVars
      <4>2. Sum!Next => C(Adders, {}, Additions)!Next
        BY DEF Sum!Next, Sum!Joined, Sum!Threads, Sum!Lock, Sum!Read, Sum!Write, Sum!Unlock,
               C!Next, C!Joined, C!Threads, C!Lock, C!Read, C!Write, C!Unlock
      <4> QED
        BY <4>1, <4>2
    <3>2. CountInv(Adders, Adders \cup {}, Additions)
      BY <2>2 DEF CountsInv
    <3>3. CountInv(Adders, Adders \cup {}, Additions)'
      BY <3>1, <3>2, ProgramsAssumption, CountsKeep, CountsStay
    <3> QED
      BY <2>1, <2>2, <3>3 DEF CountsInv
  <2>3. CASE program # "sum"
    <3>1. C(Writers, Readers, Rounds)!Next \/ UNCHANGED countVars
      <4>1. Count!Next \/ UNCHANGED countVars
        BY <2>3 DEF ProgramsNext, OthersStay, ProgramsVars
      <4>2. Count!Next => C(Writers, Readers, Rounds)!Next
        BY DEF Count!Next, Count!Joined, Count!Threads, Count!Lock, Count!Read, Count!Write,
               Count!Unlock,
               C!Next, C!Joined, C!Threads, C!Lock, C!Read, C!Write, C!Unlock
      <4> QED
        BY <4>1, <4>2
    <3>2. CountInv(Writers, Writers \cup Readers, Rounds)
      BY <2>3 DEF CountsInv
    <3>3. CountInv(Writers, Writers \cup Readers, Rounds)'
      BY <3>1, <3>2, ProgramsAssumption, CountsKeep, CountsStay
    <3> QED
      BY <2>1, <2>3, <3>3 DEF CountsInv
  <2> QED
    BY <2>2, <2>3
<1>2. CountsInv => CountRight
  <2>1. ASSUME program = "sum", CountInv(Adders, Adders \cup {}, Additions)
        PROVE  Sum!CountRight
    <3>1. {u \in Adders : count_pc[u] \in {"unlock"}} = {u \in Adders : count_pc[u] = "unlock"}
      OBVIOUS
    <3>2. number = Sums(round, Adders)[Adders]
                   + Cardinality({u \in Adders : count_pc[u] = "unlock"})
      BY <2>1, <3>1 DEF CountInv, NumberInv, Written
    <3>3. \A t \in Adders \cup {} : count_pc[t] = "unlock" => cur[t] = number
      BY <2>1 DEF CountInv, NumberInv
    <3>4. total \in {-1, Cardinality(Adders) * Additions}
      BY <2>1 DEF CountInv, NumberInv
    <3> QED
      BY <3>2, <3>3, <3>4 DEF Sum!CountRight, Sum!Threads, Sum!MapThenSumSet,
         Sum!MapThenFoldSet, Sum!Cardinality, Cardinality, Sums
  <2>2. ASSUME CountInv(Writers, Writers \cup Readers, Rounds)
        PROVE  Count!CountRight
    <3>1. {u \in Writers : count_pc[u] \in {"unlock"}} = {u \in Writers : count_pc[u] = "unlock"}
      OBVIOUS
    <3>2. number = Sums(round, Writers)[Writers]
                   + Cardinality({u \in Writers : count_pc[u] = "unlock"})
      BY <2>2, <3>1 DEF CountInv, NumberInv, Written
    <3>3. \A t \in Writers \cup Readers : count_pc[t] = "unlock" => cur[t] = number
      BY <2>2 DEF CountInv, NumberInv
    <3>4. total \in {-1, Cardinality(Writers) * Rounds}
      BY <2>2 DEF CountInv, NumberInv
    <3> QED
      BY <3>2, <3>3, <3>4 DEF Count!CountRight, Count!Threads, Count!MapThenSumSet,
         Count!MapThenFoldSet, Count!Cardinality, Cardinality, Sums
  <2> QED
    BY <2>1, <2>2 DEF CountsInv, CountRight
<1> QED
  BY InitCounts, <1>1, <1>2, PTL DEF ProgramsSpec

(* Concatenation is associative.                                           *)
LEMMA Together ==
    ASSUME NEW S, NEW a \in Seq(S), NEW b \in Seq(S), NEW c \in Seq(S)
    PROVE  (a \o b) \o c = a \o (b \o c)
<1>1. PICK ab \in Seq(S) : ab = a \o b
  BY ConcatProperties
<1>2. PICK bc \in Seq(S) : bc = b \o c
  BY ConcatProperties
<1>3. /\ Len(ab) = Len(a) + Len(b) /\ \A k \in 1 .. Len(ab) :
            ab[k] = IF k <= Len(a) THEN a[k] ELSE b[k - Len(a)]
  BY <1>1
<1>4. /\ Len(bc) = Len(b) + Len(c) /\ \A k \in 1 .. Len(bc) :
            bc[k] = IF k <= Len(b) THEN b[k] ELSE c[k - Len(b)]
  BY <1>2
<1>5. PICK l \in Seq(S) : l = ab \o c
  BY ConcatProperties
<1>6. PICK r \in Seq(S) : r = a \o bc
  BY ConcatProperties
<1>7. /\ Len(l) = Len(ab) + Len(c) /\ \A k \in 1 .. Len(l) :
            l[k] = IF k <= Len(ab) THEN ab[k] ELSE c[k - Len(ab)]
  BY <1>5
<1>8. /\ Len(r) = Len(a) + Len(bc) /\ \A k \in 1 .. Len(r) :
            r[k] = IF k <= Len(a) THEN a[k] ELSE bc[k - Len(a)]
  BY <1>6
<1>9. Len(l) = Len(r) /\ \A k \in 1 .. Len(l) : l[k] = r[k]
  <2>1. Len(a) \in Nat /\ Len(b) \in Nat /\ Len(c) \in Nat
    BY LenProperties
  <2>2. Len(l) = Len(r) /\ Len(l) = Len(a) + Len(b) + Len(c)
    BY <1>3, <1>4, <1>7, <1>8, <2>1
  <2>3. ASSUME NEW k \in 1 .. Len(l) PROVE l[k] = r[k]
    <3>1. k \in Nat /\ k # 0 /\ k <= Len(a) + Len(b) + Len(c)
      BY <2>1, <2>2
    <3>2. CASE k <= Len(a)
      <4>1. k <= Len(ab) /\ k \in 1 .. Len(ab)
        BY <1>3, <2>1, <3>1, <3>2
      <4> QED
        BY <1>3, <1>7, <1>8, <2>2, <3>2, <4>1
    <3>3. CASE ~(k <= Len(a)) /\ k <= Len(a) + Len(b)
      <4>1. k \in 1 .. Len(ab) /\ k <= Len(ab) /\ k - Len(a) \in 1 .. Len(bc) /\ k - Len(a) <= Len(b)
        BY <1>3, <1>4, <2>1, <3>1, <3>3
      <4>2. l[k] = b[k - Len(a)] /\ r[k] = b[k - Len(a)]
        BY <1>3, <1>4, <1>7, <1>8, <2>2, <3>3, <4>1
      <4> QED
        BY <4>2
    <3>4. CASE ~(k <= Len(a) + Len(b))
      <4>1. ~(k <= Len(ab)) /\ ~(k <= Len(a)) /\ k - Len(a) \in 1 .. Len(bc) /\ ~(k - Len(a) <= Len(b))
        BY <1>3, <1>4, <2>1, <3>1, <3>4
      <4>2. l[k] = c[k - Len(ab)] /\ r[k] = c[(k - Len(a)) - Len(b)]
        BY <1>4, <1>7, <1>8, <2>2, <4>1
      <4>3. k - Len(ab) = (k - Len(a)) - Len(b)
        BY <1>3, <2>1, <3>1
      <4> QED
        BY <4>2, <4>3
    <3> QED
      BY <3>2, <3>3, <3>4
  <2> QED
    BY <2>2, <2>3
<1>10. l = r
  BY <1>9, SeqEqual
<1> QED
  BY <1>1, <1>2, <1>5, <1>6, <1>10

(* The part of s after its first m elements, up to its n-th.               *)
LEMMA Section ==
    ASSUME NEW S, NEW s \in Seq(S), NEW m \in Nat, NEW n \in Nat, m <= n, n <= Len(s)
    PROVE  /\ SubSeq(s, m + 1, n) \in Seq(S) /\ Len(SubSeq(s, m + 1, n)) = n - m
           /\ \A k \in 1 .. n - m : SubSeq(s, m + 1, n)[k] = s[m + k]
<1>1. \A k \in m + 1 .. n : s[k] \in S
  BY ElementOfSeq
<1>2. m + 1 \in Int /\ n \in Int
  OBVIOUS
<1>3. /\ SubSeq(s, m + 1, n) \in Seq(S)
      /\ Len(SubSeq(s, m + 1, n)) = IF m + 1 <= n THEN n - (m + 1) + 1 ELSE 0
      /\ \A k \in 1 .. n - (m + 1) + 1 : SubSeq(s, m + 1, n)[k] = s[(m + 1) + k - 1]
  BY <1>1, <1>2, SubSeqProperties
<1>4. /\ n - (m + 1) + 1 = n - m /\ (m + 1 <= n \/ n - m = 0)
      /\ \A k \in 1 .. n - m : (m + 1) + k - 1 = m + k
  OBVIOUS
<1> QED
  BY <1>3, <1>4

LEMMA Beginning ==
    ASSUME NEW S, NEW s \in Seq(S), NEW n \in 0 .. Len(s)
    PROVE  /\ SubSeq(s, 1, n) \in Seq(S) /\ Len(SubSeq(s, 1, n)) = n
           /\ \A k \in 1 .. n : SubSeq(s, 1, n)[k] = s[k]
OBVIOUS
-----------------------------------------------------------------------------
(* strencode and strdecode.  What a string stands for, from place k on;    *)
(* Meaning defines it by recursion.                                        *)
XDigit(s, k) == k \in 1 .. Len(s) /\ Url!isxdigit(s[k])
Escape(s, k) == s[k] = 37 /\ XDigit(s, k + 1) /\ XDigit(s, k + 2)
Named(s, k) == Url!hexit(s[k + 1]) * 16 + Url!hexit(s[k + 2])
MeaningBody(s, g, k) ==
    IF k > Len(s) THEN <<>>
    ELSE IF Escape(s, k) THEN <<Named(s, k)>> \o g[k + 3]
    ELSE <<s[k]>> \o g[k + 1]
Means(s, g) ==
    /\ g \in [1 .. Len(s) + 1 -> Seq(Nat)]
    /\ \A k \in 1 .. Len(s) + 1 : g[k] = MeaningBody(s, g, k)

Ascii == 1 .. 127
LEMMA AsciiNat == \A c \in Ascii : c \in Nat
BY DEF Ascii

LEMMA Hexits == \A c \in Nat : Url!hexit(c) \in Nat
BY DEF Url!hexit, Url!Digit

LEMMA NamedTypes ==
    ASSUME NEW s \in Seq(Ascii), NEW k \in 1 .. Len(s), Escape(s, k)
    PROVE  Named(s, k) \in Nat /\ k + 2 <= Len(s)
<1>1. k + 1 \in 1 .. Len(s) /\ k + 2 \in 1 .. Len(s)
  BY DEF Escape, XDigit
<1>2. s[k + 1] \in Ascii /\ s[k + 2] \in Ascii
  BY <1>1, ElementOfSeq
<1>3. Url!hexit(s[k + 1]) \in Nat /\ Url!hexit(s[k + 2]) \in Nat
  BY <1>2, AsciiNat, Hexits
<1>4. PICK a \in Nat : a = Url!hexit(s[k + 1])
  BY <1>3
<1>5. PICK b \in Nat : b = Url!hexit(s[k + 2])
  BY <1>3
<1>6. a * 16 + b \in Nat
  OBVIOUS
<1> QED
  BY <1>1, <1>4, <1>5, <1>6 DEF Named

LEMMA BodyTypes ==
    ASSUME NEW s \in Seq(Ascii), NEW g \in [1 .. Len(s) + 1 -> Seq(Nat)],
           NEW k \in 1 .. Len(s) + 1
    PROVE  MeaningBody(s, g, k) \in Seq(Nat)
<1>1. CASE k > Len(s)
  BY <1>1 DEF MeaningBody
<1>2. CASE k <= Len(s) /\ Escape(s, k)
  <2>1. Named(s, k) \in Nat /\ k + 3 \in 1 .. Len(s) + 1
    BY <1>2, NamedTypes
  <2>2. g[k + 3] \in Seq(Nat)
    BY <2>1
  <2>3. <<Named(s, k)>> \o g[k + 3] \in Seq(Nat)
    BY <2>1, <2>2
  <2> QED
    BY <1>2, <2>3 DEF MeaningBody
<1>3. CASE k <= Len(s) /\ ~ Escape(s, k)
  <2>1. s[k] \in Nat /\ g[k + 1] \in Seq(Nat)
    <3>1. k \in 1 .. Len(s) /\ k + 1 \in 1 .. Len(s) + 1
      BY <1>3
    <3>2. s[k] \in Ascii
      BY <3>1, ElementOfSeq
    <3> QED
      BY <3>1, <3>2, AsciiNat
  <2>2. <<s[k]>> \o g[k + 1] \in Seq(Nat)
    BY <2>1
  <2> QED
    BY <1>3, <2>2 DEF MeaningBody
<1> QED
  BY <1>1, <1>2, <1>3

LEMMA SameBody ==
    ASSUME NEW s \in Seq(Ascii), NEW f, NEW g, NEW k \in 1 .. Len(s) + 1,
           \A n \in 1 .. Len(s) + 1 : n > k => f[n] = g[n]
    PROVE  MeaningBody(s, f, k) = MeaningBody(s, g, k)
<1>1. CASE k > Len(s)
  BY <1>1 DEF MeaningBody
<1>2. CASE k <= Len(s) /\ Escape(s, k)
  <2>1. k + 3 \in 1 .. Len(s) + 1
    BY <1>2, NamedTypes
  <2>2. f[k + 3] = g[k + 3]
    BY <2>1
  <2> QED
    BY <1>2, <2>2 DEF MeaningBody
<1>3. CASE k <= Len(s) /\ ~ Escape(s, k)
  <2>1. f[k + 1] = g[k + 1]
    BY <1>3
  <2> QED
    BY <1>3, <2>1 DEF MeaningBody
<1> QED
  BY <1>1, <1>2, <1>3

LEMMA MeaningExists ==
    ASSUME NEW s \in Seq(Ascii)
    PROVE  \E g : Means(s, g)
<1> DEFINE D == 1 .. Len(s) + 1
           K == {k \in Nat : \E g \in [D -> Seq(Nat)] :
                    \A j \in D : Len(s) + 1 - j <= k => g[j] = MeaningBody(s, g, j)}
<1>1. 0 \in K
  <2> DEFINE g == [j \in D |-> <<>>]
  <2>1. g \in [D -> Seq(Nat)]
    OBVIOUS
  <2>2. ASSUME NEW j \in D, Len(s) + 1 - j <= 0 PROVE g[j] = MeaningBody(s, g, j)
    BY <2>2 DEF MeaningBody
  <2> QED
    BY <2>1, <2>2
<1>2. ASSUME NEW k \in Nat, k \in K PROVE k + 1 \in K
  <2>1. PICK g \in [D -> Seq(Nat)] :
           \A j \in D : Len(s) + 1 - j <= k => g[j] = MeaningBody(s, g, j)
    BY <1>2
  <2> DEFINE h == [j \in D |-> MeaningBody(s, g, j)]
  <2>2. h \in [D -> Seq(Nat)]
    BY BodyTypes
  <2>3. ASSUME NEW j \in D, Len(s) + 1 - j <= k + 1 PROVE h[j] = MeaningBody(s, h, j)
    <3>1. h[j] = MeaningBody(s, g, j)
      OBVIOUS
    <3>2. \A n \in D : n > j => h[n] = g[n]
      BY <2>1, <2>3
    <3> HIDE DEF h
    <3>3. MeaningBody(s, h, j) = MeaningBody(s, g, j)
      BY <3>2, SameBody
    <3> QED
      BY <3>1, <3>3
  <2> HIDE DEF h
  <2> QED
    BY <2>2, <2>3
<1> HIDE DEF K
<1>3. \A k \in Nat : k \in K
  BY <1>1, <1>2, AllNumbers
<1>4. Len(s) \in K
  BY <1>3
<1> QED
  BY <1>4 DEF K, Means

LEMMA MeaningDefined ==
    ASSUME NEW s \in Seq(Ascii)
    PROVE  \E g : Means(s, g) /\ Url!Meaning(s) = g[1]
<1>1. PICK g : Means(s, g)
  BY MeaningExists
<1> DEFINE Is(f) == f = [k \in 1 .. Len(s) + 1 |->
              IF k > Len(s) THEN <<>>
              ELSE IF s[k] = 37 /\ (k + 1 \in 1 .. Len(s) /\ Url!isxdigit(s[k + 1]))
                                /\ (k + 2 \in 1 .. Len(s) /\ Url!isxdigit(s[k + 2]))
              THEN <<Url!hexit(s[k + 1]) * 16 + Url!hexit(s[k + 2])>> \o f[k + 3]
              ELSE <<s[k]>> \o f[k + 1]]
           m == CHOOSE f : Is(f)
<1>2. Is(g)
  BY <1>1 DEF Means, MeaningBody, Escape, XDigit, Named
<1>3. Url!Meaning(s) = m[1]
  BY DEF Url!Meaning, Url!Percent
<1>4. Is(m)
  BY <1>2, Zenon
<1>5. ASSUME NEW f, Is(f) PROVE \A k \in 1 .. Len(s) + 1 : f[k] = MeaningBody(s, f, k)
  BY <1>5 DEF MeaningBody, Escape, XDigit, Named
<1> HIDE DEF m, Is
<1>6. \A k \in 1 .. Len(s) + 1 : m[k] = MeaningBody(s, m, k)
  BY <1>4, <1>5
<1>7. m = [k \in 1 .. Len(s) + 1 |-> m[k]]
  BY <1>4 DEF Is
<1> DEFINE K == {d \in Nat : \A k \in 1 .. Len(s) + 1 : Len(s) + 1 - k <= d => m[k] = g[k]}
<1>8. 0 \in K
  <2>1. ASSUME NEW k \in 1 .. Len(s) + 1, Len(s) + 1 - k <= 0 PROVE m[k] = g[k]
    <3>1. k > Len(s)
      BY <2>1
    <3>2. m[k] = <<>> /\ g[k] = <<>>
      BY <1>1, <1>6, <3>1 DEF Means, MeaningBody
    <3> QED
      BY <3>2
  <2> QED
    BY <2>1
<1>9. ASSUME NEW d \in Nat, d \in K PROVE d + 1 \in K
  <2>1. ASSUME NEW k \in 1 .. Len(s) + 1, Len(s) + 1 - k <= d + 1 PROVE m[k] = g[k]
    <3>1. \A n \in 1 .. Len(s) + 1 : n > k => m[n] = g[n]
      BY <1>9, <2>1
    <3>2. MeaningBody(s, m, k) = MeaningBody(s, g, k)
      BY <3>1, SameBody
    <3> QED
      BY <1>1, <1>6, <3>2 DEF Means
  <2> QED
    BY <2>1
<1> HIDE DEF K
<1>10. \A d \in Nat : d \in K
  BY <1>8, <1>9, AllNumbers
<1>11. \A k \in 1 .. Len(s) + 1 : m[k] = g[k]
  <2>1. Len(s) \in K
    BY <1>10
  <2> QED
    BY <2>1 DEF K
<1> QED
  BY <1>1, <1>3, <1>11 DEF Is

(* Characters t + 1 to n of the name stand encoded in b from f on, up to   *)
(* its end.                                                                *)
Width(c) == IF Url!Plain(c) THEN 1 ELSE 3
CodedAt(c, b, a) ==
    IF Url!Plain(c) THEN b[a + 1] = c
    ELSE b[a + 1] = 37 /\ b[a + 2] = Url!hex(c \div 16) /\ b[a + 3] = Url!hex(c % 16)
LaidOut(s, b, t, f, n, pos) ==
    /\ pos \in [0 .. n -> 0 .. Len(b)] /\ pos[t] = f /\ pos[n] = Len(b)
    /\ \A j, k \in 0 .. n : j <= k => pos[j] <= pos[k]
    /\ \A j \in t + 1 .. n : /\ pos[j] = pos[j - 1] + Width(s[j])
                             /\ CodedAt(s[j], b, pos[j - 1])
Laid(s, b, t, f, n) == \E pos : LaidOut(s, b, t, f, n, pos)

UrlTypes ==
    /\ url_pc \in {"call", "encode", "decode", "done"}
    /\ name \in Seq(Ascii) /\ (url_pc # "done" => url_buf \in Seq(Nat))
    /\ tosize \in Nat /\ from \in Nat /\ to \in Nat
EncodeInv ==
    /\ 0 < tosize /\ from <= Len(name) /\ to = Len(url_buf) /\ to < tosize /\ to <= 3 * from
    /\ Laid(name, url_buf, 0, 0, from)
BackInv ==
    \E n \in 0 .. Len(name) :
       /\ to <= n /\ (3 * Len(name) + 1 < tosize => n = Len(name))
       /\ Laid(name, url_buf, to, from, n)
       /\ \A k \in 1 .. to : url_buf[k] = name[k]
MeaningInv ==
    /\ Len(url_buf) = Len(name)
    /\ \A k \in from + 1 .. Len(name) : url_buf[k] = name[k]
    /\ \E g : /\ Means(name, g) /\ Url!Meaning(name) = g[1]
              /\ SubSeq(url_buf, 1, to) \o g[from + 1] = g[1]
DoneInv ==
    IF tosize = 0 THEN url_buf = Url!CString(Url!Meaning(name))
    ELSE /\ Url!IsPrefix(url_buf, name)
         /\ 3 * Len(name) + 1 < tosize => url_buf = name
UrlInv ==
    /\ UrlTypes
    /\ url_pc = "call" => tosize = 0 /\ from = 0 /\ to = 0 /\ url_buf = <<>>
    /\ url_pc = "encode" => EncodeInv
    /\ url_pc \in {"decode", "done"} => to <= from
    /\ url_pc = "decode" => from <= Len(url_buf)
    /\ url_pc = "decode" /\ tosize = 0 => MeaningInv
    /\ url_pc = "decode" /\ tosize # 0 => BackInv
    /\ url_pc = "done" => DoneInv

LEMMA InitUrl == ProgramsInit => UrlInv
BY DEF ProgramsInit, Url!Init, UrlInv, UrlTypes

LEMMA Bounded ==
    ASSUME NEW S, NEW n \in Nat, NEW s \in Url!BoundedSeq(S, n)
    PROVE  s \in Seq(S)
<1>1. PICK m \in 0 .. n : s \in [1 .. m -> S]
  BY DEF Url!BoundedSeq, Url!SeqOf
<1> QED
  BY <1>1, SeqDef

LEMMA CallKeepsUrl ==
    ASSUME UrlInv, Url!Call
    PROVE  UrlInv'
<1>1. /\ url_pc = "call" /\ from = 0 /\ to = 0 /\ tosize = 0
      /\ name' \in Seq(Ascii) /\ from' = 0 /\ to' = 0
  <2>1. name' \in Seq(Codes)
    BY ProgramsAssumption, Bounded DEF Url!Call
  <2>2. Codes \subseteq Ascii
    BY ProgramsAssumption DEF Ascii
  <2> QED
    BY <2>1, <2>2 DEF UrlInv, Url!Call
<1>2. CASE url_pc' = "encode" /\ tosize' \in BufferSizes /\ url_buf' = <<>>
  <2>1. tosize' \in Nat /\ tosize' > 0
    BY <1>2, ProgramsAssumption
  <2>2. Laid(name, url_buf, 0, 0, from)'
    <3> DEFINE pos == [j \in 0 .. 0 |-> 0]
    <3>1. LaidOut(name, url_buf, 0, 0, from, pos)'
      BY <1>1, <1>2 DEF LaidOut
    <3> QED
      BY <3>1 DEF Laid
  <2>3. EncodeInv'
    BY <1>1, <1>2, <2>1, <2>2 DEF EncodeInv
  <2> QED
    BY <1>1, <1>2, <2>1, <2>3 DEF UrlInv, UrlTypes
<1>3. CASE url_pc' = "decode" /\ url_buf' = name' /\ tosize' = tosize
  <2>1. PICK s : s = name'
    OBVIOUS
  <2>2. PICK g : Means(s, g) /\ Url!Meaning(s) = g[1]
    BY <1>1, <2>1, MeaningDefined
  <2>3. SubSeq(s, 1, 0) \o g[1] = g[1]
    <3>1. g[1] \in Seq(Nat)
      BY <1>1, <2>1, <2>2 DEF Means
    <3> QED
      BY <1>1, <2>1, <3>1
  <2>4. MeaningInv'
    BY <1>1, <1>3, <2>1, <2>2, <2>3 DEF MeaningInv
  <2>5. url_buf' \in Seq(Nat)
    BY <1>1, <1>3, AsciiNat
  <2> QED
    BY <1>1, <1>3, <2>4, <2>5 DEF UrlInv, UrlTypes
<1> QED
  BY <1>2, <1>3 DEF Url!Call

LEMMA Halves ==
    ASSUME NEW c \in Ascii
    PROVE  c \div 16 \in 0 .. 15 /\ c % 16 \in 0 .. 15 /\ (c \div 16) * 16 + (c % 16) = c
BY DEF Ascii

LEMMA HexBack ==
    ASSUME NEW d \in 0 .. 15
    PROVE  Url!hex(d) \in Nat /\ Url!isxdigit(Url!hex(d)) /\ Url!hexit(Url!hex(d)) = d
<1>1. CASE d < 10
  BY <1>1 DEF Url!hex, Url!hexit, Url!isxdigit, Url!Digit
<1>2. CASE d >= 10
  BY <1>2 DEF Url!hex, Url!hexit, Url!isxdigit, Url!Digit
<1> QED
  BY <1>1, <1>2

(* What strencode appends, and that it leaves the rest as it is.           *)
Appended(c) ==
    IF Url!Plain(c) THEN <<c>> ELSE <<37, Url!hex(c \div 16), Url!hex(c % 16)>>

LEMMA AppendedCode ==
    ASSUME NEW c \in Ascii, NEW b \in Seq(Nat)
    PROVE  /\ Appended(c) \in Seq(Nat) /\ Len(Appended(c)) = Width(c) /\ Width(c) \in {1, 3}
           /\ b \o Appended(c) \in Seq(Nat) /\ Len(b \o Appended(c)) = Len(b) + Width(c)
           /\ CodedAt(c, b \o Appended(c), Len(b))
           /\ \A k \in 1 .. Len(b) : (b \o Appended(c))[k] = b[k]
<1>1. Url!hex(c \div 16) \in Nat /\ Url!hex(c % 16) \in Nat /\ c \in Nat
  BY Halves, HexBack, AsciiNat
<1>2. /\ Appended(c) \in Seq(Nat) /\ Len(Appended(c)) = Width(c) /\ Width(c) \in {1, 3}
      /\ CodedAt(c, Appended(c), 0)
  <2>1. CASE Url!Plain(c)
    BY <1>1, <2>1 DEF Appended, Width, CodedAt
  <2>2. CASE ~ Url!Plain(c)
    BY <1>1, <2>2 DEF Appended, Width, CodedAt
  <2> QED
    BY <2>1, <2>2
<1>3. PICK s \in Seq(Nat) : s = Appended(c)
  BY <1>2
<1>4. PICK w \in {1, 3} : w = Width(c)
  BY <1>2
<1>5. /\ b \o s \in Seq(Nat) /\ Len(b \o s) = Len(b) + w
      /\ \A k \in 1 .. Len(b) : (b \o s)[k] = b[k]
      /\ \A k \in 1 .. w : (b \o s)[Len(b) + k] = s[k]
  BY <1>2, <1>3, <1>4
<1>6. CodedAt(c, b \o s, Len(b))
  <2>1. CASE Url!Plain(c)
    <3>1. w = 1 /\ s[1] = c
      BY <1>2, <1>3, <1>4, <2>1 DEF CodedAt, Width
    <3>2. (b \o s)[Len(b) + 1] = s[1]
      BY <1>5, <3>1
    <3> QED
      BY <2>1, <3>1, <3>2 DEF CodedAt
  <2>2. CASE ~ Url!Plain(c)
    <3>1. w = 3 /\ s[1] = 37 /\ s[2] = Url!hex(c \div 16) /\ s[3] = Url!hex(c % 16)
      BY <1>2, <1>3, <1>4, <2>2 DEF CodedAt, Width
    <3>2. /\ (b \o s)[Len(b) + 1] = s[1] /\ (b \o s)[Len(b) + 2] = s[2]
          /\ (b \o s)[Len(b) + 3] = s[3]
      BY <1>5, <3>1
    <3> QED
      BY <2>2, <3>1, <3>2 DEF CodedAt
  <2> QED
    BY <2>1, <2>2
<1> QED
  BY <1>2, <1>3, <1>4, <1>5, <1>6

(* Codes stay where they are if what they consist of does.                 *)
LEMMA CodeStays ==
    ASSUME NEW c, NEW b, NEW d, NEW a,
           d[a + 1] = b[a + 1],
           Width(c) = 3 => d[a + 2] = b[a + 2] /\ d[a + 3] = b[a + 3],
           CodedAt(c, b, a)
    PROVE  CodedAt(c, d, a)
BY DEF CodedAt, Width

LEMMA EncodeKeepsUrl ==
    ASSUME UrlInv, Url!Encode
    PROVE  UrlInv'
<1> DEFINE c == name[from + 1]
<1>1. /\ url_pc = "encode" /\ url_pc' = "encode" /\ from < Len(name) /\ to + 4 < tosize
      /\ url_buf' = url_buf \o Appended(c) /\ to' = to + Len(Appended(c)) /\ from' = from + 1
      /\ UNCHANGED <<name, tosize>>
  BY DEF Url!Encode, Url!Percent, Appended
<1>2. UrlTypes /\ EncodeInv
  BY <1>1 DEF UrlInv
<1>3. name \in Seq(Ascii) /\ from + 1 \in 1 .. Len(name) /\ from \in Nat /\ to \in Nat /\ tosize \in Nat
  BY <1>1, <1>2 DEF UrlTypes
<1>4. c \in Ascii /\ url_buf \in Seq(Nat)
  BY <1>1, <1>2, <1>3, ElementOfSeq DEF UrlTypes
<1> HIDE DEF c
<1>5. /\ Len(Appended(c)) = Width(c) /\ Width(c) \in {1, 3}
      /\ url_buf' \in Seq(Nat) /\ Len(url_buf') = Len(url_buf) + Width(c)
      /\ CodedAt(c, url_buf', Len(url_buf))
      /\ \A k \in 1 .. Len(url_buf) : url_buf'[k] = url_buf[k]
  BY <1>1, <1>4, AppendedCode
<1>6. PICK pos : LaidOut(name, url_buf, 0, 0, from, pos)
  BY <1>2 DEF EncodeInv, Laid
<1> DEFINE new == [j \in 0 .. from + 1 |-> IF j <= from THEN pos[j] ELSE Len(url_buf')]
<1>7. new \in [0 .. from + 1 -> 0 .. Len(url_buf')]
  <2>1. Len(url_buf') \in Nat /\ Len(url_buf) \in Nat /\ Len(url_buf) <= Len(url_buf')
    BY <1>4, <1>5
  <2>2. pos \in [0 .. from -> 0 .. Len(url_buf)]
    BY <1>6 DEF LaidOut
  <2> QED
    BY <1>3, <2>1, <2>2
<1>8. /\ new[0] = 0 /\ new[from + 1] = Len(url_buf') /\ new[from] = Len(url_buf)
      /\ \A j \in 0 .. from : new[j] = pos[j] /\ pos[j] \in 0 .. Len(url_buf)
  BY <1>3, <1>6 DEF LaidOut
<1> HIDE DEF new
<1>9. ASSUME NEW j \in 1 .. from + 1
      PROVE  new[j] = new[j - 1] + Width(name[j]) /\ CodedAt(name[j], url_buf', new[j - 1])
  <2>1. CASE j = from + 1
    <3>1. name[j] = c /\ new[j - 1] = Len(url_buf) /\ new[j] = Len(url_buf')
      BY <1>3, <1>8, <2>1 DEF c
    <3> QED
      BY <1>5, <3>1
  <2>2. CASE j # from + 1
    <3>1. j \in 1 .. from /\ j \in 0 .. from /\ j - 1 \in 0 .. from
      BY <1>3, <2>2
    <3>2. /\ new[j] = pos[j] /\ new[j - 1] = pos[j - 1] /\ pos[j] \in 0 .. Len(url_buf)
          /\ pos[j - 1] \in 0 .. Len(url_buf)
      BY <1>8, <3>1
    <3>3. pos[j] = pos[j - 1] + Width(name[j]) /\ CodedAt(name[j], url_buf, pos[j - 1])
      BY <1>6, <3>1 DEF LaidOut
    <3>4. Width(name[j]) \in {1, 3}
      BY DEF Width
    <3>5. PICK a \in Nat : a = pos[j - 1]
      BY <3>2
    <3>6. /\ url_buf'[a + 1] = url_buf[a + 1]
          /\ Width(name[j]) = 3 => /\ url_buf'[a + 2] = url_buf[a + 2]
                                   /\ url_buf'[a + 3] = url_buf[a + 3]
      <4>1. a + 1 \in 1 .. Len(url_buf)
        BY <1>4, <3>2, <3>3, <3>4, <3>5
      <4>2. Width(name[j]) = 3 => a + 2 \in 1 .. Len(url_buf) /\ a + 3 \in 1 .. Len(url_buf)
        BY <1>4, <3>2, <3>3, <3>4, <3>5
      <4> QED
        BY <1>5, <4>1, <4>2
    <3>7. CodedAt(name[j], url_buf', a)
      BY <3>3, <3>5, <3>6, CodeStays
    <3> QED
      BY <3>2, <3>3, <3>5, <3>7
  <2> QED
    BY <2>1, <2>2
<1>10. Laid(name, url_buf, 0, 0, from)'
  <2>1. PICK h : h = new
    OBVIOUS
  <2>2. \A j \in 0 + 1 .. from + 1 : /\ h[j] = h[j - 1] + Width(name[j])
                                    /\ CodedAt(name[j], url_buf', h[j - 1])
    BY <1>3, <1>9, <2>1
  <2> DEFINE D == 0 .. from + 1
  <2>5. \A j, k \in D : j <= k => h[j] <= h[k]
    <3> SUFFICES ASSUME NEW j \in D, NEW k \in D, j <= k PROVE h[j] <= h[k]
      OBVIOUS
    <3>1. CASE k <= from
      <4>1. j \in 0 .. from /\ k \in 0 .. from
        BY <1>3, <3>1
      <4>2. pos[j] <= pos[k]
        BY <1>6, <4>1 DEF LaidOut
      <4> QED
        BY <1>8, <2>1, <4>1, <4>2
    <3>2. CASE k > from
      <4>1. k = from + 1
        BY <1>3, <3>2
      <4>2. h[k] = Len(url_buf') /\ h[j] \in 0 .. Len(url_buf')
        BY <1>7, <1>8, <2>1, <4>1
      <4> QED
        BY <4>2
    <3> QED
      BY <1>3, <3>1, <3>2
  <2>3. LaidOut(name, url_buf', 0, 0, from + 1, h)
    BY <1>7, <1>8, <2>1, <2>2, <2>5 DEF LaidOut
  <2>4. Laid(name, url_buf', 0, 0, from + 1)
    BY <2>3 DEF Laid
  <2> QED
    BY <1>1, <2>4
<1>11. EncodeInv'
  <2>1. /\ to' = to + Width(c) /\ to = Len(url_buf) /\ to <= 3 * from /\ 0 < tosize
    BY <1>1, <1>2, <1>5 DEF EncodeInv
  <2>2. to' <= 3 * from' /\ to' < tosize' /\ 0 < tosize' /\ from' <= Len(name')
    BY <1>1, <1>3, <1>5, <2>1
  <2> QED
    BY <1>5, <1>10, <2>1, <2>2 DEF EncodeInv
<1>12. UrlTypes'
  BY <1>1, <1>2, <1>3, <1>5 DEF UrlTypes
<1> QED
  BY <1>1, <1>11, <1>12 DEF UrlInv

LEMMA EncodedKeepsUrl ==
    ASSUME UrlInv, Url!Encoded
    PROVE  UrlInv'
<1>1. /\ url_pc = "encode" /\ url_pc' = "decode" /\ from' = 0 /\ to' = 0
      /\ from = Len(name) \/ to + 4 >= tosize
      /\ UNCHANGED <<name, tosize, url_buf>>
  BY DEF Url!Encoded
<1>2. UrlTypes /\ EncodeInv
  BY <1>1 DEF UrlInv
<1>3. /\ from \in 0 .. Len(name) /\ tosize # 0
      /\ 3 * Len(name) + 1 < tosize => from = Len(name)
  <2>1. Len(name) \in Nat /\ from \in Nat /\ to \in Nat /\ tosize \in Nat
    BY <1>2 DEF UrlTypes
  <2> QED
    BY <1>1, <1>2, <2>1 DEF EncodeInv
<1>4. Laid(name, url_buf, 0, 0, from)
  BY <1>2 DEF EncodeInv
<1>5. PICK n : n = from
  OBVIOUS
<1>6. BackInv'
  <2>1. n \in 0 .. Len(name) /\ 0 <= n /\ (3 * Len(name) + 1 < tosize => n = Len(name))
    BY <1>3, <1>5
  <2>2. Laid(name, url_buf, 0, 0, n)
    BY <1>4, <1>5
  <2> QED
    BY <1>1, <2>1, <2>2 DEF BackInv
<1>7. UrlTypes' /\ from' <= Len(url_buf')
  BY <1>1, <1>2 DEF UrlTypes
<1> QED
  BY <1>1, <1>3, <1>6, <1>7 DEF UrlInv

(* What strdecode writes for the characters it is at, and how many.        *)
Value == IF Escape(url_buf, from + 1) THEN Named(url_buf, from + 1) ELSE url_buf[from + 1]
Span == IF Escape(url_buf, from + 1) THEN 3 ELSE 1

Put(b, t, x) == [b EXCEPT ![t + 1] = x]

LEMMA Decoding ==
    ASSUME UrlInv, Url!Decode
    PROVE  /\ url_pc = "decode" /\ url_pc' = "decode" /\ UNCHANGED <<name, tosize>>
           /\ from < Len(url_buf) /\ from' = from + Span /\ to' = to + 1 /\ to <= from
           /\ url_buf' = Put(url_buf, to, Value)
           /\ Value \in Nat /\ from' <= Len(url_buf)
           /\ url_buf \in Seq(Nat) /\ name \in Seq(Ascii)
           /\ from \in Nat /\ to \in Nat /\ tosize \in Nat
<1>1. /\ url_pc = "decode" /\ url_pc' = "decode" /\ UNCHANGED <<name, tosize>>
      /\ from < Len(url_buf) /\ to' = to + 1
  BY DEF Url!Decode
<1>2. /\ url_buf \in Seq(Nat) /\ name \in Seq(Ascii) /\ from \in Nat /\ to \in Nat /\ tosize \in Nat
      /\ to <= from
  BY <1>1 DEF UrlInv, UrlTypes
<1>3. Escape(url_buf, from + 1) <=>
         /\ url_buf[from + 1] = Url!Percent /\ from + 3 <= Len(url_buf)
         /\ Url!isxdigit(url_buf[from + 2]) /\ Url!isxdigit(url_buf[from + 3])
  <2>1. /\ (from + 1) + 1 = from + 2 /\ (from + 1) + 2 = from + 3
        /\ from + 2 \in 1 .. Len(url_buf) <=> from + 2 <= Len(url_buf)
        /\ from + 3 \in 1 .. Len(url_buf) <=> from + 3 <= Len(url_buf)
        /\ from + 3 <= Len(url_buf) => from + 2 <= Len(url_buf)
    BY <1>2
  <2> QED
    BY <2>1 DEF Escape, XDigit, Url!Percent
<1>4. (from + 1) + 1 = from + 2 /\ (from + 1) + 2 = from + 3
  BY <1>2
<1>5. /\ url_buf' = Put(url_buf, to, Value) /\ from' = from + Span
  <2>1. CASE Escape(url_buf, from + 1)
    BY <1>3, <1>4, <2>1 DEF Url!Decode, Put, Value, Span, Named
  <2>2. CASE ~ Escape(url_buf, from + 1)
    BY <1>3, <2>2 DEF Url!Decode, Put, Value, Span
  <2> QED
    BY <2>1, <2>2
<1>6. Value \in Nat /\ from' <= Len(url_buf)
  <2>1. CASE Escape(url_buf, from + 1)
    <3>1. from + 2 \in 1 .. Len(url_buf) /\ from + 3 \in 1 .. Len(url_buf)
      BY <1>2, <1>3, <2>1
    <3>2. url_buf[from + 2] \in Nat /\ url_buf[from + 3] \in Nat
      BY <1>2, <3>1, ElementOfSeq
    <3>3. PICK a \in Nat : a = Url!hexit(url_buf[from + 2])
      BY <3>2, Hexits
    <3>4. PICK b \in Nat : b = Url!hexit(url_buf[from + 3])
      BY <3>2, Hexits
    <3>5. Value = a * 16 + b
      BY <1>4, <2>1, <3>3, <3>4 DEF Value, Named
    <3> QED
      BY <1>2, <1>5, <2>1, <3>1, <3>5 DEF Span
  <2>2. CASE ~ Escape(url_buf, from + 1)
    <3>1. from + 1 \in 1 .. Len(url_buf)
      BY <1>1, <1>2
    <3>2. url_buf[from + 1] \in Nat
      BY <1>2, <3>1, ElementOfSeq
    <3> QED
      BY <1>1, <1>2, <1>5, <2>2, <3>2 DEF Value, Span
  <2> QED
    BY <2>1, <2>2
<1> QED
  BY <1>1, <1>2, <1>5, <1>6

LEMMA PutAt ==
    ASSUME NEW b \in Seq(Nat), NEW t \in Nat, t < Len(b), NEW x \in Nat, NEW d, d = Put(b, t, x)
    PROVE  /\ d \in Seq(Nat) /\ Len(d) = Len(b)
           /\ d[t + 1] = x /\ \A k \in 1 .. Len(b) : k # t + 1 => d[k] = b[k]
           /\ SubSeq(d, 1, t + 1) = SubSeq(b, 1, t) \o <<x>>
<1>1. t + 1 \in 1 .. Len(b)
  OBVIOUS
<1>2. /\ d \in Seq(Nat) /\ Len(d) = Len(b)
      /\ d[t + 1] = x /\ \A k \in 1 .. Len(b) : k # t + 1 => d[k] = b[k]
  BY <1>1 DEF Put
<1>3. SubSeq(d, 1, t + 1) = SubSeq(b, 1, t) \o <<x>>
  <2> DEFINE u == SubSeq(d, 1, t + 1)
             v == SubSeq(b, 1, t) \o <<x>>
  <2>1. u \in Seq(Nat) /\ Len(u) = t + 1 /\ \A k \in 1 .. t + 1 : u[k] = d[k]
    <3>1. t + 1 \in 0 .. Len(d)
      BY <1>1, <1>2
    <3> QED
      BY <1>2, <3>1, Beginning
  <2>2. SubSeq(b, 1, t) \in Seq(Nat) /\ Len(SubSeq(b, 1, t)) = t
        /\ \A k \in 1 .. t : SubSeq(b, 1, t)[k] = b[k]
    BY <1>1
  <2>3. v \in Seq(Nat) /\ Len(v) = t + 1 /\ v[t + 1] = x /\ \A k \in 1 .. t : v[k] = b[k]
    BY <2>2
  <2>4. \A k \in 1 .. t + 1 : u[k] = v[k]
    BY <1>1, <1>2, <2>1, <2>3
  <2> HIDE DEF u, v
  <2>5. u = v
    BY <2>1, <2>3, <2>4, SeqEqual
  <2> QED
    BY <2>5 DEF u, v
<1> QED
  BY <1>2, <1>3

(* strdecode on a string that was not encoded.                             *)
LEMMA MeaningKeeps ==
    ASSUME UrlInv, Url!Decode, tosize = 0
    PROVE  MeaningInv'
<1>1. /\ MeaningInv /\ from < Len(url_buf) /\ from' = from + Span /\ to' = to + 1 /\ to <= from
      /\ UNCHANGED name /\ url_buf' = Put(url_buf, to, Value)
      /\ Value \in Nat /\ from' <= Len(url_buf) /\ url_buf \in Seq(Nat) /\ name \in Seq(Ascii)
      /\ from \in Nat /\ to \in Nat /\ Span \in {1, 3}
  BY Decoding DEF UrlInv, Span
<1>2. Len(url_buf) = Len(name) /\ from + 1 \in 1 .. Len(name)
      /\ \A k \in from + 1 .. Len(name) : url_buf[k] = name[k]
  <2>1. Len(url_buf) = Len(name) /\ \A k \in from + 1 .. Len(name) : url_buf[k] = name[k]
    BY <1>1 DEF MeaningInv
  <2> QED
    BY <1>1, <2>1
<1>3. PICK d \in Seq(Nat) :
         /\ d = url_buf' /\ Len(d) = Len(url_buf)
         /\ \A k \in 1 .. Len(url_buf) : k # to + 1 => d[k] = url_buf[k]
         /\ SubSeq(d, 1, to + 1) = SubSeq(url_buf, 1, to) \o <<Value>>
  <2>1. PICK b, d, x : b = url_buf /\ d = url_buf' /\ x = Value
    OBVIOUS
  <2>2. /\ b \in Seq(Nat) /\ to \in Nat /\ to < Len(b) /\ x \in Nat /\ d = Put(b, to, x)
    BY <1>1, <2>1
  <2>3. /\ d \in Seq(Nat) /\ Len(d) = Len(b) /\ d[to + 1] = x
        /\ \A k \in 1 .. Len(b) : k # to + 1 => d[k] = b[k]
        /\ SubSeq(d, 1, to + 1) = SubSeq(b, 1, to) \o <<x>>
    BY <2>2, PutAt
  <2> QED
    BY <2>1, <2>3
<1>4. PICK g : /\ Means(name, g) /\ Url!Meaning(name) = g[1]
               /\ SubSeq(url_buf, 1, to) \o g[from + 1] = g[1]
  BY <1>1 DEF MeaningInv
<1>11. PICK f \in Nat : f = from' /\ f = from + Span /\ f <= Len(name)
  BY <1>1, <1>2
<1>12. url_buf[from + 1] = name[from + 1]
  BY <1>1, <1>2
<1>5. /\ Escape(url_buf, from + 1) <=> Escape(name, from + 1)
      /\ Escape(name, from + 1) => Named(url_buf, from + 1) = Named(name, from + 1)
  <2>1. (from + 1) + 1 = from + 2 /\ (from + 1) + 2 = from + 3
    BY <1>1
  <2>2. url_buf[from + 1] = name[from + 1]
    BY <1>1, <1>2
  <2>3. /\ from + 2 \in 1 .. Len(name) => url_buf[from + 2] = name[from + 2]
        /\ from + 3 \in 1 .. Len(name) => url_buf[from + 3] = name[from + 3]
    BY <1>1, <1>2
  <2>4. Escape(url_buf, from + 1) <=> Escape(name, from + 1)
    BY <1>2, <2>1, <2>2, <2>3 DEF Escape, XDigit
  <2>5. Escape(name, from + 1) => url_buf[from + 2] = name[from + 2] /\ url_buf[from + 3] = name[from + 3]
    BY <2>1, <2>3 DEF Escape, XDigit
  <2> QED
    BY <2>1, <2>4, <2>5 DEF Named
<1>6. g[from + 1] = <<Value>> \o g[f + 1] /\ g[f + 1] \in Seq(Nat)
  <2>1. g[from + 1] = MeaningBody(name, g, from + 1) /\ g \in [1 .. Len(name) + 1 -> Seq(Nat)]
    BY <1>2, <1>4 DEF Means
  <2>2. ~ (from + 1 > Len(name)) /\ f + 1 \in 1 .. Len(name) + 1
    BY <1>1, <1>2, <1>11
  <2>3. CASE Escape(name, from + 1)
    <3>1. Value = Named(name, from + 1) /\ (from + 1) + 3 = f + 1
      BY <1>1, <1>5, <1>11, <2>3 DEF Value, Span
    <3>2. g[from + 1] = <<Named(name, from + 1)>> \o g[(from + 1) + 3]
      BY <2>1, <2>2, <2>3, Zenon DEF MeaningBody
    <3>3. g[f + 1] \in Seq(Nat)
      BY <2>1, <2>2
    <3> QED
      BY <3>1, <3>2, <3>3
  <2>4. CASE ~ Escape(name, from + 1)
    <3>1. Value = name[from + 1] /\ (from + 1) + 1 = f + 1
      BY <1>1, <1>5, <1>11, <1>12, <2>4 DEF Value, Span
    <3>2. g[from + 1] = <<name[from + 1]>> \o g[(from + 1) + 1]
      BY <2>1, <2>2, <2>4, Zenon DEF MeaningBody
    <3>3. g[f + 1] \in Seq(Nat)
      BY <2>1, <2>2
    <3> QED
      BY <3>1, <3>2, <3>3
  <2> QED
    BY <2>3, <2>4
<1>7. SubSeq(d, 1, to + 1) \o g[f + 1] = g[1]
  <2>1. SubSeq(url_buf, 1, to) \in Seq(Nat) /\ <<Value>> \in Seq(Nat)
    BY <1>1
  <2>2. (SubSeq(url_buf, 1, to) \o <<Value>>) \o g[f + 1]
           = SubSeq(url_buf, 1, to) \o (<<Value>> \o g[f + 1])
    <3>1. PICK u \in Seq(Nat) : u = SubSeq(url_buf, 1, to)
      BY <2>1
    <3>2. PICK v \in Seq(Nat) : v = <<Value>>
      BY <2>1
    <3>3. PICK z \in Seq(Nat) : z = g[f + 1]
      BY <1>6
    <3>4. PICK N : N = Nat
      OBVIOUS
    <3>5. u \in Seq(N) /\ v \in Seq(N) /\ z \in Seq(N)
      BY <3>4
    <3>6. (u \o v) \o z = u \o (v \o z)
      BY <3>5, Together
    <3> QED
      BY <3>1, <3>2, <3>3, <3>6
  <2> QED
    BY <1>3, <1>4, <1>6, <2>2
<1>8. \A k \in f + 1 .. Len(name) : d[k] = name[k]
  <2> SUFFICES ASSUME NEW k \in f + 1 .. Len(name) PROVE d[k] = name[k]
    OBVIOUS
  <2>1. k \in 1 .. Len(url_buf) /\ k # to + 1 /\ k \in from + 1 .. Len(name)
    BY <1>1, <1>2, <1>11
  <2> QED
    BY <1>2, <1>3, <2>1
<1>10. /\ Len(d) = Len(name) /\ Means(name, g) /\ Url!Meaning(name) = g[1]
  BY <1>2, <1>3, <1>4
<1> QED
  BY <1>1, <1>3, <1>7, <1>8, <1>10, <1>11 DEF MeaningInv

(* strdecode on what strencode has written.                                *)
LEMMA BackKeeps ==
    ASSUME UrlInv, Url!Decode, tosize # 0
    PROVE  BackInv'
<1>1. /\ BackInv /\ from < Len(url_buf) /\ from' = from + Span /\ to' = to + 1 /\ to <= from
      /\ UNCHANGED <<name, tosize>> /\ url_buf' = Put(url_buf, to, Value)
      /\ Value \in Nat /\ from' <= Len(url_buf) /\ url_buf \in Seq(Nat) /\ name \in Seq(Ascii)
      /\ from \in Nat /\ to \in Nat /\ Span \in {1, 3}
  BY Decoding DEF UrlInv, Span
<1>2. PICK n \in 0 .. Len(name) :
         /\ to <= n /\ (3 * Len(name) + 1 < tosize => n = Len(name))
         /\ Laid(name, url_buf, to, from, n)
         /\ \A k \in 1 .. to : url_buf[k] = name[k]
  BY <1>1 DEF BackInv
<1>3. PICK pos : LaidOut(name, url_buf, to, from, n, pos)
  BY <1>2 DEF Laid
<1>4. /\ pos \in [0 .. n -> 0 .. Len(url_buf)] /\ pos[to] = from /\ pos[n] = Len(url_buf)
      /\ \A j, k \in 0 .. n : j <= k => pos[j] <= pos[k]
      /\ \A j \in to + 1 .. n : /\ pos[j] = pos[j - 1] + Width(name[j])
                                /\ CodedAt(name[j], url_buf, pos[j - 1])
  BY <1>3 DEF LaidOut
<1>5. n \in Nat /\ to < n /\ to + 1 \in 1 .. Len(name) /\ to + 1 \in 0 .. n
  BY <1>1, <1>2, <1>4
<1> DEFINE c == name[to + 1]
<1>6. c \in Ascii
  BY <1>1, <1>5, ElementOfSeq
<1>7. /\ pos[to + 1] = from + Width(c) /\ pos[to + 1] <= Len(url_buf)
      /\ CodedAt(c, url_buf, from)
  <2>1. to + 1 \in to + 1 .. n /\ (to + 1) - 1 = to
    BY <1>1, <1>5
  <2> QED
    BY <1>4, <1>5, <2>1
<1> HIDE DEF c
<1>8. Value = c /\ Span = Width(c)
  <2>1. CASE Url!Plain(c)
    <3>1. url_buf[from + 1] = c /\ c # 37 /\ Width(c) = 1
      <4>1. ~ Url!Plain(37)
        BY DEF Url!Plain, Url!isalnum, Url!Digit
      <4> QED
        BY <1>7, <2>1, <4>1 DEF CodedAt, Width
    <3> QED
      BY <3>1 DEF Value, Span, Escape
  <2>2. CASE ~ Url!Plain(c)
    <3>1. /\ url_buf[from + 1] = 37 /\ url_buf[from + 2] = Url!hex(c \div 16)
          /\ url_buf[from + 3] = Url!hex(c % 16) /\ Width(c) = 3
      BY <1>7, <2>2 DEF CodedAt, Width
    <3>2. /\ Url!isxdigit(url_buf[from + 2]) /\ Url!isxdigit(url_buf[from + 3])
          /\ Url!hexit(url_buf[from + 2]) = c \div 16 /\ Url!hexit(url_buf[from + 3]) = c % 16
      BY <1>6, <3>1, Halves, HexBack
    <3>3. from + 2 \in 1 .. Len(url_buf) /\ from + 3 \in 1 .. Len(url_buf)
          /\ (from + 1) + 1 = from + 2 /\ (from + 1) + 2 = from + 3
      BY <1>1, <1>7, <3>1
    <3>4. Escape(url_buf, from + 1)
      BY <3>1, <3>2, <3>3 DEF Escape, XDigit
    <3>5. Named(url_buf, from + 1) = c
      BY <1>6, <3>2, <3>3, Halves DEF Named
    <3> QED
      BY <3>1, <3>4, <3>5 DEF Value, Span
  <2> QED
    BY <2>1, <2>2
<1>9. PICK d \in Seq(Nat) :
         /\ d = url_buf' /\ Len(d) = Len(url_buf) /\ d[to + 1] = Value
         /\ \A k \in 1 .. Len(url_buf) : k # to + 1 => d[k] = url_buf[k]
  <2>1. PICK b, d, x : b = url_buf /\ d = url_buf' /\ x = Value
    OBVIOUS
  <2>2. /\ b \in Seq(Nat) /\ to \in Nat /\ to < Len(b) /\ x \in Nat /\ d = Put(b, to, x)
    BY <1>1, <2>1
  <2>3. /\ d \in Seq(Nat) /\ Len(d) = Len(b) /\ d[to + 1] = x
        /\ \A k \in 1 .. Len(b) : k # to + 1 => d[k] = b[k]
        /\ SubSeq(d, 1, to + 1) = SubSeq(b, 1, to) \o <<x>>
    BY <2>2, PutAt
  <2> QED
    BY <2>1, <2>3
<1>10. PICK f \in Nat : f = from' /\ f = pos[to + 1] /\ to + 1 <= f
  BY <1>1, <1>7, <1>8
<1>11. ASSUME NEW j \in to + 2 .. n
       PROVE  pos[j] = pos[j - 1] + Width(name[j]) /\ CodedAt(name[j], d, pos[j - 1])
  <2>1. j \in to + 1 .. n /\ j \in 0 .. n /\ j - 1 \in 0 .. n /\ to + 1 <= j - 1
    BY <1>1, <1>5
  <2>2. pos[j] = pos[j - 1] + Width(name[j]) /\ CodedAt(name[j], url_buf, pos[j - 1])
    BY <1>4, <2>1
  <2>3. pos[j] \in 0 .. Len(url_buf) /\ pos[j - 1] \in 0 .. Len(url_buf) /\ f <= pos[j - 1]
    BY <1>4, <1>5, <1>10, <2>1
  <2>4. PICK u \in {1, 3} : u = Width(name[j])
    BY DEF Width
  <2>5. PICK a \in Nat : a = pos[j - 1]
    BY <2>3
  <2>6. a + u \in 0 .. Len(url_buf) /\ f <= a
    BY <2>2, <2>3, <2>4, <2>5
  <2>7. /\ a + 1 \in 1 .. Len(url_buf) /\ a + 1 # to + 1 /\ a + 2 # to + 1 /\ a + 3 # to + 1
        /\ u = 3 => a + 2 \in 1 .. Len(url_buf) /\ a + 3 \in 1 .. Len(url_buf)
    BY <1>1, <1>10, <2>6
  <2>8. /\ d[a + 1] = url_buf[a + 1]
        /\ Width(name[j]) = 3 => d[a + 2] = url_buf[a + 2] /\ d[a + 3] = url_buf[a + 3]
    BY <1>9, <2>4, <2>7
  <2>9. CodedAt(name[j], d, a)
    BY <2>2, <2>5, <2>8, CodeStays
  <2> QED
    BY <2>2, <2>5, <2>9
<1>12. Laid(name, d, to + 1, f, n)
  <2>1. (to + 1) + 1 = to + 2
    BY <1>1
  <2>2. \A j \in (to + 1) + 1 .. n : /\ pos[j] = pos[j - 1] + Width(name[j])
                                     /\ CodedAt(name[j], d, pos[j - 1])
    BY <1>11, <2>1
  <2>3. LaidOut(name, d, to + 1, f, n, pos)
    BY <1>4, <1>9, <1>10, <2>2 DEF LaidOut
  <2> QED
    BY <2>3 DEF Laid
<1>13. \A k \in 1 .. to + 1 : d[k] = name[k]
  <2> SUFFICES ASSUME NEW k \in 1 .. to + 1 PROVE d[k] = name[k]
    OBVIOUS
  <2>1. CASE k = to + 1
    BY <1>8, <1>9, <2>1 DEF c
  <2>2. CASE k # to + 1
    <3>1. k \in 1 .. to /\ k \in 1 .. Len(url_buf)
      BY <1>1, <2>2
    <3> QED
      BY <1>2, <1>9, <2>2, <3>1
  <2> QED
    BY <2>1, <2>2
<1>14. to + 1 <= n
  BY <1>1, <1>5
<1> QED
  BY <1>1, <1>2, <1>9, <1>10, <1>12, <1>13, <1>14 DEF BackInv

LEMMA DecodeKeepsUrl ==
    ASSUME UrlInv, Url!Decode
    PROVE  UrlInv'
<1>1. /\ url_pc = "decode" /\ url_pc' = "decode" /\ UNCHANGED <<name, tosize>>
      /\ from' = from + Span /\ to' = to + 1 /\ to <= from
      /\ url_buf' = Put(url_buf, to, Value) /\ from < Len(url_buf)
      /\ Value \in Nat /\ from' <= Len(url_buf)
      /\ url_buf \in Seq(Nat) /\ name \in Seq(Ascii)
      /\ from \in Nat /\ to \in Nat /\ tosize \in Nat
  BY Decoding
<1>2. url_buf' \in Seq(Nat) /\ Len(url_buf') = Len(url_buf)
  <2>1. PICK b, d, x : b = url_buf /\ d = url_buf' /\ x = Value
    OBVIOUS
  <2>2. /\ b \in Seq(Nat) /\ to \in Nat /\ to < Len(b) /\ x \in Nat /\ d = Put(b, to, x)
    BY <1>1, <2>1
  <2>3. d \in Seq(Nat) /\ Len(d) = Len(b)
    BY <2>2, PutAt
  <2> QED
    BY <2>1, <2>3
<1>3. from' \in Nat /\ to' \in Nat /\ to' <= from'
  BY <1>1 DEF Span
<1>4. UrlTypes' /\ from' <= Len(url_buf')
  BY <1>1, <1>2, <1>3 DEF UrlTypes
<1> QED
  BY <1>1, <1>3, <1>4, MeaningKeeps, BackKeeps DEF UrlInv

LEMMA DecodedKeepsUrl ==
    ASSUME UrlInv, Url!Decoded
    PROVE  UrlInv'
<1>1. /\ url_pc = "decode" /\ url_pc' = "done" /\ UNCHANGED <<name, tosize, from, to>>
      /\ from = Len(url_buf) /\ url_buf' = Url!CString(SubSeq(url_buf, 1, to))
  BY DEF Url!Decoded
<1>2. /\ url_buf \in Seq(Nat) /\ name \in Seq(Ascii) /\ from \in Nat /\ to \in Nat
      /\ tosize \in Nat /\ to <= from
  BY <1>1 DEF UrlInv, UrlTypes
<1>3. CASE tosize = 0
  <2>1. MeaningInv
    BY <1>1, <1>3 DEF UrlInv
  <2>2. PICK g : /\ Means(name, g) /\ Url!Meaning(name) = g[1]
                 /\ SubSeq(url_buf, 1, to) \o g[from + 1] = g[1]
    BY <2>1 DEF MeaningInv
  <2>3. g[from + 1] = <<>>
    <3>1. from + 1 \in 1 .. Len(name) + 1 /\ from + 1 > Len(name)
      BY <1>1, <1>2, <2>1 DEF MeaningInv
    <3> QED
      BY <2>2, <3>1 DEF Means, MeaningBody
  <2>4. SubSeq(url_buf, 1, to) = g[1]
    <3>1. SubSeq(url_buf, 1, to) \in Seq(Nat)
      BY <1>1, <1>2
    <3>2. SubSeq(url_buf, 1, to) \o <<>> = SubSeq(url_buf, 1, to)
      BY <3>1, ConcatEmptySeq
    <3> QED
      BY <2>2, <2>3, <3>2
  <2>5. DoneInv'
    BY <1>1, <1>3, <2>2, <2>4 DEF DoneInv
  <2> QED
    BY <1>1, <1>2, <2>5 DEF UrlInv, UrlTypes
<1>4. CASE tosize # 0
  <2>1. BackInv
    BY <1>1, <1>4 DEF UrlInv
  <2>2. PICK n \in 0 .. Len(name) :
           /\ to <= n /\ (3 * Len(name) + 1 < tosize => n = Len(name))
           /\ Laid(name, url_buf, to, from, n)
           /\ \A k \in 1 .. to : url_buf[k] = name[k]
    BY <2>1 DEF BackInv
  <2>3. PICK pos : LaidOut(name, url_buf, to, from, n, pos)
    BY <2>2 DEF Laid
  <2>4. to = n
    <3> SUFFICES ASSUME to < n PROVE FALSE
      BY <1>2, <2>2
    <3>1. to + 1 \in to + 1 .. n /\ to + 1 \in 0 .. n /\ (to + 1) - 1 = to
      BY <1>2, <2>2
    <3>2. /\ pos[to + 1] \in 0 .. Len(url_buf) /\ pos[to] = from
          /\ pos[to + 1] = pos[to] + Width(name[to + 1])
      BY <2>3, <3>1 DEF LaidOut
    <3>3. PICK u \in {1, 3} : u = Width(name[to + 1])
      BY DEF Width
    <3> QED
      BY <1>1, <1>2, <3>2, <3>3
  <2>5. PICK s : s = SubSeq(url_buf, 1, to)
    OBVIOUS
  <2>6. s \in Seq(Nat) /\ Len(s) = n /\ \A k \in 1 .. n : s[k] = name[k]
    <3>1. to \in 0 .. Len(url_buf)
      BY <1>1, <1>2
    <3>2. s \in Seq(Nat) /\ Len(s) = to /\ \A k \in 1 .. to : s[k] = url_buf[k]
      BY <1>2, <2>5, <3>1, Beginning
    <3> QED
      BY <2>2, <2>4, <3>2
  <2>7. \A k \in 1 .. n : name[k] \in Ascii
    BY <1>2, ElementOfSeq
  <2>8. \A k \in 1 .. Len(s) : s[k] # 0
    <3>1. 0 \notin Ascii
      BY DEF Ascii
    <3> QED
      BY <2>6, <2>7, <3>1
  <2>9. url_buf' = s
    BY <1>1, <2>5, <2>8 DEF Url!CString, Url!Contains
  <2>10. name \in Seq(Nat)
    BY <1>2, AsciiNat
  <2>11. Url!IsPrefix(s, name)
    <3>1. PICK u : u = SubSeq(s, 1, n)
      OBVIOUS
    <3>2. PICK v : v = SubSeq(name, 1, n)
      OBVIOUS
    <3>3. n \in 0 .. Len(s)
      BY <2>6
    <3>4. u \in Seq(Nat) /\ Len(u) = n /\ \A k \in 1 .. n : u[k] = s[k]
      BY <2>6, <3>1, <3>3, Beginning
    <3>5. v \in Seq(Nat) /\ Len(v) = n /\ \A k \in 1 .. n : v[k] = name[k]
      BY <2>10, <3>2, Beginning
    <3>6. u = v
      BY <2>6, <3>4, <3>5, SeqEqual
    <3> QED
      BY <2>6, <3>1, <3>2, <3>6 DEF Url!IsPrefix
  <2>12. 3 * Len(name) + 1 < tosize => s = name
    BY <2>2, <2>6, <2>10, SeqEqual
  <2>13. DoneInv'
    BY <1>1, <1>4, <2>9, <2>11, <2>12 DEF DoneInv
  <2> QED
    BY <1>1, <1>2, <2>13 DEF UrlInv, UrlTypes
<1> QED
  BY <1>3, <1>4

(* CodingRight: a name decoded in place becomes what it stands for; a name *)
(* encoded into a buffer of any size and decoded again is the name, or a   *)
(* beginning of it.                                                        *)
THEOREM CodingsRight == ProgramsSpec => []CodingRight
<1>1. UrlInv /\ [ProgramsNext]_ProgramsVars => UrlInv'
  <2> SUFFICES ASSUME UrlInv, [ProgramsNext]_ProgramsVars PROVE UrlInv'
    OBVIOUS
  <2>1. CASE UNCHANGED urlVars
    BY <2>1 DEF urlVars, UrlInv, UrlTypes, EncodeInv, BackInv, MeaningInv, DoneInv
  <2> QED
    BY <2>1, Alone, CallKeepsUrl, EncodeKeepsUrl, EncodedKeepsUrl, DecodeKeepsUrl,
       DecodedKeepsUrl DEF Url!Next
<1>2. UrlInv => CodingRight
  <2> SUFFICES ASSUME UrlInv PROVE CodingRight
    OBVIOUS
  <2>1. /\ to <= from \/ url_pc = "encode"
        /\ url_pc = "encode" => to < tosize
        /\ url_pc = "done" => DoneInv
    BY DEF UrlInv, UrlTypes, EncodeInv
  <2>2. ASSUME url_pc = "decode", tosize = 0
        PROVE  SubSeq(url_buf, from + 1, Len(url_buf)) = SubSeq(name, from + 1, Len(name))
    <3>1. /\ url_buf \in Seq(Nat) /\ name \in Seq(Ascii) /\ from \in Nat
          /\ Len(url_buf) = Len(name) /\ from <= Len(name)
          /\ \A k \in from + 1 .. Len(name) : url_buf[k] = name[k]
      BY <2>2 DEF UrlInv, UrlTypes, MeaningInv
    <3>2. name \in Seq(Nat)
      BY <3>1, AsciiNat
    <3>3. PICK u, v : u = SubSeq(url_buf, from + 1, Len(url_buf)) /\ v = SubSeq(name, from + 1, Len(name))
      OBVIOUS
    <3>4. /\ u \in Seq(Nat) /\ Len(u) = Len(name) - from
          /\ \A k \in 1 .. Len(name) - from : u[k] = url_buf[from + k]
      <4>1. Len(url_buf) \in Nat /\ from <= Len(url_buf)
        BY <3>1
      <4>2. /\ SubSeq(url_buf, from + 1, Len(url_buf)) \in Seq(Nat)
            /\ Len(SubSeq(url_buf, from + 1, Len(url_buf))) = Len(url_buf) - from
            /\ \A k \in 1 .. Len(url_buf) - from :
                  SubSeq(url_buf, from + 1, Len(url_buf))[k] = url_buf[from + k]
        BY <3>1, <4>1, Section
      <4> QED
        BY <3>1, <3>3, <4>2, Zenon
    <3>5. /\ v \in Seq(Nat) /\ Len(v) = Len(name) - from
          /\ \A k \in 1 .. Len(name) - from : v[k] = name[from + k]
      <4>1. Len(name) \in Nat /\ from <= Len(name)
        BY <3>1
      <4>2. /\ SubSeq(name, from + 1, Len(name)) \in Seq(Nat)
            /\ Len(SubSeq(name, from + 1, Len(name))) = Len(name) - from
            /\ \A k \in 1 .. Len(name) - from :
                  SubSeq(name, from + 1, Len(name))[k] = name[from + k]
        BY <3>1, <3>2, <4>1, Section
      <4> QED
        BY <3>3, <4>2, Zenon
    <3>6. \A k \in 1 .. Len(name) - from : url_buf[from + k] = name[from + k]
      BY <3>1
    <3>7. u = v
      BY <3>4, <3>5, <3>6, SeqEqual
    <3> QED
      BY <3>3, <3>7
  <2> QED
    BY <2>1, <2>2 DEF CodingRight, Url!CodingRight, DoneInv
<1> QED
  BY InitUrl, <1>1, <1>2, PTL DEF ProgramsSpec
-----------------------------------------------------------------------------
(* Read, Write, Readn, Writen and get_line.  FlattenSeq, step by step.     *)
FlatBody(rs, g, k) == IF k = 1 THEN rs[k] ELSE g[k - 1] \o rs[k]
Flattens(S, rs, f) ==
    /\ f \in [1 .. Len(rs) -> Seq(S)]
    /\ \A k \in 1 .. Len(rs) : f[k] = FlatBody(rs, f, k)

LEMMA FlatExists ==
    ASSUME NEW S, NEW rs \in Seq(Seq(S))
    PROVE  \E f : Flattens(S, rs, f)
<1> DEFINE D == 1 .. Len(rs)
           K == {n \in Nat : \E g \in [D -> Seq(S)] : \A k \in D : k <= n => g[k] = FlatBody(rs, g, k)}
<1>1. 0 \in K
  <2>1. [k \in D |-> rs[k]] \in [D -> Seq(S)]
    BY ElementOfSeq
  <2> QED
    BY <2>1
<1>2. ASSUME NEW n \in Nat, n \in K PROVE n + 1 \in K
  <2>1. PICK g \in [D -> Seq(S)] : \A k \in D : k <= n => g[k] = FlatBody(rs, g, k)
    BY <1>2
  <2> DEFINE h == [k \in D |-> FlatBody(rs, g, k)]
  <2>2. h \in [D -> Seq(S)]
    <3> SUFFICES ASSUME NEW k \in D PROVE FlatBody(rs, g, k) \in Seq(S)
      OBVIOUS
    <3>1. rs[k] \in Seq(S)
      BY ElementOfSeq
    <3>2. CASE k = 1
      BY <3>1, <3>2 DEF FlatBody
    <3>3. CASE k # 1
      <4>1. k - 1 \in D
        BY <3>3
      <4>2. g[k - 1] \in Seq(S)
        BY <4>1
      <4>3. g[k - 1] \o rs[k] \in Seq(S)
        BY <3>1, <4>2, ConcatProperties
      <4> QED
        BY <3>3, <4>3 DEF FlatBody
    <3> QED
      BY <3>2, <3>3
  <2>3. ASSUME NEW k \in D, k <= n + 1 PROVE h[k] = FlatBody(rs, h, k)
    <3>1. h[k] = FlatBody(rs, g, k)
      OBVIOUS
    <3>2. k # 1 => h[k - 1] = g[k - 1]
      BY <2>1, <2>3
    <3> HIDE DEF h
    <3> QED
      BY <3>1, <3>2 DEF FlatBody
  <2> HIDE DEF h
  <2> QED
    BY <2>2, <2>3
<1> HIDE DEF K
<1>3. \A n \in Nat : n \in K
  BY <1>1, <1>2, AllNumbers
<1>4. Len(rs) \in K
  BY <1>3
<1> QED
  BY <1>4 DEF K, Flattens

LEMMA FlatIs ==
    ASSUME NEW S, NEW rs \in Seq(Seq(S)), Len(rs) # 0, NEW f, Flattens(S, rs, f)
    PROVE  Wrap!FlattenSeq(rs) = f[Len(rs)]
<1> DEFINE D == 1 .. Len(rs)
           Is(g) == g = [k \in D |-> IF k = 1 THEN rs[k] ELSE g[k - 1] \o rs[k]]
           m == CHOOSE g : Is(g)
<1>1. Is(f)
  BY Zenon DEF Flattens, FlatBody
<1>2. Wrap!FlattenSeq(rs) = m[Len(rs)]
  BY DEF Wrap!FlattenSeq
<1>3. Is(m)
  BY <1>1, Zenon
<1> HIDE DEF m
<1>4. \A k \in D : m[k] = FlatBody(rs, m, k)
  BY <1>3 DEF FlatBody
<1> HIDE DEF Is
<1> DEFINE K == {n \in Nat : \A k \in D : k <= n => m[k] = f[k]}
<1>5. 0 \in K
  OBVIOUS
<1>6. ASSUME NEW n \in Nat, n \in K PROVE n + 1 \in K
  <2>1. ASSUME NEW k \in D, k <= n + 1 PROVE m[k] = f[k]
    <3>1. k # 1 => k - 1 \in D /\ k - 1 <= n
      BY <2>1
    <3>2. k # 1 => m[k - 1] = f[k - 1]
      BY <1>6, <3>1
    <3>3. f[k] = FlatBody(rs, f, k)
      BY DEF Flattens
    <3> QED
      BY <1>4, <3>2, <3>3 DEF FlatBody
  <2> QED
    BY <2>1
<1> HIDE DEF K
<1>7. \A n \in Nat : n \in K
  BY <1>5, <1>6, AllNumbers
<1>8. Len(rs) \in K
  BY <1>7
<1>9. m[Len(rs)] = f[Len(rs)]
  BY <1>8 DEF K
<1> QED
  BY <1>2, <1>9

LEMMA FlatTypes ==
    ASSUME NEW S, NEW rs \in Seq(Seq(S))
    PROVE  Wrap!FlattenSeq(rs) \in Seq(S)
<1>1. CASE Len(rs) = 0
  <2>1. rs = <<>>
    BY <1>1, EmptySeq
  <2> QED
    BY <1>1, <2>1 DEF Wrap!FlattenSeq
<1>2. CASE Len(rs) # 0
  <2>1. PICK f : Flattens(S, rs, f)
    BY FlatExists
  <2>2. Wrap!FlattenSeq(rs) = f[Len(rs)]
    BY <1>2, <2>1, FlatIs
  <2> QED
    <3>1. Len(rs) \in 1 .. Len(rs)
      BY <1>2
    <3> QED
      BY <2>1, <2>2, <3>1 DEF Flattens
<1> QED
  BY <1>1, <1>2

LEMMA FlatAppend ==
    ASSUME NEW S, NEW rs \in Seq(Seq(S)), NEW s \in Seq(S)
    PROVE  Wrap!FlattenSeq(Append(rs, s)) = Wrap!FlattenSeq(rs) \o s
<1> DEFINE n == Len(rs)
           qs == Append(rs, s)
<1>1. PICK f : Flattens(S, rs, f)
  BY FlatExists
<1>2. n \in Nat /\ qs \in Seq(Seq(S)) /\ Len(qs) = n + 1 /\ qs[n + 1] = s
      /\ \A k \in 1 .. n : qs[k] = rs[k]
  BY AppendProperties
<1>3. /\ f \in [1 .. n -> Seq(S)] /\ \A k \in 1 .. n : f[k] = FlatBody(rs, f, k)
  BY <1>1 DEF Flattens
<1> DEFINE whole == Wrap!FlattenSeq(rs) \o s
           h == [k \in 1 .. n + 1 |-> IF k <= n THEN f[k] ELSE whole]
<1>4. whole \in Seq(S)
  BY FlatTypes, ConcatProperties
<1>5. n = 0 => whole = s
  <2>1. n = 0 => Wrap!FlattenSeq(rs) = <<>>
    BY EmptySeq DEF Wrap!FlattenSeq
  <2> QED
    BY <2>1, ConcatEmptySeq
<1>6. n # 0 => whole = f[n] \o s
  BY <1>1, FlatIs
<1> HIDE DEF n, qs, whole
<1>7. h \in [1 .. n + 1 -> Seq(S)] /\ h[n + 1] = whole /\ \A k \in 1 .. n : h[k] = f[k]
  BY <1>2, <1>3, <1>4
<1> HIDE DEF h
<1>8. ASSUME NEW k \in 1 .. n + 1 PROVE h[k] = FlatBody(qs, h, k)
  <2>1. CASE k = n + 1 /\ n = 0
    BY <1>2, <1>5, <1>7, <2>1 DEF FlatBody
  <2>2. CASE k = n + 1 /\ n # 0
    <3>1. k # 1 /\ k - 1 = n /\ n \in 1 .. n
      BY <1>2, <2>2
    <3> QED
      BY <1>2, <1>6, <1>7, <2>2, <3>1 DEF FlatBody
  <2>3. CASE k # n + 1
    <3>1. k \in 1 .. n /\ (k # 1 => k - 1 \in 1 .. n)
      BY <1>2, <2>3
    <3>2. h[k] = f[k] /\ (k # 1 => h[k - 1] = f[k - 1]) /\ qs[k] = rs[k]
      BY <1>2, <1>7, <3>1
    <3>3. f[k] = FlatBody(rs, f, k)
      BY <1>3, <3>1
    <3> QED
      BY <3>2, <3>3 DEF FlatBody
  <2> QED
    BY <2>1, <2>2, <2>3
<1>9. Flattens(S, qs, h)
  BY <1>2, <1>7, <1>8 DEF Flattens
<1>10. Wrap!FlattenSeq(qs) = h[n + 1]
  BY <1>2, <1>9, FlatIs
<1> QED
  BY <1>7, <1>10 DEF qs, whole

(* The lines of get_line, character by character.                          *)
Alphabet == {"cr", "lf", "x"}
Second(s, k) == s[k] = "lf" /\ k > 1 /\ s[k - 1] = "cr"
Feed(c) == IF c = "cr" THEN "lf" ELSE c
LineBody(s, g, k) ==
    IF k = 0 THEN <<>>
    ELSE IF Second(s, k) THEN g[k - 1] ELSE Append(g[k - 1], Feed(s[k]))
LinesOf(s, n) ==
    LET lines[k \in 0 .. Len(s)] ==
            IF k = 0 THEN <<>>
            ELSE IF s[k] = "lf" /\ k > 1 /\ s[k - 1] = "cr" THEN lines[k - 1]
            ELSE Append(lines[k - 1], IF s[k] = "cr" THEN "lf" ELSE s[k])
    IN  lines[n]

LEMMA LinesText == ASSUME NEW n PROVE Wrap!Lines(n) = LinesOf(text, n)
BY DEF Wrap!Lines, LinesOf

LEMMA Feeds == \A c \in Alphabet : Feed(c) \in Alphabet
BY DEF Alphabet, Feed

LEMMA LineTypes ==
    ASSUME NEW s \in Seq(Alphabet), NEW g, NEW k \in 0 .. Len(s),
           k # 0 => g[k - 1] \in Seq(Alphabet)
    PROVE  LineBody(s, g, k) \in Seq(Alphabet)
<1>1. CASE k = 0
  BY <1>1 DEF LineBody
<1>2. CASE k # 0
  <2>1. s[k] \in Alphabet
    BY <1>2, ElementOfSeq
  <2>2. Append(g[k - 1], Feed(s[k])) \in Seq(Alphabet)
    BY <1>2, <2>1, Feeds, AppendProperties
  <2> QED
    BY <1>2, <2>2 DEF LineBody
<1> QED
  BY <1>1, <1>2

LEMMA LinesDefined ==
    ASSUME NEW s \in Seq(Alphabet)
    PROVE  /\ LinesOf(s, 0) = <<>>
           /\ \A n \in 0 .. Len(s) : LinesOf(s, n) \in Seq(Alphabet)
           /\ \A n \in 1 .. Len(s) :
                 LinesOf(s, n) = IF Second(s, n) THEN LinesOf(s, n - 1)
                                 ELSE Append(LinesOf(s, n - 1), Feed(s[n]))
<1> DEFINE D == 0 .. Len(s)
           K == {n \in Nat : \E g \in [D -> Seq(Alphabet)] :
                    \A k \in D : k <= n => g[k] = LineBody(s, g, k)}
<1>1. 0 \in K
  <2> DEFINE g == [k \in D |-> <<>>]
  <2>1. g \in [D -> Seq(Alphabet)] /\ \A k \in D : k <= 0 => g[k] = LineBody(s, g, k)
    BY DEF LineBody
  <2> QED
    BY <2>1
<1>2. ASSUME NEW n \in Nat, n \in K PROVE n + 1 \in K
  <2>1. PICK g \in [D -> Seq(Alphabet)] : \A k \in D : k <= n => g[k] = LineBody(s, g, k)
    BY <1>2
  <2> DEFINE h == [k \in D |-> LineBody(s, g, k)]
  <2>2. h \in [D -> Seq(Alphabet)]
    <3> SUFFICES ASSUME NEW k \in D PROVE LineBody(s, g, k) \in Seq(Alphabet)
      OBVIOUS
    <3>1. k # 0 => k - 1 \in D
      OBVIOUS
    <3>2. k # 0 => g[k - 1] \in Seq(Alphabet)
      BY <3>1
    <3> QED
      BY <3>2, LineTypes
  <2>3. ASSUME NEW k \in D, k <= n + 1 PROVE h[k] = LineBody(s, h, k)
    <3>1. h[k] = LineBody(s, g, k)
      OBVIOUS
    <3>2. k # 0 => k - 1 \in D /\ k - 1 <= n
      BY <2>3
    <3>3. k # 0 => h[k - 1] = g[k - 1]
      BY <2>1, <3>2
    <3> HIDE DEF h
    <3> QED
      BY <3>1, <3>3 DEF LineBody
  <2> HIDE DEF h
  <2> QED
    BY <2>2, <2>3
<1> HIDE DEF K
<1>3. \A n \in Nat : n \in K
  BY <1>1, <1>2, AllNumbers
<1>4. Len(s) \in K
  BY <1>3
<1>5. PICK g \in [D -> Seq(Alphabet)] : \A k \in D : g[k] = LineBody(s, g, k)
  BY <1>4 DEF K
<1> DEFINE Is(f) == f = [k \in D |->
              IF k = 0 THEN <<>>
              ELSE IF s[k] = "lf" /\ k > 1 /\ s[k - 1] = "cr" THEN f[k - 1]
              ELSE Append(f[k - 1], IF s[k] = "cr" THEN "lf" ELSE s[k])]
           m == CHOOSE f : Is(f)
<1>6. Is(g)
  BY <1>5 DEF LineBody, Second, Feed
<1>7. \A n : LinesOf(s, n) = m[n]
  BY DEF LinesOf
<1>8. Is(m)
  BY <1>6, Zenon
<1> HIDE DEF m
<1>9. \A k \in D : m[k] = LineBody(s, m, k)
  BY <1>8 DEF LineBody, Second, Feed
<1> HIDE DEF Is
<1> DEFINE M == {n \in Nat : n \in D => m[n] \in Seq(Alphabet)}
<1>10. 0 \in M
  <2>1. 0 \in D /\ m[0] = <<>>
    BY <1>9 DEF LineBody
  <2>2. m[0] \in Seq(Alphabet)
    BY <2>1, EmptySeq
  <2> QED
    BY <2>2
<1>11. ASSUME NEW n \in Nat, n \in M PROVE n + 1 \in M
  <2> SUFFICES ASSUME n + 1 \in D PROVE m[n + 1] \in Seq(Alphabet)
    OBVIOUS
  <2>1. n \in D /\ (n + 1) - 1 = n
    OBVIOUS
  <2>2. m[n] \in Seq(Alphabet)
    BY <1>11, <2>1
  <2>3. LineBody(s, m, n + 1) \in Seq(Alphabet)
    BY <2>1, <2>2, LineTypes
  <2> QED
    BY <1>9, <2>3
<1> HIDE DEF M
<1>12. \A n \in Nat : n \in M
  BY <1>10, <1>11, AllNumbers
<1>13. \A n \in D : m[n] \in Seq(Alphabet)
  BY <1>12 DEF M
<1>14. m[0] = <<>>
  BY <1>9 DEF LineBody
<1>15. ASSUME NEW n \in 1 .. Len(s)
       PROVE  m[n] = IF Second(s, n) THEN m[n - 1] ELSE Append(m[n - 1], Feed(s[n]))
  BY <1>9 DEF LineBody
<1> QED
  BY <1>7, <1>13, <1>14, <1>15

(* A result is a full piece or, at the end of the stream, what was left.   *)
(* The buffer holds less than one.  After a carriage return the reader has *)
(* looked whether a line feed follows it, unless it is just about to look. *)
Full == IF reader = "get_line" THEN size - 1 ELSE size
Uncut == reader = "get_line" /\ ~ interrupted
Piece(s) ==
    /\ Len(s) <= Full
    /\ Uncut => \A k \in 1 .. Len(s) - 1 : s[k] # "lf"
WholePiece(s) ==
    /\ Piece(s)
    /\ reader = "Readn" => Len(s) = Full
    /\ Uncut => Len(s) = Full \/ s[Len(s)] = "lf"

StreamTypes ==
    /\ sender \in {"Write", "Writen"} /\ reader \in {"Readn", "Read", "get_line"}
    /\ size \in Nat /\ 2 <= size /\ text \in Seq(Alphabet)
    /\ ptr \in Nat /\ ptr <= Len(text) /\ taken \in Nat /\ taken <= ptr
    /\ closed \in BOOLEAN /\ interrupted \in BOOLEAN /\ read_pc \in {"read", "peek", "end"}
    /\ buf \in Seq(Alphabet) /\ results \in Seq(Seq(Alphabet))
PieceInv ==
    /\ \A j \in 1 .. Len(results) :
          /\ Piece(results[j])
          /\ WholePiece(results[j]) \/ (read_pc = "end" /\ j = Len(results))
    /\ Len(buf) < Full /\ (reader = "Read" => buf = <<>>)
    /\ reader = "get_line" => \A k \in 1 .. Len(buf) : buf[k] # "lf"
StoredInv ==
    /\ reader # "get_line" => Wrap!Stored = SubSeq(text, 1, taken)
    /\ Uncut => Wrap!Stored = LinesOf(text, IF read_pc = "peek" THEN taken - 1 ELSE taken)
ReturnInv ==
    /\ read_pc = "peek" => reader = "get_line" /\ taken # 0 /\ text[taken] = "cr"
    /\ Uncut /\ read_pc = "read" /\ taken # 0 /\ text[taken] = "cr" =>
          (taken < ptr /\ text[taken + 1] # "lf") \/ (closed /\ taken = ptr)
CloseInv ==
    /\ closed /\ sender = "Writen" => ptr = Len(text)
    /\ read_pc = "end" => closed /\ taken = ptr
StreamInv == StreamTypes /\ PieceInv /\ StoredInv /\ ReturnInv /\ CloseInv

LEMMA StreamIs ==
    ASSUME StreamTypes
    PROVE  /\ Wrap!Stream \in Seq(Alphabet) /\ Len(Wrap!Stream) = ptr - taken
           /\ \A k \in 1 .. ptr - taken : Wrap!Stream[k] = text[taken + k]
           /\ Wrap!Stream = <<>> <=> taken = ptr
           /\ taken < ptr => Head(Wrap!Stream) = text[taken + 1]
<1> DEFINE s == SubSeq(text, taken + 1, ptr)
<1>1. /\ text \in Seq(Alphabet) /\ ptr \in Nat /\ taken \in Nat /\ taken <= ptr /\ ptr <= Len(text)
  BY DEF StreamTypes
<1>2. /\ s \in Seq(Alphabet) /\ Len(s) = ptr - taken
      /\ \A k \in 1 .. ptr - taken : s[k] = text[taken + k]
  BY <1>1
<1>3. s = <<>> <=> taken = ptr
  BY <1>1, <1>2, EmptySeq
<1>4. taken < ptr => Head(s) = text[taken + 1]
  BY <1>1, <1>2
<1> QED
  BY <1>2, <1>3, <1>4 DEF Wrap!Stream

LEMMA InitStreams == ProgramsInit => StreamInv
<1> SUFFICES ASSUME ProgramsInit PROVE StreamInv
  OBVIOUS
<1>1. /\ sender \in {"Write", "Writen"} /\ reader \in {"Readn", "Read", "get_line"}
      /\ size \in LineSizes /\ text \in Wrap!BoundedSeq(Alphabet, MaxText)
      /\ ptr = 0 /\ closed = FALSE /\ taken = 0
      /\ read_pc = "read" /\ buf = <<>> /\ results = <<>> /\ interrupted = FALSE
  BY DEF ProgramsInit, Wrap!Init, Wrap!Chars, Alphabet
<1>2. text \in Seq(Alphabet) /\ size \in Nat /\ 2 <= size
  <2>1. PICK m \in 0 .. MaxText : text \in [1 .. m -> Alphabet]
    BY <1>1 DEF Wrap!BoundedSeq, Wrap!SeqOf
  <2>2. m \in Nat
    BY ProgramsAssumption
  <2>3. text \in Seq(Alphabet)
    BY <2>1, <2>2, SeqDef
  <2>4. size \in Nat \ {0, 1}
    BY <1>1, ProgramsAssumption
  <2> QED
    BY <2>3, <2>4
<1>3. StreamTypes
  <2>1. ptr \in Nat /\ ptr <= Len(text) /\ taken \in Nat /\ taken <= ptr
    BY <1>1, <1>2
  <2>2. buf \in Seq(Alphabet) /\ results \in Seq(Seq(Alphabet))
    BY <1>1, EmptySeq
  <2> QED
    BY <1>1, <1>2, <2>1, <2>2 DEF StreamTypes
<1>4. Wrap!Stored = <<>>
  BY <1>1 DEF Wrap!Stored, Wrap!FlattenSeq
<1>5. StoredInv
  BY <1>1, <1>2, <1>4, LinesDefined DEF StoredInv
<1> QED
  BY <1>1, <1>2, <1>3, <1>5 DEF StreamInv, PieceInv, ReturnInv, CloseInv, Full

LEMMA WriteKeepsStreams ==
    ASSUME StreamInv, Wrap!WriteSome
    PROVE  StreamInv'
<1>1. /\ ~ closed /\ ptr' \in Nat /\ ptr < ptr' /\ ptr' <= Len(text)
      /\ UNCHANGED <<sender, text, closed, reader, size, taken, read_pc, buf, results, interrupted>>
  <2>1. PICK k \in 1 .. Len(text) - ptr : ptr' = ptr + k
    BY DEF Wrap!WriteSome
  <2>2. ptr \in Nat /\ Len(text) \in Nat
    BY DEF StreamInv, StreamTypes
  <2> QED
    BY <2>1, <2>2 DEF Wrap!WriteSome
<1>2. StreamTypes'
  BY <1>1 DEF StreamInv, StreamTypes
<1>3. PieceInv'
  BY <1>1 DEF StreamInv, PieceInv, Piece, WholePiece, Full, Uncut
<1>4. StoredInv'
  BY <1>1 DEF StreamInv, StoredInv, Uncut, Wrap!Stored
<1>5. ReturnInv' /\ CloseInv'
  BY <1>1 DEF StreamInv, StreamTypes, ReturnInv, CloseInv, Uncut
<1> QED
  BY <1>2, <1>3, <1>4, <1>5 DEF StreamInv

LEMMA CloseKeepsStreams ==
    ASSUME StreamInv, Wrap!Close
    PROVE  StreamInv'
<1>1. /\ closed' = TRUE /\ ~ closed /\ (ptr = Len(text) \/ sender = "Write")
      /\ UNCHANGED <<sender, text, ptr, reader, size, taken, read_pc, buf, results, interrupted>>
  BY DEF Wrap!Close
<1>2. StreamTypes'
  BY <1>1 DEF StreamInv, StreamTypes
<1>3. PieceInv'
  BY <1>1 DEF StreamInv, PieceInv, Piece, WholePiece, Full, Uncut
<1>4. StoredInv'
  BY <1>1 DEF StreamInv, StoredInv, Uncut, Wrap!Stored
<1>5. ReturnInv' /\ CloseInv'
  BY <1>1 DEF StreamInv, StreamTypes, ReturnInv, CloseInv, Uncut
<1> QED
  BY <1>2, <1>3, <1>4, <1>5 DEF StreamInv

(* A call that returns s.                                                  *)
LEMMA Returning ==
    ASSUME StreamTypes, NEW s \in Seq(Alphabet), Wrap!Return(s)
    PROVE  /\ buf' = <<>> /\ results' \in Seq(Seq(Alphabet))
           /\ Wrap!Stored' = Wrap!FlattenSeq(results) \o s
           /\ \A j \in 1 .. Len(results') :
                 \/ j \in 1 .. Len(results) /\ results'[j] = results[j]
                    /\ (s # <<>> => j # Len(results'))
                 \/ s # <<>> /\ j = Len(results') /\ results'[j] = s
<1>1. results \in Seq(Seq(Alphabet)) /\ Wrap!FlattenSeq(results) \in Seq(Alphabet)
  BY FlatTypes DEF StreamTypes
<1>2. PICK rs : rs = results'
  OBVIOUS
<1>3. Wrap!Stored' = Wrap!FlattenSeq(rs) \o <<>>
  BY <1>2 DEF Wrap!Return, Wrap!Stored
<1>4. CASE s = <<>>
  <2>1. rs = results /\ buf' = <<>>
    BY <1>2, <1>4 DEF Wrap!Return
  <2> QED
    BY <1>1, <1>2, <1>3, <1>4, <2>1
<1>5. CASE s # <<>>
  <2>1. rs = Append(results, s) /\ buf' = <<>>
    BY <1>2, <1>5 DEF Wrap!Return
  <2>2. /\ rs \in Seq(Seq(Alphabet)) /\ Len(rs) = Len(results) + 1 /\ rs[Len(results) + 1] = s
        /\ \A j \in 1 .. Len(results) : rs[j] = results[j]
    BY <1>1, <2>1, AppendProperties
  <2>3. Wrap!FlattenSeq(rs) \o <<>> = Wrap!FlattenSeq(results) \o s
    <3>1. Wrap!FlattenSeq(rs) = Wrap!FlattenSeq(results) \o s
      BY <1>1, <2>1, FlatAppend
    <3>2. Wrap!FlattenSeq(rs) \in Seq(Alphabet)
      BY <2>2, FlatTypes
    <3> QED
      BY <3>1, <3>2, ConcatEmptySeq
  <2>4. ASSUME NEW j \in 1 .. Len(rs)
        PROVE  \/ j \in 1 .. Len(results) /\ rs[j] = results[j] /\ j # Len(rs)
               \/ j = Len(rs) /\ rs[j] = s
    BY <1>1, <2>2
  <2> QED
    BY <1>2, <1>3, <1>5, <2>1, <2>2, <2>3, <2>4
<1> QED
  BY <1>4, <1>5

LEMMA ReturningPieces ==
    ASSUME StreamInv, read_pc # "end", NEW s \in Seq(Alphabet), Wrap!Return(s),
           UNCHANGED <<reader, size>>, interrupted => interrupted',
           Piece(s)', s = <<>> \/ WholePiece(s)' \/ read_pc' = "end"
    PROVE  PieceInv'
<1>1. /\ \A j \in 1 .. Len(results) : WholePiece(results[j])
      /\ size \in Nat /\ 2 <= size /\ StreamTypes
  BY DEF StreamInv, PieceInv, StreamTypes
<1>2. PICK rs : rs = results'
  OBVIOUS
<1>3. /\ buf' = <<>> /\ rs \in Seq(Seq(Alphabet))
      /\ \A j \in 1 .. Len(rs) :
            \/ j \in 1 .. Len(results) /\ rs[j] = results[j]
            \/ s # <<>> /\ j = Len(rs) /\ rs[j] = s
  BY <1>1, <1>2, Returning
<1>4. ASSUME NEW j \in 1 .. Len(rs)
      PROVE  Piece(rs[j])' /\ (WholePiece(rs[j])' \/ (read_pc' = "end" /\ j = Len(rs)))
  <2>1. PICK t : t = rs[j]
    OBVIOUS
  <2>2. CASE j \in 1 .. Len(results) /\ t = results[j]
    <3>1. WholePiece(t)
      BY <1>1, <2>2
    <3>2. WholePiece(t)'
      BY <3>1 DEF WholePiece, Piece, Full, Uncut
    <3> QED
      BY <1>2, <2>1, <3>2 DEF WholePiece
  <2>3. CASE s # <<>> /\ j = Len(rs) /\ t = s
    BY <1>2, <2>1, <2>3
  <2> QED
    BY <1>3, <2>1, <2>2, <2>3
<1>5. Len(buf') < Full'
  BY <1>1, <1>3 DEF Full
<1> QED
  BY <1>2, <1>3, <1>4, <1>5 DEF PieceInv

LEMMA ReadnKeepsStreams ==
    ASSUME StreamInv, Wrap!Readn
    PROVE  StreamInv'
<1>1. PICK k \in 1 .. Len(Wrap!Stream) :
         LET s == buf \o SubSeq(Wrap!Stream, 1, k)
         IN  /\ Len(s) <= size
             /\ taken' = taken + k
             /\ IF reader = "Read" \/ Len(s) = size THEN Wrap!Return(s)
                ELSE buf' = s /\ UNCHANGED results
  BY DEF Wrap!Readn
<1>2. /\ reader \in {"Readn", "Read"} /\ read_pc = "read"
      /\ UNCHANGED <<sender, text, ptr, closed, reader, size, read_pc, interrupted>>
  BY DEF Wrap!Readn, Wrap!senderVars
<1> DEFINE part == SubSeq(Wrap!Stream, 1, k)
<1>0. PICK s : s = buf \o part
  OBVIOUS
<1>3. /\ Len(s) <= size /\ taken' = taken + k
      /\ IF reader = "Read" \/ Len(s) = size THEN Wrap!Return(s)
         ELSE buf' = s /\ UNCHANGED results
  BY <1>0, <1>1
<1>4. /\ text \in Seq(Alphabet) /\ ptr \in Nat /\ taken \in Nat /\ taken <= ptr /\ ptr <= Len(text)
      /\ buf \in Seq(Alphabet) /\ results \in Seq(Seq(Alphabet)) /\ size \in Nat /\ 2 <= size
      /\ StreamTypes
  BY DEF StreamInv, StreamTypes
<1>5. k \in Nat /\ 0 < k /\ k <= ptr - taken /\ Wrap!Stream \in Seq(Alphabet)
  BY <1>4, StreamIs
<1>6. part = SubSeq(text, taken + 1, taken + k)
  <2>1. part \in Seq(Alphabet) /\ Len(part) = k /\ \A m \in 1 .. k : part[m] = Wrap!Stream[m]
    BY <1>4, <1>5, StreamIs
  <2> DEFINE t == SubSeq(text, taken + 1, taken + k)
  <2>2. t \in Seq(Alphabet) /\ Len(t) = k /\ \A m \in 1 .. k : t[m] = text[taken + m]
    <3>1. /\ taken + k \in Nat /\ taken <= taken + k /\ taken + k <= Len(text)
          /\ (taken + k) - taken = k
      BY <1>4, <1>5
    <3> QED
      BY <1>4, <3>1, Section
  <2>3. \A m \in 1 .. k : part[m] = t[m]
    BY <1>4, <1>5, <2>1, <2>2, StreamIs
  <2> HIDE DEF part, t
  <2>4. part = t
    BY <2>1, <2>2, <2>3, SeqEqual
  <2> QED
    BY <2>4 DEF t
<1>7. part \in Seq(Alphabet) /\ Len(part) = k
  BY <1>4, <1>5, StreamIs
<1>8. SubSeq(text, 1, taken) \o part = SubSeq(text, 1, taken + k)
  <2>1. /\ 1 \in 1 .. Len(text) + 1 /\ taken \in 1 - 1 .. Len(text)
        /\ taken + k \in taken .. Len(text)
    BY <1>4, <1>5
  <2>2. SubSeq(text, 1, taken) \o SubSeq(text, taken + 1, taken + k) = SubSeq(text, 1, taken + k)
    BY <1>4, <2>1, ConcatAdjacentSubSeq
  <2> QED
    BY <1>6, <2>2
<1> HIDE DEF part
<1>9. s \in Seq(Alphabet) /\ Len(s) = Len(buf) + k /\ s # <<>>
  <2>1. buf \in Seq(Alphabet) /\ part \in Seq(Alphabet)
    BY <1>4, <1>7
  <2>2. s \in Seq(Alphabet) /\ Len(s) = Len(buf) + Len(part)
    BY <1>0, <2>1, ConcatProperties
  <2>3. Len(s) # 0
    BY <1>5, <1>7, <2>1, <2>2
  <2> QED
    BY <1>7, <2>2, <2>3, EmptySeq
<1>10. Wrap!FlattenSeq(results) \o s = Wrap!Stored \o part
  <2>1. Wrap!FlattenSeq(results) \in Seq(Alphabet)
    BY <1>4, FlatTypes
  <2>2. buf \in Seq(Alphabet) /\ part \in Seq(Alphabet)
    BY <1>4, <1>7
  <2>3. (Wrap!FlattenSeq(results) \o buf) \o part = Wrap!FlattenSeq(results) \o (buf \o part)
    BY <2>1, <2>2, Together
  <2> QED
    BY <1>0, <2>3 DEF Wrap!Stored
<1>11. /\ buf' \in Seq(Alphabet) /\ results' \in Seq(Seq(Alphabet))
       /\ Wrap!Stored' = Wrap!FlattenSeq(results) \o s
  <2>1. CASE Wrap!Return(s)
    <3>1. buf' = <<>> /\ results' \in Seq(Seq(Alphabet)) /\ Wrap!Stored' = Wrap!FlattenSeq(results) \o s
      BY <1>4, <1>9, <2>1, Returning
    <3> QED
      BY <3>1, EmptySeq
  <2>2. CASE buf' = s /\ UNCHANGED results
    BY <1>4, <1>9, <2>2 DEF Wrap!Stored
  <2> QED
    BY <1>3, <2>1, <2>2
<1>12. Wrap!Stored' = SubSeq(text, 1, taken')
  <2>1. Wrap!Stored = SubSeq(text, 1, taken)
    BY <1>2 DEF StreamInv, StoredInv
  <2> QED
    BY <1>3, <1>8, <1>10, <1>11, <2>1
<1>13. StreamTypes'
  <2>1. taken' \in Nat /\ taken' <= ptr
    BY <1>3, <1>4, <1>5
  <2> QED
    BY <1>2, <1>4, <1>11, <2>1 DEF StreamTypes
<1>14. PieceInv'
  <2>1. CASE reader = "Read" \/ Len(s) = size
    <3>1. Wrap!Return(s)
      BY <1>3, <2>1
    <3>2. WholePiece(s)'
      BY <1>2, <1>3, <2>1 DEF WholePiece, Piece, Full, Uncut
    <3> QED
      BY <1>2, <1>9, <3>1, <3>2, ReturningPieces DEF WholePiece
  <2>2. CASE ~ (reader = "Read" \/ Len(s) = size)
    <3>1. buf' = s /\ UNCHANGED results
      BY <1>3, <2>2
    <3>2. Len(s) < Full
      BY <1>2, <1>3, <1>4, <1>9, <2>2 DEF Full
    <3> QED
      BY <1>2, <2>2, <3>1, <3>2 DEF StreamInv, PieceInv, Piece, WholePiece, Full, Uncut
  <2> QED
    BY <2>1, <2>2
<1>15. StoredInv'
  BY <1>2, <1>12 DEF StoredInv, Uncut
<1>16. ReturnInv' /\ CloseInv'
  BY <1>2 DEF StreamInv, ReturnInv, CloseInv, Uncut
<1> QED
  BY <1>13, <1>14, <1>15, <1>16 DEF StreamInv

LEMMA ReadEndKeepsStreams ==
    ASSUME StreamInv, Wrap!ReadEnd
    PROVE  StreamInv'
<1>1. /\ read_pc = "read" /\ closed /\ taken = ptr /\ Wrap!Return(buf) /\ read_pc' = "end"
      /\ UNCHANGED <<sender, text, ptr, closed, reader, size, taken, interrupted>>
  BY StreamIs DEF Wrap!ReadEnd, Wrap!AtEnd, Wrap!senderVars, StreamInv
<1>2. StreamTypes /\ buf \in Seq(Alphabet) /\ results \in Seq(Seq(Alphabet))
  BY DEF StreamInv, StreamTypes
<1>3. buf' = <<>> /\ results' \in Seq(Seq(Alphabet)) /\ Wrap!Stored' = Wrap!Stored
  BY <1>1, <1>2, Returning DEF Wrap!Stored
<1>4. StreamTypes'
  <2>1. buf' \in Seq(Alphabet)
    BY <1>3, EmptySeq
  <2> QED
    BY <1>1, <1>2, <1>3, <2>1 DEF StreamTypes
<1>5. PieceInv'
  <2>1. Len(buf) < Full /\ (reader = "get_line" => \A k \in 1 .. Len(buf) : buf[k] # "lf")
    BY DEF StreamInv, PieceInv
  <2>2. Full \in Nat /\ Len(buf) \in Nat
    BY <1>2 DEF Full, StreamTypes
  <2>3. Piece(buf)
    BY <2>1, <2>2 DEF Piece, Uncut
  <2>4. PICK b2 : b2 = buf
    OBVIOUS
  <2>5. Piece(b2)'
    BY <1>1, <2>3, <2>4 DEF Piece, Full, Uncut
  <2> QED
    BY <1>1, <1>2, <2>4, <2>5, ReturningPieces
<1>6. StoredInv'
  BY <1>1, <1>3 DEF StreamInv, StoredInv, Uncut
<1>7. ReturnInv' /\ CloseInv'
  BY <1>1 DEF StreamInv, ReturnInv, CloseInv, Uncut
<1> QED
  BY <1>4, <1>5, <1>6, <1>7 DEF StreamInv

LEMMA Storing ==
    ASSUME StreamInv, reader = "get_line", read_pc # "end", NEW c \in Alphabet, Wrap!Store(c),
           UNCHANGED <<reader, size>>, interrupted => interrupted', read_pc' # "end"
    PROVE  /\ buf' \in Seq(Alphabet) /\ results' \in Seq(Seq(Alphabet))
           /\ Wrap!Stored' = Append(Wrap!Stored, c)
           /\ PieceInv'
<1>1. /\ StreamTypes /\ buf \in Seq(Alphabet) /\ results \in Seq(Seq(Alphabet))
      /\ size \in Nat /\ 2 <= size
  BY DEF StreamInv, StreamTypes
<1>2. Len(buf) < size - 1 /\ \A k \in 1 .. Len(buf) : buf[k] # "lf"
  BY DEF StreamInv, PieceInv, Full
<1>3. PICK s : s = Append(buf, c)
  OBVIOUS
<1>4. /\ s \in Seq(Alphabet) /\ Len(s) = Len(buf) + 1 /\ s[Len(s)] = c /\ s # <<>>
      /\ \A k \in 1 .. Len(s) - 1 : s[k] # "lf"
  BY <1>1, <1>2, <1>3, AppendProperties
<1>5. Len(s) <= size - 1
  BY <1>1, <1>2, <1>4
<1>6. IF c = "lf" \/ Len(s) = size - 1 THEN Wrap!Return(s) ELSE buf' = s /\ UNCHANGED results
  BY <1>3 DEF Wrap!Store
<1>7. Wrap!FlattenSeq(results) \o s = Append(Wrap!Stored, c)
  <2>1. PICK flat \in Seq(Alphabet) : flat = Wrap!FlattenSeq(results)
    BY <1>1, FlatTypes
  <2>2. s = buf \o <<c>>
    BY <1>1, <1>3, AppendIsConcat
  <2>3. <<c>> \in Seq(Alphabet)
    OBVIOUS
  <2>4. (flat \o buf) \o <<c>> = flat \o (buf \o <<c>>)
    BY <1>1, <2>3, Together
  <2>5. flat \o buf \in Seq(Alphabet)
    BY <1>1, ConcatProperties
  <2>6. Append(flat \o buf, c) = (flat \o buf) \o <<c>>
    BY <2>5, AppendIsConcat
  <2> QED
    BY <2>1, <2>2, <2>4, <2>6 DEF Wrap!Stored
<1>8. CASE c = "lf" \/ Len(s) = size - 1
  <2>1. Wrap!Return(s)
    BY <1>6, <1>8
  <2>2. buf' = <<>> /\ results' \in Seq(Seq(Alphabet)) /\ Wrap!Stored' = Wrap!FlattenSeq(results) \o s
    BY <1>1, <1>4, <2>1, Returning
  <2>3. buf' \in Seq(Alphabet)
    BY <2>2, EmptySeq
  <2>4. Full' = size - 1
    BY DEF Full
  <2>5. Piece(s)'
    BY <1>4, <1>5, <2>4 DEF Piece
  <2>6. WholePiece(s)'
    BY <1>4, <1>8, <2>4, <2>5 DEF WholePiece
  <2>7. PieceInv'
    BY <1>4, <2>1, <2>5, <2>6, ReturningPieces
  <2> QED
    BY <1>7, <2>2, <2>3, <2>7
<1>9. CASE ~ (c = "lf" \/ Len(s) = size - 1)
  <2>1. buf' = s /\ results' = results
    BY <1>6, <1>9
  <2>2. Wrap!Stored' = Wrap!FlattenSeq(results) \o s
    BY <2>1 DEF Wrap!Stored
  <2>3. Len(s) < size - 1
    BY <1>1, <1>4, <1>5, <1>9
  <2>4. \A k \in 1 .. Len(s) : s[k] # "lf"
    BY <1>1, <1>2, <1>4, <1>9
  <2>5. \A j \in 1 .. Len(results) : WholePiece(results[j]) /\ Piece(results[j])
    BY DEF StreamInv, PieceInv
  <2>6. \A j \in 1 .. Len(results') : WholePiece(results[j])' /\ Piece(results[j])'
    BY <2>1, <2>5 DEF WholePiece, Piece, Full, Uncut
  <2>7. PieceInv'
    BY <2>1, <2>3, <2>4, <2>6 DEF PieceInv, Full
  <2> QED
    BY <1>1, <1>4, <1>7, <2>1, <2>2, <2>7
<1> QED
  BY <1>8, <1>9

(* What the next characters of the text add to the lines.                  *)
LEMMA NextLines ==
    ASSUME StreamTypes, NEW n \in 0 .. Len(text), n # Len(text)
    PROVE  LinesOf(text, n + 1) = IF Second(text, n + 1) THEN LinesOf(text, n)
                                  ELSE Append(LinesOf(text, n), Feed(text[n + 1]))
<1>1. text \in Seq(Alphabet)
  BY DEF StreamTypes
<1>2. n + 1 \in 1 .. Len(text) /\ (n + 1) - 1 = n
  BY <1>1
<1> QED
  BY <1>1, <1>2, LinesDefined

LEMMA RecvKeepsStreams ==
    ASSUME StreamInv, Wrap!Recv
    PROVE  StreamInv'
<1>1. /\ reader = "get_line" /\ read_pc = "read" /\ Wrap!Stream # <<>> /\ taken' = taken + 1
      /\ IF Head(Wrap!Stream) = "cr" THEN read_pc' = "peek" /\ UNCHANGED <<buf, results>>
         ELSE Wrap!Store(Head(Wrap!Stream)) /\ UNCHANGED read_pc
      /\ UNCHANGED <<sender, text, ptr, closed, reader, size, interrupted>>
  BY DEF Wrap!Recv, Wrap!senderVars
<1>2. /\ StreamTypes /\ text \in Seq(Alphabet) /\ ptr \in Nat /\ taken \in Nat /\ ptr <= Len(text)
  BY DEF StreamInv, StreamTypes
<1>3. taken < ptr /\ Head(Wrap!Stream) = text[taken + 1]
  <2>1. taken <= ptr /\ taken # ptr
    BY <1>1, <1>2, StreamIs DEF StreamTypes
  <2>2. taken < ptr
    BY <1>2, <2>1
  <2> QED
    BY <1>2, <2>2, StreamIs
<1>4. taken + 1 \in 1 .. Len(text) /\ taken \in 0 .. Len(text) /\ taken # Len(text)
  BY <1>2, <1>3
<1>5. PICK c \in Alphabet : c = text[taken + 1]
  BY <1>2, <1>4, ElementOfSeq
<1>6. taken' \in Nat /\ taken' <= ptr /\ taken' # 0 /\ taken' - 1 = taken /\ text[taken'] = c
  BY <1>1, <1>2, <1>3, <1>5
<1>7. CASE c = "cr"
  <2>1. read_pc' = "peek" /\ UNCHANGED <<buf, results>>
    BY <1>1, <1>3, <1>5, <1>7
  <2>2. StreamTypes'
    BY <1>1, <1>2, <1>6, <2>1 DEF StreamTypes
  <2>3. PieceInv'
    BY <1>1, <2>1 DEF StreamInv, PieceInv, Piece, WholePiece, Full, Uncut
  <2>4. Wrap!Stored' = Wrap!Stored
    BY <2>1 DEF Wrap!Stored
  <2>5. StoredInv'
    BY <1>1, <1>6, <2>1, <2>4 DEF StreamInv, StoredInv, Uncut
  <2>6. ReturnInv'
    BY <1>1, <1>6, <1>7, <2>1 DEF ReturnInv
  <2>7. CloseInv'
    BY <1>1, <2>1 DEF StreamInv, CloseInv
  <2> QED
    BY <2>2, <2>3, <2>5, <2>6, <2>7 DEF StreamInv
<1>8. CASE c # "cr"
  <2>1. Wrap!Store(c) /\ read_pc' = read_pc
    BY <1>1, <1>3, <1>5, <1>8
  <2>2. /\ buf' \in Seq(Alphabet) /\ results' \in Seq(Seq(Alphabet))
        /\ Wrap!Stored' = Append(Wrap!Stored, c) /\ PieceInv'
    BY <1>1, <2>1, Storing
  <2>3. StreamTypes'
    BY <1>1, <1>2, <1>6, <2>1, <2>2 DEF StreamTypes
  <2>4. Uncut => LinesOf(text, taken + 1) = Append(LinesOf(text, taken), c)
    <3>1. Uncut => ~ Second(text, taken + 1)
      <4> SUFFICES ASSUME Uncut, text[taken + 1] = "lf", taken + 1 > 1, text[(taken + 1) - 1] = "cr"
                   PROVE  FALSE
        BY DEF Second
      <4>1. taken # 0 /\ (taken + 1) - 1 = taken
        BY <1>2
      <4>2. text[taken] = "cr"
        BY <4>1
      <4> QED
        BY <1>1, <1>2, <1>3, <4>1, <4>2 DEF StreamInv, ReturnInv
    <3>2. Feed(text[taken + 1]) = c
      BY <1>5, <1>8 DEF Feed
    <3> QED
      BY <1>2, <1>4, <3>1, <3>2, NextLines
  <2>5. StoredInv'
    BY <1>1, <2>1, <2>2, <2>4 DEF StreamInv, StoredInv, Uncut
  <2>6. ReturnInv'
    BY <1>1, <1>6, <1>8, <2>1 DEF ReturnInv
  <2>7. CloseInv'
    BY <1>1, <2>1 DEF StreamInv, CloseInv
  <2> QED
    BY <2>2, <2>3, <2>5, <2>6, <2>7 DEF StreamInv
<1> QED
  BY <1>7, <1>8

LEMMA PeekKeepsStreams ==
    ASSUME StreamInv, Wrap!Peek
    PROVE  StreamInv'
<1>1. /\ read_pc = "peek" /\ (Wrap!Stream # <<>> \/ Wrap!AtEnd)
      /\ taken' = IF Wrap!Stream # <<>> /\ Head(Wrap!Stream) = "lf" THEN taken + 1 ELSE taken
      /\ Wrap!Store("lf") /\ read_pc' = "read"
      /\ UNCHANGED <<sender, text, ptr, closed, reader, size, interrupted>>
  BY DEF Wrap!Peek, Wrap!senderVars
<1>2. /\ StreamTypes /\ text \in Seq(Alphabet) /\ ptr \in Nat /\ taken \in Nat
      /\ taken <= ptr /\ ptr <= Len(text)
  BY DEF StreamInv, StreamTypes
<1>3. reader = "get_line" /\ taken # 0 /\ text[taken] = "cr"
  BY <1>1 DEF StreamInv, ReturnInv
<1>4. /\ buf' \in Seq(Alphabet) /\ results' \in Seq(Seq(Alphabet))
      /\ Wrap!Stored' = Append(Wrap!Stored, "lf") /\ PieceInv'
  <2>1. "lf" \in Alphabet
    BY DEF Alphabet
  <2> QED
    BY <1>1, <1>3, <2>1, Storing
<1>5. LinesOf(text, taken) = Append(LinesOf(text, taken - 1), "lf")
  <2>1. taken - 1 \in 0 .. Len(text) /\ taken - 1 # Len(text) /\ (taken - 1) + 1 = taken
    BY <1>2, <1>3
  <2>2. ~ Second(text, taken) /\ Feed(text[taken]) = "lf"
    BY <1>3 DEF Second, Feed
  <2> QED
    BY <1>2, <2>1, <2>2, NextLines
<1>6. CASE Wrap!Stream # <<>> /\ Head(Wrap!Stream) = "lf"
  <2>1. taken' = taken + 1 /\ taken # ptr
    BY <1>1, <1>2, <1>6, StreamIs
  <2>2. taken < ptr
    BY <1>2, <2>1
  <2>3. text[taken + 1] = "lf"
    BY <1>2, <1>6, <2>2, StreamIs
  <2>4. LinesOf(text, taken') = LinesOf(text, taken)
    <3>1. Second(text, taken + 1)
      BY <1>2, <1>3, <2>3 DEF Second
    <3>2. taken \in 0 .. Len(text) /\ taken # Len(text)
      BY <1>2, <2>2
    <3> QED
      BY <1>2, <2>1, <3>1, <3>2, NextLines
  <2>5. StreamTypes'
    <3>1. taken' \in Nat /\ taken' <= ptr
      BY <1>2, <2>1, <2>2
    <3> QED
      BY <1>1, <1>2, <1>4, <3>1 DEF StreamTypes
  <2>6. StoredInv'
    BY <1>1, <1>3, <1>4, <1>5, <2>4 DEF StreamInv, StoredInv, Uncut
  <2>7. ReturnInv'
    BY <1>1, <2>1, <2>3 DEF ReturnInv
  <2>8. CloseInv'
    BY <1>1 DEF StreamInv, CloseInv
  <2> QED
    BY <1>4, <2>5, <2>6, <2>7, <2>8 DEF StreamInv
<1>7. CASE ~ (Wrap!Stream # <<>> /\ Head(Wrap!Stream) = "lf")
  <2>1. taken' = taken
    BY <1>1, <1>7
  <2>2. (taken < ptr /\ text[taken + 1] # "lf") \/ (closed /\ taken = ptr)
    <3>1. CASE Wrap!Stream # <<>>
      <4>1. taken # ptr
        BY <1>2, <3>1, StreamIs
      <4>2. taken < ptr
        BY <1>2, <4>1
      <4> QED
        BY <1>2, <1>7, <3>1, <4>2, StreamIs
    <3>2. CASE Wrap!AtEnd
      BY <1>2, <3>2, StreamIs DEF Wrap!AtEnd
    <3> QED
      BY <1>1, <3>1, <3>2
  <2>3. StreamTypes'
    BY <1>1, <1>2, <1>4, <2>1 DEF StreamTypes
  <2>4. StoredInv'
    BY <1>1, <1>3, <1>4, <1>5, <2>1 DEF StreamInv, StoredInv, Uncut
  <2>5. ReturnInv'
    BY <1>1, <2>1, <2>2 DEF ReturnInv
  <2>6. CloseInv'
    BY <1>1 DEF StreamInv, CloseInv
  <2> QED
    BY <1>4, <2>3, <2>4, <2>5, <2>6 DEF StreamInv
<1> QED
  BY <1>6, <1>7

LEMMA InterruptKeepsStreams ==
    ASSUME StreamInv, Wrap!Interrupt
    PROVE  StreamInv'
<1>1. /\ reader = "get_line" /\ read_pc # "end" /\ interrupted' = TRUE /\ read_pc' = "read"
      /\ IF read_pc = "peek" THEN Wrap!Store("lf") ELSE Wrap!Return(buf)
      /\ UNCHANGED <<sender, text, ptr, closed, reader, size, taken>>
  BY DEF Wrap!Interrupt, Wrap!senderVars
<1>2. StreamTypes /\ buf \in Seq(Alphabet)
  BY DEF StreamInv, StreamTypes
<1>3. buf' \in Seq(Alphabet) /\ results' \in Seq(Seq(Alphabet)) /\ PieceInv'
  <2>1. CASE read_pc = "peek"
    <3>1. "lf" \in Alphabet
      BY DEF Alphabet
    <3>2. Wrap!Store("lf")
      BY <1>1, <2>1
    <3> QED
      BY <1>1, <3>1, <3>2, Storing
  <2>2. CASE read_pc # "peek"
    <3>1. Wrap!Return(buf)
      BY <1>1, <2>2
    <3>2. buf' = <<>> /\ results' \in Seq(Seq(Alphabet))
      BY <1>2, <3>1, Returning
    <3>3. buf' \in Seq(Alphabet)
      BY <3>2, EmptySeq
    <3>4. PICK b : b = buf
      OBVIOUS
    <3>5. Len(b) < Full /\ Full \in Nat /\ Len(b) \in Nat
      BY <1>2, <3>4 DEF StreamInv, PieceInv, StreamTypes, Full
    <3>6. WholePiece(b)'
      BY <1>1, <3>5 DEF WholePiece, Piece, Full, Uncut
    <3>7. PieceInv'
      BY <1>1, <1>2, <3>1, <3>4, <3>6, ReturningPieces DEF WholePiece
    <3> QED
      BY <3>2, <3>3, <3>7
  <2> QED
    BY <2>1, <2>2
<1>4. StreamTypes'
  BY <1>1, <1>2, <1>3 DEF StreamTypes
<1>5. StoredInv'
  BY <1>1 DEF StoredInv, Uncut
<1>6. ReturnInv' /\ CloseInv'
  BY <1>1 DEF StreamInv, ReturnInv, CloseInv, Uncut
<1> QED
  BY <1>3, <1>4, <1>5, <1>6 DEF StreamInv

LEMMA StreamStep == StreamInv /\ [ProgramsNext]_ProgramsVars => StreamInv'
<1> SUFFICES ASSUME StreamInv, [ProgramsNext]_ProgramsVars PROVE StreamInv'
  OBVIOUS
<1>1. CASE Wrap!Next
  BY <1>1, WriteKeepsStreams, CloseKeepsStreams, ReadnKeepsStreams, ReadEndKeepsStreams,
     RecvKeepsStreams, PeekKeepsStreams, InterruptKeepsStreams
     DEF Wrap!Next, Wrap!Reader
<1>2. CASE UNCHANGED wrapVars
  <2>1. UNCHANGED <<sender, reader, size, text, ptr, closed, taken, read_pc, buf, results, interrupted>>
    BY <1>2 DEF wrapVars
  <2>2. StreamTypes' /\ CloseInv' /\ ReturnInv'
    BY <2>1 DEF StreamInv, StreamTypes, CloseInv, ReturnInv, Uncut
  <2>3. PieceInv'
    BY <2>1 DEF StreamInv, PieceInv, Piece, WholePiece, Full, Uncut
  <2>4. StoredInv'
    BY <2>1 DEF StreamInv, StoredInv, Uncut, Wrap!Stored
  <2> QED
    BY <2>2, <2>3, <2>4 DEF StreamInv
<1> QED
  BY <1>1, <1>2, Alone

(* Whatever the calls of the system transfer at a time, Readn and get_line *)
(* return the text that was sent, in whole pieces and without a gap, and   *)
(* all of it once Writen has closed: for texts of any length and any sizes *)
(* of the buffer.                                                          *)
THEOREM PiecesComplete == ProgramsSpec => []PiecesRight
<1>1. StreamInv => PiecesRight
  <2> SUFFICES ASSUME StreamInv PROVE Wrap!PiecesRight
    BY DEF PiecesRight
  <2>1. reader # "get_line" => Wrap!Stored = SubSeq(text, 1, taken)
    BY DEF StreamInv, StoredInv
  <2>2. reader = "get_line" /\ ~ interrupted /\ read_pc # "peek" => Wrap!Stored = Wrap!Lines(taken)
    BY LinesText DEF StreamInv, StoredInv, Uncut
  <2>3. ASSUME NEW j \in 1 .. Len(results)
        PROVE  LET full == IF reader = "get_line" THEN size - 1 ELSE size
                   last == read_pc = "end" /\ j = Len(results)
               IN  /\ Len(results[j]) <= full
                   /\ reader = "Readn" => Len(results[j]) = full \/ last
                   /\ reader = "get_line" /\ ~ interrupted =>
                         /\ \A k \in 1 .. Len(results[j]) - 1 : results[j][k] # "lf"
                         /\ Len(results[j]) = full \/ last \/ results[j][Len(results[j])] = "lf"
    BY DEF StreamInv, PieceInv, Piece, WholePiece, Full, Uncut
  <2>4. read_pc = "end" /\ sender = "Writen" => taken = Len(text)
    BY DEF StreamInv, CloseInv
  <2> QED
    BY <2>1, <2>2, <2>3, <2>4 DEF Wrap!PiecesRight
<1> QED
  BY InitStreams, StreamStep, <1>1, PTL DEF ProgramsSpec
=============================================================================
