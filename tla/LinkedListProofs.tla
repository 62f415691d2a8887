-------------------------- MODULE LinkedListProofs --------------------------
(***************************************************************************)
(* What is proved of LinkedList, for any number of nodes and lists: the    *)
(* pointers form separate chains at every moment of every call.            *)
(***************************************************************************)
EXTENDS LinkedList, FiniteSetTheorems, WellFoundedInduction, TLAPS

(* A heap in which no two nodes have the same successor and walks end: the *)
(* nodes have ranks which grow along them.  It consists of chains, each of *)
(* which begins with a node nobody points to.                              *)
Pointed(f) == {f[n] : n \in Nodes} \ {Null}
OnePred(f) == \A m, n \in Nodes : f[m] = f[n] /\ f[m] # Null => m = n
Ranked(f) == \E rank \in [Nodes -> Nat] :
    \A n \in Nodes : f[n] # Null => rank[n] < rank[f[n]]
Chains(f) == f \in [Nodes -> Ptr] /\ OnePred(f) /\ Ranked(f)

Pcs == {"idle", "create", "tail", "tailWalk", "insert", "insertWalk", "delete", "deleteWalk",
        "pop", "popWalk", "free", "freeLoop", "crashed", "reverse", "reverseLoop",
        "merge", "mergeLoop", "max", "maxLoop"}

(* What a call holds of the heap outside all lists, and the lists that are *)
(* lists: list_free leaves its head hanging until it is done.              *)
Loose ==
    IF pc \in {"tailWalk", "freeLoop", "reverseLoop"} THEN {p} \ {Null}
    ELSE IF pc = "mergeLoop" THEN {p, q} \ {Null}
    ELSE {}
Whole == IF pc = "freeLoop" THEN Lists \ {arg.l} ELSE Lists

(* The chains begin with the lists' heads, what a call holds, and the      *)
(* nodes that are free or with a caller, each a chain of its own.          *)
Spare == free \cup out
RootInv == pc # "crashed" => \A n \in Nodes :
    n \notin Pointed(next) <=> n \in Spare \/ n \in Loose \/ \E l \in Whole : head[l] = n
ApartInv == pc # "crashed" =>
    /\ free \cap out = {} /\ Spare \cap Loose = {}
    /\ \A n \in Spare : next[n] = Null
    /\ \A l \in Whole : /\ head[l] \notin Spare \cup Loose
                        /\ \A m \in Whole : head[l] = head[m] /\ head[l] # Null => l = m

ArgInv ==
    /\ pc \in Pcs
    /\ pc \notin {"idle", "crashed"} => arg.l \in Lists
    /\ pc \in {"tail", "insert", "insertWalk"} => arg.v \in Values
    /\ pc = "merge" => arg.m \in Lists /\ arg.m # arg.l
    /\ pc = "create" => head[arg.l] = Null
    /\ pc = "free" => head[arg.l] # Null

(* A set of nodes no pointer leaves, with what list_merge has not merged   *)
(* yet and without the end of what it has.                                 *)
Rest(C) ==
    /\ \A n \in C : next[n] \in C \cup {Null}
    /\ Loose \subseteq C /\ r \notin C

InList(n) == n \in Nodes /\ n \notin Spare
LocalInv ==
    /\ pc = "tailWalk" => p \in Nodes /\ next[p] = Null /\ InList(q) /\ q # p
    /\ pc \in {"insertWalk", "deleteWalk"} => InList(p)
    /\ pc = "popWalk" => InList(p) /\ next[p] # Null
    /\ pc = "reverseLoop" => head[arg.l] # Null
    /\ pc = "mergeLoop" =>
          /\ InList(r) /\ next[r] = Null
          /\ p = q => p = Null
          /\ \E C \in SUBSET Nodes : Rest(C)
    /\ pc = "maxLoop" => p \in Nodes /\ q \in Nodes /\ next[q] = p

HeapInv == TypeOK /\ Chains(next) /\ ArgInv /\ RootInv /\ ApartInv /\ LocalInv
-----------------------------------------------------------------------------
(* What the assignments of the calls do to a heap of chains.               *)
LEMMA Pointer ==
    ASSUME NEW f \in [Nodes -> Ptr], NEW y
    PROVE  y \in Pointed(f) <=> y \in Nodes /\ \E m \in Nodes : f[m] = y
BY ListAssumption DEF Pointed, Ptr

LEMMA NoLoop ==
    ASSUME NEW f, Chains(f), NEW n \in Nodes
    PROVE  f[n] # n /\ (f[n] # Null => f[n] \in Nodes /\ f[f[n]] # n)
<1>1. PICK rank \in [Nodes -> Nat] : \A m \in Nodes : f[m] # Null => rank[m] < rank[f[m]]
  BY DEF Chains, Ranked
<1>2. f[n] \in Nodes \cup {Null} /\ n # Null
  BY ListAssumption DEF Chains, Ptr
<1>3. ASSUME f[n] # Null PROVE f[n] # n /\ f[n] \in Nodes /\ f[f[n]] # n
  <2>1. f[n] \in Nodes /\ rank[n] < rank[f[n]]
    BY <1>1, <1>2, <1>3
  <2>2. rank[n] \in Int /\ rank[f[n]] \in Int
    BY <2>1
  <2>3. f[f[n]] = n => rank[f[n]] < rank[n]
    BY <1>1, <1>2, <2>1
  <2> QED
    BY <2>1, <2>2, <2>3
<1> QED
  BY <1>2, <1>3

(* Node n is put behind node x, and what came after n is left to itself.   *)
LEMMA PutBehind ==
    ASSUME NEW f, Chains(f), NEW x \in Nodes, NEW n \in Nodes, x # n, n \notin Pointed(f),
           NEW g, g = [f EXCEPT ![n] = f[x], ![x] = n]
    PROVE  Chains(g) /\ Pointed(g) = (Pointed(f) \cup {n}) \ {f[n]}
<1>1. /\ f \in [Nodes -> Ptr] /\ OnePred(f) /\ Null \notin Nodes
      /\ \A m \in Nodes : f[m] # n
  <2>1. f \in [Nodes -> Ptr] /\ OnePred(f) /\ Null \notin Nodes
    BY ListAssumption DEF Chains
  <2> QED
    BY <2>1, Pointer
<1>2. /\ g \in [Nodes -> Ptr] /\ g[n] = f[x] /\ g[x] = n
      /\ \A m \in Nodes \ {n, x} : g[m] = f[m]
  BY <1>1 DEF Ptr
<1>3. OnePred(g)
  BY <1>1, <1>2 DEF OnePred
<1>4. Ranked(g)
  <2>1. PICK rank \in [Nodes -> Nat] : \A m \in Nodes : f[m] # Null => rank[m] < rank[f[m]]
    BY DEF Chains, Ranked
  <2> DEFINE new == [m \in Nodes |-> IF m = n THEN 2 * rank[x] + 1 ELSE 2 * rank[m]]
  <2>2. new \in [Nodes -> Nat]
    BY <2>1
  <2>3. ASSUME NEW m \in Nodes, g[m] # Null PROVE new[m] < new[g[m]]
    <3>1. g[m] \in Nodes
      BY <1>2, <2>3 DEF Ptr
    <3>2. CASE m = n
      <4>1. g[m] = f[x] /\ f[x] # n /\ f[x] \in Nodes /\ rank[x] < rank[f[x]]
        BY <1>1, <1>2, <2>1, <2>3, <3>1, <3>2
      <4>2. new[m] = 2 * rank[x] + 1 /\ new[g[m]] = 2 * rank[f[x]]
        BY <3>2, <4>1
      <4>3. rank[x] \in Nat /\ rank[f[x]] \in Nat
        BY <4>1
      <4> QED
        BY <4>1, <4>2, <4>3, SMT
    <3>3. CASE m = x
      <4>1. new[m] = 2 * rank[x] /\ new[g[m]] = 2 * rank[x] + 1
        BY <1>2, <3>3
      <4> QED
        BY <4>1
    <3>4. CASE m \in Nodes \ {n, x}
      <4>1. g[m] = f[m] /\ f[m] # n /\ f[m] \in Nodes /\ rank[m] < rank[f[m]]
        BY <1>1, <1>2, <2>1, <2>3, <3>1, <3>4
      <4>2. new[m] = 2 * rank[m] /\ new[g[m]] = 2 * rank[f[m]]
        BY <3>4, <4>1
      <4>3. rank[m] \in Nat /\ rank[f[m]] \in Nat
        BY <4>1
      <4> QED
        BY <4>1, <4>2, <4>3, SMT
    <3> QED
      BY <3>2, <3>3, <3>4
  <2> QED
    BY <2>2, <2>3 DEF Ranked
<1>5. ASSUME NEW y PROVE y \in Pointed(g) <=> y \in (Pointed(f) \cup {n}) \ {f[n]}
  <2>0. g \in [Nodes -> Ptr]
    BY <1>2
  <2>1. y \in Pointed(g) <=> y \in Nodes /\ \E m \in Nodes : g[m] = y
    BY <2>0, Pointer, Zenon
  <2>2. y \in Pointed(f) <=> y \in Nodes /\ \E m \in Nodes : f[m] = y
    BY <1>1, Pointer
  <2>3. ASSUME y \in Nodes, NEW m \in Nodes, g[m] = y
        PROVE  y # f[n] /\ (y = n \/ \E k \in Nodes : f[k] = y)
    <3>1. y # Null
      BY <1>1, <2>3
    <3>2. CASE m = n
      BY <1>1, <1>2, <2>3, <3>1, <3>2 DEF OnePred
    <3>3. CASE m = x
      BY <1>1, <1>2, <2>3, <3>3
    <3>4. CASE m \in Nodes \ {n, x}
      BY <1>1, <1>2, <2>3, <3>1, <3>4 DEF OnePred
    <3> QED
      BY <3>2, <3>3, <3>4
  <2>4. ASSUME NEW m \in Nodes, f[m] = y, y \in Nodes, y # f[n]
        PROVE  \E k \in Nodes : g[k] = y
    <3>1. CASE m = x
      BY <1>2, <2>4, <3>1
    <3>2. CASE m # x
      BY <1>2, <2>4, <3>2
    <3> QED
      BY <3>1, <3>2
  <2> QED
    BY <1>2, <2>1, <2>2, <2>3, <2>4
<1> QED
  BY <1>2, <1>3, <1>4, <1>5 DEF Chains

(* The chain is cut behind node x.                                         *)
LEMMA CutBehind ==
    ASSUME NEW f, Chains(f), NEW x \in Nodes, NEW g, g = [f EXCEPT ![x] = Null]
    PROVE  Chains(g) /\ Pointed(g) = Pointed(f) \ {f[x]}
<1>1. f \in [Nodes -> Ptr] /\ OnePred(f) /\ Null \notin Nodes
  BY ListAssumption DEF Chains
<1>2. g \in [Nodes -> Ptr] /\ g[x] = Null /\ \A m \in Nodes \ {x} : g[m] = f[m]
  BY <1>1 DEF Ptr
<1>3. OnePred(g)
  BY <1>1, <1>2 DEF OnePred
<1>4. Ranked(g)
  BY <1>2 DEF Chains, Ranked
<1>5. ASSUME NEW y PROVE y \in Pointed(g) <=> y \in Pointed(f) \ {f[x]}
  <2>0. g \in [Nodes -> Ptr]
    BY <1>2
  <2>1. y \in Pointed(g) <=> y \in Nodes /\ \E m \in Nodes : g[m] = y
    BY <2>0, Pointer, Zenon
  <2>2. y \in Pointed(f) <=> y \in Nodes /\ \E m \in Nodes : f[m] = y
    BY <1>1, Pointer
  <2> QED
    BY <1>1, <1>2, <2>1, <2>2 DEF OnePred
<1> QED
  BY <1>2, <1>3, <1>4, <1>5 DEF Chains

(* The node behind x is taken out.                                         *)
LEMMA TakenOut ==
    ASSUME NEW f, Chains(f), NEW x \in Nodes, f[x] # Null,
           NEW g, g = [f EXCEPT ![x] = f[f[x]], ![f[x]] = Null]
    PROVE  Chains(g) /\ Pointed(g) = Pointed(f) \ {f[x]}
<1> DEFINE d == f[x]
<1>1. f \in [Nodes -> Ptr] /\ OnePred(f) /\ Null \notin Nodes
  BY ListAssumption DEF Chains
<1>2. d \in Nodes /\ d # x /\ f[d] # d
  BY NoLoop
<1>3. /\ g \in [Nodes -> Ptr] /\ g[x] = f[d] /\ g[d] = Null
      /\ \A m \in Nodes \ {x, d} : g[m] = f[m]
  BY <1>1, <1>2 DEF Ptr
<1>4. OnePred(g)
  BY <1>1, <1>2, <1>3 DEF OnePred
<1>5. Ranked(g)
  <2>1. PICK rank \in [Nodes -> Nat] : \A m \in Nodes : f[m] # Null => rank[m] < rank[f[m]]
    BY DEF Chains, Ranked
  <2>2. ASSUME NEW m \in Nodes, g[m] # Null PROVE rank[m] < rank[g[m]]
    <3>1. CASE m = x
      <4>1. g[m] = f[d] /\ f[d] \in Nodes /\ rank[x] < rank[d] /\ rank[d] < rank[f[d]]
        BY <1>1, <1>2, <1>3, <2>1, <2>2, <3>1 DEF Ptr
      <4>2. rank[x] \in Nat /\ rank[d] \in Nat /\ rank[f[d]] \in Nat
        BY <1>2, <4>1
      <4> QED
        BY <3>1, <4>1, <4>2
    <3>2. CASE m # x
      BY <1>3, <2>1, <2>2, <3>2
    <3> QED
      BY <3>1, <3>2
  <2> QED
    BY <2>2 DEF Ranked
<1> HIDE DEF d
<1>6. ASSUME NEW y PROVE y \in Pointed(g) <=> y \in Pointed(f) \ {d}
  <2>1. y \in Pointed(g) <=> y \in Nodes /\ \E m \in Nodes : g[m] = y
    BY <1>3, Pointer
  <2>2. y \in Pointed(f) <=> y \in Nodes /\ \E m \in Nodes : f[m] = y
    BY <1>1, Pointer
  <2>3. ASSUME y \in Nodes, NEW m \in Nodes, g[m] = y
        PROVE  y # d /\ \E k \in Nodes : f[k] = y
    <3>1. f[x] = d
      BY DEF d
    <3> QED
      BY <1>1, <1>2, <1>3, <2>3, <3>1 DEF OnePred
  <2>4. ASSUME NEW m \in Nodes, f[m] = y, y \in Nodes, y # d
        PROVE  \E k \in Nodes : g[k] = y
    <3>1. m # x
      BY <2>4 DEF d
    <3> QED
      BY <1>2, <1>3, <2>4, <3>1
  <2> QED
    BY <2>1, <2>2, <2>3, <2>4
<1> QED
  BY <1>3, <1>4, <1>5, <1>6 DEF Chains, d

(* The chain of y is joined to the end x of one that y does not lead to.   *)
LEMMA Joined ==
    ASSUME NEW f, Chains(f), NEW x \in Nodes, f[x] = Null, NEW y \in Nodes, y \notin Pointed(f),
           NEW C \in SUBSET Nodes, y \in C, x \notin C, \A n \in C : f[n] \in C \cup {Null},
           NEW g, g = [f EXCEPT ![x] = y]
    PROVE  Chains(g) /\ Pointed(g) = Pointed(f) \cup {y}
<1>1. /\ f \in [Nodes -> Ptr] /\ OnePred(f) /\ Null \notin Nodes
      /\ \A m \in Nodes : f[m] # y
  <2>1. f \in [Nodes -> Ptr] /\ OnePred(f) /\ Null \notin Nodes
    BY ListAssumption DEF Chains
  <2> QED
    BY <2>1, Pointer
<1>2. g \in [Nodes -> Ptr] /\ g[x] = y /\ \A m \in Nodes \ {x} : g[m] = f[m]
  BY <1>1 DEF Ptr
<1>3. OnePred(g)
  BY <1>1, <1>2 DEF OnePred
<1>4. Ranked(g)
  <2>1. PICK rank \in [Nodes -> Nat] : \A m \in Nodes : f[m] # Null => rank[m] < rank[f[m]]
    BY DEF Chains, Ranked
  <2> DEFINE new == [m \in Nodes |-> IF m \in C THEN rank[m] + rank[x] + 1 ELSE rank[m]]
  <2>2. new \in [Nodes -> Nat]
    BY <2>1
  <2>3. ASSUME NEW m \in Nodes, g[m] # Null PROVE new[m] < new[g[m]]
    <3>1. CASE m = x
      <4>1. new[m] = rank[x] /\ new[g[m]] = rank[y] + rank[x] + 1
        BY <1>2, <3>1
      <4>2. rank[x] \in Nat /\ rank[y] \in Nat
        OBVIOUS
      <4> QED
        BY <4>1, <4>2, SMT
    <3>2. CASE m # x
      <4>1. g[m] = f[m] /\ f[m] \in Nodes /\ rank[m] < rank[f[m]] /\ (m \in C => f[m] \in C)
        BY <1>1, <1>2, <2>1, <2>3, <3>2 DEF Ptr
      <4>2. rank[m] \in Nat /\ rank[f[m]] \in Nat /\ rank[x] \in Nat
        BY <4>1
      <4>3. /\ new[m] = IF m \in C THEN rank[m] + rank[x] + 1 ELSE rank[m]
            /\ new[g[m]] = IF f[m] \in C THEN rank[f[m]] + rank[x] + 1 ELSE rank[f[m]]
        BY <4>1
      <4> HIDE DEF new
      <4> QED
        BY <4>1, <4>2, <4>3, SMT
    <3> QED
      BY <3>1, <3>2
  <2> QED
    BY <2>2, <2>3 DEF Ranked
<1>5. ASSUME NEW z PROVE z \in Pointed(g) <=> z \in Pointed(f) \cup {y}
  <2>0. g \in [Nodes -> Ptr]
    BY <1>2
  <2>1. z \in Pointed(g) <=> z \in Nodes /\ \E m \in Nodes : g[m] = z
    BY <2>0, Pointer, Zenon
  <2>2. z \in Pointed(f) <=> z \in Nodes /\ \E m \in Nodes : f[m] = z
    BY <1>1, Pointer
  <2> QED
    BY <1>1, <1>2, <2>1, <2>2
<1> QED
  BY <1>2, <1>3, <1>4, <1>5 DEF Chains
-----------------------------------------------------------------------------
(* Walks along next.                                                       *)
LEMMA LeastNumber ==
    ASSUME NEW T \in SUBSET Nat, T # {}
    PROVE  \E m \in T : \A n \in T : m <= n
<1> DEFINE R == OpToRel(<, Nat)
<1>1. IsWellFoundedOn(R, Nat)
  BY NatLessThanWellFounded, Zenon
<1>2. \A a, b \in Nat : a < b => <<a, b>> \in R
  BY DEF OpToRel
<1> HIDE DEF R
<1>3. PICK m \in T : \A n \in T : ~ (<<n, m>> \in R)
  BY <1>1, WFMin
<1>4. ASSUME NEW n \in T PROVE m <= n
  <2>1. ~ (n < m) /\ m \in Nat /\ n \in Nat
    BY <1>2, <1>3, Zenon
  <2> QED
    BY <2>1, SMT
<1> QED
  BY <1>4

LEMMA Size == Cardinality(Nodes) \in Nat
BY ListAssumption, FS_CardinalityType

(* The recursion of From has a solution, which From is.                    *)
LEMMA Walks ==
    ASSUME NEW n
    PROVE  /\ From(n)[0] = n
           /\ \A k \in 1 .. Cardinality(Nodes) :
                 From(n)[k] = IF From(n)[k - 1] = Null THEN Null ELSE next[From(n)[k - 1]]
<1> DEFINE Size0 == Cardinality(Nodes)
           Good(f, m) == \A k \in 0 .. m :
              f[k] = IF k = 0 THEN n ELSE IF f[k - 1] = Null THEN Null ELSE next[f[k - 1]]
<1>1. ASSUME NEW m \in Nat PROVE \E f : Good(f, m)
  <2> DEFINE T == {k \in Nat : ~\E f : Good(f, k)}
  <2>1. CASE T = {}
    BY <2>1
  <2>2. CASE T # {}
    <3>1. PICK k \in T : \A j \in T : k <= j
      BY <2>2, LeastNumber
    <3>2. CASE k = 0
      <4>1. Good([j \in 0 .. 0 |-> n], 0)
        OBVIOUS
      <4> QED
        BY <3>2, <4>1
    <3>3. CASE k # 0
      <4>1. k - 1 \in Nat /\ k - 1 \notin T
        BY <3>1, <3>3
      <4>2. PICK f : Good(f, k - 1)
        BY <4>1
      <4> DEFINE g == [j \in 0 .. k |->
                         IF j = k THEN IF f[k - 1] = Null THEN Null ELSE next[f[k - 1]]
                         ELSE f[j]]
      <4>3. Good(g, k)
        <5> SUFFICES ASSUME NEW j \in 0 .. k
                     PROVE  g[j] = IF j = 0 THEN n
                                   ELSE IF g[j - 1] = Null THEN Null ELSE next[g[j - 1]]
          OBVIOUS
        <5>1. CASE j = k
          BY <3>3, <4>1, <5>1
        <5>2. CASE j # k
          <6>1. j \in 0 .. (k - 1) /\ (j # 0 => j - 1 \in 0 .. (k - 1))
            BY <4>1, <5>2
          <6>2. g[j] = f[j] /\ (j # 0 => g[j - 1] = f[j - 1])
            BY <4>1, <5>2, <6>1
          <6> QED
            BY <4>2, <6>1, <6>2
        <5> QED
          BY <5>1, <5>2
      <4> QED
        BY <4>3
    <3> QED
      BY <3>2, <3>3
  <2> QED
    BY <2>1, <2>2
<1>2. PICK f : Good(f, Size0)
  BY <1>1, Size
<1> DEFINE g == [k \in 0 .. Size0 |-> f[k]]
<1>3. g = [k \in 0 .. Size0 |-> IF k = 0 THEN n
                                ELSE IF g[k - 1] = Null THEN Null ELSE next[g[k - 1]]]
  <2>1. ASSUME NEW k \in 0 .. Size0
        PROVE  f[k] = IF k = 0 THEN n ELSE IF g[k - 1] = Null THEN Null ELSE next[g[k - 1]]
    <3>1. k # 0 => k - 1 \in 0 .. Size0
      BY Size
    <3> QED
      BY <1>2, <3>1
  <2> QED
    BY <2>1
<1> HIDE DEF g
<1>4. From(n) = [k \in 0 .. Size0 |-> IF k = 0 THEN n
                     ELSE IF From(n)[k - 1] = Null THEN Null ELSE next[From(n)[k - 1]]]
  BY <1>3, Zenon DEF From
<1>5. 0 \in 0 .. Size0 /\ \A k \in 1 .. Size0 : k \in 0 .. Size0 /\ k # 0
  BY Size
<1> QED
  BY <1>4, <1>5

LEMMA WalkNodes ==
    ASSUME Chains(next), NEW n \in Ptr, NEW k \in 0 .. Cardinality(Nodes)
    PROVE  From(n)[k] \in Ptr
<1> DEFINE T == {j \in 0 .. Cardinality(Nodes) : From(n)[j] \notin Ptr}
<1>1. CASE T = {}
  BY <1>1
<1>2. CASE T # {}
  <2>1. T \in SUBSET Nat
    BY Size
  <2>2. PICK j \in T : \A m \in T : j <= m
    BY <1>2, <2>1, LeastNumber
  <2>3. j # 0
    BY <2>2, Walks
  <2>4. j \in 1 .. Cardinality(Nodes) /\ j - 1 \in 0 .. Cardinality(Nodes) /\ j - 1 \notin T
    BY <2>2, <2>3, Size
  <2>5. From(n)[j - 1] \in Ptr
    BY <2>4
  <2>6. From(n)[j] = IF From(n)[j - 1] = Null THEN Null ELSE next[From(n)[j - 1]]
    BY <2>4, Walks
  <2>7. From(n)[j] \in Ptr
    BY <2>5, <2>6 DEF Chains, Ptr
  <2> QED
    BY <2>2, <2>7
<1> QED
  BY <1>1, <1>2

(* Beyond the end there is nothing.                                        *)
LEMMA WalkStays ==
    ASSUME NEW n, NEW k \in 0 .. Cardinality(Nodes), NEW j \in 0 .. k, From(n)[j] = Null
    PROVE  From(n)[k] = Null
<1> DEFINE T == {m \in j .. k : From(n)[m] # Null}
<1>1. CASE T = {}
  BY <1>1, Size
<1>2. CASE T # {}
  <2>1. T \in SUBSET Nat
    BY Size
  <2>2. PICK m \in T : \A l \in T : m <= l
    BY <1>2, <2>1, LeastNumber
  <2>3. m \in 1 .. Cardinality(Nodes) /\ m - 1 \in j .. k /\ m - 1 \notin T
    <3>1. m # j
      BY <2>2
    <3> QED
      BY <2>2, <3>1, Size
  <2>4. From(n)[m - 1] = Null
    BY <2>3
  <2>5. From(n)[m] = Null
    BY <2>3, <2>4, Walks
  <2> QED
    BY <2>2, <2>5
<1> QED
  BY <1>1, <1>2

(* The ranks grow, so a walk of more steps than there are nodes has ended. *)
LEMMA WalkEnds ==
    ASSUME Chains(next), NEW n \in Ptr
    PROVE  From(n)[Cardinality(Nodes)] = Null
<1> DEFINE Last == Cardinality(Nodes)
<1> SUFFICES ASSUME From(n)[Last] # Null PROVE FALSE
  OBVIOUS
<1>0. Last \in Nat
  BY Size
<1> DEFINE f == [k \in 0 .. Last |-> From(n)[k]]
<1>1. ASSUME NEW k \in 0 .. Last PROVE From(n)[k] \in Nodes
  <2>1. From(n)[k] \in Ptr
    BY WalkNodes
  <2>2. From(n)[k] # Null
    <3>1. Last \in 0 .. Cardinality(Nodes) /\ k \in 0 .. Last
      BY <1>0
    <3> QED
      BY <3>1, WalkStays
  <2> QED
    BY <2>1, <2>2 DEF Ptr
<1>2. PICK rank \in [Nodes -> Nat] : \A m \in Nodes : next[m] # Null => rank[m] < rank[next[m]]
  BY DEF Chains, Ranked
<1>3. ASSUME NEW k \in 1 .. Last
      PROVE  rank[From(n)[k - 1]] < rank[From(n)[k]]
  <2>1. k - 1 \in 0 .. Last /\ k \in 0 .. Last
    BY <1>0
  <2>2. From(n)[k - 1] \in Nodes /\ From(n)[k] \in Nodes
    BY <1>1, <2>1
  <2>3. From(n)[k] = next[From(n)[k - 1]]
    BY <2>2, Walks, ListAssumption
  <2> QED
    BY <1>2, <2>2, <2>3, ListAssumption
<1>4. ASSUME NEW k \in 0 .. Last, NEW j \in 0 .. Last, j < k
      PROVE  rank[From(n)[j]] < rank[From(n)[k]]
  <2> DEFINE T == {m \in (j + 1) .. Last : ~(rank[From(n)[j]] < rank[From(n)[m]])}
  <2>1. CASE T = {}
    BY <1>0, <1>4, <2>1
  <2>2. CASE T # {}
    <3>1. T \in SUBSET Nat
      BY <1>0
    <3>2. PICK m \in T : \A l \in T : m <= l
      BY <2>2, <3>1, LeastNumber
    <3>3. m \in 1 .. Last /\ m \in 0 .. Last /\ m - 1 \in 0 .. Last
      BY <1>0, <3>2
    <3>4. rank[From(n)[m - 1]] < rank[From(n)[m]]
      BY <1>3, <3>3
    <3>5. m - 1 # j /\ m - 1 \in (j + 1) .. Last
      BY <1>0, <3>2, <3>4
    <3>6. m - 1 \notin T
      BY <3>2, <3>5
    <3>7. rank[From(n)[j]] < rank[From(n)[m - 1]]
      BY <3>5, <3>6
    <3>8. rank[From(n)[j]] \in Nat /\ rank[From(n)[m - 1]] \in Nat /\ rank[From(n)[m]] \in Nat
      BY <1>1, <3>3
    <3> QED
      BY <3>2, <3>4, <3>7, <3>8
  <2> QED
    BY <2>1, <2>2
<1>5. \A k, j \in 0 .. Last : k # j => f[k] # f[j]
  <2> SUFFICES ASSUME NEW k \in 0 .. Last, NEW j \in 0 .. Last, j < k
               PROVE  From(n)[k] # From(n)[j]
    BY <1>0
  <2>1. rank[From(n)[j]] < rank[From(n)[k]] /\ rank[From(n)[j]] \in Nat
    BY <1>1, <1>4
  <2> QED
    BY <2>1
<1>6. f \in [0 .. Last -> Nodes]
  BY <1>1
<1>7. IsFiniteSet(0 .. Last) /\ Cardinality(0 .. Last) = Last + 1
  <2>1. /\ IsFiniteSet(0 .. Last)
        /\ Cardinality(0 .. Last) = IF 0 > Last THEN 0 ELSE Last - 0 + 1
    BY <1>0, FS_Interval
  <2> QED
    BY <1>0, <2>1
<1> HIDE DEF f
<1>8. \E k, j \in 0 .. Last : k # j /\ f[k] = f[j]
  <2>1. Cardinality(Nodes) < Cardinality(0 .. Last) /\ IsFiniteSet(Nodes)
    BY <1>0, <1>7, ListAssumption
  <2> QED
    BY <1>6, <1>7, <2>1, FS_PigeonHole
<1> QED
  BY <1>5, <1>8

(* Between two calls the chains are the lists: each node is on one of them *)
(* or none.                                                                *)
LEMMA NothingLost ==
    ASSUME HeapInv PROVE NoLeak
<1> DEFINE N == Cardinality(Nodes)
<1> SUFFICES ASSUME pc = "idle"
             PROVE  /\ Nodes = free \cup out \cup UNION {NodesOf(l) : l \in Lists}
                    /\ free \cap out = {}
                    /\ \A l \in Lists :
                         /\ NodesOf(l) \cap (free \cup out) = {}
                         /\ \A m \in Lists \ {l} : NodesOf(l) \cap NodesOf(m) = {}
  BY DEF NoLeak
<1>0. /\ Chains(next) /\ N \in Nat /\ 0 \in 0 .. N /\ next \in [Nodes -> Ptr] /\ OnePred(next)
      /\ \A l \in Lists : head[l] \in Ptr
      /\ Null \notin Nodes /\ free \subseteq Nodes /\ out \subseteq Nodes
  BY Size, ListAssumption DEF HeapInv, TypeOK, Chains
<1>1. /\ Whole = Lists /\ Loose = {}
      /\ \A n \in Nodes : n \notin Pointed(next) <=> n \in Spare \/ \E l \in Lists : head[l] = n
      /\ free \cap out = {} /\ \A n \in Spare : next[n] = Null
      /\ \A l \in Lists : /\ head[l] \notin Spare
                          /\ \A m \in Lists : head[l] = head[m] /\ head[l] # Null => l = m
  BY DEF HeapInv, RootInv, ApartInv, Whole, Loose
<1>2. \A n \in Nodes : \A y : y \in Pointed(next) <=> y \in Nodes /\ \E m \in Nodes : next[m] = y
  BY <1>0, Pointer
<1>3. ASSUME NEW l \in Lists, NEW n
      PROVE  n \in NodesOf(l) <=> n # Null /\ \E k \in 0 .. N : At(l)[k] = n
  BY DEF NodesOf
<1>4. ASSUME NEW l \in Lists
      PROVE  /\ At(l)[0] = head[l] /\ At(l)[N] = Null
             /\ \A k \in 1 .. N :
                   At(l)[k] = IF At(l)[k - 1] = Null THEN Null ELSE next[At(l)[k - 1]]
             /\ \A k \in 0 .. N : At(l)[k] \in Ptr
  <2>1. head[l] \in Ptr
    BY <1>0
  <2> QED
    BY <1>0, <2>1, Walks, WalkEnds, WalkNodes DEF At
<1>5. ASSUME NEW l \in Lists, NEW k \in 1 .. N, At(l)[k] # Null
      PROVE  /\ At(l)[k - 1] \in Nodes /\ At(l)[k] \in Nodes
             /\ k - 1 \in 0 .. N /\ next[At(l)[k - 1]] = At(l)[k]
  <2>1. k - 1 \in 0 .. N /\ k \in 0 .. N
    BY <1>0
  <2> QED
    BY <1>4, <1>5, <2>1 DEF Ptr
<1>6. ASSUME NEW l \in Lists PROVE NodesOf(l) \cap Spare = {} /\ NodesOf(l) \subseteq Nodes
  <2>1. ASSUME NEW k \in 0 .. N, At(l)[k] # Null PROVE At(l)[k] \in Nodes \ Spare
    <3>1. CASE k = 0
      BY <1>0, <1>1, <1>4, <2>1, <3>1 DEF Ptr
    <3>2. CASE k # 0
      <4>1. k \in 1 .. N
        BY <1>0, <3>2
      <4>2. At(l)[k] \in Nodes /\ At(l)[k] \in Pointed(next)
        BY <1>2, <1>5, <2>1, <4>1
      <4> QED
        BY <1>1, <4>2
    <3> QED
      BY <3>1, <3>2
  <2> QED
    BY <1>3, <2>1
<1>7. ASSUME NEW l \in Lists, NEW m \in Lists, l # m
      PROVE  NodesOf(l) \cap NodesOf(m) = {}
  <2> DEFINE T == {j \in 0 .. N : At(l)[j] # Null /\ \E k \in 0 .. N : At(m)[k] = At(l)[j]}
  <2>1. CASE T = {}
    BY <1>3, <2>1
  <2>2. CASE T # {}
    <3>1. T \in SUBSET Nat
      BY <1>0
    <3>2. PICK j \in T : \A i0 \in T : j <= i0
      BY <2>2, <3>1, LeastNumber
    <3>3. PICK k \in 0 .. N : At(m)[k] = At(l)[j]
      BY <3>2
    <3>4. j \in 0 .. N /\ At(l)[j] # Null
      BY <3>2
    <3>5. CASE j = 0
      <4>1. head[l] \in Nodes /\ head[l] \notin Pointed(next) /\ At(m)[k] = head[l]
        BY <1>0, <1>1, <1>4, <3>3, <3>4, <3>5 DEF Ptr
      <4>2. k # 0
        BY <1>1, <1>4, <1>7, <3>3, <3>4, <3>5
      <4>3. k \in 1 .. N
        BY <1>0, <4>2
      <4>4. next[At(m)[k - 1]] = At(m)[k] /\ At(m)[k - 1] \in Nodes
        BY <1>5, <3>3, <3>4, <4>3
      <4> QED
        BY <1>2, <4>1, <4>4
    <3>6. CASE j # 0 /\ k = 0
      <4>1. head[m] \in Nodes /\ head[m] \notin Pointed(next) /\ At(l)[j] = head[m]
        BY <1>0, <1>1, <1>4, <3>3, <3>4, <3>6 DEF Ptr
      <4>2. j \in 1 .. N
        BY <1>0, <3>4, <3>6
      <4>3. next[At(l)[j - 1]] = At(l)[j] /\ At(l)[j - 1] \in Nodes
        BY <1>5, <3>4, <4>2
      <4> QED
        BY <1>2, <4>1, <4>3
    <3>7. CASE j # 0 /\ k # 0
      <4>1. j \in 1 .. N /\ k \in 1 .. N
        BY <1>0, <3>4, <3>7
      <4>2. /\ next[At(l)[j - 1]] = At(l)[j] /\ At(l)[j - 1] \in Nodes /\ j - 1 \in 0 .. N
            /\ next[At(m)[k - 1]] = At(m)[k] /\ At(m)[k - 1] \in Nodes /\ k - 1 \in 0 .. N
        BY <1>5, <3>3, <3>4, <4>1
      <4>3. At(l)[j - 1] = At(m)[k - 1] /\ At(l)[j - 1] # Null
        BY <1>0, <3>3, <3>4, <4>2 DEF OnePred
      <4>4. j - 1 \in T
        BY <4>2, <4>3
      <4> QED
        BY <3>2, <4>1, <4>4
    <3> QED
      BY <3>5, <3>6, <3>7
  <2> QED
    BY <2>1, <2>2
<1>8. ASSUME NEW n0 \in Nodes, n0 \notin free \cup out \cup UNION {NodesOf(l) : l \in Lists}
      PROVE  FALSE
  <2> DEFINE Lost == {n \in Nodes : n \notin Spare /\ \A l \in Lists : n \notin NodesOf(l)}
  <2>1. PICK rank \in [Nodes -> Nat] : \A m \in Nodes : next[m] # Null => rank[m] < rank[next[m]]
    BY <1>0 DEF Chains, Ranked
  <2> DEFINE T == {rank[n] : n \in Lost}
  <2>2. n0 \in Lost
    BY <1>8 DEF Spare
  <2>3. T \in SUBSET Nat /\ T # {}
    BY <2>2
  <2>4. PICK v \in T : \A w \in T : v <= w
    BY <2>3, LeastNumber
  <2>5. PICK n \in Lost : rank[n] = v
    BY <2>4
  <2>6. \A l \in Lists : head[l] # n
    <3>1. ASSUME NEW l \in Lists, head[l] = n PROVE n \in NodesOf(l)
      BY <1>0, <1>3, <1>4, <3>1
    <3> QED
      BY <2>5, <3>1
  <2>7. n \in Pointed(next)
    BY <1>1, <2>5, <2>6
  <2>8. PICK m \in Nodes : next[m] = n
    BY <1>2, <2>7
  <2>9. m \notin Spare
    BY <1>0, <1>1, <2>5, <2>8
  <2>10. ASSUME NEW l \in Lists PROVE m \notin NodesOf(l)
    <3> SUFFICES ASSUME m \in NodesOf(l) PROVE FALSE
      OBVIOUS
    <3>1. PICK k \in 0 .. N : At(l)[k] = m
      BY <1>3
    <3>2. k # N
      BY <1>0, <1>4, <3>1
    <3>3. k + 1 \in 1 .. N /\ (k + 1) - 1 = k /\ k + 1 \in 0 .. N
      BY <1>0, <3>2
    <3>4. At(l)[k + 1] = n
      BY <1>0, <1>4, <2>8, <3>1, <3>3
    <3>5. n # Null /\ n \in Nodes
      BY <1>0, <2>5
    <3>6. n \in NodesOf(l)
      BY <1>3, <3>3, <3>4, <3>5
    <3> QED
      BY <2>5, <3>6
  <2>11. m \in Lost /\ rank[m] < rank[n] /\ rank[m] \in Nat /\ rank[n] \in Nat
    BY <1>0, <2>1, <2>5, <2>8, <2>9, <2>10
  <2>12. rank[m] \in T
    BY <2>11
  <2> QED
    BY <2>4, <2>5, <2>11, <2>12
<1>9. Nodes = free \cup out \cup UNION {NodesOf(l) : l \in Lists}
  <2>1. free \cup out \cup UNION {NodesOf(l) : l \in Lists} \subseteq Nodes
    BY <1>0, <1>6
  <2> QED
    BY <1>8, <2>1
<1> QED
  BY <1>1, <1>6, <1>7, <1>9 DEF Spare
-----------------------------------------------------------------------------
(* Steps that leave the chains alone.                                      *)
Memory == <<next, free, out, head>>
Here == /\ {p, q, r} \subseteq Ptr /\ i \in Int
        /\ data \in [Nodes -> Values \cup {0}]

LEMMA SameChains ==
    ASSUME HeapInv, pc # "crashed", UNCHANGED Memory, Loose' = Loose, Whole' = Whole,
           Here', ArgInv', LocalInv'
    PROVE  HeapInv'
<1>1. TypeOK' /\ Chains(next)'
  BY DEF HeapInv, TypeOK, Chains, OnePred, Ranked, Memory, Here
<1>2. Pointed(next)' = Pointed(next) /\ Spare' = Spare
  BY DEF Pointed, Spare, Memory
<1>3. RootInv' /\ ApartInv'
  BY <1>2 DEF HeapInv, RootInv, ApartInv, Memory
<1> QED
  BY <1>1, <1>3 DEF HeapInv

LEMMA Returned ==
    ASSUME NEW op, NEW code, NEW value, Return(op, code, value)
    PROVE  /\ pc' = "idle" /\ Loose' = {} /\ Whole' = Lists
           /\ ArgInv' /\ LocalInv' /\ {p, q, r}' \subseteq Ptr /\ i' \in Int
<1>1. pc' = "idle" /\ {p, q, r}' \subseteq Ptr /\ i' \in Int
  BY DEF Return, Ptr
<1> QED
  BY <1>1 DEF Loose, Whole, ArgInv, LocalInv, Pcs

(* A call that gives up before it has changed anything.                    *)
LEMMA Failed ==
    ASSUME HeapInv, pc # "crashed", Loose = {}, Whole = Lists,
           NEW op, NEW code, NEW value, Return(op, code, value), UNCHANGED memory
    PROVE  HeapInv'
<1>1. UNCHANGED Memory /\ data' \in [Nodes -> Values \cup {0}]
  BY DEF memory, Memory, HeapInv, TypeOK
<1>2. /\ pc' = "idle" /\ Loose' = {} /\ Whole' = Lists
      /\ ArgInv' /\ LocalInv' /\ {p, q, r}' \subseteq Ptr /\ i' \in Int
  BY Returned
<1> QED
  BY <1>1, <1>2, SameChains DEF Here

Starts == {"create", "tail", "insert", "delete", "pop", "free", "reverse", "merge", "max"}

LEMMA Begun ==
    ASSUME HeapInv, NEW op \in Starts, NEW a, Begin(op, a), a.l \in Lists,
           {"op", "l", "m", "v"} \subseteq DOMAIN a,
           op \in {"tail", "insert"} => a.v \in Values,
           op = "merge" => a.m \in Lists /\ a.m # a.l,
           op = "create" => head[a.l] = Null,
           op = "free" => head[a.l] # Null
    PROVE  HeapInv'
<1>1. /\ pc = "idle" /\ pc' = op /\ UNCHANGED <<memory, locals>>
      /\ arg' = [a EXCEPT !.op = op]
  BY DEF Begin
<1>6. arg'.l = a.l /\ arg'.m = a.m /\ arg'.v = a.v
  BY <1>1
<1>2. UNCHANGED Memory /\ Here'
  BY <1>1 DEF memory, locals, Memory, Here, HeapInv, TypeOK
<1>3. Loose' = Loose /\ Whole' = Whole
  BY <1>1, <1>6 DEF Loose, Whole, Starts
<1>4. LocalInv'
  BY <1>1, <1>6 DEF LocalInv, Starts
<1>5. ArgInv'
  BY <1>1, <1>2, <1>6 DEF ArgInv, Starts, Pcs, Memory
<1> QED
  BY <1>1, <1>2, <1>3, <1>4, <1>5, SameChains

LEMMA CallKeeps ==
    ASSUME HeapInv, Call
    PROVE  HeapInv'
<1>1. PICK l \in Lists :
        \/ CallCreate(l) \/ CallPop(l) \/ CallFree(l) \/ CallReverse(l) \/ CallAddMax(l)
        \/ \E v \in Values : CallTail(l, v)
        \/ \E v \in Values, pos \in Positions : CallInsert(l, pos, v)
        \/ \E pos \in Positions : CallDelete(l, pos)
        \/ \E m \in Lists : CallMerge(l, m)
  BY DEF Call
<1> USE DEF Unused, Starts
<1>2. CASE CallCreate(l)
  BY <1>2, Begun DEF CallCreate
<1>3. CASE CallPop(l)
  BY <1>3, Begun DEF CallPop
<1>4. CASE CallFree(l)
  BY <1>4, Begun DEF CallFree
<1>5. CASE CallReverse(l)
  BY <1>5, Begun DEF CallReverse
<1>6. CASE CallAddMax(l)
  BY <1>6, Begun DEF CallAddMax
<1>7. ASSUME NEW v \in Values, CallTail(l, v) PROVE HeapInv'
  BY <1>7, Begun DEF CallTail
<1>8. ASSUME NEW v \in Values, NEW pos \in Positions, CallInsert(l, pos, v) PROVE HeapInv'
  BY <1>8, Begun DEF CallInsert
<1>9. ASSUME NEW pos \in Positions, CallDelete(l, pos) PROVE HeapInv'
  BY <1>9, Begun DEF CallDelete
<1>10. ASSUME NEW m \in Lists, CallMerge(l, m) PROVE HeapInv'
  BY <1>10, Begun DEF CallMerge
<1> QED
  BY <1>1, <1>2, <1>3, <1>4, <1>5, <1>6, <1>7, <1>8, <1>9, <1>10

(* The beginnings of the chains, spelled out.                              *)
LEMMA Roots ==
    ASSUME HeapInv, pc # "crashed"
    PROVE  /\ Chains(next) /\ next \in [Nodes -> Ptr] /\ head \in [Lists -> Ptr]
           /\ Null \notin Nodes /\ free \subseteq Nodes /\ out \subseteq Nodes
           /\ free \cap out = {}
           /\ \A n \in Nodes : n \notin Pointed(next)
                 <=> n \in free \/ n \in out \/ n \in Loose \/ \E l \in Whole : head[l] = n
           /\ \A n \in free \cup out : next[n] = Null /\ n \notin Loose
           /\ \A l \in Whole : /\ head[l] \notin free /\ head[l] \notin out
                               /\ head[l] \notin Loose
                               /\ \A m \in Whole : head[l] = head[m] /\ head[l] # Null => l = m
           /\ \A n \in Nodes : \A m \in Nodes : next[m] = n => n \in Pointed(next)
           /\ \A n \in Nodes : next[n] # Null => InList(n) /\ InList(next[n])
                                                 /\ next[n] \notin Loose
<1>1. /\ Chains(next) /\ next \in [Nodes -> Ptr] /\ head \in [Lists -> Ptr]
      /\ Null \notin Nodes /\ free \subseteq Nodes /\ out \subseteq Nodes
  BY ListAssumption DEF HeapInv, TypeOK
<1>2. /\ free \cap out = {}
      /\ \A n \in Nodes : n \notin Pointed(next)
            <=> n \in free \/ n \in out \/ n \in Loose \/ \E l \in Whole : head[l] = n
      /\ \A n \in free \cup out : next[n] = Null /\ n \notin Loose
  BY DEF HeapInv, RootInv, ApartInv, Spare
<1>3. \A l \in Whole : /\ head[l] \notin free /\ head[l] \notin out /\ head[l] \notin Loose
                       /\ \A m \in Whole : head[l] = head[m] /\ head[l] # Null => l = m
  BY DEF HeapInv, ApartInv, Spare
<1>4. \A n \in Nodes : \A m \in Nodes : next[m] = n => n \in Pointed(next)
  BY <1>1, Pointer
<1>5. ASSUME NEW n \in Nodes, next[n] # Null
      PROVE  InList(n) /\ InList(next[n]) /\ next[n] \notin Loose
  <2>1. next[n] \in Nodes
    BY <1>1, <1>5 DEF Ptr
  <2>2. next[n] \in Pointed(next)
    BY <1>4, <2>1
  <2> QED
    BY <1>2, <1>5, <2>1, <2>2 DEF InList, Spare
<1> QED
  BY <1>1, <1>2, <1>3, <1>4, <1>5

(* The head of a list that exists.                                         *)
LEMMA HeadOf ==
    ASSUME HeapInv, pc # "crashed", NEW l \in Whole, head[l] # Null
    PROVE  InList(head[l]) /\ head[l] \notin Pointed(next) /\ head[l] \notin Loose
<1>1. l \in Lists
  BY DEF Whole
<1> QED
  BY <1>1, Roots DEF InList, Spare, Ptr
-----------------------------------------------------------------------------
(* The walks.                                                              *)
LEMMA GetBeforeKeeps ==
    ASSUME HeapInv,
           NEW op \in {"insert", "delete"}, NEW walk \in {"insertWalk", "deleteWalk"},
           op = "insert" <=> walk = "insertWalk",
           GetBefore(op, walk)
    PROVE  HeapInv'
<1>1. pc = op /\ Loose = {} /\ Whole = Lists /\ arg.l \in Lists
  BY DEF GetBefore, Loose, Whole, HeapInv, ArgInv
<1>2. CASE Fail(op)
  BY <1>1, <1>2, Failed DEF Fail
<1>3. CASE head[arg.l] # Null /\ p' = head[arg.l] /\ i' = -1 /\ Goto(walk)
           /\ UNCHANGED <<memory, q, r>>
  <2>1. pc' = walk /\ UNCHANGED <<arg, memory, q, r>>
    BY <1>3 DEF Goto
  <2>2. InList(p')
    BY <1>1, <1>3, HeadOf
  <2>3. UNCHANGED Memory /\ Here'
    BY <1>3, <2>1, <2>2 DEF memory, Memory, Here, HeapInv, TypeOK, InList, Ptr
  <2>4. Loose' = {} /\ Whole' = Lists
    BY <2>1 DEF Loose, Whole
  <2>5. ArgInv'
    BY <1>1, <2>1 DEF HeapInv, ArgInv, Pcs
  <2>6. LocalInv'
    BY <2>1, <2>2 DEF LocalInv, InList, Spare, memory
  <2> QED
    BY <1>1, <2>3, <2>4, <2>5, <2>6, SameChains
<1> QED
  BY <1>2, <1>3 DEF GetBefore

LEMMA WalkKeeps ==
    ASSUME HeapInv, NEW op, NEW walk \in {"insertWalk", "deleteWalk"}, Walk(op, walk)
    PROVE  HeapInv'
<1>1. pc = walk /\ Loose = {} /\ Whole = Lists /\ InList(p)
  BY DEF Walk, Loose, Whole, HeapInv, LocalInv
<1>2. CASE Fail(op)
  BY <1>1, <1>2, Failed DEF Fail
<1>3. CASE next[p] # Null /\ p' = next[p] /\ i' = i + 1 /\ Goto(walk)
           /\ UNCHANGED <<memory, q, r>>
  <2>1. pc' = walk /\ UNCHANGED <<arg, memory, q, r>>
    BY <1>3 DEF Goto
  <2>2. InList(p')
    BY <1>1, <1>3, Roots DEF InList
  <2>3. UNCHANGED Memory /\ Here'
    BY <1>3, <2>1, <2>2 DEF memory, Memory, Here, HeapInv, TypeOK, InList, Ptr
  <2>4. Loose' = {} /\ Whole' = Lists
    BY <2>1 DEF Loose, Whole
  <2>5. ArgInv'
    BY <1>1, <2>1 DEF HeapInv, ArgInv, Pcs
  <2>6. LocalInv'
    BY <2>1, <2>2 DEF LocalInv, InList, Spare, memory
  <2> QED
    BY <1>1, <2>3, <2>4, <2>5, <2>6, SameChains
<1> QED
  BY <1>2, <1>3 DEF Walk

LEMMA Pop1Keeps ==
    ASSUME HeapInv, Pop1
    PROVE  HeapInv'
<1>1. pc = "pop" /\ Loose = {} /\ Whole = Lists /\ arg.l \in Lists
  BY DEF Pop1, Loose, Whole, HeapInv, ArgInv
<1>2. CASE Fail("pop")
  BY <1>1, <1>2, Failed DEF Fail
<1>3. CASE /\ head[arg.l] # Null /\ next[head[arg.l]] # Null
           /\ p' = head[arg.l] /\ Goto("popWalk") /\ UNCHANGED <<memory, q, r, i>>
  <2>1. pc' = "popWalk" /\ UNCHANGED <<arg, memory, q, r, i>>
    BY <1>3 DEF Goto
  <2>2. InList(p') /\ next[p'] # Null
    BY <1>1, <1>3, HeadOf
  <2>3. UNCHANGED Memory /\ Here'
    BY <2>1, <2>2 DEF memory, Memory, Here, HeapInv, TypeOK, InList, Ptr
  <2>4. Loose' = {} /\ Whole' = Lists
    BY <2>1 DEF Loose, Whole
  <2>5. ArgInv'
    BY <1>1, <2>1 DEF HeapInv, ArgInv, Pcs
  <2>6. LocalInv'
    BY <2>1, <2>2 DEF LocalInv, InList, Spare, memory
  <2> QED
    BY <1>1, <2>3, <2>4, <2>5, <2>6, SameChains
<1> QED
  BY <1>2, <1>3 DEF Pop1

LEMMA Free1Keeps ==
    ASSUME HeapInv, Free1
    PROVE  HeapInv'
<1>1. /\ pc = "free" /\ pc' = "freeLoop" /\ Loose = {} /\ Whole = Lists
      /\ arg.l \in Lists /\ head[arg.l] # Null
      /\ p' = head[arg.l] /\ UNCHANGED <<arg, memory, q, r, i>>
  BY DEF Free1, Goto, Loose, Whole, HeapInv, ArgInv
<1>2. InList(p') /\ p' # Null
  BY <1>1, HeadOf
<1>3. TypeOK' /\ Chains(next)'
  BY <1>1, <1>2 DEF HeapInv, TypeOK, Chains, OnePred, Ranked, memory, InList, Ptr
<1>4. ArgInv' /\ LocalInv'
  BY <1>1 DEF HeapInv, ArgInv, LocalInv, Pcs
<1>5. Loose' = {head[arg.l]} /\ Whole' = Lists \ {arg.l}
  BY <1>1, <1>2 DEF Loose, Whole
<1>6. Pointed(next)' = Pointed(next) /\ Spare' = Spare
  BY <1>1 DEF Pointed, Spare, memory
<1>7. RootInv'
  BY <1>1, <1>5, <1>6, Roots DEF RootInv, Spare, memory
<1>8. ApartInv'
  BY <1>1, <1>5, <1>6, Roots DEF ApartInv, Spare, memory
<1> QED
  BY <1>3, <1>4, <1>7, <1>8 DEF HeapInv

(* list_add_max: with three nodes there are two neighbours to begin with.  *)
LEMMA AddMax1Keeps ==
    ASSUME HeapInv, AddMax1
    PROVE  HeapInv'
<1>1. pc = "max" /\ Loose = {} /\ Whole = Lists /\ arg.l \in Lists
  BY DEF AddMax1, Loose, Whole, HeapInv, ArgInv
<1>2. CASE Fail("max")
  BY <1>1, <1>2, Failed DEF Fail
<1>3. CASE Return("max", 0, <<>>) /\ UNCHANGED memory
  BY <1>1, <1>3, Failed
<1>4. CASE /\ head[arg.l] # Null /\ ~(Cardinality(Places(arg.l)) < 3)
           /\ q' = At(arg.l)[1] /\ p' = At(arg.l)[2] /\ r' = q'
           /\ i' = data[q'] + data[p']
           /\ Goto("maxLoop")
           /\ UNCHANGED memory
  <2> DEFINE N == Cardinality(Nodes)
             l == arg.l
  <2>0. N \in Nat /\ head[l] \in Ptr
    BY <1>1, Size, Roots
  <2>1. 2 \in 1 .. N /\ At(l)[2] # Null
    <3> SUFFICES ASSUME ~(2 \in 1 .. N /\ At(l)[2] # Null) PROVE FALSE
      OBVIOUS
    <3>1. ASSUME NEW k \in Places(l) PROVE k = 1
      <4>1. k \in 1 .. N /\ At(l)[k] # Null
        BY DEF Places
      <4>2. CASE N < 2
        BY <2>0, <4>1, <4>2
      <4>3. CASE 2 <= N /\ At(l)[2] = Null
        <5>1. k \in 0 .. N /\ (k # 1 => 2 \in 0 .. k)
          BY <2>0, <4>1
        <5>2. k # 1 => From(head[l])[k] = Null
          BY <4>3, <5>1, WalkStays DEF At
        <5> QED
          BY <4>1, <5>2 DEF At
      <4> QED
        BY <2>0, <4>2, <4>3
    <3>2. Places(l) \in SUBSET (1 .. 1)
      BY <3>1
    <3>3. IsFiniteSet(1 .. 1) /\ Cardinality(1 .. 1) = 1
      <4>1. 1 \in Int
        OBVIOUS
      <4>2. IsFiniteSet(1 .. 1) /\ Cardinality(1 .. 1) = IF 1 > 1 THEN 0 ELSE 1 - 1 + 1
        BY <4>1, FS_Interval, Zenon
      <4> QED
        BY <4>2, SMT
    <3>4. Cardinality(Places(l)) <= 1 /\ IsFiniteSet(Places(l))
      BY <3>2, <3>3, FS_Subset
    <3>5. Cardinality(Places(l)) \in Nat
      BY <3>4, FS_CardinalityType
    <3> QED
      BY <1>4, <3>4, <3>5
  <2>2. At(l)[2] = IF At(l)[1] = Null THEN Null ELSE next[At(l)[1]]
    <3>1. 2 \in 1 .. N /\ 2 - 1 = 1
      BY <2>1
    <3> QED
      BY <3>1, Walks DEF At
  <2>3. q' \in Nodes /\ p' \in Nodes /\ next[q'] = p'
    <3>1. 1 \in 0 .. N /\ 2 \in 0 .. N
      BY <2>0, <2>1
    <3>0. Chains(next)
      BY DEF HeapInv
    <3>2. At(l)[1] \in Ptr /\ At(l)[2] \in Ptr
      BY <2>0, <3>0, <3>1, WalkNodes, Zenon DEF At
    <3> QED
      BY <1>4, <2>1, <2>2, <3>2 DEF Ptr
  <2>4. pc' = "maxLoop" /\ UNCHANGED <<arg, memory>>
    BY <1>4 DEF Goto
  <2>5. UNCHANGED Memory /\ Here'
    <3>1. data \in [Nodes -> Values \cup {0}] /\ \A v \in Values \cup {0} : v \in Int
      BY ListAssumption DEF HeapInv, TypeOK
    <3>2. data[q'] \in Int /\ data[p'] \in Int
      BY <2>3, <3>1, Zenon
    <3>3. i' \in Int
      BY <1>4, <3>2
    <3> QED
      BY <1>4, <2>3, <2>4, <3>1, <3>3 DEF memory, Memory, Here, Ptr
  <2>6. Loose' = {} /\ Whole' = Lists
    BY <2>4 DEF Loose, Whole
  <2>7. ArgInv'
    BY <1>1, <2>4 DEF HeapInv, ArgInv, Pcs
  <2>8. LocalInv'
    BY <2>3, <2>4 DEF LocalInv, memory
  <2> QED
    BY <1>1, <2>5, <2>6, <2>7, <2>8, SameChains
<1> QED
  BY <1>2, <1>3, <1>4 DEF AddMax1

LEMMA AddMaxLoopKeeps ==
    ASSUME HeapInv, AddMaxLoop
    PROVE  HeapInv'
<1>1. /\ pc = "maxLoop" /\ Loose = {} /\ Whole = Lists /\ arg.l \in Lists
      /\ p \in Nodes /\ q \in Nodes /\ next[q] = p /\ UNCHANGED memory
  BY DEF AddMaxLoop, Loose, Whole, HeapInv, ArgInv, LocalInv
<1>2. CASE next[p] = Null
  BY <1>1, <1>2, Failed DEF AddMaxLoop
<1>3. CASE next[p] # Null
  <2>1. /\ p' = next[p] /\ q' = next[q] /\ pc' = "maxLoop" /\ UNCHANGED arg
        /\ \/ i' = data[q'] + data[p'] /\ r' = q'
           \/ UNCHANGED <<i, r>>
    BY <1>3 DEF AddMaxLoop, Goto
  <2>2. p' \in Nodes /\ q' \in Nodes /\ q' = p /\ next[q'] = p'
    BY <1>1, <1>3, <2>1, Roots DEF InList
  <2>3. UNCHANGED Memory /\ Here'
    <3>1. /\ data \in [Nodes -> Values \cup {0}] /\ \A v \in Values \cup {0} : v \in Int
          /\ i \in Int /\ r \in Ptr
      BY ListAssumption DEF HeapInv, TypeOK
    <3>2. data[q'] \in Int /\ data[p'] \in Int
      BY <2>2, <3>1, Zenon
    <3>3. i' \in Int /\ r' \in Ptr
      BY <2>1, <2>2, <3>1, <3>2 DEF Ptr
    <3> QED
      BY <1>1, <2>2, <3>1, <3>3 DEF memory, Memory, Here, Ptr
  <2>4. Loose' = {} /\ Whole' = Lists
    BY <2>1 DEF Loose, Whole
  <2>5. ArgInv'
    BY <1>1, <2>1 DEF HeapInv, ArgInv, Pcs
  <2>6. LocalInv'
    BY <1>1, <2>1, <2>2 DEF LocalInv, memory
  <2> QED
    BY <1>1, <2>3, <2>4, <2>5, <2>6, SameChains
<1> QED
  BY <1>2, <1>3
-----------------------------------------------------------------------------
(* Steps that change the chains.                                           *)
LEMMA Assembled ==
    ASSUME Chains(next'), Here', free' \subseteq Nodes, out' \subseteq Nodes,
           head' \in [Lists -> Ptr], ArgInv', LocalInv', free' \cap out' = {},
           \A n \in Nodes : n \notin Pointed(next')
              <=> n \in free' \/ n \in out' \/ n \in Loose' \/ \E l \in Whole' : head'[l] = n,
           \A n \in free' \cup out' : next'[n] = Null /\ n \notin Loose',
           \A l \in Whole' :
              /\ head'[l] \notin free' /\ head'[l] \notin out' /\ head'[l] \notin Loose'
              /\ \A m \in Whole' : head'[l] = head'[m] /\ head'[l] # Null => l = m
    PROVE  HeapInv'
<1>1. Chains(next)' /\ Pointed(next)' = Pointed(next')
  BY DEF Chains, OnePred, Ranked, Pointed
<1>2. TypeOK'
  BY DEF Chains, Here, TypeOK
<1>3. RootInv' /\ ApartInv'
  BY <1>1 DEF RootInv, ApartInv, Spare
<1> QED
  BY <1>1, <1>2, <1>3 DEF HeapInv

LEMMA CreateKeeps ==
    ASSUME HeapInv, Create
    PROVE  HeapInv'
<1>1. pc = "create" /\ Loose = {} /\ Whole = Lists /\ arg.l \in Lists /\ head[arg.l] = Null
  BY DEF Create, Loose, Whole, HeapInv, ArgInv
<1>2. CASE Fail("create")
  BY <1>1, <1>2, Failed DEF Fail
<1>3. ASSUME NEW n \in free, Malloc(n, 0), head' = [head EXCEPT ![arg.l] = n],
             Return("create", 0, <<>>), UNCHANGED <<next, out>>
      PROVE  HeapInv'
  <2>1. free' = free \ {n} /\ data' = [data EXCEPT ![n] = 0]
    BY <1>3 DEF Malloc
  <2>2. /\ Loose' = {} /\ Whole' = Lists
        /\ ArgInv' /\ LocalInv' /\ {p, q, r}' \subseteq Ptr /\ i' \in Int
    BY <1>3, Returned
  <2>3. Here'
    BY <2>1, <2>2 DEF Here, HeapInv, TypeOK
  <2>4. /\ free' \subseteq Nodes /\ out' \subseteq Nodes /\ head' \in [Lists -> Ptr]
        /\ free' \cap out' = {} /\ Chains(next') /\ n \in Nodes /\ n # Null
    BY <1>1, <1>3, <2>1, Roots DEF Ptr
  <2>5. head'[arg.l] = n /\ \A l \in Lists \ {arg.l} : head'[l] = head[l]
    BY <1>1, <1>3, <2>4, Roots
  <2>6. n \notin out /\ \A l \in Lists : head[l] # n
    BY <1>1, Roots
  <2>7. \A m \in Nodes : m \notin Pointed(next')
           <=> m \in free' \/ m \in out' \/ m \in Loose' \/ \E l \in Whole' : head'[l] = m
    BY <1>1, <1>3, <2>1, <2>2, <2>5, <2>6, Roots
  <2>8. \A l \in Whole' :
           /\ head'[l] \notin free' /\ head'[l] \notin out' /\ head'[l] \notin Loose'
           /\ \A m \in Whole' : head'[l] = head'[m] /\ head'[l] # Null => l = m
    BY <1>1, <1>3, <2>1, <2>2, <2>5, <2>6, Roots
  <2>9. \A m \in free' \cup out' : next'[m] = Null /\ m \notin Loose'
    BY <1>1, <1>3, <2>1, <2>2, Roots
  <2> QED
    BY <2>2, <2>3, <2>4, <2>7, <2>8, <2>9, Assembled
<1> QED
  BY <1>2, <1>3 DEF Create

LEMMA Tail1Keeps ==
    ASSUME HeapInv, Tail1
    PROVE  HeapInv'
<1>1. /\ pc = "tail" /\ Loose = {} /\ Whole = Lists /\ arg.l \in Lists /\ arg.v \in Values
  BY DEF Tail1, Loose, Whole, HeapInv, ArgInv
<1>2. CASE Fail("tail")
  BY <1>1, <1>2, Failed DEF Fail
<1>3. ASSUME NEW n \in free, Malloc(n, arg.v), p' = n, q' = head[arg.l], head[arg.l] # Null,
             Goto("tailWalk"), UNCHANGED <<next, out, head, r, i>>
      PROVE  HeapInv'
  <2>1. /\ free' = free \ {n} /\ data' = [data EXCEPT ![n] = arg.v]
        /\ pc' = "tailWalk" /\ UNCHANGED arg
    BY <1>3 DEF Malloc, Goto
  <2>2. n \in Nodes /\ n # Null /\ n \notin out /\ next[n] = Null /\ \A l \in Lists : head[l] # n
    BY <1>1, Roots
  <2>3. Loose' = {n} /\ Whole' = Lists
    BY <1>3, <2>1, <2>2 DEF Loose, Whole
  <2>4. InList(head[arg.l]) /\ head[arg.l] # n
    BY <1>1, <1>3, <2>2, HeadOf
  <2>5. Here'
    BY <1>1, <1>3, <2>1, <2>2, <2>4 DEF Here, HeapInv, TypeOK, InList, Ptr
  <2>6. ArgInv'
    BY <1>1, <2>1 DEF HeapInv, ArgInv, Pcs
  <2>7. LocalInv'
    BY <1>3, <2>1, <2>2, <2>4 DEF LocalInv, InList, Spare
  <2>8. /\ free' \subseteq Nodes /\ out' \subseteq Nodes /\ head' \in [Lists -> Ptr]
        /\ free' \cap out' = {} /\ Chains(next')
    BY <1>1, <1>3, <2>1, Roots
  <2>9. \A m \in Nodes : m \notin Pointed(next')
           <=> m \in free' \/ m \in out' \/ m \in Loose' \/ \E l \in Whole' : head'[l] = m
    BY <1>1, <1>3, <2>1, <2>3, Roots
  <2>10. \A l \in Whole' :
           /\ head'[l] \notin free' /\ head'[l] \notin out' /\ head'[l] \notin Loose'
           /\ \A m \in Whole' : head'[l] = head'[m] /\ head'[l] # Null => l = m
    BY <1>1, <1>3, <2>1, <2>2, <2>3, Roots
  <2>11. \A m \in free' \cup out' : next'[m] = Null /\ m \notin Loose'
    BY <1>1, <1>3, <2>1, <2>2, <2>3, Roots
  <2> QED
    BY <2>5, <2>6, <2>7, <2>8, <2>9, <2>10, <2>11, Assembled
<1> QED
  BY <1>2, <1>3 DEF Tail1

LEMMA TailWalkKeeps ==
    ASSUME HeapInv, TailWalk
    PROVE  HeapInv'
<1>1. /\ pc = "tailWalk" /\ Whole = Lists /\ Loose = {p} /\ p \in Nodes /\ next[p] = Null
      /\ InList(q) /\ q # p /\ arg.l \in Lists /\ Null \notin Nodes
  BY ListAssumption DEF TailWalk, Loose, Whole, HeapInv, LocalInv, ArgInv
<1>2. p \notin Pointed(next) /\ q \in Nodes
  BY <1>1, Roots DEF InList
<1>3. CASE next[q] # Null
  <2>1. q' = next[q] /\ pc' = "tailWalk" /\ UNCHANGED <<arg, memory, p, r, i>>
    BY <1>3 DEF TailWalk, Goto
  <2>2. InList(q') /\ q' # p
    BY <1>1, <1>2, <1>3, <2>1, Roots
  <2>3. UNCHANGED Memory /\ Here'
    BY <2>1, <2>2 DEF memory, Memory, Here, HeapInv, TypeOK, InList, Ptr
  <2>4. Loose' = Loose /\ Whole' = Whole
    BY <1>1, <2>1 DEF Loose, Whole
  <2>5. ArgInv'
    BY <1>1, <2>1 DEF HeapInv, ArgInv, Pcs
  <2>6. LocalInv'
    BY <1>1, <2>1, <2>2 DEF LocalInv, InList, Spare, memory
  <2> QED
    BY <1>1, <2>3, <2>4, <2>5, <2>6, SameChains
<1>4. CASE next[q] = Null
  <2>1. next' = [next EXCEPT ![q] = p] /\ Return("tail", 0, <<>>)
        /\ UNCHANGED <<data, free, out, head>>
    BY <1>4 DEF TailWalk
  <2>2. /\ Loose' = {} /\ Whole' = Lists
        /\ ArgInv' /\ LocalInv' /\ {p, q, r}' \subseteq Ptr /\ i' \in Int
    BY <2>1, Returned
  <2>3. Here'
    BY <2>1, <2>2 DEF Here, HeapInv, TypeOK
  <2>4. Chains(next') /\ Pointed(next') = Pointed(next) \cup {p}
    <3> DEFINE C == {p}
    <3>1. C \in SUBSET Nodes /\ p \in C /\ q \notin C /\ \A n \in C : next[n] \in C \cup {Null}
      BY <1>1
    <3>2. Chains(next)
      BY DEF HeapInv
    <3> HIDE DEF C
    <3> QED
      BY <1>1, <1>2, <1>4, <2>1, <3>1, <3>2, Joined
  <2>5. \A n \in Nodes \ {q} : next'[n] = next[n]
    BY <2>1, Roots
  <2>6. /\ free' \subseteq Nodes /\ out' \subseteq Nodes /\ head' \in [Lists -> Ptr]
        /\ free' \cap out' = {}
    BY <1>1, <2>1, Roots
  <2>7. \A m \in Nodes : m \notin Pointed(next')
           <=> m \in free' \/ m \in out' \/ m \in Loose' \/ \E l \in Whole' : head'[l] = m
    BY <1>1, <2>1, <2>2, <2>4, Roots
  <2>8. \A l \in Whole' :
           /\ head'[l] \notin free' /\ head'[l] \notin out' /\ head'[l] \notin Loose'
           /\ \A m \in Whole' : head'[l] = head'[m] /\ head'[l] # Null => l = m
    BY <1>1, <2>1, <2>2, Roots
  <2>9. \A m \in free' \cup out' : next'[m] = Null /\ m \notin Loose'
    BY <1>1, <2>1, <2>2, <2>5, Roots DEF InList, Spare
  <2> QED
    BY <2>2, <2>3, <2>4, <2>6, <2>7, <2>8, <2>9, Assembled
<1> QED
  BY <1>3, <1>4

LEMMA InsertKeeps ==
    ASSUME HeapInv, Insert
    PROVE  HeapInv'
<1>1. /\ pc = "insertWalk" /\ Loose = {} /\ Whole = Lists /\ arg.l \in Lists
      /\ arg.v \in Values /\ InList(p)
  BY DEF Insert, Loose, Whole, HeapInv, ArgInv, LocalInv
<1>2. CASE Fail("insert")
  BY <1>1, <1>2, Failed DEF Fail
<1>3. ASSUME NEW n \in free, Malloc(n, arg.v),
             next' = [next EXCEPT ![n] = next[p], ![p] = n],
             Return("insert", 0, <<>>), UNCHANGED <<out, head>>
      PROVE  HeapInv'
  <2>1. free' = free \ {n} /\ data' = [data EXCEPT ![n] = arg.v]
    BY <1>3 DEF Malloc
  <2>2. /\ Loose' = {} /\ Whole' = Lists
        /\ ArgInv' /\ LocalInv' /\ {p, q, r}' \subseteq Ptr /\ i' \in Int
    BY <1>3, Returned
  <2>3. Here'
    BY <1>1, <2>1, <2>2 DEF Here, HeapInv, TypeOK
  <2>4. /\ n \in Nodes /\ n \notin out /\ next[n] = Null /\ n \notin Pointed(next)
        /\ p \in Nodes /\ p # n
    BY <1>1, Roots DEF InList, Spare
  <2>5. Chains(next') /\ Pointed(next') = Pointed(next) \cup {n}
    <3>1. Chains(next) /\ Null \notin Pointed(next) \cup {n}
      BY <2>4, ListAssumption DEF HeapInv, Pointed
    <3>2. Chains(next') /\ Pointed(next') = (Pointed(next) \cup {n}) \ {next[n]}
      BY <1>3, <2>4, <3>1, PutBehind
    <3> QED
      BY <2>4, <3>1, <3>2
  <2>6. \A m \in Nodes \ {n, p} : next'[m] = next[m]
    BY <1>1, <1>3, Roots
  <2>7. /\ free' \subseteq Nodes /\ out' \subseteq Nodes /\ head' \in [Lists -> Ptr]
        /\ free' \cap out' = {}
    BY <1>1, <1>3, <2>1, Roots
  <2>8. \A m \in Nodes : m \notin Pointed(next')
           <=> m \in free' \/ m \in out' \/ m \in Loose' \/ \E l \in Whole' : head'[l] = m
    <3>1. /\ \A m \in Nodes : m \notin Pointed(next)
                <=> m \in free \/ m \in out \/ \E l \in Lists : head[l] = m
          /\ n \in free /\ \A l \in Lists : head[l] \notin free
      BY <1>1, <1>3, Roots
    <3>2. out' = out /\ head' = head /\ free' = free \ {n} /\ Loose' = {} /\ Whole' = Lists
      BY <1>3, <2>1, <2>2
    <3> QED
      BY <2>4, <2>5, <3>1, <3>2
  <2>9. \A l \in Whole' :
           /\ head'[l] \notin free' /\ head'[l] \notin out' /\ head'[l] \notin Loose'
           /\ \A m \in Whole' : head'[l] = head'[m] /\ head'[l] # Null => l = m
    BY <1>1, <1>3, <2>1, <2>2, Roots
  <2>10. \A m \in free' \cup out' : next'[m] = Null /\ m \notin Loose'
    BY <1>1, <1>3, <2>1, <2>2, <2>4, <2>6, Roots DEF InList, Spare
  <2> QED
    BY <2>2, <2>3, <2>5, <2>7, <2>8, <2>9, <2>10, Assembled
<1> QED
  BY <1>2, <1>3 DEF Insert

LEMMA DeleteKeeps ==
    ASSUME HeapInv, Delete
    PROVE  HeapInv'
<1>1. /\ pc = "deleteWalk" /\ Loose = {} /\ Whole = Lists /\ arg.l \in Lists /\ InList(p)
  BY DEF Delete, Loose, Whole, HeapInv, ArgInv, LocalInv
<1>2. CASE next[p] = Null
  BY <1>1, <1>2, Failed DEF Delete, Fail
<1>3. CASE next[p] # Null
  <2> DEFINE d == next[p]
  <2>1. /\ next' = [next EXCEPT ![p] = next[d], ![d] = Null]
        /\ data' = [data EXCEPT ![d] = 0]
        /\ free' = free \cup {d}
        /\ Return("delete", 0, <<>>)
        /\ UNCHANGED <<out, head>>
    BY <1>3 DEF Delete
  <2>2. /\ Loose' = {} /\ Whole' = Lists
        /\ ArgInv' /\ LocalInv' /\ {p, q, r}' \subseteq Ptr /\ i' \in Int
    BY <2>1, Returned
  <2>3. /\ p \in Nodes /\ InList(d) /\ d \in Pointed(next) /\ d \in Nodes /\ d # p
    <3>1. p \in Nodes /\ Chains(next)
      BY <1>1 DEF InList, HeapInv
    <3>2. InList(d) /\ d \in Nodes
      BY <1>3, <3>1, Roots, <1>1 DEF InList
    <3> QED
      BY <1>1, <1>3, <3>1, <3>2, Roots, NoLoop
  <2>4. Here'
    <3>1. data' \in [Nodes -> Values \cup {0}]
      BY <2>1, <2>3 DEF HeapInv, TypeOK
    <3> QED
      BY <2>2, <3>1 DEF Here
  <2>5. Chains(next') /\ Pointed(next') = Pointed(next) \ {d}
    <3>1. Chains(next)
      BY DEF HeapInv
    <3> QED
      BY <1>3, <2>1, <2>3, <3>1, TakenOut
  <2>6. next'[d] = Null /\ \A m \in Nodes \ {d, p} : next'[m] = next[m]
    BY <1>1, <2>1, <2>3, Roots
  <2> HIDE DEF d
  <2>7. /\ free' \subseteq Nodes /\ out' \subseteq Nodes /\ head' \in [Lists -> Ptr]
        /\ free' \cap out' = {}
    BY <1>1, <2>1, <2>3, Roots DEF InList, Spare
  <2>8. \A m \in Nodes : m \notin Pointed(next')
           <=> m \in free' \/ m \in out' \/ m \in Loose' \/ \E l \in Whole' : head'[l] = m
    BY <1>1, <2>1, <2>2, <2>3, <2>5, Roots
  <2>9. \A l \in Whole' :
           /\ head'[l] \notin free' /\ head'[l] \notin out' /\ head'[l] \notin Loose'
           /\ \A m \in Whole' : head'[l] = head'[m] /\ head'[l] # Null => l = m
    <3>1. \A l \in Lists : head[l] # d
      BY <1>1, <2>3, Roots
    <3> QED
      BY <1>1, <2>1, <2>2, <3>1, Roots
  <2>10. \A m \in free' \cup out' : next'[m] = Null /\ m \notin Loose'
    BY <1>1, <2>1, <2>2, <2>3, <2>6, Roots DEF InList, Spare
  <2> QED
    BY <2>2, <2>4, <2>5, <2>7, <2>8, <2>9, <2>10, Assembled
<1> QED
  BY <1>2, <1>3

LEMMA PopWalkKeeps ==
    ASSUME HeapInv, PopWalk
    PROVE  HeapInv'
<1> DEFINE P == next[p]
<1>1. /\ pc = "popWalk" /\ Loose = {} /\ Whole = Lists /\ arg.l \in Lists
      /\ InList(p) /\ P # Null /\ p \in Nodes
  BY DEF PopWalk, Loose, Whole, HeapInv, ArgInv, LocalInv, InList
<1>2. InList(P) /\ P \in Nodes /\ P \in Pointed(next) /\ \A l \in Lists : head[l] # P
  <2>1. InList(P) /\ P \in Nodes
    BY <1>1, Roots DEF InList
  <2>2. P \in Pointed(next)
    BY <1>1, <2>1, Roots
  <2> QED
    BY <1>1, <2>1, <2>2, Roots
<1>3. CASE next[P] # Null
  <2>1. p' = P /\ pc' = "popWalk" /\ UNCHANGED <<arg, memory, q, r, i>>
    BY <1>3 DEF PopWalk, Goto
  <2>2. UNCHANGED Memory /\ Here'
    BY <1>2, <2>1 DEF memory, Memory, Here, HeapInv, TypeOK, Ptr
  <2>3. Loose' = {} /\ Whole' = Lists
    BY <2>1 DEF Loose, Whole
  <2>4. ArgInv'
    BY <1>1, <2>1 DEF HeapInv, ArgInv, Pcs
  <2>5. LocalInv'
    BY <1>2, <1>3, <2>1 DEF LocalInv, InList, Spare, memory
  <2> QED
    BY <1>1, <2>2, <2>3, <2>4, <2>5, SameChains
<1>4. CASE next[P] = Null
  <2>1. /\ next' = [next EXCEPT ![p] = Null]
        /\ out' = out \cup {P}
        /\ Return("pop", 0, <<data[P]>>)
        /\ UNCHANGED <<data, free, head>>
    BY <1>4 DEF PopWalk
  <2>2. /\ Loose' = {} /\ Whole' = Lists
        /\ ArgInv' /\ LocalInv' /\ {p, q, r}' \subseteq Ptr /\ i' \in Int
    BY <2>1, Returned
  <2>3. Here'
    BY <2>1, <2>2 DEF Here, HeapInv, TypeOK
  <2>4. Chains(next') /\ Pointed(next') = Pointed(next) \ {P}
    <3>1. Chains(next)
      BY DEF HeapInv
    <3> QED
      BY <1>1, <2>1, <3>1, CutBehind
  <2>5. next'[P] = Null /\ \A m \in Nodes \ {p} : next'[m] = next[m]
    BY <1>1, <1>2, <1>4, <2>1, Roots
  <2> HIDE DEF P
  <2>6. /\ free' \subseteq Nodes /\ out' \subseteq Nodes /\ head' \in [Lists -> Ptr]
        /\ free' \cap out' = {}
    BY <1>1, <1>2, <2>1, Roots DEF InList, Spare
  <2>7. \A m \in Nodes : m \notin Pointed(next')
           <=> m \in free' \/ m \in out' \/ m \in Loose' \/ \E l \in Whole' : head'[l] = m
    BY <1>1, <1>2, <2>1, <2>2, <2>4, Roots
  <2>8. \A l \in Whole' :
           /\ head'[l] \notin free' /\ head'[l] \notin out' /\ head'[l] \notin Loose'
           /\ \A m \in Whole' : head'[l] = head'[m] /\ head'[l] # Null => l = m
    BY <1>1, <1>2, <2>1, <2>2, Roots
  <2>9. \A m \in free' \cup out' : next'[m] = Null /\ m \notin Loose'
    BY <1>1, <2>1, <2>2, <2>5, Roots DEF InList, Spare
  <2> QED
    BY <2>2, <2>3, <2>4, <2>6, <2>7, <2>8, <2>9, Assembled
<1> QED
  BY <1>3, <1>4

LEMMA ReleaseKeeps ==
    ASSUME HeapInv, NEW n \in Nodes, Release(n)
    PROVE  HeapInv'
<1>1. /\ n \in out /\ pc = "idle" /\ out' = out \ {n} /\ free' = free \cup {n}
      /\ data' = [data EXCEPT ![n] = 0]
      /\ UNCHANGED <<next, head, pc, arg, locals>>
  BY DEF Release
<1>2. Loose = {} /\ Loose' = {} /\ Whole = Lists /\ Whole' = Lists
  BY <1>1 DEF Loose, Whole
<1>3. Here'
  BY <1>1 DEF Here, HeapInv, TypeOK, locals
<1>4. ArgInv' /\ LocalInv'
  BY <1>1 DEF HeapInv, ArgInv, LocalInv, Pcs
<1>5. /\ free' \subseteq Nodes /\ out' \subseteq Nodes /\ head' \in [Lists -> Ptr]
      /\ free' \cap out' = {} /\ Chains(next')
  BY <1>1, Roots
<1>6. \A m \in Nodes : m \notin Pointed(next')
         <=> m \in free' \/ m \in out' \/ m \in Loose' \/ \E l \in Whole' : head'[l] = m
  BY <1>1, <1>2, Roots
<1>7. \A l \in Whole' :
         /\ head'[l] \notin free' /\ head'[l] \notin out' /\ head'[l] \notin Loose'
         /\ \A m \in Whole' : head'[l] = head'[m] /\ head'[l] # Null => l = m
  BY <1>1, <1>2, Roots
<1>8. \A m \in free' \cup out' : next'[m] = Null /\ m \notin Loose'
  BY <1>1, <1>2, Roots
<1> QED
  BY <1>3, <1>4, <1>5, <1>6, <1>7, <1>8, Assembled

LEMMA FreeLoopKeeps ==
    ASSUME HeapInv, FreeLoop
    PROVE  HeapInv'
<1>1. /\ pc = "freeLoop" /\ Loose = {p} \ {Null} /\ Whole = Lists \ {arg.l} /\ arg.l \in Lists
      /\ p \in Ptr /\ Null \notin Nodes
  BY ListAssumption DEF FreeLoop, Loose, Whole, HeapInv, ArgInv, TypeOK
<1>2. CASE p = Null
  <2>1. head' = [head EXCEPT ![arg.l] = Null] /\ Return("free", 0, <<>>)
        /\ UNCHANGED <<next, data, free, out>>
    BY <1>2 DEF FreeLoop
  <2>2. /\ Loose' = {} /\ Whole' = Lists
        /\ ArgInv' /\ LocalInv' /\ {p, q, r}' \subseteq Ptr /\ i' \in Int
    BY <2>1, Returned
  <2>3. Here'
    BY <2>1, <2>2 DEF Here, HeapInv, TypeOK
  <2>4. /\ free' \subseteq Nodes /\ out' \subseteq Nodes /\ head' \in [Lists -> Ptr]
        /\ free' \cap out' = {} /\ Chains(next')
    BY <1>1, <2>1, Roots DEF Ptr
  <2>5. head'[arg.l] = Null /\ \A l \in Lists \ {arg.l} : head'[l] = head[l]
    BY <1>1, <2>1, Roots
  <2>6. \A m \in Nodes : m \notin Pointed(next')
           <=> m \in free' \/ m \in out' \/ m \in Loose' \/ \E l \in Whole' : head'[l] = m
    BY <1>1, <1>2, <2>1, <2>2, <2>5, Roots
  <2>7. \A l \in Whole' :
           /\ head'[l] \notin free' /\ head'[l] \notin out' /\ head'[l] \notin Loose'
           /\ \A m \in Whole' : head'[l] = head'[m] /\ head'[l] # Null => l = m
    BY <1>1, <2>1, <2>2, <2>5, Roots
  <2>8. \A m \in free' \cup out' : next'[m] = Null /\ m \notin Loose'
    BY <1>1, <2>1, <2>2, Roots
  <2> QED
    BY <2>2, <2>3, <2>4, <2>6, <2>7, <2>8, Assembled
<1>3. CASE p # Null
  <2>1. /\ free' = free \cup {p} /\ data' = [data EXCEPT ![p] = 0]
        /\ next' = [next EXCEPT ![p] = Null]
        /\ \/ p' = next[p] /\ pc' = "freeLoop"
           \/ p' = Null /\ pc' = "crashed"
        /\ UNCHANGED <<arg, out, head, q, r, i>>
    BY <1>3 DEF FreeLoop, Goto
  <2>2. p \in Nodes /\ p \in Loose /\ Loose = {p}
    BY <1>1, <1>3 DEF Ptr
  <2>3. Chains(next') /\ Pointed(next') = Pointed(next) \ {next[p]}
    <3>1. Chains(next)
      BY DEF HeapInv
    <3> QED
      BY <2>1, <2>2, <3>1, CutBehind
  <2>4. p' \in Ptr
    BY <1>1, <2>1, <2>2, Roots DEF Ptr
  <2>5. Here'
    BY <2>1, <2>4 DEF Here, HeapInv, TypeOK
  <2>6. /\ free' \subseteq Nodes /\ out' \subseteq Nodes /\ head' \in [Lists -> Ptr]
        /\ free' \cap out' = {}
    BY <1>1, <2>1, <2>2, Roots
  <2>7. ArgInv' /\ LocalInv'
    BY <1>1, <2>1 DEF HeapInv, ArgInv, LocalInv, Pcs
  <2>8. CASE pc' = "crashed"
    <3>1. Chains(next)' /\ TypeOK'
      BY <2>3, <2>5, <2>6 DEF Chains, OnePred, Ranked, TypeOK, Here
    <3> QED
      BY <2>7, <2>8, <3>1 DEF HeapInv, RootInv, ApartInv
  <2>9. CASE pc' = "freeLoop" /\ p' = next[p]
    <3>1. Loose' = {next[p]} \ {Null} /\ Whole' = Lists \ {arg.l}
      BY <2>1, <2>9 DEF Loose, Whole
    <3>2. next'[p] = Null /\ next[p] # p /\ \A m \in Nodes \ {p} : next'[m] = next[m]
      BY <1>1, <2>1, <2>2, Roots, NoLoop
    <3>3. /\ \A m \in Nodes : m \notin Pointed(next)
               <=> m \in free \/ m \in out \/ m = p \/ \E l \in Lists \ {arg.l} : head[l] = m
          /\ next[p] # Null => next[p] \in Nodes /\ next[p] \in Pointed(next)
      BY <1>1, <2>2, Roots DEF InList
    <3>4. \A m \in Nodes : m \notin Pointed(next')
             <=> m \in free' \/ m \in out' \/ m \in Loose' \/ \E l \in Whole' : head'[l] = m
      BY <1>1, <2>1, <2>3, <3>1, <3>3
    <3>5. \A l \in Whole' :
             /\ head'[l] \notin free' /\ head'[l] \notin out' /\ head'[l] \notin Loose'
             /\ \A m \in Whole' : head'[l] = head'[m] /\ head'[l] # Null => l = m
      <4>1. \A l \in Lists \ {arg.l} : head[l] # p /\ (head[l] # Null => head[l] # next[p])
        <5> SUFFICES ASSUME NEW l \in Lists \ {arg.l}
                     PROVE  head[l] # p /\ (head[l] # Null => head[l] # next[p])
          OBVIOUS
        <5>1. head[l] # p
          BY <1>1, <2>2, Roots
        <5>2. head[l] # Null => head[l] \notin Pointed(next)
          BY <1>1, HeadOf
        <5> QED
          BY <3>3, <5>1, <5>2
      <4>2. \A l \in Lists \ {arg.l} : head[l] \notin free /\ head[l] \notin out
               /\ \A m \in Lists \ {arg.l} : head[l] = head[m] /\ head[l] # Null => l = m
        BY <1>1, Roots
      <4> QED
        BY <2>1, <3>1, <4>1, <4>2
    <3>6. \A m \in free' \cup out' : next'[m] = Null /\ m \notin Loose'
      <4>1. \A m \in free \cup out : m \in Nodes /\ next[m] = Null /\ m # p /\ m \notin Pointed(next)
        BY <1>1, <2>2, Roots
      <4> QED
        BY <2>1, <3>1, <3>2, <3>3, <4>1
    <3> QED
      BY <2>3, <2>5, <2>6, <2>7, <2>9, <3>4, <3>5, <3>6, Assembled
  <2> QED
    BY <2>1, <2>8, <2>9
<1> QED
  BY <1>2, <1>3

LEMMA Reverse1Keeps ==
    ASSUME HeapInv, Reverse1
    PROVE  HeapInv'
<1> DEFINE H == head[arg.l]
           x == next[H]
<1>1. pc = "reverse" /\ Loose = {} /\ Whole = Lists /\ arg.l \in Lists
  BY DEF Reverse1, Loose, Whole, HeapInv, ArgInv
<1>2. CASE Fail("reverse")
  BY <1>1, <1>2, Failed DEF Fail
<1>3. CASE Return("reverse", 0, <<>>) /\ UNCHANGED memory
  BY <1>1, <1>3, Failed
<1>4. CASE /\ H # Null /\ x # Null /\ next[x] # Null
           /\ p' = next[x]
           /\ next' = [next EXCEPT ![x] = Null]
           /\ Goto("reverseLoop")
           /\ UNCHANGED <<data, free, out, head, q, r, i>>
  <2>1. pc' = "reverseLoop" /\ UNCHANGED <<arg, data, free, out, head, q, r, i>>
    BY <1>4 DEF Goto
  <2>2. H \in Nodes /\ x \in Nodes /\ InList(next[x]) /\ next[x] \in Nodes
        /\ next[x] \in Pointed(next)
    <3>1. H \in Nodes
      BY <1>1, <1>4, HeadOf DEF InList
    <3>2. x \in Nodes
      BY <1>1, <1>4, <3>1, Roots DEF InList
    <3>3. InList(next[x]) /\ next[x] \in Nodes
      BY <1>1, <1>4, <3>2, Roots DEF InList
    <3> QED
      BY <1>1, <3>1, <3>2, <3>3, Roots
  <2> HIDE DEF x
  <2>3. Chains(next') /\ Pointed(next') = Pointed(next) \ {next[x]}
    <3>1. Chains(next)
      BY DEF HeapInv
    <3> QED
      BY <1>4, <2>2, <3>1, CutBehind
  <2>4. next'[x] = Null /\ \A m \in Nodes \ {x} : next'[m] = next[m]
    BY <1>1, <1>4, <2>2, Roots
  <2>5. Loose' = {next[x]} /\ Whole' = Lists
    BY <1>4, <2>1 DEF Loose, Whole
  <2>6. Here'
    BY <1>4, <2>1, <2>2 DEF Here, HeapInv, TypeOK, Ptr
  <2>7. ArgInv'
    BY <1>1, <2>1 DEF HeapInv, ArgInv, Pcs
  <2>8. LocalInv'
    BY <1>4, <2>1 DEF LocalInv
  <2>9. /\ free' \subseteq Nodes /\ out' \subseteq Nodes /\ head' \in [Lists -> Ptr]
        /\ free' \cap out' = {}
    BY <1>1, <2>1, Roots
  <2>10. \A m \in Nodes : m \notin Pointed(next')
           <=> m \in free' \/ m \in out' \/ m \in Loose' \/ \E l \in Whole' : head'[l] = m
    BY <1>1, <2>1, <2>2, <2>3, <2>5, Roots
  <2>11. \A l \in Whole' :
           /\ head'[l] \notin free' /\ head'[l] \notin out' /\ head'[l] \notin Loose'
           /\ \A m \in Whole' : head'[l] = head'[m] /\ head'[l] # Null => l = m
    <3>1. \A l \in Lists : head[l] # next[x]
      BY <1>1, <2>2, Roots
    <3>2. \A l \in Lists : head[l] \notin free /\ head[l] \notin out
             /\ \A m \in Lists : head[l] = head[m] /\ head[l] # Null => l = m
      BY <1>1, Roots
    <3> QED
      BY <2>1, <2>5, <3>1, <3>2
  <2>12. \A m \in free' \cup out' : next'[m] = Null /\ m \notin Loose'
    <3>1. \A m \in free \cup out : m \in Nodes /\ next[m] = Null /\ m # next[x]
      BY <1>1, <2>2, Roots DEF InList, Spare
    <3> QED
      BY <2>1, <2>4, <2>5, <3>1
  <2> QED
    BY <2>1, <2>3, <2>6, <2>7, <2>8, <2>9, <2>10, <2>11, <2>12, Assembled
<1> QED
  BY <1>2, <1>3, <1>4 DEF Reverse1

LEMMA ReverseLoopKeeps ==
    ASSUME HeapInv, ReverseLoop
    PROVE  HeapInv'
<1> DEFINE H == head[arg.l]
<1>1. /\ pc = "reverseLoop" /\ Loose = {p} \ {Null} /\ Whole = Lists /\ arg.l \in Lists
      /\ H # Null /\ p \in Ptr
  BY DEF ReverseLoop, Loose, Whole, HeapInv, ArgInv, LocalInv, TypeOK
<1>2. CASE p = Null
  BY <1>1, <1>2, Failed DEF ReverseLoop
<1>3. CASE p # Null
  <2>1. /\ p' = next[p] /\ next' = [next EXCEPT ![p] = next[H], ![H] = p]
        /\ pc' = "reverseLoop"
        /\ UNCHANGED <<arg, data, free, out, head, q, r, i>>
    BY <1>3 DEF ReverseLoop, Goto
  <2>2. p \in Nodes /\ Loose = {p} /\ p \notin Pointed(next)
    BY <1>1, <1>3, Roots DEF Ptr
  <2>3. InList(H) /\ H \in Nodes /\ H # p
    BY <1>1, <2>2, HeadOf DEF InList
  <2>4. Chains(next') /\ Pointed(next') = (Pointed(next) \cup {p}) \ {next[p]}
    <3>1. Chains(next)
      BY DEF HeapInv
    <3>2. PICK h \in Nodes : h = H
      BY <2>3
    <3>3. PICK f : f = next'
      OBVIOUS
    <3>4. f = [next EXCEPT ![p] = next[h], ![h] = p] /\ h # p
      BY <2>1, <2>3, <3>2, <3>3
    <3>5. Chains(f) /\ Pointed(f) = (Pointed(next) \cup {p}) \ {next[p]}
      BY <2>2, <3>1, <3>2, <3>4, PutBehind
    <3> QED
      BY <3>3, <3>5
  <2>5. /\ \A m \in Nodes \ {p, H} : next'[m] = next[m]
        /\ p' \in Ptr /\ next[p] # p
        /\ next[p] # Null => next[p] \in Nodes /\ next[p] \in Pointed(next) /\ InList(next[p])
    <3>1. next[p] # p
      BY <1>1, <2>2, Roots, NoLoop
    <3>2. \A m \in Nodes \ {p, H} : next'[m] = next[m]
      BY <1>1, <2>1, <2>2, <2>3, Roots
    <3>3. next[p] \in Ptr
      BY <1>1, <2>2, Roots
    <3>4. next[p] # Null => next[p] \in Nodes /\ next[p] \in Pointed(next) /\ InList(next[p])
      BY <1>1, <2>2, <3>3, Roots DEF Ptr
    <3> QED
      BY <2>1, <3>1, <3>2, <3>3, <3>4
  <2>6. Loose' = {next[p]} \ {Null} /\ Whole' = Lists
    BY <2>1 DEF Loose, Whole
  <2>7. Here'
    BY <2>1, <2>5 DEF Here, HeapInv, TypeOK
  <2>8. ArgInv'
    BY <1>1, <2>1 DEF HeapInv, ArgInv, Pcs
  <2>9. LocalInv'
    BY <1>1, <2>1 DEF LocalInv
  <2>10. /\ free' \subseteq Nodes /\ out' \subseteq Nodes /\ head' \in [Lists -> Ptr]
         /\ free' \cap out' = {}
    BY <1>1, <2>1, Roots
  <2>11. \A m \in Nodes : m \notin Pointed(next')
           <=> m \in free' \/ m \in out' \/ m \in Loose' \/ \E l \in Whole' : head'[l] = m
    <3>1. \A m \in Nodes : m \notin Pointed(next)
             <=> m \in free \/ m \in out \/ m = p \/ \E l \in Lists : head[l] = m
      BY <1>1, <2>2, Roots
    <3>2. p \notin free /\ p \notin out /\ \A l \in Lists : head[l] # p
      BY <1>1, <2>2, Roots
    <3>3. \A m \in Nodes : m # Null
      BY ListAssumption
    <3> QED
      BY <2>1, <2>2, <2>4, <2>5, <2>6, <3>1, <3>2, <3>3
  <2>12. \A l \in Whole' :
           /\ head'[l] \notin free' /\ head'[l] \notin out' /\ head'[l] \notin Loose'
           /\ \A m \in Whole' : head'[l] = head'[m] /\ head'[l] # Null => l = m
    <3>1. \A l \in Lists : head[l] # Null => head[l] # next[p]
      <4> SUFFICES ASSUME NEW l \in Lists, head[l] # Null PROVE head[l] # next[p]
        OBVIOUS
      <4>1. head[l] \notin Pointed(next)
        BY <1>1, HeadOf
      <4> QED
        BY <2>5, <4>1
    <3>2. \A l \in Lists : head[l] \notin free /\ head[l] \notin out
             /\ \A m \in Lists : head[l] = head[m] /\ head[l] # Null => l = m
      BY <1>1, Roots
    <3> QED
      BY <2>1, <2>6, <3>1, <3>2
  <2>13. \A m \in free' \cup out' : next'[m] = Null /\ m \notin Loose'
    <3>1. \A m \in free \cup out : m \in Nodes /\ next[m] = Null /\ m # p
      BY <1>1, <2>2, Roots
    <3>2. \A m \in free \cup out : m # H /\ (next[p] # Null => m # next[p])
      BY <2>3, <2>5 DEF InList, Spare
    <3> QED
      BY <2>1, <2>5, <2>6, <3>1, <3>2
  <2> QED
    BY <2>1, <2>4, <2>7, <2>8, <2>9, <2>10, <2>11, <2>12, <2>13, Assembled
<1> QED
  BY <1>2, <1>3

LEMMA Merge1Keeps ==
    ASSUME HeapInv, Merge1
    PROVE  HeapInv'
<1>1. /\ pc = "merge" /\ Loose = {} /\ Whole = Lists /\ arg.l \in Lists /\ arg.m \in Lists
      /\ arg.m # arg.l
  BY DEF Merge1, Loose, Whole, HeapInv, ArgInv
<1>2. CASE head[arg.l] = Null \/ head[arg.m] = Null
  BY <1>1, <1>2, Failed DEF Merge1, Fail
<1>a. PICK a \in Ptr : a = head[arg.l]
  BY <1>1, Roots
<1>b. PICK b \in Ptr : b = head[arg.m]
  BY <1>1, Roots
<1>3. CASE a # Null /\ b # Null
  <2>1. /\ pc' = "mergeLoop" /\ UNCHANGED <<arg, data, free, out, head, i>>
        /\ p' = next[a] /\ q' = next[b] /\ r' = a
        /\ next' = [next EXCEPT ![a] = Null, ![b] = Null]
    BY <1>3, <1>a, <1>b DEF Merge1, Goto
  <2>2. /\ a \in Nodes /\ b \in Nodes /\ InList(a)
        /\ a \notin Pointed(next) /\ b \notin Pointed(next)
    BY <1>1, <1>3, <1>a, <1>b, HeadOf DEF InList
  <2>3. a # b
    BY <1>1, <1>3, <1>a, <1>b, Roots
  <2>4. /\ next[a] \in Ptr /\ next[b] \in Ptr /\ Null \notin Nodes
        /\ next[a] # Null => InList(next[a]) /\ next[a] \in Pointed(next)
        /\ next[b] # Null => InList(next[b]) /\ next[b] \in Pointed(next)
        /\ next[a] = next[b] => next[a] = Null
    <3>1. OnePred(next)
      BY DEF HeapInv, Chains
    <3> QED
      BY <1>1, <2>2, <2>3, <3>1, Roots DEF OnePred, InList
  <2>5. Chains(next') /\ Pointed(next') = Pointed(next) \ {next[a], next[b]}
    <3> DEFINE f == [next EXCEPT ![a] = Null]
    <3>1. Chains(next) /\ next \in [Nodes -> Ptr]
      BY DEF HeapInv, Chains
    <3>2. Chains(f) /\ Pointed(f) = Pointed(next) \ {next[a]}
      BY <2>2, <3>1, CutBehind
    <3>3. next' = [f EXCEPT ![b] = Null] /\ f[b] = next[b]
      BY <2>1, <2>2, <2>3, <3>1
    <3> HIDE DEF f
    <3>4. Chains(next') /\ Pointed(next') = Pointed(f) \ {f[b]}
      BY <2>2, <3>2, <3>3, CutBehind
    <3> QED
      BY <3>2, <3>3, <3>4
  <2>6. /\ next'[a] = Null /\ \A m \in Nodes : next'[m] = next[m] \/ next'[m] = Null
        /\ next' \in [Nodes -> Ptr]
    BY <1>1, <2>1, <2>2, <2>5, Roots DEF Chains
  <2>7. Loose' = {next[a], next[b]} \ {Null} /\ Whole' = Lists
    BY <2>1 DEF Loose, Whole
  <2>8. Here'
    BY <2>1, <2>2, <2>4 DEF Here, HeapInv, TypeOK, Ptr
  <2>9. ArgInv'
    BY <1>1, <2>1 DEF HeapInv, ArgInv, Pcs
  <2>10. LocalInv'
    <3> DEFINE C == Nodes \ {a}
    <3>1. C \in SUBSET Nodes /\ a \notin C
      OBVIOUS
    <3>2. \A n \in C : next'[n] \in C \cup {Null}
      <4>1. \A n \in Nodes : next[n] # a
        BY <1>1, <2>2, Roots
      <4>2. \A n \in Nodes : next'[n] # a
        BY <2>2, <2>4, <2>6, <4>1
      <4> QED
        BY <2>6, <4>2 DEF Ptr
    <3>3. Loose' \subseteq C
      BY <2>2, <2>4, <2>7 DEF Ptr
    <3> HIDE DEF C
    <3>4. Rest(C)'
      BY <2>1, <3>1, <3>2, <3>3 DEF Rest
    <3>5. \E D \in SUBSET Nodes : Rest(D)'
      BY <3>1, <3>4
    <3>6. InList(a)' /\ next'[a] = Null /\ (next[a] = next[b] => next[a] = Null)
      BY <2>1, <2>2, <2>4, <2>6 DEF InList, Spare
    <3> QED
      BY <2>1, <3>5, <3>6 DEF LocalInv, InList
  <2>11. /\ free' \subseteq Nodes /\ out' \subseteq Nodes /\ head' \in [Lists -> Ptr]
         /\ free' \cap out' = {}
    BY <1>1, <2>1, Roots
  <2>12. \A m \in Nodes : m \notin Pointed(next')
           <=> m \in free' \/ m \in out' \/ m \in Loose' \/ \E l \in Whole' : head'[l] = m
    <3>1. \A m \in Nodes : m \notin Pointed(next)
             <=> m \in free \/ m \in out \/ \E l \in Lists : head[l] = m
      BY <1>1, Roots
    <3> QED
      BY <2>1, <2>4, <2>5, <2>7, <3>1
  <2>13. \A l \in Whole' :
           /\ head'[l] \notin free' /\ head'[l] \notin out' /\ head'[l] \notin Loose'
           /\ \A m \in Whole' : head'[l] = head'[m] /\ head'[l] # Null => l = m
    <3>1. \A l \in Lists : head[l] # Null => head[l] # next[a] /\ head[l] # next[b]
      <4> SUFFICES ASSUME NEW l \in Lists, head[l] # Null
                   PROVE  head[l] # next[a] /\ head[l] # next[b]
        OBVIOUS
      <4>1. head[l] \notin Pointed(next)
        BY <1>1, HeadOf
      <4> QED
        BY <2>4, <4>1
    <3>2. \A l \in Lists : head[l] \notin free /\ head[l] \notin out
             /\ \A m \in Lists : head[l] = head[m] /\ head[l] # Null => l = m
      BY <1>1, Roots
    <3> QED
      BY <2>1, <2>7, <3>1, <3>2
  <2>14. \A m \in free' \cup out' : next'[m] = Null /\ m \notin Loose'
    <3>1. \A m \in free \cup out : m \in Nodes /\ next[m] = Null
      BY <1>1, Roots
    <3>2. \A m \in free \cup out : (next[a] # Null => m # next[a]) /\ (next[b] # Null => m # next[b])
      BY <2>4 DEF InList, Spare
    <3> QED
      BY <2>1, <2>6, <2>7, <3>1, <3>2
  <2> QED
    BY <2>1, <2>5, <2>8, <2>9, <2>10, <2>11, <2>12, <2>13, <2>14, Assembled
<1> QED
  BY <1>2, <1>3, <1>a, <1>b

LEMMA MergeLoopKeeps ==
    ASSUME HeapInv, MergeLoop
    PROVE  HeapInv'
<1>1. /\ pc = "mergeLoop" /\ p \in Nodes /\ q \in Nodes /\ p # q
      /\ Loose = {p, q} /\ Whole = Lists /\ arg.l \in Lists /\ InList(r) /\ next[r] = Null
  BY DEF MergeLoop, Loose, Whole, HeapInv, ArgInv, LocalInv, TypeOK, Ptr
<1>2. /\ pc' = "mergeLoop" /\ UNCHANGED <<arg, data, free, out, head, i>>
  BY DEF MergeLoop, Goto
<1>3. PICK n \in {p, q}, o \in {p, q} :
         /\ n # o /\ r' = n /\ next' = [next EXCEPT ![r] = n, ![n] = Null]
         /\ \/ p' = next[n] /\ q' = o
            \/ p' = o /\ q' = next[n]
  BY <1>1 DEF MergeLoop
<1>4. n \in Nodes /\ o \in Nodes /\ Loose = {n, o}
  BY <1>1, <1>3
<1>5. PICK C \in SUBSET Nodes : Rest(C)
  BY <1>1 DEF HeapInv, LocalInv
<1>6. /\ n \in C /\ o \in C /\ r \notin C
      /\ \A m \in C : next[m] \in C \cup {Null}
  BY <1>4, <1>5 DEF Rest
<1>7. /\ n \notin Pointed(next) /\ o \notin Pointed(next)
      /\ InList(n) /\ InList(o) /\ r \in Nodes
      /\ \A m \in Nodes : next[m] # n /\ next[m] # o
      /\ \A l \in Lists : head[l] # n /\ head[l] # o
  <2>1. n \notin free \cup out /\ o \notin free \cup out
    BY <1>1, <1>4, Roots
  <2> QED
    BY <1>1, <1>4, <2>1, Roots DEF InList, Spare
<1>8. /\ next[n] \in Ptr
      /\ next[n] # Null => next[n] \in Pointed(next) /\ InList(next[n]) /\ next[n] \in C
  BY <1>1, <1>4, <1>6, Roots
<1>9. Chains(next') /\ Pointed(next') = (Pointed(next) \cup {n}) \ {next[n]}
  <2>1. Chains(next) /\ next \in [Nodes -> Ptr]
    BY DEF HeapInv, Chains
  <2>2. PICK x \in Nodes : x = r /\ x # n
    BY <1>6, <1>7
  <2>3. PICK f : f = next'
    OBVIOUS
  <2>4. f = [next EXCEPT ![n] = next[x], ![x] = n]
    BY <1>1, <1>3, <1>4, <2>1, <2>2, <2>3
  <2>5. Chains(f) /\ Pointed(f) = (Pointed(next) \cup {n}) \ {next[n]}
    BY <1>4, <1>7, <2>1, <2>2, <2>4, PutBehind
  <2> QED
    BY <2>3, <2>5
<1>10. next'[n] = Null /\ \A m \in Nodes \ {n, r} : next'[m] = next[m]
  <2>1. next \in [Nodes -> Ptr]
    BY DEF HeapInv, TypeOK
  <2> QED
    BY <1>3, <1>4, <1>7, <2>1
<1>11. Loose' = {next[n], o} \ {Null} /\ Whole' = Lists
  BY <1>2, <1>3 DEF Loose, Whole
<1>12. Here'
  BY <1>2, <1>3, <1>4, <1>8 DEF Here, HeapInv, TypeOK, Ptr
<1>13. ArgInv'
  BY <1>1, <1>2 DEF HeapInv, ArgInv, Pcs
<1>14. LocalInv'
  <2>1. PICK D \in SUBSET Nodes : D = C \ {n}
    BY <1>5
  <2>2. \A m \in D : next'[m] \in D \cup {Null}
    BY <1>6, <1>7, <1>10, <2>1
  <2>3. Loose' \subseteq D /\ r' \notin D
    BY <1>3, <1>6, <1>7, <1>8, <1>11, <2>1
  <2>4. Rest(D)'
    BY <2>2, <2>3 DEF Rest
  <2>5. InList(n)' /\ (p' = q' => p' = Null)
    BY <1>2, <1>3, <1>4, <1>7 DEF InList, Spare
  <2>6. InList(r)' /\ next'[r'] = Null
    BY <1>3, <1>10, <2>5 DEF InList, Spare
  <2>7. \E E \in SUBSET Nodes : Rest(E)'
    BY <2>4
  <2> QED
    BY <1>2, <2>5, <2>6, <2>7 DEF LocalInv
<1>15. /\ free' \subseteq Nodes /\ out' \subseteq Nodes /\ head' \in [Lists -> Ptr]
       /\ free' \cap out' = {}
  BY <1>1, <1>2, Roots
<1>16. \A m \in Nodes : m \notin Pointed(next')
          <=> m \in free' \/ m \in out' \/ m \in Loose' \/ \E l \in Whole' : head'[l] = m
  <2>1. \A m \in Nodes : m \notin Pointed(next)
           <=> m \in free \/ m \in out \/ m \in {n, o} \/ \E l \in Lists : head[l] = m
    BY <1>1, <1>4, Roots
  <2>2. n \notin free /\ n \notin out /\ next[n] # n /\ \A m \in Nodes : m # Null
    BY <1>4, <1>7, ListAssumption DEF InList, Spare
  <2> QED
    BY <1>2, <1>3, <1>4, <1>7, <1>8, <1>9, <1>11, <2>1, <2>2
<1>17. \A l \in Whole' :
          /\ head'[l] \notin free' /\ head'[l] \notin out' /\ head'[l] \notin Loose'
          /\ \A m \in Whole' : head'[l] = head'[m] /\ head'[l] # Null => l = m
  <2>1. \A l \in Lists : head[l] # Null => head[l] # next[n]
    <3> SUFFICES ASSUME NEW l \in Lists, head[l] # Null PROVE head[l] # next[n]
      OBVIOUS
    <3>1. head[l] \notin Pointed(next)
      BY <1>1, HeadOf
    <3> QED
      BY <1>8, <3>1
  <2>2. \A l \in Lists : head[l] \notin free /\ head[l] \notin out
           /\ \A m \in Lists : head[l] = head[m] /\ head[l] # Null => l = m
    BY <1>1, Roots
  <2> QED
    BY <1>2, <1>7, <1>11, <2>1, <2>2
<1>18. \A m \in free' \cup out' : next'[m] = Null /\ m \notin Loose'
  <2>1. \A m \in free \cup out : m \in Nodes /\ next[m] = Null
    BY <1>1, Roots
  <2>2. \A m \in free \cup out : m # r /\ m # o /\ (next[n] # Null => m # next[n])
    BY <1>1, <1>7, <1>8 DEF InList, Spare
  <2> QED
    BY <1>2, <1>10, <1>11, <2>1, <2>2
<1> QED
  BY <1>9, <1>12, <1>13, <1>14, <1>15, <1>16, <1>17, <1>18, Assembled

LEMMA MergeEndKeeps ==
    ASSUME HeapInv, MergeEnd
    PROVE  HeapInv'
<1>1. /\ pc = "mergeLoop" /\ Whole = Lists /\ arg.l \in Lists /\ InList(r) /\ next[r] = Null
      /\ p \in Ptr /\ q \in Ptr /\ Loose = {p, q} \ {Null} /\ (p = Null \/ q = Null)
      /\ next \in [Nodes -> Ptr]
  BY DEF MergeEnd, Loose, Whole, HeapInv, ArgInv, LocalInv, TypeOK
<1>2. PICK y \in Ptr : y = IF p = Null THEN q ELSE p
  BY <1>1
<1>3. /\ next' = [next EXCEPT ![r] = y] /\ Return("merge", 0, <<>>)
      /\ UNCHANGED <<data, free, out, head>>
  BY <1>2 DEF MergeEnd
<1>4. /\ Loose' = {} /\ Whole' = Lists
      /\ ArgInv' /\ LocalInv' /\ {p, q, r}' \subseteq Ptr /\ i' \in Int
  BY <1>3, Returned
<1>5. Here'
  BY <1>3, <1>4 DEF Here, HeapInv, TypeOK
<1>6. CASE y = Null
  <2>1. Loose = {}
    BY <1>1, <1>2, <1>6
  <2>2. next' = next
    BY <1>1, <1>3, <1>6 DEF InList
  <2> QED
    BY <1>1, <1>3, <1>4, <1>5, <2>1, <2>2, SameChains DEF Memory
<1>7. CASE y # Null
  <2>1. y \in Nodes /\ Loose = {y} /\ r \in Nodes
    BY <1>1, <1>2, <1>7 DEF Ptr, InList
  <2>2. PICK C \in SUBSET Nodes : Rest(C)
    BY <1>1 DEF HeapInv, LocalInv
  <2>3. /\ y \in C /\ r \notin C /\ \A m \in C : next[m] \in C \cup {Null}
    BY <2>1, <2>2 DEF Rest
  <2>4. /\ y \notin Pointed(next) /\ y \notin free /\ y \notin out
        /\ \A l \in Lists : head[l] # y
    BY <1>1, <2>1, Roots
  <2>5. Chains(next') /\ Pointed(next') = Pointed(next) \cup {y}
    <3>1. Chains(next)
      BY DEF HeapInv
    <3>2. PICK x \in Nodes : x = r
      BY <2>1
    <3>3. PICK f : f = next'
      OBVIOUS
    <3>4. /\ f = [next EXCEPT ![x] = y] /\ next[x] = Null /\ x \notin C
      BY <1>1, <1>3, <2>3, <3>2, <3>3
    <3>5. Chains(f) /\ Pointed(f) = Pointed(next) \cup {y}
      BY <2>1, <2>2, <2>3, <2>4, <3>1, <3>4, Joined
    <3> QED
      BY <3>3, <3>5
  <2>6. \A m \in Nodes \ {r} : next'[m] = next[m]
    BY <1>1, <1>3
  <2>7. /\ free' \subseteq Nodes /\ out' \subseteq Nodes /\ head' \in [Lists -> Ptr]
        /\ free' \cap out' = {}
    BY <1>1, <1>3, Roots
  <2>8. \A m \in Nodes : m \notin Pointed(next')
           <=> m \in free' \/ m \in out' \/ m \in Loose' \/ \E l \in Whole' : head'[l] = m
    <3>1. \A m \in Nodes : m \notin Pointed(next)
             <=> m \in free \/ m \in out \/ m = y \/ \E l \in Lists : head[l] = m
      BY <1>1, <2>1, Roots
    <3> QED
      BY <1>3, <1>4, <2>4, <2>5, <3>1
  <2>9. \A l \in Whole' :
          /\ head'[l] \notin free' /\ head'[l] \notin out' /\ head'[l] \notin Loose'
          /\ \A m \in Whole' : head'[l] = head'[m] /\ head'[l] # Null => l = m
    BY <1>1, <1>3, <1>4, Roots
  <2>10. \A m \in free' \cup out' : next'[m] = Null /\ m \notin Loose'
    <3>1. \A m \in free \cup out : m \in Nodes /\ next[m] = Null
      BY <1>1, Roots
    <3>2. \A m \in free \cup out : m # r
      BY <1>1 DEF InList, Spare
    <3> QED
      BY <1>3, <1>4, <2>6, <3>1, <3>2
  <2> QED
    BY <1>4, <1>5, <2>5, <2>7, <2>8, <2>9, <2>10, Assembled
<1> QED
  BY <1>6, <1>7
-----------------------------------------------------------------------------
(* Every step keeps the invariant.                                         *)
LEMMA InitGood == Init => HeapInv
<1> SUFFICES ASSUME Init PROVE HeapInv
  OBVIOUS
<1>1. /\ next = [n \in Nodes |-> Null] /\ data = [n \in Nodes |-> 0] /\ free = Nodes /\ out = {}
      /\ head = [l \in Lists |-> Null] /\ pc = "idle" /\ arg = Unused
      /\ p = Null /\ q = Null /\ r = Null /\ i = 0
  BY DEF Init
<1>2. TypeOK
  BY <1>1 DEF TypeOK, Ptr
<1>3. Chains(next)
  <2>1. [n \in Nodes |-> 0] \in [Nodes -> Nat]
    OBVIOUS
  <2>2. \A n \in Nodes : next[n] = Null
    BY <1>1
  <2>3. OnePred(next) /\ Ranked(next)
    BY <2>1, <2>2 DEF OnePred, Ranked
  <2> QED
    BY <1>1, <2>3 DEF Chains, Ptr
<1>4. ArgInv /\ LocalInv
  BY <1>1 DEF ArgInv, LocalInv, Pcs
<1>5. Loose = {} /\ Whole = Lists /\ Pointed(next) = {}
  BY <1>1 DEF Loose, Whole, Pointed
<1>6. RootInv /\ ApartInv
  BY <1>1, <1>5, ListAssumption DEF RootInv, ApartInv, Spare
<1> QED
  BY <1>2, <1>3, <1>4, <1>6 DEF HeapInv

LEMMA StepKeeps ==
    ASSUME HeapInv, Step
    PROVE  HeapInv'
<1>1. CASE Create
  BY <1>1, CreateKeeps
<1>2. CASE Tail1
  BY <1>2, Tail1Keeps
<1>3. CASE TailWalk
  BY <1>3, TailWalkKeeps
<1>4. CASE GetBefore("insert", "insertWalk") \/ GetBefore("delete", "deleteWalk")
  BY <1>4, GetBeforeKeeps
<1>5. CASE Walk("insert", "insertWalk") \/ Walk("delete", "deleteWalk")
  BY <1>5, WalkKeeps
<1>6. CASE Insert
  BY <1>6, InsertKeeps
<1>7. CASE Delete
  BY <1>7, DeleteKeeps
<1>8. CASE Pop1
  BY <1>8, Pop1Keeps
<1>9. CASE PopWalk
  BY <1>9, PopWalkKeeps
<1>10. CASE Free1
  BY <1>10, Free1Keeps
<1>11. CASE FreeLoop
  BY <1>11, FreeLoopKeeps
<1>12. CASE Reverse1
  BY <1>12, Reverse1Keeps
<1>13. CASE ReverseLoop
  BY <1>13, ReverseLoopKeeps
<1>14. CASE Merge1
  BY <1>14, Merge1Keeps
<1>15. CASE MergeLoop
  BY <1>15, MergeLoopKeeps
<1>16. CASE MergeEnd
  BY <1>16, MergeEndKeeps
<1>17. CASE AddMax1
  BY <1>17, AddMax1Keeps
<1>18. CASE AddMaxLoop
  BY <1>18, AddMaxLoopKeeps
<1> QED
  BY <1>1, <1>2, <1>3, <1>4, <1>5, <1>6, <1>7, <1>8, <1>9, <1>10, <1>11, <1>12, <1>13, <1>14,
     <1>15, <1>16, <1>17, <1>18 DEF Step

LEMMA NextGood == HeapInv /\ [Next]_vars => HeapInv'
<1> SUFFICES ASSUME HeapInv, [Next]_vars PROVE HeapInv'
  OBVIOUS
<1>1. CASE Call
  BY <1>1, CallKeeps
<1>2. CASE Step
  BY <1>2, StepKeeps
<1>3. ASSUME NEW n \in Nodes, Release(n) PROVE HeapInv'
  BY <1>3, ReleaseKeeps
<1>4. CASE UNCHANGED vars
  <2>1. UNCHANGED <<next, data, free, out, head, pc, arg, p, q, r, i>>
    BY <1>4 DEF vars, memory, locals
  <2>2. TypeOK' /\ ArgInv'
    BY <2>1 DEF HeapInv, TypeOK, ArgInv
  <2>3. Chains(next)'
    BY <2>1 DEF HeapInv, Chains, OnePred, Ranked
  <2>4. Pointed(next)' = Pointed(next) /\ Loose' = Loose /\ Whole' = Whole /\ Spare' = Spare
    BY <2>1 DEF Pointed, Loose, Whole, Spare
  <2>5. RootInv' /\ ApartInv'
    BY <2>1, <2>4 DEF HeapInv, RootInv, ApartInv
  <2>6. LocalInv'
    BY <2>1, <2>4 DEF HeapInv, LocalInv, Rest, InList
  <2> QED
    BY <2>2, <2>3, <2>5, <2>6 DEF HeapInv
<1> QED
  BY <1>1, <1>2, <1>3, <1>4 DEF Next

LEMMA WalksEnd ==
    ASSUME HeapInv
    PROVE  NoCycle
<1>1. Chains(next) /\ {p, q, r} \subseteq Ptr /\ \A l \in Lists : head[l] \in Ptr
  BY DEF HeapInv, TypeOK
<1>2. \A n \in {head[l] : l \in Lists} \cup {p, q, r} : n \in Ptr
  BY <1>1
<1> QED
  BY <1>1, <1>2, WalkEnds DEF NoCycle

(* HeapOK: whatever calls the program makes, in whatever order, every      *)
(* pointer of linkList.c keeps its type, no node is lost, shared or still  *)
(* linked when it is freed, and every walk a loop makes comes to its end.  *)
THEOREM HeapCorrect == Spec => []HeapOK
<1>1. HeapInv => HeapOK
  BY NothingLost, WalksEnd DEF HeapInv, HeapOK
<1> QED
  BY <1>1, InitGood, NextGood, PTL DEF Spec
=============================================================================
