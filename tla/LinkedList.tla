----------------------------- MODULE LinkedList -----------------------------
(***************************************************************************)
(* The singly linked lists of pipe/linkList.c, pointer by pointer.  A list *)
(* is a head node, whose data nobody looks at, and its successors.  The    *)
(* program makes one call at a time; each round of a loop is a step.       *)
(*                                                                         *)
(* list_show and listEmpty change nothing and are left out; so is the call *)
(* of list_merge with twice the same list.                                 *)
(***************************************************************************)
EXTENDS Integers, Sequences, FiniteSets

CONSTANTS Lists,      \* the variables of the program that hold a linkList
          Nodes,      \* the memory malloc hands out, a node at a time
          Null,
          Values,     \* the values of data
          MaxPos      \* bound: callers name the positions -1 .. MaxPos

ASSUME ListAssumption ==
    /\ IsFiniteSet(Nodes) /\ Null \notin Nodes
    /\ Values \subseteq Int /\ MaxPos \in Nat

VARIABLES
    next, data,   \* the two fields of each node
    free,         \* the nodes malloc may return
    out,          \* the nodes list_poo has returned to its caller
    head,         \* the linkList each program variable holds
    pc,           \* which call is under way, and where in it
    arg,          \* its name and its arguments
    p, q, r, i,   \* its local variables; i is also the local sum
    before,       \* history: the lists when the call began
    result        \* what the last call returned

memory == <<next, data, free, out, head>>
locals == <<p, q, r, i>>
vars == <<memory, pc, arg, locals, before, result>>

Positions == -1 .. MaxPos
Ptr == Nodes \cup {Null}
Unused == [op |-> "none", l |-> Null, m |-> Null, pos |-> 0, v |-> 0]

(* The node k places behind node n or the head of list l, if there is one, *)
(* and what l contains.                                                    *)
From(n) ==
    LET node[k \in 0 .. Cardinality(Nodes)] ==
            IF k = 0 THEN n
            ELSE IF node[k - 1] = Null THEN Null ELSE next[node[k - 1]]
    IN  node
At(l) == From(head[l])
Places(l) == {k \in 1 .. Cardinality(Nodes) : At(l)[k] # Null}
Contents(l) == [k \in 1 .. Cardinality(Places(l)) |-> data[At(l)[k]]]
Content == [l \in Lists |-> Contents(l)]
Exists == {l \in Lists : head[l] # Null}
-----------------------------------------------------------------------------
Init ==
    /\ next = [n \in Nodes |-> Null] /\ data = [n \in Nodes |-> 0]
    /\ free = Nodes /\ out = {}
    /\ head = [l \in Lists |-> Null]
    /\ pc = "idle" /\ arg = Unused
    /\ p = Null /\ q = Null /\ r = Null /\ i = 0
    /\ before = [exists |-> {}, content |-> [l \in Lists |-> <<>>]]
    /\ result = [op |-> "none", code |-> 0, value |-> <<>>]

(* The program calls op with arguments a.                                  *)
Begin(op, a) ==
    /\ pc = "idle"
    /\ pc' = op
    /\ arg' = [a EXCEPT !.op = op]
    /\ before' = [exists |-> Exists, content |-> Content]
    /\ result' = [op |-> "pending", code |-> 0, value |-> <<>>]
    /\ UNCHANGED <<memory, locals>>

(* The call returns.                                                       *)
Return(op, code, value) ==
    /\ pc' = "idle"
    /\ arg' = Unused
    /\ p' = Null /\ q' = Null /\ r' = Null /\ i' = 0
    /\ before' = [exists |-> {}, content |-> [l \in Lists |-> <<>>]]
    /\ result' = [op |-> op, code |-> code, value |-> value]

Fail(op) == Return(op, -1, <<>>) /\ UNCHANGED memory
Goto(label) == pc' = label /\ UNCHANGED <<arg, before, result>>

(* listCreate, with the fields its caller sets next.  malloc gives any     *)
(* free node and fails if there is none.                                   *)
Malloc(n, v) ==
    /\ n \in free
    /\ free' = free \ {n}
    /\ data' = [data EXCEPT ![n] = v]
-----------------------------------------------------------------------------
CallCreate(l) == head[l] = Null /\ Begin("create", [Unused EXCEPT !.l = l])

Create ==
    /\ pc = "create"
    /\ IF free = {} THEN Fail("create")
       ELSE /\ \E n \in free : /\ Malloc(n, 0)
                               /\ head' = [head EXCEPT ![arg.l] = n]
            /\ Return("create", 0, <<>>)
            /\ UNCHANGED <<next, out>>
-----------------------------------------------------------------------------
(* list_tail_insert: the new node first, then the walk to the last one.    *)
CallTail(l, v) == Begin("tail", [Unused EXCEPT !.l = l, !.v = v])

Tail1 ==
    /\ pc = "tail"
    /\ IF head[arg.l] = Null \/ free = {} THEN Fail("tail")
       ELSE /\ \E n \in free : Malloc(n, arg.v) /\ p' = n
            /\ UNCHANGED next
            /\ q' = head[arg.l]
            /\ Goto("tailWalk")
            /\ UNCHANGED <<out, head, r, i>>

TailWalk ==
    /\ pc = "tailWalk"
    /\ IF next[q] # Null
       THEN q' = next[q] /\ Goto("tailWalk") /\ UNCHANGED <<memory, p, r, i>>
       ELSE /\ next' = [next EXCEPT ![q] = p]
            /\ Return("tail", 0, <<>>)
            /\ UNCHANGED <<data, free, out, head>>
-----------------------------------------------------------------------------
(* list_insert and list_delete walk to the node before the position with   *)
(* list_get_before(H, pos - 1).                                            *)
CallInsert(l, pos, v) ==
    Begin("insert", [Unused EXCEPT !.l = l, !.pos = pos, !.v = v])
CallDelete(l, pos) == Begin("delete", [Unused EXCEPT !.l = l, !.pos = pos])

GetBefore(op, walk) ==
    /\ pc = op
    /\ IF head[arg.l] = Null THEN Fail(op)
       ELSE /\ p' = head[arg.l]
            /\ i' = -1
            /\ Goto(walk)
            /\ UNCHANGED <<memory, q, r>>

(* Variant: goes on to the position itself.                                *)
WalkFar(op, walk) ==
    /\ pc = walk
    /\ i < arg.pos
    /\ IF next[p] = Null THEN Fail(op)
       ELSE p' = next[p] /\ i' = i + 1 /\ Goto(walk) /\ UNCHANGED <<memory, q, r>>

Walk(op, walk) ==
    /\ pc = walk
    /\ i < arg.pos - 1
    /\ IF next[p] = Null THEN Fail(op)
       ELSE p' = next[p] /\ i' = i + 1 /\ Goto(walk) /\ UNCHANGED <<memory, q, r>>

Insert ==
    /\ pc = "insertWalk"
    /\ i >= arg.pos - 1
    /\ IF free = {} THEN Fail("insert")
       ELSE /\ \E n \in free : /\ Malloc(n, arg.v)
                               /\ next' = [next EXCEPT ![n] = next[p], ![p] = n]
            /\ Return("insert", 0, <<>>)
            /\ UNCHANGED <<out, head>>

Delete ==
    /\ pc = "deleteWalk"
    /\ i >= arg.pos - 1
    /\ IF next[p] = Null THEN Fail("delete")
       ELSE /\ next' = [next EXCEPT ![p] = next[next[p]], ![next[p]] = Null]
            /\ data' = [data EXCEPT ![next[p]] = 0]
            /\ free' = free \cup {next[p]}
            /\ Return("delete", 0, <<>>)
            /\ UNCHANGED <<out, head>>
-----------------------------------------------------------------------------
(* list_poo: p is P, r is the node before it.                              *)
CallPop(l) == Begin("pop", [Unused EXCEPT !.l = l])

Pop1 ==
    /\ pc = "pop"
    /\ IF head[arg.l] = Null \/ next[head[arg.l]] = Null THEN Fail("pop")
       ELSE p' = head[arg.l] /\ Goto("popWalk") /\ UNCHANGED <<memory, q, r, i>>

PopWalk ==
    /\ pc = "popWalk"
    /\ LET P == next[p]
       IN IF next[P] # Null
          THEN p' = P /\ Goto("popWalk") /\ UNCHANGED <<memory, q, r, i>>
          ELSE /\ next' = [next EXCEPT ![p] = Null]
               /\ out' = out \cup {P}
               /\ Return("pop", 0, <<data[P]>>)
               /\ UNCHANGED <<data, free, head>>

(* The caller of list_poo frees the node it got, lock.c:118 and 186.       *)
Release(n) ==
    /\ n \in out /\ pc = "idle"
    /\ out' = out \ {n}
    /\ free' = free \cup {n}
    /\ data' = [data EXCEPT ![n] = 0]
    /\ UNCHANGED <<next, head, pc, arg, locals, before, result>>
-----------------------------------------------------------------------------
(* list_free frees a node and reads its next after that; what it finds is  *)
(* the old pointer or, if free has used the memory, anything.              *)
CallFree(l) == head[l] # Null /\ Begin("free", [Unused EXCEPT !.l = l])

Free1 ==
    /\ pc = "free"
    /\ p' = head[arg.l]
    /\ Goto("freeLoop")
    /\ UNCHANGED <<memory, q, r, i>>

FreeLoop ==
    /\ pc = "freeLoop"
    /\ IF p = Null
       THEN /\ head' = [head EXCEPT ![arg.l] = Null]
            /\ Return("free", 0, <<>>)
            /\ UNCHANGED <<next, data, free, out>>
       ELSE /\ free' = free \cup {p}
            /\ data' = [data EXCEPT ![p] = 0]
            /\ next' = [next EXCEPT ![p] = Null]
            /\ \/ p' = next[p] /\ Goto("freeLoop")
               \/ p' = Null /\ Goto("crashed")
            /\ UNCHANGED <<out, head, q, r, i>>
-----------------------------------------------------------------------------
(* list_reverse: q is Q.  Variant: does not cut the list after its first   *)
(* node.                                                                   *)
CallReverse(l) == Begin("reverse", [Unused EXCEPT !.l = l])

Reverse1Uncut ==
    /\ pc = "reverse"
    /\ LET H == head[arg.l]
       IN IF H = Null THEN Fail("reverse")
          ELSE IF next[H] = Null \/ next[next[H]] = Null
          THEN Return("reverse", 0, <<>>) /\ UNCHANGED memory
          ELSE /\ p' = next[next[H]]
               /\ Goto("reverseLoop")
               /\ UNCHANGED <<memory, q, r, i>>

Reverse1 ==
    /\ pc = "reverse"
    /\ LET H == head[arg.l]
       IN IF H = Null THEN Fail("reverse")
          ELSE IF next[H] = Null \/ next[next[H]] = Null
          THEN Return("reverse", 0, <<>>) /\ UNCHANGED memory
          ELSE /\ p' = next[next[H]]
               /\ next' = [next EXCEPT ![next[H]] = Null]
               /\ Goto("reverseLoop")
               /\ UNCHANGED <<data, free, out, head, q, r, i>>

ReverseLoop ==
    /\ pc = "reverseLoop"
    /\ LET H == head[arg.l]
       IN IF p = Null
          THEN Return("reverse", 0, <<>>) /\ UNCHANGED memory
          ELSE /\ p' = next[p]
               /\ next' = [next EXCEPT ![p] = next[H], ![H] = p]
               /\ Goto("reverseLoop")
               /\ UNCHANGED <<data, free, out, head, q, r, i>>
-----------------------------------------------------------------------------
(* list_merge: p and q are what is left of the two lists, r the last node  *)
(* of the merged one.                                                      *)
CallMerge(l, m) == l # m /\ Begin("merge", [Unused EXCEPT !.l = l, !.m = m])

Merge1 ==
    /\ pc = "merge"
    /\ IF head[arg.l] = Null \/ head[arg.m] = Null THEN Fail("merge")
       ELSE /\ p' = next[head[arg.l]]
            /\ q' = next[head[arg.m]]
            /\ r' = head[arg.l]
            /\ next' = [next EXCEPT ![head[arg.l]] = Null, ![head[arg.m]] = Null]
            /\ Goto("mergeLoop")
            /\ UNCHANGED <<data, free, out, head, i>>

MergeLoop ==
    /\ pc = "mergeLoop"
    /\ p # Null /\ q # Null
    /\ LET n == IF data[p] <= data[q] THEN p ELSE q
       IN  /\ next' = [next EXCEPT ![r] = n, ![n] = Null]
           /\ p' = IF n = p THEN next[p] ELSE p
           /\ q' = IF n = q THEN next[q] ELSE q
           /\ r' = n
    /\ Goto("mergeLoop")
    /\ UNCHANGED <<data, free, out, head, i>>

MergeEnd ==
    /\ pc = "mergeLoop"
    /\ p = Null \/ q = Null
    /\ next' = [next EXCEPT ![r] = IF p = Null THEN q ELSE p]
    /\ Return("merge", 0, <<>>)
    /\ UNCHANGED <<data, free, out, head>>
-----------------------------------------------------------------------------
(* list_add_max: q and p are neighbours, r the best so far, i their sum.   *)
CallAddMax(l) == Begin("max", [Unused EXCEPT !.l = l])

AddMax1 ==
    /\ pc = "max"
    /\ IF head[arg.l] = Null THEN Fail("max")
       ELSE IF Cardinality(Places(arg.l)) < 3
       THEN Return("max", 0, <<>>) /\ UNCHANGED memory
       ELSE /\ q' = At(arg.l)[1] /\ p' = At(arg.l)[2] /\ r' = q'
            /\ i' = data[q'] + data[p']
            /\ Goto("maxLoop")
            /\ UNCHANGED memory

AddMaxLoop ==
    /\ pc = "maxLoop"
    /\ IF next[p] = Null
       THEN Return("max", 0, <<CHOOSE k \in Places(arg.l) : At(arg.l)[k] = r, i>>)
       ELSE /\ p' = next[p] /\ q' = next[q]
            /\ IF i < data[q'] + data[p']
               THEN i' = data[q'] + data[p'] /\ r' = q'
               ELSE UNCHANGED <<i, r>>
            /\ Goto("maxLoop")
    /\ UNCHANGED memory
-----------------------------------------------------------------------------
Call == \E l \in Lists :
    \/ CallCreate(l) \/ CallPop(l) \/ CallFree(l) \/ CallReverse(l) \/ CallAddMax(l)
    \/ \E v \in Values : CallTail(l, v)
    \/ \E v \in Values, pos \in Positions : CallInsert(l, pos, v)
    \/ \E pos \in Positions : CallDelete(l, pos)
    \/ \E m \in Lists : CallMerge(l, m)

Step == \/ Create \/ Tail1 \/ TailWalk
        \/ GetBefore("insert", "insertWalk") \/ Walk("insert", "insertWalk") \/ Insert
        \/ GetBefore("delete", "deleteWalk") \/ Walk("delete", "deleteWalk") \/ Delete
        \/ Pop1 \/ PopWalk \/ Free1 \/ FreeLoop \/ Reverse1 \/ ReverseLoop
        \/ Merge1 \/ MergeLoop \/ MergeEnd \/ AddMax1 \/ AddMaxLoop

Next == Call \/ Step \/ \E n \in Nodes : Release(n)

Spec == Init /\ [][Next]_vars
-----------------------------------------------------------------------------
(* Every variable keeps its type; no call follows the null pointer, whose  *)
(* fields nobody has.                                                      *)
TypeOK ==
    /\ next \in [Nodes -> Ptr] /\ data \in [Nodes -> Values \cup {0}]
    /\ free \subseteq Nodes /\ out \subseteq Nodes
    /\ head \in [Lists -> Ptr]
    /\ {p, q, r} \subseteq Ptr /\ i \in Int

(* Between two calls every node that is not free belongs to one list, at   *)
(* one place of it, or to the caller of list_poo: no node is lost, shared  *)
(* or still linked when it is freed.                                       *)
NodesOf(l) == {At(l)[k] : k \in 0 .. Cardinality(Nodes)} \ {Null}
NoLeak ==
    pc = "idle" =>
        /\ Nodes = free \cup out \cup UNION {NodesOf(l) : l \in Lists}
        /\ free \cap out = {}
        /\ \A l \in Lists :
              /\ NodesOf(l) \cap (free \cup out) = {}
              /\ \A m \in Lists \ {l} : NodesOf(l) \cap NodesOf(m) = {}

(* Each call does to the sequence of values of the list it was given what  *)
(* its name says of the position and the value it was given; it fails only *)
(* if there is no such list or position, or no memory left at all.         *)
Abstract == INSTANCE ListSpec WITH
    Capacity <- Cardinality(Nodes), NoCall <- Unused,
    exists   <- IF pc = "idle" THEN Exists ELSE before.exists,
    content  <- IF pc = "idle" THEN Content ELSE before.content,
    held     <- Cardinality(out),
    call     <- arg
ImplementsLists == Abstract!Spec

(* No loop goes round for ever: at every moment a walk along next ends,    *)
(* from the head of a list as from the nodes the loops hold on to.         *)
NoCycle == \A n \in {head[l] : l \in Lists} \cup {p, q, r} :
    From(n)[Cardinality(Nodes)] = Null

(* The state of the heap at every moment and between two calls.            *)
HeapOK == TypeOK /\ NoLeak /\ NoCycle
=============================================================================
