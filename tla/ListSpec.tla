------------------------------ MODULE ListSpec ------------------------------
(***************************************************************************)
(* What the list library promises its callers: a list is a sequence of     *)
(* values, and a call does to the sequence what its name says, whatever    *)
(* nodes and pointers it is made of.  A call begins with its arguments,    *)
(* and later returns.                                                      *)
(***************************************************************************)
EXTENDS Integers, Sequences, FiniteSets

CONSTANTS Lists,     \* the lists of the program
          Values,    \* what they hold
          Positions, \* the positions callers name; the first element is at 0
          Capacity,  \* how many heads and elements the memory has room for
          NoCall     \* a record with the fields op, l, m, pos and v

VARIABLES exists,  \* the lists that have been created and not freed
          content, \* the values of each list, <<>> if it does not exist
          held,    \* how many elements Pop has returned to callers who keep them
          call,    \* the call under way with its arguments, or NoCall
          result   \* what the last call returned, Pending during a call

listVars == <<exists, content, held, call, result>>

(* A call names a list, and where it needs them a second list, a position  *)
(* or a value.                                                             *)
Calls ==
    {[NoCall EXCEPT !.op = op, !.l = l] :
        op \in {"create", "free", "pop", "reverse", "max"}, l \in Lists}
    \cup {[NoCall EXCEPT !.op = "tail", !.l = l, !.v = v] : l \in Lists, v \in Values}
    \cup {[NoCall EXCEPT !.op = "insert", !.l = l, !.pos = pos, !.v = v] :
             l \in Lists, pos \in Positions, v \in Values}
    \cup {[NoCall EXCEPT !.op = "delete", !.l = l, !.pos = pos] :
             l \in Lists, pos \in Positions}
    \cup {[NoCall EXCEPT !.op = "merge", !.l = l, !.m = m] : l \in Lists, m \in Lists}

Pending == [op |-> "pending", code |-> 0, value |-> <<>>]
Returns(code, value) ==
    /\ result' = [op |-> call.op, code |-> code, value |-> value]
    /\ call' = NoCall

(* The memory in use, one unit for each head and each element.             *)
Used == held + Cardinality(UNION {{l} \X (0 .. Len(content[l])) : l \in exists})

AtLeast0(i) == IF i < 0 THEN 0 ELSE i
Sorted(s) == \A i, j \in 1 .. Len(s) : i < j => s[i] <= s[j]
Reversed(s) == [i \in 1 .. Len(s) |-> s[Len(s) + 1 - i]]
Without(s, i) == SubSeq(s, 1, i - 1) \o SubSeq(s, i + 1, Len(s))
With(s, i, v) == SubSeq(s, 1, i - 1) \o <<v>> \o SubSeq(s, i, Len(s))

(* s is a merge of a and b: each of them in its order, nothing else.       *)
Interleaves(s, a, b) ==
    /\ Len(s) = Len(a) + Len(b)
    /\ \E A \in SUBSET (1 .. Len(s)) :
          /\ Cardinality(A) = Len(a)
          /\ \A i \in 1 .. Len(s) :
                LET k == Cardinality({j \in A : j <= i})
                IN  s[i] = IF i \in A THEN a[k] ELSE b[i - k]

(* The first of the neighbours with the largest sum.                       *)
IsFirstMaxPair(s, i) ==
    /\ \A j \in 1 .. Len(s) - 1 : s[j] + s[j + 1] <= s[i] + s[i + 1]
    /\ \A j \in 1 .. i - 1 : s[j] + s[j + 1] < s[i] + s[i + 1]
-----------------------------------------------------------------------------
Init ==
    /\ exists = {} /\ content = [l \in Lists |-> <<>>] /\ held = 0
    /\ call = NoCall
    /\ result = [op |-> "none", code |-> 0, value |-> <<>>]

Call ==
    /\ call = NoCall
    /\ call' \in Calls
    /\ result' = Pending
    /\ UNCHANGED <<exists, content, held>>

(* A caller frees an element that it got from Pop.                         *)
Release ==
    /\ call = NoCall
    /\ held > 0 /\ held' = held - 1
    /\ UNCHANGED <<exists, content, call, result>>

Fails == Returns(-1, <<>>) /\ UNCHANGED <<exists, content, held>>

(* A call that needs memory fails when all of it is in use.                *)
OutOfMemory ==
    /\ call.op \in {"create", "tail", "insert"}
    /\ Used = Capacity
    /\ Fails

(* A call fails when it is given a list that does not exist.               *)
NoList ==
    /\ call.op \in {"tail", "insert", "delete", "pop", "reverse", "merge", "max"}
    /\ call.l \notin exists \/ (call.op = "merge" /\ call.m \notin exists)
    /\ Fails

Becomes(l, s) == content' = [content EXCEPT ![l] = s] /\ UNCHANGED exists

Create(l) ==
    /\ call.op = "create" /\ l \notin exists
    /\ Returns(0, <<>>)
    /\ exists' = exists \cup {l}
    /\ UNCHANGED <<content, held>>

Free(l) ==
    /\ call.op = "free"
    /\ Returns(0, <<>>)
    /\ exists' = exists \ {l}
    /\ content' = [content EXCEPT ![l] = <<>>]
    /\ UNCHANGED held

TailInsert(l) ==
    /\ call.op = "tail" /\ l \in exists
    /\ Returns(0, <<>>)
    /\ Becomes(l, Append(content[l], call.v))
    /\ UNCHANGED held

(* A position before the first one counts as the first; one behind the     *)
(* last one is refused.                                                    *)
Insert(l) ==
    LET pos == AtLeast0(call.pos)
    IN  /\ call.op = "insert" /\ l \in exists
        /\ IF pos <= Len(content[l])
           THEN /\ Returns(0, <<>>)
                /\ Becomes(l, With(content[l], pos + 1, call.v))
                /\ UNCHANGED held
           ELSE Fails

Delete(l) ==
    LET pos == AtLeast0(call.pos)
    IN  /\ call.op = "delete" /\ l \in exists
        /\ IF pos < Len(content[l])
           THEN /\ Returns(0, <<>>)
                /\ Becomes(l, Without(content[l], pos + 1))
                /\ UNCHANGED held
           ELSE Fails

(* The last value comes out, or nothing of an empty list.                  *)
Pop(l) ==
    LET n == Len(content[l])
    IN  /\ call.op = "pop" /\ l \in exists
        /\ IF n > 0
           THEN /\ Returns(0, <<content[l][n]>>)
                /\ Becomes(l, SubSeq(content[l], 1, n - 1))
                /\ held' = held + 1
           ELSE Fails

Reverse(l) ==
    /\ call.op = "reverse" /\ l \in exists
    /\ Returns(0, <<>>)
    /\ Becomes(l, Reversed(content[l]))
    /\ UNCHANGED held

(* Two lists become one, sorted if both were; the other one is empty.      *)
Merge(l, m) ==
    LET s == content'[l]
    IN  /\ call.op = "merge" /\ l # m /\ {l, m} \subseteq exists
        /\ Returns(0, <<>>)
        /\ content' = [content EXCEPT ![l] = s, ![m] = <<>>]
        /\ Interleaves(s, content[l], content[m])
        /\ Sorted(content[l]) /\ Sorted(content[m]) => Sorted(s)
        /\ UNCHANGED <<exists, held>>

(* The largest sum of neighbours, and where they are; a list of less than  *)
(* three values has no answer.                                             *)
AddMax(l) ==
    /\ call.op = "max" /\ l \in exists
    /\ IF Len(content[l]) < 3
       THEN Returns(0, <<>>)
       ELSE \E i \in 1 .. Len(content[l]) - 1 :
               /\ IsFirstMaxPair(content[l], i)
               /\ Returns(0, <<i, content[l][i] + content[l][i + 1]>>)
    /\ UNCHANGED <<exists, content, held>>

(* A call has its effect on the list that it was given.                    *)
Act ==
    \/ OutOfMemory \/ NoList
    \/ Create(call.l) \/ Free(call.l) \/ TailInsert(call.l) \/ Insert(call.l)
    \/ Delete(call.l) \/ Pop(call.l) \/ Reverse(call.l) \/ Merge(call.l, call.m)
    \/ AddMax(call.l)

Next == Call \/ Release \/ (call # NoCall /\ Act)

Spec == Init /\ [][Next]_listVars
=============================================================================
