--------------------------- MODULE CondListProofs ---------------------------
(***************************************************************************)
(* What is proved of CondList, for any number of producers, consumers and  *)
(* nodes: who owns each node, and that a signal sent late loses no wake-up. *)
(***************************************************************************)
EXTENDS CondList, FiniteSetTheorems, SequenceTheorems, TLAPS

Elems(s) == {s[k] : k \in 1 .. Len(s)}
Distinct(s) == \A k, m \in 1 .. Len(s) : s[k] = s[m] => k = m

(* Appending adds one element, and keeps the elements distinct if it is a  *)
(* new one.                                                                *)
LEMMA AppendElems ==
    ASSUME NEW S, NEW s \in Seq(S), NEW e \in S
    PROVE  /\ Append(s, e) \in Seq(S)
           /\ Len(Append(s, e)) = Len(s) + 1
           /\ Elems(Append(s, e)) = Elems(s) \cup {e}
           /\ Distinct(s) /\ e \notin Elems(s) => Distinct(Append(s, e))
<1> DEFINE a == Append(s, e)
<1>1. /\ a \in Seq(S) /\ Len(a) = Len(s) + 1 /\ Len(s) \in Nat
      /\ \A k \in 1 .. Len(s) : a[k] = s[k]
      /\ a[Len(s) + 1] = e
  BY SMT
<1> HIDE DEF a
<1>2. Elems(a) = Elems(s) \cup {e}
  <2>1. ASSUME NEW x \in Elems(a) PROVE x \in Elems(s) \cup {e}
    BY <1>1, SMT DEF Elems
  <2>2. ASSUME NEW x \in Elems(s) PROVE x \in Elems(a)
    BY <1>1, SMT DEF Elems
  <2>3. e \in Elems(a)
    BY <1>1, SMT DEF Elems
  <2> QED
    BY <2>1, <2>2, <2>3
<1>3. ASSUME Distinct(s), e \notin Elems(s) PROVE Distinct(a)
  BY <1>1, <1>3, SMT DEF Distinct, Elems
<1> QED
  BY <1>1, <1>2, <1>3 DEF a

(* Dropping the last of distinct elements removes just that element.       *)
LEMMA FrontElems ==
    ASSUME NEW S, NEW s \in Seq(S), s # <<>>, Distinct(s)
    PROVE  LET f == SubSeq(s, 1, Len(s) - 1)
           IN  /\ f \in Seq(S)
               /\ Len(f) = Len(s) - 1
               /\ s[Len(s)] \in Elems(s)
               /\ Elems(f) = Elems(s) \ {s[Len(s)]}
               /\ Distinct(f)
<1> DEFINE f == SubSeq(s, 1, Len(s) - 1)
           n == Len(s)
<1>1. n \in Nat /\ n > 0
  BY EmptySeq, LenProperties, SMT
<1>2. \A k \in 1 .. n : s[k] \in S
  BY ElementOfSeq
<1>3. /\ f \in Seq(S) /\ Len(f) = n - 1
      /\ \A k \in 1 .. n - 1 : f[k] = s[k]
  <2>1. \A k \in 1 .. n - 1 : s[k] \in S
    BY <1>1, <1>2, SMT
  <2>2. /\ f \in Seq(S)
        /\ Len(f) = IF 1 <= n - 1 THEN n - 1 - 1 + 1 ELSE 0
        /\ \A k \in 1 .. n - 1 - 1 + 1 : f[k] = s[1 + k - 1]
    BY <1>1, <2>1, SubSeqProperties, SMT
  <2> HIDE DEF f, n
  <2> QED
    BY <1>1, <2>2, SMT
<1> HIDE DEF f
<1>4. s[n] \in Elems(s)
  BY <1>1, SMT DEF Elems
<1>5. Elems(f) = Elems(s) \ {s[n]}
  <2>1. ASSUME NEW x \in Elems(f) PROVE x \in Elems(s) \ {s[n]}
    BY <1>1, <1>3, SMT DEF Elems, Distinct
  <2>2. ASSUME NEW x \in Elems(s), x # s[n] PROVE x \in Elems(f)
    <3>1. PICK k \in 1 .. n : x = s[k]
      BY DEF Elems
    <3>2. k \in 1 .. n - 1
      BY <1>1, <2>2, <3>1, SMT
    <3> QED
      BY <1>3, <3>1, <3>2 DEF Elems
  <2> QED
    BY <2>1, <2>2
<1>6. Distinct(f)
  BY <1>1, <1>3, SMT DEF Distinct
<1> QED
  BY <1>3, <1>4, <1>5, <1>6 DEF f
-----------------------------------------------------------------------------
(* A consumer has a node from the time it takes it to the time it frees it. *)
HoldInv == \A t \in Consumers : value[t] # 0 <=> pc[t] = "got"

NodesInv == TypeOK /\ OneOwner /\ HoldInv

(* A consumer that pops an empty list goes back to the top; from another   *)
(* one it takes the last node.                                             *)
LEMMA PopTakes ==
    ASSUME NodesInv, NEW t \in Consumers, Pop(t)
    PROVE  \/ /\ list = <<>> /\ pc' = [pc EXCEPT ![t] = "top"]
              /\ UNCHANGED <<list, value>>
           \/ \E n \in 1 .. inserted :
                 /\ list # <<>> /\ n \in Linked
                 /\ pc' = [pc EXCEPT ![t] = "got"]
                 /\ value' = [value EXCEPT ![t] = n]
                 /\ list' \in Seq(1 .. inserted) /\ Len(list') = Len(list) - 1
                 /\ Linked' = Linked \ {n} /\ Distinct(list')
<1>1. CASE list = <<>>
  BY <1>1 DEF Pop
<1>2. CASE list # <<>>
  <2>1. list \in Seq(1 .. inserted) /\ Distinct(list)
    BY DEF NodesInv, TypeOK, OneOwner, Distinct
  <2>2. /\ list' \in Seq(1 .. inserted) /\ Len(list') = Len(list) - 1
        /\ list[Len(list)] \in Linked
        /\ Linked' = Linked \ {list[Len(list)]} /\ Distinct(list')
    <3>1. list' = SubSeq(list, 1, Len(list) - 1)
      BY <1>2 DEF Pop
    <3> QED
      BY <1>2, <2>1, <3>1, FrontElems DEF Linked, Elems
  <2>3. list[Len(list)] \in 1 .. inserted
    <3>1. Len(list) \in 1 .. Len(list)
      BY <1>2, <2>1, EmptySeq, LenProperties, SMT
    <3> QED
      BY <2>1, <3>1, ElementOfSeq
  <2> QED
    BY <1>2, <2>2, <2>3 DEF Pop
<1> QED
  BY <1>1, <1>2

(* Next_ of any pointer is NULL or a node of the list.                     *)
LEMMA NextType ==
    ASSUME NodesInv, NEW n
    PROVE  Next_(n) \in 0 .. inserted
<1>0. list \in Seq(1 .. inserted) /\ inserted \in Nat /\ Distinct(list)
  BY DEF NodesInv, TypeOK, OneOwner, Distinct
<1>1. CASE \E k \in 1 .. Len(list) - 1 : list[k] = n
  <2> DEFINE c == CHOOSE k \in 1 .. Len(list) : list[k] = n
  <2>1. PICK k \in 1 .. Len(list) - 1 : list[k] = n
    BY <1>1
  <2>2. Len(list) \in Nat
    BY <1>0, LenProperties
  <2>3. c \in 1 .. Len(list) /\ list[c] = n
    BY <2>1, <2>2, SMT
  <2>4. Next_(n) = list[c + 1]
    BY <1>1 DEF Next_
  <2> HIDE DEF c
  <2>5. c + 1 \in 1 .. Len(list)
    BY <1>0, <2>1, <2>2, <2>3, SMT DEF Distinct
  <2>6. list[c + 1] \in 1 .. inserted
    BY <1>0, <2>5, ElementOfSeq
  <2> QED
    BY <1>0, <2>4, <2>6, SMT
<1>2. CASE ~ \E k \in 1 .. Len(list) - 1 : list[k] = n
  BY <1>0, <1>2, SMT DEF Next_
<1> QED
  BY <1>1, <1>2
LEMMA NodesInvInit == Init => NodesInv
<1> SUFFICES ASSUME Init PROVE NodesInv
  OBVIOUS
<1>1. /\ list = <<>> /\ Len(list) = 0 /\ list \in Seq(1 .. inserted)
      /\ Linked = {} /\ Taken = {} /\ 1 .. inserted = {}
  BY EmptySeq, SMT DEF Init, Linked, Taken
<1>2. /\ pc \in [Threads -> ProducerPcs \cup ConsumerPcs]
      /\ \A t \in Producers : pc[t] \in ProducerPcs
      /\ \A t \in Consumers : pc[t] = "top"
  BY CondListAssumption, SMT DEF Init, Threads, ProducerPcs, ConsumerPcs
<1>3. /\ ptr \in [Producers -> 0 .. inserted]
      /\ value \in [Consumers -> 0 .. inserted]
      /\ \A t \in Consumers : value[t] = 0
  BY SMT DEF Init
<1>4. TypeOK
  <2>1. /\ \A t \in Consumers : pc[t] \in ConsumerPcs
        /\ inserted \in Nat /\ freed \subseteq 1 .. inserted /\ crashed \in BOOLEAN
    BY <1>2 DEF Init, ConsumerPcs
  <2> QED
    BY <1>1, <1>2, <1>3, <2>1 DEF TypeOK
<1>5. OneOwner
  BY <1>1, <1>3, SMT DEF Init, OneOwner
<1>6. HoldInv
  BY <1>2, <1>3, SMT DEF HoldInv
<1> QED
  BY <1>4, <1>5, <1>6 DEF NodesInv

(* Steps that leave the nodes and the consumers that hold one alone.       *)
LEMMA StillOwned ==
    ASSUME NodesInv, TypeOK', UNCHANGED <<list, inserted, value, freed>>,
           \A t \in Consumers : pc'[t] = "got" <=> pc[t] = "got"
    PROVE  NodesInv'
<1>1. OneOwner'
  BY DEF NodesInv, OneOwner, Linked, Taken
<1>2. HoldInv'
  BY DEF NodesInv, HoldInv
<1> QED
  BY <1>1, <1>2 DEF NodesInv

LEMMA InsertKeepsNodes ==
    ASSUME NodesInv, NEW t \in Producers, Insert(t)
    PROVE  NodesInv'
<1>0. TypeOK /\ OneOwner /\ HoldInv
  BY DEF NodesInv
<1>1. /\ pc' \in [Threads -> ProducerPcs \cup ConsumerPcs]
      /\ \A p \in Producers : pc'[p] \in ProducerPcs
      /\ \A c \in Consumers : pc'[c] = pc[c] /\ pc'[c] \in ConsumerPcs
  BY <1>0, CondListAssumption, SMT DEF Insert, TypeOK, Threads, ProducerPcs
<1>2. CASE UNCHANGED <<list, inserted>>
  <2>1. TypeOK'
    BY <1>0, <1>1, <1>2 DEF Insert, TypeOK
  <2> QED
    BY <1>1, <1>2, <2>1, StillOwned DEF Insert
<1>3. CASE list' = Append(list, inserted + 1) /\ inserted' = inserted + 1
  <2> DEFINE S == 1 .. inserted + 1
             n == inserted + 1
  <2>1. list \in Seq(S) /\ n \in S /\ inserted \in Nat
    <3>1. 1 .. inserted \subseteq S /\ n \in S /\ inserted \in Nat
      BY <1>0, SMT DEF TypeOK
    <3> QED
      BY <1>0, <3>1, SeqMonotonic DEF TypeOK
  <2>2. n \notin Linked /\ n \notin 1 .. inserted
    BY <1>0, <2>1, SMT DEF OneOwner
  <2>3. Distinct(list) /\ Linked = Elems(list)
    BY <1>0 DEF OneOwner, Distinct, Linked, Elems
  <2>4. list' \in Seq(S) /\ Linked' = Linked \cup {n} /\ Distinct(list')
    <3>1. Linked' = Elems(list')
      BY DEF Linked, Elems
    <3> HIDE DEF S, n
    <3>2. list' = Append(list, n)
      BY <1>3 DEF n
    <3> QED
      BY <2>1, <2>2, <2>3, <3>1, <3>2, AppendElems
  <2>5. TypeOK'
    <3>1. ptr' \in [Producers -> 0 .. inserted'] /\ value' \in [Consumers -> 0 .. inserted']
      BY <1>0, <1>3, <2>1, SMT DEF Insert, TypeOK
    <3>2. freed' \subseteq 1 .. inserted' /\ inserted' \in Nat /\ crashed' \in BOOLEAN
      BY <1>0, <1>3, <2>1, SMT DEF Insert, TypeOK
    <3> QED
      BY <1>1, <1>3, <2>4, <3>1, <3>2 DEF TypeOK
  <2>6. OneOwner'
    <3>1. Taken' = Taken /\ freed' = freed /\ value' = value
      BY DEF Insert, Taken
    <3>2. 1 .. inserted' = (1 .. inserted) \cup {n}
      BY <1>3, <2>1, SMT
    <3>3. Linked' \cup Taken' \cup freed' = 1 .. inserted'
      BY <1>0, <2>4, <3>1, <3>2 DEF OneOwner
    <3>4. n \notin Taken /\ n \notin freed
      BY <1>0, <2>2 DEF OneOwner
    <3>5. Linked' \cap Taken' = {} /\ Linked' \cap freed' = {} /\ Taken' \cap freed' = {}
      BY <1>0, <2>4, <3>1, <3>4 DEF OneOwner
    <3> QED
      BY <1>0, <2>4, <3>1, <3>3, <3>5 DEF OneOwner, Distinct
  <2>7. HoldInv'
    BY <1>0, <1>1 DEF Insert, HoldInv
  <2> QED
    BY <2>5, <2>6, <2>7 DEF NodesInv
<1> QED
  BY <1>2, <1>3 DEF Insert

LEMMA PopKeepsNodes ==
    ASSUME NodesInv, NEW t \in Consumers, pc[t] # "got", Pop(t),
           UNCHANGED <<inserted, ptr, freed, crashed>>
    PROVE  NodesInv'
<1>0. TypeOK /\ OneOwner /\ HoldInv /\ inserted \in Nat
  BY DEF NodesInv, TypeOK
<1>1. CASE list = <<>> /\ pc' = [pc EXCEPT ![t] = "top"] /\ UNCHANGED <<list, value>>
  <2>1. TypeOK'
    BY <1>0, <1>1, CondListAssumption, SMT DEF TypeOK, ConsumerPcs, ProducerPcs, Threads
  <2>2. \A c \in Consumers : pc'[c] = "got" <=> pc[c] = "got"
    BY <1>0, <1>1, SMT DEF TypeOK, Threads
  <2> QED
    BY <1>1, <2>1, <2>2, StillOwned
<1>2. ASSUME NEW n \in 1 .. inserted, n \in Linked,
             pc' = [pc EXCEPT ![t] = "got"], value' = [value EXCEPT ![t] = n],
             list' \in Seq(1 .. inserted), Linked' = Linked \ {n}, Distinct(list')
      PROVE  NodesInv'
  <2>1. TypeOK'
    <3>1. /\ pc' \in [Threads -> ProducerPcs \cup ConsumerPcs]
          /\ \A p \in Producers : pc'[p] \in ProducerPcs
          /\ \A c \in Consumers : pc'[c] \in ConsumerPcs
      BY <1>0, <1>2, CondListAssumption, SMT DEF TypeOK, ConsumerPcs, ProducerPcs, Threads
    <3>2. value' \in [Consumers -> 0 .. inserted]
      BY <1>0, <1>2, SMT DEF TypeOK
    <3> QED
      BY <1>0, <1>2, <3>1, <3>2 DEF TypeOK
  <2>2. /\ value[t] = 0 /\ n # 0 /\ value'[t] = n
        /\ \A c \in Consumers : c # t => value'[c] = value[c]
    BY <1>0, <1>2, SMT DEF HoldInv, TypeOK
  <2>3. Taken' = Taken \cup {n}
    BY <2>2, SMT DEF Taken
  <2>4. n \notin Taken /\ n \notin freed
    BY <1>0, <1>2 DEF OneOwner
  <2>5. OneOwner'
    <3>1. /\ Linked' \cup Taken' \cup freed' = 1 .. inserted'
          /\ Linked' \cap Taken' = {} /\ Linked' \cap freed' = {} /\ Taken' \cap freed' = {}
      BY <1>0, <1>2, <2>3, <2>4 DEF OneOwner
    <3>2. \A c \in Consumers : c # t => value[c] # n
      BY <2>2, <2>4 DEF Taken
    <3>3. \A c, d \in Consumers : value'[c] = value'[d] /\ value'[c] # 0 => c = d
      BY <1>0, <2>2, <3>2 DEF OneOwner
    <3> QED
      BY <1>2, <3>1, <3>3 DEF OneOwner, Distinct
  <2>6. HoldInv'
    BY <1>0, <1>2, <2>2, SMT DEF HoldInv, TypeOK, Threads
  <2> QED
    BY <2>1, <2>5, <2>6 DEF NodesInv
<1> QED
  BY <1>1, <1>2, PopTakes

LEMMA FreeKeepsNodes ==
    ASSUME NodesInv, NEW t \in Consumers, Free(t)
    PROVE  NodesInv'
<1>0. TypeOK /\ OneOwner /\ HoldInv /\ inserted \in Nat
  BY DEF NodesInv, TypeOK
<1> DEFINE n == value[t]
<1>1. n # 0 /\ n \in 1 .. inserted /\ n \in Taken /\ pc[t] = "got"
  BY <1>0, SMT DEF Free, HoldInv, TypeOK, Taken
<1>2. TypeOK'
  <2>1. /\ pc' \in [Threads -> ProducerPcs \cup ConsumerPcs]
        /\ \A p \in Producers : pc'[p] \in ProducerPcs
        /\ \A c \in Consumers : pc'[c] \in ConsumerPcs
    BY <1>0, CondListAssumption, SMT DEF Free, TypeOK, ConsumerPcs, ProducerPcs, Threads
  <2>2. value' \in [Consumers -> 0 .. inserted]
    BY <1>0, SMT DEF Free, TypeOK
  <2>3. freed' \subseteq 1 .. inserted
    BY <1>0, <1>1 DEF Free, TypeOK
  <2> QED
    BY <1>0, <2>1, <2>2, <2>3 DEF Free, TypeOK
<1>3. value'[t] = 0 /\ \A c \in Consumers : c # t => value'[c] = value[c]
  BY <1>0, SMT DEF Free, TypeOK
<1>4. Taken' = Taken \ {n}
  <2>1. \A c \in Consumers : c # t /\ value[c] # 0 => value[c] # n
    BY <1>0, <1>1 DEF OneOwner
  <2> QED
    BY <1>1, <1>3, <2>1, SMT DEF Taken
<1>5. OneOwner'
  <2>1. freed' = freed \cup {n} /\ Linked' = Linked /\ list' = list /\ inserted' = inserted
    BY DEF Free, Linked
  <2>2. /\ Linked' \cup Taken' \cup freed' = 1 .. inserted'
        /\ Linked' \cap Taken' = {} /\ Linked' \cap freed' = {} /\ Taken' \cap freed' = {}
    BY <1>0, <1>1, <1>4, <2>1 DEF OneOwner
  <2>3. \A c, d \in Consumers : value'[c] = value'[d] /\ value'[c] # 0 => c = d
    BY <1>0, <1>3 DEF OneOwner
  <2> QED
    BY <1>0, <2>1, <2>2, <2>3 DEF OneOwner
<1>6. HoldInv'
  BY <1>0, <1>3, SMT DEF Free, HoldInv, TypeOK, Threads
<1> QED
  BY <1>2, <1>5, <1>6 DEF NodesInv

(* A producer that moves stays at the places of a producer, and moves no    *)
(* consumer.                                                               *)
LEMMA ProducerMoves ==
    ASSUME NEW t \in Producers, NEW f, NEW g,
           f \in [Threads -> ProducerPcs \cup ConsumerPcs],
           \A p \in Producers : f[p] \in ProducerPcs,
           g = f \/ \E p \in ProducerPcs : g = [f EXCEPT ![t] = p]
    PROVE  /\ g \in [Threads -> ProducerPcs \cup ConsumerPcs]
           /\ \A p \in Producers : g[p] \in ProducerPcs
           /\ \A c \in Consumers : g[c] = f[c]
<1>1. CASE g = f
  BY <1>1
<1>2. ASSUME NEW p \in ProducerPcs, g = [f EXCEPT ![t] = p]
      PROVE  /\ g \in [Threads -> ProducerPcs \cup ConsumerPcs]
             /\ \A q \in Producers : g[q] \in ProducerPcs
             /\ \A c \in Consumers : g[c] = f[c]
  <2>1. t \in Threads /\ \A c \in Consumers : c # t /\ c \in Threads
    BY CondListAssumption DEF Threads
  <2>2. \A q \in Threads : g[q] = IF q = t THEN p ELSE f[q]
    BY <1>2
  <2> QED
    BY <1>2, <2>1, <2>2 DEF Threads
<1> QED
  BY <1>1, <1>2

LEMMA NodesInvStep == NodesInv /\ [Next]_vars => NodesInv'
<1> SUFFICES ASSUME NodesInv, [Next]_vars PROVE NodesInv'
  OBVIOUS
<1>0. TypeOK /\ OneOwner /\ HoldInv /\ inserted \in Nat
  BY DEF NodesInv, TypeOK
<1> USE DEF ProducerPcs, ConsumerPcs, Threads
<1>1. ASSUME NEW t \in Producers, Signal(t) PROVE NodesInv'
  <2>1. TypeOK'
    <3>1. /\ pc' \in [Threads -> ProducerPcs \cup ConsumerPcs]
          /\ \A p \in Producers : pc'[p] \in ProducerPcs
          /\ \A c \in Consumers : pc'[c] \in ConsumerPcs
      <4>1. CASE pc' = [pc EXCEPT ![t] = "show"]
        BY <1>0, <4>1, CondListAssumption, SMT DEF TypeOK
      <4>2. ASSUME NEW c \in Consumers, pc' = [pc EXCEPT ![t] = "show", ![c] = "woken"]
            PROVE  <3>1!:
        BY <1>0, <4>2, CondListAssumption, SMT DEF TypeOK
      <4> QED
        BY <1>1, <4>1, <4>2 DEF Signal
    <3> QED
      BY <1>0, <1>1, <3>1 DEF Signal, TypeOK
  <2>2. \A c \in Consumers : pc'[c] = "got" <=> pc[c] = "got"
    BY <1>0, <1>1, CondListAssumption, SMT DEF Signal, TypeOK
  <2> QED
    BY <1>1, <2>1, <2>2, StillOwned DEF Signal
<1>2. ASSUME NEW t \in Producers, Show(t) \/ ShowStray(t) \/ ShowAdvance(t) PROVE NodesInv'
  <2>1. ptr' \in [Producers -> 0 .. inserted]
    <3>1. CASE Show(t)
      <4>1. list # <<>> => Head(list) \in 1 .. inserted
        BY <1>0, HeadTailProperties DEF TypeOK
      <4> QED
        BY <1>0, <3>1, <4>1, SMT DEF Show, TypeOK
    <3>2. CASE ShowStray(t)
      <4>1. \A k \in 1 .. Len(list) : list[k] \in 1 .. inserted
        BY <1>0, ElementOfSeq DEF TypeOK
      <4> QED
        BY <1>0, <3>2, <4>1, SMT DEF ShowStray, TypeOK
    <3>3. CASE ShowAdvance(t)
      BY <1>0, <3>3, NextType, SMT DEF ShowAdvance, TypeOK
    <3> QED
      BY <1>2, <3>1, <3>2, <3>3
  <2>2. /\ pc' \in [Threads -> ProducerPcs \cup ConsumerPcs]
        /\ \A p \in Producers : pc'[p] \in ProducerPcs
        /\ \A c \in Consumers : pc'[c] = pc[c]
    <3>1. \/ pc' = pc
          \/ \E p \in ProducerPcs : pc' = [pc EXCEPT ![t] = p]
      BY <1>2 DEF Show, ShowStray, ShowAdvance
    <3> QED
      BY <1>0, <3>1, ProducerMoves, Zenon DEF TypeOK
  <2>3. TypeOK'
    BY <1>0, <1>2, <2>1, <2>2 DEF Show, ShowStray, ShowAdvance, TypeOK
  <2> QED
    BY <1>2, <2>2, <2>3, StillOwned DEF Show, ShowStray, ShowAdvance
<1>3. ASSUME NEW t \in Producers, ShowDies(t) \/ ShowTest(t) PROVE NodesInv'
  <2>1. /\ pc' \in [Threads -> ProducerPcs \cup ConsumerPcs]
        /\ \A p \in Producers : pc'[p] \in ProducerPcs
        /\ \A c \in Consumers : pc'[c] = pc[c]
    <3>1. \/ pc' = pc
          \/ \E p \in ProducerPcs : pc' = [pc EXCEPT ![t] = p]
      BY <1>3 DEF ShowDies, ShowTest
    <3> QED
      BY <1>0, <3>1, ProducerMoves, Zenon DEF TypeOK
  <2>2. TypeOK'
    <3>1. crashed' \in BOOLEAN
      BY <1>0, <1>3 DEF ShowDies, ShowTest, TypeOK
    <3>2. UNCHANGED <<list, inserted, ptr, value, freed>>
      BY <1>3 DEF ShowDies, ShowTest
    <3> QED
      BY <1>0, <2>1, <3>1, <3>2 DEF TypeOK
  <2> QED
    BY <1>3, <2>1, <2>2, StillOwned DEF ShowDies, ShowTest
<1>4. ASSUME NEW t \in Consumers, ConsumerTop(t) \/ ConsumerWake(t) PROVE NodesInv'
  <2>1. CASE Pop(t)
    BY <1>4, <2>1, PopKeepsNodes DEF ConsumerTop, ConsumerWake
  <2>2. CASE ~Pop(t)
    <3>1. /\ pc' = [pc EXCEPT ![t] = "waiting"] /\ pc[t] = "top"
          /\ UNCHANGED <<list, inserted, ptr, value, freed, crashed>>
      BY <1>4, <2>2 DEF ConsumerTop, ConsumerWake
    <3>2. TypeOK'
      BY <1>0, <3>1, CondListAssumption, SMT DEF TypeOK
    <3>3. \A c \in Consumers : pc'[c] = "got" <=> pc[c] = "got"
      BY <1>0, <3>1, SMT DEF TypeOK
    <3> QED
      BY <3>1, <3>2, <3>3, StillOwned
  <2> QED
    BY <2>1, <2>2
<1>5. CASE SpuriousWakeup
  <2>1. TypeOK'
    BY <1>0, <1>5, CondListAssumption, SMT DEF SpuriousWakeup, TypeOK
  <2>2. \A c \in Consumers : pc'[c] = "got" <=> pc[c] = "got"
    BY <1>0, <1>5, SMT DEF SpuriousWakeup, TypeOK
  <2> QED
    BY <1>5, <2>1, <2>2, StillOwned DEF SpuriousWakeup
<1>6. CASE UNCHANGED vars
  <2>1. TypeOK'
    BY <1>0, <1>6 DEF vars, TypeOK
  <2> QED
    BY <1>6, <2>1, StillOwned DEF vars
<1> QED
  BY <1>1, <1>2, <1>3, <1>4, <1>5, <1>6, InsertKeepsNodes, FreeKeepsNodes
     DEF Next, Producer, Consumer

LEMMA NodesInvariant == Spec => []NodesInv
BY NodesInvInit, NodesInvStep, PTL DEF Spec

(* Each inserted node is in the list, with one consumer, or freed, once:   *)
(* none is lost and none freed twice, for any number of threads.           *)
THEOREM NodesCorrect == Spec => []NodesOK
<1>1. NodesInv => NodesOK
  BY DEF NodesInv, NodesOK
<1> QED
  BY <1>1, NodesInvariant, PTL
-----------------------------------------------------------------------------
LEMMA SizeTypes ==
    /\ IsFiniteSet(Coming) /\ Cardinality(Coming) \in Nat
    /\ IsFiniteSet(Coming') /\ Cardinality(Coming') \in Nat
    /\ IsFiniteSet(Signalling) /\ Cardinality(Signalling) \in Nat
    /\ IsFiniteSet(Signalling') /\ Cardinality(Signalling') \in Nat
<1>1. /\ \A S \in SUBSET Consumers : IsFiniteSet(S) /\ Cardinality(S) \in Nat
      /\ \A S \in SUBSET Producers : IsFiniteSet(S) /\ Cardinality(S) \in Nat
  BY CondListAssumption, FS_Subset, FS_CardinalityType
<1> QED
  BY <1>1 DEF Coming, Signalling

(* Steps after which no more sleep, and which leave the list as it is and  *)
(* nobody out who was coming or signalling.                                *)
LEMMA ComingGrows ==
    ASSUME NodesInv, NoIdleConsumer, list' = list,
           Coming \subseteq Coming', Signalling \subseteq Signalling',
           \A t \in Consumers : pc'[t] = "waiting" => pc[t] = "waiting"
    PROVE  NoIdleConsumer'
<1>1. /\ Cardinality(Coming) <= Cardinality(Coming')
      /\ Cardinality(Signalling) <= Cardinality(Signalling')
  BY SizeTypes, FS_Subset
<1>2. Len(list) \in Nat
  BY LenProperties DEF NodesInv, TypeOK
<1> QED
  BY <1>1, <1>2, SizeTypes, SMT DEF NoIdleConsumer

IdleInv == NodesInv /\ NoIdleConsumer

LEMMA IdleInvStep == IdleInv /\ [Next]_vars => IdleInv'
<1> SUFFICES ASSUME IdleInv, [Next]_vars PROVE NoIdleConsumer'
  BY NodesInvStep DEF IdleInv
<1>0. /\ NodesInv /\ TypeOK /\ HoldInv /\ NoIdleConsumer /\ Len(list) \in Nat
      /\ list \in Seq(1 .. inserted) /\ inserted \in Nat
  BY LenProperties DEF IdleInv, NodesInv, TypeOK
<1> USE DEF ProducerPcs, ConsumerPcs, Threads
<1>1. ASSUME NEW t \in Producers, Insert(t) PROVE NoIdleConsumer'
  <2>1. /\ Signalling' = Signalling \cup {t} /\ t \notin Signalling
        /\ Coming' = Coming
        /\ \A c \in Consumers : pc'[c] = pc[c]
    BY <1>0, <1>1, CondListAssumption, SMT DEF Insert, Signalling, Coming, TypeOK
  <2>2. Cardinality(Signalling') = Cardinality(Signalling) + 1
    BY <2>1, SizeTypes, FS_AddElement
  <2>3. Len(list') <= Len(list) + 1
    BY <1>0, <1>1, SMT DEF Insert
  <2>4. Len(list') \in Nat
    BY <1>0, <1>1, SMT DEF Insert
  <2>5. Cardinality(Coming') = Cardinality(Coming)
    BY <2>1
  <2>6. ASSUME Len(list) <= Cardinality(Coming) + Cardinality(Signalling)
        PROVE  Len(list') <= Cardinality(Coming') + Cardinality(Signalling')
    BY <1>0, <2>2, <2>3, <2>4, <2>5, <2>6, SizeTypes, SMT
  <2> QED
    BY <1>0, <2>1, <2>6 DEF NoIdleConsumer
<1>2. ASSUME NEW t \in Producers, Signal(t) PROVE NoIdleConsumer'
  <2>1. CASE \A c \in Consumers : pc[c] # "waiting"
    BY <1>0, <1>2, <2>1, CondListAssumption, SMT DEF Signal, NoIdleConsumer, TypeOK
  <2>2. ASSUME NEW c \in Consumers, pc[c] = "waiting",
               pc' = [pc EXCEPT ![t] = "show", ![c] = "woken"]
        PROVE  NoIdleConsumer'
    <3>1. /\ Coming' = Coming \cup {c} /\ c \notin Coming
          /\ Signalling' = Signalling \ {t} /\ t \in Signalling
      BY <1>0, <1>2, <2>2, CondListAssumption, SMT DEF Signal, Coming, Signalling, TypeOK
    <3>2. Cardinality(Coming') = Cardinality(Coming) + 1
      BY <3>1, SizeTypes, FS_AddElement
    <3>3. Cardinality(Signalling') = Cardinality(Signalling) - 1
      BY <3>1, SizeTypes, FS_RemoveElement
    <3>4. list' = list
      BY <1>2 DEF Signal
    <3> QED
      BY <1>0, <2>2, <3>2, <3>3, <3>4, SizeTypes, SMT DEF NoIdleConsumer
  <2> QED
    BY <1>2, <2>1, <2>2 DEF Signal
<1>3. ASSUME NEW t \in Producers,
             Show(t) \/ ShowDies(t) \/ ShowStray(t) \/ ShowTest(t) \/ ShowAdvance(t)
      PROVE  NoIdleConsumer'
  <2>1. /\ list' = list
        /\ pc[t] # "signal"
        /\ \/ pc' = pc
           \/ \E p \in {"insert", "test", "advance"} : pc' = [pc EXCEPT ![t] = p]
    BY <1>3 DEF Show, ShowDies, ShowStray, ShowTest, ShowAdvance
  <2>2. /\ Coming' = Coming /\ Signalling' = Signalling
        /\ \A c \in Consumers : pc'[c] = pc[c]
    BY <1>0, <2>1, CondListAssumption, SMT DEF Coming, Signalling, TypeOK
  <2> QED
    BY <1>0, <2>1, <2>2, ComingGrows
<1>4. ASSUME NEW t \in Consumers, ConsumerTop(t) \/ ConsumerWake(t) PROVE NoIdleConsumer'
  <2>1. CASE list = <<>>
    <3>1. list' = list /\ Len(list) = 0
      BY <1>4, <2>1, EmptySeq DEF ConsumerTop, ConsumerWake, Pop
    <3> QED
      BY <3>1, SizeTypes, SMT DEF NoIdleConsumer
  <2>2. CASE list # <<>>
    <3>1. Pop(t) /\ pc[t] \in {"top", "woken"}
      BY <1>4, <2>2 DEF ConsumerTop, ConsumerWake
    <3>2. pc' = [pc EXCEPT ![t] = "got"] /\ Len(list') = Len(list) - 1
      BY <1>0, <2>2, <3>1, PopTakes
    <3>3. /\ Coming' = Coming /\ Signalling' = Signalling
          /\ \A c \in Consumers : pc'[c] = "waiting" => pc[c] = "waiting"
      BY <1>0, <3>1, <3>2, CondListAssumption, SMT DEF Coming, Signalling, TypeOK
    <3> QED
      BY <1>0, <3>2, <3>3, SizeTypes, SMT DEF NoIdleConsumer
  <2> QED
    BY <2>1, <2>2
<1>5. ASSUME NEW t \in Consumers, Free(t) PROVE NoIdleConsumer'
  <2>1. /\ Coming' = Coming /\ Signalling' = Signalling /\ list' = list
        /\ \A c \in Consumers : pc'[c] = "waiting" => pc[c] = "waiting"
    BY <1>0, <1>5, CondListAssumption, SMT DEF Free, Coming, Signalling, TypeOK
  <2> QED
    BY <1>0, <2>1, ComingGrows
<1>6. CASE SpuriousWakeup
  <2>1. /\ Coming \subseteq Coming' /\ Signalling' = Signalling /\ list' = list
        /\ \A c \in Consumers : pc'[c] = "waiting" => pc[c] = "waiting"
    BY <1>0, <1>6, CondListAssumption, SMT
       DEF SpuriousWakeup, Coming, Signalling, TypeOK
  <2> QED
    BY <1>0, <2>1, ComingGrows
<1>7. CASE UNCHANGED vars
  BY <1>0, <1>7 DEF vars, NoIdleConsumer, Coming, Signalling
<1> QED
  BY <1>1, <1>2, <1>3, <1>4, <1>5, <1>6, <1>7, Zenon DEF Next, Producer, Consumer

(* No consumer sleeps beside a node that nobody is coming for, although    *)
(* producers signal after unlocking and the woken do not test again.       *)
THEOREM ConsumersNotIdle == Spec => []NoIdleConsumer
<1>1. Init => IdleInv
  <2> SUFFICES ASSUME Init PROVE NoIdleConsumer
    BY NodesInvInit DEF IdleInv
  <2>1. Len(list) = 0
    BY EmptySeq DEF Init
  <2> QED
    BY <2>1, SizeTypes, SMT DEF NoIdleConsumer
<1>2. IdleInv => NoIdleConsumer
  BY DEF IdleInv
<1> QED
  BY <1>1, <1>2, IdleInvStep, PTL DEF Spec
=============================================================================
