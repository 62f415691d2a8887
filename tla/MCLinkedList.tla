---------------------------- MODULE MCLinkedList ----------------------------
(***************************************************************************)
(* LinkedList for TLC.  Nodes are alike and so are the lists: nobody       *)
(* compares addresses, and no property tells one list from another.        *)
(***************************************************************************)
EXTENDS LinkedList, TLC

Symmetry == Permutations(Nodes) \cup Permutations(Lists)
=============================================================================
