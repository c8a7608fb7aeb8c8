------------------------------ MODULE MCLists --------------------------------
(***************************************************************************)
(* An instance of LinkedLists for TLC: the task set and one list of a      *)
(* plugin, which hold the same reservations; two of them compare equal and *)
(* two belong to one process.                                              *)
(***************************************************************************)
EXTENDS LinkedLists

ElemKey   == [e \in Elems |-> IF e = 3 THEN 20 ELSE 10]
ElemOwner == [e \in Elems |-> IF e = 1 THEN 7 ELSE 8]

NodeSymmetry == Permutations(Nodes)

==============================================================================
