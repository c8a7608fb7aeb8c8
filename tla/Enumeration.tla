----------------------------- MODULE Enumeration -----------------------------
(***************************************************************************)
(* Lists used as sets: retif keeps reservations in linked lists, and every *)
(* one of them should hold each member of some set once.                   *)
(***************************************************************************)
EXTENDS Integers, SequencesExt

\* The sequence s lists each member of S once, and nothing else.
Enumerates(s, S) ==
  /\ ToSet(s) = S
  /\ \A a, b \in 1..Len(s) : s[a] = s[b] => a = b

==============================================================================
