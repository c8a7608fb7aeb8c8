--------------------------- MODULE SequenceLists -----------------------------
(***************************************************************************)
(* What the lists of common/list.c promise: each is a sequence, and every  *)
(* operation is one step that changes one sequence and yields a result.    *)
(* SchedRM, SchedRR and RetifScheduler use the lists in this form;         *)
(* LinkedLists shows that the nodes and pointers of list.c implement it.   *)
(***************************************************************************)
EXTENDS Integers, SequencesExt

CONSTANTS TopLists,     \* lists that grow at the top: the task set
          SortedLists,  \* lists kept sorted: those of RM and RR, per CPU
          Elems,        \* the elements, reservations
          Key,          \* what a sorted list compares
          Owner,        \* the process of an element
          Nothing       \* NULL

Lists == TopLists \cup SortedLists

VARIABLES seqs, result

lvars == <<seqs, result>>

ListsInit == seqs = [l \in Lists |-> <<>>] /\ result = Nothing

\* Where a sorted insertion goes: before the first element that is not smaller, hence
\* before its equals.  The comments of the code say after them (LinkedLists!EqualsGoAfter),
\* but RR needs before: it takes the priority of the next node (sched_RR.c, line 240).
SortedPlace(s, e) == Min({i \in 1..Len(s) : Key[e] <= Key[s[i]]} \cup {Len(s) + 1})

AddTop(l, e) ==
  /\ seqs' = [seqs EXCEPT ![l] = <<e>> \o @]
  /\ result' = e

AddSorted(l, e) ==
  /\ seqs' = [seqs EXCEPT ![l] = InsertAt(@, SortedPlace(@, e), e)]
  /\ result' = e

RemoveTop(l) ==
  /\ seqs' = [seqs EXCEPT ![l] = IF @ = <<>> THEN @ ELSE Tail(@)]
  /\ result' = IF seqs[l] = <<>> THEN Nothing ELSE Head(seqs[l])

\* The first element of l that is in S.
FirstIn(l, S) ==
  LET found == {i \in 1..Len(seqs[l]) : seqs[l][i] \in S}
  IN  IF found = {} THEN Nothing ELSE seqs[l][Min(found)]

RemoveOne(l, S) ==
  /\ seqs' = [seqs EXCEPT ![l] = RemoveFirst(@, FirstIn(l, S))]
  /\ result' = FirstIn(l, S)

Search(l, S) == result' = FirstIn(l, S) /\ UNCHANGED seqs

\* A caller asks for the elements with an id, those of a process, or walks to the end.
Wanted == {{}} \cup {{e} : e \in Elems} \cup
          {{e \in Elems : Owner[e] = o} : o \in {Owner[e] : e \in Elems}}

ListsNext ==
  \/ \E l \in TopLists, e \in Elems : AddTop(l, e)
  \/ \E l \in SortedLists, e \in Elems : AddSorted(l, e)
  \/ \E l \in Lists : RemoveTop(l)
  \/ \E l \in Lists, S \in Wanted : RemoveOne(l, S) \/ Search(l, S)

ListsSpec == ListsInit /\ [][ListsNext]_lvars

==============================================================================
