---------------------------- MODULE LinkedLists ------------------------------
(***************************************************************************)
(* common/list.c as it works in memory: nodes on a heap that all lists     *)
(* share, a root pointer and a count per list, and loops that walk with    *)
(* the pointers prec and seek.  The callers are the functions of           *)
(* daemon/retif_taskset.c; the daemon is one thread, so an operation ends  *)
(* before the next begins.                                                 *)
(***************************************************************************)
EXTENDS Integers, FiniteSets, SequencesExt

CONSTANTS TopLists, SortedLists, Elems, Key, Owner, Nothing,  \* see SequenceLists
          Nodes,    \* BOUND: the nodes the heap can hold
          NULL,     \* the null pointer
          Junk      \* what a freed node holds

ASSUME HeapAssumption ==
  /\ TopLists \cap SortedLists = {}
  /\ Key \in [Elems -> Int] /\ Nothing \notin Elems
  /\ IsFiniteSet(Nodes) /\ NULL \notin Nodes

Lists == TopLists \cup SortedLists

VARIABLES
  root,    \* l->root of each list
  n,       \* l->n of each list
  next,    \* the next pointer of each node
  elem,    \* the element of each node
  used,    \* the nodes that are allocated
  op,      \* the operation under way and its local variables
  res      \* what the last operation returned, as an element

hvars == <<root, n, next, elem, used, op, res>>

Idle == [name |-> "idle"]

list_init == root = [l \in Lists |-> NULL] /\ n = [l \in Lists |-> 0]

HeapInit ==
  /\ list_init
  /\ next = [x \in Nodes |-> Junk]
  /\ elem = [x \in Nodes |-> Junk]
  /\ used = {}
  /\ op = Idle
  /\ res = Nothing

list_is_empty(l) == n[l] = 0

(***************************************************************************)
(* The nodes of a list, found as an iterator finds them: from the root     *)
(* along next.  A walk of more steps than there are nodes is in a cycle.   *)
(***************************************************************************)
WalkIn(nx, p) ==
  LET after == [x \in Nodes \cup {NULL, Junk} |-> IF x \in Nodes THEN nx[x] ELSE x]
      at[i \in 0..Cardinality(Nodes)] == IF i = 0 THEN p ELSE after[at[i - 1]]
      ends == {i \in 0..Cardinality(Nodes) : at[i] = NULL}
  IN  [i \in 1..(IF ends = {} THEN Cardinality(Nodes) + 1 ELSE Min(ends)) |-> at[i - 1]]

WalkFrom(p) == WalkIn(next, p)

Walk(l) == WalkFrom(root[l])

Elem(x) == IF x \in Nodes THEN elem[x] ELSE Junk

Contents(l) == LET walk == Walk(l) IN [i \in DOMAIN walk |-> Elem(walk[i])]

-----------------------------------------------------------------------------
(***************************************************************************)
(* list_add_top, in the node x.                                            *)
(***************************************************************************)
list_add_top(l, e, x) ==
  /\ used' = used \cup {x}
  /\ next' = [next EXCEPT ![x] = root[l]]
  /\ elem' = [elem EXCEPT ![x] = e]
  /\ n' = [n EXCEPT ![l] = @ + 1]
  /\ root' = [root EXCEPT ![l] = x]
  /\ res' = e
  /\ UNCHANGED op

\* Callers add an element to a list once, and calloc gives any node that is free.
MayAdd(l, e, x) == op = Idle /\ x \notin used /\ e \notin ToSet(Contents(l))

AddTop(l, e, x) == MayAdd(l, e, x) /\ list_add_top(l, e, x)

\* cmpfun of a sorted list.
cmp(e, f) == Key[e] - Key[f]

GoesFirst(l, e) == ~list_is_empty(l) => cmp(e, elem[root[l]]) <= 0

(***************************************************************************)
(* list_add_sorted: at the top if the list is empty or the first element   *)
(* is not smaller ...                                                      *)
(***************************************************************************)
AddSorted(l, e, x) ==
  /\ MayAdd(l, e, x)
  /\ \/ GoesFirst(l, e) /\ list_add_top(l, e, x)
     \/ /\ ~GoesFirst(l, e)
        /\ used' = used \cup {x}
        /\ elem' = [elem EXCEPT ![x] = e]
        /\ next' = [next EXCEPT ![x] = NULL]
        /\ op' = [name |-> "add", list |-> l, new |-> x,
                  prec |-> root[l], seek |-> next[root[l]]]
        /\ UNCHANGED <<root, n, res>>

\* Mutant: seek is not advanced.
MutSeek ==
  /\ op' = [op EXCEPT !.prec = next[@]]
  /\ UNCHANGED <<root, n, next, elem, used, res>>

\* Both cursors advance.
Seek ==
  /\ op' = [op EXCEPT !.prec = next[@], !.seek = next[@]]
  /\ UNCHANGED <<root, n, next, elem, used, res>>

\* Mutant: the walk does not start, the new node goes to the second place.
MutSmaller == FALSE

\* The loop's condition.
Smaller == op.seek # NULL /\ cmp(elem[op.new], elem[op.seek]) > 0

AddSeek == op.name = "add" /\ Smaller /\ Seek

(***************************************************************************)
(* ... else between prec and seek.                                         *)
(***************************************************************************)
AddLink ==
  /\ op.name = "add" /\ ~Smaller
  /\ next' = [next EXCEPT ![op.prec] = op.new, ![op.new] = op.seek]
  /\ n' = [n EXCEPT ![op.list] = @ + 1]
  /\ res' = elem[op.new]
  /\ op' = Idle
  /\ UNCHANGED <<root, elem, used>>

-----------------------------------------------------------------------------
\* free: the node may be given out again.
Free(x) ==
  /\ used' = used \ {x}
  /\ elem' = [elem EXCEPT ![x] = Junk]

(***************************************************************************)
(* list_remove_top of a list that is not empty.                            *)
(***************************************************************************)
list_remove_top(l) ==
  /\ root' = [root EXCEPT ![l] = next[@]]
  /\ n' = [n EXCEPT ![l] = @ - 1]
  /\ res' = elem[root[l]]
  /\ Free(root[l])
  /\ next' = [next EXCEPT ![root[l]] = Junk]
  /\ UNCHANGED op

NotFound == res' = Nothing /\ UNCHANGED <<root, n, next, elem, used>>

RemoveTop(l) ==
  /\ op = Idle
  /\ \/ list_is_empty(l) /\ NotFound /\ UNCHANGED op
     \/ ~list_is_empty(l) /\ list_remove_top(l)

(***************************************************************************)
(* list_remove, for the elements that cmpfun matches: those in S.          *)
(***************************************************************************)
RemoveOne(l, S) ==
  /\ op = Idle
  /\ \/ list_is_empty(l) /\ NotFound /\ UNCHANGED op
     \/ ~list_is_empty(l) /\ elem[root[l]] \in S /\ list_remove_top(l)
     \/ /\ ~list_is_empty(l) /\ elem[root[l]] \notin S
        /\ op' = [name |-> "remove", list |-> l, key |-> S,
                  prec |-> root[l], seek |-> next[root[l]]]
        /\ UNCHANGED <<root, n, next, elem, used, res>>

Differs == op.seek # NULL /\ elem[op.seek] \notin op.key

RemoveSeek == op.name = "remove" /\ Differs /\ Seek

\* Mutant: the count is not lowered.
MutRemoveCount ==
  /\ op.name = "remove" /\ ~Differs
  /\ op' = Idle
  /\ \/ op.seek = NULL /\ NotFound
     \/ /\ op.seek # NULL
        /\ next' = [next EXCEPT ![op.prec] = next[op.seek], ![op.seek] = Junk]
        /\ res' = elem[op.seek]
        /\ Free(op.seek)
        /\ UNCHANGED <<root, n>>

\* Mutant: the element of the wrong cursor is returned.
MutRemovePrec ==
  /\ op.name = "remove" /\ ~Differs
  /\ op' = Idle
  /\ \/ op.seek = NULL /\ NotFound
     \/ /\ op.seek # NULL
        /\ next' = [next EXCEPT ![op.prec] = next[op.seek], ![op.seek] = Junk]
        /\ n' = [n EXCEPT ![op.list] = @ - 1]
        /\ res' = elem[op.prec]
        /\ Free(op.seek)
        /\ UNCHANGED root

(***************************************************************************)
(* The end of list_remove: nothing found, or seek is taken out and freed.  *)
(***************************************************************************)
RemoveEnd ==
  /\ op.name = "remove" /\ ~Differs
  /\ op' = Idle
  /\ \/ op.seek = NULL /\ NotFound
     \/ /\ op.seek # NULL
        /\ next' = [next EXCEPT ![op.prec] = next[op.seek], ![op.seek] = Junk]
        /\ n' = [n EXCEPT ![op.list] = @ - 1]
        /\ res' = elem[op.seek]
        /\ Free(op.seek)
        /\ UNCHANGED root

-----------------------------------------------------------------------------
(***************************************************************************)
(* list_search_elem, and the loops of the plugins over an iterator.        *)
(***************************************************************************)
Search(l, S) ==
  /\ op = Idle
  /\ op' = [name |-> "search", key |-> S, seek |-> root[l]]
  /\ UNCHANGED <<root, n, next, elem, used, res>>

SearchStep ==
  /\ op.name = "search"
  /\ UNCHANGED <<root, n, next, elem, used>>
  /\ \/ /\ Differs
        /\ op' = [op EXCEPT !.seek = next[@]]
        /\ UNCHANGED res
     \/ /\ ~Differs
        /\ res' = IF op.seek = NULL THEN Nothing ELSE elem[op.seek]
        /\ op' = Idle

-----------------------------------------------------------------------------
\* rtf_taskset_cmp_rsvid, rtf_taskset_cmp_ppid: the elements that match a key.
ById  == {{e} : e \in Elems}
ByPid == {{e \in Elems : Owner[e] = o} : o \in {Owner[e] : e \in Elems}}

Step == AddSeek \/ AddLink \/ RemoveSeek \/ RemoveEnd \/ SearchStep

(***************************************************************************)
(* The scheduler adds to the task set at the top and removes by id or by   *)
(* process, rtf_daemon_destroy from the top; a plugin adds sorted, removes *)
(* by id and iterates to the end, a search for nothing.                    *)
(***************************************************************************)
HeapNext ==
  \/ \E l \in TopLists : \/ \E e \in Elems, x \in Nodes : AddTop(l, e, x)
                         \/ RemoveTop(l)
                         \/ \E S \in ById \cup ByPid : RemoveOne(l, S)
                         \/ \E S \in ById : Search(l, S)
  \/ \E l \in SortedLists : \/ \E e \in Elems, x \in Nodes : AddSorted(l, e, x)
                            \/ \E S \in ById : RemoveOne(l, S)
                            \/ Search(l, {})
  \/ Step

HeapSpec == HeapInit /\ [][HeapNext]_hvars

-----------------------------------------------------------------------------
(***************************************************************************)
(* Properties.                                                             *)
(***************************************************************************)

(***************************************************************************)
(* HeapExact: the lists never share a node, never hold a freed one, never  *)
(* form a cycle, and no node is leaked: the allocated nodes are those of   *)
(* the lists, each once, and the one list_add_sorted is about to link in.  *)
(* The count of each list is its length.                                   *)
(***************************************************************************)
Pending == IF op.name = "add" THEN {op.new} ELSE {}

HeapExact ==
  LET walk == [l \in Lists |-> Walk(l)]
  IN  /\ \A l \in Lists : n[l] = Len(walk[l]) /\ IsInjective(walk[l])
      /\ \A l, m \in Lists : l # m => ToSet(walk[l]) \cap ToSet(walk[m]) = {}
      /\ used = (UNION {ToSet(walk[l]) : l \in Lists}) \cup Pending

(***************************************************************************)
(* StaysSorted: a list filled by list_add_sorted is sorted at all times,   *)
(* also after removals, which assign_priorities of RM and RR relies on.    *)
(***************************************************************************)
StaysSorted ==
  \A l \in SortedLists :
    LET s == Contents(l)
    IN  \A i \in 1..Len(s) - 1 : Key[s[i]] <= Key[s[i + 1]]

(***************************************************************************)
(* ImplementsSequences: seen through Contents, every operation of list.c   *)
(* does to a sequence what SequenceLists says, and returns the same        *)
(* element, whatever nodes calloc hands out.  The request is no state of   *)
(* SequenceLists: the operation is one that some request could have asked  *)
(* for (that it is the one made is in the lemmas of ListProofs).           *)
(***************************************************************************)
Abstract == INSTANCE SequenceLists WITH seqs <- [l \in Lists |-> Contents(l)], result <- res

ImplementsSequences == Abstract!ListsSpec

(***************************************************************************)
(* EqualsGoAfter: what the comments on list_add_sorted (list.c, list.h)    *)
(* and on the sorted insertions of retif_taskset.c say: an element goes    *)
(* behind the ones it is equal to.  The code puts it before them, and      *)
(* rtf_plg_task_schedule of sched_RR.c copies the priority of the node     *)
(* after the inserted one, which is an equal only in the code's order.     *)
(***************************************************************************)
Before(s, e, f) == \E i, j \in 1..Len(s) : i < j /\ s[i] = e /\ s[j] = f

EqualsGoAfter ==
  [][\A l \in SortedLists :
       \A e \in ToSet(Contents(l)), f \in ToSet(Contents(l)') \ ToSet(Contents(l)) :
         Key[e] = Key[f] => Before(Contents(l)', e, f)]_hvars

(***************************************************************************)
(* LoopsShrink: every turn of a loop of list.c leaves less of the list in  *)
(* front of seek, so that every loop ends.                                 *)
(***************************************************************************)
Ahead == Len(WalkFrom(op.seek))

LoopsShrink == [][op # Idle /\ op' # Idle => Ahead' < Ahead]_hvars

==============================================================================
