----------------------------- MODULE ListProofs ------------------------------
(***************************************************************************)
(* Proofs about common/list.c: for any number of lists, elements and nodes *)
(* the nodes and pointers of LinkedLists are sequences, and every          *)
(* operation is one of SequenceLists.                                      *)
(***************************************************************************)
EXTENDS LinkedLists, SequenceFacts

(***************************************************************************)
(* Sequences with one element more or one less, position by position.      *)
(***************************************************************************)
Inserted(s, i, e) ==
  [j \in 1..Len(s) + 1 |-> IF j < i THEN s[j] ELSE IF j = i THEN e ELSE s[j - 1]]

Deleted(s, i) == [j \in 1..Len(s) - 1 |-> IF j < i THEN s[j] ELSE s[j + 1]]

LEMMA InsertedType ==
  ASSUME NEW S, NEW s \in Seq(S), NEW e \in S, NEW i \in 1..Len(s) + 1
  PROVE  Inserted(s, i, e) \in Seq(S) /\ Len(Inserted(s, i, e)) = Len(s) + 1
<1> DEFINE r == Inserted(s, i, e)
<1>1. Len(s) \in Nat /\ \A j \in 1..Len(s) : s[j] \in S  OBVIOUS
<1>2. \A j \in 1..Len(s) + 1 : r[j] \in S
  <2> SUFFICES ASSUME NEW j \in 1..Len(s) + 1 PROVE r[j] \in S
    OBVIOUS
  <2>1. j < i => j \in 1..Len(s)  BY <1>1
  <2>2. ~(j < i) /\ j # i => j - 1 \in 1..Len(s)  BY <1>1
  <2> QED  BY <1>1, <2>1, <2>2 DEF Inserted
<1>3. r \in [1..Len(s) + 1 -> S]  BY <1>2 DEF Inserted
<1> QED  BY <1>1, <1>3

LEMMA DeletedType ==
  ASSUME NEW S, NEW s \in Seq(S), NEW i \in 1..Len(s)
  PROVE  Deleted(s, i) \in Seq(S) /\ Len(Deleted(s, i)) = Len(s) - 1
<1> DEFINE r == Deleted(s, i)
<1>1. Len(s) \in Nat /\ Len(s) - 1 \in Nat /\ \A j \in 1..Len(s) : s[j] \in S  OBVIOUS
<1>2. \A j \in 1..Len(s) - 1 : r[j] \in S
  <2> SUFFICES ASSUME NEW j \in 1..Len(s) - 1 PROVE r[j] \in S
    OBVIOUS
  <2>1. j \in 1..Len(s) /\ j + 1 \in 1..Len(s)  BY <1>1
  <2> QED  BY <1>1, <2>1 DEF Deleted
<1>3. r \in [1..Len(s) - 1 -> S]  BY <1>2 DEF Deleted
<1> QED  BY <1>1, <1>3

(***************************************************************************)
(* The operators of SequenceLists in these terms.                          *)
(***************************************************************************)
LEMMA SameSequence ==
  ASSUME NEW S, NEW s \in Seq(S), NEW T, NEW t \in Seq(T), Len(s) = Len(t),
         \A j \in 1..Len(s) : s[j] = t[j]
  PROVE  s = t
<1>1. DOMAIN s = 1..Len(s) /\ DOMAIN t = 1..Len(s)  OBVIOUS
<1>2. s = [j \in 1..Len(s) |-> s[j]] /\ t = [j \in 1..Len(s) |-> t[j]]  BY <1>1
<1> QED  BY <1>2

LEMMA InsertAtInserted ==
  ASSUME NEW S, NEW s \in Seq(S), NEW e \in S, NEW i \in 1..Len(s) + 1
  PROVE  InsertAt(s, i, e) = Inserted(s, i, e)
<1> DEFINE r == InsertAt(s, i, e)
           q == Inserted(s, i, e)
<1>1. /\ r \in Seq(S)
      /\ Len(r) = Len(s) + 1
      /\ r[i] = e
      /\ \A j \in 1..i - 1 : r[j] = s[j]
      /\ \A j \in i..Len(s) : r[j + 1] = s[j]
  BY InsertAtElements
<1>2. q \in Seq(S) /\ Len(q) = Len(s) + 1  BY InsertedType
<1>3. \A j \in 1..Len(s) + 1 : q[j] = IF j < i THEN s[j] ELSE IF j = i THEN e ELSE s[j - 1]
  BY DEF Inserted
<1> HIDE DEF r, q
<1>4. Len(s) \in Nat  OBVIOUS
<1>5. ASSUME NEW j \in 1..Len(s) + 1 PROVE r[j] = q[j]
  <2>1. CASE j < i  BY <1>1, <1>3, <2>1
  <2>2. CASE j = i  BY <1>1, <1>3, <2>2
  <2>3. CASE j > i
    <3>1. j - 1 \in i..Len(s) /\ (j - 1) + 1 = j  BY <1>4, <2>3
    <3>2. r[j] = s[j - 1]  BY <1>1, <3>1
    <3> QED  BY <1>3, <2>3, <3>2
  <2> QED  BY <2>1, <2>2, <2>3
<1> QED  BY <1>1, <1>2, <1>5, SameSequence DEF r, q

LEMMA TopInserted ==
  ASSUME NEW S, NEW s \in Seq(S), NEW e \in S
  PROVE  <<e>> \o s = Inserted(s, 1, e)
<1> DEFINE r == <<e>> \o s
           q == Inserted(s, 1, e)
<1>1. <<e>> \in Seq(S) /\ Len(<<e>>) = 1 /\ <<e>>[1] = e /\ Len(s) \in Nat  OBVIOUS
<1>2. /\ r \in Seq(S)
      /\ Len(r) = Len(s) + 1
      /\ \A j \in 1..Len(s) + 1 : r[j] = IF j <= 1 THEN <<e>>[j] ELSE s[j - 1]
  BY <1>1, ConcatProperties
<1>3. q \in Seq(S) /\ Len(q) = Len(s) + 1  BY <1>1, InsertedType
<1>4. \A j \in 1..Len(s) + 1 : q[j] = IF j < 1 THEN s[j] ELSE IF j = 1 THEN e ELSE s[j - 1]
  BY DEF Inserted
<1> HIDE DEF r, q
<1>5. ASSUME NEW j \in 1..Len(s) + 1 PROVE r[j] = q[j]
  <2>1. CASE j = 1  BY <1>1, <1>2, <1>4, <2>1
  <2>2. CASE j # 1  BY <1>1, <1>2, <1>4, <2>2
  <2> QED  BY <2>1, <2>2
<1> QED  BY <1>2, <1>3, <1>5, SameSequence DEF r, q

LEMMA TailDeleted ==
  ASSUME NEW S, NEW s \in Seq(S), s # <<>>
  PROVE  Tail(s) = Deleted(s, 1)
<1>1. Len(s) \in Nat /\ Len(s) # 0 /\ 1 \in 1..Len(s)  OBVIOUS
<1>2. Tail(s) \in Seq(S) /\ Len(Tail(s)) = Len(s) - 1  OBVIOUS
<1>3. \A j \in 1..Len(s) - 1 : Tail(s)[j] = s[j + 1]  OBVIOUS
<1>4. \A j \in 1..Len(s) - 1 : Deleted(s, 1)[j] = s[j + 1]  BY DEF Deleted
<1>5. Deleted(s, 1) \in Seq(S) /\ Len(Deleted(s, 1)) = Len(s) - 1  BY <1>1, DeletedType
<1> QED  BY <1>2, <1>3, <1>4, <1>5, SameSequence

LEMMA RemoveFirstDeleted ==
  ASSUME NEW S, NEW s \in Seq(S), NEW i \in 1..Len(s), \A j \in 1..i - 1 : s[j] # s[i]
  PROVE  RemoveFirst(s, s[i]) = Deleted(s, i)
<1> DEFINE I == {j \in 1..Len(s) : s[j] = s[i]}
           p == SubSeq(s, 1, i - 1)
           q == SubSeq(s, i + 1, Len(s))
<1>1. I \in SUBSET Nat /\ I # {} /\ i \in I  OBVIOUS
<1>2. Min(I) \in I /\ Min(I) <= i  BY <1>1, MinIn
<1>3. Min(I) = i  BY <1>2
<1>4. RemoveFirst(s, s[i]) = p \o q
  BY <1>1, <1>3 DEF RemoveFirst, RemoveAt, SelectInSeq
<1> HIDE DEF I
<1>5. p \in Seq(S) /\ Len(p) = i - 1 /\ \A j \in 1..i - 1 : p[j] = s[j]
  BY SubSeqProperties
<1>6. q \in Seq(S) /\ Len(q) = Len(s) - i /\ \A j \in 1..Len(s) - i : q[j] = s[i + j]
  BY SubSeqProperties
<1> HIDE DEF p, q
<1>7. /\ p \o q \in Seq(S)
      /\ Len(p \o q) = Len(p) + Len(q)
      /\ \A j \in 1..Len(p) + Len(q) : (p \o q)[j] = IF j <= Len(p) THEN p[j] ELSE q[j - Len(p)]
  BY <1>5, <1>6, ConcatProperties
<1>8. Len(p) + Len(q) = Len(s) - 1  BY <1>5, <1>6
<1>9. Deleted(s, i) \in Seq(S) /\ Len(Deleted(s, i)) = Len(s) - 1  BY DeletedType
<1>10. ASSUME NEW j \in 1..Len(s) - 1 PROVE (p \o q)[j] = Deleted(s, i)[j]
  <2>1. Deleted(s, i)[j] = IF j < i THEN s[j] ELSE s[j + 1]  BY DEF Deleted
  <2>2. CASE j < i  BY <1>5, <1>7, <1>8, <2>1, <2>2
  <2>3. CASE j >= i
    <3>1. (p \o q)[j] = q[j - (i - 1)]  BY <1>5, <1>7, <1>8, <2>3
    <3>2. j - (i - 1) \in 1..Len(s) - i /\ i + (j - (i - 1)) = j + 1  BY <2>3
    <3>3. q[j - (i - 1)] = s[i + (j - (i - 1))]  BY <1>6, <3>2
    <3> QED  BY <2>1, <2>3, <3>1, <3>2, <3>3
  <2>4. j < i \/ j >= i  OBVIOUS
  <2> QED  BY <2>2, <2>3, <2>4
<1> DEFINE r == p \o q
<1>11. r \in Seq(S) /\ Len(r) = Len(s) - 1 /\ \A j \in 1..Len(s) - 1 : r[j] = Deleted(s, i)[j]
  BY <1>7, <1>8, <1>10
<1> HIDE DEF r
<1>12. r = Deleted(s, i)  BY <1>9, <1>11, SameSequence
<1> QED  BY <1>4, <1>12 DEF r
-----------------------------------------------------------------------------
(***************************************************************************)
(* What lies on the heap.  The nodes s are a list from the pointer p when  *)
(* every next pointer leads to the node behind, and the last one is null.  *)
(***************************************************************************)
NodeAt(s, i) == IF i <= Len(s) THEN s[i] ELSE NULL

Chain(nx, p, s) == p = NodeAt(s, 1) /\ \A i \in 1..Len(s) : nx[s[i]] = NodeAt(s, i + 1)

LEMMA NodeAtType ==
  ASSUME NEW s \in Seq(Nodes), NEW i \in Nat \ {0}
  PROVE  /\ NodeAt(s, i) \in Nodes \cup {NULL}
         /\ NodeAt(s, i) = NULL <=> i > Len(s)
         /\ i <= Len(s) => NodeAt(s, i) \in Nodes
<1>1. Len(s) \in Nat /\ \A j \in 1..Len(s) : s[j] \in Nodes  OBVIOUS
<1>2. CASE i <= Len(s)
  <2>1. i \in 1..Len(s)  BY <1>1, <1>2
  <2>2. s[i] \in Nodes  BY <1>1, <2>1
  <2> QED  BY <1>1, <1>2, <2>2, HeapAssumption DEF NodeAt
<1>3. CASE ~(i <= Len(s))  BY <1>1, <1>3 DEF NodeAt
<1> QED  BY <1>2, <1>3

LEMMA InjectiveFits ==
  ASSUME NEW s \in Seq(Nodes), IsInjective(s)
  PROVE  Len(s) <= Cardinality(Nodes) /\ Cardinality(Nodes) \in Nat
<1>1. IsFiniteSet(Nodes) /\ Cardinality(Nodes) \in Nat  BY HeapAssumption, FS_CardinalityType
<1>2. Len(s) \in Nat /\ DOMAIN s = 1..Len(s)  OBVIOUS
<1>3. IsFiniteSet(1..Len(s)) /\ Cardinality(1..Len(s)) = Len(s)  BY <1>2, FS_Interval
<1>4. s \in Injection(1..Len(s), Nodes)  BY <1>2 DEF Injection, IsInjective
<1>5. Cardinality(1..Len(s)) <= Cardinality(Nodes)  BY <1>1, <1>4, FS_Injection
<1> QED  BY <1>1, <1>3, <1>5

(***************************************************************************)
(* An iterator finds the list.                                             *)
(***************************************************************************)
LEMMA WalkFindsList ==
  ASSUME NEW nx, NEW p, NEW s \in Seq(Nodes), IsInjective(s), Chain(nx, p, s)
  PROVE  WalkIn(nx, p) = s
<1> DEFINE C     == Cardinality(Nodes)
           after == [x \in Nodes \cup {NULL, Junk} |-> IF x \in Nodes THEN nx[x] ELSE x]
           IsAt(f) == f = [i \in 0..C |-> IF i = 0 THEN p ELSE after[f[i - 1]]]
           h     == CHOOSE f : IsAt(f)
           g     == [i \in 0..C |-> NodeAt(s, i + 1)]
           ends  == {i \in 0..C : h[i] = NULL}
<1>1. Len(s) <= C /\ C \in Nat /\ Len(s) \in Nat  BY InjectiveFits
<1>2. after[NULL] = NULL /\ \A x \in Nodes : after[x] = nx[x]  BY HeapAssumption
<1>3. ASSUME NEW i \in 0..C, i # 0 PROVE after[NodeAt(s, i)] = NodeAt(s, i + 1)
  <2>1. CASE i <= Len(s)
    <3>1. i \in 1..Len(s)  BY <1>1, <1>3, <2>1
    <3>2. NodeAt(s, i) = s[i] /\ s[i] \in Nodes  BY <2>1, <3>1 DEF NodeAt
    <3>3. nx[s[i]] = NodeAt(s, i + 1)  BY <3>1 DEF Chain
    <3> QED  BY <1>2, <3>2, <3>3
  <2>2. CASE ~(i <= Len(s))
    <3>1. ~(i + 1 <= Len(s))  BY <1>1, <2>2
    <3>2. NodeAt(s, i) = NULL /\ NodeAt(s, i + 1) = NULL  BY <2>2, <3>1 DEF NodeAt
    <3> QED  BY <1>2, <3>2
  <2> QED  BY <2>1, <2>2
<1> HIDE DEF after
<1>4. IsAt(g)
  <2>1. ASSUME NEW i \in 0..C PROVE g[i] = IF i = 0 THEN p ELSE after[g[i - 1]]
    <3>1. CASE i = 0  BY <3>1 DEF Chain
    <3>2. CASE i # 0
      <4>1. i - 1 \in 0..C /\ (i - 1) + 1 = i  BY <1>1, <3>2
      <4>2. g[i - 1] = NodeAt(s, i)  BY <4>1
      <4> QED  BY <1>3, <3>2, <4>2
    <3> QED  BY <3>1, <3>2
  <2> QED  BY <2>1
<1>5. IsAt(h)  BY <1>4
<1> HIDE DEF h
<1>6. ASSUME NEW i \in 0..C PROVE h[i] = NodeAt(s, i + 1)
  <2> DEFINE Bad == {j \in Nat : j \in 0..C /\ h[j] # NodeAt(s, j + 1)}
  <2>1. ASSUME Bad # {} PROVE FALSE
    <3>1. PICK m \in Bad : \A y \in Bad : m <= y  BY <2>1, LeastOf
    <3>2. h[m] = IF m = 0 THEN p ELSE after[h[m - 1]]  BY <1>5, <3>1
    <3>3. CASE m = 0  BY <3>1, <3>2, <3>3 DEF Chain
    <3>4. CASE m # 0
      <4>1. m - 1 \in Nat /\ m - 1 \in 0..C /\ (m - 1) + 1 = m /\ ~(m <= m - 1)
        BY <1>1, <3>1, <3>4
      <4>2. h[m - 1] = NodeAt(s, m)  BY <3>1, <4>1
      <4> QED  BY <1>3, <3>1, <3>2, <3>4, <4>2
    <3> QED  BY <3>3, <3>4
  <2> QED  BY <2>1
<1>7. ASSUME NEW i \in 0..C PROVE h[i] = NULL <=> i >= Len(s)
  <2>1. i + 1 \in Nat \ {0}  BY <1>1
  <2>2. h[i] = NULL <=> i + 1 > Len(s)  BY <1>6, <2>1, NodeAtType
  <2> QED  BY <1>1, <2>2
<1>8. ends \in SUBSET Nat /\ Len(s) \in ends /\ \A i \in ends : i >= Len(s)
  BY <1>1, <1>7
<1> HIDE DEF ends
<1>9. ends # {} /\ Min(ends) = Len(s)
  <2>1. Min(ends) \in ends /\ Min(ends) <= Len(s)  BY <1>8, MinIn
  <2>2. Min(ends) \in Nat /\ Min(ends) >= Len(s)  BY <1>8, <2>1
  <2> QED  BY <1>1, <1>8, <2>1, <2>2
<1>10. WalkIn(nx, p) = [i \in 1..(IF ends = {} THEN C + 1 ELSE Min(ends)) |-> h[i - 1]]
  BY DEF WalkIn, h, ends, after
<1>11. WalkIn(nx, p) = [i \in 1..Len(s) |-> h[i - 1]]  BY <1>9, <1>10
<1>12. ASSUME NEW i \in 1..Len(s) PROVE h[i - 1] = s[i]
  <2>1. i - 1 \in 0..C /\ (i - 1) + 1 = i /\ i <= Len(s)  BY <1>1
  <2>2. h[i - 1] = NodeAt(s, i)  BY <1>6, <2>1
  <2> QED  BY <2>1, <2>2 DEF NodeAt
<1>13. s = [i \in 1..Len(s) |-> s[i]]  OBVIOUS
<1> HIDE DEF C
<1>14. [i \in 1..Len(s) |-> h[i - 1]] = [i \in 1..Len(s) |-> s[i]]  BY <1>12
<1> QED  BY <1>11, <1>13, <1>14
-----------------------------------------------------------------------------
(***************************************************************************)
(* All lists together: w gives the nodes of each.  No node is in two       *)
(* places, the roots and next pointers lead through them, the counts are   *)
(* the lengths.                                                            *)
(***************************************************************************)
Apart(w) ==
  \A l, m \in Lists : \A i \in 1..Len(w[l]), j \in 1..Len(w[m]) :
    w[l][i] = w[m][j] => l = m /\ i = j

Shape(w, rt, cnt, nx) ==
  /\ w \in [Lists -> Seq(Nodes)]
  /\ Apart(w)
  /\ \A l \in Lists : Chain(nx, rt[l], w[l]) /\ cnt[l] = Len(w[l])

Walks == [l \in Lists |-> Walk(l)]

In(w) == UNION {ToSet(w[l]) : l \in Lists}

LEMMA InNodes ==
  ASSUME NEW w \in [Lists -> Seq(Nodes)]
  PROVE  /\ In(w) \subseteq Nodes
         /\ \A x : x \in In(w) <=> \E l \in Lists : \E i \in 1..Len(w[l]) : w[l][i] = x
         /\ \A l \in Lists : \A i \in 1..Len(w[l]) : w[l][i] \in In(w) /\ w[l][i] \in Nodes
<1>1. \A l \in Lists : w[l] \in Seq(Nodes) /\ DOMAIN w[l] = 1..Len(w[l])  OBVIOUS
<1>2. \A l \in Lists : ToSet(w[l]) = {w[l][i] : i \in 1..Len(w[l])}  BY <1>1 DEF ToSet
<1>3. \A l \in Lists : \A i \in 1..Len(w[l]) : w[l][i] \in Nodes  BY <1>1
<1>4. \A x : x \in In(w) <=> \E l \in Lists : \E i \in 1..Len(w[l]) : w[l][i] = x
  BY <1>2 DEF In
<1> QED  BY <1>3, <1>4

LEMMA ApartInjective ==
  ASSUME NEW w \in [Lists -> Seq(Nodes)], Apart(w), NEW l \in Lists
  PROVE  IsInjective(w[l])
<1>1. DOMAIN w[l] = 1..Len(w[l])  OBVIOUS
<1>2. ASSUME NEW a \in 1..Len(w[l]), NEW b \in 1..Len(w[l]), w[l][a] = w[l][b] PROVE a = b
  BY <1>2 DEF Apart
<1> QED  BY <1>1, <1>2 DEF IsInjective

LEMMA ShapeFound ==
  ASSUME NEW w, NEW rt, NEW cnt, NEW nx, Shape(w, rt, cnt, nx)
  PROVE  w = [l \in Lists |-> WalkIn(nx, rt[l])]
<1>1. ASSUME NEW l \in Lists PROVE WalkIn(nx, rt[l]) = w[l]
  <2>1. w[l] \in Seq(Nodes) /\ DOMAIN w[l] = 1..Len(w[l])  BY DEF Shape
  <2>2. IsInjective(w[l])  BY ApartInjective DEF Shape
  <2>3. Chain(nx, rt[l], w[l])  BY DEF Shape
  <2> QED  BY <2>1, <2>2, <2>3, WalkFindsList
<1>2. w = [l \in Lists |-> w[l]]  BY DEF Shape
<1> QED  BY <1>1, <1>2

(***************************************************************************)
(* Pointers that no list uses may change.                                  *)
(***************************************************************************)
LEMMA ShapeStays ==
  ASSUME NEW w, NEW rt, NEW cnt, NEW nx, Shape(w, rt, cnt, nx),
         NEW ny, \A x \in In(w) : ny[x] = nx[x]
  PROVE  Shape(w, rt, cnt, ny)
<1>1. w \in [Lists -> Seq(Nodes)]  BY DEF Shape
<1>2. ASSUME NEW l \in Lists PROVE Chain(ny, rt[l], w[l]) /\ cnt[l] = Len(w[l])
  <2>1. Chain(nx, rt[l], w[l]) /\ cnt[l] = Len(w[l])  BY DEF Shape
  <2>2. \A i \in 1..Len(w[l]) : ny[w[l][i]] = nx[w[l][i]]  BY <1>1, InNodes
  <2> QED  BY <2>1, <2>2 DEF Chain
<1> QED  BY <1>1, <1>2 DEF Shape

(***************************************************************************)
(* A node that is in no list is linked in at position i of list s: the     *)
(* root or the node before points to it, and it to what was there.         *)
(***************************************************************************)
Linked(s, i, x, p, nx, p2, nx2) ==
  /\ p2 = IF i = 1 THEN x ELSE p
  /\ nx2[x] = NodeAt(s, i)
  /\ i > 1 => nx2[s[i - 1]] = x
  /\ \A y \in Nodes : y # x /\ ~(i > 1 /\ y = s[i - 1]) => nx2[y] = nx[y]

LEMMA LinkChain ==
  ASSUME NEW s \in Seq(Nodes), NEW p, NEW nx, Chain(nx, p, s),
         IsInjective(s), NEW i \in 1..Len(s) + 1, NEW x \in Nodes, x \notin ToSet(s),
         NEW p2, NEW nx2, Linked(s, i, x, p, nx, p2, nx2)
  PROVE  Chain(nx2, p2, Inserted(s, i, x))
<1> DEFINE r == Inserted(s, i, x)
<1>1. Len(s) \in Nat /\ Len(r) = Len(s) + 1  BY InsertedType
<1>2. \A j \in 1..Len(s) + 1 : r[j] = IF j < i THEN s[j] ELSE IF j = i THEN x ELSE s[j - 1]
  BY DEF Inserted
<1> HIDE DEF r
<1>3. \A j \in 1..Len(s) : s[j] \in Nodes /\ NodeAt(s, j) = s[j] /\ nx[s[j]] = NodeAt(s, j + 1)
  BY DEF Chain, NodeAt
<1> /\ p2 = IF i = 1 THEN x ELSE p
    /\ nx2[x] = NodeAt(s, i)
    /\ i > 1 => nx2[s[i - 1]] = x
    /\ \A y \in Nodes : y # x /\ ~(i > 1 /\ y = s[i - 1]) => nx2[y] = nx[y]
  BY DEF Linked
<1> \A a, b \in 1..Len(s) : s[a] = s[b] => a = b  BY DEF IsInjective
<1> \A a \in 1..Len(s) : s[a] # x  BY DEF ToSet
<1>4. p2 = NodeAt(r, 1)
  <2>1. CASE i = 1  BY <1>1, <1>2, <2>1 DEF NodeAt
  <2>2. CASE i # 1
    <3>1. 1 < i /\ 1 \in 1..Len(s) + 1 /\ 1 \in 1..Len(s)  BY <1>1, <2>2
    <3>2. NodeAt(r, 1) = s[1]  BY <1>1, <1>2, <3>1 DEF NodeAt
    <3>3. p = s[1]  BY <1>3, <3>1 DEF Chain
    <3> QED  BY <2>2, <3>2, <3>3
  <2> QED  BY <2>1, <2>2
<1>5. ASSUME NEW j \in 1..Len(r) PROVE nx2[r[j]] = NodeAt(r, j + 1)
  <2>1. CASE j < i - 1
    <3>1. j \in 1..Len(s) /\ j + 1 \in 1..Len(s) /\ j + 1 \in 1..Len(r) /\ i - 1 \in 1..Len(s)
          /\ j < i /\ j + 1 < i /\ i > 1
      BY <1>1, <2>1
    <3>2. r[j] = s[j] /\ r[j + 1] = s[j + 1]  BY <1>1, <1>2, <3>1
    <3>3. s[j] # s[i - 1] /\ s[j] # x  BY <2>1, <3>1
    <3>4. nx2[s[j]] = nx[s[j]]  BY <1>3, <3>1, <3>3
    <3>5. nx[s[j]] = s[j + 1]  BY <1>3, <3>1
    <3> QED  BY <3>1, <3>2, <3>4, <3>5 DEF NodeAt
  <2>2. CASE j = i - 1
    <3>1. j \in 1..Len(s) /\ i \in 1..Len(r) /\ j < i /\ i > 1 /\ j + 1 = i  BY <1>1, <1>5, <2>2
    <3>2. r[j] = s[i - 1] /\ r[i] = x  BY <1>1, <1>2, <2>2, <3>1
    <3> QED  BY <3>1, <3>2 DEF NodeAt
  <2>3. CASE j = i
    <3>1. r[j] = x  BY <1>1, <1>2, <2>3
    <3>2. CASE i <= Len(s)
      <4>1. i + 1 \in 1..Len(r) /\ ~(i + 1 < i) /\ i + 1 # i /\ (i + 1) - 1 = i  BY <1>1, <3>2
      <4>2. r[i + 1] = s[i]  BY <1>1, <1>2, <4>1
      <4> QED  BY <2>3, <3>1, <3>2, <4>1, <4>2 DEF NodeAt
    <3>3. CASE ~(i <= Len(s))
      <4>1. ~(i + 1 <= Len(r))  BY <1>1, <3>3
      <4> QED  BY <2>3, <3>1, <3>3, <4>1 DEF NodeAt
    <3> QED  BY <3>2, <3>3
  <2>4. CASE j > i
    <3>1. j - 1 \in 1..Len(s) /\ (j - 1) + 1 = j /\ ~(j < i) /\ j # i  BY <1>1, <1>5, <2>4
    <3>2. r[j] = s[j - 1]  BY <1>1, <1>2, <3>1
    <3>3. ~(i > 1 /\ s[j - 1] = s[i - 1])
      <4>1. i > 1 => i - 1 \in 1..Len(s) /\ i - 1 # j - 1  BY <1>1, <2>4
      <4> QED  BY <3>1, <4>1
    <3>4. nx2[s[j - 1]] = nx[s[j - 1]]  BY <1>3, <3>1, <3>3
    <3>5. nx[s[j - 1]] = NodeAt(s, j)  BY <1>3, <3>1
    <3>6. NodeAt(s, j) = NodeAt(r, j + 1)
      <4>1. CASE j <= Len(s)
        <5>1. j + 1 \in 1..Len(r) /\ ~(j + 1 < i) /\ j + 1 # i /\ (j + 1) - 1 = j
          BY <1>1, <2>4, <4>1
        <5> QED  BY <1>1, <1>2, <4>1, <5>1 DEF NodeAt
      <4>2. CASE ~(j <= Len(s))
        <5>1. ~(j + 1 <= Len(r))  BY <1>1, <4>2
        <5> QED  BY <4>2, <5>1 DEF NodeAt
      <4> QED  BY <4>1, <4>2
    <3> QED  BY <3>2, <3>4, <3>5, <3>6
  <2>5. j < i - 1 \/ j = i - 1 \/ j = i \/ j > i  BY <1>1, <1>5
  <2> QED  BY <2>1, <2>2, <2>3, <2>4, <2>5
<1> QED  BY <1>4, <1>5 DEF Chain, r

Elsewhere(f, g, l) == \A m \in Lists : m # l => f[m] = g[m]

LinkedIn(l, i, x, w, rt, cnt, nx, v, rt2, cnt2, nx2) ==
  /\ i \in 1..Len(w[l]) + 1 /\ x \in Nodes /\ x \notin In(w)
  /\ Linked(w[l], i, x, rt[l], nx, rt2[l], nx2)
  /\ Elsewhere(rt2, rt, l)
  /\ cnt \in [Lists -> Nat] /\ cnt2 = [cnt EXCEPT ![l] = @ + 1]
  /\ v = [w EXCEPT ![l] = Inserted(w[l], i, x)]

LEMMA LinkShape ==
  ASSUME NEW w, NEW rt, NEW cnt, NEW nx, Shape(w, rt, cnt, nx),
         NEW l \in Lists, NEW i, NEW x, NEW v, NEW rt2, NEW cnt2, NEW nx2,
         LinkedIn(l, i, x, w, rt, cnt, nx, v, rt2, cnt2, nx2)
  PROVE  Shape(v, rt2, cnt2, nx2) /\ In(v) = In(w) \cup {x}
<1> DEFINE s == w[l]
<1> /\ i \in 1..Len(s) + 1 /\ x \in Nodes /\ x \notin In(w)
    /\ Linked(s, i, x, rt[l], nx, rt2[l], nx2) /\ Elsewhere(rt2, rt, l)
  BY DEF LinkedIn
<1>1. w \in [Lists -> Seq(Nodes)] /\ s \in Seq(Nodes) /\ Len(s) \in Nat  BY DEF Shape
<1>2. Inserted(s, i, x) \in Seq(Nodes) /\ Len(Inserted(s, i, x)) = Len(s) + 1
  BY <1>1, InsertedType
<1>3. v \in [Lists -> Seq(Nodes)] /\ v[l] = Inserted(s, i, x) /\ \A m \in Lists : m # l => v[m] = w[m]
  BY <1>1, <1>2 DEF LinkedIn
<1>4. \A j \in 1..Len(s) + 1 : v[l][j] = IF j < i THEN s[j] ELSE IF j = i THEN x ELSE s[j - 1]
  BY <1>3 DEF Inserted
<1>5. \A m \in Lists : \A j \in 1..Len(w[m]) : w[m][j] # x /\ w[m][j] \in Nodes
  BY <1>1, InNodes
<1>6. Chain(nx2, rt2[l], v[l])
  <2>1. Chain(nx, rt[l], s) /\ Linked(s, i, x, rt[l], nx, rt2[l], nx2)  BY DEF Shape
  <2>2. IsInjective(s)  BY <1>1, ApartInjective DEF Shape
  <2>3. x \notin ToSet(s)  BY <1>1, <1>5 DEF ToSet
  <2>4. i \in 1..Len(s) + 1  OBVIOUS
  <2> HIDE DEF s
  <2>5. Chain(nx2, rt2[l], Inserted(s, i, x))  BY <1>1, <2>1, <2>2, <2>3, <2>4, LinkChain
  <2> QED  BY <1>3, <2>5
<1>7. ASSUME NEW m \in Lists, m # l PROVE Chain(nx2, rt2[m], v[m])
  <2>1. Chain(nx, rt[m], w[m])  BY DEF Shape
  <2>2. rt2[m] = rt[m]  BY <1>7 DEF Elsewhere
  <2>3. ASSUME NEW j \in 1..Len(w[m]) PROVE nx2[w[m][j]] = nx[w[m][j]]
    <3>1. w[m][j] # x /\ w[m][j] \in Nodes  BY <1>5
    <3>2. i > 1 => i - 1 \in 1..Len(s)  BY <1>1
    <3>3. i > 1 => w[m][j] # s[i - 1]  BY <1>7, <3>2 DEF Shape, Apart
    <3> QED  BY <3>1, <3>3 DEF Linked
  <2> QED  BY <1>3, <1>7, <2>1, <2>2, <2>3 DEF Chain
<1>8. ASSUME NEW m \in Lists PROVE cnt2[m] = Len(v[m])
  <2>1. cnt[m] = Len(w[m])  BY DEF Shape
  <2> QED  BY <1>1, <1>2, <1>3, <2>1 DEF LinkedIn
<1>9. Apart(v)
  <2> DEFINE Old(m, j) == IF m # l \/ j < i THEN j ELSE j - 1
  <2>1. ASSUME NEW m \in Lists, NEW j \in 1..Len(v[m])
        PROVE  IF m = l /\ j = i THEN v[m][j] = x
               ELSE Old(m, j) \in 1..Len(w[m]) /\ v[m][j] = w[m][Old(m, j)]
    <3>1. CASE m = l /\ j < i  BY <1>1, <1>2, <1>3, <1>4, <2>1, <3>1
    <3>2. CASE m = l /\ j = i  BY <1>1, <1>2, <1>3, <1>4, <2>1, <3>2
    <3>3. CASE m = l /\ j > i
      <4>1. j \in 1..Len(s) + 1  BY <1>2, <1>3, <2>1, <3>3
      <4>2. j - 1 \in 1..Len(s) /\ ~(j < i) /\ j # i  BY <1>1, <3>3, <4>1
      <4> QED  BY <1>4, <3>3, <4>1, <4>2
    <3>4. CASE m # l  BY <1>3, <3>4
    <3>5. j < i \/ j = i \/ j > i  BY <1>1, <1>3, <2>1
    <3> QED  BY <3>1, <3>2, <3>3, <3>4, <3>5
  <2>2. \A m \in Lists : \A j, k \in 1..Len(v[m]) :
          ~(m = l /\ (j = i \/ k = i)) /\ Old(m, j) = Old(m, k) => j = k
    BY <1>1, <1>3
  <2> HIDE DEF Old, s
  <2>3. ASSUME NEW a \in Lists, NEW b \in Lists, NEW j \in 1..Len(v[a]), NEW k \in 1..Len(v[b]),
               v[a][j] = v[b][k]
        PROVE  a = b /\ j = k
    <3>1. CASE a = l /\ j = i
      <4>1. v[b][k] = x  BY <2>1, <2>3, <3>1
      <4>2. b = l /\ k = i  BY <1>5, <2>1, <4>1
      <4> QED  BY <3>1, <4>2
    <3>2. CASE b = l /\ k = i
      <4>1. v[a][j] = x  BY <2>1, <2>3, <3>2
      <4>2. a = l /\ j = i  BY <1>5, <2>1, <4>1
      <4> QED  BY <3>2, <4>2
    <3>3. CASE ~(a = l /\ j = i) /\ ~(b = l /\ k = i)
      <4>1. PICK c \in 1..Len(w[a]) : c = Old(a, j) /\ v[a][j] = w[a][c]  BY <2>1, <3>3
      <4>2. PICK d \in 1..Len(w[b]) : d = Old(b, k) /\ v[b][k] = w[b][d]  BY <2>1, <3>3
      <4>3. w[a][c] = w[b][d]  BY <2>3, <4>1, <4>2
      <4>4. Apart(w)  BY DEF Shape
      <4>5. a = b /\ c = d  BY <4>3, <4>4 DEF Apart
      <4> QED  BY <2>2, <3>3, <4>1, <4>2, <4>5
    <3> QED  BY <3>1, <3>2, <3>3
  <2> QED  BY <2>3 DEF Apart
<1>10. In(v) = In(w) \cup {x}
  <2>1. \A y : y \in In(v) <=> \E m \in Lists : \E j \in 1..Len(v[m]) : v[m][j] = y
    BY <1>3, InNodes
  <2>2. \A y : y \in In(w) <=> \E m \in Lists : \E j \in 1..Len(w[m]) : w[m][j] = y
    BY <1>1, InNodes
  <2>3. ASSUME NEW m \in Lists, NEW j \in 1..Len(w[m])
        PROVE  \E k \in 1..Len(v[m]) : v[m][k] = w[m][j]
    <3>1. CASE m # l  BY <1>3, <3>1
    <3>2. CASE m = l /\ j < i
      <4>1. j \in 1..Len(s) + 1 /\ v[l][j] = s[j]  BY <1>1, <1>4, <2>3, <3>2
      <4> QED  BY <1>2, <1>3, <3>2, <4>1
    <3>3. CASE m = l /\ j >= i
      <4>1. j \in 1..Len(s)  BY <2>3, <3>3
      <4>2. j + 1 \in 1..Len(s) + 1 /\ ~(j + 1 < i) /\ j + 1 # i /\ (j + 1) - 1 = j
        BY <1>1, <3>3, <4>1
      <4>3. v[l][j + 1] = s[j]  BY <1>4, <4>2
      <4> QED  BY <1>2, <1>3, <3>3, <4>2, <4>3
    <3>4. j < i \/ j >= i  BY <1>1, <2>3
    <3> QED  BY <3>1, <3>2, <3>3, <3>4
  <2>4. i \in 1..Len(v[l]) /\ v[l][i] = x  BY <1>1, <1>2, <1>3, <1>4
  <2>5. ASSUME NEW m \in Lists, NEW j \in 1..Len(v[m])
        PROVE  v[m][j] = x \/ \E k \in 1..Len(w[m]) : v[m][j] = w[m][k]
    <3>1. CASE m # l  BY <1>3, <3>1
    <3>2. CASE m = l
      <4>1. j \in 1..Len(s) + 1  BY <1>2, <1>3, <2>5, <3>2
      <4>2. j < i => j \in 1..Len(s)  BY <1>1, <4>1
      <4>3. ~(j < i) /\ j # i => j - 1 \in 1..Len(s)  BY <1>1, <4>1
      <4> QED  BY <1>4, <3>2, <4>1, <4>2, <4>3
    <3> QED  BY <3>1, <3>2
  <2>6. ASSUME NEW y \in In(w) PROVE y \in In(v)  BY <2>1, <2>2, <2>3
  <2>7. x \in In(v)  BY <2>1, <2>4
  <2>8. ASSUME NEW y \in In(v) PROVE y = x \/ y \in In(w)
    <3>1. PICK m \in Lists : \E j \in 1..Len(v[m]) : v[m][j] = y  BY <2>1
    <3>2. PICK j \in 1..Len(v[m]) : v[m][j] = y  BY <3>1
    <3>3. y = x \/ \E k \in 1..Len(w[m]) : w[m][k] = y  BY <2>5, <3>2
    <3> QED  BY <2>2, <3>3
  <2> QED  BY <2>6, <2>7, <2>8
<1> QED  BY <1>3, <1>6, <1>7, <1>8, <1>9, <1>10 DEF Shape
(***************************************************************************)
(* The node at position i is taken out: the root or the node before points *)
(* to what it pointed to.                                                  *)
(***************************************************************************)
Unlinked(s, i, p, nx, p2, nx2) ==
  /\ p2 = IF i = 1 THEN nx[s[1]] ELSE p
  /\ i > 1 => nx2[s[i - 1]] = nx[s[i]]
  /\ \A y \in Nodes : y # s[i] /\ ~(i > 1 /\ y = s[i - 1]) => nx2[y] = nx[y]

LEMMA UnlinkChain ==
  ASSUME NEW s \in Seq(Nodes), NEW p, NEW nx, Chain(nx, p, s),
         IsInjective(s), NEW i \in 1..Len(s),
         NEW p2, NEW nx2, Unlinked(s, i, p, nx, p2, nx2)
  PROVE  Chain(nx2, p2, Deleted(s, i))
<1> DEFINE r == Deleted(s, i)
<1>1. Len(s) \in Nat /\ Len(r) = Len(s) - 1  BY DeletedType
<1>2. \A j \in 1..Len(s) - 1 : r[j] = IF j < i THEN s[j] ELSE s[j + 1]
  BY DEF Deleted
<1> HIDE DEF r
<1>3. \A j \in 1..Len(s) : s[j] \in Nodes /\ NodeAt(s, j) = s[j] /\ nx[s[j]] = NodeAt(s, j + 1)
  BY DEF Chain, NodeAt
<1> /\ p2 = IF i = 1 THEN nx[s[1]] ELSE p
    /\ i > 1 => nx2[s[i - 1]] = nx[s[i]]
    /\ \A y \in Nodes : y # s[i] /\ ~(i > 1 /\ y = s[i - 1]) => nx2[y] = nx[y]
  BY DEF Unlinked
<1> \A a, b \in 1..Len(s) : s[a] = s[b] => a = b  BY DEF IsInjective
<1>4. ASSUME NEW j \in i..Len(s) PROVE NodeAt(r, j) = NodeAt(s, j + 1)
  <2>1. CASE j < Len(s)
    <3>1. j \in 1..Len(s) - 1 /\ ~(j < i) /\ j + 1 <= Len(s)  BY <1>1, <2>1
    <3>2. r[j] = s[j + 1]  BY <1>2, <3>1
    <3> QED  BY <1>1, <3>1, <3>2 DEF NodeAt
  <2>2. CASE ~(j < Len(s))
    <3>1. ~(j <= Len(s) - 1) /\ ~(j + 1 <= Len(s))  BY <1>1, <2>2
    <3> QED  BY <1>1, <3>1 DEF NodeAt
  <2> QED  BY <2>1, <2>2
<1>5. ASSUME NEW j \in 1..i - 1 PROVE NodeAt(r, j) = s[j]
  <2>1. j \in 1..Len(s) - 1 /\ j < i  BY <1>1
  <2> QED  BY <1>1, <1>2, <2>1 DEF NodeAt
<1>6. p2 = NodeAt(r, 1)
  <2>1. CASE i = 1
    <3>1. 1 \in i..Len(s) /\ 1 \in 1..Len(s)  BY <1>1, <2>1
    <3>2. nx[s[1]] = NodeAt(s, 1 + 1)  BY <1>3, <3>1
    <3> QED  BY <1>4, <2>1, <3>1, <3>2
  <2>2. CASE i # 1
    <3>1. 1 \in 1..i - 1 /\ 1 \in 1..Len(s)  BY <1>1, <2>2
    <3>2. NodeAt(r, 1) = s[1]  BY <1>5, <3>1
    <3>3. p = s[1]  BY <1>3, <3>1 DEF Chain
    <3> QED  BY <2>2, <3>2, <3>3
  <2> QED  BY <2>1, <2>2
<1>7. ASSUME NEW j \in 1..Len(r) PROVE nx2[r[j]] = NodeAt(r, j + 1)
  <2>1. CASE j < i - 1
    <3>1. j \in 1..Len(s) /\ j \in 1..Len(s) - 1 /\ j + 1 \in 1..i - 1 /\ j + 1 \in 1..Len(s)
          /\ i - 1 \in 1..Len(s) /\ j < i
      BY <1>1, <2>1
    <3>2. r[j] = s[j] /\ NodeAt(r, j + 1) = s[j + 1]  BY <1>2, <1>5, <3>1
    <3>3. s[j] # s[i - 1] /\ s[j] # s[i]  BY <2>1, <3>1
    <3>4. nx2[s[j]] = nx[s[j]]  BY <1>3, <3>1, <3>3
    <3>5. nx[s[j]] = s[j + 1]  BY <1>3, <3>1
    <3> QED  BY <3>2, <3>4, <3>5
  <2>2. CASE j = i - 1
    <3>1. j \in 1..Len(s) - 1 /\ j < i /\ i > 1 /\ j + 1 = i /\ i \in i..Len(s)
      BY <1>1, <1>7, <2>2
    <3>2. r[j] = s[i - 1]  BY <1>2, <2>2, <3>1
    <3>3. nx2[s[i - 1]] = NodeAt(s, i + 1)  BY <1>3, <3>1
    <3>4. NodeAt(r, i) = NodeAt(s, i + 1)  BY <1>4, <3>1
    <3> QED  BY <3>1, <3>2, <3>3, <3>4
  <2>3. CASE j >= i
    <3>1. j \in 1..Len(s) - 1 /\ ~(j < i) /\ j + 1 \in 1..Len(s) /\ j + 1 \in i..Len(s) /\ j + 1 # i
      BY <1>1, <1>7, <2>3
    <3>2. r[j] = s[j + 1]  BY <1>2, <3>1
    <3>3. s[j + 1] # s[i]  BY <3>1
    <3>4. ~(i > 1 /\ s[j + 1] = s[i - 1])
      <4>1. i > 1 => i - 1 \in 1..Len(s) /\ i - 1 # j + 1  BY <1>1, <2>3
      <4> QED  BY <3>1, <4>1
    <3>5. nx2[s[j + 1]] = nx[s[j + 1]]  BY <1>3, <3>1, <3>3, <3>4
    <3>6. nx[s[j + 1]] = NodeAt(s, (j + 1) + 1)  BY <1>3, <3>1
    <3>7. NodeAt(r, j + 1) = NodeAt(s, (j + 1) + 1)  BY <1>4, <3>1
    <3> QED  BY <3>2, <3>5, <3>6, <3>7
  <2>4. j < i - 1 \/ j = i - 1 \/ j >= i  BY <1>1, <1>7
  <2> QED  BY <2>1, <2>2, <2>3, <2>4
<1> QED  BY <1>6, <1>7 DEF Chain, r

UnlinkedIn(l, i, w, rt, cnt, nx, v, rt2, cnt2, nx2) ==
  /\ i \in 1..Len(w[l])
  /\ Unlinked(w[l], i, rt[l], nx, rt2[l], nx2)
  /\ Elsewhere(rt2, rt, l)
  /\ cnt \in [Lists -> Nat] /\ cnt2 = [cnt EXCEPT ![l] = @ - 1]
  /\ v = [w EXCEPT ![l] = Deleted(w[l], i)]

LEMMA UnlinkShape ==
  ASSUME NEW w, NEW rt, NEW cnt, NEW nx, Shape(w, rt, cnt, nx),
         NEW l \in Lists, NEW i, NEW v, NEW rt2, NEW cnt2, NEW nx2,
         UnlinkedIn(l, i, w, rt, cnt, nx, v, rt2, cnt2, nx2)
  PROVE  Shape(v, rt2, cnt2, nx2) /\ In(v) = In(w) \ {w[l][i]}
<1> DEFINE s == w[l]
<1> /\ i \in 1..Len(s)
    /\ Unlinked(s, i, rt[l], nx, rt2[l], nx2) /\ Elsewhere(rt2, rt, l)
  BY DEF UnlinkedIn
<1>1. w \in [Lists -> Seq(Nodes)] /\ s \in Seq(Nodes) /\ Len(s) \in Nat  BY DEF Shape
<1>2. Deleted(s, i) \in Seq(Nodes) /\ Len(Deleted(s, i)) = Len(s) - 1
  BY <1>1, DeletedType
<1>3. v \in [Lists -> Seq(Nodes)] /\ v[l] = Deleted(s, i) /\ \A m \in Lists : m # l => v[m] = w[m]
  BY <1>1, <1>2 DEF UnlinkedIn
<1>4. \A j \in 1..Len(s) - 1 : v[l][j] = IF j < i THEN s[j] ELSE s[j + 1]
  BY <1>3 DEF Deleted
<1>5. \A m \in Lists : \A j \in 1..Len(w[m]) : w[m][j] \in Nodes
  BY <1>1, InNodes
<1>6. Apart(w)  BY DEF Shape
<1>7. Chain(nx2, rt2[l], v[l])
  <2>1. Chain(nx, rt[l], s) /\ Unlinked(s, i, rt[l], nx, rt2[l], nx2)  BY DEF Shape
  <2>2. IsInjective(s)  BY <1>1, <1>6, ApartInjective
  <2>3. i \in 1..Len(s)  OBVIOUS
  <2> HIDE DEF s
  <2>4. Chain(nx2, rt2[l], Deleted(s, i))  BY <1>1, <2>1, <2>2, <2>3, UnlinkChain
  <2> QED  BY <1>3, <2>4
<1>8. ASSUME NEW m \in Lists, m # l PROVE Chain(nx2, rt2[m], v[m])
  <2>1. Chain(nx, rt[m], w[m])  BY DEF Shape
  <2>2. rt2[m] = rt[m]  BY <1>8 DEF Elsewhere
  <2>3. ASSUME NEW j \in 1..Len(w[m]) PROVE nx2[w[m][j]] = nx[w[m][j]]
    <3>1. w[m][j] \in Nodes /\ w[m][j] # s[i]  BY <1>5, <1>6, <1>8 DEF Apart
    <3>2. i > 1 => i - 1 \in 1..Len(s)  BY <1>1
    <3>3. i > 1 => w[m][j] # s[i - 1]  BY <1>6, <1>8, <3>2 DEF Apart
    <3> QED  BY <3>1, <3>3 DEF Unlinked
  <2> QED  BY <1>3, <1>8, <2>1, <2>2, <2>3 DEF Chain
<1>9. ASSUME NEW m \in Lists PROVE cnt2[m] = Len(v[m])
  <2>1. cnt[m] = Len(w[m])  BY DEF Shape
  <2> QED  BY <1>1, <1>2, <1>3, <2>1 DEF UnlinkedIn
<1> DEFINE Old(m, j) == IF m # l \/ j < i THEN j ELSE j + 1
<1>10. ASSUME NEW m \in Lists, NEW j \in 1..Len(v[m])
       PROVE  /\ Old(m, j) \in 1..Len(w[m]) /\ v[m][j] = w[m][Old(m, j)]
              /\ ~(m = l /\ Old(m, j) = i)
  <2>1. CASE m = l
    <3>1. j \in 1..Len(s) - 1  BY <1>2, <1>3, <1>10, <2>1
    <3>2. CASE j < i  BY <1>1, <1>4, <2>1, <3>1, <3>2
    <3>3. CASE ~(j < i)  BY <1>1, <1>4, <2>1, <3>1, <3>3
    <3> QED  BY <3>2, <3>3
  <2>2. CASE m # l  BY <1>3, <2>2
  <2> QED  BY <2>1, <2>2
<1>11. \A m \in Lists : \A j, k \in 1..Len(v[m]) : Old(m, j) = Old(m, k) => j = k
  BY <1>1, <1>3
<1>12. ASSUME NEW m \in Lists, NEW j \in 1..Len(w[m]), ~(m = l /\ j = i)
       PROVE  \E k \in 1..Len(v[m]) : v[m][k] = w[m][j]
  <2>1. CASE m # l  BY <1>3, <2>1
  <2>2. CASE m = l /\ j < i
    <3>1. j \in 1..Len(s) - 1 /\ v[l][j] = s[j]  BY <1>1, <1>4, <1>12, <2>2
    <3> QED  BY <1>2, <1>3, <2>2, <3>1
  <2>3. CASE m = l /\ j > i
    <3>1. j \in 1..Len(s)  BY <1>12, <2>3
    <3>2. j - 1 \in 1..Len(s) - 1 /\ ~(j - 1 < i) /\ (j - 1) + 1 = j  BY <1>1, <2>3, <3>1
    <3>3. v[l][j - 1] = s[j]  BY <1>4, <3>2
    <3> QED  BY <1>2, <1>3, <2>3, <3>2, <3>3
  <2>4. j < i \/ j = i \/ j > i  BY <1>1, <1>12
  <2> QED  BY <1>12, <2>1, <2>2, <2>3, <2>4
<1> HIDE DEF Old, s
<1>13. Apart(v)
  <2>1. ASSUME NEW a \in Lists, NEW b \in Lists, NEW j \in 1..Len(v[a]), NEW k \in 1..Len(v[b]),
               v[a][j] = v[b][k]
        PROVE  a = b /\ j = k
    <3>1. PICK c \in 1..Len(w[a]) : c = Old(a, j) /\ v[a][j] = w[a][c]  BY <1>10
    <3>2. PICK d \in 1..Len(w[b]) : d = Old(b, k) /\ v[b][k] = w[b][d]  BY <1>10
    <3>3. w[a][c] = w[b][d]  BY <2>1, <3>1, <3>2
    <3>4. a = b /\ c = d  BY <1>6, <3>3 DEF Apart
    <3> QED  BY <1>11, <3>1, <3>2, <3>4
  <2> QED  BY <2>1 DEF Apart
<1>14. In(v) = In(w) \ {w[l][i]}
  <2>1. \A y : y \in In(v) <=> \E m \in Lists : \E j \in 1..Len(v[m]) : v[m][j] = y
    BY <1>3, InNodes
  <2>2. \A y : y \in In(w) <=> \E m \in Lists : \E j \in 1..Len(w[m]) : w[m][j] = y
    BY <1>1, InNodes
  <2>3. ASSUME NEW y \in In(w), y # w[l][i] PROVE y \in In(v)
    <3>1. PICK m \in Lists : \E j \in 1..Len(w[m]) : w[m][j] = y  BY <2>2
    <3>2. PICK j \in 1..Len(w[m]) : w[m][j] = y  BY <3>1
    <3>3. ~(m = l /\ j = i)  BY <2>3, <3>2
    <3>4. \E k \in 1..Len(v[m]) : v[m][k] = y  BY <1>12, <3>2, <3>3
    <3> QED  BY <2>1, <3>4
  <2>4. ASSUME NEW y \in In(v) PROVE y \in In(w) /\ y # w[l][i]
    <3>1. PICK m \in Lists : \E j \in 1..Len(v[m]) : v[m][j] = y  BY <2>1
    <3>2. PICK j \in 1..Len(v[m]) : v[m][j] = y  BY <3>1
    <3>3. PICK c \in 1..Len(w[m]) : y = w[m][c] /\ ~(m = l /\ c = i)  BY <1>10, <3>2
    <3>4. y # w[l][i]  BY <1>6, <3>3 DEF Apart, s
    <3> QED  BY <2>2, <3>3, <3>4
  <2> QED  BY <2>3, <2>4
<1> QED  BY <1>3, <1>7, <1>8, <1>9, <1>13, <1>14 DEF Shape
-----------------------------------------------------------------------------
(***************************************************************************)
(* The elements in the nodes s.                                            *)
(***************************************************************************)
Named(s, el) == [i \in 1..Len(s) |-> el[s[i]]]

LEMMA NamedType ==
  ASSUME NEW S, NEW s \in Seq(S), NEW el, NEW E, \A i \in 1..Len(s) : el[s[i]] \in E
  PROVE  Named(s, el) \in Seq(E) /\ Len(Named(s, el)) = Len(s)
<1>1. Len(s) \in Nat  OBVIOUS
<1>2. Named(s, el) \in [1..Len(s) -> E]  BY DEF Named
<1> QED  BY <1>1, <1>2

\* The same at all positions of s but i.
SameBut(f, g, s, i) == \A j \in 1..Len(s) : j # i => f[s[j]] = g[s[j]]

LEMMA NamedInserted ==
  ASSUME NEW S, NEW s \in Seq(S), NEW i \in 1..Len(s) + 1, NEW x \in S, NEW el, NEW el2,
         SameBut(el2, el, s, 0)
  PROVE  Named(Inserted(s, i, x), el2) = Inserted(Named(s, el), i, el2[x])
<1>1. Len(s) \in Nat /\ Len(Inserted(s, i, x)) = Len(s) + 1  BY InsertedType
<1>2. Len(Named(s, el)) = Len(s)  BY <1>1 DEF Named
<1>3. ASSUME NEW j \in 1..Len(s) + 1
      PROVE  el2[Inserted(s, i, x)[j]]
               = IF j < i THEN Named(s, el)[j] ELSE IF j = i THEN el2[x] ELSE Named(s, el)[j - 1]
  <2>1. Inserted(s, i, x)[j] = IF j < i THEN s[j] ELSE IF j = i THEN x ELSE s[j - 1]
    BY DEF Inserted
  <2>2. CASE j < i
    <3>1. j \in 1..Len(s) /\ j # 0  BY <1>1, <2>2
    <3> QED  BY <2>1, <2>2, <3>1 DEF Named, SameBut
  <2>3. CASE j = i  BY <2>1, <2>3
  <2>4. CASE j > i
    <3>1. j - 1 \in 1..Len(s) /\ j - 1 # 0 /\ ~(j < i) /\ j # i  BY <1>1, <2>4
    <3> QED  BY <2>1, <3>1 DEF Named, SameBut
  <2>5. j < i \/ j = i \/ j > i  BY <1>1
  <2> QED  BY <2>2, <2>3, <2>4, <2>5
<1>4. Named(Inserted(s, i, x), el2) = [j \in 1..Len(s) + 1 |-> el2[Inserted(s, i, x)[j]]]
  BY <1>1 DEF Named
<1>5. Inserted(Named(s, el), i, el2[x])
        = [j \in 1..Len(s) + 1 |-> IF j < i THEN Named(s, el)[j]
                                   ELSE IF j = i THEN el2[x] ELSE Named(s, el)[j - 1]]
  BY <1>2 DEF Inserted
<1> QED  BY <1>3, <1>4, <1>5

LEMMA NamedDeleted ==
  ASSUME NEW S, NEW s \in Seq(S), NEW i \in 1..Len(s), NEW el, NEW el2,
         SameBut(el2, el, s, i)
  PROVE  Named(Deleted(s, i), el2) = Deleted(Named(s, el), i)
<1>1. Len(s) \in Nat /\ Len(Deleted(s, i)) = Len(s) - 1  BY DeletedType
<1>2. Len(Named(s, el)) = Len(s)  BY <1>1 DEF Named
<1>3. ASSUME NEW j \in 1..Len(s) - 1
      PROVE  el2[Deleted(s, i)[j]] = IF j < i THEN Named(s, el)[j] ELSE Named(s, el)[j + 1]
  <2>1. Deleted(s, i)[j] = IF j < i THEN s[j] ELSE s[j + 1]  BY DEF Deleted
  <2>2. CASE j < i
    <3>1. j \in 1..Len(s) /\ j # i  BY <1>1, <2>2
    <3> QED  BY <2>1, <2>2, <3>1 DEF Named, SameBut
  <2>3. CASE ~(j < i)
    <3>1. j + 1 \in 1..Len(s) /\ j + 1 # i  BY <1>1, <2>3
    <3> QED  BY <2>1, <2>3, <3>1 DEF Named, SameBut
  <2> QED  BY <2>2, <2>3
<1>4. Named(Deleted(s, i), el2) = [j \in 1..Len(s) - 1 |-> el2[Deleted(s, i)[j]]]
  BY <1>1 DEF Named
<1>5. Deleted(Named(s, el), i)
        = [j \in 1..Len(s) - 1 |-> IF j < i THEN Named(s, el)[j] ELSE Named(s, el)[j + 1]]
  BY <1>2 DEF Deleted
<1> QED  BY <1>3, <1>4, <1>5

LEMMA NamedSame ==
  ASSUME NEW s, NEW el, NEW el2, \A j \in 1..Len(s) : el2[s[j]] = el[s[j]]
  PROVE  Named(s, el2) = Named(s, el)
BY DEF Named

(***************************************************************************)
(* Sorted insertion and deletion in these terms.                           *)
(***************************************************************************)
Fits(s, i, e) ==
  /\ \A a \in 1..i - 1 : Key[s[a]] < Key[e]
  /\ i <= Len(s) => Key[e] <= Key[s[i]]

LEMMA InsertedAscending ==
  ASSUME NEW s \in Seq(Elems), NEW e \in Elems, NEW i \in 1..Len(s) + 1,
         Fits(s, i, e), Ascending(s, Key)
  PROVE  Ascending(Inserted(s, i, e), Key)
<1>1. Inserted(s, i, e) = InsertAt(s, i, e)  BY InsertAtInserted
<1>2. Key \in [Elems -> Int]  BY HeapAssumption
<1>3. \A a \in 1..i - 1 : Key[s[a]] < Key[e]  BY DEF Fits
<1>4. i <= Len(s) => Key[e] <= Key[s[i]]  BY DEF Fits
<1>5. Ascending(InsertAt(s, i, e), Key)  BY <1>2, <1>3, <1>4, InsertAscending
<1> QED  BY <1>1, <1>5

LEMMA DeletedAscending ==
  ASSUME NEW S, NEW s \in Seq(S), NEW i \in 1..Len(s), Ascending(s, Key)
  PROVE  Ascending(Deleted(s, i), Key)
<1> DEFINE r == Deleted(s, i)
           Old(j) == IF j < i THEN j ELSE j + 1
<1>1. Len(s) \in Nat /\ Len(r) = Len(s) - 1  BY DeletedType
<1>2. \A j \in 1..Len(s) - 1 : r[j] = s[Old(j)]  BY DEF Deleted
<1> HIDE DEF r
<1>3. \A j \in 1..Len(r) : Old(j) \in 1..Len(s) /\ r[j] = s[Old(j)]  BY <1>1, <1>2
<1>4. \A a, b \in 1..Len(r) : a <= b => Old(a) <= Old(b)  BY <1>1
<1> HIDE DEF Old
<1>5. ASSUME NEW a \in 1..Len(r), NEW b \in 1..Len(r), a <= b PROVE Key[r[a]] <= Key[r[b]]
  <2>1. Old(a) \in 1..Len(s) /\ Old(b) \in 1..Len(s) /\ Old(a) <= Old(b)  BY <1>3, <1>4, <1>5
  <2>2. Key[s[Old(a)]] <= Key[s[Old(b)]]  BY <2>1 DEF Ascending
  <2>3. r[a] = s[Old(a)] /\ r[b] = s[Old(b)]  BY <1>3
  <2> QED  BY <2>2, <2>3
<1> QED  BY <1>5 DEF Ascending, r
-----------------------------------------------------------------------------
(***************************************************************************)
(* The heap at rest: w gives the nodes of the lists, whose elements are    *)
(* there, in order where the list is a sorted one.                         *)
(***************************************************************************)
Places ==
  /\ root \in [Lists -> Nodes \cup {NULL}]
  /\ n \in [Lists -> Nat]
  /\ next \in [Nodes -> Nodes \cup {NULL, Junk}]
  /\ elem \in [Nodes -> Elems \cup {Junk}]

Body(w) ==
  /\ Places
  /\ Shape(w, root, n, next)
  /\ \A x \in In(w) : elem[x] \in Elems
  /\ \A l \in SortedLists : Ascending(Named(w[l], elem), Key)

LEMMA BodyNamed ==
  ASSUME NEW w, Body(w), NEW l \in Lists
  PROVE  /\ w[l] \in Seq(Nodes) /\ Len(w[l]) \in Nat
         /\ Named(w[l], elem) \in Seq(Elems) /\ Len(Named(w[l], elem)) = Len(w[l])
         /\ \A i \in 1..Len(w[l]) : /\ w[l][i] \in Nodes /\ elem[w[l][i]] \in Elems
                                    /\ Named(w[l], elem)[i] = elem[w[l][i]]
<1>1. w \in [Lists -> Seq(Nodes)] /\ w[l] \in Seq(Nodes) /\ Len(w[l]) \in Nat  BY DEF Body, Shape
<1>2. \A i \in 1..Len(w[l]) : w[l][i] \in In(w) /\ w[l][i] \in Nodes  BY <1>1, InNodes
<1>3. \A i \in 1..Len(w[l]) : elem[w[l][i]] \in Elems  BY <1>2 DEF Body
<1>4. Named(w[l], elem) \in Seq(Elems) /\ Len(Named(w[l], elem)) = Len(w[l])
  BY <1>1, <1>3, NamedType
<1> QED  BY <1>1, <1>2, <1>3, <1>4 DEF Named

LEMMA BodyContents ==
  ASSUME NEW w, Body(w)
  PROVE  w = Walks /\ \A l \in Lists : Walk(l) = w[l] /\ Contents(l) = Named(w[l], elem)
<1>1. w = [l \in Lists |-> WalkIn(next, root[l])]  BY ShapeFound DEF Body
<1>2. w = Walks /\ \A l \in Lists : Walk(l) = w[l]  BY <1>1 DEF Walks, Walk, WalkFrom
<1>3. ASSUME NEW l \in Lists PROVE Contents(l) = Named(w[l], elem)
  <2>1. w[l] \in Seq(Nodes) /\ \A i \in 1..Len(w[l]) : w[l][i] \in Nodes  BY BodyNamed
  <2>2. Contents(l) = [i \in DOMAIN w[l] |-> Elem(w[l][i])]  BY <1>2 DEF Contents
  <2>3. DOMAIN w[l] = 1..Len(w[l])  BY <2>1
  <2> QED  BY <2>1, <2>2, <2>3 DEF Elem, Named
<1> QED  BY <1>2, <1>3

(***************************************************************************)
(* What linking a node in, taking one out and changing others does to it.  *)
(***************************************************************************)
LinksIn(l, i, x, e, w) ==
  /\ Places'
  /\ i \in 1..Len(w[l]) + 1 /\ x \in Nodes /\ x \notin In(w)
  /\ Linked(w[l], i, x, root[l], next, root'[l], next') /\ Elsewhere(root', root, l)
  /\ n' = [n EXCEPT ![l] = @ + 1]
  /\ e \in Elems /\ elem'[x] = e /\ \A y \in Nodes : y # x => elem'[y] = elem[y]

TakesOut(l, i, w) ==
  /\ Places'
  /\ i \in 1..Len(w[l])
  /\ Unlinked(w[l], i, root[l], next, root'[l], next') /\ Elsewhere(root', root, l)
  /\ n' = [n EXCEPT ![l] = @ - 1]
  /\ \A y \in Nodes : y # w[l][i] => elem'[y] = elem[y]

Gets(v, w, l, s) == v = [w EXCEPT ![l] = s]

LEMMA LinkBody ==
  ASSUME NEW w, Body(w), NEW l \in Lists, NEW i, NEW x, NEW e, LinksIn(l, i, x, e, w),
         l \in SortedLists => Fits(Named(w[l], elem), i, e),
         NEW v, Gets(v, w, l, Inserted(w[l], i, x))
  PROVE  /\ Body(v)' /\ In(v) = In(w) \cup {x}
         /\ Named(v[l], elem') = Inserted(Named(w[l], elem), i, e)
         /\ \A m \in Lists : m # l => Named(v[m], elem') = Named(w[m], elem)
<1> /\ Places'
    /\ i \in 1..Len(w[l]) + 1 /\ x \in Nodes /\ x \notin In(w)
    /\ e \in Elems /\ elem'[x] = e /\ \A y \in Nodes : y # x => elem'[y] = elem[y]
  BY DEF LinksIn
<1>1. /\ Shape(w, root, n, next) /\ Places
      /\ w \in [Lists -> Seq(Nodes)]
  BY DEF Body, Shape
<1>2. Shape(v, root', n', next') /\ In(v) = In(w) \cup {x}
  <2>1. LinkedIn(l, i, x, w, root, n, next, v, root', n', next')
    BY DEF LinkedIn, LinksIn, Gets, Body, Places
  <2>2. Shape(w, root, n, next)  BY DEF Body
  <2> QED  BY <2>1, <2>2, LinkShape
<1>3. \A m \in Lists : \A j \in 1..Len(w[m]) : w[m][j] \in Nodes /\ w[m][j] # x
  BY <1>1, InNodes
<1>4. \A y \in In(v) : elem'[y] \in Elems
  <2>1. In(w) \subseteq Nodes  BY <1>1, InNodes
  <2> QED  BY <1>2, <2>1 DEF Body
<1>5. Named(v[l], elem') = Inserted(Named(w[l], elem), i, e)
  <2>1. v[l] = Inserted(w[l], i, x)  BY <1>1 DEF Gets
  <2>2. w[l] \in Seq(Nodes) /\ SameBut(elem', elem, w[l], 0)  BY <1>1, <1>3 DEF SameBut
  <2>3. Named(Inserted(w[l], i, x), elem') = Inserted(Named(w[l], elem), i, e)
    BY <2>2, NamedInserted
  <2> QED  BY <2>1, <2>3
<1>6. ASSUME NEW m \in Lists, m # l PROVE Named(v[m], elem') = Named(w[m], elem)
  <2>1. v[m] = w[m]  BY <1>1, <1>6 DEF Gets
  <2>2. \A j \in 1..Len(w[m]) : elem'[w[m][j]] = elem[w[m][j]]  BY <1>3
  <2>3. Named(w[m], elem') = Named(w[m], elem)  BY <2>2, NamedSame
  <2> QED  BY <2>1, <2>3
<1>7. ASSUME NEW m \in SortedLists PROVE Ascending(Named(v[m], elem'), Key)
  <2>1. Ascending(Named(w[m], elem), Key) /\ m \in Lists  BY DEF Body, Lists
  <2>2. CASE m # l  BY <1>6, <2>1, <2>2
  <2>3. CASE m = l
    <3> DEFINE s == Named(w[l], elem)
    <3>1. s \in Seq(Elems) /\ Len(s) = Len(w[l])  BY BodyNamed
    <3>2. Fits(s, i, e) /\ i \in 1..Len(s) + 1 /\ Ascending(s, Key)  BY <2>1, <2>3, <3>1
    <3> HIDE DEF s
    <3>3. Ascending(Inserted(s, i, e), Key)  BY <3>1, <3>2, InsertedAscending
    <3> QED  BY <1>5, <2>3, <3>3 DEF s
  <2> QED  BY <2>2, <2>3
<1> QED  BY <1>2, <1>4, <1>5, <1>6, <1>7 DEF Body

LEMMA UnlinkBody ==
  ASSUME NEW w, Body(w), NEW l \in Lists, NEW i, TakesOut(l, i, w),
         NEW v, Gets(v, w, l, Deleted(w[l], i))
  PROVE  /\ Body(v)' /\ In(v) = In(w) \ {w[l][i]}
         /\ Named(v[l], elem') = Deleted(Named(w[l], elem), i)
         /\ \A m \in Lists : m # l => Named(v[m], elem') = Named(w[m], elem)
<1> /\ Places'
    /\ i \in 1..Len(w[l])
    /\ \A y \in Nodes : y # w[l][i] => elem'[y] = elem[y]
  BY DEF TakesOut
<1>1. /\ Shape(w, root, n, next) /\ Places /\ Apart(w)
      /\ w \in [Lists -> Seq(Nodes)]
  BY DEF Body, Shape
<1>2. Shape(v, root', n', next') /\ In(v) = In(w) \ {w[l][i]}
  <2>1. UnlinkedIn(l, i, w, root, n, next, v, root', n', next')
    BY DEF UnlinkedIn, TakesOut, Gets, Body, Places
  <2>2. Shape(w, root, n, next)  BY DEF Body
  <2> QED  BY <2>1, <2>2, UnlinkShape
<1>3. \A m \in Lists : \A j \in 1..Len(w[m]) :
        w[m][j] \in Nodes /\ (w[m][j] = w[l][i] => m = l /\ j = i)
  BY <1>1, InNodes DEF Apart
<1>4. \A y \in In(v) : elem'[y] \in Elems
  <2>1. In(w) \subseteq Nodes  BY <1>1, InNodes
  <2> QED  BY <1>2, <2>1 DEF Body
<1>5. Named(v[l], elem') = Deleted(Named(w[l], elem), i)
  <2>1. v[l] = Deleted(w[l], i)  BY <1>1 DEF Gets
  <2>2. w[l] \in Seq(Nodes) /\ SameBut(elem', elem, w[l], i)  BY <1>1, <1>3 DEF SameBut
  <2>3. Named(Deleted(w[l], i), elem') = Deleted(Named(w[l], elem), i)
    BY <2>2, NamedDeleted
  <2> QED  BY <2>1, <2>3
<1>6. ASSUME NEW m \in Lists, m # l PROVE Named(v[m], elem') = Named(w[m], elem)
  <2>1. v[m] = w[m]  BY <1>1, <1>6 DEF Gets
  <2>2. \A j \in 1..Len(w[m]) : elem'[w[m][j]] = elem[w[m][j]]  BY <1>3, <1>6
  <2>3. Named(w[m], elem') = Named(w[m], elem)  BY <2>2, NamedSame
  <2> QED  BY <2>1, <2>3
<1>7. ASSUME NEW m \in SortedLists PROVE Ascending(Named(v[m], elem'), Key)
  <2>1. Ascending(Named(w[m], elem), Key) /\ m \in Lists  BY DEF Body, Lists
  <2>2. CASE m # l  BY <1>6, <2>1, <2>2
  <2>3. CASE m = l
    <3> DEFINE s == Named(w[l], elem)
    <3>1. s \in Seq(Elems) /\ i \in 1..Len(s) /\ Ascending(s, Key)  BY <2>1, <2>3, BodyNamed
    <3> HIDE DEF s
    <3>2. Ascending(Deleted(s, i), Key)  BY <3>1, DeletedAscending
    <3> QED  BY <1>5, <2>3, <3>2 DEF s
  <2> QED  BY <2>2, <2>3
<1> QED  BY <1>2, <1>4, <1>5, <1>6, <1>7 DEF Body

LEMMA SameBody ==
  ASSUME NEW w, Body(w), Places', UNCHANGED <<root, n>>,
         \A x \in In(w) : next'[x] = next[x] /\ elem'[x] = elem[x]
  PROVE  Body(w)' /\ \A m \in Lists : Named(w[m], elem') = Named(w[m], elem)
<1>1. Shape(w, root, n, next) /\ w \in [Lists -> Seq(Nodes)]  BY DEF Body, Shape
<1>2. Shape(w, root', n', next')  BY <1>1, ShapeStays
<1>3. \A m \in Lists : \A j \in 1..Len(w[m]) : elem'[w[m][j]] = elem[w[m][j]]
  BY <1>1, InNodes
<1>4. \A m \in Lists : Named(w[m], elem') = Named(w[m], elem)  BY <1>3, NamedSame
<1>5. \A l \in SortedLists : Ascending(Named(w[l], elem'), Key)  BY <1>4 DEF Body, Lists
<1> QED  BY <1>2, <1>4, <1>5 DEF Body
-----------------------------------------------------------------------------
(***************************************************************************)
(* The inductive invariant.  Between two turns of a loop the cursors are   *)
(* somewhere on a list, and the loop has seen nothing that would stop it:  *)
(* only smaller elements when it adds, no element it looks for otherwise.  *)
(* The node to add is in no list yet.                                      *)
(***************************************************************************)
Sought == {{}} \cup ById \cup ByPid

Inserting(w) ==
  /\ op \in [name : {"add"}, list : SortedLists, new : Nodes,
             prec : Nodes, seek : Nodes \cup {NULL}]
  /\ op.new \notin In(w) /\ elem[op.new] \in Elems
  /\ \E k \in 1..Len(w[op.list]) :
       /\ op.prec = w[op.list][k] /\ op.seek = NodeAt(w[op.list], k + 1)
       /\ \A j \in 1..k : Key[elem[w[op.list][j]]] < Key[elem[op.new]]

Removing(w) ==
  /\ op \in [name : {"remove"}, list : Lists, key : Sought,
             prec : Nodes, seek : Nodes \cup {NULL}]
  /\ \E k \in 1..Len(w[op.list]) :
       /\ op.prec = w[op.list][k] /\ op.seek = NodeAt(w[op.list], k + 1)
       /\ \A j \in 1..k : elem[w[op.list][j]] \notin op.key

Searching(w) ==
  /\ op \in [name : {"search"}, key : Sought, seek : Nodes \cup {NULL}]
  /\ \E l \in Lists : \E k \in 1..Len(w[l]) + 1 :
       /\ op.seek = NodeAt(w[l], k)
       /\ \A j \in 1..k - 1 : elem[w[l][j]] \notin op.key

Heap(w) ==
  /\ Body(w)
  /\ res \in Elems \cup {Nothing}
  /\ used = In(w) \cup Pending
  /\ op = Idle \/ Inserting(w) \/ Removing(w) \/ Searching(w)

HInv == Heap(Walks)

\* The lists as SequenceLists sees them.
Seqs == [l \in Lists |-> Contents(l)]

Found == \A w : Body(w) => w = Walks /\ Seqs = [l \in Lists |-> Named(w[l], elem)]

LEMMA BodyFound == Found
BY BodyContents DEF Seqs, Found

LEMMA BodyFoundNext == Found'
BY BodyFound, PTL

LEMMA BodyFoundLater ==
  ASSUME NEW w, Body(w)'
  PROVE  w = Walks' /\ Seqs' = [l \in Lists |-> Named(w[l], elem')]
BY BodyFoundNext DEF Found

(***************************************************************************)
(* A step that links a node in, and one that takes a node out.             *)
(***************************************************************************)
LEMMA LinkStep ==
  ASSUME NEW w, Heap(w), NEW l \in Lists, NEW i, NEW x, NEW e, LinksIn(l, i, x, e, w),
         l \in SortedLists => Fits(Seqs[l], i, e),
         used' = In(w) \cup {x}, res' = e, op' = Idle
  PROVE  HInv' /\ Seqs' = [Seqs EXCEPT ![l] = Inserted(Seqs[l], i, e)]
<1> DEFINE v == [w EXCEPT ![l] = Inserted(w[l], i, x)]
<1>1. Body(w) /\ Seqs = [m \in Lists |-> Named(w[m], elem)]  BY BodyFound DEF Found, Heap
<1>2. /\ Body(v)' /\ In(v) = In(w) \cup {x}
      /\ Named(v[l], elem') = Inserted(Named(w[l], elem), i, e)
      /\ \A m \in Lists : m # l => Named(v[m], elem') = Named(w[m], elem)
  <2>1. l \in SortedLists => Fits(Named(w[l], elem), i, e)  BY <1>1
  <2>2. Gets(v, w, l, Inserted(w[l], i, x))  BY DEF Gets
  <2> HIDE DEF v
  <2> QED  BY <1>1, <2>1, <2>2, LinkBody
<1> HIDE DEF v
<1>3. v = Walks' /\ Seqs' = [m \in Lists |-> Named(v[m], elem')]  BY <1>2, BodyFoundLater
<1>4. Seqs' = [Seqs EXCEPT ![l] = Inserted(Seqs[l], i, e)]  BY <1>1, <1>2, <1>3
<1>5. Pending' = {}  BY DEF Pending, Idle
<1>6. used' = In(v) \cup Pending' /\ res' \in Elems  BY <1>2, <1>5 DEF LinksIn
<1>7. Heap(v)'  BY <1>2, <1>6 DEF Heap
<1> QED  BY <1>3, <1>4, <1>7 DEF HInv

LEMMA UnlinkStep ==
  ASSUME NEW w, Heap(w), NEW l \in Lists, NEW i, TakesOut(l, i, w),
         used' = In(w) \ {w[l][i]}, res' \in Elems, op' = Idle
  PROVE  HInv' /\ Seqs' = [Seqs EXCEPT ![l] = Deleted(Seqs[l], i)]
<1> DEFINE v == [w EXCEPT ![l] = Deleted(w[l], i)]
<1>1. Body(w) /\ Seqs = [m \in Lists |-> Named(w[m], elem)]  BY BodyFound DEF Found, Heap
<1>2. /\ Body(v)' /\ In(v) = In(w) \ {w[l][i]}
      /\ Named(v[l], elem') = Deleted(Named(w[l], elem), i)
      /\ \A m \in Lists : m # l => Named(v[m], elem') = Named(w[m], elem)
  <2>1. Gets(v, w, l, Deleted(w[l], i))  BY DEF Gets
  <2> HIDE DEF v
  <2> QED  BY <1>1, <2>1, UnlinkBody
<1> HIDE DEF v
<1>3. v = Walks' /\ Seqs' = [m \in Lists |-> Named(v[m], elem')]  BY <1>2, BodyFoundLater
<1>4. Seqs' = [Seqs EXCEPT ![l] = Deleted(Seqs[l], i)]  BY <1>1, <1>2, <1>3
<1>5. Pending' = {}  BY DEF Pending, Idle
<1>6. Heap(v)'  BY <1>2, <1>5 DEF Heap
<1> QED  BY <1>3, <1>4, <1>6 DEF HInv

(***************************************************************************)
(* A step that leaves the nodes of the lists alone.                        *)
(***************************************************************************)
LEMMA QuietStep ==
  ASSUME NEW w, Heap(w), Places', UNCHANGED <<root, n>>,
         \A x \in In(w) : next'[x] = next[x] /\ elem'[x] = elem[x],
         used' = In(w) \cup Pending', res' \in Elems \cup {Nothing},
         (op = Idle \/ Inserting(w) \/ Removing(w) \/ Searching(w))'
  PROVE  HInv' /\ Seqs' = Seqs
<1>1. Body(w)' /\ \A m \in Lists : Named(w[m], elem') = Named(w[m], elem)
  <2>1. Body(w)  BY DEF Heap
  <2> QED  BY <2>1, SameBody
<1>2. w = Walks' /\ Seqs' = [m \in Lists |-> Named(w[m], elem')]  BY <1>1, BodyFoundLater
<1>3. Seqs' = Seqs  BY <1>1, <1>2, BodyFound DEF Found, Heap
<1>4. Heap(w)'  BY <1>1 DEF Heap
<1> QED  BY <1>2, <1>3, <1>4 DEF HInv
-----------------------------------------------------------------------------
(***************************************************************************)
(* What the pointers of the heap lead to.                                  *)
(***************************************************************************)
LEMMA Pointers ==
  ASSUME NEW w, Heap(w), NEW l \in Lists
  PROVE  /\ Places /\ w[l] \in Seq(Nodes) /\ Len(w[l]) \in Nat
         /\ root[l] = NodeAt(w[l], 1) /\ n[l] = Len(w[l])
         /\ \A k \in 1..Len(w[l]) : /\ next[w[l][k]] = NodeAt(w[l], k + 1)
                                    /\ w[l][k] \in In(w) /\ w[l][k] \in Nodes
         /\ \A k \in Nat \ {0} : /\ NodeAt(w[l], k) \in Nodes \cup {NULL}
                                 /\ NodeAt(w[l], k) = NULL <=> k > Len(w[l])
                                 /\ k <= Len(w[l]) => NodeAt(w[l], k) = w[l][k]
         /\ Seqs[l] \in Seq(Elems) /\ Len(Seqs[l]) = Len(w[l])
         /\ \A k \in 1..Len(w[l]) : /\ Seqs[l][k] = elem[w[l][k]]
                                    /\ elem[w[l][k]] \in Elems /\ Key[elem[w[l][k]]] \in Int
<1>1. Body(w) /\ Places /\ Shape(w, root, n, next)  BY DEF Heap, Body
<1>2. w \in [Lists -> Seq(Nodes)] /\ w[l] \in Seq(Nodes) /\ Len(w[l]) \in Nat  BY <1>1 DEF Shape
<1>3. root[l] = NodeAt(w[l], 1) /\ n[l] = Len(w[l])  BY <1>1 DEF Shape, Chain
<1>4. \A k \in 1..Len(w[l]) : next[w[l][k]] = NodeAt(w[l], k + 1)  BY <1>1 DEF Shape, Chain
<1>5. \A k \in 1..Len(w[l]) : w[l][k] \in In(w) /\ w[l][k] \in Nodes  BY <1>2, InNodes
<1>6. \A k \in Nat \ {0} : /\ NodeAt(w[l], k) \in Nodes \cup {NULL}
                           /\ NodeAt(w[l], k) = NULL <=> k > Len(w[l])
  BY <1>2, NodeAtType
<1>7. \A k \in Nat \ {0} : k <= Len(w[l]) => NodeAt(w[l], k) = w[l][k]  BY DEF NodeAt
<1>8. Seqs[l] = Named(w[l], elem)  BY <1>1, BodyFound DEF Found
<1>9. Seqs[l] \in Seq(Elems) /\ Len(Seqs[l]) = Len(w[l])  BY <1>1, <1>8, BodyNamed
<1>10. \A k \in 1..Len(w[l]) : Seqs[l][k] = elem[w[l][k]] /\ elem[w[l][k]] \in Elems
  BY <1>1, <1>8, BodyNamed
<1>11. \A e \in Elems : Key[e] \in Int  BY HeapAssumption
<1> QED  BY <1>1, <1>2, <1>3, <1>4, <1>5, <1>6, <1>7, <1>9, <1>10, <1>11

(***************************************************************************)
(* What the operations do to the sequences: add e to l at position i, take *)
(* out the first element of l in S, or find it.                            *)
(***************************************************************************)
Adds(l, e, i) ==
  /\ i \in 1..Len(Seqs[l]) + 1
  /\ Seqs' = [Seqs EXCEPT ![l] = Inserted(Seqs[l], i, e)]
  /\ res' = e

Finds(s, S, i) ==
  /\ i \in 1..Len(s) + 1
  /\ \A j \in 1..i - 1 : s[j] \notin S
  /\ i <= Len(s) => s[i] \in S

Removes(l, i) ==
  IF i <= Len(Seqs[l])
  THEN Seqs' = [Seqs EXCEPT ![l] = Deleted(Seqs[l], i)] /\ res' = Seqs[l][i]
  ELSE Seqs' = Seqs /\ res' = Nothing

Yields(l, i) == Seqs' = Seqs /\ res' = IF i <= Len(Seqs[l]) THEN Seqs[l][i] ELSE Nothing

(***************************************************************************)
(* list_add_top, also as the first case of list_add_sorted.                *)
(***************************************************************************)
LEMMA TopStep ==
  ASSUME NEW w, Heap(w), NEW l \in Lists, NEW e \in Elems, NEW x \in Nodes,
         MayAdd(l, e, x), list_add_top(l, e, x), l \in SortedLists => GoesFirst(l, e)
  PROVE  HInv' /\ Adds(l, e, 1) /\ (l \in SortedLists => Fits(Seqs[l], 1, e)) /\ op' = Idle
<1>1. op = Idle /\ op' = Idle /\ Pending = {} /\ used = In(w) /\ x \notin In(w)
  BY DEF MayAdd, list_add_top, Pending, Idle, Heap
<1>2. /\ Places /\ Len(w[l]) \in Nat /\ root[l] = NodeAt(w[l], 1) /\ n[l] = Len(w[l])
      /\ NodeAt(w[l], 1) \in Nodes \cup {NULL}
      /\ Len(Seqs[l]) = Len(w[l])
  BY Pointers
<1>3. l \in SortedLists => Fits(Seqs[l], 1, e)
  <2>1. ASSUME l \in SortedLists, 1 <= Len(w[l]) PROVE Key[e] <= Key[Seqs[l][1]]
    <3>1. 1 \in 1..Len(w[l])  BY <1>2, <2>1
    <3>2. root[l] = w[l][1] /\ Seqs[l][1] = elem[w[l][1]] /\ Key[elem[w[l][1]]] \in Int
      BY <1>2, <2>1, <3>1, Pointers DEF NodeAt
    <3>3. Key[e] - Key[elem[root[l]]] <= 0  BY <1>2, <2>1 DEF GoesFirst, list_is_empty, cmp
    <3>4. Key[e] \in Int  BY HeapAssumption
    <3> QED  BY <3>2, <3>3, <3>4
  <2> QED  BY <1>2, <2>1 DEF Fits
<1>4. LinksIn(l, 1, x, e, w)
  <2>1. Places'  BY <1>2 DEF Places, list_add_top
  <2>2. Linked(w[l], 1, x, root[l], next, root'[l], next')
    BY <1>2 DEF Linked, Places, list_add_top
  <2>3. Elsewhere(root', root, l)  BY <1>2 DEF Elsewhere, Places, list_add_top
  <2>4. elem'[x] = e /\ \A y \in Nodes : y # x => elem'[y] = elem[y]
    BY <1>2 DEF Places, list_add_top
  <2>5. n' = [n EXCEPT ![l] = @ + 1]  BY DEF list_add_top
  <2>6. 1 \in 1..Len(w[l]) + 1  BY <1>2
  <2> QED  BY <1>1, <2>1, <2>2, <2>3, <2>4, <2>5, <2>6 DEF LinksIn
<1>5. used' = In(w) \cup {x} /\ res' = e  BY <1>1 DEF list_add_top
<1>6. HInv' /\ Seqs' = [Seqs EXCEPT ![l] = Inserted(Seqs[l], 1, e)]
  BY <1>1, <1>3, <1>4, <1>5, LinkStep
<1> QED  BY <1>1, <1>2, <1>3, <1>5, <1>6 DEF Adds

(***************************************************************************)
(* list_remove_top, also as the first case of list_remove.                 *)
(***************************************************************************)
LEMMA PopStep ==
  ASSUME NEW w, Heap(w), op = Idle, NEW l \in Lists, ~list_is_empty(l), list_remove_top(l)
  PROVE  /\ HInv' /\ Removes(l, 1) /\ op' = Idle
         /\ 1 <= Len(Seqs[l]) /\ elem[root[l]] = Seqs[l][1]
<1>1. op' = Idle /\ Pending = {} /\ used = In(w)
  BY DEF list_remove_top, Pending, Idle, Heap
<1>2. /\ Places /\ Len(w[l]) \in Nat /\ root[l] = NodeAt(w[l], 1) /\ n[l] = Len(w[l])
      /\ Len(Seqs[l]) = Len(w[l])
  BY Pointers
<1>3. 1 \in 1..Len(w[l])  BY <1>2 DEF list_is_empty
<1>4. root[l] = w[l][1] /\ w[l][1] \in Nodes /\ next[w[l][1]] \in Nodes \cup {NULL}
  <2>1. next[w[l][1]] = NodeAt(w[l], 1 + 1) /\ 1 + 1 \in Nat \ {0}  BY <1>3, Pointers
  <2>2. root[l] = w[l][1]  BY <1>2, <1>3 DEF NodeAt
  <2> QED  BY <1>3, <2>1, <2>2, Pointers
<1>5. Seqs[l][1] = elem[w[l][1]] /\ elem[w[l][1]] \in Elems  BY <1>3, Pointers
<1>6. TakesOut(l, 1, w)
  <2>1. Places'
    <3>1. n[l] - 1 \in Nat  BY <1>2, <1>3
    <3> QED  BY <1>2, <1>4, <3>1 DEF Places, list_remove_top, Free
  <2>2. Unlinked(w[l], 1, root[l], next, root'[l], next')
    BY <1>2, <1>4 DEF Unlinked, Places, list_remove_top
  <2>3. Elsewhere(root', root, l)  BY <1>2 DEF Elsewhere, Places, list_remove_top
  <2>4. \A y \in Nodes : y # w[l][1] => elem'[y] = elem[y]
    BY <1>2, <1>4 DEF Places, list_remove_top, Free
  <2>5. n' = [n EXCEPT ![l] = @ - 1]  BY DEF list_remove_top
  <2> QED  BY <1>3, <2>1, <2>2, <2>3, <2>4, <2>5 DEF TakesOut
<1>7. used' = In(w) \ {w[l][1]} /\ res' = elem[w[l][1]]  BY <1>1, <1>4 DEF list_remove_top, Free
<1>8. HInv' /\ Seqs' = [Seqs EXCEPT ![l] = Deleted(Seqs[l], 1)]
  BY <1>1, <1>5, <1>6, <1>7, UnlinkStep
<1> QED  BY <1>1, <1>2, <1>3, <1>4, <1>5, <1>7, <1>8 DEF Removes
(***************************************************************************)
(* list_add_sorted, from the allocation of the node to the link.           *)
(***************************************************************************)
LEMMA AllocStep ==
  ASSUME NEW w, Heap(w), NEW l \in SortedLists, NEW e \in Elems, NEW x \in Nodes,
         AddSorted(l, e, x), ~(GoesFirst(l, e) /\ list_add_top(l, e, x))
  PROVE  HInv' /\ Seqs' = Seqs /\ res' = res
<1> l \in Lists  BY DEF Lists
<1> ~GoesFirst(l, e)  BY DEF AddSorted
<1>1. op = Idle /\ Pending = {} /\ used = In(w) /\ x \notin In(w)
  BY DEF AddSorted, MayAdd, Pending, Idle, Heap
<1>2. /\ elem' = [elem EXCEPT ![x] = e] /\ next' = [next EXCEPT ![x] = NULL]
      /\ used' = used \cup {x}
      /\ op' = [name |-> "add", list |-> l, new |-> x, prec |-> root[l], seek |-> next[root[l]]]
      /\ UNCHANGED <<root, n, res>>
  BY DEF AddSorted
<1>3. /\ Places /\ Len(w[l]) \in Nat /\ root[l] = NodeAt(w[l], 1) /\ n[l] = Len(w[l])
  BY Pointers
<1>4. 1 \in 1..Len(w[l])  BY <1>3 DEF GoesFirst, list_is_empty
<1>5. /\ root[l] = w[l][1] /\ w[l][1] \in Nodes /\ w[l][1] \in In(w)
      /\ next[root[l]] = NodeAt(w[l], 1 + 1) /\ next[root[l]] \in Nodes \cup {NULL}
  <2>1. next[w[l][1]] = NodeAt(w[l], 1 + 1) /\ 1 + 1 \in Nat \ {0}  BY <1>4, Pointers
  <2>2. root[l] = w[l][1]  BY <1>3, <1>4 DEF NodeAt
  <2> QED  BY <1>4, <2>1, <2>2, Pointers
<1>6. Places' /\ \A y \in In(w) : next'[y] = next[y] /\ elem'[y] = elem[y]
  <2>1. In(w) \subseteq Nodes  BY InNodes DEF Heap, Body, Shape
  <2> QED  BY <1>1, <1>2, <1>3, <2>1 DEF Places
<1>7. elem'[x] = e /\ elem'[w[l][1]] = elem[w[l][1]]  BY <1>2, <1>3, <1>5, <1>6 DEF Places
<1>8. Key[elem[w[l][1]]] < Key[e]
  <2>1. ~(Key[e] - Key[elem[root[l]]] <= 0)  BY <1>3, <1>4 DEF GoesFirst, list_is_empty, cmp
  <2>2. Key[e] \in Int /\ Key[elem[w[l][1]]] \in Int  BY <1>4, Pointers, HeapAssumption
  <2> QED  BY <1>5, <2>1, <2>2
<1>9. Inserting(w)'
  <2>1. op' \in [name : {"add"}, list : SortedLists, new : Nodes,
                 prec : Nodes, seek : Nodes \cup {NULL}]
    BY <1>2, <1>5
  <2>2. \A j \in 1..1 : Key[elem'[w[l][j]]] < Key[elem'[x]]  BY <1>7, <1>8
  <2>3. op'.list = l /\ op'.new = x /\ op'.prec = w[l][1] /\ op'.seek = NodeAt(w[l], 1 + 1)
    BY <1>2, <1>5
  <2> QED  BY <1>1, <1>4, <1>7, <2>1, <2>2, <2>3 DEF Inserting
<1>10. used' = In(w) \cup Pending'  BY <1>1, <1>2 DEF Pending
<1>11. res' \in Elems \cup {Nothing}  BY <1>2 DEF Heap
<1> QED  BY <1>2, <1>6, <1>9, <1>10, <1>11, QuietStep

(***************************************************************************)
(* A cursor that is not at the end of its list moves on.                   *)
(***************************************************************************)
LEMMA MovesOn ==
  ASSUME NEW w, Heap(w), NEW l \in Lists, NEW k \in Nat \ {0}, NodeAt(w[l], k) # NULL
  PROVE  /\ k \in 1..Len(w[l]) /\ NodeAt(w[l], k) = w[l][k] /\ w[l][k] \in Nodes
         /\ next[NodeAt(w[l], k)] = NodeAt(w[l], k + 1)
         /\ NodeAt(w[l], k + 1) \in Nodes \cup {NULL}
<1>1. k \in 1..Len(w[l]) /\ NodeAt(w[l], k) = w[l][k]  BY Pointers
<1>2. next[w[l][k]] = NodeAt(w[l], k + 1) /\ w[l][k] \in Nodes  BY <1>1, Pointers
<1>3. k + 1 \in Nat \ {0}  OBVIOUS
<1>4. NodeAt(w[l], k + 1) \in Nodes \cup {NULL}  BY <1>3, Pointers
<1> QED  BY <1>1, <1>2, <1>4

LEMMA AddSeekStep ==
  ASSUME NEW w, Heap(w), AddSeek
  PROVE  HInv' /\ Seqs' = Seqs /\ res' = res
<1>1. Inserting(w)  BY DEF Heap, AddSeek, Idle, Removing, Searching
<1>0. PICK l : l = op.list  OBVIOUS
<1> DEFINE s == w[l]
<1>2. /\ op \in [name : {"add"}, list : SortedLists, new : Nodes,
                 prec : Nodes, seek : Nodes \cup {NULL}]
      /\ op.new \notin In(w) /\ elem[op.new] \in Elems /\ l \in Lists
  BY <1>0, <1>1 DEF Inserting, Lists
<1>3. PICK k \in 1..Len(s) :
        /\ op.prec = s[k] /\ op.seek = NodeAt(s, k + 1)
        /\ \A j \in 1..k : Key[elem[s[j]]] < Key[elem[op.new]]
  BY <1>0, <1>1 DEF Inserting
<1>4. /\ op' = [op EXCEPT !.prec = next[@], !.seek = next[@]]
      /\ UNCHANGED <<root, n, next, elem, used, res>>
      /\ op.seek # NULL /\ Key[elem[op.new]] - Key[elem[op.seek]] > 0
  BY DEF AddSeek, Seek, Smaller, cmp
<1>5. Places /\ Len(s) \in Nat /\ next[s[k]] = NodeAt(s, k + 1)  BY <1>2, <1>3, Pointers
<1>6. /\ k + 1 \in 1..Len(s) /\ op.seek = s[k + 1] /\ s[k + 1] \in Nodes
      /\ next[op.seek] = NodeAt(s, (k + 1) + 1) /\ NodeAt(s, (k + 1) + 1) \in Nodes \cup {NULL}
  <2>1. k + 1 \in Nat \ {0} /\ NodeAt(s, k + 1) # NULL  BY <1>3, <1>4, <1>5
  <2> QED  BY <1>2, <1>3, <2>1, MovesOn
<1>7. next[op.prec] = s[k + 1]  BY <1>3, <1>5, <1>6
<1>8. \A j \in 1..k + 1 : Key[elem[s[j]]] < Key[elem[op.new]]
  <2>1. Key[elem[s[k + 1]]] \in Int /\ Key[elem[op.new]] \in Int
    BY <1>2, <1>6, Pointers, HeapAssumption
  <2>2. Key[elem[s[k + 1]]] < Key[elem[op.new]]  BY <1>4, <1>6, <2>1
  <2> QED  BY <1>3, <1>5, <2>2
<1>9. Inserting(w)'
  <2>1. op' \in [name : {"add"}, list : SortedLists, new : Nodes,
                 prec : Nodes, seek : Nodes \cup {NULL}]
    BY <1>0, <1>2, <1>4, <1>6, <1>7
  <2>2. /\ op'.list = l /\ op'.new = op.new
        /\ op'.prec = s[k + 1] /\ op'.seek = NodeAt(s, (k + 1) + 1)
    BY <1>0, <1>2, <1>4, <1>6, <1>7
  <2>3. \A j \in 1..k + 1 : Key[elem'[s[j]]] < Key[elem'[op'.new]]  BY <1>4, <1>8, <2>2
  <2>4. op'.new \notin In(w) /\ elem'[op'.new] \in Elems  BY <1>2, <1>4, <2>2
  <2> QED  BY <1>6, <2>1, <2>2, <2>3, <2>4 DEF Inserting
<1>10. used' = In(w) \cup Pending'
  <2>1. op'.name = op.name /\ op'.new = op.new  BY <1>2, <1>4
  <2> QED  BY <1>4, <2>1 DEF Pending, Heap
<1>11. Places' /\ UNCHANGED <<root, n>> /\ res' \in Elems \cup {Nothing}
       /\ \A x \in In(w) : next'[x] = next[x] /\ elem'[x] = elem[x]
  BY <1>4, <1>5 DEF Places, Heap
<1> QED  BY <1>4, <1>9, <1>10, <1>11, QuietStep

LEMMA AddLinkStep ==
  ASSUME NEW w, Heap(w), AddLink
  PROVE  /\ HInv' /\ op' = Idle
         /\ op.list \in SortedLists /\ elem[op.new] \in Elems
         /\ \E i : Adds(op.list, elem[op.new], i) /\ Fits(Seqs[op.list], i, elem[op.new])
<1>1. Inserting(w)  BY DEF Heap, AddLink, Idle, Removing, Searching
<1>0. PICK l, x, e : l = op.list /\ x = op.new /\ e = elem[x]  OBVIOUS
<1> DEFINE s == w[l]
<1>2. /\ op \in [name : {"add"}, list : SortedLists, new : Nodes,
                 prec : Nodes, seek : Nodes \cup {NULL}]
      /\ x \in Nodes /\ x \notin In(w) /\ e \in Elems /\ l \in Lists /\ l \in SortedLists
  BY <1>0, <1>1 DEF Inserting, Lists
<1>3. PICK k \in 1..Len(s) :
        /\ op.prec = s[k] /\ op.seek = NodeAt(s, k + 1)
        /\ \A j \in 1..k : Key[elem[s[j]]] < Key[e]
  BY <1>0, <1>1 DEF Inserting
<1>4. /\ next' = [next EXCEPT ![s[k]] = x, ![x] = NodeAt(s, k + 1)]
      /\ n' = [n EXCEPT ![l] = @ + 1]
      /\ res' = e /\ op' = Idle /\ UNCHANGED <<root, elem, used>>
  BY <1>0, <1>3 DEF AddLink
<1>5. op.seek # NULL => ~(Key[e] - Key[elem[op.seek]] > 0)  BY <1>0 DEF AddLink, Smaller, cmp
<1>6. /\ Places /\ Len(s) \in Nat /\ s[k] \in In(w) /\ s[k] \in Nodes
      /\ NodeAt(s, k + 1) \in Nodes \cup {NULL}
      /\ k + 1 <= Len(s) => NodeAt(s, k + 1) = s[k + 1] /\ NodeAt(s, k + 1) # NULL
  <2>1. k + 1 \in Nat \ {0}  BY <1>3
  <2>2. Places /\ Len(s) \in Nat /\ s[k] \in In(w) /\ s[k] \in Nodes  BY <1>2, <1>3, Pointers
  <2>3. /\ NodeAt(s, k + 1) \in Nodes \cup {NULL}
        /\ NodeAt(s, k + 1) = NULL <=> k + 1 > Len(s)
        /\ k + 1 <= Len(s) => NodeAt(s, k + 1) = s[k + 1]
    BY <1>2, <2>1, Pointers
  <2> QED  BY <2>1, <2>2, <2>3
<1>7. Len(Seqs[l]) = Len(s) /\ \A j \in 1..Len(s) : Seqs[l][j] = elem[s[j]]  BY <1>2, Pointers
<1>8. Fits(Seqs[l], k + 1, e)
  <2>1. \A a \in 1..(k + 1) - 1 : Key[Seqs[l][a]] < Key[e]
    BY <1>3, <1>6, <1>7
  <2>2. ASSUME k + 1 <= Len(s) PROVE Key[e] <= Key[Seqs[l][k + 1]]
    <3>1. k + 1 \in 1..Len(s) /\ op.seek = s[k + 1] /\ op.seek # NULL  BY <1>3, <1>6, <2>2
    <3>2. Key[elem[s[k + 1]]] \in Int /\ Key[e] \in Int  BY <1>2, <3>1, Pointers, HeapAssumption
    <3> QED  BY <1>5, <1>7, <3>1, <3>2
  <2> QED  BY <1>7, <2>1, <2>2 DEF Fits
<1>9. k + 1 \in 1..Len(s) + 1  BY <1>6
<1>10. LinksIn(l, k + 1, x, e, w)
  <2>1. Places'
    <3>1. n[l] \in Nat  BY <1>2, <1>6 DEF Places
    <3> HIDE DEF s
    <3> QED  BY <1>2, <1>4, <1>6, <3>1 DEF Places
  <2>2. Linked(s, k + 1, x, root[l], next, root'[l], next')
    <3>1. k + 1 > 1 /\ (k + 1) - 1 = k /\ k + 1 # 1  BY <1>3, <1>6
    <3>2. next'[x] = NodeAt(s, k + 1) /\ next'[s[k]] = x
      BY <1>2, <1>4, <1>6 DEF Places
    <3>3. \A y \in Nodes : y # x /\ y # s[k] => next'[y] = next[y]  BY <1>4, <1>6 DEF Places
    <3> HIDE DEF s
    <3> QED  BY <1>4, <3>1, <3>2, <3>3 DEF Linked
  <2>3. Elsewhere(root', root, l)  BY <1>4 DEF Elsewhere
  <2>4. elem'[x] = e /\ \A y \in Nodes : y # x => elem'[y] = elem[y]  BY <1>0, <1>4
  <2> QED  BY <1>2, <1>4, <1>9, <2>1, <2>2, <2>3, <2>4 DEF LinksIn, s
<1>11. used' = In(w) \cup {x}  BY <1>0, <1>4 DEF AddLink, Heap, Pending
<1>12. HInv' /\ Seqs' = [Seqs EXCEPT ![l] = Inserted(Seqs[l], k + 1, e)]
  BY <1>2, <1>4, <1>8, <1>10, <1>11, LinkStep
<1>13. Adds(l, e, k + 1)  BY <1>4, <1>7, <1>9, <1>12 DEF Adds
<1> QED  BY <1>0, <1>2, <1>4, <1>8, <1>12, <1>13
(***************************************************************************)
(* list_remove, from its second case to the end, and the searches.         *)
(***************************************************************************)
LEMMA RemoveStartStep ==
  ASSUME NEW w, Heap(w), op = Idle, NEW l \in Lists, NEW S \in Sought,
         ~list_is_empty(l), elem[root[l]] \notin S,
         op' = [name |-> "remove", list |-> l, key |-> S,
                prec |-> root[l], seek |-> next[root[l]]],
         UNCHANGED <<root, n, next, elem, used, res>>
  PROVE  HInv' /\ Seqs' = Seqs /\ res' = res
<1>1. Pending = {} /\ used = In(w)  BY DEF Pending, Idle, Heap
<1>2. Places /\ Len(w[l]) \in Nat /\ root[l] = NodeAt(w[l], 1) /\ n[l] = Len(w[l])
  BY Pointers
<1>3. 1 \in 1..Len(w[l])  BY <1>2 DEF list_is_empty
<1>4. /\ root[l] = w[l][1] /\ w[l][1] \in Nodes
      /\ next[root[l]] = NodeAt(w[l], 1 + 1) /\ next[root[l]] \in Nodes \cup {NULL}
  <2>1. next[w[l][1]] = NodeAt(w[l], 1 + 1) /\ 1 + 1 \in Nat \ {0}  BY <1>3, Pointers
  <2>2. root[l] = w[l][1]  BY <1>2, <1>3 DEF NodeAt
  <2> QED  BY <1>3, <2>1, <2>2, Pointers
<1>5. Removing(w)'
  <2>1. op' \in [name : {"remove"}, list : Lists, key : Sought,
                 prec : Nodes, seek : Nodes \cup {NULL}]
    BY <1>4
  <2>2. /\ op'.list = l /\ op'.key = S
        /\ op'.prec = w[l][1] /\ op'.seek = NodeAt(w[l], 1 + 1)
    BY <1>4
  <2>3. \A j \in 1..1 : elem'[w[l][j]] \notin S  BY <1>4
  <2> QED  BY <1>3, <2>1, <2>2, <2>3 DEF Removing
<1>6. used' = In(w) \cup Pending'  BY <1>1 DEF Pending
<1>7. Places' /\ res' \in Elems \cup {Nothing}  BY <1>2 DEF Places, Heap
<1> QED  BY <1>5, <1>6, <1>7, QuietStep

LEMMA RemoveSeekStep ==
  ASSUME NEW w, Heap(w), RemoveSeek
  PROVE  HInv' /\ Seqs' = Seqs /\ res' = res
<1>1. Removing(w)  BY DEF Heap, RemoveSeek, Idle, Inserting, Searching
<1>0. PICK l, S : l = op.list /\ S = op.key  OBVIOUS
<1> DEFINE s == w[l]
<1>2. /\ op \in [name : {"remove"}, list : Lists, key : Sought,
                 prec : Nodes, seek : Nodes \cup {NULL}]
      /\ l \in Lists
  BY <1>0, <1>1 DEF Removing
<1>3. PICK k \in 1..Len(s) :
        /\ op.prec = s[k] /\ op.seek = NodeAt(s, k + 1)
        /\ \A j \in 1..k : elem[s[j]] \notin S
  BY <1>0, <1>1 DEF Removing
<1>4. /\ op' = [op EXCEPT !.prec = next[@], !.seek = next[@]]
      /\ UNCHANGED <<root, n, next, elem, used, res>>
      /\ op.seek # NULL /\ elem[op.seek] \notin S
  BY <1>0 DEF RemoveSeek, Seek, Differs
<1>5. Places /\ Len(s) \in Nat /\ next[s[k]] = NodeAt(s, k + 1)  BY <1>2, <1>3, Pointers
<1>6. /\ k + 1 \in 1..Len(s) /\ op.seek = s[k + 1] /\ s[k + 1] \in Nodes
      /\ next[op.seek] = NodeAt(s, (k + 1) + 1) /\ NodeAt(s, (k + 1) + 1) \in Nodes \cup {NULL}
  <2>1. k + 1 \in Nat \ {0} /\ NodeAt(s, k + 1) # NULL  BY <1>3, <1>4, <1>5
  <2> QED  BY <1>2, <1>3, <2>1, MovesOn
<1>7. next[op.prec] = s[k + 1]  BY <1>3, <1>5, <1>6
<1>8. \A j \in 1..k + 1 : elem[s[j]] \notin S  BY <1>3, <1>4, <1>5, <1>6
<1>9. Removing(w)'
  <2>1. op' \in [name : {"remove"}, list : Lists, key : Sought,
                 prec : Nodes, seek : Nodes \cup {NULL}]
    BY <1>2, <1>4, <1>6, <1>7
  <2>2. /\ op'.list = l /\ op'.key = S
        /\ op'.prec = s[k + 1] /\ op'.seek = NodeAt(s, (k + 1) + 1)
    BY <1>0, <1>2, <1>4, <1>6, <1>7
  <2>3. \A j \in 1..k + 1 : elem'[s[j]] \notin S  BY <1>4, <1>8
  <2> QED  BY <1>6, <2>1, <2>2, <2>3 DEF Removing
<1>10. used' = In(w) \cup Pending'
  <2>1. op'.name = "remove" /\ op.name = "remove"  BY <1>2, <1>4
  <2> QED  BY <1>4, <2>1 DEF Pending, Heap
<1>11. Places' /\ UNCHANGED <<root, n>> /\ res' \in Elems \cup {Nothing}
       /\ \A x \in In(w) : next'[x] = next[x] /\ elem'[x] = elem[x]
  BY <1>4, <1>5 DEF Places, Heap
<1> QED  BY <1>4, <1>9, <1>10, <1>11, QuietStep

LEMMA RemoveEndStep ==
  ASSUME NEW w, Heap(w), RemoveEnd
  PROVE  /\ HInv' /\ op' = Idle
         /\ op.list \in Lists /\ op.key \in Sought
         /\ \E i : Finds(Seqs[op.list], op.key, i) /\ Removes(op.list, i)
<1>1. Removing(w)  BY DEF Heap, RemoveEnd, Idle, Inserting, Searching
<1>0. PICK l, S : l = op.list /\ S = op.key  OBVIOUS
<1> DEFINE s == w[l]
<1>2. /\ op \in [name : {"remove"}, list : Lists, key : Sought,
                 prec : Nodes, seek : Nodes \cup {NULL}]
      /\ l \in Lists /\ S \in Sought
  BY <1>0, <1>1 DEF Removing
<1>3. PICK k \in 1..Len(s) :
        /\ op.prec = s[k] /\ op.seek = NodeAt(s, k + 1)
        /\ \A j \in 1..k : elem[s[j]] \notin S
  BY <1>0, <1>1 DEF Removing
<1>4. /\ Places /\ Len(s) \in Nat /\ s[k] \in Nodes /\ used = In(w) /\ op' = Idle
      /\ Len(Seqs[l]) = Len(s) /\ \A j \in 1..Len(s) : Seqs[l][j] = elem[s[j]]
  <2>1. Pending = {}  BY <1>2 DEF Pending
  <2> QED  BY <1>2, <1>3, <2>1, Pointers DEF Heap, RemoveEnd
<1>5. \A j \in 1..(k + 1) - 1 : Seqs[l][j] \notin S  BY <1>3, <1>4
<1>6. k + 1 \in 1..Len(s) + 1 /\ k + 1 \in Nat \ {0} /\ k + 1 > 1 /\ (k + 1) - 1 = k /\ k + 1 # 1
  BY <1>3, <1>4
<1>7. NodeAt(s, k + 1) = NULL <=> k + 1 > Len(s)  BY <1>2, <1>6, Pointers
<1>8. CASE op.seek = NULL
  <2>1. NotFound  BY <1>8 DEF RemoveEnd
  <2>2. Pending' = {}  BY <1>4 DEF Pending, Idle
  <2>3. HInv' /\ Seqs' = Seqs
    <3>1. used' = In(w) \cup Pending' /\ res' \in Elems \cup {Nothing}
      BY <1>4, <2>1, <2>2 DEF NotFound
    <3>2. Places' /\ UNCHANGED <<root, n>> /\ \A x \in In(w) : next'[x] = next[x] /\ elem'[x] = elem[x]
      BY <1>4, <2>1 DEF NotFound, Places
    <3> QED  BY <1>4, <3>1, <3>2, QuietStep
  <2>4. k + 1 > Len(s)  BY <1>3, <1>7, <1>8
  <2>5. Finds(Seqs[l], S, k + 1)  BY <1>4, <1>5, <1>6, <2>4 DEF Finds
  <2>6. Removes(l, k + 1)  BY <1>4, <1>6, <2>1, <2>3, <2>4 DEF Removes, NotFound
  <2> QED  BY <1>0, <1>2, <1>4, <2>3, <2>5, <2>6
<1>9. CASE op.seek # NULL
  <2>1. /\ k + 1 \in 1..Len(s) /\ op.seek = s[k + 1] /\ s[k + 1] \in Nodes
        /\ next[s[k + 1]] = NodeAt(s, (k + 1) + 1)
        /\ NodeAt(s, (k + 1) + 1) \in Nodes \cup {NULL}
    BY <1>2, <1>3, <1>6, <1>9, MovesOn
  <2>2. /\ next' = [next EXCEPT ![s[k]] = next[s[k + 1]], ![s[k + 1]] = Junk]
        /\ n' = [n EXCEPT ![l] = @ - 1]
        /\ res' = elem[s[k + 1]]
        /\ used' = used \ {s[k + 1]} /\ elem' = [elem EXCEPT ![s[k + 1]] = Junk]
        /\ UNCHANGED root
    BY <1>0, <1>3, <1>9, <2>1 DEF RemoveEnd, Free
  <2>3. elem[s[k + 1]] \in S  BY <1>0, <1>9, <2>1 DEF RemoveEnd, Differs
  <2>4. s[k] # s[k + 1]
    <3>1. w \in [Lists -> Seq(Nodes)] /\ Apart(w)  BY DEF Heap, Body, Shape
    <3>2. k # k + 1  BY <1>3
    <3> QED  BY <1>2, <1>3, <2>1, <3>1, <3>2 DEF Apart
  <2>5. elem[s[k + 1]] \in Elems /\ Seqs[l][k + 1] = elem[s[k + 1]]  BY <1>2, <2>1, Pointers
  <2>6. TakesOut(l, k + 1, w)
    <3>1. Places'
      <4>1. n[l] - 1 \in Nat
        <5>1. n[l] = Len(s)  BY <1>2, Pointers
        <5> QED  BY <1>4, <2>1, <5>1
      <4> HIDE DEF s
      <4> QED  BY <1>2, <1>4, <2>1, <2>2, <4>1 DEF Places
    <3>2. Unlinked(s, k + 1, root[l], next, root'[l], next')
      <4>1. next'[s[k]] = next[s[k + 1]]  BY <1>4, <2>1, <2>2, <2>4 DEF Places
      <4>2. \A y \in Nodes : y # s[k + 1] /\ y # s[k] => next'[y] = next[y]
        BY <1>4, <2>2 DEF Places
      <4> HIDE DEF s
      <4> QED  BY <1>6, <2>2, <4>1, <4>2 DEF Unlinked
    <3>3. Elsewhere(root', root, l)  BY <2>2 DEF Elsewhere
    <3>4. \A y \in Nodes : y # s[k + 1] => elem'[y] = elem[y]  BY <1>4, <2>2 DEF Places
    <3> QED  BY <2>1, <2>2, <3>1, <3>2, <3>3, <3>4 DEF TakesOut
  <2>7. used' = In(w) \ {s[k + 1]} /\ res' \in Elems  BY <1>4, <2>2, <2>5
  <2>8. HInv' /\ Seqs' = [Seqs EXCEPT ![l] = Deleted(Seqs[l], k + 1)]
    BY <1>2, <1>4, <2>6, <2>7, UnlinkStep
  <2>9. Finds(Seqs[l], S, k + 1)  BY <1>4, <1>5, <1>6, <2>3, <2>5 DEF Finds
  <2>10. Removes(l, k + 1)  BY <1>4, <2>1, <2>2, <2>5, <2>8 DEF Removes
  <2> QED  BY <1>0, <1>2, <1>4, <2>8, <2>9, <2>10
<1> QED  BY <1>8, <1>9
LEMMA SearchStartStep ==
  ASSUME NEW w, Heap(w), op = Idle, NEW l \in Lists, NEW S \in Sought, Search(l, S)
  PROVE  HInv' /\ Seqs' = Seqs /\ res' = res
<1>1. Pending = {} /\ used = In(w)  BY DEF Pending, Idle, Heap
<1>2. /\ Places /\ Len(w[l]) \in Nat /\ root[l] = NodeAt(w[l], 1)
      /\ NodeAt(w[l], 1) \in Nodes \cup {NULL}
  BY Pointers
<1>3. /\ op' = [name |-> "search", key |-> S, seek |-> root[l]]
      /\ UNCHANGED <<root, n, next, elem, used, res>>
  BY DEF Search
<1>4. Searching(w)'
  <2>1. op' \in [name : {"search"}, key : Sought, seek : Nodes \cup {NULL}]  BY <1>2, <1>3
  <2>2. op'.seek = NodeAt(w[l], 1) /\ 1 \in 1..Len(w[l]) + 1  BY <1>2, <1>3
  <2>3. \A j \in 1..1 - 1 : elem'[w[l][j]] \notin op'.key  OBVIOUS
  <2> QED  BY <2>1, <2>2, <2>3 DEF Searching
<1>5. used' = In(w) \cup Pending'  BY <1>1, <1>3 DEF Pending
<1>6. Places' /\ res' \in Elems \cup {Nothing}  BY <1>2, <1>3 DEF Places, Heap
<1> QED  BY <1>3, <1>4, <1>5, <1>6, QuietStep

LEMMA SearchStepStep ==
  ASSUME NEW w, Heap(w), SearchStep
  PROVE  /\ HInv' /\ op.key \in Sought
         /\ \/ Seqs' = Seqs /\ res' = res
            \/ \E l \in Lists : \E i : Finds(Seqs[l], op.key, i) /\ Yields(l, i)
<1>1. Searching(w)  BY DEF Heap, SearchStep, Idle, Inserting, Removing
<1>0. PICK S : S = op.key  OBVIOUS
<1>2. op \in [name : {"search"}, key : Sought, seek : Nodes \cup {NULL}] /\ S \in Sought
  BY <1>0, <1>1 DEF Searching
<1>3. PICK l \in Lists : \E k \in 1..Len(w[l]) + 1 :
        /\ op.seek = NodeAt(w[l], k)
        /\ \A j \in 1..k - 1 : elem[w[l][j]] \notin S
  BY <1>0, <1>1 DEF Searching
<1> DEFINE s == w[l]
<1>4. PICK k \in 1..Len(s) + 1 :
        /\ op.seek = NodeAt(s, k)
        /\ \A j \in 1..k - 1 : elem[s[j]] \notin S
  BY <1>3
<1>5. UNCHANGED <<root, n, next, elem, used>>  BY DEF SearchStep
<1>6. /\ Places /\ Len(s) \in Nat /\ used = In(w)
      /\ Len(Seqs[l]) = Len(s) /\ \A j \in 1..Len(s) : Seqs[l][j] = elem[s[j]] /\ elem[s[j]] \in Elems
  <2>1. Pending = {}  BY <1>2 DEF Pending
  <2> QED  BY <2>1, Pointers DEF Heap
<1>7. k \in Nat \ {0}  BY <1>6
<1>8. NodeAt(s, k) = NULL <=> k > Len(s)  BY <1>7, Pointers
<1>9. Places' /\ UNCHANGED <<root, n>> /\ \A x \in In(w) : next'[x] = next[x] /\ elem'[x] = elem[x]
  BY <1>5, <1>6 DEF Places
<1>10. CASE Differs /\ op' = [op EXCEPT !.seek = next[@]] /\ UNCHANGED res
  <2>1. /\ k \in 1..Len(s) /\ op.seek = s[k]
        /\ next[op.seek] = NodeAt(s, k + 1) /\ NodeAt(s, k + 1) \in Nodes \cup {NULL}
    BY <1>4, <1>7, <1>10, MovesOn DEF Differs
  <2>2. \A j \in 1..(k + 1) - 1 : elem[s[j]] \notin S
    <3>1. elem[s[k]] \notin S  BY <1>0, <1>10, <2>1 DEF Differs
    <3> QED  BY <1>4, <1>6, <3>1
  <2>3. Searching(w)'
    <3>1. op' \in [name : {"search"}, key : Sought, seek : Nodes \cup {NULL}]
      BY <1>2, <1>10, <2>1
    <3>2. op'.key = S /\ op'.seek = NodeAt(s, k + 1)  BY <1>0, <1>2, <1>10, <2>1
    <3>3. k + 1 \in 1..Len(s) + 1  BY <1>6, <2>1
    <3>4. \A j \in 1..(k + 1) - 1 : elem'[s[j]] \notin op'.key  BY <1>5, <2>2, <3>2
    <3> QED  BY <3>1, <3>2, <3>3, <3>4 DEF Searching
  <2>4. Pending' = {}
    <3>1. op'.name = "search"  BY <1>2, <1>10
    <3> QED  BY <3>1 DEF Pending
  <2>5. used' = In(w) \cup Pending' /\ res' \in Elems \cup {Nothing}
    BY <1>5, <1>6, <1>10, <2>4 DEF Heap
  <2> QED  BY <1>0, <1>2, <1>9, <1>10, <2>3, <2>5, QuietStep
<1>11. CASE ~Differs /\ op' = Idle /\ res' = IF op.seek = NULL THEN Nothing ELSE elem[op.seek]
  <2>1. Pending' = {}  BY <1>11 DEF Pending, Idle
  <2>2. op.seek # NULL => k \in 1..Len(s) /\ op.seek = s[k]
    BY <1>4, <1>7, MovesOn
  <2>3. used' = In(w) \cup Pending' /\ res' \in Elems \cup {Nothing}
    BY <1>5, <1>6, <1>11, <2>1, <2>2
  <2>4. HInv' /\ Seqs' = Seqs  BY <1>9, <1>11, <2>3, QuietStep
  <2>5. Finds(Seqs[l], S, k)
    <3>1. \A j \in 1..k - 1 : Seqs[l][j] \notin S  BY <1>4, <1>6
    <3>2. ASSUME k <= Len(s) PROVE Seqs[l][k] \in S
      BY <1>0, <1>4, <1>6, <1>7, <1>8, <1>11, <2>2, <3>2 DEF Differs
    <3> QED  BY <1>6, <3>1, <3>2 DEF Finds
  <2>6. Yields(l, k)  BY <1>4, <1>6, <1>7, <1>8, <1>11, <2>2, <2>4 DEF Yields
  <2> QED  BY <1>0, <1>2, <2>4, <2>5, <2>6
<1> QED  BY <1>10, <1>11 DEF SearchStep
-----------------------------------------------------------------------------
(***************************************************************************)
(* The same steps in SequenceLists.                                        *)
(***************************************************************************)
LEMMA SameOperators ==
  /\ \A T : Abstract!Min(T) = Min(T)
  /\ \A s, i, e : Abstract!InsertAt(s, i, e) = InsertAt(s, i, e)
  /\ \A s, e : Abstract!RemoveFirst(s, e) = RemoveFirst(s, e)
<1>1. \A T : Abstract!Min(T) = Min(T)  BY DEF Abstract!Min, Min
<1>2. \A s, i, e : Abstract!InsertAt(s, i, e) = InsertAt(s, i, e)
  BY DEF Abstract!InsertAt, InsertAt
<1>3. \A s, e : Abstract!SelectInSeq(s, LAMBDA f : f = e) = SelectInSeq(s, LAMBDA f : f = e)
  BY <1>1 DEF Abstract!SelectInSeq, SelectInSeq
<1>4. \A s, i : Abstract!RemoveAt(s, i) = RemoveAt(s, i)  BY DEF Abstract!RemoveAt, RemoveAt
<1>5. \A s, e : Abstract!RemoveFirst(s, e) = RemoveFirst(s, e)
  BY <1>3, <1>4 DEF Abstract!RemoveFirst, RemoveFirst
<1> QED  BY <1>1, <1>2, <1>5

LEMMA SortedPlaceIs ==
  ASSUME NEW s \in Seq(Elems), NEW e \in Elems, NEW i \in 1..Len(s) + 1, Fits(s, i, e)
  PROVE  Abstract!SortedPlace(s, e) = i
<1> DEFINE T == {j \in 1..Len(s) : Key[e] <= Key[s[j]]} \cup {Len(s) + 1}
<1>1. \A j \in 1..Len(s) : Key[s[j]] \in Int /\ Key[e] \in Int  BY HeapAssumption
<1>2. Len(s) \in Nat  OBVIOUS
<1>3. T \in SUBSET Nat /\ T # {}  BY <1>2
<1>4. i \in T  BY <1>2 DEF Fits
<1>5. ASSUME NEW j \in T PROVE ~(j < i)
  <2>1. CASE j = Len(s) + 1  BY <1>2, <2>1
  <2>2. CASE j \in 1..Len(s) /\ Key[e] <= Key[s[j]]
    <3>1. ASSUME j < i PROVE FALSE
      <4>1. j \in 1..i - 1  BY <1>2, <2>2, <3>1
      <4>2. Key[s[j]] < Key[e]  BY <4>1 DEF Fits
      <4> QED  BY <1>1, <2>2, <4>2
    <3> QED  BY <3>1
  <2> QED  BY <2>1, <2>2
<1> HIDE DEF T
<1>6. Min(T) \in T /\ Min(T) <= i  BY <1>3, <1>4, MinIn
<1>7. Min(T) = i
  <2>1. Min(T) \in Nat /\ i \in Nat /\ ~(Min(T) < i)  BY <1>3, <1>4, <1>5, <1>6
  <2> QED  BY <1>6, <2>1
<1>8. Abstract!SortedPlace(s, e) = Abstract!Min(T)  BY DEF Abstract!SortedPlace, T
<1> QED  BY <1>7, <1>8, SameOperators

LEMMA FirstInIs ==
  ASSUME NEW l \in Lists, Seqs[l] \in Seq(Elems), NEW S, NEW i, Finds(Seqs[l], S, i)
  PROVE  Abstract!FirstIn(l, S) = IF i <= Len(Seqs[l]) THEN Seqs[l][i] ELSE Nothing
<1> DEFINE s == Seqs[l]
           found == {j \in 1..Len(s) : s[j] \in S}
<1>1. Len(s) \in Nat /\ i \in 1..Len(s) + 1  BY DEF Finds
<1>2. Abstract!FirstIn(l, S) = IF found = {} THEN Nothing ELSE s[Min(found)]
  <2>1. Abstract!FirstIn(l, S) = IF found = {} THEN Nothing ELSE s[Abstract!Min(found)]
    BY DEF Abstract!FirstIn, Seqs
  <2> QED  BY <2>1, SameOperators
<1>3. CASE i <= Len(s)
  <2>1. found \in SUBSET Nat /\ found # {} /\ i \in found  BY <1>1, <1>3 DEF Finds
  <2>2. ASSUME NEW j \in found PROVE ~(j < i)  BY <1>1 DEF Finds
  <2> HIDE DEF found
  <2>3. Min(found) \in found /\ Min(found) <= i  BY <2>1, MinIn
  <2>4. Min(found) = i
    <3>1. Min(found) \in Nat /\ i \in Nat /\ ~(Min(found) < i)  BY <2>1, <2>2, <2>3
    <3> QED  BY <2>3, <3>1
  <2> QED  BY <1>2, <1>3, <2>1, <2>4
<1>4. CASE ~(i <= Len(s))
  <2>1. found = {}  BY <1>1, <1>4 DEF Finds
  <2> QED  BY <1>2, <1>4, <2>1
<1> QED  BY <1>3, <1>4

LEMMA AddsTop ==
  ASSUME NEW l \in Lists, Seqs[l] \in Seq(Elems), NEW e \in Elems, Adds(l, e, 1)
  PROVE  Abstract!AddTop(l, e)
<1>1. <<e>> \o Seqs[l] = Inserted(Seqs[l], 1, e)  BY TopInserted
<1>2. Seqs' = [Seqs EXCEPT ![l] = <<e>> \o @] /\ res' = e  BY <1>1 DEF Adds
<1> QED  BY <1>2 DEF Abstract!AddTop, Seqs

LEMMA AddsSorted ==
  ASSUME NEW l \in Lists, Seqs[l] \in Seq(Elems), NEW e \in Elems, NEW i, Adds(l, e, i),
         Fits(Seqs[l], i, e)
  PROVE  Abstract!AddSorted(l, e)
<1>1. i \in 1..Len(Seqs[l]) + 1  BY DEF Adds
<1>2. Abstract!SortedPlace(Seqs[l], e) = i  BY <1>1, SortedPlaceIs
<1>3. InsertAt(Seqs[l], i, e) = Inserted(Seqs[l], i, e)  BY <1>1, InsertAtInserted
<1>4. Seqs' = [Seqs EXCEPT ![l] = Abstract!InsertAt(@, Abstract!SortedPlace(@, e), e)] /\ res' = e
  BY <1>2, <1>3, SameOperators DEF Adds
<1> QED  BY <1>4 DEF Abstract!AddSorted, Seqs

LEMMA RemovesTop ==
  ASSUME NEW l \in Lists, Seqs[l] \in Seq(Elems), Removes(l, 1)
  PROVE  Abstract!RemoveTop(l)
<1> DEFINE s == Seqs[l]
<1>0. Len(s) \in Nat  OBVIOUS
<1>1. CASE 1 <= Len(s)
  <2>1. s # <<>> /\ Head(s) = s[1]  BY <1>1
  <2>2. Tail(s) = Deleted(s, 1)  BY <2>1, TailDeleted
  <2>3. Seqs' = [Seqs EXCEPT ![l] = Tail(s)] /\ res' = Head(s)  BY <1>1, <2>1, <2>2 DEF Removes
  <2> QED  BY <2>1, <2>3 DEF Abstract!RemoveTop, Seqs
<1>2. CASE ~(1 <= Len(s))
  <2>1. s = <<>>  BY <1>0, <1>2
  <2>2. Seqs' = Seqs /\ res' = Nothing  BY <1>2 DEF Removes
  <2>3. Seqs' = [Seqs EXCEPT ![l] = s]  BY <2>2 DEF Seqs
  <2> QED  BY <2>1, <2>2, <2>3 DEF Abstract!RemoveTop, Seqs
<1> QED  BY <1>1, <1>2

LEMMA RemovesFound ==
  ASSUME NEW l \in Lists, Seqs[l] \in Seq(Elems), NEW S, NEW i, Finds(Seqs[l], S, i),
         Removes(l, i)
  PROVE  Abstract!RemoveOne(l, S)
<1> DEFINE s == Seqs[l]
<1>0. Len(s) \in Nat /\ i \in 1..Len(s) + 1  BY DEF Finds
<1>1. CASE i <= Len(s)
  <2>1. Abstract!FirstIn(l, S) = s[i]  BY <1>1, FirstInIs
  <2>2. i \in 1..Len(s) /\ \A j \in 1..i - 1 : s[j] # s[i]  BY <1>0, <1>1 DEF Finds
  <2>3. RemoveFirst(s, s[i]) = Deleted(s, i)  BY <2>2, RemoveFirstDeleted
  <2>4. Seqs' = [Seqs EXCEPT ![l] = Abstract!RemoveFirst(s, s[i])] /\ res' = s[i]
    BY <1>1, <2>3, SameOperators DEF Removes
  <2> QED  BY <2>1, <2>4 DEF Abstract!RemoveOne, Seqs
<1>2. CASE ~(i <= Len(s))
  <2>1. Abstract!FirstIn(l, S) = Nothing  BY <1>2, FirstInIs
  <2>2. ~\E j \in 1..Len(s) : s[j] = Nothing  BY HeapAssumption
  <2>3. RemoveFirst(s, Nothing) = s  BY <2>2 DEF RemoveFirst
  <2>4. Seqs' = Seqs /\ res' = Nothing  BY <1>2 DEF Removes
  <2>5. Seqs' = [Seqs EXCEPT ![l] = Abstract!RemoveFirst(s, Nothing)]  BY <2>3, <2>4, SameOperators DEF Seqs
  <2> QED  BY <2>1, <2>4, <2>5 DEF Abstract!RemoveOne, Seqs
<1> QED  BY <1>1, <1>2

LEMMA YieldsFound ==
  ASSUME NEW l \in Lists, Seqs[l] \in Seq(Elems), NEW S, NEW i, Finds(Seqs[l], S, i),
         Yields(l, i)
  PROVE  Abstract!Search(l, S)
<1>1. res' = Abstract!FirstIn(l, S) /\ Seqs' = Seqs  BY FirstInIs DEF Yields
<1> QED  BY <1>1 DEF Abstract!Search, Seqs
-----------------------------------------------------------------------------
(***************************************************************************)
(* Every step of the heap keeps the invariant, and is a step of            *)
(* SequenceLists or none.                                                  *)
(***************************************************************************)
Quiet == Seqs' = Seqs /\ res' = res

LEMMA NothingStep ==
  ASSUME NEW w, Heap(w), op = Idle, op' = Idle, NotFound
  PROVE  HInv' /\ Seqs' = Seqs /\ res' = Nothing
<1>1. Pending = {} /\ Pending' = {} /\ used = In(w)  BY DEF Pending, Idle, Heap
<1>2. /\ used' = In(w) \cup Pending' /\ res' \in Elems \cup {Nothing} /\ res' = Nothing
      /\ Places' /\ UNCHANGED <<root, n>>
      /\ \A x \in In(w) : next'[x] = next[x] /\ elem'[x] = elem[x]
  BY <1>1 DEF NotFound, Heap, Body, Places
<1> QED  BY <1>2, QuietStep

LEMMA RemoveTopSteps ==
  ASSUME NEW w, Heap(w), NEW l \in Lists, RemoveTop(l)
  PROVE  HInv' /\ Abstract!RemoveTop(l)
<1>1. op = Idle /\ op' = Idle  BY DEF RemoveTop, list_remove_top
<1>2. n[l] = Len(w[l]) /\ Len(Seqs[l]) = Len(w[l]) /\ Seqs[l] \in Seq(Elems)  BY Pointers
<1>3. CASE list_is_empty(l) /\ NotFound
  <2>1. HInv' /\ Seqs' = Seqs /\ res' = Nothing  BY <1>1, <1>3, NothingStep
  <2>2. Removes(l, 1)  BY <1>2, <1>3, <2>1 DEF Removes, list_is_empty
  <2> QED  BY <1>2, <2>1, <2>2, RemovesTop
<1>4. CASE ~list_is_empty(l) /\ list_remove_top(l)
  <2>1. HInv' /\ Removes(l, 1)  BY <1>1, <1>4, PopStep
  <2> QED  BY <1>2, <2>1, RemovesTop
<1> QED  BY <1>3, <1>4 DEF RemoveTop

LEMMA RemoveOneSteps ==
  ASSUME NEW w, Heap(w), NEW l \in Lists, NEW S \in Sought, RemoveOne(l, S)
  PROVE  HInv' /\ (Abstract!RemoveOne(l, S) \/ Quiet)
<1>1. op = Idle  BY DEF RemoveOne
<1>2. n[l] = Len(w[l]) /\ Len(Seqs[l]) = Len(w[l]) /\ Seqs[l] \in Seq(Elems)  BY Pointers
<1>3. CASE list_is_empty(l) /\ NotFound /\ UNCHANGED op
  <2>1. HInv' /\ Seqs' = Seqs /\ res' = Nothing  BY <1>1, <1>3, NothingStep
  <2>2. Finds(Seqs[l], S, 1) /\ Removes(l, 1)
    BY <1>2, <1>3, <2>1 DEF Finds, Removes, list_is_empty
  <2> QED  BY <1>2, <2>1, <2>2, RemovesFound
<1>4. CASE ~list_is_empty(l) /\ elem[root[l]] \in S /\ list_remove_top(l)
  <2>1. HInv' /\ Removes(l, 1) /\ 1 <= Len(Seqs[l]) /\ elem[root[l]] = Seqs[l][1]
    BY <1>1, <1>4, PopStep
  <2>2. Finds(Seqs[l], S, 1)  BY <1>2, <1>4, <2>1 DEF Finds
  <2> QED  BY <1>2, <2>1, <2>2, RemovesFound
<1>5. CASE /\ ~list_is_empty(l) /\ elem[root[l]] \notin S
           /\ op' = [name |-> "remove", list |-> l, key |-> S,
                     prec |-> root[l], seek |-> next[root[l]]]
           /\ UNCHANGED <<root, n, next, elem, used, res>>
  BY <1>1, <1>5, RemoveStartStep DEF Quiet
<1> QED  BY <1>3, <1>4, <1>5 DEF RemoveOne

LEMMA AddSortedSteps ==
  ASSUME NEW w, Heap(w), NEW l \in SortedLists, NEW e \in Elems, NEW x \in Nodes,
         AddSorted(l, e, x)
  PROVE  HInv' /\ (Abstract!AddSorted(l, e) \/ Quiet)
<1>1. l \in Lists  BY DEF Lists
<1>2. CASE GoesFirst(l, e) /\ list_add_top(l, e, x)
  <2>1. MayAdd(l, e, x)  BY DEF AddSorted
  <2>2. HInv' /\ Adds(l, e, 1) /\ Fits(Seqs[l], 1, e)  BY <1>1, <1>2, <2>1, TopStep
  <2>3. Seqs[l] \in Seq(Elems)  BY <1>1, Pointers
  <2> QED  BY <1>1, <2>2, <2>3, AddsSorted
<1>3. CASE ~(GoesFirst(l, e) /\ list_add_top(l, e, x))
  BY <1>3, AllocStep DEF Quiet
<1> QED  BY <1>2, <1>3

LEMMA AbstractSets ==
  Abstract!Lists = Lists /\ Abstract!Wanted = Sought /\ {} \in Sought
  /\ ById \subseteq Sought /\ ByPid \subseteq Sought
BY DEF Abstract!Lists, Lists, Abstract!Wanted, Sought, ById, ByPid

LEMMA NextSteps ==
  ASSUME HInv, HeapNext
  PROVE  HInv' /\ (Abstract!ListsNext \/ Quiet)
<1>0. PICK w : w = Walks  OBVIOUS
<1>1. Heap(w)  BY <1>0 DEF HInv
<1>2. TopLists \subseteq Lists /\ SortedLists \subseteq Lists /\ TopLists \cap SortedLists = {}
  BY HeapAssumption DEF Lists
<1>3. \A l \in Lists : Seqs[l] \in Seq(Elems)  BY <1>1, Pointers
<1>4. ASSUME NEW l \in TopLists, NEW e \in Elems, NEW x \in Nodes, AddTop(l, e, x)
      PROVE  HInv' /\ Abstract!ListsNext
  <2>1. l \in Lists /\ l \notin SortedLists /\ MayAdd(l, e, x) /\ list_add_top(l, e, x)
    BY <1>2, <1>4 DEF AddTop
  <2>2. HInv' /\ Adds(l, e, 1)  BY <1>1, <2>1, TopStep
  <2>3. Abstract!AddTop(l, e)  BY <1>3, <2>1, <2>2, AddsTop
  <2> QED  BY <2>2, <2>3 DEF Abstract!ListsNext
<1>5. ASSUME NEW l \in TopLists, RemoveTop(l) PROVE HInv' /\ Abstract!ListsNext
  <2>1. l \in Lists  BY <1>2
  <2>2. HInv' /\ Abstract!RemoveTop(l)  BY <1>1, <1>5, <2>1, RemoveTopSteps
  <2> QED  BY <2>1, <2>2, AbstractSets DEF Abstract!ListsNext
<1>6. ASSUME NEW l \in Lists, NEW S \in ById \cup ByPid, RemoveOne(l, S)
      PROVE  HInv' /\ (Abstract!ListsNext \/ Quiet)
  <2>1. S \in Sought  BY AbstractSets
  <2>2. HInv' /\ (Abstract!RemoveOne(l, S) \/ Quiet)  BY <1>1, <1>6, <2>1, RemoveOneSteps
  <2> QED  BY <2>1, <2>2, AbstractSets DEF Abstract!ListsNext
<1>7. ASSUME NEW l \in Lists, NEW S \in ById \cup {{}}, Search(l, S) PROVE HInv' /\ Quiet
  <2>1. S \in Sought /\ op = Idle  BY <1>7, AbstractSets DEF Search
  <2> QED  BY <1>1, <1>7, <2>1, SearchStartStep DEF Quiet
<1>8. ASSUME NEW l \in SortedLists, NEW e \in Elems, NEW x \in Nodes, AddSorted(l, e, x)
      PROVE  HInv' /\ (Abstract!ListsNext \/ Quiet)
  <2>1. HInv' /\ (Abstract!AddSorted(l, e) \/ Quiet)  BY <1>1, <1>8, AddSortedSteps
  <2> QED  BY <2>1 DEF Abstract!ListsNext
<1>9. ASSUME AddSeek \/ RemoveSeek PROVE HInv' /\ Quiet
  BY <1>1, <1>9, AddSeekStep, RemoveSeekStep DEF Quiet
<1>10. ASSUME AddLink PROVE HInv' /\ Abstract!ListsNext
  <2>1. PICK l, e : l = op.list /\ e = elem[op.new]  OBVIOUS
  <2>2. HInv' /\ l \in SortedLists /\ e \in Elems /\ \E i : Adds(l, e, i) /\ Fits(Seqs[l], i, e)
    BY <1>1, <1>10, <2>1, AddLinkStep
  <2>3. PICK i : Adds(l, e, i) /\ Fits(Seqs[l], i, e)  BY <2>2
  <2>4. Abstract!AddSorted(l, e)  BY <1>2, <1>3, <2>2, <2>3, AddsSorted
  <2> QED  BY <2>2, <2>4 DEF Abstract!ListsNext
<1>11. ASSUME RemoveEnd PROVE HInv' /\ Abstract!ListsNext
  <2>1. PICK l, S : l = op.list /\ S = op.key  OBVIOUS
  <2>2. HInv' /\ l \in Lists /\ S \in Sought /\ \E i : Finds(Seqs[l], S, i) /\ Removes(l, i)
    BY <1>1, <1>11, <2>1, RemoveEndStep
  <2>3. PICK i : Finds(Seqs[l], S, i) /\ Removes(l, i)  BY <2>2
  <2>4. Abstract!RemoveOne(l, S)  BY <1>3, <2>2, <2>3, RemovesFound
  <2> QED  BY <2>2, <2>4, AbstractSets DEF Abstract!ListsNext
<1>12. ASSUME SearchStep PROVE HInv' /\ (Abstract!ListsNext \/ Quiet)
  <2>1. PICK S : S = op.key  OBVIOUS
  <2>2. /\ HInv' /\ S \in Sought
        /\ Quiet \/ \E l \in Lists : \E i : Finds(Seqs[l], S, i) /\ Yields(l, i)
    BY <1>1, <1>12, <2>1, SearchStepStep DEF Quiet
  <2>3. ASSUME NEW l \in Lists, NEW i, Finds(Seqs[l], S, i), Yields(l, i)
        PROVE  Abstract!ListsNext
    <3>1. Abstract!Search(l, S)  BY <1>3, <2>3, YieldsFound
    <3> QED  BY <2>2, <3>1, AbstractSets DEF Abstract!ListsNext
  <2> QED  BY <2>2, <2>3
<1>13. CASE Step  BY <1>9, <1>10, <1>11, <1>12, <1>13 DEF Step
<1>14. CASE \E l \in TopLists : \/ \E e \in Elems, x \in Nodes : AddTop(l, e, x)
                                \/ RemoveTop(l)
                                \/ \E S \in ById \cup ByPid : RemoveOne(l, S)
                                \/ \E S \in ById : Search(l, S)
  <2>1. PICK l \in TopLists : \/ \E e \in Elems, x \in Nodes : AddTop(l, e, x)
                              \/ RemoveTop(l)
                              \/ \E S \in ById \cup ByPid : RemoveOne(l, S)
                              \/ \E S \in ById : Search(l, S)
    BY <1>14
  <2>2. l \in Lists  BY <1>2
  <2> QED  BY <1>4, <1>5, <1>6, <1>7, <2>1, <2>2
<1>15. CASE \E l \in SortedLists : \/ \E e \in Elems, x \in Nodes : AddSorted(l, e, x)
                                   \/ \E S \in ById : RemoveOne(l, S)
                                   \/ Search(l, {})
  <2>1. PICK l \in SortedLists : \/ \E e \in Elems, x \in Nodes : AddSorted(l, e, x)
                                 \/ \E S \in ById : RemoveOne(l, S)
                                 \/ Search(l, {})
    BY <1>15
  <2>2. l \in Lists  BY <1>2
  <2> QED  BY <1>6, <1>7, <1>8, <2>1, <2>2
<1> QED  BY <1>13, <1>14, <1>15 DEF HeapNext
-----------------------------------------------------------------------------
(***************************************************************************)
(* The empty heap, and a step that changes nothing.                        *)
(***************************************************************************)
LEMMA InitSteps ==
  ASSUME HeapInit
  PROVE  HInv /\ Abstract!ListsInit
<1> DEFINE w == [l \in Lists |-> <<>>]
<1>1. /\ root = [l \in Lists |-> NULL] /\ n = [l \in Lists |-> 0]
      /\ next = [x \in Nodes |-> Junk] /\ elem = [x \in Nodes |-> Junk]
      /\ used = {} /\ op = Idle /\ res = Nothing
  BY DEF HeapInit, list_init
<1>2. <<>> \in Seq(Nodes) /\ Len(<<>>) = 0 /\ 1..0 = {} /\ ToSet(<<>>) = {}  BY DEF ToSet
<1>3. \A l \in Lists : w[l] = <<>>  OBVIOUS
<1>4. w \in [Lists -> Seq(Nodes)]  BY <1>2
<1> HIDE DEF w
<1>5. In(w) = {}  BY <1>2, <1>3 DEF In
<1>6. Places  BY <1>1 DEF Places
<1>7. Shape(w, root, n, next)
  <2>1. Apart(w)  BY <1>2, <1>3 DEF Apart
  <2>2. \A l \in Lists : Chain(next, root[l], w[l]) /\ n[l] = Len(w[l])
    BY <1>1, <1>2, <1>3 DEF Chain, NodeAt
  <2> QED  BY <1>4, <2>1, <2>2 DEF Shape
<1>8. \A l \in Lists : Named(w[l], elem) = <<>>  BY <1>2, <1>3 DEF Named
<1>9. \A l \in SortedLists : Ascending(Named(w[l], elem), Key)
  BY <1>2, <1>8 DEF Ascending, Lists
<1>10. Body(w)  BY <1>5, <1>6, <1>7, <1>9 DEF Body
<1>11. w = Walks /\ Seqs = [l \in Lists |-> Named(w[l], elem)]  BY <1>10, BodyFound DEF Found
<1>12. Heap(w)  BY <1>1, <1>5, <1>10 DEF Heap, Pending, Idle
<1>13. Seqs = [l \in Lists |-> <<>>]  BY <1>8, <1>11
<1> QED  BY <1>1, <1>11, <1>12, <1>13, AbstractSets DEF HInv, Abstract!ListsInit, Seqs

LEMMA StutterStep ==
  ASSUME HInv, UNCHANGED hvars
  PROVE  HInv' /\ Quiet
<1>0. PICK w : w = Walks  OBVIOUS
<1>1. Heap(w)  BY <1>0 DEF HInv
<1>2. UNCHANGED <<root, n, next, elem, used, op, res>>  BY DEF hvars
<1>3. used' = In(w) \cup Pending' /\ res' \in Elems \cup {Nothing} /\ Places'
      /\ \A x \in In(w) : next'[x] = next[x] /\ elem'[x] = elem[x]
  BY <1>1, <1>2 DEF Heap, Body, Places, Pending
<1>4. (op = Idle \/ Inserting(w) \/ Removing(w) \/ Searching(w))'
  BY <1>1, <1>2 DEF Heap, Inserting, Removing, Searching
<1> QED  BY <1>1, <1>2, <1>3, <1>4, QuietStep DEF Quiet

LEMMA HeapInvariant == HeapSpec => []HInv
<1>1. HeapInit => HInv  BY InitSteps
<1>2. HInv /\ [HeapNext]_hvars => HInv'  BY NextSteps, StutterStep
<1> QED  BY <1>1, <1>2, PTL DEF HeapSpec

(***************************************************************************)
(* ImplementsSequences: seen through Contents, every operation of list.c   *)
(* does to a sequence what SequenceLists says and returns the same         *)
(* element; the turns of its loops change no sequence and no result.       *)
(***************************************************************************)
THEOREM ListsImplementSequences == HeapSpec => ImplementsSequences
<1>1. HeapInit => Abstract!ListsInit  BY InitSteps
<1>2. HInv /\ [HeapNext]_hvars => [Abstract!ListsNext]_(Abstract!lvars)
  <2>1. HInv /\ [HeapNext]_hvars => Abstract!ListsNext \/ Quiet  BY NextSteps, StutterStep
  <2>2. Quiet => UNCHANGED Abstract!lvars  BY DEF Quiet, Seqs, Abstract!lvars
  <2> QED  BY <2>1, <2>2
<1> QED  BY <1>1, <1>2, HeapInvariant, PTL DEF HeapSpec, ImplementsSequences, Abstract!ListsSpec

(***************************************************************************)
(* HeapExact: no node is in two lists or twice in one, none is freed while *)
(* a list holds it, none is leaked, and every count is right.              *)
(***************************************************************************)
LEMMA HeapGivesExact == HInv => HeapExact
<1> SUFFICES ASSUME HInv PROVE HeapExact
  OBVIOUS
<1>0. PICK w : w = Walks  OBVIOUS
<1>1. Heap(w) /\ Body(w) /\ Shape(w, root, n, next)  BY <1>0 DEF HInv, Heap, Body
<1>2. w \in [Lists -> Seq(Nodes)] /\ Apart(w)  BY <1>1 DEF Shape
<1>3. [l \in Lists |-> Walk(l)] = w  BY <1>0 DEF Walks
<1>4. ASSUME NEW l \in Lists PROVE n[l] = Len(w[l]) /\ IsInjective(w[l])
  BY <1>1, <1>2, Pointers, ApartInjective
<1>5. ASSUME NEW l \in Lists, NEW m \in Lists, l # m PROVE ToSet(w[l]) \cap ToSet(w[m]) = {}
  <2>1. DOMAIN w[l] = 1..Len(w[l]) /\ DOMAIN w[m] = 1..Len(w[m])  BY <1>2
  <2> QED  BY <1>2, <1>5, <2>1 DEF ToSet, Apart
<1>6. used = (UNION {ToSet(w[l]) : l \in Lists}) \cup Pending  BY <1>1 DEF Heap, In
<1> QED  BY <1>3, <1>4, <1>5, <1>6 DEF HeapExact

THEOREM ListsExact == HeapSpec => []HeapExact
BY HeapInvariant, HeapGivesExact, PTL

(***************************************************************************)
(* StaysSorted: what list_add_sorted has filled is in order at all times,  *)
(* after removals and in the middle of a loop too.                         *)
(***************************************************************************)
LEMMA HeapGivesSorted == HInv => StaysSorted
<1> SUFFICES ASSUME HInv, NEW l \in SortedLists,
                    NEW i \in 1..Len(Contents(l)) - 1
             PROVE  Key[Contents(l)[i]] <= Key[Contents(l)[i + 1]]
  BY DEF StaysSorted
<1>0. PICK w : w = Walks  OBVIOUS
<1>1. Heap(w) /\ Body(w) /\ l \in Lists  BY <1>0 DEF HInv, Heap, Lists
<1>2. Contents(l) = Named(w[l], elem)  BY <1>1, BodyContents
<1>3. Ascending(Contents(l), Key)  BY <1>1, <1>2 DEF Body
<1>4. Len(Contents(l)) \in Nat  BY <1>1, <1>2, BodyNamed
<1>5. i \in 1..Len(Contents(l)) /\ i + 1 \in 1..Len(Contents(l)) /\ i <= i + 1  BY <1>4
<1> QED  BY <1>3, <1>5 DEF Ascending

THEOREM ListsStaySorted == HeapSpec => []StaysSorted
BY HeapInvariant, HeapGivesSorted, PTL
-----------------------------------------------------------------------------
(***************************************************************************)
(* LoopsShrink.  From a cursor at position k an iterator finds the rest of *)
(* the list.                                                               *)
(***************************************************************************)
LEMMA WalkAhead ==
  ASSUME NEW w, Heap(w), NEW l \in Lists, NEW k \in 1..Len(w[l]) + 1
  PROVE  Len(WalkIn(next, NodeAt(w[l], k))) = Len(w[l]) - k + 1
<1> DEFINE s == w[l]
           r == [j \in 1..Len(s) - k + 1 |-> s[k + j - 1]]
<1>1. /\ s \in Seq(Nodes) /\ Len(s) \in Nat
      /\ \A i \in 1..Len(s) : next[s[i]] = NodeAt(s, i + 1) /\ s[i] \in Nodes
  BY Pointers
<1>2. w \in [Lists -> Seq(Nodes)] /\ Apart(w)  BY DEF Heap, Body, Shape
<1>3. IsInjective(s)  BY <1>2, ApartInjective
<1> HIDE DEF s
<1>4. k \in Nat /\ k >= 1 /\ k <= Len(s) + 1  BY <1>1 DEF s
<1>5. \A j \in 1..Len(s) - k + 1 : k + j - 1 \in 1..Len(s)  BY <1>1, <1>4
<1>6. r \in Seq(Nodes) /\ Len(r) = Len(s) - k + 1
  <2>1. Len(s) - k + 1 \in Nat  BY <1>1, <1>4
  <2>2. r \in [1..Len(s) - k + 1 -> Nodes]  BY <1>1, <1>5
  <2>3. DOMAIN r = 1..Len(s) - k + 1  OBVIOUS
  <2> HIDE DEF r
  <2>4. PICK m \in Nat : m = Len(s) - k + 1  BY <2>1
  <2> QED  BY <2>2, <2>3, <2>4
<1>7. \A j \in 1..Len(r) : r[j] = s[k + j - 1] /\ k + j - 1 \in 1..Len(s)  BY <1>5, <1>6
<1> HIDE DEF r
<1>8. IsInjective(r)
  <2>1. DOMAIN r = 1..Len(r) /\ DOMAIN s = 1..Len(s)  BY <1>1, <1>6
  <2>2. ASSUME NEW a \in 1..Len(r), NEW b \in 1..Len(r), r[a] = r[b] PROVE a = b
    <3>1. k + a - 1 = k + b - 1  BY <1>3, <1>7, <2>1, <2>2 DEF IsInjective
    <3> QED  BY <1>4, <3>1
  <2> QED  BY <2>1, <2>2 DEF IsInjective
<1>9. ASSUME NEW j \in Nat, j \in 1..Len(r) + 1 PROVE NodeAt(r, j) = NodeAt(s, k + j - 1)
  <2>1. CASE j <= Len(r)
    <3>1. r[j] = s[k + j - 1] /\ k + j - 1 <= Len(s)  BY <1>1, <1>6, <1>7, <1>9, <2>1
    <3> QED  BY <2>1, <3>1 DEF NodeAt
  <2>2. CASE ~(j <= Len(r))
    <3>1. ~(k + j - 1 <= Len(s))  BY <1>1, <1>4, <1>6, <2>2
    <3> QED  BY <2>2, <3>1 DEF NodeAt
  <2> QED  BY <2>1, <2>2
<1>10. Chain(next, NodeAt(s, k), r)
  <2>1. NodeAt(r, 1) = NodeAt(s, k)
    <3>1. 1 \in Nat /\ 1 \in 1..Len(r) + 1 /\ k + 1 - 1 = k  BY <1>1, <1>4, <1>6
    <3>2. NodeAt(r, 1) = NodeAt(s, k + 1 - 1)  BY <1>9, <3>1
    <3> QED  BY <3>1, <3>2
  <2>2. ASSUME NEW j \in 1..Len(r) PROVE next[r[j]] = NodeAt(r, j + 1)
    <3>1. j + 1 \in Nat /\ j + 1 \in 1..Len(r) + 1 /\ k + (j + 1) - 1 = (k + j - 1) + 1
      BY <1>1, <1>4, <1>6
    <3>2. NodeAt(r, j + 1) = NodeAt(s, k + (j + 1) - 1)  BY <1>9, <3>1
    <3>3. next[r[j]] = NodeAt(s, (k + j - 1) + 1)  BY <1>1, <1>7
    <3> QED  BY <3>1, <3>2, <3>3
  <2> QED  BY <2>1, <2>2 DEF Chain
<1>11. WalkIn(next, NodeAt(s, k)) = r  BY <1>6, <1>8, <1>10, WalkFindsList
<1> QED  BY <1>6, <1>11 DEF s

(***************************************************************************)
(* Where seek is, in all three loops: at a position of a list.             *)
(***************************************************************************)
LEMMA SeekOnList ==
  ASSUME NEW w, Heap(w), op # Idle
  PROVE  \E l \in Lists : \E k \in 1..Len(w[l]) + 1 : op.seek = NodeAt(w[l], k)
<1>1. CASE Inserting(w)
  <2>1. PICK l : l = op.list  OBVIOUS
  <2>2. l \in Lists  BY <1>1, <2>1 DEF Inserting, Lists
  <2>3. PICK k \in 1..Len(w[l]) : op.seek = NodeAt(w[l], k + 1)  BY <1>1, <2>1 DEF Inserting
  <2>4. Len(w[l]) \in Nat  BY <2>2, Pointers
  <2>5. k + 1 \in 1..Len(w[l]) + 1  BY <2>4
  <2> QED  BY <2>2, <2>3, <2>5
<1>2. CASE Removing(w)
  <2>1. PICK l : l = op.list  OBVIOUS
  <2>2. l \in Lists  BY <1>2, <2>1 DEF Removing
  <2>3. PICK k \in 1..Len(w[l]) : op.seek = NodeAt(w[l], k + 1)  BY <1>2, <2>1 DEF Removing
  <2>4. Len(w[l]) \in Nat  BY <2>2, Pointers
  <2>5. k + 1 \in 1..Len(w[l]) + 1  BY <2>4
  <2> QED  BY <2>2, <2>3, <2>5
<1>3. CASE Searching(w)  BY <1>3 DEF Searching
<1> QED  BY <1>1, <1>2, <1>3 DEF Heap

\* The turns of the three loops: seek goes to the node behind it.
Turn == /\ op.seek # NULL /\ op'.seek = next[op.seek] /\ next' = next

LEMMA LoopsTurn ==
  ASSUME HInv, HeapNext, op # Idle, op' # Idle
  PROVE  Turn
<1>0. PICK w : w = Walks  OBVIOUS
<1>1. Heap(w)  BY <1>0 DEF HInv
<1>2. Step
  BY DEF HeapNext, AddTop, AddSorted, MayAdd, RemoveTop, RemoveOne, Search
<1>3. /\ Inserting(w) => DOMAIN op = {"name", "list", "new", "prec", "seek"}
      /\ Removing(w) => DOMAIN op = {"name", "list", "key", "prec", "seek"}
      /\ Searching(w) => DOMAIN op = {"name", "key", "seek"}
  BY DEF Inserting, Removing, Searching
<1>4. "seek" \in DOMAIN op  BY <1>1, <1>3 DEF Heap
<1>5. /\ AddSeek => Inserting(w) /\ Seek /\ op.seek # NULL
      /\ RemoveSeek => Removing(w) /\ Seek /\ op.seek # NULL
  BY <1>1 DEF AddSeek, RemoveSeek, Smaller, Differs, Heap, Idle, Inserting, Removing, Searching
<1>6. CASE AddSeek \/ RemoveSeek
  <2>1. op' = [op EXCEPT !.prec = next[@], !.seek = next[@]] /\ next' = next /\ op.seek # NULL
    BY <1>5, <1>6 DEF Seek
  <2>2. op'.seek = next[op.seek]
    <3>1. (Inserting(w) \/ Removing(w)) => op'.seek = next[op.seek]
      BY <2>1 DEF Inserting, Removing
    <3> QED  BY <1>5, <1>6, <3>1
  <2> QED  BY <2>1, <2>2 DEF Turn
<1>7. CASE SearchStep
  <2>1. op' = [op EXCEPT !.seek = next[@]] /\ next' = next /\ op.seek # NULL
    BY <1>7 DEF SearchStep, Differs
  <2> QED  BY <1>4, <2>1 DEF Turn
<1> QED  BY <1>2, <1>6, <1>7 DEF Step, AddLink, RemoveEnd

(***************************************************************************)
(* Every turn of a loop of list.c leaves less of the list in front of      *)
(* seek: no loop runs forever, however long the lists are.                 *)
(***************************************************************************)
THEOREM ListLoopsShrink == HeapSpec => LoopsShrink
<1>1. ASSUME HInv, HeapNext, op # Idle, op' # Idle PROVE Ahead' < Ahead
  <2>0. PICK w : w = Walks  OBVIOUS
  <2>1. Heap(w) /\ Turn  BY <1>1, <2>0, LoopsTurn DEF HInv
  <2>2. PICK l \in Lists : \E k \in 1..Len(w[l]) + 1 : op.seek = NodeAt(w[l], k)
    BY <1>1, <2>1, SeekOnList
  <2>3. PICK k \in 1..Len(w[l]) + 1 : op.seek = NodeAt(w[l], k)  BY <2>2
  <2>4. Len(w[l]) \in Nat  BY <2>1, Pointers
  <2>5. k \in Nat \ {0} /\ NodeAt(w[l], k) # NULL  BY <2>1, <2>3, <2>4 DEF Turn
  <2>6. k \in 1..Len(w[l]) /\ next[NodeAt(w[l], k)] = NodeAt(w[l], k + 1)
    BY <2>1, <2>5, MovesOn
  <2>7. k + 1 \in 1..Len(w[l]) + 1  BY <2>4, <2>6
  <2>8. Len(WalkIn(next, NodeAt(w[l], k))) = Len(w[l]) - k + 1
    BY <2>1, WalkAhead
  <2>9. Len(WalkIn(next, NodeAt(w[l], k + 1))) = Len(w[l]) - (k + 1) + 1
    BY <2>1, <2>7, WalkAhead
  <2>10. Ahead = Len(WalkIn(next, NodeAt(w[l], k)))  BY <2>3 DEF Ahead, WalkFrom
  <2>11. Ahead' = Len(WalkIn(next, NodeAt(w[l], k + 1)))
    BY <2>1, <2>3, <2>6 DEF Ahead, WalkFrom, Turn
  <2> QED  BY <2>4, <2>6, <2>8, <2>9, <2>10, <2>11
<1>2. HInv /\ [HeapNext]_hvars => [op # Idle /\ op' # Idle => Ahead' < Ahead]_hvars  BY <1>1
<1> QED  BY <1>2, HeapInvariant, PTL DEF HeapSpec, LoopsShrink

==============================================================================
