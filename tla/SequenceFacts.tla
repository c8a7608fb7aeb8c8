---------------------------- MODULE SequenceFacts ----------------------------
(***************************************************************************)
(* Facts about least and greatest elements, about sequences without        *)
(* repetitions and about folds and sums over finite sets, on which the     *)
(* proofs about retif's lists, counters and parsers rest.                  *)
(***************************************************************************)
EXTENDS Enumeration, SequenceTheorems, FiniteSetTheorems, WellFoundedInduction, TLAPS

(***************************************************************************)
(* Min picks the least element of a non-empty set of naturals.             *)
(***************************************************************************)
LEMMA MinIn ==
  ASSUME NEW S \in SUBSET Nat, S # {}
  PROVE  Min(S) \in S /\ \A y \in S : Min(S) <= y
<1>1. PICK x \in S : \A y \in S : ~ (<<y, x>> \in OpToRel(<, Nat))
  BY WFMin, NatLessThanWellFounded
<1>2. ASSUME NEW y \in S, y < x PROVE FALSE
  <2>1. <<y, x>> \in OpToRel(<, Nat)  BY <1>2 DEF OpToRel
  <2> QED  BY <1>1, <2>1
<1>3. \A y \in S : x <= y  BY <1>2
<1> QED  BY <1>3 DEF Min

(***************************************************************************)
(* Max picks the greatest element of a non-empty set of naturals below n.  *)
(***************************************************************************)
LEMMA MaxIn ==
  ASSUME NEW n \in Nat, NEW S \in SUBSET (0..n), S # {}
  PROVE  Max(S) \in S /\ \A y \in S : y <= Max(S)
<1> DEFINE T == {n - x : x \in S}
<1>1. T \in SUBSET Nat /\ T # {}  OBVIOUS
<1>2. Min(T) \in T /\ \A y \in T : Min(T) <= y  BY <1>1, MinIn
<1>3. PICK x \in S : Min(T) = n - x  BY <1>2
<1>4. \A y \in S : y <= x  BY <1>2, <1>3
<1> QED  BY <1>4 DEF Max

(***************************************************************************)
(* What InsertAt returns.                                                  *)
(***************************************************************************)
LEMMA InsertAtElements ==
  ASSUME NEW S, NEW s \in Seq(S), NEW e \in S, NEW i \in 1..Len(s) + 1
  PROVE  /\ InsertAt(s, i, e) \in Seq(S)
         /\ Len(InsertAt(s, i, e)) = Len(s) + 1
         /\ InsertAt(s, i, e)[i] = e
         /\ \A j \in 1..i - 1 : InsertAt(s, i, e)[j] = s[j]
         /\ \A j \in i..Len(s) : InsertAt(s, i, e)[j + 1] = s[j]
<1> DEFINE p == SubSeq(s, 1, i - 1)
           q == SubSeq(s, i, Len(s))
<1>1. p \in Seq(S) /\ Len(p) = i - 1 /\ \A j \in 1..i - 1 : p[j] = s[j]
  BY SubSeqProperties
<1>2. q \in Seq(S) /\ Len(q) = Len(s) - i + 1 /\ \A j \in 1..Len(s) - i + 1 : q[j] = s[i + j - 1]
  BY SubSeqProperties
<1>3. InsertAt(s, i, e) = (p \o <<e>>) \o q  BY DEF InsertAt
<1> HIDE DEF p, q
<1>4. <<e>> \in Seq(S) /\ Len(<<e>>) = 1 /\ <<e>>[1] = e  OBVIOUS
<1>5. /\ p \o <<e>> \in Seq(S) /\ Len(p \o <<e>>) = i
      /\ \A j \in 1..i : (p \o <<e>>)[j] = IF j < i THEN s[j] ELSE e
  BY <1>1, <1>4, ConcatProperties
<1> DEFINE pe == p \o <<e>>
<1> HIDE DEF pe
<1>6. /\ pe \o q \in Seq(S)
      /\ Len(pe \o q) = Len(s) + 1
      /\ \A j \in 1..Len(s) + 1 : (pe \o q)[j] = IF j <= i THEN pe[j] ELSE q[j - i]
  BY <1>2, <1>5, ConcatProperties DEF pe
<1>7. ASSUME NEW j \in i..Len(s) PROVE (pe \o q)[j + 1] = s[j]
  <2>1. j + 1 - i \in 1..Len(s) - i + 1 /\ j + 1 \in 1..Len(s) + 1 /\ ~(j + 1 <= i)
    OBVIOUS
  <2>2. (pe \o q)[j + 1] = q[j + 1 - i]  BY <1>6, <2>1
  <2>3. q[j + 1 - i] = s[i + (j + 1 - i) - 1]  BY <1>2, <2>1
  <2>4. i + (j + 1 - i) - 1 = j  OBVIOUS
  <2> QED  BY <2>2, <2>3, <2>4
<1>8. ASSUME NEW j \in 1..i PROVE (pe \o q)[j] = IF j < i THEN s[j] ELSE e
  <2>1. j \in 1..Len(s) + 1 /\ j <= i  OBVIOUS
  <2>2. (pe \o q)[j] = pe[j]  BY <1>6, <2>1
  <2> QED  BY <1>5, <2>2 DEF pe
<1> DEFINE w == pe \o q
<1> HIDE DEF w
<1>9. w[i] = e /\ \A j \in 1..i - 1 : w[j] = s[j]
  <2>1. \A j \in 1..i : w[j] = IF j < i THEN s[j] ELSE e  BY <1>8 DEF w
  <2> QED  BY <2>1
<1>10. InsertAt(s, i, e) = pe \o q  BY <1>3 DEF pe
<1> QED  BY <1>6, <1>7, <1>9, <1>10 DEF w

(***************************************************************************)
(* What RemoveFirst returns when e is in s, at position k first.           *)
(***************************************************************************)
LEMMA RemoveFirstElements ==
  ASSUME NEW S, NEW s \in Seq(S), NEW e, \E j \in 1..Len(s) : s[j] = e
  PROVE  \E k \in 1..Len(s) :
           /\ s[k] = e
           /\ RemoveFirst(s, e) \in Seq(S)
           /\ Len(RemoveFirst(s, e)) = Len(s) - 1
           /\ \A j \in 1..Len(s) - 1 :
                RemoveFirst(s, e)[j] = IF j < k THEN s[j] ELSE s[j + 1]
<1> DEFINE I == {j \in 1..Len(s) : s[j] = e}
           k == Min(I)
           p == SubSeq(s, 1, k - 1)
           q == SubSeq(s, k + 1, Len(s))
<1>1. I \in SUBSET Nat /\ I # {}  OBVIOUS
<1>2. k \in 1..Len(s) /\ s[k] = e  BY <1>1, MinIn
<1>3. RemoveFirst(s, e) = p \o q
  BY <1>1 DEF RemoveFirst, RemoveAt, SelectInSeq
<1> HIDE DEF I, k
<1>4. p \in Seq(S) /\ Len(p) = k - 1 /\ \A j \in 1..k - 1 : p[j] = s[j]
  BY <1>2, SubSeqProperties
<1>5. q \in Seq(S) /\ Len(q) = Len(s) - k /\ \A j \in 1..Len(s) - k : q[j] = s[k + j]
  BY <1>2, SubSeqProperties
<1> HIDE DEF p, q
<1>6. /\ p \o q \in Seq(S)
      /\ Len(p \o q) = Len(s) - 1
      /\ \A j \in 1..Len(s) - 1 : (p \o q)[j] = IF j < k THEN s[j] ELSE s[j + 1]
  <2>1. /\ p \o q \in Seq(S)
        /\ Len(p \o q) = Len(p) + Len(q)
        /\ \A j \in 1..Len(p) + Len(q) :
             (p \o q)[j] = IF j <= Len(p) THEN p[j] ELSE q[j - Len(p)]
    BY <1>4, <1>5, ConcatProperties
  <2>2. Len(p) + Len(q) = Len(s) - 1  BY <1>2, <1>4, <1>5
  <2>3. ASSUME NEW j \in 1..Len(s) - 1
        PROVE  (p \o q)[j] = IF j < k THEN s[j] ELSE s[j + 1]
    <3>1. CASE j < k  BY <1>2, <1>4, <2>1, <2>2, <3>1
    <3>2. CASE j >= k
      <4>1. (p \o q)[j] = q[j - (k - 1)]  BY <1>2, <1>4, <2>1, <2>2, <3>2
      <4>2. j - (k - 1) \in 1..Len(s) - k  BY <1>2, <3>2
      <4>3. q[j - (k - 1)] = s[k + (j - (k - 1))]  BY <1>5, <4>2
      <4> QED  BY <1>2, <3>2, <4>1, <4>3
    <3>3. j < k \/ j >= k  BY <1>2
    <3> QED  BY <3>1, <3>2, <3>3
  <2> QED  BY <2>1, <2>2, <2>3
<1> QED  BY <1>2, <1>3, <1>6

(***************************************************************************)
(* Inserting a new element anywhere in an enumeration of a set.            *)
(***************************************************************************)
LEMMA InsertEnumerates ==
  ASSUME NEW T, NEW s \in Seq(T), NEW S, Enumerates(s, S),
         NEW e \in T, e \notin S, NEW i \in 1..Len(s) + 1
  PROVE  InsertAt(s, i, e) \in Seq(T) /\ Enumerates(InsertAt(s, i, e), S \cup {e})
<1> DEFINE r == InsertAt(s, i, e)
<1>1. /\ r \in Seq(T)
      /\ Len(r) = Len(s) + 1
      /\ r[i] = e
      /\ \A j \in 1..i - 1 : r[j] = s[j]
      /\ \A j \in i..Len(s) : r[j + 1] = s[j]
  BY InsertAtElements
<1> HIDE DEF r
<1>2. \A j \in 1..Len(s) : s[j] \in S /\ s[j] # e  BY DEF Enumerates, ToSet
<1>3. \A a, b \in 1..Len(s) : s[a] = s[b] => a = b  BY DEF Enumerates
<1>4. ToSet(r) \subseteq S \cup {e}
  <2>1. ASSUME NEW j \in 1..Len(r) PROVE r[j] \in S \cup {e}
    <3>1. CASE j < i  BY <1>1, <1>2, <3>1
    <3>2. CASE j > i
      <4>1. j - 1 \in i..Len(s) /\ (j - 1) + 1 = j  BY <1>1, <3>2
      <4>2. r[j] = s[j - 1]  BY <1>1, <4>1
      <4> QED  BY <1>2, <4>1, <4>2
    <3> QED  BY <1>1, <3>1, <3>2
  <2> QED  BY <1>1, <2>1 DEF ToSet
<1>5. ASSUME NEW x \in S PROVE x \in ToSet(r)
  <2>1. PICK a \in 1..Len(s) : s[a] = x  BY <1>5 DEF Enumerates, ToSet
  <2>2. CASE a < i  BY <1>1, <2>1, <2>2 DEF ToSet
  <2>3. CASE a >= i
    <3>1. r[a + 1] = x /\ a + 1 \in 1..Len(r)  BY <1>1, <2>1, <2>3
    <3> QED  BY <1>1, <3>1 DEF ToSet
  <2> QED  BY <2>2, <2>3
<1>6. e \in ToSet(r)
  <2>1. r[i] = e /\ i \in 1..Len(r)  BY <1>1
  <2> QED  BY <1>1, <2>1 DEF ToSet
<1>7. ASSUME NEW a \in 1..Len(r), NEW b \in 1..Len(r), r[a] = r[b] PROVE a = b
  <2>1. ASSUME NEW c \in 1..Len(r), c # i PROVE r[c] # e
    <3>1. CASE c < i  BY <1>1, <1>2, <3>1
    <3>2. CASE c > i
      <4>1. c - 1 \in i..Len(s)  BY <1>1, <3>2
      <4>2. r[c] = s[c - 1]  BY <1>1, <3>2, <4>1
      <4> QED  BY <1>2, <4>1, <4>2
    <3> QED  BY <2>1, <3>1, <3>2
  <2>2. CASE a = i \/ b = i
    <3>1. r[i] = e  BY <1>1
    <3> QED  BY <1>7, <2>1, <2>2, <3>1
  <2>3. CASE a # i /\ b # i
    <3> DEFINE Old(j) == IF j < i THEN j ELSE j - 1
    <3>1. Old(a) \in 1..Len(s) /\ Old(b) \in 1..Len(s)  BY <1>1, <2>3
    <3>2. ASSUME NEW c \in 1..Len(r), c # i PROVE r[c] = s[Old(c)]
      <4>1. CASE c < i  BY <1>1, <4>1
      <4>2. CASE c > i
        <5>1. c - 1 \in i..Len(s) /\ (c - 1) + 1 = c  BY <1>1, <4>2
        <5> QED  BY <1>1, <4>2, <5>1
      <4> QED  BY <3>2, <4>1, <4>2
    <3>3. Old(a) = Old(b)  BY <1>3, <1>7, <2>3, <3>1, <3>2
    <3> QED  BY <1>1, <2>3, <3>3
  <2> QED  BY <2>2, <2>3
<1> QED  BY <1>1, <1>4, <1>5, <1>6, <1>7 DEF r, Enumerates

(***************************************************************************)
(* Removing an element from an enumeration of a set.                       *)
(***************************************************************************)
LEMMA RemoveEnumerates ==
  ASSUME NEW T, NEW s \in Seq(T), NEW S, Enumerates(s, S), NEW e \in S
  PROVE  RemoveFirst(s, e) \in Seq(T) /\ Enumerates(RemoveFirst(s, e), S \ {e})
<1> DEFINE r == RemoveFirst(s, e)
<1>1. \E j \in 1..Len(s) : s[j] = e  BY DEF Enumerates, ToSet
<1>2. PICK k \in 1..Len(s) :
        /\ s[k] = e
        /\ r \in Seq(T)
        /\ Len(r) = Len(s) - 1
        /\ \A j \in 1..Len(s) - 1 : r[j] = IF j < k THEN s[j] ELSE s[j + 1]
  BY <1>1, RemoveFirstElements
<1> HIDE DEF r
<1>3. \A j \in 1..Len(s) : s[j] \in S  BY DEF Enumerates, ToSet
<1>4. \A a, b \in 1..Len(s) : s[a] = s[b] => a = b  BY DEF Enumerates
<1>5. \A j \in 1..Len(r) : r[j] \in S \ {e}
  BY <1>2, <1>3, <1>4
<1>6. ASSUME NEW x \in S \ {e} PROVE x \in ToSet(r)
  <2>1. PICK a \in 1..Len(s) : s[a] = x  BY <1>6 DEF Enumerates, ToSet
  <2>2. CASE a < k
    <3>1. r[a] = x /\ a \in 1..Len(r)  BY <1>2, <2>1, <2>2
    <3> QED  BY <1>2, <3>1 DEF ToSet
  <2>3. CASE a > k
    <3>1. r[a - 1] = x /\ a - 1 \in 1..Len(r)  BY <1>2, <2>1, <2>3
    <3> QED  BY <1>2, <3>1 DEF ToSet
  <2> QED  BY <1>2, <1>6, <2>1, <2>2, <2>3
<1>7. \A a, b \in 1..Len(r) : r[a] = r[b] => a = b
  BY <1>2, <1>4
<1>8. ToSet(r) \subseteq S \ {e}  BY <1>2, <1>5 DEF ToSet
<1> QED  BY <1>2, <1>6, <1>7, <1>8 DEF r, Enumerates

-----------------------------------------------------------------------------
(***************************************************************************)
(* Folds over finite sets.  The parser's loops are folds over the          *)
(* positions of a sequence, and the utilisation booked on a core is a sum  *)
(* over the reservations there.  The library defines a fold by a function  *)
(* on the subsets of a set, which picks a member and goes on with the      *)
(* others; here such functions are shown to exist, to be unique and to     *)
(* have the type one expects, and sums to be independent of the order in   *)
(* which members are picked.  Induction is by a least counterexample, on   *)
(* the cardinality.                                                        *)
(***************************************************************************)

(***************************************************************************)
(* iter is the function a fold over subsets of D computes: pick chooses    *)
(* the next member, step combines it with the fold of the others.          *)
(***************************************************************************)
Folding(iter, D, base, pick, step) ==
  iter = [s \in SUBSET D |-> IF s = {} THEN base
                             ELSE step[<<pick[s], iter[s \ {pick[s]}]>>]]

Picks(pick, D) == \A s \in SUBSET D : s # {} => pick[s] \in s

(***************************************************************************)
(* A non-empty set of naturals has a least member.                         *)
(***************************************************************************)
LEMMA LeastOf ==
  ASSUME NEW T \in SUBSET Nat, T # {}
  PROVE  \E m \in T : \A y \in T : m <= y
BY MinIn

(***************************************************************************)
(* Removing a member of a finite set leaves one less.                      *)
(***************************************************************************)
LEMMA OneLess ==
  ASSUME NEW D, IsFiniteSet(D), NEW s \in SUBSET D, NEW x \in s
  PROVE  /\ IsFiniteSet(s) /\ IsFiniteSet(s \ {x})
         /\ Cardinality(s) \in Nat /\ Cardinality(s \ {x}) \in Nat
         /\ Cardinality(s \ {x}) = Cardinality(s) - 1
<1>1. IsFiniteSet(s)  BY FS_Subset
<1>2. IsFiniteSet(s \ {x})  BY <1>1, FS_Subset
<1> QED  BY <1>1, <1>2, FS_CardinalityType, FS_RemoveElement

(***************************************************************************)
(* A fold takes its values where its base and its step do.                 *)
(***************************************************************************)
LEMMA FoldingType ==
  ASSUME NEW D, IsFiniteSet(D), NEW A, NEW base \in A, NEW pick, Picks(pick, D),
         NEW step \in [D \X A -> A], NEW iter, Folding(iter, D, base, pick, step)
  PROVE  \A s \in SUBSET D : iter[s] \in A
<1> DEFINE Bad == {n \in Nat : \E s \in SUBSET D : Cardinality(s) = n /\ iter[s] \notin A}
<1>1. SUFFICES ASSUME NEW t \in SUBSET D, iter[t] \notin A PROVE FALSE
  OBVIOUS
<1>2. Cardinality(t) \in Bad
  BY <1>1, FS_Subset, FS_CardinalityType
<1>3. PICK m \in Bad : \A y \in Bad : m <= y
  BY <1>2, LeastOf
<1>4. PICK s \in SUBSET D : Cardinality(s) = m /\ iter[s] \notin A
  BY <1>3
<1>5. iter[s] = IF s = {} THEN base ELSE step[<<pick[s], iter[s \ {pick[s]}]>>]
  BY DEF Folding
<1>6. s # {}  BY <1>4, <1>5
<1>7. pick[s] \in s  BY <1>6 DEF Picks
<1>8. /\ Cardinality(s \ {pick[s]}) \in Nat
      /\ Cardinality(s \ {pick[s]}) < m
  <2>1. s \in SUBSET D  OBVIOUS
  <2>2. /\ Cardinality(s) \in Nat /\ Cardinality(s \ {pick[s]}) \in Nat
        /\ Cardinality(s \ {pick[s]}) = Cardinality(s) - 1
    BY <2>1, <1>7, OneLess
  <2> QED  BY <1>4, <2>2
<1>9. iter[s \ {pick[s]}] \in A
  BY <1>3, <1>8
<1> QED  BY <1>4, <1>5, <1>6, <1>7, <1>9

(***************************************************************************)
(* Two folds with the same step agree everywhere.                          *)
(***************************************************************************)
LEMMA FoldingUnique ==
  ASSUME NEW D, IsFiniteSet(D), NEW base, NEW pick, Picks(pick, D), NEW step,
         NEW g, Folding(g, D, base, pick, step), NEW h, Folding(h, D, base, pick, step)
  PROVE  \A s \in SUBSET D : g[s] = h[s]
<1> DEFINE Bad == {n \in Nat : \E s \in SUBSET D : Cardinality(s) = n /\ g[s] # h[s]}
<1>1. SUFFICES ASSUME NEW t \in SUBSET D, g[t] # h[t] PROVE FALSE
  OBVIOUS
<1>2. Cardinality(t) \in Bad
  BY <1>1, FS_Subset, FS_CardinalityType
<1>3. PICK m \in Bad : \A y \in Bad : m <= y
  BY <1>2, LeastOf
<1>4. PICK s \in SUBSET D : Cardinality(s) = m /\ g[s] # h[s]
  BY <1>3
<1>5. g[s] = IF s = {} THEN base ELSE step[<<pick[s], g[s \ {pick[s]}]>>]
  BY DEF Folding
<1>6. h[s] = IF s = {} THEN base ELSE step[<<pick[s], h[s \ {pick[s]}]>>]
  BY DEF Folding
<1>7. s # {}  BY <1>4, <1>5, <1>6
<1>8. pick[s] \in s  BY <1>7 DEF Picks
<1>9. /\ Cardinality(s \ {pick[s]}) \in Nat
      /\ Cardinality(s \ {pick[s]}) < m
  <2>1. s \in SUBSET D  OBVIOUS
  <2>2. /\ Cardinality(s) \in Nat /\ Cardinality(s \ {pick[s]}) \in Nat
        /\ Cardinality(s \ {pick[s]}) = Cardinality(s) - 1
    BY <2>1, <1>8, OneLess
  <2> QED  BY <1>4, <2>2
<1>10. g[s \ {pick[s]}] = h[s \ {pick[s]}]
  BY <1>3, <1>9
<1> QED  BY <1>4, <1>5, <1>6, <1>7, <1>10

(***************************************************************************)
(* Such a function exists.                                                 *)
(***************************************************************************)
LEMMA FoldingExists ==
  ASSUME NEW D, IsFiniteSet(D), NEW A, NEW base \in A, NEW pick, Picks(pick, D),
         NEW step \in [D \X A -> A]
  PROVE  \E iter : Folding(iter, D, base, pick, step)
<1> DEFINE Eqn(g, s) == g[s] = IF s = {} THEN base
                                ELSE step[<<pick[s], g[s \ {pick[s]}]>>]
           UpTo(g, n) == \A s \in SUBSET D : Cardinality(s) <= n => Eqn(g, s)
           Bad == {n \in Nat : ~\E g \in [SUBSET D -> A] : UpTo(g, n)}
<1>1. \A s \in SUBSET D : IsFiniteSet(s) /\ Cardinality(s) \in Nat
  BY FS_Subset, FS_CardinalityType
<1>2. 0 \notin Bad
  <2> DEFINE g == [s \in SUBSET D |-> base]
  <2>1. g \in [SUBSET D -> A]  OBVIOUS
  <2>2. \A s \in SUBSET D : Cardinality(s) <= 0 => s = {}
    BY <1>1, FS_EmptySet
  <2>3. UpTo(g, 0)  BY <2>2
  <2> QED  BY <2>1, <2>3
<1>3. ASSUME NEW n \in Nat, n \notin Bad PROVE n + 1 \notin Bad
  <2>1. PICK g \in [SUBSET D -> A] : UpTo(g, n)  BY <1>3
  <2> DEFINE h == [s \in SUBSET D |-> IF Cardinality(s) <= n THEN g[s]
                                      ELSE IF s = {} THEN base
                                      ELSE step[<<pick[s], g[s \ {pick[s]}]>>]]
  <2>2. h \in [SUBSET D -> A]  BY DEF Picks
  <2>3. ASSUME NEW s \in SUBSET D, Cardinality(s) <= n + 1 PROVE Eqn(h, s)
    <3>1. CASE s = {}
      <4>1. Cardinality(s) <= n  BY <3>1, FS_EmptySet
      <4> QED  BY <2>1, <3>1, <4>1
    <3>2. CASE s # {}
      <4>1. pick[s] \in s /\ s \ {pick[s]} \in SUBSET D  BY <3>2 DEF Picks
      <4>2. Cardinality(s \ {pick[s]}) <= n  BY <1>1, <2>3, <4>1, OneLess
      <4>3. h[s \ {pick[s]}] = g[s \ {pick[s]}]  BY <4>1, <4>2
      <4>4. h[s] = step[<<pick[s], g[s \ {pick[s]}]>>]  BY <2>1, <3>2
      <4> QED  BY <3>2, <4>3, <4>4
    <3> QED  BY <3>1, <3>2
  <2>4. UpTo(h, n + 1)  BY <2>3
  <2> QED  BY <2>2, <2>4
<1>4. Bad = {}
  <2>1. SUFFICES ASSUME Bad # {} PROVE FALSE  OBVIOUS
  <2>2. PICK m \in Bad : \A y \in Bad : m <= y  BY <2>1, LeastOf
  <2>3. m \in Nat /\ m # 0  BY <1>2
  <2> HIDE DEF Bad
  <2>4. m - 1 \in Nat /\ m - 1 \notin Bad  BY <2>2, <2>3
  <2>5. (m - 1) + 1 \notin Bad  BY <1>3, <2>4
  <2> QED  BY <2>2, <2>3, <2>5
<1>5. PICK g \in [SUBSET D -> A] : UpTo(g, Cardinality(D))
  BY <1>1, <1>4
<1>6. \A s \in SUBSET D : Cardinality(s) <= Cardinality(D)  BY FS_Subset
<1>7. \A s \in SUBSET D : Eqn(g, s)  BY <1>5, <1>6
<1>8. g = [s \in SUBSET D |-> IF s = {} THEN base ELSE step[<<pick[s], g[s \ {pick[s]}]>>]]
  BY <1>7
<1> QED  BY <1>8 DEF Folding

-----------------------------------------------------------------------------
(***************************************************************************)
(* Sums.  The function behind SumFunctionOnSet(f, S), and its equation.    *)
(***************************************************************************)
AnyOf(S)  == [s \in SUBSET S |-> CHOOSE x \in s : TRUE]
Adding(f, S) == [p \in S \X Int |-> f[p[1]] + p[2]]

IsSumOn(iter, f, S) ==
  iter = [s \in SUBSET S |-> IF s = {} THEN 0
                             ELSE f[CHOOSE x \in s : TRUE] + iter[s \ {CHOOSE x \in s : TRUE}]]

LEMMA SumIsFold == \A f, S : SumFunctionOnSet(f, S) = (CHOOSE iter : IsSumOn(iter, f, S))[S]
BY DEF SumFunctionOnSet, FoldFunctionOnSet, MapThenFoldSet, IsSumOn

(***************************************************************************)
(* Such a function takes integer values, and is the fold of Adding.        *)
(***************************************************************************)
LEMMA SumTyped ==
  ASSUME NEW S, IsFiniteSet(S), NEW f, \A x \in S : f[x] \in Int,
         NEW iter, IsSumOn(iter, f, S)
  PROVE  /\ \A s \in SUBSET S : iter[s] \in Int
         /\ Folding(iter, S, 0, AnyOf(S), Adding(f, S))
<1> DEFINE Bad == {n \in Nat : \E s \in SUBSET S : Cardinality(s) = n /\ iter[s] \notin Int}
<1>1. ASSUME NEW t \in SUBSET S, iter[t] \notin Int PROVE FALSE
  <2>1. Cardinality(t) \in Bad
    BY <1>1, FS_Subset, FS_CardinalityType
  <2>2. PICK m \in Bad : \A y \in Bad : m <= y
    BY <2>1, LeastOf
  <2>3. PICK s \in SUBSET S : Cardinality(s) = m /\ iter[s] \notin Int
    BY <2>2
  <2> DEFINE c == CHOOSE x \in s : TRUE
  <2>4. iter[s] = IF s = {} THEN 0 ELSE f[c] + iter[s \ {c}]
    BY DEF IsSumOn
  <2>5. s # {} /\ c \in s  BY <2>3, <2>4
  <2> HIDE DEF c
  <2>6. /\ Cardinality(s) \in Nat /\ Cardinality(s \ {c}) \in Nat
        /\ Cardinality(s \ {c}) = Cardinality(s) - 1
    BY <2>5, OneLess
  <2>7. Cardinality(s \ {c}) < m  BY <2>3, <2>6
  <2>8. iter[s \ {c}] \in Int  BY <2>2, <2>6, <2>7
  <2> QED  BY <2>3, <2>4, <2>5, <2>8
<1>2. \A s \in SUBSET S : iter[s] \in Int  BY <1>1
<1>3. ASSUME NEW s \in SUBSET S
      PROVE  iter[s] = IF s = {} THEN 0
                       ELSE Adding(f, S)[<<AnyOf(S)[s], iter[s \ {AnyOf(S)[s]}]>>]
  <2>1. iter[s] = IF s = {} THEN 0
                  ELSE f[CHOOSE x \in s : TRUE] + iter[s \ {CHOOSE x \in s : TRUE}]
    BY DEF IsSumOn
  <2>2. AnyOf(S)[s] = CHOOSE x \in s : TRUE  BY DEF AnyOf
  <2>3. s # {} => (CHOOSE x \in s : TRUE) \in S  OBVIOUS
  <2>4. ASSUME NEW x \in S, NEW i \in Int PROVE Adding(f, S)[<<x, i>>] = f[x] + i
    BY DEF Adding
  <2> QED  BY <1>2, <2>1, <2>2, <2>3, <2>4
<1>4. DOMAIN iter = SUBSET S /\ iter = [s \in DOMAIN iter |-> iter[s]]  BY DEF IsSumOn
<1> QED  BY <1>2, <1>3, <1>4 DEF Folding

LEMMA SumExists ==
  ASSUME NEW S, IsFiniteSet(S), NEW f, \A x \in S : f[x] \in Int
  PROVE  \E iter : IsSumOn(iter, f, S)
<1>1. Picks(AnyOf(S), S)  BY DEF Picks, AnyOf
<1>2. Adding(f, S) \in [S \X Int -> Int]  BY DEF Adding
<1>3. PICK iter : Folding(iter, S, 0, AnyOf(S), Adding(f, S))
  <2>1. 0 \in Int  OBVIOUS
  <2> QED  BY <1>1, <1>2, <2>1, FoldingExists, Zenon
<1>4. \A s \in SUBSET S : iter[s] \in Int
  BY <1>1, <1>2, <1>3, FoldingType
<1>5. ASSUME NEW s \in SUBSET S
      PROVE  iter[s] = IF s = {} THEN 0
                       ELSE f[CHOOSE x \in s : TRUE] + iter[s \ {CHOOSE x \in s : TRUE}]
  <2>1. iter[s] = IF s = {} THEN 0
                  ELSE Adding(f, S)[<<AnyOf(S)[s], iter[s \ {AnyOf(S)[s]}]>>]
    BY <1>3 DEF Folding
  <2>2. AnyOf(S)[s] = CHOOSE x \in s : TRUE  BY DEF AnyOf
  <2>3. s # {} => (CHOOSE x \in s : TRUE) \in S  OBVIOUS
  <2>4. ASSUME NEW x \in S, NEW i \in Int PROVE Adding(f, S)[<<x, i>>] = f[x] + i
    BY DEF Adding
  <2> QED  BY <1>4, <2>1, <2>2, <2>3, <2>4
<1>6. DOMAIN iter = SUBSET S /\ iter = [s \in DOMAIN iter |-> iter[s]]  BY <1>3 DEF Folding
<1>7. IsSumOn(iter, f, S)  BY <1>5, <1>6 DEF IsSumOn
<1> QED  BY <1>7

LEMMA SumChosen ==
  ASSUME NEW S, IsFiniteSet(S), NEW f, \A x \in S : f[x] \in Int
  PROVE  \E iter : IsSumOn(iter, f, S) /\ SumFunctionOnSet(f, S) = iter[S]
BY SumExists, SumIsFold

(***************************************************************************)
(* A sum of integers is an integer; the sum over nothing is 0.             *)
(***************************************************************************)
LEMMA SumInt ==
  ASSUME NEW S, IsFiniteSet(S), NEW f, \A x \in S : f[x] \in Int
  PROVE  SumFunctionOnSet(f, S) \in Int
BY SumChosen, SumTyped

LEMMA SumEmpty == ASSUME NEW f PROVE SumFunctionOnSet(f, {}) = 0
<1>1. IsFiniteSet({})  BY FS_EmptySet
<1>2. PICK iter : IsSumOn(iter, f, {}) /\ SumFunctionOnSet(f, {}) = iter[{}]
  BY <1>1, SumChosen
<1> QED  BY <1>2 DEF IsSumOn

(***************************************************************************)
(* The member that is picked first can be taken out of the sum.            *)
(***************************************************************************)
LEMMA SumPicked ==
  ASSUME NEW S, IsFiniteSet(S), S # {}, NEW f, \A x \in S : f[x] \in Int
  PROVE  LET c == CHOOSE x \in S : TRUE
         IN  c \in S /\ SumFunctionOnSet(f, S) = f[c] + SumFunctionOnSet(f, S \ {c})
<1> DEFINE c == CHOOSE x \in S : TRUE
           R == S \ {c}
<1>1. PICK g : IsSumOn(g, f, S) /\ SumFunctionOnSet(f, S) = g[S]
  BY SumChosen
<1>2. IsFiniteSet(R) /\ \A x \in R : f[x] \in Int  BY FS_Subset
<1>3. PICK h : IsSumOn(h, f, R) /\ SumFunctionOnSet(f, R) = h[R]
  BY <1>2, SumChosen
<1>4. g[S] = f[c] + g[R]  BY <1>1 DEF IsSumOn
<1>5. IsSumOn([s \in SUBSET R |-> g[s]], f, R)
  BY <1>1 DEF IsSumOn
<1>7. Picks(AnyOf(R), R)  BY DEF Picks, AnyOf
<1>8. Folding(h, R, 0, AnyOf(R), Adding(f, R))  BY <1>2, <1>3, SumTyped
<1>9. Folding([s \in SUBSET R |-> g[s]], R, 0, AnyOf(R), Adding(f, R))
  BY <1>2, <1>5, SumTyped
<1>10. \A s \in SUBSET R : [t \in SUBSET R |-> g[t]][s] = h[s]
  BY <1>2, <1>7, <1>8, <1>9, FoldingUnique
<1>11. g[R] = h[R]  BY <1>10
<1>12. c \in S  OBVIOUS
<1> QED  BY <1>1, <1>3, <1>4, <1>11, <1>12

(***************************************************************************)
(* Any member can be taken out of a sum, or added to it.                   *)
(***************************************************************************)
LEMMA SumRemove ==
  ASSUME NEW S, IsFiniteSet(S), NEW f, \A x \in S : f[x] \in Int, NEW a \in S
  PROVE  SumFunctionOnSet(f, S) = f[a] + SumFunctionOnSet(f, S \ {a})
<1> DEFINE Splits(T, x) == SumFunctionOnSet(f, T) = f[x] + SumFunctionOnSet(f, T \ {x})
           Bad == {n \in Nat : \E T \in SUBSET S : /\ Cardinality(T) = n
                                                   /\ \E x \in T : ~Splits(T, x)}
<1>1. SUFFICES ASSUME ~Splits(S, a) PROVE FALSE  OBVIOUS
<1>2. S \in SUBSET S /\ Cardinality(S) \in Nat  BY FS_CardinalityType
<1>3. Cardinality(S) \in Bad  BY <1>1, <1>2
<1>4. PICK m \in Bad : \A y \in Bad : m <= y  BY <1>3, LeastOf
<1>5. PICK T \in SUBSET S : Cardinality(T) = m /\ \E x \in T : ~Splits(T, x)  BY <1>4
<1>6. PICK x \in T : ~Splits(T, x)  BY <1>5
<1>7. IsFiniteSet(T) /\ T # {} /\ \A y \in T : f[y] \in Int  BY <1>6, FS_Subset
<1>8. PICK c \in T : SumFunctionOnSet(f, T) = f[c] + SumFunctionOnSet(f, T \ {c})
  BY <1>7, SumPicked
<1>9. c # x  BY <1>6, <1>8
<1>10. ASSUME NEW y \in T PROVE /\ Cardinality(T \ {y}) \notin Bad
                                /\ \A z \in T \ {y} : Splits(T \ {y}, z)
  <2>1. T \in SUBSET S  OBVIOUS
  <2>2. /\ Cardinality(T) \in Nat /\ Cardinality(T \ {y}) \in Nat
        /\ Cardinality(T \ {y}) = Cardinality(T) - 1
    BY <2>1, OneLess
  <2>3. Cardinality(T \ {y}) < m  BY <1>5, <2>2
  <2>4. Cardinality(T \ {y}) \notin Bad
    <3>1. m \in Nat  OBVIOUS
    <3> HIDE DEF Bad
    <3> QED  BY <1>4, <2>2, <2>3, <3>1
  <2>5. T \ {y} \in SUBSET S  OBVIOUS
  <2> QED  BY <2>2, <2>4, <2>5
<1>11. Splits(T \ {c}, x) /\ Splits(T \ {x}, c)  BY <1>9, <1>10
<1>12. (T \ {c}) \ {x} = (T \ {x}) \ {c}  OBVIOUS
<1>13. SumFunctionOnSet(f, (T \ {c}) \ {x}) \in Int
  <2>1. IsFiniteSet((T \ {c}) \ {x}) /\ \A y \in (T \ {c}) \ {x} : f[y] \in Int
    BY <1>7, FS_Subset
  <2> QED  BY <2>1, SumInt
<1>14. f[c] \in Int /\ f[x] \in Int  BY <1>7
<1>15. Splits(T, x)
  <2> DEFINE r == SumFunctionOnSet(f, (T \ {c}) \ {x})
  <2>1. SumFunctionOnSet(f, T \ {c}) = f[x] + r  BY <1>11
  <2>2. SumFunctionOnSet(f, T \ {x}) = f[c] + r  BY <1>11, <1>12
  <2>3. r \in Int  BY <1>13
  <2> HIDE DEF r
  <2>4. SumFunctionOnSet(f, T) = f[x] + (f[c] + r)  BY <1>8, <1>14, <2>1, <2>3
  <2> QED  BY <2>2, <2>4
<1> QED  BY <1>6, <1>15

LEMMA SumAdd ==
  ASSUME NEW S, IsFiniteSet(S), NEW f, NEW a, a \notin S, \A x \in S \cup {a} : f[x] \in Int
  PROVE  SumFunctionOnSet(f, S \cup {a}) = f[a] + SumFunctionOnSet(f, S)
<1>1. IsFiniteSet(S \cup {a})  BY FS_AddElement
<1>2. (S \cup {a}) \ {a} = S /\ a \in S \cup {a}  OBVIOUS
<1> QED  BY <1>1, <1>2, SumRemove

(***************************************************************************)
(* A sum depends only on the values at its members.                        *)
(***************************************************************************)
LEMMA SumSame ==
  ASSUME NEW S, IsFiniteSet(S), NEW f, \A x \in S : f[x] \in Int,
         NEW g, \A x \in S : g[x] = f[x]
  PROVE  SumFunctionOnSet(g, S) = SumFunctionOnSet(f, S)
<1>1. PICK j : IsSumOn(j, f, S) /\ SumFunctionOnSet(f, S) = j[S]  BY SumChosen
<1>2. PICK k : IsSumOn(k, g, S) /\ SumFunctionOnSet(g, S) = k[S]  BY SumChosen
<1>3. Adding(f, S) = Adding(g, S)  BY DEF Adding
<1>4. Folding(j, S, 0, AnyOf(S), Adding(f, S))  BY <1>1, SumTyped
<1>5. Folding(k, S, 0, AnyOf(S), Adding(g, S))  BY <1>2, SumTyped
<1>6. Picks(AnyOf(S), S)  BY DEF Picks, AnyOf
<1>7. \A s \in SUBSET S : j[s] = k[s]  BY <1>3, <1>4, <1>5, <1>6, FoldingUnique
<1> QED  BY <1>1, <1>2, <1>7

-----------------------------------------------------------------------------
(***************************************************************************)
(* Sorted lists.  k gives each element the key list_add_sorted compares.   *)
(***************************************************************************)
Ascending(s, k) == \A a, b \in 1..Len(s) : a <= b => k[s[a]] <= k[s[b]]

\* The positions up to a at which the key changes: the levels below a.
Changes(s, k, a) == {j \in 2..a : k[s[j]] # k[s[j - 1]]}

\* list_add_sorted stops at the first element the new one does not exceed.
LEMMA StopsBetween ==
  ASSUME NEW S, NEW s \in Seq(S), NEW k \in [S -> Int], NEW e \in S,
         NEW B \in SUBSET (1..Len(s)), \A a \in 1..Len(s) : a \in B <=> ~(k[e] > k[s[a]]),
         NEW i, i = IF B = {} THEN Len(s) + 1 ELSE Min(B)
  PROVE  /\ i \in 1..Len(s) + 1
         /\ \A a \in 1..i - 1 : k[s[a]] < k[e]
         /\ i <= Len(s) => i \in B /\ k[e] <= k[s[i]]
<1>1. \A a \in 1..Len(s) : s[a] \in S /\ k[s[a]] \in Int  OBVIOUS
<1>2. k[e] \in Int /\ Len(s) \in Nat  OBVIOUS
<1>3. CASE B = {}  BY <1>1, <1>2, <1>3
<1>4. CASE B # {}
  <2>1. B \in SUBSET Nat  OBVIOUS
  <2>2. i \in B /\ \A b \in B : i <= b  BY <1>4, <2>1, MinIn
  <2>3. i \in 1..Len(s) /\ k[e] <= k[s[i]]  BY <1>1, <1>2, <2>2
  <2>4. ASSUME NEW a \in 1..i - 1 PROVE k[s[a]] < k[e]
    <3>1. a \in 1..Len(s) /\ ~(i <= a)
      <4>1. \A n \in Nat : \A c \in 1..n : \A b \in 1..c - 1 : b \in 1..n /\ ~(c <= b)  OBVIOUS
      <4> QED  BY <1>2, <2>3, <4>1
    <3>2. a \notin B  BY <2>2, <3>1
    <3> QED  BY <1>1, <1>2, <3>1, <3>2
  <2>5. i \in 1..Len(s) + 1
    <3>1. \A n \in Nat : \A c \in 1..n : c \in 1..n + 1  OBVIOUS
    <3> QED  BY <1>2, <2>3, <3>1
  <2> QED  BY <2>2, <2>3, <2>4, <2>5
<1> QED  BY <1>3, <1>4

LEMMA InsertAscending ==
  ASSUME NEW S, NEW s \in Seq(S), NEW k \in [S -> Int], NEW e \in S, Ascending(s, k),
         NEW i \in 1..Len(s) + 1, \A a \in 1..i - 1 : k[s[a]] < k[e],
         i <= Len(s) => k[e] <= k[s[i]]
  PROVE  Ascending(InsertAt(s, i, e), k)
<1> DEFINE r == InsertAt(s, i, e)
           Old(c) == IF c < i THEN c ELSE c - 1
<1>1. /\ r \in Seq(S)
      /\ Len(r) = Len(s) + 1
      /\ r[i] = e
      /\ \A j \in 1..i - 1 : r[j] = s[j]
      /\ \A j \in i..Len(s) : r[j + 1] = s[j]
  BY InsertAtElements
<1> HIDE DEF r
<1>2. \A a \in 1..Len(s) : k[s[a]] \in Int  OBVIOUS
<1>3. k[e] \in Int /\ Len(s) \in Nat  OBVIOUS
<1>4. ASSUME NEW c \in 1..Len(r), c # i PROVE Old(c) \in 1..Len(s) /\ r[c] = s[Old(c)]
  <2>1. CASE c < i  BY <1>1, <2>1
  <2>2. CASE c > i
    <3>1. c - 1 \in i..Len(s) /\ (c - 1) + 1 = c /\ ~(c < i)  BY <1>1, <2>2
    <3>2. r[c] = s[c - 1]  BY <1>1, <3>1
    <3>3. c - 1 \in 1..Len(s)  BY <3>1
    <3> QED  BY <3>1, <3>2, <3>3
  <2> QED  BY <1>4, <2>1, <2>2
<1>5. \A a \in i..Len(s) : k[e] <= k[s[a]]
  <2> SUFFICES ASSUME NEW a \in i..Len(s) PROVE k[e] <= k[s[a]]
    OBVIOUS
  <2>1. i \in 1..Len(s) /\ a \in 1..Len(s) /\ i <= a  BY <1>3
  <2>2. k[s[i]] <= k[s[a]]  BY <2>1 DEF Ascending
  <2> QED  BY <1>2, <1>3, <2>1, <2>2
<1>6. ASSUME NEW a \in 1..Len(r), NEW b \in 1..Len(r), a <= b PROVE k[r[a]] <= k[r[b]]
  <2>1. CASE a = i /\ b = i  BY <1>1, <1>3, <2>1
  <2>2. CASE a = i /\ b # i
    <3>1. Old(b) \in i..Len(s)  BY <1>1, <1>3, <1>6, <2>2
    <3> QED  BY <1>1, <1>4, <1>5, <2>2, <3>1
  <2>3. CASE a # i /\ b = i
    <3>1. Old(a) \in 1..i - 1  BY <1>1, <1>3, <1>6, <2>3
    <3>2. k[s[Old(a)]] < k[e] /\ Old(a) \in 1..Len(s)  BY <1>4, <2>3, <3>1
    <3>3. r[a] = s[Old(a)] /\ r[b] = e  BY <1>1, <1>4, <2>3
    <3> HIDE DEF Old
    <3> QED  BY <1>2, <1>3, <3>2, <3>3
  <2>4. CASE a # i /\ b # i
    <3>1. Old(a) \in 1..Len(s) /\ Old(b) \in 1..Len(s) /\ Old(a) <= Old(b)
      BY <1>1, <1>3, <1>4, <1>6, <2>4
    <3> QED  BY <1>4, <2>4, <3>1 DEF Ascending
  <2> QED  BY <2>1, <2>2, <2>3, <2>4
<1> QED  BY <1>6 DEF Ascending, r

LEMMA RemoveAscending ==
  ASSUME NEW S, NEW s \in Seq(S), NEW k, NEW e, \E j \in 1..Len(s) : s[j] = e, Ascending(s, k)
  PROVE  Ascending(RemoveFirst(s, e), k)
<1> DEFINE r == RemoveFirst(s, e)
<1>1. PICK c \in 1..Len(s) :
        /\ s[c] = e
        /\ r \in Seq(S)
        /\ Len(r) = Len(s) - 1
        /\ \A j \in 1..Len(s) - 1 : r[j] = IF j < c THEN s[j] ELSE s[j + 1]
  BY RemoveFirstElements
<1> HIDE DEF r
<1> DEFINE Old(j) == IF j < c THEN j ELSE j + 1
<1>2. \A j \in 1..Len(r) : Old(j) \in 1..Len(s) /\ r[j] = s[Old(j)]  BY <1>1
<1>3. \A a, b \in 1..Len(r) : a <= b => Old(a) <= Old(b)  BY <1>1
<1> HIDE DEF Old
<1> QED  BY <1>2, <1>3 DEF Ascending, r

\* Levels do not fall along the list, and equal keys are on one level.
LEMMA LevelsRise ==
  ASSUME NEW S, NEW s \in Seq(S), NEW k \in [S -> Int], Ascending(s, k),
         NEW a \in 1..Len(s), NEW b \in 1..Len(s), a <= b
  PROVE  /\ Cardinality(Changes(s, k, a)) \in Nat
         /\ Cardinality(Changes(s, k, b)) \in Nat
         /\ Cardinality(Changes(s, k, a)) <= Cardinality(Changes(s, k, b))
         /\ k[s[a]] = k[s[b]] => Changes(s, k, a) = Changes(s, k, b)
<1>1. Changes(s, k, b) \in SUBSET (2..b) /\ Changes(s, k, a) \in SUBSET Changes(s, k, b)
  BY DEF Changes
<1>2. IsFiniteSet(2..b)  BY FS_Interval
<1>3. IsFiniteSet(Changes(s, k, b)) /\ IsFiniteSet(Changes(s, k, a))  BY <1>1, <1>2, FS_Subset
<1>4. /\ Cardinality(Changes(s, k, a)) \in Nat /\ Cardinality(Changes(s, k, b)) \in Nat
      /\ Cardinality(Changes(s, k, a)) <= Cardinality(Changes(s, k, b))
  BY <1>1, <1>3, FS_CardinalityType, FS_Subset
<1>5. ASSUME k[s[a]] = k[s[b]], NEW j \in Changes(s, k, b) PROVE j \in Changes(s, k, a)
  <2>1. j \in 2..b /\ k[s[j]] # k[s[j - 1]]  BY DEF Changes
  <2>2. j \in 1..Len(s) /\ j - 1 \in 1..Len(s)  BY <2>1
  <2>3. CASE j <= a  BY <2>1, <2>3 DEF Changes
  <2>4. CASE j > a
    <3>1. a <= j - 1 /\ j - 1 <= j /\ j <= b  BY <2>1, <2>4
    <3>2. k[s[a]] <= k[s[j - 1]] /\ k[s[j - 1]] <= k[s[j]] /\ k[s[j]] <= k[s[b]]
      BY <2>2, <3>1 DEF Ascending
    <3>3. k[s[a]] \in Int /\ k[s[j - 1]] \in Int /\ k[s[j]] \in Int  BY <2>2
    <3> QED  BY <1>5, <2>1, <3>2, <3>3
  <2> QED  BY <2>1, <2>3, <2>4
<1> QED  BY <1>1, <1>4, <1>5

\* There are fewer levels below an element than different keys in the list.
LEMMA LevelsBelowKeys ==
  ASSUME NEW S, NEW s \in Seq(S), NEW k \in [S -> Int], Ascending(s, k),
         NEW T, T = {k[x] : x \in ToSet(s)}, IsFiniteSet(T), NEW a \in 1..Len(s)
  PROVE  Cardinality(Changes(s, k, a)) < Cardinality(T)
<1> DEFINE C == Changes(s, k, a)
           U == T \ {k[s[1]]}
           f == [j \in C |-> k[s[j]]]
<1>1. C \in SUBSET (2..a) /\ \A j \in C : k[s[j]] # k[s[j - 1]]  BY DEF Changes
<1>2. \A j \in 1..Len(s) : k[s[j]] \in T /\ k[s[j]] \in Int
  <2>1. \A j \in 1..Len(s) : s[j] \in ToSet(s)  BY DEF ToSet
  <2> QED  BY <2>1
<1>3. 1 \in 1..Len(s)  OBVIOUS
<1>4. ASSUME NEW j \in C, NEW m \in 1..j - 1 PROVE k[s[m]] < k[s[j]]
  <2>1. j \in 1..Len(s) /\ j - 1 \in 1..Len(s) /\ m \in 1..Len(s) /\ m <= j - 1 /\ j - 1 <= j
    BY <1>1
  <2>2. k[s[m]] <= k[s[j - 1]] /\ k[s[j - 1]] <= k[s[j]]  BY <2>1 DEF Ascending
  <2>3. k[s[j]] # k[s[j - 1]]  BY <1>1
  <2> QED  BY <1>2, <2>1, <2>2, <2>3
<1>5. \A j \in C : j \in 1..Len(s) /\ 1 \in 1..j - 1  BY <1>1
<1>6. \A j \in C : k[s[j]] \in U
  <2> SUFFICES ASSUME NEW j \in C PROVE k[s[j]] \in U
    OBVIOUS
  <2>1. k[s[1]] < k[s[j]]  BY <1>4, <1>5
  <2> QED  BY <1>2, <1>3, <1>5, <2>1
<1>7. ASSUME NEW j \in C, NEW m \in C, k[s[j]] = k[s[m]] PROVE j = m
  <2>1. j \in 2..a /\ m \in 2..a  BY <1>1
  <2>2. (j < m => j \in 1..m - 1) /\ (m < j => m \in 1..j - 1)  BY <2>1
  <2> HIDE DEF C
  <2>3. (j < m => k[s[j]] < k[s[m]]) /\ (m < j => k[s[m]] < k[s[j]])  BY <1>4, <2>2
  <2>4. k[s[j]] \in Int /\ k[s[m]] \in Int  BY <1>2, <1>5
  <2> QED  BY <1>7, <2>1, <2>3, <2>4
<1> HIDE DEF C, U
<1>8. f \in Injection(C, U)
  <2>1. f \in [C -> U]  BY <1>6
  <2>2. \A j, m \in C : f[j] = f[m] => j = m  BY <1>7
  <2> QED  BY <2>1, <2>2 DEF Injection, IsInjective
<1>9. IsFiniteSet(U) /\ Cardinality(U) = Cardinality(T) - 1
  BY <1>2, <1>3, FS_RemoveElement DEF U
<1> HIDE DEF f
<1>10. IsFiniteSet(C) /\ Cardinality(C) <= Cardinality(U)  BY <1>8, <1>9, FS_Injection
<1>11. Cardinality(C) \in Nat /\ Cardinality(T) \in Nat  BY <1>10, FS_CardinalityType
<1> QED  BY <1>9, <1>10, <1>11 DEF C

LEMMA LevelsFollow ==
  ASSUME NEW S, NEW s \in Seq(S), NEW k \in [S -> Int], Ascending(s, k),
         NEW a \in 1..Len(s), NEW b \in 1..Len(s), k[s[a]] <= k[s[b]]
  PROVE  /\ Cardinality(Changes(s, k, a)) \in Nat
         /\ Cardinality(Changes(s, k, b)) \in Nat
         /\ Cardinality(Changes(s, k, a)) <= Cardinality(Changes(s, k, b))
<1>1. CASE a <= b  BY <1>1, LevelsRise
<1>2. CASE b <= a
  <2>1. k[s[b]] <= k[s[a]]  BY <1>2 DEF Ascending
  <2>2. k[s[a]] \in Int /\ k[s[b]] \in Int  OBVIOUS
  <2>3. k[s[b]] = k[s[a]]  BY <2>1, <2>2
  <2>4. Changes(s, k, b) = Changes(s, k, a) /\ Cardinality(Changes(s, k, a)) \in Nat
    BY <1>2, <2>3, LevelsRise
  <2> QED  BY <2>4
<1> QED  BY <1>1, <1>2

==============================================================================
