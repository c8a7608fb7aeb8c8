---------------------------- MODULE FoldLeftFacts ----------------------------
(***************************************************************************)
(* A fold over a sequence takes its values where its base and its operator *)
(* do.  The operator is a parameter of the module: the parser's three      *)
(* loops instantiate it (StartupProofs).                                   *)
(***************************************************************************)
EXTENDS SequenceFacts

CONSTANT op(_, _)

(***************************************************************************)
(* The function behind FoldLeft(op, base, seq).                            *)
(***************************************************************************)
IsFoldLeft(iter, base, seq) ==
  iter = [s \in SUBSET DOMAIN seq |->
            IF s = {} THEN base ELSE op(iter[s \ {Max(s)}], seq[Max(s)])]

LEMMA FoldLeftDef ==
  \A base, seq : FoldLeft(op, base, seq) = (CHOOSE iter : IsFoldLeft(iter, base, seq))[DOMAIN seq]
BY DEF FoldLeft, MapThenFoldSet, IsFoldLeft

(***************************************************************************)
(* Max picks a member of a set of positions.                               *)
(***************************************************************************)
LEMMA MaxPicks ==
  ASSUME NEW E, NEW seq \in Seq(E), NEW s \in SUBSET DOMAIN seq, s # {}
  PROVE  Max(s) \in s
<1>1. DOMAIN seq = 1..Len(seq) /\ Len(seq) \in Nat  OBVIOUS
<1>2. s \in SUBSET (0..Len(seq))  BY <1>1
<1> QED  BY <1>1, <1>2, MaxIn

(***************************************************************************)
(* That function exists when the operator stays within a set.              *)
(***************************************************************************)
LEMMA FoldLeftIter ==
  ASSUME NEW E, NEW seq \in Seq(E), NEW A, NEW base \in A,
         \A a \in A, e \in E : op(a, e) \in A
  PROVE  \E iter : IsFoldLeft(iter, base, seq) /\ FoldLeft(op, base, seq) = iter[DOMAIN seq]
<1> DEFINE D    == DOMAIN seq
           pick == [s \in SUBSET D |-> Max(s)]
           step == [p \in D \X A |-> op(p[2], seq[p[1]])]
<1>1. IsFiniteSet(D)
  <2>1. D = 1..Len(seq) /\ Len(seq) \in Nat  OBVIOUS
  <2> QED  BY <2>1, FS_Interval
<1>2. Picks(pick, D)  BY MaxPicks DEF Picks
<1>3. step \in [D \X A -> A]  OBVIOUS
<1>4. \A x \in D, a \in A : step[<<x, a>>] = op(a, seq[x])  OBVIOUS
<1>5. PICK g : Folding(g, D, base, pick, step)
  BY <1>1, <1>2, <1>3, FoldingExists
<1>6. \A s \in SUBSET D : g[s] \in A
  BY <1>1, <1>2, <1>3, <1>5, FoldingType
<1>7. ASSUME NEW s \in SUBSET D
      PROVE  g[s] = IF s = {} THEN base ELSE op(g[s \ {Max(s)}], seq[Max(s)])
  <2>1. g[s] = IF s = {} THEN base ELSE step[<<pick[s], g[s \ {pick[s]}]>>]
    BY <1>5 DEF Folding
  <2>2. pick[s] = Max(s)  OBVIOUS
  <2>3. s # {} => Max(s) \in D  BY MaxPicks
  <2>4. g[s \ {Max(s)}] \in A  BY <1>6
  <2> HIDE DEF step, pick
  <2> QED  BY <1>4, <2>1, <2>2, <2>3, <2>4
<1>8. DOMAIN g = SUBSET D /\ g = [s \in DOMAIN g |-> g[s]]  BY <1>5 DEF Folding
<1>9. IsFoldLeft(g, base, seq)  BY <1>7, <1>8 DEF IsFoldLeft
<1> DEFINE h == CHOOSE iter : IsFoldLeft(iter, base, seq)
<1>10. IsFoldLeft(h, base, seq)  BY <1>9
<1>11. FoldLeft(op, base, seq) = h[DOMAIN seq]  BY FoldLeftDef
<1> HIDE DEF h
<1> QED  BY <1>10, <1>11

(***************************************************************************)
(* An invariant of the loop: where the value is after k elements, for each *)
(* k, when every turn leads from one to the next.                          *)
(***************************************************************************)
THEOREM FoldLeftInvariant ==
  ASSUME NEW E, NEW seq \in Seq(E), NEW A, NEW base \in A,
         \A a \in A, e \in E : op(a, e) \in A,
         NEW inv \in [0..Len(seq) -> SUBSET A], base \in inv[0],
         \A k \in 1..Len(seq) : \A a \in inv[k - 1] : op(a, seq[k]) \in inv[k]
  PROVE  FoldLeft(op, base, seq) \in inv[Len(seq)]
<1>1. PICK h : IsFoldLeft(h, base, seq) /\ FoldLeft(op, base, seq) = h[DOMAIN seq]
  BY FoldLeftIter
<1>2. DOMAIN seq = 1..Len(seq) /\ Len(seq) \in Nat  OBVIOUS
<1>3. h[{}] = base
  <2>1. {} \in SUBSET DOMAIN seq  OBVIOUS
  <2> QED  BY <1>1, <2>1 DEF IsFoldLeft
<1>4. ASSUME NEW k \in 1..Len(seq) PROVE h[1..k] = op(h[1..k - 1], seq[k])
  <2>1. 1..k \in SUBSET DOMAIN seq /\ 1..k # {}
    <3>1. k \in Nat /\ 1 <= k /\ k <= Len(seq)  BY <1>2
    <3>2. \A x \in 1..k : x \in 1..Len(seq)  BY <1>2, <3>1
    <3>3. k \in 1..k  BY <3>1
    <3> QED  BY <1>2, <3>2, <3>3
  <2>2. Max(1..k) = k
    <3>1. 1..k \in SUBSET (0..Len(seq))  BY <1>2
    <3>2. Max(1..k) \in 1..k /\ \A x \in 1..k : x <= Max(1..k)  BY <1>2, <2>1, <3>1, MaxIn
    <3>3. k \in 1..k  OBVIOUS
    <3> QED  BY <3>2, <3>3
  <2>3. (1..k) \ {k} = 1..k - 1  OBVIOUS
  <2> QED  BY <1>1, <2>1, <2>2, <2>3 DEF IsFoldLeft
<1> DEFINE Bad == {n \in Nat : n <= Len(seq) /\ h[1..n] \notin inv[n]}
<1>5. ASSUME Bad # {} PROVE FALSE
  <2>1. PICK n \in Bad : \A y \in Bad : n <= y  BY <1>5, LeastOf
  <2>2. n # 0
    <3>1. 1..0 = {}  OBVIOUS
    <3> QED  BY <1>3, <2>1, <3>1
  <2>3. n \in 1..Len(seq) /\ n - 1 \in Nat /\ ~(n <= n - 1) /\ n - 1 <= Len(seq)  BY <1>2, <2>1, <2>2
  <2>4. h[1..n - 1] \in inv[n - 1]  BY <2>1, <2>3
  <2> QED  BY <1>4, <2>1, <2>3, <2>4
<1>6. h[1..Len(seq)] \in inv[Len(seq)]  BY <1>2, <1>5
<1> QED  BY <1>1, <1>2, <1>6

THEOREM FoldLeftType ==
  ASSUME NEW E, NEW seq \in Seq(E), NEW A, NEW base \in A,
         \A a \in A, e \in E : op(a, e) \in A
  PROVE  FoldLeft(op, base, seq) \in A
<1> DEFINE inv == [k \in 0..Len(seq) |-> A]
<1>1. Len(seq) \in Nat /\ \A k \in 1..Len(seq) : seq[k] \in E  OBVIOUS
<1>2. \A k \in 0..Len(seq) : inv[k] = A  OBVIOUS
<1>3. inv \in [0..Len(seq) -> SUBSET A]  OBVIOUS
<1>4. 0 \in 0..Len(seq) /\ Len(seq) \in 0..Len(seq)
      /\ \A k \in 1..Len(seq) : k - 1 \in 0..Len(seq) /\ k \in 0..Len(seq)
  BY <1>1
<1> HIDE DEF inv
<1>5. base \in inv[0] /\ \A k \in 1..Len(seq) : \A a \in inv[k - 1] : op(a, seq[k]) \in inv[k]
  BY <1>1, <1>2, <1>4
<1>6. FoldLeft(op, base, seq) \in inv[Len(seq)]  BY <1>3, <1>5, FoldLeftInvariant
<1> QED  BY <1>2, <1>4, <1>6

==============================================================================
