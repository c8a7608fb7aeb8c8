---------------------------- MODULE StartupProofs ----------------------------
(***************************************************************************)
(* What holds of every start, failure and stop of the daemon, whatever the *)
(* configuration files, the kernel's parameters and the number of starts.  *)
(***************************************************************************)
EXTENDS DaemonStartup, SequenceFacts

ItemFold  == INSTANCE FoldLeftFacts WITH op <- parse_item
TokenFold == INSTANCE FoldLeftFacts WITH op <- CoreToken
CoreFold  == INSTANCE FoldLeftFacts WITH op <- CoreItem

-----------------------------------------------------------------------------
(***************************************************************************)
(* plugins_have_common_cpus: from cursors i and j of two ascending lists,  *)
(* the pass meets a common core when there is one further on.              *)
(***************************************************************************)
Ahead(a, b, i, j) == \E p \in i..Len(a), q \in j..Len(b) : a[p] = b[q]

LEMMA StrictlyOrder ==
  ASSUME NEW a \in Seq(Int), Strictly(a)
  PROVE  \A i, j \in 1..Len(a) : i <= j => a[i] <= a[j]
<1> DEFINE Bad == {n \in Nat : \E i \in 1..Len(a) : i + n \in 1..Len(a) /\ ~(a[i] <= a[i + n])}
<1>1. SUFFICES ASSUME Bad # {} PROVE FALSE
  <2>1. SUFFICES ASSUME NEW i \in 1..Len(a), NEW j \in 1..Len(a), i <= j, ~(a[i] <= a[j])
                 PROVE  Bad # {}
    OBVIOUS
  <2>2. j - i \in Nat /\ i + (j - i) = j  BY <2>1
  <2>3. j - i \in Bad  BY <2>1, <2>2
  <2> QED  BY <2>3
<1>2. PICK n \in Bad : \A y \in Bad : n <= y  BY <1>1, LeastOf
<1>3. PICK i \in 1..Len(a) : i + n \in 1..Len(a) /\ ~(a[i] <= a[i + n])  BY <1>2
<1>4. n # 0  BY <1>3
<1>5. n - 1 \in Nat /\ n - 1 \notin Bad
  <2>1. n \in Nat  OBVIOUS
  <2> HIDE DEF Bad
  <2> QED  BY <1>2, <1>4, <2>1
<1>6. i + (n - 1) \in 1..Len(a)  BY <1>3, <1>4
<1>7. a[i] <= a[i + (n - 1)]  BY <1>5, <1>6
<1>8. a[i + (n - 1)] < a[i + n]
  <2>1. i + (n - 1) \in 1..Len(a) - 1 /\ (i + (n - 1)) + 1 = i + n  BY <1>3, <1>4
  <2> QED  BY <2>1 DEF Strictly
<1>9. a[i] \in Int /\ a[i + n] \in Int /\ a[i + (n - 1)] \in Int  BY <1>3, <1>6
<1> QED  BY <1>3, <1>7, <1>8, <1>9

LEMMA CommonCpusMet ==
  ASSUME NEW a \in Seq(Int), NEW b \in Seq(Int), Strictly(a), Strictly(b)
  PROVE  plugins_have_common_cpus(a, b) <=> ToSet(a) \cap ToSet(b) # {}
<1> DEFINE C == (1..Len(a) + 1) \X (1..Len(b) + 1)
           Eqn(m) == m = [c \in C |->
                            /\ c[1] <= Len(a) /\ c[2] <= Len(b)
                            /\ IF a[c[1]] < b[c[2]] THEN m[<<c[1] + 1, c[2]>>]
                               ELSE IF a[c[1]] > b[c[2]] THEN m[<<c[1], c[2] + 1>>] ELSE TRUE]
           met == CHOOSE m : Eqn(m)
           w == [c \in C |-> Ahead(a, b, c[1], c[2])]
<1>1. plugins_have_common_cpus(a, b) = met[<<1, 1>>]
  BY DEF plugins_have_common_cpus
<1>2. /\ Len(a) \in Nat /\ Len(b) \in Nat
      /\ \A i \in 1..Len(a) : a[i] \in Int
      /\ \A j \in 1..Len(b) : b[j] \in Int
      /\ \A i, p \in 1..Len(a) : i <= p => a[i] <= a[p]
      /\ \A j, q \in 1..Len(b) : j <= q => b[j] <= b[q]
  BY StrictlyOrder
<1>3. ASSUME NEW i \in 1..Len(a) + 1, NEW j \in 1..Len(b) + 1
      PROVE  /\ Ahead(a, b, i, j) => i <= Len(a) /\ j <= Len(b)
             /\ i <= Len(a) /\ j <= Len(b) =>
                  /\ a[i] < b[j] => (Ahead(a, b, i, j) <=> Ahead(a, b, i + 1, j))
                  /\ a[i] > b[j] => (Ahead(a, b, i, j) <=> Ahead(a, b, i, j + 1))
                  /\ a[i] = b[j] => Ahead(a, b, i, j)
  <2>1. Ahead(a, b, i, j) => i <= Len(a) /\ j <= Len(b)  BY <1>2 DEF Ahead
  <2>2. ASSUME i <= Len(a), j <= Len(b), a[i] < b[j]
        PROVE  Ahead(a, b, i, j) <=> Ahead(a, b, i + 1, j)
    <3>1. \A p \in i..Len(a), q \in j..Len(b) : a[p] = b[q] => p \in i + 1..Len(a)
      <4>1. SUFFICES ASSUME NEW q \in j..Len(b), a[i] = b[q] PROVE FALSE  BY <1>2, <2>2
      <4> QED  BY <1>2, <2>2, <4>1
    <3>2. Ahead(a, b, i, j) => Ahead(a, b, i + 1, j)  BY <3>1 DEF Ahead
    <3>3. Ahead(a, b, i + 1, j) => Ahead(a, b, i, j)
      <4>1. i + 1..Len(a) \subseteq i..Len(a) /\ j + 1..Len(b) \subseteq j..Len(b)  BY <1>2
      <4> QED  BY <4>1 DEF Ahead
    <3> QED  BY <3>2, <3>3
  <2>3. ASSUME i <= Len(a), j <= Len(b), a[i] > b[j]
        PROVE  Ahead(a, b, i, j) <=> Ahead(a, b, i, j + 1)
    <3>1. \A p \in i..Len(a), q \in j..Len(b) : a[p] = b[q] => q \in j + 1..Len(b)
      <4>1. SUFFICES ASSUME NEW p \in i..Len(a), a[p] = b[j] PROVE FALSE  BY <1>2, <2>3
      <4> QED  BY <1>2, <2>3, <4>1
    <3>2. Ahead(a, b, i, j) => Ahead(a, b, i, j + 1)  BY <3>1 DEF Ahead
    <3>3. Ahead(a, b, i, j + 1) => Ahead(a, b, i, j)
      <4>1. i + 1..Len(a) \subseteq i..Len(a) /\ j + 1..Len(b) \subseteq j..Len(b)  BY <1>2
      <4> QED  BY <4>1 DEF Ahead
    <3> QED  BY <3>2, <3>3
  <2>4. i <= Len(a) /\ j <= Len(b) /\ a[i] = b[j] => Ahead(a, b, i, j)
    BY <1>2 DEF Ahead
  <2> QED  BY <2>1, <2>2, <2>3, <2>4
<1>4. ASSUME NEW c \in C
      PROVE  w[c] = (/\ c[1] <= Len(a) /\ c[2] <= Len(b)
                     /\ IF a[c[1]] < b[c[2]] THEN w[<<c[1] + 1, c[2]>>]
                        ELSE IF a[c[1]] > b[c[2]] THEN w[<<c[1], c[2] + 1>>] ELSE TRUE)
  <2> DEFINE i == c[1]
             j == c[2]
  <2>1. i \in 1..Len(a) + 1 /\ j \in 1..Len(b) + 1 /\ c = <<i, j>>  OBVIOUS
  <2>2. \A x \in 1..Len(a) + 1, y \in 1..Len(b) + 1 : w[<<x, y>>] = Ahead(a, b, x, y)
    OBVIOUS
  <2>3. w[c] = Ahead(a, b, i, j)  OBVIOUS
  <2> HIDE DEF w, i, j
  <2>4. CASE ~(i <= Len(a) /\ j <= Len(b))  BY <1>3, <2>1, <2>3, <2>4 DEF i, j, Ahead
  <2>5. CASE i <= Len(a) /\ j <= Len(b)
    <3>1. i + 1 \in 1..Len(a) + 1 /\ j + 1 \in 1..Len(b) + 1  BY <1>2, <2>1, <2>5
    <3>2. a[i] \in Int /\ b[j] \in Int  BY <1>2, <2>1, <2>5
    <3>3. w[<<i + 1, j>>] = Ahead(a, b, i + 1, j) /\ w[<<i, j + 1>>] = Ahead(a, b, i, j + 1)
      BY <2>1, <2>2, <3>1
    <3>4. CASE a[i] < b[j]
      <4>1. Ahead(a, b, i, j) <=> Ahead(a, b, i + 1, j)  BY <1>3, <2>1, <2>5, <3>4
      <4>2. Ahead(a, b, i, j) = Ahead(a, b, i + 1, j)  BY <4>1 DEF Ahead
      <4> QED  BY <2>3, <2>5, <3>3, <3>4, <4>2 DEF i, j, Ahead
    <3>5. CASE a[i] > b[j]
      <4>1. Ahead(a, b, i, j) <=> Ahead(a, b, i, j + 1)  BY <1>3, <2>1, <2>5, <3>5
      <4>2. Ahead(a, b, i, j) = Ahead(a, b, i, j + 1)  BY <4>1 DEF Ahead
      <4>3. ~(a[i] < b[j])  BY <3>2, <3>5
      <4> QED  BY <2>3, <2>5, <3>3, <3>5, <4>2, <4>3 DEF i, j, Ahead
    <3>6. CASE a[i] = b[j]
      <4>1. Ahead(a, b, i, j)  BY <1>3, <2>1, <2>5, <3>6
      <4>2. ~(a[i] < b[j]) /\ ~(a[i] > b[j])  BY <3>2, <3>6
      <4> QED  BY <2>3, <2>5, <3>6, <4>1, <4>2 DEF i, j, Ahead
    <3>7. a[i] < b[j] \/ a[i] > b[j] \/ a[i] = b[j]  BY <3>2
    <3> QED  BY <3>4, <3>5, <3>6, <3>7
  <2> QED  BY <2>4, <2>5
<1>5. Eqn(w)
  <2> HIDE DEF C
  <2> QED  BY <1>4
<1>6. Eqn(met)
  <2> HIDE DEF Eqn
  <2> QED  BY <1>5
<1> HIDE DEF met
<1>7. ASSUME NEW i \in 1..Len(a) + 1, NEW j \in 1..Len(b) + 1
      PROVE  met[<<i, j>>] = (/\ i <= Len(a) /\ j <= Len(b)
                              /\ IF a[i] < b[j] THEN met[<<i + 1, j>>]
                                 ELSE IF a[i] > b[j] THEN met[<<i, j + 1>>] ELSE TRUE)
  <2>1. <<i, j>> \in C /\ <<i, j>>[1] = i /\ <<i, j>>[2] = j  OBVIOUS
  <2> HIDE DEF C
  <2> QED  BY <1>6, <2>1
<1> DEFINE Left(i, j) == (Len(a) + 1 - i) + (Len(b) + 1 - j)
           Bad == {n \in Nat : \E i \in 1..Len(a) + 1, j \in 1..Len(b) + 1 :
                     Left(i, j) = n /\ ~(met[<<i, j>>] <=> Ahead(a, b, i, j))}
<1>8. ASSUME NEW i \in 1..Len(a) + 1, NEW j \in 1..Len(b) + 1,
             ~(met[<<i, j>>] <=> Ahead(a, b, i, j))
      PROVE  FALSE
  <2>1. Left(i, j) \in Nat  BY <1>2
  <2>1a. Left(i, j) \in Bad
    <3> HIDE DEF Left
    <3> QED  BY <1>8, <2>1
  <2>2. PICK n \in Bad : \A y \in Bad : n <= y  BY <2>1a, LeastOf
  <2>3. PICK x \in 1..Len(a) + 1, y \in 1..Len(b) + 1 :
          Left(x, y) = n /\ ~(met[<<x, y>>] <=> Ahead(a, b, x, y))
    BY <2>2
  <2>4. x <= Len(a) /\ y <= Len(b)  BY <1>3, <1>7, <2>3
  <2>5. a[x] \in Int /\ b[y] \in Int  BY <1>2, <2>4
  <2>6. ASSUME NEW u \in 1..Len(a) + 1, NEW v \in 1..Len(b) + 1, Left(u, v) < n
        PROVE  met[<<u, v>>] <=> Ahead(a, b, u, v)
    <3>1. n \in Nat /\ Left(u, v) \in Nat  BY <1>2
    <3>2. Left(u, v) \notin Bad
      <4> HIDE DEF Bad, Left
      <4> QED  BY <2>2, <2>6, <3>1
    <3> QED  BY <3>1, <3>2
  <2>7. x + 1 \in 1..Len(a) + 1 /\ y + 1 \in 1..Len(b) + 1  BY <1>2, <2>4
  <2>8. Left(x + 1, y) < n /\ Left(x, y + 1) < n  BY <1>2, <2>3
  <2> HIDE DEF Left, Bad
  <2>9. CASE a[x] < b[y]
    <3>1. met[<<x + 1, y>>] <=> Ahead(a, b, x + 1, y)  BY <2>6, <2>7, <2>8
    <3>2. met[<<x, y>>] <=> met[<<x + 1, y>>]  BY <1>7, <2>4, <2>9
    <3>3. Ahead(a, b, x, y) <=> Ahead(a, b, x + 1, y)  BY <1>3, <2>4, <2>9
    <3> QED  BY <2>3, <3>1, <3>2, <3>3
  <2>10. CASE a[x] > b[y]
    <3>1. met[<<x, y + 1>>] <=> Ahead(a, b, x, y + 1)  BY <2>6, <2>7, <2>8
    <3>2. ~(a[x] < b[y])  BY <2>5, <2>10
    <3>3. met[<<x, y>>] <=> met[<<x, y + 1>>]  BY <1>7, <2>4, <2>10, <3>2
    <3>4. Ahead(a, b, x, y) <=> Ahead(a, b, x, y + 1)  BY <1>3, <2>4, <2>10
    <3> QED  BY <2>3, <3>1, <3>3, <3>4
  <2>11. CASE a[x] = b[y]
    <3>1. ~(a[x] < b[y]) /\ ~(a[x] > b[y])  BY <2>5, <2>11
    <3>2. met[<<x, y>>]  BY <1>7, <2>4, <3>1
    <3> QED  BY <1>3, <2>3, <2>4, <2>11, <3>2
  <2> QED  BY <2>5, <2>9, <2>10, <2>11
<1>9. Ahead(a, b, 1, 1) <=> ToSet(a) \cap ToSet(b) # {}
  <2>1. ToSet(a) = {a[p] : p \in 1..Len(a)} /\ ToSet(b) = {b[q] : q \in 1..Len(b)}
    BY DEF ToSet
  <2> QED  BY <2>1 DEF Ahead
<1>10. 1 \in 1..Len(a) + 1 /\ 1 \in 1..Len(b) + 1  BY <1>2
<1>11. met[<<1, 1>>] <=> Ahead(a, b, 1, 1)  BY <1>8, <1>10
<1> QED  BY <1>1, <1>9, <1>11

-----------------------------------------------------------------------------
(***************************************************************************)
(* What the parser returns, whatever the document: lists of integers, and  *)
(* an errno that is 0 or 1.                                                *)
(***************************************************************************)
Errnos == {0, 1}

CoreAcc ==
  {r \in [ret : 0..4, errno : Errnos, cores : Seq(Int), in_range : BOOLEAN] :
     r.in_range => r.cores # <<>>}

Bound ==
  {parse_priority(n, e).min : n \in Node, e \in Errnos}
    \cup {parse_priority(n, e).max : n \in Node, e \in Errnos}

PluginConf ==
  [name : STRING, path : STRING, cores : Seq(Int), priority_min : Bound, priority_max : Bound]

PluginItem == [name : STRING, path : STRING, priority : Node, cores : Node]

ItemRets == 0..4 \cup {parse_priority(n, e).ret : n \in Node, e \in Errnos}

ItemAcc == [ret : ItemRets, errno : Errnos, plugins : Seq(PluginConf)]

ConfigType == [rr_timeslice : Int, sched_max_util : Int, plugins : Seq(PluginConf)]

LEMMA NumberType ==
  ASSUME NEW tok \in Token, NEW e \in Errnos
  PROVE  string_to_long(tok, e) \in [ret : 0..3, errno : Errnos, v : Int]
BY DEF string_to_long, Token, Errnos

LEMMA ErrnoKept ==
  ASSUME NEW tok, NEW e \in Errnos
  PROVE  string_to_long(tok, e).errno \in Errnos
BY DEF string_to_long, Errnos

\* A long is stored as an int, and one that fits is stored as it is.
LEMMA ToIntFacts ==
  ASSUME NEW v \in Int
  PROVE  ToInt(v) \in Int /\ (v \in CInt => ToInt(v) = v)
<1>1. IntLimit \in Nat /\ 2 * IntLimit \in Nat \ {0} /\ v + IntLimit \in Int
  BY ConfigurationAssumption
<1>2. \A a \in Int, b \in Nat \ {0} : a % b \in Int /\ (a \in 0..b - 1 => a % b = a)
  OBVIOUS
<1>3. v \in CInt => v + IntLimit \in 0..2 * IntLimit - 1  BY <1>1 DEF CInt
<1> QED  BY <1>1, <1>2, <1>3 DEF ToInt

LEMMA CoreTokenType ==
  ASSUME NEW acc \in CoreAcc, NEW tk \in CoreTok
  PROVE  CoreToken(acc, tk) \in CoreAcc
<1> DEFINE n    == string_to_long(tk.num, acc.errno)
           last == acc.cores[Len(acc.cores)]
           more == IF acc.in_range THEN Ascend(last + 1, n.v) ELSE <<ToInt(n.v)>>
<1>1. n \in [ret : 0..3, errno : Errnos, v : Int]  BY NumberType DEF CoreAcc, CoreTok
<1> HIDE DEF n
<1>2. acc.cores # <<>> => last \in Int  BY DEF CoreAcc
<1>3. CASE acc.ret # 0  BY <1>3 DEF CoreToken
<1>4. CASE acc.ret = 0 /\ n.ret # 0
  <2>1. CoreToken(acc, tk) = [acc EXCEPT !.ret = n.ret, !.errno = n.errno]
    BY <1>4 DEF CoreToken, n
  <2>2. PICK r \in 0..4, e \in Errnos : r = n.ret /\ e = n.errno  BY <1>1
  <2> QED  BY <2>1, <2>2 DEF CoreAcc
<1>5. CASE acc.ret = 0 /\ n.ret = 0 /\ acc.cores # <<>> /\ n.v <= last
  <2>1. CoreToken(acc, tk) = [acc EXCEPT !.ret = 1]
    BY <1>5 DEF CoreToken, n
  <2> QED  BY <2>1 DEF CoreAcc
<1>5a. CASE /\ acc.ret = 0 /\ n.ret = 0 /\ ~(acc.cores # <<>> /\ n.v <= last)
            /\ acc.in_range /\ n.v >= IntLimit
  <2>1. CoreToken(acc, tk) = [acc EXCEPT !.ret = Endless]
    BY <1>5a DEF CoreToken, n
  <2> QED  BY <2>1 DEF CoreAcc, Endless
<1>6. CASE /\ acc.ret = 0 /\ n.ret = 0 /\ ~(acc.cores # <<>> /\ n.v <= last)
           /\ ~(acc.in_range /\ n.v >= IntLimit)
  <2> DEFINE res == [ret |-> IF tk.d = "-" /\ acc.in_range THEN 1 ELSE 0,
                     errno |-> n.errno,
                     cores |-> acc.cores \o more,
                     in_range |-> IF tk.d = "end" THEN acc.in_range ELSE tk.d = "-"]
  <2>1. CoreToken(acc, tk) = res
    BY <1>6 DEF CoreToken, n
  <2>2. more \in Seq(Int) /\ Len(more) > 0
    <3>1. CASE ~acc.in_range  BY <1>1, <3>1, ToIntFacts
    <3>2. CASE acc.in_range
      <4>1. acc.cores # <<>>  BY <3>2 DEF CoreAcc
      <4>2. last \in Int /\ n.v \in Int /\ n.v > last  BY <1>1, <1>2, <1>6, <4>1
      <4> HIDE DEF last
      <4>3. more = [i \in 1..(n.v - (last + 1) + 1) |-> (last + 1) + i - 1]
        BY <3>2 DEF Ascend
      <4>4. n.v - (last + 1) + 1 \in Nat \ {0}  BY <4>2
      <4>5. \A i \in 1..(n.v - (last + 1) + 1) : (last + 1) + i - 1 \in Int  BY <4>2
      <4> HIDE DEF more
      <4> QED  BY <4>3, <4>4, <4>5
    <3> QED  BY <3>1, <3>2
  <2>3. acc.cores \in Seq(Int) /\ acc.in_range \in BOOLEAN  BY DEF CoreAcc
  <2> HIDE DEF more
  <2>4. acc.cores \o more \in Seq(Int) /\ acc.cores \o more # <<>>
    BY <2>2, <2>3
  <2>5. res \in CoreAcc
    <3> DEFINE ir == IF tk.d = "end" THEN acc.in_range ELSE tk.d = "-"
               rc == IF tk.d = "-" /\ acc.in_range THEN 1 ELSE 0
               cs == acc.cores \o more
    <3>1. ir \in BOOLEAN  BY <2>3
    <3>2. rc \in 0..4 /\ n.errno \in Errnos  BY <1>1
    <3>3. cs \in Seq(Int) /\ cs # <<>>  BY <2>4
    <3>4. res = [ret |-> rc, errno |-> n.errno, cores |-> cs, in_range |-> ir]  OBVIOUS
    <3> HIDE DEF ir, rc, cs, res
    <3> QED  BY <3>1, <3>2, <3>3, <3>4 DEF CoreAcc
  <2> QED  BY <2>1, <2>5
<1> QED  BY <1>3, <1>4, <1>5, <1>5a, <1>6

LEMMA CoreItemType ==
  ASSUME NEW acc \in CoreAcc, NEW tok \in Token
  PROVE  CoreItem(acc, tok) \in CoreAcc
<1> DEFINE n == string_to_long(tok, acc.errno)
<1>1. n \in [ret : 0..3, errno : Errnos, v : Int]  BY NumberType DEF CoreAcc
<1> HIDE DEF n
<1>2. CASE acc.ret # 0  BY <1>2 DEF CoreItem
<1>3. CASE acc.ret = 0 /\ n.ret # 0
  <2>1. CoreItem(acc, tok) = [acc EXCEPT !.ret = n.ret, !.errno = n.errno]
    BY <1>3 DEF CoreItem, n
  <2>2. PICK r \in 0..4, e \in Errnos : r = n.ret /\ e = n.errno  BY <1>1
  <2> QED  BY <2>1, <2>2 DEF CoreAcc
<1>4. CASE acc.ret = 0 /\ n.ret = 0
  <2>0. PICK x \in Int : x = ToInt(n.v)  BY <1>1, ToIntFacts
  <2>1. CoreItem(acc, tok) = [acc EXCEPT !.cores = Append(acc.cores, x)]
    BY <1>4, <2>0 DEF CoreItem, n
  <2>2. Append(acc.cores, x) \in Seq(Int) /\ Append(acc.cores, x) # <<>>
    BY <1>1 DEF CoreAcc
  <2> QED  BY <2>1, <2>2 DEF CoreAcc
<1> QED  BY <1>2, <1>3, <1>4

LEMMA TokensRead ==
  ASSUME NEW toks \in Seq(CoreTok), NEW base \in CoreAcc
  PROVE  FoldLeft(CoreToken, base, toks) \in CoreAcc
<1>1. TokenFold!FoldLeft(CoreToken, base, toks) \in CoreAcc
  BY CoreTokenType, TokenFold!FoldLeftType
<1> QED  BY <1>1 DEF FoldLeft, TokenFold!FoldLeft, MapThenFoldSet, TokenFold!MapThenFoldSet,
                     Max, TokenFold!Max

LEMMA ItemsRead ==
  ASSUME NEW items \in Seq(Token), NEW base \in CoreAcc
  PROVE  FoldLeft(CoreItem, base, items) \in CoreAcc
<1>1. CoreFold!FoldLeft(CoreItem, base, items) \in CoreAcc
  BY CoreItemType, CoreFold!FoldLeftType
<1> QED  BY <1>1 DEF FoldLeft, CoreFold!FoldLeft, MapThenFoldSet, CoreFold!MapThenFoldSet,
                     Max, CoreFold!Max

LEMMA CoresType ==
  ASSUME NEW node \in Node, NEW e \in Errnos
  PROVE  parse_cores(node, e) \in [ret : {0, Endless}, errno : Errnos, cores : Seq(Int)]
<1>1. NoCores(e) \in CoreAcc  BY DEF NoCores, CoreAcc
<1>2. CoresRead(node, e) \in CoreAcc
  <2>1. CASE node.kind = "scalar"
    <3>1. node.toks \in Seq(CoreTok)  BY <2>1 DEF Node, Text
    <3> QED  BY <1>1, <2>1, <3>1, TokensRead DEF CoresRead
  <2>2. CASE node.kind = "sequence"
    <3>1. node.items \in Seq(Token)  BY <2>2 DEF Node
    <3> QED  BY <1>1, <2>2, <3>1, ItemsRead DEF CoresRead
  <2>3. CASE node.kind \notin {"scalar", "sequence"}
    BY <1>1, <2>3 DEF CoresRead
  <2> QED  BY <2>1, <2>2, <2>3
<1> QED  BY <1>2 DEF parse_cores, CoresResult, CoreAcc

(***************************************************************************)
(* errno after a priority was read; its bounds are in Bound by definition. *)
(***************************************************************************)
LEMMA WindowErrno ==
  ASSUME NEW ts, NEW tok, NEW e \in Errnos
  PROVE  LET w == Window(ts, string_to_long(tok, e))
         IN  /\ w.errno \in Errnos
             /\ Stored(NotNegative(w)).errno = w.errno
             /\ \A items : Stored(NotNegative(AtMostTwo(items, w))).errno = w.errno
<1> DEFINE lo == string_to_long(tok, e)
           hi == Upper(ts, lo)
           w  == Bounds(lo, hi)
<1>1. lo.errno \in Errnos  BY ErrnoKept
<1>2. hi.errno \in Errnos
  <2> HIDE DEF lo
  <2>1. string_to_long(ts[2], lo.errno).errno \in Errnos  BY <1>1, ErrnoKept
  <2> QED  BY <1>1, <2>1 DEF Upper
<1> HIDE DEF lo, hi
<1>3. w = [ret |-> hi.ret, errno |-> hi.errno, min |-> lo.v, max |-> hi.v]  BY DEF Bounds
<1>4. Window(ts, string_to_long(tok, e)) = w  BY DEF Window, lo, hi
<1>5. w.errno \in Errnos  BY <1>2, <1>3
<1>6. Stored(NotNegative(w)).errno = w.errno  BY <1>3 DEF NotNegative, Stored
<1>7. \A items : Stored(NotNegative(AtMostTwo(items, w))).errno = w.errno
  BY <1>3 DEF NotNegative, AtMostTwo, Stored
<1> HIDE DEF w
<1> QED  BY <1>4, <1>5, <1>6, <1>7

LEMMA PriorityErrno ==
  ASSUME NEW node \in Node, NEW e \in Errnos
  PROVE  parse_priority(node, e).errno \in Errnos
<1>1. Stored(NotNegative(NoWindow(e))).errno \in Errnos  BY DEF NoWindow, NotNegative, Stored
<1>2. CASE node.kind = "scalar"
  <2>1. CASE node.toks = <<>>
    BY <1>1, <1>2, <2>1 DEF parse_priority, ScalarPriority
  <2>2. CASE node.toks # <<>>
    BY <1>2, <2>2, WindowErrno DEF parse_priority, ScalarPriority
  <2> QED  BY <2>1, <2>2
<1>3. CASE node.kind = "sequence"
  <2>1. CASE node.items = <<>>
    BY <1>1, <1>3, <2>1 DEF parse_priority, SequencePriority
  <2>2. CASE node.items # <<>>
    BY <1>3, <2>2, WindowErrno DEF parse_priority, SequencePriority
  <2> QED  BY <2>1, <2>2
<1>4. CASE node.kind \notin {"scalar", "sequence"}
  BY <1>1, <1>4 DEF parse_priority
<1> QED  BY <1>2, <1>3, <1>4

LEMMA ItemType ==
  ASSUME NEW acc \in ItemAcc, NEW item \in PluginItem
  PROVE  parse_item(acc, item) \in ItemAcc
<1> DEFINE pr == parse_priority(item.priority, acc.errno)
           co == parse_cores(item.cores, pr.errno)
<1>1. item.priority \in Node /\ item.cores \in Node /\ acc.errno \in Errnos
  BY DEF PluginItem, ItemAcc
<1>2. pr.errno \in Errnos /\ pr.ret \in ItemRets /\ pr.min \in Bound /\ pr.max \in Bound
  BY <1>1, PriorityErrno DEF ItemRets, Bound
<1>3. co \in [ret : {0, Endless}, errno : Errnos, cores : Seq(Int)]  BY <1>1, <1>2, CoresType
<1>4. parse_item(acc, item) =
        IF acc.ret # 0 THEN acc
        ELSE IF pr.ret # 0 THEN [acc EXCEPT !.ret = pr.ret, !.errno = pr.errno]
        ELSE AddItem(acc, item, pr, co)
  BY DEF parse_item, ReadCores
<1> HIDE DEF pr, co
<1>5. [acc EXCEPT !.ret = pr.ret, !.errno = pr.errno] \in ItemAcc  BY <1>2 DEF ItemAcc
<1>6. AddItem(acc, item, pr, co) \in ItemAcc
  <2> DEFINE new == [name |-> item.name, path |-> item.path, cores |-> co.cores,
                     priority_min |-> pr.min, priority_max |-> pr.max]
  <2>1. new \in PluginConf  BY <1>2, <1>3 DEF PluginConf, PluginItem
  <2>2. acc.plugins \in Seq(PluginConf)  BY DEF ItemAcc
  <2>3. AddItem(acc, item, pr, co)
          = [ret |-> co.ret, errno |-> co.errno, plugins |-> Append(acc.plugins, new)]
    BY DEF AddItem
  <2> HIDE DEF new
  <2>4. Append(acc.plugins, new) \in Seq(PluginConf)  BY <2>1, <2>2
  <2>5. co.ret \in ItemRets  BY <1>3 DEF ItemRets, Endless
  <2> QED  BY <1>3, <2>3, <2>4, <2>5 DEF ItemAcc
<1> QED  BY <1>4, <1>5, <1>6

LEMMA PluginsRead ==
  ASSUME NEW items \in Seq(PluginItem), NEW base \in ItemAcc
  PROVE  FoldLeft(parse_item, base, items) \in ItemAcc
<1>1. ItemFold!FoldLeft(parse_item, base, items) \in ItemAcc
  BY ItemType, ItemFold!FoldLeftType
<1> QED  BY <1>1 DEF FoldLeft, ItemFold!FoldLeft, MapThenFoldSet, ItemFold!MapThenFoldSet,
                     Max, ItemFold!Max

(***************************************************************************)
(* parse_configuration: a configuration has its type, and one that is      *)
(* reported valid passed the checks, or is the zeroed one of a file that   *)
(* is no YAML.                                                             *)
(***************************************************************************)
LEMMA ParseFacts ==
  ASSUME NEW doc \in Docs
  PROVE  /\ Parsed[doc].conf \in ConfigType
         /\ Parsed[doc].ret = 0 => Parsed[doc].conf = Zeroed \/ configuration_valid(Parsed[doc].conf)
<1>1. doc \in Document  BY StartupAssumption
<1>2. Parsed[doc] = parse_configuration(doc)  BY DEF Parsed
<1> DEFINE sys == parse_conf_system(doc)
           ps  == parse_conf_plugins(doc.plugins, sys)
           conf == [rr_timeslice |-> sys.rr, sched_max_util |-> sys.ut, plugins |-> ps.plugins]
           r   == [ret |-> ps.ret, conf |-> conf]
<1>3. sys.ret \in 0..3 /\ sys.errno \in Errnos /\ sys.rr \in Int /\ sys.ut \in Int
  <2> DEFINE rr == string_to_long(doc.rr_timeslice, 0)
             ut == IF rr.ret # 0 THEN rr ELSE string_to_long(doc.sched_max_util, rr.errno)
  <2>1. rr \in [ret : 0..3, errno : Errnos, v : Int]
    BY <1>1, NumberType DEF Document, Errnos
  <2>2. string_to_long(doc.sched_max_util, rr.errno) \in [ret : 0..3, errno : Errnos, v : Int]
    BY <1>1, <2>1, NumberType DEF Document
  <2>3. ut \in [ret : 0..3, errno : Errnos, v : Int]  BY <2>1, <2>2
  <2>4. sys = [ret |-> ut.ret, errno |-> ut.errno, rr |-> rr.v, ut |-> ut.v]
    BY DEF parse_conf_system
  <2> HIDE DEF rr, ut, sys
  <2> QED  BY <2>1, <2>3, <2>4
<1> HIDE DEF sys
<1>4. ps \in ItemAcc
  <2>1. doc.plugins \in Seq(PluginItem)  BY <1>1 DEF Document, PluginItem
  <2>2. <<>> \in Seq(PluginConf) /\ sys.ret \in ItemRets  BY <1>3 DEF ItemRets
  <2>3. NoPlugins(sys) \in ItemAcc  BY <1>3, <2>2 DEF NoPlugins, ItemAcc
  <2> QED  BY <2>1, <2>3, PluginsRead DEF parse_conf_plugins
<1>5. parse_conf(doc) = r  BY DEF parse_conf, sys
<1> HIDE DEF ps
<1>6. conf \in ConfigType  BY <1>3, <1>4 DEF ConfigType, ItemAcc
<1> HIDE DEF conf
<1>7. Zeroed \in ConfigType  BY DEF Zeroed, ConfigType
<1>8. CASE ~doc.yaml  BY <1>2, <1>7, <1>8 DEF parse_configuration
<1>9. CASE doc.yaml
  <2>1. Parsed[doc] = IF r.ret # 0 THEN r
                      ELSE [ret |-> IF configuration_valid(r.conf) THEN 0 ELSE 1, conf |-> r.conf]
    BY <1>2, <1>5, <1>9 DEF parse_configuration
  <2> QED  BY <1>6, <2>1
<1> QED  BY <1>8, <1>9

(***************************************************************************)
(* The checks imply the rules of conf/retifconf.yaml when every list of    *)
(* cores came out ascending.                                               *)
(***************************************************************************)
LEMMA ValidIsAcceptable ==
  ASSUME NEW conf \in ConfigType, conf = Zeroed \/ configuration_valid(conf),
         \A i \in 1..Len(conf.plugins) : Strictly(conf.plugins[i].cores)
  PROVE  Acceptable(conf)
<1>1. CASE conf = Zeroed
  <2>1. Len(conf.plugins) = 0 /\ conf.sched_max_util = 0  BY <1>1 DEF Zeroed
  <2> QED  BY <2>1, ConfigurationAssumption DEF Acceptable
<1>2. CASE configuration_valid(conf)
  <2>1. /\ Len(conf.plugins) \in Nat /\ DOMAIN conf.plugins = 1..Len(conf.plugins)
        /\ \A i \in 1..Len(conf.plugins) : conf.plugins[i].cores \in Seq(Int)
    <3>1. conf.plugins \in Seq(PluginConf)  BY DEF ConfigType
    <3>2. \A p \in PluginConf : p.cores \in Seq(Int)  BY DEF PluginConf
    <3> QED  BY <3>1, <3>2
  <2>2. conf.sched_max_util >= 0 /\ conf.sched_max_util <= Full
    BY <1>2, ConfigurationAssumption DEF configuration_valid, check_max_util
  <2>3. ASSUME NEW i \in 1..Len(conf.plugins)
        PROVE  /\ ToSet(conf.plugins[i].cores) \subseteq 0..Procs - 1
               /\ conf.plugins[i].priority_min <= conf.plugins[i].priority_max
    <3>1. \A c \in ToSet(conf.plugins[i].cores) : c \in Int
      BY <2>1 DEF ToSet
    <3>2. \A c \in ToSet(conf.plugins[i].cores) : c >= 0 /\ c < Procs
      BY <1>2, <2>1 DEF configuration_valid, check_cpus
    <3>3. conf.plugins[i].priority_min <= conf.plugins[i].priority_max
      BY <1>2, <2>1 DEF configuration_valid, check_minmax_priorities
    <3> QED  BY <3>1, <3>2, <3>3, ConfigurationAssumption
  <2>4. ASSUME NEW i \in 1..Len(conf.plugins), NEW j \in 1..Len(conf.plugins), i < j
        PROVE  /\ conf.plugins[i].name # conf.plugins[j].name
               /\ ToSet(conf.plugins[i].cores) \cap ToSet(conf.plugins[j].cores) # {} =>
                    conf.plugins[i].priority_min > conf.plugins[j].priority_max
    <3>1. conf.plugins[i].name # conf.plugins[j].name
      BY <1>2, <2>1, <2>4 DEF configuration_valid, check_plugin_names
    <3>2. ASSUME ToSet(conf.plugins[i].cores) \cap ToSet(conf.plugins[j].cores) # {}
          PROVE  conf.plugins[i].priority_min > conf.plugins[j].priority_max
      <4>1. plugins_have_common_cpus(conf.plugins[i].cores, conf.plugins[j].cores)
        BY <2>1, <3>2, CommonCpusMet
      <4> QED  BY <1>2, <2>1, <2>4, <4>1 DEF configuration_valid, check_priority_windows
    <3> QED  BY <3>1, <3>2
  <2> QED  BY <2>2, <2>3, <2>4 DEF Acceptable
<1> QED  BY <1>1, <1>2

-----------------------------------------------------------------------------
(***************************************************************************)
(* What a file means.  An ascending list is the one list of its numbers in *)
(* their order.                                                            *)
(***************************************************************************)
LEMMA StrictlyInjective ==
  ASSUME NEW a \in Seq(Int), Strictly(a)
  PROVE  \A i, j \in 1..Len(a) : i < j => a[i] < a[j]
<1> SUFFICES ASSUME NEW i \in 1..Len(a), NEW j \in 1..Len(a), i < j PROVE a[i] < a[j]
  OBVIOUS
<1>1. Len(a) \in Nat /\ \A p \in 1..Len(a) : a[p] \in Int  OBVIOUS
<1>2. i \in 1..Len(a) - 1 /\ i + 1 \in 1..Len(a) /\ i + 1 <= j  BY <1>1
<1>3. a[i] < a[i + 1]  BY <1>2 DEF Strictly
<1>4. a[i + 1] <= a[j]  BY <1>2, StrictlyOrder
<1> QED  BY <1>1, <1>2, <1>3, <1>4

LEMMA SameNumbers ==
  ASSUME NEW a \in Seq(Int), NEW b \in Seq(Int), Strictly(a), Strictly(b),
         Len(a) = Len(b), ToSet(a) = ToSet(b)
  PROVE  a = b
<1>1. /\ Len(a) \in Nat
      /\ \A p \in 1..Len(a) : a[p] \in Int /\ b[p] \in Int
      /\ \A i, j \in 1..Len(a) : i < j => a[i] < a[j] /\ b[i] < b[j]
  BY StrictlyInjective
<1>2. ToSet(a) = {a[p] : p \in 1..Len(a)} /\ ToSet(b) = {b[p] : p \in 1..Len(a)}
  <2>1. DOMAIN a = 1..Len(a) /\ DOMAIN b = 1..Len(a)  OBVIOUS
  <2> QED  BY <2>1 DEF ToSet
<1> DEFINE Bad == {n \in Nat : n \in 1..Len(a) /\ a[n] # b[n]}
<1>3. ASSUME Bad # {} PROVE FALSE
  <2>1. PICK n \in Bad : \A y \in Bad : n <= y  BY <1>3, LeastOf
  <2>2. n \in 1..Len(a) /\ a[n] # b[n]  BY <2>1
  <2>3. ASSUME NEW j \in 1..Len(a), j < n PROVE a[j] = b[j]
    <3>1. j \in Nat /\ ~(n <= j)  BY <2>2, <2>3
    <3> QED  BY <2>1, <3>1
  <2>4. PICK j \in 1..Len(a) : b[j] = a[n]  BY <1>2, <2>2
  <2>5. PICK k \in 1..Len(a) : a[k] = b[n]  BY <1>2, <2>2
  <2>6. j # n /\ k # n  BY <2>2, <2>4, <2>5
  <2>7. ~(j < n)
    <3>1. j < n => a[j] = a[n] /\ a[j] < a[n]  BY <1>1, <2>2, <2>3, <2>4
    <3> QED  BY <1>1, <2>2, <3>1
  <2>8. ~(k < n)
    <3>1. k < n => b[k] = b[n] /\ b[k] < b[n]  BY <1>1, <2>2, <2>3, <2>5
    <3> QED  BY <1>1, <2>2, <3>1
  <2>9. n < j /\ n < k  BY <1>1, <2>2, <2>6, <2>7, <2>8
  <2>10. b[n] < b[j] /\ a[n] < a[k]  BY <1>1, <2>2, <2>9
  <2> QED  BY <1>1, <2>2, <2>4, <2>5, <2>10
<1>4. \A n \in 1..Len(a) : a[n] = b[n]  BY <1>1, <1>3
<1>5. a = [n \in 1..Len(a) |-> a[n]] /\ b = [n \in 1..Len(a) |-> b[n]]  OBVIOUS
<1> QED  BY <1>4, <1>5

LEMMA OrderUnique ==
  ASSUME NEW a \in Seq(Int), Strictly(a)
  PROVE  a = InOrder(ToSet(a))
<1> DEFINE S == ToSet(a)
           N == Len(a)
<1>1. N \in Nat /\ DOMAIN a = 1..N /\ IsFiniteSet(1..N) /\ Cardinality(1..N) = N
  <2>1. N \in Nat /\ DOMAIN a = 1..N  OBVIOUS
  <2> HIDE DEF N
  <2> QED  BY <2>1, FS_Interval
<1>2. S = {a[p] : p \in 1..N} /\ S \subseteq Int  BY <1>1 DEF ToSet
<1>3. \A i, j \in 1..N : a[i] \in Int /\ (i < j => a[i] < a[j])  BY StrictlyInjective
<1>4. a \in Injection(1..N, S) /\ a \in Surjection(1..N, S)
  <2>1. a \in [1..N -> S]  BY <1>1, <1>2
  <2>2. \A i, j \in 1..N : a[i] = a[j] => i = j  BY <1>1, <1>3
  <2>3. \A x \in S : \E p \in 1..N : a[p] = x  BY <1>2
  <2> HIDE DEF S, N
  <2> QED  BY <2>1, <2>2, <2>3 DEF Injection, Surjection, IsInjective
<1>5. IsFiniteSet(S) /\ Cardinality(S) = N
  <2> HIDE DEF S, N
  <2> QED  BY <1>1, <1>4, FS_Surjection
<1> HIDE DEF S
<1>6. a \in [1..Cardinality(S) -> S]  BY <1>4, <1>5 DEF Injection
<1> DEFINE t == CHOOSE s \in [1..Cardinality(S) -> S] : Strictly(s)
<1>7. t \in [1..N -> S] /\ Strictly(t)  BY <1>5, <1>6
<1> HIDE DEF t
<1>8. t \in Seq(Int) /\ Len(t) = N  BY <1>1, <1>2, <1>7
<1>9. ToSet(t) = S
  <2>1. \A i, j \in 1..N : t[i] \in Int /\ (i < j => t[i] < t[j])
    <3>1. \A i, j \in 1..Len(t) : i < j => t[i] < t[j]
      <4>1. t \in Seq(Int) /\ Strictly(t)  BY <1>7, <1>8
      <4> HIDE DEF N
      <4> QED  BY <4>1, StrictlyInjective
    <3>2. \A i \in 1..Len(t) : t[i] \in Int  BY <1>8
    <3> QED  BY <1>8, <3>1, <3>2
  <2>2. \A i, j \in 1..N : t[i] = t[j] => i = j  BY <1>1, <2>1
  <2> HIDE DEF N
  <2>3. t \in Injection(1..N, S)  BY <1>7, <2>2 DEF Injection, IsInjective
  <2>4. t \in Surjection(1..N, S)  BY <1>1, <1>5, <2>3, FS_Injection
  <2> QED  BY <1>7, <2>4 DEF ToSet, Surjection
<1>10. a = t  BY <1>7, <1>8, <1>9, SameNumbers DEF S
<1> QED  BY <1>10 DEF InOrder, t, S

LEMMA ConcatInts ==
  ASSUME NEW s \in Seq(Int), NEW r \in Seq(Int)
  PROVE  /\ s \o r \in Seq(Int) /\ Len(s \o r) = Len(s) + Len(r)
         /\ \A i \in 1..Len(s) + Len(r) :
              (s \o r)[i] = IF i <= Len(s) THEN s[i] ELSE r[i - Len(s)]
OBVIOUS

LEMMA AppendRun ==
  ASSUME NEW s \in Seq(Int), Strictly(s), NEW from \in Int, NEW to \in Int, from <= to,
         s # <<>> => s[Len(s)] < from
  PROVE  /\ s \o Ascend(from, to) \in Seq(Int) /\ Strictly(s \o Ascend(from, to))
         /\ ToSet(s \o Ascend(from, to)) = ToSet(s) \cup (from..to)
         /\ s \o Ascend(from, to) # <<>>
         /\ (s \o Ascend(from, to))[Len(s \o Ascend(from, to))] = to
<1> DEFINE r == Ascend(from, to)
           q == s \o r
           M == to - from + 1
<1>1. M \in Nat /\ M >= 1 /\ Len(s) \in Nat /\ \A i \in 1..Len(s) : s[i] \in Int  OBVIOUS
<1>2. r = [i \in 1..M |-> from + i - 1]  BY DEF Ascend
<1>3. \A i \in 1..M : r[i] = from + i - 1 /\ r[i] \in Int
  <2>1. \A i \in 1..M : r[i] = from + i - 1  BY <1>2
  <2> HIDE DEF r
  <2> QED  BY <1>1, <2>1
<1> HIDE DEF r
<1>4. r \in Seq(Int) /\ Len(r) = M
  <2>1. DOMAIN r = 1..M /\ r \in [1..M -> Int]  BY <1>2, <1>3
  <2> HIDE DEF M
  <2> QED  BY <1>1, <2>1
<1>5. /\ q \in Seq(Int) /\ Len(q) = Len(s) + M
      /\ \A i \in 1..Len(q) : q[i] = IF i <= Len(s) THEN s[i] ELSE from + (i - Len(s)) - 1
  <2> HIDE DEF M
  <2>1. q \in Seq(Int) /\ Len(q) = Len(s) + M
        /\ \A i \in 1..Len(s) + M : q[i] = IF i <= Len(s) THEN s[i] ELSE r[i - Len(s)]
    BY <1>4, ConcatInts
  <2> HIDE DEF q
  <2>2. ASSUME NEW i \in 1..Len(q)
        PROVE  q[i] = IF i <= Len(s) THEN s[i] ELSE from + (i - Len(s)) - 1
    <3>1. CASE i <= Len(s)  BY <2>1, <3>1
    <3>2. CASE ~(i <= Len(s))
      <4>1. i - Len(s) \in 1..M  BY <1>1, <2>1, <3>2
      <4> QED  BY <1>3, <2>1, <3>2, <4>1
    <3> QED  BY <3>1, <3>2
  <2> QED  BY <2>1, <2>2
<1> HIDE DEF q
<1>6. Strictly(q)
  <2> SUFFICES ASSUME NEW i \in 1..Len(q) - 1 PROVE q[i] < q[i + 1]
    BY DEF Strictly
  <2>1. i \in 1..Len(q) /\ i + 1 \in 1..Len(q)  BY <1>1, <1>5
  <2>2. CASE i + 1 <= Len(s)
    <3>1. i \in 1..Len(s) - 1 /\ i <= Len(s)  BY <1>1, <2>2
    <3>2. s[i] < s[i + 1]  BY <3>1 DEF Strictly
    <3> QED  BY <1>5, <2>1, <2>2, <3>1, <3>2
  <2>3. CASE i = Len(s)
    <3>1. s # <<>> /\ s[Len(s)] < from  BY <1>1, <2>3
    <3>2. q[i] = s[i]
      <4>1. i <= Len(s)  BY <1>1, <2>3
      <4> QED  BY <1>5, <2>1, <4>1
    <3>3. q[i + 1] = from + (i + 1 - Len(s)) - 1
      <4>1. ~(i + 1 <= Len(s))  BY <1>1, <2>3
      <4> QED  BY <1>5, <2>1, <4>1
    <3>4. q[i + 1] = from  BY <1>1, <2>3, <3>3
    <3> QED  BY <2>3, <3>1, <3>2, <3>4
  <2>4. CASE i > Len(s)
    <3>1. q[i] = from + (i - Len(s)) - 1 /\ q[i + 1] = from + (i + 1 - Len(s)) - 1
      BY <1>1, <1>5, <2>1, <2>4
    <3> QED  BY <1>1, <3>1
  <2> QED  BY <1>1, <2>1, <2>2, <2>3, <2>4
<1>7. ToSet(q) = ToSet(s) \cup (from..to)
  <2>1. ToSet(q) = {q[i] : i \in 1..Len(q)} /\ ToSet(s) = {s[i] : i \in 1..Len(s)}
    BY <1>5 DEF ToSet
  <2>2. ASSUME NEW i \in 1..Len(q) PROVE q[i] \in ToSet(s) \cup (from..to)
    <3>1. CASE i <= Len(s)
      <4>1. i \in 1..Len(s)  BY <1>1, <1>5, <3>1
      <4> QED  BY <1>5, <2>1, <3>1, <4>1
    <3>2. CASE ~(i <= Len(s))
      <4>1. q[i] = from + (i - Len(s)) - 1  BY <1>5, <3>2
      <4>2. q[i] \in from..to  BY <1>1, <1>5, <3>2, <4>1
      <4> QED  BY <4>2
    <3> QED  BY <3>1, <3>2
  <2>3. ASSUME NEW i \in 1..Len(s) PROVE s[i] \in ToSet(q)
    <3>1. i \in 1..Len(q) /\ q[i] = s[i]  BY <1>1, <1>5
    <3> QED  BY <2>1, <3>1
  <2>4. ASSUME NEW x \in from..to PROVE x \in ToSet(q)
    <3>1. Len(s) + (x - from) + 1 \in 1..Len(q) /\ q[Len(s) + (x - from) + 1] = x
      <4>1. Len(s) + (x - from) + 1 \in 1..Len(q) /\ ~(Len(s) + (x - from) + 1 <= Len(s))
        BY <1>1, <1>5
      <4> QED  BY <1>1, <1>5, <4>1
    <3> QED  BY <2>1, <3>1
  <2> QED  BY <2>1, <2>2, <2>3, <2>4
<1>8. q # <<>> /\ q[Len(q)] = to
  <2>1. Len(q) \in 1..Len(q) /\ ~(Len(q) <= Len(s))  BY <1>1, <1>5
  <2>2. q[Len(q)] = from + (Len(q) - Len(s)) - 1  BY <1>5, <2>1
  <2> QED  BY <1>1, <1>5, <2>1, <2>2
<1> QED  BY <1>5, <1>6, <1>7, <1>8 DEF q, r

(***************************************************************************)
(* string_to_long on a number, while errno is 0.                           *)
(***************************************************************************)
LEMMA NumberRead ==
  ASSUME NEW tok \in Token, IsNum(tok)
  PROVE  string_to_long(tok, 0) = [ret |-> 0, errno |-> 0, v |-> tok.v] /\ tok.v \in Int
BY DEF string_to_long, IsNum, Token

(***************************************************************************)
(* The loop over a scalar list of cores, after k tokens: the numbers so    *)
(* far, ascending, the last token's number last, and in a range when a     *)
(* dash follows it.                                                        *)
(***************************************************************************)
Piece(toks, i) ==
  IF i > 1 /\ toks[i - 1].d = "-" THEN toks[i - 1].num.v..toks[i].num.v ELSE {toks[i].num.v}

Covered(toks, k) == UNION {Piece(toks, i) : i \in 1..k}

Well(toks) ==
  /\ toks \in Text
  /\ \A i \in 1..Len(toks) : IsNum(toks[i].num) /\ toks[i].num.v \in CInt
  /\ Strictly([i \in 1..Len(toks) |-> toks[i].num.v])
  /\ \A i \in 1..Len(toks) - 1 : ~(toks[i].d = "-" /\ toks[i + 1].d = "-")

AfterTokens(toks, k) ==
  {a \in CoreAcc :
     /\ a.ret = 0 /\ a.errno = 0
     /\ Strictly(a.cores) /\ ToSet(a.cores) = Covered(toks, k)
     /\ a.cores = <<>> <=> k = 0
     /\ k > 0 => a.cores[Len(a.cores)] = toks[k].num.v
     /\ k < Len(toks) => (a.in_range <=> k > 0 /\ toks[k].d = "-")}

LEMMA WellTokens ==
  ASSUME NEW toks, Well(toks)
  PROVE  /\ toks \in Seq(CoreTok) /\ Len(toks) \in Nat
         /\ \A i \in 1..Len(toks) :
              /\ toks[i] \in CoreTok /\ toks[i].num.v \in Int /\ toks[i].num.v \in CInt
              /\ string_to_long(toks[i].num, 0) = [ret |-> 0, errno |-> 0, v |-> toks[i].num.v]
              /\ i < Len(toks) => toks[i].d # "end"
              /\ i > 1 => toks[i - 1].num.v < toks[i].num.v
              /\ i > 1 => ~(toks[i - 1].d = "-" /\ toks[i].d = "-")
<1>1. toks \in Seq(CoreTok) /\ Len(toks) \in Nat  BY DEF Well, Text
<1>2. \A i \in 1..Len(toks) : toks[i] \in CoreTok /\ toks[i].num \in Token
  <2>1. \A i \in 1..Len(toks) : toks[i] \in CoreTok  BY <1>1
  <2>2. \A c \in CoreTok : c.num \in Token  BY DEF CoreTok
  <2> QED  BY <2>1, <2>2
<1>3. \A i \in 1..Len(toks) :
        /\ toks[i].num.v \in Int /\ toks[i].num.v \in CInt
        /\ string_to_long(toks[i].num, 0) = [ret |-> 0, errno |-> 0, v |-> toks[i].num.v]
  BY <1>2, NumberRead DEF Well
<1>4. ASSUME NEW i \in 1..Len(toks), i < Len(toks) PROVE toks[i].d # "end"
  BY <1>1, <1>4 DEF Well, Text
<1>5. ASSUME NEW i \in 1..Len(toks), i > 1
      PROVE  toks[i - 1].num.v < toks[i].num.v /\ ~(toks[i - 1].d = "-" /\ toks[i].d = "-")
  <2> DEFINE v == [j \in 1..Len(toks) |-> toks[j].num.v]
  <2>1. i - 1 \in 1..Len(toks) - 1 /\ (i - 1) + 1 = i /\ i - 1 \in 1..Len(toks)  BY <1>1, <1>5
  <2>2. Len(v) = Len(toks)  BY <1>1
  <2>3. v[i - 1] < v[(i - 1) + 1]
    <3>1. Strictly(v)  BY DEF Well
    <3> HIDE DEF v
    <3> QED  BY <2>1, <2>2, <3>1 DEF Strictly
  <2>4. v[i - 1] = toks[i - 1].num.v /\ v[(i - 1) + 1] = toks[i].num.v  BY <2>1
  <2>5. ~(toks[i - 1].d = "-" /\ toks[(i - 1) + 1].d = "-")  BY <2>1 DEF Well
  <2> QED  BY <2>1, <2>3, <2>4, <2>5
<1> QED  BY <1>1, <1>2, <1>3, <1>4, <1>5

LEMMA CoveredNext ==
  ASSUME NEW toks, NEW k \in Nat \ {0}
  PROVE  Covered(toks, k) = Covered(toks, k - 1) \cup Piece(toks, k) /\ Covered(toks, 0) = {}
<1>1. 1..k = (1..k - 1) \cup {k} /\ 1..0 = {}  OBVIOUS
<1> QED  BY <1>1 DEF Covered

LEMMA TokenTurn ==
  ASSUME NEW toks, Well(toks), NEW k \in 1..Len(toks), NEW a \in AfterTokens(toks, k - 1)
  PROVE  CoreToken(a, toks[k]) \in AfterTokens(toks, k)
<1> DEFINE v    == toks[k].num.v
           last == a.cores[Len(a.cores)]
           from == IF a.in_range THEN last + 1 ELSE v
           q    == a.cores \o Ascend(from, v)
           tk   == toks[k]
           new  == [ret |-> IF tk.d = "-" /\ a.in_range THEN 1 ELSE 0, errno |-> 0, cores |-> q,
                    in_range |-> IF tk.d = "end" THEN a.in_range ELSE tk.d = "-"]
<1>1. /\ Len(toks) \in Nat /\ k \in Nat \ {0} /\ k <= Len(toks) /\ k - 1 < Len(toks)
      /\ tk \in CoreTok /\ v \in Int /\ v \in CInt
      /\ string_to_long(tk.num, 0) = [ret |-> 0, errno |-> 0, v |-> v]
      /\ k < Len(toks) => tk.d # "end"
      /\ k > 1 => toks[k - 1].num.v < v /\ ~(toks[k - 1].d = "-" /\ tk.d = "-")
      /\ k > 1 => toks[k - 1].num.v \in Int
  <2>1. Len(toks) \in Nat  BY WellTokens
  <2>2. k \in Nat \ {0} /\ k <= Len(toks) /\ k - 1 < Len(toks)  BY <2>1
  <2>3. k > 1 => k - 1 \in 1..Len(toks)  BY <2>1
  <2> QED  BY <2>1, <2>2, <2>3, WellTokens
<1>2. /\ a \in CoreAcc /\ a.ret = 0 /\ a.errno = 0
      /\ a.cores \in Seq(Int) /\ a.in_range \in BOOLEAN
      /\ Strictly(a.cores) /\ ToSet(a.cores) = Covered(toks, k - 1)
      /\ a.cores = <<>> <=> k = 1
      /\ k > 1 => last = toks[k - 1].num.v
      /\ a.in_range <=> k > 1 /\ toks[k - 1].d = "-"
  BY <1>1 DEF AfterTokens, CoreAcc
<1>3. a.cores # <<>> => k > 1 /\ last \in Int /\ last < v  BY <1>1, <1>2
<1>4. a.in_range => a.cores # <<>>  BY <1>1, <1>2
<1> HIDE DEF v, last
<1>5. from \in Int /\ from <= v /\ (a.cores # <<>> => last < from)  BY <1>1, <1>2, <1>3, <1>4
<1>6. /\ q \in Seq(Int) /\ Strictly(q) /\ ToSet(q) = ToSet(a.cores) \cup (from..v)
      /\ q # <<>> /\ q[Len(q)] = v
  <2>1. PICK s, f : s = a.cores /\ f = from  OBVIOUS
  <2> HIDE DEF from
  <2>2. s \in Seq(Int) /\ Strictly(s) /\ f \in Int /\ f <= v /\ (s # <<>> => s[Len(s)] < f)
    BY <1>2, <1>5, <2>1 DEF last
  <2>3. /\ s \o Ascend(f, v) \in Seq(Int) /\ Strictly(s \o Ascend(f, v))
        /\ ToSet(s \o Ascend(f, v)) = ToSet(s) \cup (f..v)
        /\ s \o Ascend(f, v) # <<>>
        /\ (s \o Ascend(f, v))[Len(s \o Ascend(f, v))] = v
    BY <1>1, <2>2, AppendRun
  <2> QED  BY <2>1, <2>3
<1>7. Ascend(from, v) = IF a.in_range THEN Ascend(last + 1, v) ELSE <<v>>
  <2>1. CASE a.in_range  BY <2>1
  <2>2. CASE ~a.in_range
    <3>1. Ascend(v, v) = [i \in 1..1 |-> v]  BY <1>1 DEF Ascend
    <3>2. <<v>> = [i \in 1..1 |-> v]  OBVIOUS
    <3> QED  BY <2>2, <3>1, <3>2
  <2> QED  BY <2>1, <2>2
<1>7a. ToInt(v) = v /\ ~(v >= IntLimit)
  <2>1. ToInt(v) = v  BY <1>1, ToIntFacts
  <2>2. ~(v >= IntLimit)  BY <1>1, ConfigurationAssumption DEF CInt
  <2> QED  BY <2>1, <2>2
<1>8. CoreToken(a, tk) = new
  <2>1. CoreToken(a, tk)
          = [ret |-> IF tk.d = "-" /\ a.in_range THEN 1 ELSE 0, errno |-> 0,
             cores |-> a.cores \o (IF a.in_range THEN Ascend(last + 1, v) ELSE <<v>>),
             in_range |-> IF tk.d = "end" THEN a.in_range ELSE tk.d = "-"]
    <3>1. ~(a.cores # <<>> /\ v <= last)  BY <1>1, <1>3
    <3>2. PICK n : n = string_to_long(tk.num, a.errno)  OBVIOUS
    <3>3. n.ret = 0 /\ n.errno = 0 /\ n.v = v  BY <1>1, <1>2, <3>2
    <3> HIDE DEF tk, q, new, from
    <3>4. CoreToken(a, tk)
            = IF a.ret # 0 THEN a
              ELSE IF n.ret # 0 THEN [a EXCEPT !.ret = n.ret, !.errno = n.errno]
              ELSE IF a.cores # <<>> /\ n.v <= last THEN [a EXCEPT !.ret = 1]
              ELSE IF a.in_range /\ n.v >= IntLimit THEN [a EXCEPT !.ret = Endless]
              ELSE [ret |-> IF tk.d = "-" /\ a.in_range THEN 1 ELSE 0, errno |-> n.errno,
                    cores |-> a.cores \o (IF a.in_range THEN Ascend(last + 1, n.v)
                                          ELSE <<ToInt(n.v)>>),
                    in_range |-> IF tk.d = "end" THEN a.in_range ELSE tk.d = "-"]
      BY <3>2 DEF CoreToken, last
    <3> QED  BY <1>2, <1>7a, <3>1, <3>3, <3>4
  <2> HIDE DEF from
  <2> QED  BY <1>7, <2>1
<1>9. new \in CoreAcc  BY <1>1, <1>2, <1>8, CoreTokenType
<1>10. ToSet(q) = Covered(toks, k)
  <2>1. Covered(toks, k) = Covered(toks, k - 1) \cup Piece(toks, k)  BY <1>1, CoveredNext
  <2>2. CASE a.in_range
    <3>1. Piece(toks, k) = last..v  BY <1>1, <1>2, <2>2 DEF Piece, v
    <3>2. last \in ToSet(a.cores)
      <4>1. Len(a.cores) \in DOMAIN a.cores  BY <1>2, <1>4, <2>2
      <4> QED  BY <4>1 DEF ToSet, last
    <3>3. last \in Int /\ last < v  BY <1>3, <1>4, <2>2
    <3>4. last..v = {last} \cup (last + 1..v)  BY <1>1, <3>3
    <3> QED  BY <1>2, <1>6, <2>1, <2>2, <3>1, <3>2, <3>4
  <2>3. CASE ~a.in_range
    <3>1. Piece(toks, k) = {v}  BY <1>1, <1>2, <2>3 DEF Piece, v
    <3>2. v..v = {v}  BY <1>1
    <3> QED  BY <1>2, <1>6, <2>1, <2>3, <3>1, <3>2
  <2> QED  BY <2>2, <2>3
<1>11. new.ret = 0  BY <1>1, <1>2
<1>12. k < Len(toks) => (new.in_range <=> tk.d = "-")  BY <1>1
<1>13. new.errno = 0 /\ new.cores = q  OBVIOUS
<1> HIDE DEF new, q
<1> QED  BY <1>1, <1>6, <1>8, <1>9, <1>10, <1>11, <1>12, <1>13 DEF AfterTokens, v

LEMMA SameTokenFold ==
  \A base, seq : TokenFold!FoldLeft(CoreToken, base, seq) = FoldLeft(CoreToken, base, seq)
BY DEF FoldLeft, TokenFold!FoldLeft, MapThenFoldSet, TokenFold!MapThenFoldSet, Max, TokenFold!Max

LEMMA SameCoreFold ==
  \A base, seq : CoreFold!FoldLeft(CoreItem, base, seq) = FoldLeft(CoreItem, base, seq)
BY DEF FoldLeft, CoreFold!FoldLeft, MapThenFoldSet, CoreFold!MapThenFoldSet, Max, CoreFold!Max

LEMMA SameItemFold ==
  \A base, seq : ItemFold!FoldLeft(parse_item, base, seq) = FoldLeft(parse_item, base, seq)
BY DEF FoldLeft, ItemFold!FoldLeft, MapThenFoldSet, ItemFold!MapThenFoldSet, Max, ItemFold!Max

LEMMA NoCoresType == NoCores(0) \in CoreAcc
BY DEF NoCores, CoreAcc, Errnos

LEMMA WellRead ==
  ASSUME NEW toks, Well(toks)
  PROVE  FoldLeft(CoreToken, NoCores(0), toks) \in AfterTokens(toks, Len(toks))
<1> DEFINE inv == [k \in 0..Len(toks) |-> AfterTokens(toks, k)]
<1>1. toks \in Seq(CoreTok) /\ Len(toks) \in Nat  BY WellTokens
<1>2. \A k \in 0..Len(toks) : AfterTokens(toks, k) \subseteq CoreAcc  BY DEF AfterTokens
<1>3. inv \in [0..Len(toks) -> SUBSET CoreAcc]  BY <1>2
<1>4. \A k \in 0..Len(toks) : inv[k] = AfterTokens(toks, k)  OBVIOUS
<1> HIDE DEF inv
<1>5. NoCores(0) \in inv[0]
  <2>1. ToSet(<<>>) = {} /\ Strictly(<<>>)  BY DEF ToSet, Strictly
  <2>2. Covered(toks, 0) = {}  BY CoveredNext
  <2>3. NoCores(0) \in AfterTokens(toks, 0)
    <3>1. PICK b : b = NoCores(0)  OBVIOUS
    <3>2. /\ b \in CoreAcc /\ b.ret = 0 /\ b.errno = 0 /\ b.cores = <<>> /\ b.in_range = FALSE
      BY <3>1, NoCoresType DEF NoCores
    <3>3. ~(0 > 0)  OBVIOUS
    <3>4. b \in AfterTokens(toks, 0)  BY <2>1, <2>2, <3>2, <3>3 DEF AfterTokens
    <3> QED  BY <3>1, <3>4
  <2> QED  BY <1>1, <1>4, <2>3
<1>6. ASSUME NEW k \in 1..Len(toks), NEW a \in inv[k - 1] PROVE CoreToken(a, toks[k]) \in inv[k]
  <2>1. k - 1 \in 0..Len(toks) /\ k \in 0..Len(toks)  BY <1>1
  <2>2. a \in AfterTokens(toks, k - 1)  BY <1>4, <2>1
  <2> QED  BY <1>4, <2>1, <2>2, TokenTurn
<1>7. TokenFold!FoldLeft(CoreToken, NoCores(0), toks) \in inv[Len(toks)]
  BY <1>1, <1>3, <1>5, <1>6, NoCoresType, CoreTokenType, TokenFold!FoldLeftInvariant
<1> QED  BY <1>1, <1>4, <1>7, SameTokenFold

(***************************************************************************)
(* The loop over a sequence of cores.                                      *)
(***************************************************************************)
LEMMA ItemsAsWritten ==
  ASSUME NEW items \in Seq(Token), \A i \in 1..Len(items) : IsNum(items[i]) /\ items[i].v \in CInt
  PROVE  /\ FoldLeft(CoreItem, NoCores(0), items).ret = 0
         /\ FoldLeft(CoreItem, NoCores(0), items).errno = 0
         /\ FoldLeft(CoreItem, NoCores(0), items).cores = [i \in 1..Len(items) |-> items[i].v]
<1> DEFINE After(k) == {a \in CoreAcc : /\ a.ret = 0 /\ a.errno = 0
                                        /\ a.cores = [i \in 1..k |-> items[i].v]}
           inv == [k \in 0..Len(items) |-> After(k)]
<1>1. Len(items) \in Nat /\ \A i \in 1..Len(items) : items[i] \in Token  OBVIOUS
<1>2. inv \in [0..Len(items) -> SUBSET CoreAcc]  OBVIOUS
<1>3. \A k \in 0..Len(items) : inv[k] = After(k)  OBVIOUS
<1> HIDE DEF inv
<1>4. NoCores(0) \in inv[0]
  <2>1. <<>> = [i \in 1..0 |-> items[i].v]  OBVIOUS
  <2>2. NoCores(0) \in After(0)  BY <2>1, NoCoresType DEF NoCores
  <2> HIDE DEF After
  <2> QED  BY <1>1, <1>3, <2>2
<1>5. ASSUME NEW k \in 1..Len(items), NEW a \in inv[k - 1] PROVE CoreItem(a, items[k]) \in inv[k]
  <2> DEFINE v == items[k].v
             c == [i \in 1..k - 1 |-> items[i].v]
  <2>1. k - 1 \in 0..Len(items) /\ k \in 0..Len(items) /\ k \in Nat \ {0}  BY <1>1
  <2>2. a \in CoreAcc /\ a.ret = 0 /\ a.errno = 0 /\ a.cores = c  BY <1>3, <2>1
  <2>3. string_to_long(items[k], 0) = [ret |-> 0, errno |-> 0, v |-> v] /\ v \in Int
    BY <1>1, NumberRead
  <2>3a. ToInt(v) = v  BY <2>3, ToIntFacts
  <2>4. CoreItem(a, items[k]) = [a EXCEPT !.cores = Append(a.cores, v)]
    <3>1. PICK n : n = string_to_long(items[k], a.errno)  OBVIOUS
    <3>2. n.ret = 0 /\ n.v = v  BY <2>2, <2>3, <3>1
    <3>3. CoreItem(a, items[k])
            = IF a.ret # 0 THEN a
              ELSE IF n.ret # 0 THEN [a EXCEPT !.ret = n.ret, !.errno = n.errno]
              ELSE [a EXCEPT !.cores = Append(@, ToInt(n.v))]
      BY <3>1 DEF CoreItem
    <3> QED  BY <2>2, <2>3a, <3>2, <3>3
  <2>5. Append(c, v) = [i \in 1..k |-> items[i].v]
    <3>1. \A i \in 1..k - 1 : items[i].v \in Int  BY <1>1, NumberRead
    <3>2. c \in Seq(Int) /\ Len(c) = k - 1
      <4>1. c \in [1..k - 1 -> Int]  BY <3>1
      <4>2. k - 1 \in Nat  BY <2>1
      <4> QED  BY <4>1, <4>2
    <3>3. \A i \in 1..k - 1 : c[i] = items[i].v  OBVIOUS
    <3> HIDE DEF c
    <3>4. Append(c, v) \in Seq(Int) /\ Len(Append(c, v)) = k  BY <2>1, <2>3, <3>2
    <3>5. \A i \in 1..k : Append(c, v)[i] = items[i].v  BY <2>1, <3>2, <3>3
    <3>6. Append(c, v) = [i \in 1..k |-> Append(c, v)[i]]  BY <3>4
    <3> QED  BY <3>5, <3>6
  <2>6. CoreItem(a, items[k]) \in CoreAcc  BY <1>1, <2>2, CoreItemType
  <2>7. CoreItem(a, items[k]) \in After(k)  BY <2>2, <2>4, <2>5, <2>6 DEF CoreAcc
  <2> HIDE DEF After
  <2> QED  BY <1>3, <2>1, <2>7
<1> HIDE DEF After
<1>6. CoreFold!FoldLeft(CoreItem, NoCores(0), items) \in inv[Len(items)]
  BY <1>2, <1>4, <1>5, NoCoresType, CoreItemType, CoreFold!FoldLeftInvariant
<1>7. FoldLeft(CoreItem, NoCores(0), items) \in After(Len(items))
  BY <1>1, <1>3, <1>6, SameCoreFold
<1> QED  BY <1>7 DEF After

(***************************************************************************)
(* A list of cores written as the comments ask is read as the cores it     *)
(* names, in order.                                                        *)
(***************************************************************************)
LEMMA CoresAsWritten ==
  ASSUME NEW node \in Node, CoresWritten(node)
  PROVE  /\ parse_cores(node, 0) = [ret |-> 0, errno |-> 0, cores |-> InOrder(CoresNamed(node))]
         /\ InOrder(CoresNamed(node)) \in Seq(Int) /\ Strictly(InOrder(CoresNamed(node)))
<1>1. CASE node.kind = "scalar"
  <2>1. PICK toks : toks = node.toks  OBVIOUS
  <2>2. Well(toks)
    <3>1. toks \in Text  BY <1>1, <2>1 DEF Node
    <3> QED  BY <1>1, <2>1, <3>1 DEF CoresWritten, Well
  <2>3. PICK a : a = CoresRead(node, 0) /\ a \in AfterTokens(toks, Len(toks))
    BY <1>1, <2>1, <2>2, WellRead DEF CoresRead
  <2>4. a.ret = 0 /\ a.errno = 0 /\ a.cores \in Seq(Int) /\ Strictly(a.cores)
        /\ ToSet(a.cores) = Covered(toks, Len(toks))
    BY <2>3 DEF AfterTokens, CoreAcc
  <2>5. Covered(toks, Len(toks)) = CoresNamed(node)
    BY <1>1, <2>1 DEF Covered, Piece, CoresNamed
  <2>6. a.cores = InOrder(CoresNamed(node))  BY <2>4, <2>5, OrderUnique
  <2> QED  BY <2>3, <2>4, <2>6 DEF parse_cores, CoresResult, Endless
<1>2. CASE node.kind = "sequence"
  <2>1. PICK items : items = node.items  OBVIOUS
  <2> DEFINE c == [i \in 1..Len(items) |-> items[i].v]
  <2>2. /\ items \in Seq(Token) /\ Strictly(c)
        /\ \A i \in 1..Len(items) : IsNum(items[i]) /\ items[i].v \in CInt
    BY <1>2, <2>1 DEF Node, CoresWritten
  <2>3. /\ CoresRead(node, 0).ret = 0 /\ CoresRead(node, 0).errno = 0
        /\ CoresRead(node, 0).cores = c
    BY <1>2, <2>1, <2>2, ItemsAsWritten DEF CoresRead
  <2>4. c \in Seq(Int) /\ DOMAIN c = 1..Len(items)
    <3>1. Len(items) \in Nat /\ \A i \in 1..Len(items) : items[i] \in Token  BY <2>2
    <3>2. \A i \in 1..Len(items) : items[i].v \in Int  BY <2>2, <3>1, NumberRead
    <3>3. c \in [1..Len(items) -> Int]  BY <3>2
    <3> QED  BY <3>1, <3>3
  <2>5. ToSet(c) = CoresNamed(node)
    BY <1>2, <2>1, <2>4 DEF ToSet, CoresNamed
  <2> HIDE DEF c
  <2>6. c = InOrder(CoresNamed(node))  BY <2>2, <2>4, <2>5, OrderUnique
  <2> QED  BY <2>2, <2>3, <2>4, <2>6 DEF parse_cores, CoresResult, Endless
<1> QED  BY <1>1, <1>2 DEF CoresWritten

(***************************************************************************)
(* A priority written as the comments ask is read as its first and its     *)
(* last number.                                                            *)
(***************************************************************************)
PriorityOf(ns) == [ret |-> 0, errno |-> 0, min |-> ns[1].v, max |-> ns[Len(ns)].v]

LEMMA WindowAsWritten ==
  ASSUME NEW ns \in Seq(Token), Len(ns) \in {1, 2},
         \A i \in 1..Len(ns) : IsNum(ns[i]) /\ ns[i].v \in 0..IntLimit - 1
  PROVE  LET w == Window(ns, string_to_long(ns[1], 0))
         IN  /\ w = PriorityOf(ns)
             /\ Stored(NotNegative(w)) = w /\ Stored(NotNegative(AtMostTwo(ns, w))) = w
<1>1. Len(ns) \in Nat /\ 1 \in 1..Len(ns) /\ Len(ns) \in 1..Len(ns)  OBVIOUS
<1>2. ns[1] \in Token /\ ns[Len(ns)] \in Token  BY <1>1
<1>3. PICK lo : lo = string_to_long(ns[1], 0)  OBVIOUS
<1>4. lo = [ret |-> 0, errno |-> 0, v |-> ns[1].v] /\ ns[1].v \in Int
  BY <1>1, <1>2, <1>3, NumberRead
<1>5. string_to_long(ns[Len(ns)], 0) = [ret |-> 0, errno |-> 0, v |-> ns[Len(ns)].v]
      /\ ns[Len(ns)].v \in Int
  BY <1>1, <1>2, NumberRead
<1>6. PICK hi : hi = Upper(ns, lo)  OBVIOUS
<1>7. hi = [ret |-> 0, errno |-> 0, v |-> ns[Len(ns)].v]
  <2>1. CASE Len(ns) = 1  BY <1>4, <1>6, <2>1 DEF Upper
  <2>2. CASE Len(ns) = 2
    <3>1. lo.ret = 0 /\ lo.errno = 0  BY <1>4
    <3>2. hi = string_to_long(ns[2], 0)  BY <1>6, <2>2, <3>1 DEF Upper
    <3> QED  BY <1>5, <2>2, <3>2
  <2> QED  BY <2>1, <2>2
<1>8. PICK w : w = Window(ns, lo)  OBVIOUS
<1>9. w = PriorityOf(ns)  BY <1>4, <1>6, <1>7, <1>8 DEF Window, Bounds, PriorityOf
<1>10. w.ret = 0 /\ w.min \in Int /\ w.max \in Int /\ w.min >= 0 /\ w.max >= 0
  BY <1>1, <1>4, <1>5, <1>9 DEF PriorityOf
<1>11. NotNegative(w) = w /\ AtMostTwo(ns, w) = w  BY <1>10 DEF NotNegative, AtMostTwo
<1>12. Stored(w) = w
  <2>1. w.min \in CInt /\ w.max \in CInt
    BY <1>1, <1>4, <1>5, <1>9, ConfigurationAssumption DEF PriorityOf, CInt
  <2>2. ToInt(w.min) = w.min /\ ToInt(w.max) = w.max  BY <1>10, <2>1, ToIntFacts
  <2>3. Stored(w) = [w EXCEPT !.min = w.min, !.max = w.max]  BY <2>2 DEF Stored
  <2> QED  BY <1>9, <2>3 DEF PriorityOf
<1> QED  BY <1>3, <1>8, <1>9, <1>11, <1>12

LEMMA PriorityAsWritten ==
  ASSUME NEW node \in Node, PriorityWritten(node)
  PROVE  parse_priority(node, 0) = PriorityOf(PriorityNums(node))
<1>1. PICK ns : ns = PriorityNums(node)  OBVIOUS
<1>2. Len(ns) \in {1, 2} /\ \A i \in 1..Len(ns) : IsNum(ns[i]) /\ ns[i].v \in 0..IntLimit - 1
  BY <1>1 DEF PriorityWritten
<1>3. CASE node.kind = "scalar"
  <2>1. PICK toks : toks = node.toks  OBVIOUS
  <2>2. toks \in Seq(CoreTok) /\ \A i \in 1..Len(toks) - 1 : toks[i].d # "end"
    BY <1>3, <2>1 DEF Node, Text
  <2>3. Len(toks) \in Nat /\ \A i \in 1..Len(toks) : toks[i] \in CoreTok  BY <2>2
  <2>4. ns = [i \in 1..Len(toks) |-> toks[i].num]  BY <1>1, <1>3, <2>1 DEF PriorityNums
  <2>5. ns \in Seq(Token) /\ Len(ns) = Len(toks)
    <3>1. \A i \in 1..Len(toks) : toks[i].num \in Token  BY <2>3 DEF CoreTok
    <3>2. ns \in [1..Len(toks) -> Token]  BY <2>4, <3>1
    <3> QED  BY <2>3, <3>2
  <2>6. \A i \in 1..Len(toks) : toks[i].d # ","  BY <1>3, <2>1 DEF PriorityWritten
  <2>7. PriorityTokens(toks) = ns /\ toks # <<>> /\ toks[1].num = ns[1]
    <3> DEFINE later == {i \in 2..Len(toks) : toks[i - 1].d = "-"}
    <3>1. CASE Len(toks) = 1
      <4>1. later = {}  BY <3>1
      <4>2. ns = <<toks[1].num>>  BY <2>4, <3>1
      <4> QED  BY <3>1, <4>1, <4>2 DEF PriorityTokens
    <3>2. CASE Len(toks) = 2
      <4>1. toks[1].d = "-"
        <5>1. 1 \in 1..Len(toks) /\ 1 \in 1..Len(toks) - 1  BY <3>2
        <5>2. toks[1].d \in {"-", ",", "end"}  BY <2>3, <5>1 DEF CoreTok
        <5> QED  BY <2>2, <2>6, <5>1, <5>2
      <4>2. later = {2}
        <5>1. 2 \in 2..Len(toks) /\ toks[2 - 1].d = "-"  BY <3>2, <4>1
        <5>2. \A i \in 2..Len(toks) : i = 2  BY <3>2
        <5> QED  BY <5>1, <5>2
      <4> HIDE DEF later
      <4>3. Min(later) = 2
        <5>1. later # {} /\ later \subseteq Nat  BY <4>2
        <5> QED  BY <4>2, <5>1, MinIn
      <4>4. ns = <<toks[1].num, toks[2].num>>  BY <2>4, <3>2
      <4>5. later # {}  BY <4>2
      <4> QED  BY <3>2, <4>3, <4>4, <4>5 DEF PriorityTokens, later
    <3> QED  BY <1>2, <2>5, <3>1, <3>2
  <2>8. ScalarPriority(toks, 0) = Window(ns, string_to_long(ns[1], 0))
    BY <2>7 DEF ScalarPriority
  <2>9. parse_priority(node, 0) = Stored(NotNegative(ScalarPriority(toks, 0)))
    BY <1>3, <2>1 DEF parse_priority
  <2> QED  BY <1>1, <1>2, <2>5, <2>8, <2>9, WindowAsWritten
<1>4. CASE node.kind = "sequence"
  <2>1. ns = node.items /\ ns \in Seq(Token)  BY <1>1, <1>4 DEF PriorityNums, Node
  <2>2. ns # <<>>  BY <1>2
  <2>3. SequencePriority(ns, 0) = AtMostTwo(ns, Window(ns, string_to_long(ns[1], 0)))
    BY <2>2 DEF SequencePriority
  <2>4. parse_priority(node, 0) = Stored(NotNegative(SequencePriority(ns, 0)))
    BY <1>4, <2>1 DEF parse_priority
  <2> QED  BY <1>1, <1>2, <2>1, <2>3, <2>4, WindowAsWritten
<1> QED  BY <1>3, <1>4 DEF PriorityWritten

(***************************************************************************)
(* The loop over the plugins of a file whose items are all written as the  *)
(* comments ask, after k of them.                                          *)
(***************************************************************************)
ItemsWritten(items) ==
  /\ items \in Seq(PluginItem)
  /\ \A i \in 1..Len(items) : CoresWritten(items[i].cores) /\ PriorityWritten(items[i].priority)

MeantTo(items, k) == [i \in 1..k |-> PluginMeant(items[i])]

AfterPlugins(items, k) ==
  {a \in ItemAcc : a.ret = 0 /\ a.errno = 0 /\ a.plugins = MeantTo(items, k)}

LEMMA PluginAsWritten ==
  ASSUME NEW item \in PluginItem, CoresWritten(item.cores), PriorityWritten(item.priority),
         NEW acc, acc.ret = 0, acc.errno = 0
  PROVE  /\ parse_item(acc, item)
              = [ret |-> 0, errno |-> 0, plugins |-> Append(acc.plugins, PluginMeant(item))]
         /\ PluginMeant(item) \in PluginConf /\ Strictly(PluginMeant(item).cores)
<1>1. item.priority \in Node /\ item.cores \in Node /\ item.name \in STRING /\ item.path \in STRING
  BY DEF PluginItem
<1>2. PICK ns : ns = PriorityNums(item.priority)  OBVIOUS
<1>3. PICK pr : pr = parse_priority(item.priority, 0)  OBVIOUS
<1>4. pr.ret = 0 /\ pr.errno = 0 /\ pr.min = ns[1].v /\ pr.max = ns[Len(ns)].v
  BY <1>1, <1>2, <1>3, PriorityAsWritten DEF PriorityOf
<1>5. PICK c : c = InOrder(CoresNamed(item.cores))  OBVIOUS
<1>6. /\ parse_cores(item.cores, 0) = [ret |-> 0, errno |-> 0, cores |-> c]
      /\ c \in Seq(Int) /\ Strictly(c)
  BY <1>1, <1>5, CoresAsWritten
<1>7. PluginMeant(item) = [name |-> item.name, path |-> item.path, cores |-> c,
                           priority_min |-> pr.min, priority_max |-> pr.max]
  BY <1>2, <1>4, <1>5 DEF PluginMeant
<1>8. pr.min \in Bound /\ pr.max \in Bound
  BY <1>1, <1>3 DEF Bound, Errnos
<1>9. parse_item(acc, item) = ReadCores(acc, item, pr)  BY <1>3 DEF parse_item
<1>10. ReadCores(acc, item, pr) = AddItem(acc, item, pr, parse_cores(item.cores, 0))
  BY <1>4 DEF ReadCores
<1>11. AddItem(acc, item, pr, parse_cores(item.cores, 0))
         = [ret |-> 0, errno |-> 0, plugins |-> Append(acc.plugins, PluginMeant(item))]
  <2>1. PICK co : co = parse_cores(item.cores, 0)  OBVIOUS
  <2>2. co.ret = 0 /\ co.errno = 0 /\ co.cores = c  BY <1>6, <2>1
  <2>3. AddItem(acc, item, pr, co)
          = [ret |-> 0, errno |-> 0,
             plugins |-> Append(acc.plugins,
                                [name |-> item.name, path |-> item.path, cores |-> c,
                                 priority_min |-> pr.min, priority_max |-> pr.max])]
    BY <2>2 DEF AddItem
  <2> QED  BY <1>7, <2>1, <2>3
<1>12. PluginMeant(item) \in PluginConf  BY <1>1, <1>6, <1>7, <1>8 DEF PluginConf
<1>13. PluginMeant(item).cores = c  BY <1>7
<1> QED  BY <1>6, <1>9, <1>10, <1>11, <1>12, <1>13

LEMMA MeantType ==
  ASSUME NEW items, ItemsWritten(items), NEW k \in 0..Len(items)
  PROVE  MeantTo(items, k) \in Seq(PluginConf) /\ Len(MeantTo(items, k)) = k
<1>1. Len(items) \in Nat /\ \A i \in 1..Len(items) : items[i] \in PluginItem
  BY DEF ItemsWritten
<1>2. k \in Nat /\ \A i \in 1..k : i \in 1..Len(items)  BY <1>1
<1>3. ASSUME NEW i \in 1..k PROVE PluginMeant(items[i]) \in PluginConf
  <2>1. i \in 1..Len(items)  BY <1>2
  <2>2. PICK acc : acc = [ret |-> 0, errno |-> 0, plugins |-> <<>>]  OBVIOUS
  <2>3. acc.ret = 0 /\ acc.errno = 0  BY <2>2
  <2>4. CoresWritten(items[i].cores) /\ PriorityWritten(items[i].priority)
    BY <2>1 DEF ItemsWritten
  <2> QED  BY <1>1, <2>1, <2>3, <2>4, PluginAsWritten
<1>4. MeantTo(items, k) \in [1..k -> PluginConf]  BY <1>3 DEF MeantTo
<1> QED  BY <1>2, <1>4

LEMMA PluginTurn ==
  ASSUME NEW items, ItemsWritten(items), NEW k \in 1..Len(items),
         NEW acc \in AfterPlugins(items, k - 1)
  PROVE  parse_item(acc, items[k]) \in AfterPlugins(items, k)
<1>1. Len(items) \in Nat /\ items[k] \in PluginItem
      /\ CoresWritten(items[k].cores) /\ PriorityWritten(items[k].priority)
  BY DEF ItemsWritten
<1>2. k - 1 \in 0..Len(items) /\ k \in 0..Len(items) /\ k \in Nat /\ k - 1 \in Nat  BY <1>1
<1>3. acc \in ItemAcc /\ acc.ret = 0 /\ acc.errno = 0 /\ acc.plugins = MeantTo(items, k - 1)
  BY DEF AfterPlugins
<1>4. PICK p : p = PluginMeant(items[k])  OBVIOUS
<1>5. PICK r : r = parse_item(acc, items[k])  OBVIOUS
<1>6. r = [ret |-> 0, errno |-> 0, plugins |-> Append(acc.plugins, p)] /\ p \in PluginConf
  BY <1>1, <1>3, <1>4, <1>5, PluginAsWritten
<1>7. r \in ItemAcc  BY <1>1, <1>3, <1>5, ItemType
<1>8. Append(acc.plugins, p) = MeantTo(items, k)
  <2>1. PICK s : s = MeantTo(items, k - 1)  OBVIOUS
  <2>2. s \in Seq(PluginConf) /\ Len(s) = k - 1  BY <1>2, <2>1, MeantType
  <2>3. \A i \in 1..k - 1 : s[i] = PluginMeant(items[i])  BY <2>1 DEF MeantTo
  <2>4. Append(s, p) \in Seq(PluginConf) /\ Len(Append(s, p)) = k  BY <1>2, <1>6, <2>2
  <2>5. \A i \in 1..k : Append(s, p)[i] = PluginMeant(items[i])  BY <1>2, <1>4, <2>2, <2>3
  <2>6. PICK q : q = Append(s, p)  OBVIOUS
  <2>7. DOMAIN q = 1..k  BY <1>2, <2>4, <2>6
  <2>8. q = [i \in 1..k |-> q[i]]
    <3>1. q \in Seq(PluginConf)  BY <2>4, <2>6
    <3>2. q = [i \in DOMAIN q |-> q[i]]  BY <3>1
    <3> QED  BY <2>7, <3>2
  <2> QED  BY <1>3, <2>1, <2>5, <2>6, <2>8 DEF MeantTo
<1> QED  BY <1>5, <1>6, <1>7, <1>8 DEF AfterPlugins

LEMMA PluginsAsWritten ==
  ASSUME NEW items, ItemsWritten(items),
         NEW sys, sys.ret = 0, sys.errno = 0
  PROVE  parse_conf_plugins(items, sys) \in AfterPlugins(items, Len(items))
<1> DEFINE inv == [k \in 0..Len(items) |-> AfterPlugins(items, k)]
<1>1. items \in Seq(PluginItem) /\ Len(items) \in Nat  BY DEF ItemsWritten
<1>2. inv \in [0..Len(items) -> SUBSET ItemAcc]
  <2>1. \A k \in 0..Len(items) : AfterPlugins(items, k) \subseteq ItemAcc  BY DEF AfterPlugins
  <2> QED  BY <2>1
<1>3. \A k \in 0..Len(items) : inv[k] = AfterPlugins(items, k)  OBVIOUS
<1> HIDE DEF inv
<1>4. PICK base : base = NoPlugins(sys)  OBVIOUS
<1>5. base \in ItemAcc /\ base \in inv[0]
  <2>1. base = [ret |-> 0, errno |-> 0, plugins |-> <<>>]  BY <1>4 DEF NoPlugins
  <2>2. <<>> \in Seq(PluginConf) /\ <<>> = MeantTo(items, 0)  BY DEF MeantTo
  <2>3. base \in ItemAcc  BY <2>1, <2>2 DEF ItemAcc, ItemRets, Errnos
  <2>4. base \in AfterPlugins(items, 0)  BY <2>1, <2>2, <2>3 DEF AfterPlugins
  <2> QED  BY <1>1, <1>3, <2>3, <2>4
<1>6. ASSUME NEW k \in 1..Len(items), NEW a \in inv[k - 1] PROVE parse_item(a, items[k]) \in inv[k]
  <2>1. k - 1 \in 0..Len(items) /\ k \in 0..Len(items)  BY <1>1
  <2>2. a \in AfterPlugins(items, k - 1)  BY <1>3, <2>1
  <2> QED  BY <1>3, <2>1, <2>2, PluginTurn
<1>7. ItemFold!FoldLeft(parse_item, base, items) \in inv[Len(items)]
  BY <1>1, <1>2, <1>5, <1>6, ItemType, ItemFold!FoldLeftInvariant
<1> QED  BY <1>1, <1>3, <1>4, <1>7, SameItemFold DEF parse_conf_plugins

(***************************************************************************)
(* A file written as the comments ask is read as the configuration they    *)
(* describe, its cores in order.                                           *)
(***************************************************************************)
LEMMA MeaningRead ==
  ASSUME NEW doc \in Document, WellWritten(doc)
  PROVE  /\ parse_conf(doc) = [ret |-> 0, conf |-> Meaning(doc)]
         /\ Meaning(doc) \in ConfigType
         /\ \A i \in 1..Len(Meaning(doc).plugins) : Strictly(Meaning(doc).plugins[i].cores)
<1>1. PICK items : items = doc.plugins  OBVIOUS
<1>2. ItemsWritten(items)  BY <1>1 DEF Document, WellWritten, ItemsWritten, PluginItem
<1>3. PICK sys : sys = parse_conf_system(doc)  OBVIOUS
<1>4. sys = [ret |-> 0, errno |-> 0, rr |-> doc.rr_timeslice.v, ut |-> doc.sched_max_util.v]
      /\ doc.rr_timeslice.v \in Int /\ doc.sched_max_util.v \in Int
  <2>1. doc.rr_timeslice \in Token /\ doc.sched_max_util \in Token
        /\ IsNum(doc.rr_timeslice) /\ IsNum(doc.sched_max_util)
    BY DEF Document, WellWritten
  <2>2. PICK rr : rr = string_to_long(doc.rr_timeslice, 0)  OBVIOUS
  <2>3. rr.ret = 0 /\ rr.errno = 0 /\ rr.v = doc.rr_timeslice.v /\ rr.v \in Int
    BY <2>1, <2>2, NumberRead
  <2>4. PICK ut : ut = string_to_long(doc.sched_max_util, rr.errno)  OBVIOUS
  <2>5. ut.ret = 0 /\ ut.errno = 0 /\ ut.v = doc.sched_max_util.v /\ ut.v \in Int
    BY <2>1, <2>3, <2>4, NumberRead
  <2>6. sys = [ret |-> ut.ret, errno |-> ut.errno, rr |-> rr.v, ut |-> ut.v]
    BY <1>3, <2>2, <2>3, <2>4 DEF parse_conf_system
  <2> QED  BY <2>3, <2>5, <2>6
<1>5. PICK ps : ps = parse_conf_plugins(items, sys)  OBVIOUS
<1>6. ps.ret = 0 /\ ps.plugins = MeantTo(items, Len(items))
  <2>1. sys.ret = 0 /\ sys.errno = 0  BY <1>4
  <2>2. ps \in AfterPlugins(items, Len(items))  BY <1>2, <1>5, <2>1, PluginsAsWritten
  <2> QED  BY <2>2 DEF AfterPlugins
<1>7. MeantTo(items, Len(items)) \in Seq(PluginConf) /\ Len(MeantTo(items, Len(items))) = Len(items)
  <2>1. Len(items) \in 0..Len(items)  BY <1>2 DEF ItemsWritten
  <2> QED  BY <1>2, <2>1, MeantType
<1>8. Meaning(doc) = [rr_timeslice |-> sys.rr, sched_max_util |-> sys.ut, plugins |-> ps.plugins]
  BY <1>1, <1>4, <1>6 DEF Meaning, MeantTo
<1>9. parse_conf(doc) = [ret |-> 0, conf |-> Meaning(doc)]
  BY <1>1, <1>3, <1>5, <1>6, <1>8 DEF parse_conf
<1>10. Meaning(doc) \in ConfigType  BY <1>4, <1>6, <1>7, <1>8 DEF ConfigType
<1>11. ASSUME NEW i \in 1..Len(items) PROVE Strictly(PluginMeant(items[i]).cores)
  <2>1. items[i] \in PluginItem /\ CoresWritten(items[i].cores) /\ PriorityWritten(items[i].priority)
    BY <1>2 DEF ItemsWritten
  <2>2. PICK acc : acc = [ret |-> 0, errno |-> 0, plugins |-> <<>>]  OBVIOUS
  <2>3. acc.ret = 0 /\ acc.errno = 0  BY <2>2
  <2> QED  BY <2>1, <2>3, PluginAsWritten
<1>12. Meaning(doc).plugins = MeantTo(items, Len(items))  BY <1>6, <1>8
<1>13. \A i \in 1..Len(items) : MeantTo(items, Len(items))[i] = PluginMeant(items[i])
  BY DEF MeantTo
<1> QED  BY <1>7, <1>9, <1>10, <1>11, <1>12, <1>13

(***************************************************************************)
(* The checks ask no more than the rules do, so a file written as the      *)
(* comments ask is accepted exactly when it obeys them.                    *)
(***************************************************************************)
LEMMA AcceptableIsValid ==
  ASSUME NEW conf \in ConfigType, Acceptable(conf),
         \A i \in 1..Len(conf.plugins) : Strictly(conf.plugins[i].cores)
  PROVE  configuration_valid(conf)
<1>1. /\ Len(conf.plugins) \in Nat /\ DOMAIN conf.plugins = 1..Len(conf.plugins)
      /\ \A i \in 1..Len(conf.plugins) : conf.plugins[i].cores \in Seq(Int)
  <2>1. conf.plugins \in Seq(PluginConf)  BY DEF ConfigType
  <2>2. \A p \in PluginConf : p.cores \in Seq(Int)  BY DEF PluginConf
  <2> QED  BY <2>1, <2>2
<1>2. check_max_util(conf)
  <2>1. conf.sched_max_util \in Int  BY DEF ConfigType
  <2> QED  BY <2>1, ConfigurationAssumption DEF Acceptable, check_max_util
<1>3. check_cpus(conf)
  <2>1. ASSUME NEW i \in 1..Len(conf.plugins), NEW c \in ToSet(conf.plugins[i].cores)
        PROVE  c >= 0 /\ c < Procs
    <3>1. c \in 0..Procs - 1  BY DEF Acceptable
    <3> QED  BY <3>1, ConfigurationAssumption
  <2> QED  BY <1>1, <2>1 DEF check_cpus
<1>4. check_minmax_priorities(conf)  BY <1>1 DEF Acceptable, check_minmax_priorities
<1>5. ASSUME NEW i \in 1..Len(conf.plugins), NEW j \in 1..Len(conf.plugins), i < j
      PROVE  /\ conf.plugins[i].name # conf.plugins[j].name
             /\ plugins_have_common_cpus(conf.plugins[i].cores, conf.plugins[j].cores)
                  => conf.plugins[i].priority_min > conf.plugins[j].priority_max
  <2>1. conf.plugins[i].name # conf.plugins[j].name  BY <1>5 DEF Acceptable
  <2>2. ASSUME plugins_have_common_cpus(conf.plugins[i].cores, conf.plugins[j].cores)
        PROVE  conf.plugins[i].priority_min > conf.plugins[j].priority_max
    <3>1. ToSet(conf.plugins[i].cores) \cap ToSet(conf.plugins[j].cores) # {}
      BY <1>1, <2>2, CommonCpusMet
    <3> QED  BY <1>5, <3>1 DEF Acceptable
  <2> QED  BY <2>1, <2>2
<1>6. check_priority_windows(conf)  BY <1>1, <1>5 DEF check_priority_windows
<1>7. check_plugin_names(conf)  BY <1>1, <1>5 DEF check_plugin_names
<1> QED  BY <1>2, <1>3, <1>4, <1>6, <1>7 DEF configuration_valid

LEMMA FileAsWritten ==
  ASSUME NEW doc \in Docs, WellWritten(doc)
  PROVE  IF Acceptable(Meaning(doc))
         THEN Parsed[doc] = [ret |-> 0, conf |-> Meaning(doc)]
         ELSE Parsed[doc].ret # 0
<1>1. doc \in Document  BY StartupAssumption
<1>2. PICK conf : conf = Meaning(doc)  OBVIOUS
<1>3. /\ parse_conf(doc) = [ret |-> 0, conf |-> conf]
      /\ conf \in ConfigType
      /\ \A i \in 1..Len(conf.plugins) : Strictly(conf.plugins[i].cores)
  BY <1>1, <1>2, MeaningRead
<1>4. configuration_valid(conf) <=> Acceptable(conf)
  <2>1. configuration_valid(conf) => Acceptable(conf)  BY <1>3, ValidIsAcceptable
  <2>2. Acceptable(conf) => configuration_valid(conf)  BY <1>3, AcceptableIsValid
  <2> QED  BY <2>1, <2>2
<1>5. doc.yaml  BY DEF WellWritten
<1>6. PICK r : r = parse_conf(doc)  OBVIOUS
<1>7. r.ret = 0 /\ r.conf = conf  BY <1>3, <1>6
<1>8. Parsed[doc] = [ret |-> IF configuration_valid(conf) THEN 0 ELSE 1, conf |-> conf]
  BY <1>5, <1>6, <1>7 DEF Parsed, parse_configuration
<1> QED  BY <1>2, <1>4, <1>8

-----------------------------------------------------------------------------
(***************************************************************************)
(* The inductive invariant.  Beside the types: what the daemon knows and   *)
(* has changed at each step of rtf_daemon_init.                            *)
(***************************************************************************)
Saved == phase \in {"set", "bind", "limits", "plugins", "up"}

\* The configuration is the zeroed memory, or came out of a file as valid.
ConfigRead ==
  /\ config \in ConfigType
  /\ phase \in {"off", "parse"} => config = Zeroed
  /\ config = Zeroed \/ configuration_valid(config)
  /\ phase = "parse" => file \in Docs

\* Plugins are opened in their step only, and the scheduler is initialised after it.
OpenedInOrder ==
  /\ phase \notin {"plugins", "up"} => opened = 0
  /\ sched => phase = "up"

\* Nothing is changed before it is saved, and what is saved is what was found.
KeepsFound ==
  /\ procfs \in [rr : Int, rt : Int] /\ found \in [rr : Int, rt : Int]
  /\ phase \in {"parse", "save", "set"} => procfs = found
  /\ Saved => backup = found

\* A system nobody left in a mess is as it was before the first start.
FoundIsOriginal == ~mess => IF phase = "off" THEN procfs = orig ELSE found = orig

\* The check against the kernel's limit holds from there on.
LimitChecked ==
  phase = "plugins" \/ Serving => procfs.rt = -1 \/ procfs.rt >= config.sched_max_util

StartupInv ==
  StartupTypeOK /\ ConfigRead /\ OpenedInOrder /\ KeepsFound /\ FoundIsOriginal /\ LimitChecked

USE DEF Saved, Serving

LEMMA ZeroedFacts == Zeroed \in ConfigType /\ Len(Zeroed.plugins) = 0
BY DEF Zeroed, ConfigType

LEMMA ConfigFacts ==
  ASSUME NEW c \in ConfigType
  PROVE  c.rr_timeslice \in Int /\ c.sched_max_util \in Int /\ Len(c.plugins) \in Nat
BY DEF ConfigType

LEMMA StartupInitInv == StartupInit => StartupInv
<1> SUFFICES ASSUME StartupInit PROVE StartupInv  OBVIOUS
<1> USE DEF StartupInit
<1>1. procfs \in [rr : Int, rt : Int] /\ found = procfs /\ orig = procfs  BY StartupAssumption
<1>2. StartupTypeOK
  <2>1. opened \in 0..Len(config.plugins)  BY ZeroedFacts
  <2>2. backup \in [rr : Int, rt : Int]  BY DEF NoBackup
  <2>3. starts \in 0..MaxStarts  BY StartupAssumption
  <2> QED  BY <1>1, <2>1, <2>2, <2>3 DEF StartupTypeOK
<1>3. ConfigRead  BY ZeroedFacts DEF ConfigRead
<1>4. OpenedInOrder /\ FoundIsOriginal /\ LimitChecked
  BY <1>1 DEF OpenedInOrder, FoundIsOriginal, LimitChecked
<1>5. KeepsFound  BY <1>1 DEF KeepsFound
<1> QED  BY <1>2, <1>3, <1>4, <1>5 DEF StartupInv

(***************************************************************************)
(* A daemon that goes, whatever it leaves in the kernel: the mess is       *)
(* recorded unless the parameters are those it found.                      *)
(***************************************************************************)
LEMMA GoneInv ==
  ASSUME StartupInv, phase # "off", Gone, procfs' \in [rr : Int, rt : Int],
         mess' \in BOOLEAN, ~mess' => ~mess /\ procfs' = found
  PROVE  StartupInv'
<1> USE DEF Gone
<1>1. StartupTypeOK'
  <2>1. (opened \in 0..Len(config.plugins))'  BY ZeroedFacts
  <2>2. backup' \in [rr : Int, rt : Int]  BY DEF NoBackup
  <2>3. (starts \in 0..MaxStarts)'  BY DEF StartupInv, StartupTypeOK
  <2> QED  BY <2>1, <2>2, <2>3 DEF StartupTypeOK
<1>2. ConfigRead'  BY ZeroedFacts DEF ConfigRead
<1>3. (OpenedInOrder /\ LimitChecked)'  BY DEF OpenedInOrder, LimitChecked
<1>4. KeepsFound'  BY DEF StartupInv, KeepsFound
<1>5. FoundIsOriginal'  BY DEF StartupInv, FoundIsOriginal
<1> QED  BY <1>1, <1>2, <1>3, <1>4, <1>5 DEF StartupInv

LEMMA LeaveInv == ASSUME StartupInv, phase # "off", Leave PROVE StartupInv'
<1>1. procfs' \in [rr : Int, rt : Int] /\ mess' \in BOOLEAN
  BY DEF StartupInv, StartupTypeOK, Leave
<1>2. ~mess' => ~mess /\ procfs' = found  BY DEF Leave
<1>3. Gone  BY DEF Leave
<1> QED  BY <1>1, <1>2, <1>3, GoneInv

\* What a write leaves in the kernel is an integer.
LEMMA WriteType ==
  ASSUME procfs \in [rr : Int, rt : Int], NEW rr \in Int, NEW rt \in Int, NEW w1, NEW w2
  PROVE  WriteBoth(rr, rt, w1, w2) \in [rr : Int, rt : Int]
BY DEF WriteBoth, Written

\* A step that only moves on, or changes the kernel after the backup was made.
LEMMA StartInv == ASSUME StartupInv, NEW doc \in Docs, Start(doc) PROVE StartupInv'
<1> USE DEF Start, StartupInv
<1>1. StartupTypeOK'  BY StartupAssumption DEF StartupTypeOK
<1>2. ConfigRead'  BY DEF ConfigRead
<1>3. (OpenedInOrder /\ LimitChecked)'  BY DEF OpenedInOrder, LimitChecked
<1>4. KeepsFound'  BY DEF KeepsFound
<1>5. FoundIsOriginal'  BY DEF FoundIsOriginal
<1> QED  BY <1>1, <1>2, <1>3, <1>4, <1>5

LEMMA ParseInv == ASSUME StartupInv, Parse PROVE StartupInv'
<1> DEFINE r == Parsed[file]
<1>1. phase = "parse" /\ file \in Docs  BY DEF Parse, StartupInv, ConfigRead
<1>2. r.conf \in ConfigType /\ (r.ret = 0 => r.conf = Zeroed \/ configuration_valid(r.conf))
  BY <1>1, ParseFacts
<1>3. CASE r.ret # 0 /\ Leave  BY <1>1, <1>3, LeaveInv
<1>4. CASE /\ r.ret = 0 /\ config' = r.conf /\ phase' = "save" /\ file' = NoFile
           /\ UNCHANGED <<procfs, backup, opened, sched, starts, orig, found, mess>>
  <2> HIDE DEF r
  <2> USE <1>1, <1>4 DEF StartupInv
  <2>1. ConfigRead'  BY <1>2 DEF ConfigRead
  <2>2. StartupTypeOK'
    <3>1. opened = 0  BY DEF OpenedInOrder
    <3>2. Len(config'.plugins) \in Nat  BY <1>2, ConfigFacts
    <3> QED  BY <3>1, <3>2 DEF StartupTypeOK
  <2>3. (OpenedInOrder /\ LimitChecked)'  BY DEF OpenedInOrder, LimitChecked
  <2>4. KeepsFound'  BY DEF KeepsFound
  <2>5. FoundIsOriginal'  BY DEF FoundIsOriginal
  <2> QED  BY <2>1, <2>2, <2>3, <2>4, <2>5
<1> QED  BY <1>3, <1>4 DEF Parse

LEMMA SaveInv == ASSUME StartupInv, NEW r1, NEW r2, Save(r1, r2) PROVE StartupInv'
<1>1. CASE Leave  BY <1>1, LeaveInv DEF Save
<1>2. CASE /\ phase = "save" /\ backup' = procfs /\ phase' = "set"
           /\ UNCHANGED <<file, config, procfs, opened, sched, starts, orig, found, mess>>
  <2> USE <1>2 DEF StartupInv
  <2>1. StartupTypeOK'  BY DEF StartupTypeOK
  <2>2. ConfigRead'  BY DEF ConfigRead
  <2>3. (OpenedInOrder /\ LimitChecked)'  BY DEF OpenedInOrder, LimitChecked
  <2>4. (KeepsFound /\ FoundIsOriginal)'  BY DEF KeepsFound, FoundIsOriginal
  <2> QED  BY <2>1, <2>2, <2>3, <2>4
<1> QED  BY <1>1, <1>2 DEF Save

(***************************************************************************)
(* Set is where the kernel is changed; the backup made just before is what *)
(* was found.                                                              *)
(***************************************************************************)
LEMMA SetInv == ASSUME StartupInv, NEW w1, NEW w2, Set(w1, w2) PROVE StartupInv'
<1> USE DEF StartupInv, Set
<1>1. procfs' \in [rr : Int, rt : Int]
  <2>1. config.rr_timeslice \in Int  BY ConfigFacts DEF ConfigRead
  <2> QED  BY <2>1, WriteType DEF StartupTypeOK
<1>2. StartupTypeOK'  BY <1>1 DEF StartupTypeOK
<1>3. ConfigRead'  BY DEF ConfigRead
<1>4. (OpenedInOrder /\ LimitChecked)'  BY DEF OpenedInOrder, LimitChecked
<1>5. KeepsFound'  BY <1>1 DEF KeepsFound
<1>6. FoundIsOriginal'  BY DEF FoundIsOriginal
<1> QED  BY <1>2, <1>3, <1>4, <1>5, <1>6

\* A step of rtf_daemon_init after the backup that touches nothing but its place.
LEMMA MoveInv ==
  ASSUME StartupInv, Saved, Saved', phase' # "set",
         UNCHANGED <<file, config, procfs, backup, starts, orig, found, mess>>,
         opened' \in 0..Len(config.plugins), sched' \in BOOLEAN, OpenedInOrder', LimitChecked'
  PROVE  StartupInv'
<1> USE DEF StartupInv
<1>1. StartupTypeOK'  BY DEF StartupTypeOK
<1>2. ConfigRead'  BY DEF ConfigRead
<1>3. (KeepsFound /\ FoundIsOriginal)'  BY DEF KeepsFound, FoundIsOriginal
<1> QED  BY <1>1, <1>2, <1>3

LEMMA BindInv == ASSUME StartupInv, NEW ok, Bind(ok) PROVE StartupInv'
<1>1. CASE Leave  BY <1>1, LeaveInv DEF Bind
<1>2. CASE /\ phase = "bind" /\ phase' = "limits"
           /\ UNCHANGED <<file, config, procfs, backup, opened, sched, starts, orig, found, mess>>
  <2>1. (OpenedInOrder /\ LimitChecked)'
    BY <1>2 DEF StartupInv, OpenedInOrder, LimitChecked
  <2>2. opened' \in 0..Len(config.plugins) /\ sched' \in BOOLEAN
    BY <1>2 DEF StartupInv, StartupTypeOK
  <2> QED  BY <1>2, <2>1, <2>2, MoveInv
<1> QED  BY <1>1, <1>2 DEF Bind

LEMMA LimitsInv == ASSUME StartupInv, NEW r1, NEW r2, Limits(r1, r2) PROVE StartupInv'
<1>1. CASE Leave  BY <1>1, LeaveInv DEF Limits
<1>2. CASE /\ phase = "limits"
           /\ (phase' = "plugins" /\ ~TooLow) \/ phase' = "up"
           /\ UNCHANGED <<file, config, procfs, backup, opened, sched, starts, orig, found, mess>>
  <2>1. procfs.rt \in Int /\ config.sched_max_util \in Int
    BY ConfigFacts DEF StartupInv, StartupTypeOK, ConfigRead
  <2>2. ~sched  BY <1>2 DEF StartupInv, OpenedInOrder
  <2>3. LimitChecked'  BY <1>2, <2>1, <2>2 DEF LimitChecked, TooLow
  <2>4. OpenedInOrder'  BY <1>2, <2>2 DEF StartupInv, OpenedInOrder
  <2>5. opened' \in 0..Len(config.plugins) /\ sched' \in BOOLEAN
    BY <1>2 DEF StartupInv, StartupTypeOK
  <2> QED  BY <1>2, <2>3, <2>4, <2>5, MoveInv
<1> QED  BY <1>1, <1>2 DEF Limits

LEMMA OpenInv == ASSUME StartupInv, NEW here, NEW there, OpenPlugin(here, there) PROVE StartupInv'
<1>1. CASE Leave  BY <1>1, LeaveInv DEF OpenPlugin
<1>2. CASE /\ phase = "plugins" /\ opened < Len(config.plugins) /\ opened' = opened + 1
           /\ UNCHANGED <<phase, file, config, procfs, backup, sched, starts, orig, found, mess>>
  <2>1. Len(config.plugins) \in Nat  BY ConfigFacts DEF StartupInv, ConfigRead
  <2>2. opened' \in 0..Len(config.plugins) /\ sched' \in BOOLEAN
    BY <1>2, <2>1 DEF StartupInv, StartupTypeOK
  <2>3. (OpenedInOrder /\ LimitChecked)'
    BY <1>2 DEF StartupInv, OpenedInOrder, LimitChecked
  <2> QED  BY <1>2, <2>2, <2>3, MoveInv
<1> QED  BY <1>1, <1>2 DEF OpenPlugin

LEMMA OpenedInv == ASSUME StartupInv, PluginsOpened PROVE StartupInv'
<1> USE DEF PluginsOpened
<1>1. (OpenedInOrder /\ LimitChecked)'
  BY DEF StartupInv, OpenedInOrder, LimitChecked
<1>2. opened' \in 0..Len(config.plugins) /\ sched' \in BOOLEAN
  BY DEF StartupInv, StartupTypeOK
<1> QED  BY <1>1, <1>2, MoveInv

LEMMA InterruptInv == ASSUME StartupInv, NEW w1, NEW w2, Interrupt(w1, w2) PROVE StartupInv'
<1> USE DEF Interrupt
<1>1. backup \in [rr : Int, rt : Int] /\ procfs \in [rr : Int, rt : Int] /\ mess \in BOOLEAN
  BY DEF StartupInv, StartupTypeOK
<1>2. procfs' \in [rr : Int, rt : Int]  BY <1>1, WriteType
<1>3. backup = found  BY DEF StartupInv, KeepsFound
<1>4. ASSUME ~mess' PROVE ~mess /\ procfs' = found
  <2>1. ~mess /\ w1 = "written" /\ w2 = "written"  BY <1>4
  <2>2. procfs' = [rr |-> backup.rr, rt |-> backup.rt]  BY <2>1 DEF WriteBoth, Written
  <2> QED  BY <1>1, <1>3, <2>1, <2>2
<1>5. mess' \in BOOLEAN  BY <1>1
<1>6. phase # "off"  OBVIOUS
<1> QED  BY <1>2, <1>4, <1>5, <1>6, GoneInv

LEMMA StartupNextInv == StartupInv /\ [StartupNext]_svars => StartupInv'
<1> SUFFICES ASSUME StartupInv, [StartupNext]_svars PROVE StartupInv'  OBVIOUS
<1>1. CASE \E doc \in Docs : Start(doc)  BY <1>1, StartInv
<1>2. CASE Coming
  BY <1>2, ParseInv, SaveInv, LimitsInv, SetInv, BindInv, OpenInv, OpenedInv DEF Coming
<1>3. CASE \E w1, w2 \in WriteOutcomes : Interrupt(w1, w2)  BY <1>3, InterruptInv
<1>4. CASE Kill  BY <1>4, LeaveInv DEF Kill
<1>5. CASE UNCHANGED svars
  BY <1>5 DEF svars, StartupInv, StartupTypeOK, ConfigRead, OpenedInOrder, KeepsFound,
              FoundIsOriginal, LimitChecked
<1> QED  BY <1>1, <1>2, <1>3, <1>4, <1>5 DEF StartupNext

LEMMA StartupAlways == StartupSpec => []StartupInv
BY StartupInitInv, StartupNextInv, PTL DEF StartupSpec

-----------------------------------------------------------------------------
(***************************************************************************)
(* The types, and the bound of the loop of rtf_plugins_init.               *)
(***************************************************************************)
THEOREM StartupTypes == StartupSpec => []StartupTypeOK
<1>1. StartupInv => StartupTypeOK  BY DEF StartupInv
<1> QED  BY <1>1, StartupAlways, PTL

(***************************************************************************)
(* While a daemon runs, the kernel's parameters it found are in the kernel *)
(* or in its backup (save_rt_kernel_params before set_rt_kernel_params).   *)
(***************************************************************************)
THEOREM NothingIsLost == StartupSpec => []NothingLost
<1>1. StartupInv => NothingLost
  BY DEF StartupInv, StartupTypeOK, KeepsFound, NothingLost
<1> QED  BY <1>1, StartupAlways, PTL

(***************************************************************************)
(* Over any number of starts the kernel keeps its original parameters,     *)
(* unless a daemon left without restoring them.                            *)
(***************************************************************************)
THEOREM KernelDoesNotDrift == StartupSpec => []NoDrift
<1>1. StartupInv => NoDrift  BY DEF StartupInv, FoundIsOriginal, NoDrift
<1> QED  BY <1>1, StartupAlways, PTL

(***************************************************************************)
(* A daemon that serves has a kernel that lets it use sched_max_util.      *)
(***************************************************************************)
THEOREM LimitIsHonoured == StartupSpec => []LimitHonoured
<1>1. StartupInv => LimitHonoured  BY DEF StartupInv, LimitChecked, LimitHonoured
<1> QED  BY <1>1, StartupAlways, PTL

(***************************************************************************)
(* Whatever the configuration file, a daemon that serves obeys the rules   *)
(* of conf/retifconf.yaml if its lists of cores came out ascending, empty  *)
(* or not: in particular the single pass of plugins_have_common_cpus       *)
(* misses no common core, and a number cut to an int is checked after it.  *)
(***************************************************************************)
THEOREM ServesOnlyValid == StartupSpec => []SchedulerGetsValid
<1>1. StartupInv => SchedulerGetsValid
  BY ValidIsAcceptable DEF StartupInv, ConfigRead, SchedulerGetsValid
<1> QED  BY <1>1, StartupAlways, PTL

(***************************************************************************)
(* A file written as the comments of conf/retifconf.yaml ask, whose cores  *)
(* and priorities fit an int, is accepted exactly when it obeys their      *)
(* rules, and is then read as they say: parse_configuration with its       *)
(* tokenisers, ranges, conversions and checks, for every such file,        *)
(* however many plugins, tokens and cores it has, and every width of int.  *)
(***************************************************************************)
THEOREM FilesReadAsWritten == StartupSpec => []ReadAsWritten
<1>1. StartupInv => ReadAsWritten
  BY FileAsWritten DEF StartupInv, ConfigRead, ReadAsWritten
<1> QED  BY <1>1, StartupAlways, PTL

==============================================================================
