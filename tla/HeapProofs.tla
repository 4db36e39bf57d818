----------------------------- MODULE HeapProofs -----------------------------
(***************************************************************************)
(* What holds of the binomial heaps for any nodes, heaps and priorities:   *)
(* every operation leaves heap-ordered binomial trees behind and the       *)
(* references leading where they should, and what a heap does is what a    *)
(* priority queue does.                                                    *)
(***************************************************************************)
EXTENDS Heap, Induction

-----------------------------------------------------------------------------
(* Sequences.                                                              *)
LEMMA ConsIs ==
    ASSUME NEW S, NEW x \in S, NEW q \in Seq(S)
    PROVE  /\ <<x>> \o q \in Seq(S) /\ Len(<<x>> \o q) = Len(q) + 1 /\ (<<x>> \o q)[1] = x
           /\ \A k \in 1 .. Len(q) : (<<x>> \o q)[k + 1] = q[k]
<1>1. <<x>> \in Seq(S) /\ Len(<<x>>) = 1 /\ <<x>>[1] = x
  OBVIOUS
<1>2. <<x>> \o q \in Seq(S) /\ Len(<<x>> \o q) = Len(q) + 1
  BY <1>1
<1>3. (<<x>> \o q)[1] = x
  BY <1>1
<1>4. \A k \in 1 .. Len(q) : (<<x>> \o q)[k + 1] = q[k]
  BY <1>1
<1>5. QED
  BY <1>2, <1>3, <1>4

LEMMA ConcatIs ==
    ASSUME NEW S, NEW p \in Seq(S), NEW q \in Seq(S)
    PROVE  /\ p \o q \in Seq(S) /\ Len(p \o q) = Len(p) + Len(q)
           /\ \A k \in 1 .. Len(p) : (p \o q)[k] = p[k]
           /\ \A k \in 1 .. Len(q) : (p \o q)[Len(p) + k] = q[k]
  OBVIOUS

LEMMA HeadMoves ==
    ASSUME NEW S, NEW p \in Seq(S), NEW q \in Seq(S), q # <<>>
    PROVE  /\ Len(q) \in Nat \ {0} /\ Head(q) = q[1] /\ q[1] \in S
           /\ Append(p, Head(q)) \in Seq(S) /\ Len(Append(p, Head(q))) = Len(p) + 1
           /\ \A k \in 1 .. Len(p) : Append(p, Head(q))[k] = p[k]
           /\ Append(p, Head(q))[Len(p) + 1] = q[1]
           /\ Tail(q) \in Seq(S) /\ Len(Tail(q)) = Len(q) - 1
           /\ \A k \in 1 .. Len(q) - 1 : Tail(q)[k] = q[k + 1]
  OBVIOUS

LEMMA RemoveAtIs ==
    ASSUME NEW S, NEW q \in Seq(S), NEW i \in 1 .. Len(q)
    PROVE  /\ RemoveAt(q, i) \in Seq(S) /\ Len(RemoveAt(q, i)) = Len(q) - 1
           /\ \A k \in 1 .. Len(q) - 1 : RemoveAt(q, i)[k] = IF k < i THEN q[k] ELSE q[k + 1]
<1> DEFINE p == SubSeq(q, 1, i - 1)
           r == SubSeq(q, i + 1, Len(q))
<1>1. p \in Seq(S) /\ Len(p) = i - 1 /\ \A k \in 1 .. i - 1 : p[k] = q[k]
  OBVIOUS
<1>2. r \in Seq(S) /\ Len(r) = Len(q) - i /\ \A k \in 1 .. Len(q) - i : r[k] = q[i + k]
  OBVIOUS
<1>3. RemoveAt(q, i) = p \o r
  BY DEF RemoveAt
<1> HIDE DEF p, r
<1>4. /\ p \o r \in Seq(S) /\ Len(p \o r) = Len(q) - 1
      /\ \A k \in 1 .. i - 1 : (p \o r)[k] = p[k]
      /\ \A k \in 1 .. Len(q) - i : (p \o r)[i - 1 + k] = r[k]
  <2>1. /\ p \o r \in Seq(S) /\ Len(p \o r) = Len(p) + Len(r)
        /\ \A k \in 1 .. Len(p) : (p \o r)[k] = p[k]
        /\ \A k \in 1 .. Len(r) : (p \o r)[Len(p) + k] = r[k]
    <3>1. p \in Seq(S) /\ r \in Seq(S)
      BY <1>1, <1>2
    <3>2. QED
      BY <3>1, ConcatIs
  <2>2. i - 1 + (Len(q) - i) = Len(q) - 1
    OBVIOUS
  <2>3. QED
    BY <1>1, <1>2, <2>1, <2>2
<1>5. ASSUME NEW k \in 1 .. Len(q) - 1
      PROVE  (p \o r)[k] = IF k < i THEN q[k] ELSE q[k + 1]
  <2>1. CASE k < i
    BY <1>1, <1>4, <2>1
  <2>2. CASE ~(k < i)
    <3>1. k - (i - 1) \in 1 .. Len(q) - i /\ i - 1 + (k - (i - 1)) = k
          /\ i + (k - (i - 1)) = k + 1
      BY <2>2
    <3>2. (p \o r)[i - 1 + (k - (i - 1))] = r[k - (i - 1)]
      BY <1>4, <3>1
    <3>3. r[k - (i - 1)] = q[i + (k - (i - 1))]
      BY <1>2, <3>1
    <3>4. QED
      BY <2>2, <3>1, <3>2, <3>3
  <2>3. QED
    BY <2>1, <2>2
<1>6. QED
  BY <1>3, <1>4, <1>5

LEMMA ReverseIs ==
    ASSUME NEW S, NEW q \in Seq(S)
    PROVE  /\ Reverse(q) \in Seq(S) /\ Len(Reverse(q)) = Len(q)
           /\ \A k \in 1 .. Len(q) : Reverse(q)[k] = q[Len(q) - k + 1]
  BY DEF Reverse

-----------------------------------------------------------------------------
(* Rounds.                                                                 *)

\* Rounds that stay in S.
LEMMA RoundsStay ==
    ASSUME NEW S, NEW x \in S, NEW g \in [S -> S]
    PROVE  \E r \in [Nat -> S] : r = [i \in Nat |-> IF i = 0 THEN x ELSE g[r[i - 1]]]
<1> DEFINE Runs(n, r) == /\ r \in [0 .. n -> S] /\ r[0] = x
                         /\ \A i \in 0 .. n - 1 : r[i + 1] = g[r[i]]
           T == {n \in Nat : \E r : Runs(n, r)}
<1>1. 0 \in T
  <2>1. Runs(0, [i \in 0 .. 0 |-> x])
    OBVIOUS
  <2>2. QED
    BY <2>1
<1>2. ASSUME NEW n \in Nat, n \in T PROVE n + 1 \in T
  <2>1. PICK r : Runs(n, r)
    BY <1>2
  <2> DEFINE longer == [i \in 0 .. n + 1 |-> IF i = n + 1 THEN g[r[n]] ELSE r[i]]
  <2>2. longer \in [0 .. n + 1 -> S] /\ longer[0] = x
    BY <2>1
  <2>3. ASSUME NEW i \in 0 .. (n + 1) - 1 PROVE longer[i + 1] = g[longer[i]]
    <3>1. CASE i = n
      BY <3>1
    <3>2. CASE i # n
      BY <2>1, <3>2
    <3>3. QED
      BY <3>1, <3>2
  <2>4. Runs(n + 1, longer)
    BY <2>2, <2>3
  <2> HIDE DEF Runs, longer
  <2>5. QED
    BY <2>4
<1>3. Nat \subseteq T
  <2> HIDE DEF T
  <2>1. QED
    BY <1>1, <1>2, SetInduction
<1> DEFINE run == [n \in Nat |-> CHOOSE r : Runs(n, r)]
           all == [n \in Nat |-> run[n][n]]
<1>4. \A n \in Nat : Runs(n, run[n])
  BY <1>3
<1> HIDE DEF run, T
<1>5. ASSUME NEW n \in Nat PROVE \A i \in Nat : i <= n => run[n][i] = run[n + 1][i]
  <2> DEFINE U == {i \in Nat : i <= n => run[n][i] = run[n + 1][i]}
  <2>1. 0 \in U
    BY <1>4
  <2>2. ASSUME NEW i \in Nat, i \in U PROVE i + 1 \in U
    BY <1>4, <2>2
  <2>3. Nat \subseteq U
    <3> HIDE DEF U
    <3>1. QED
      BY <2>1, <2>2, SetInduction
  <2>4. QED
    BY <2>3
<1>6. all \in [Nat -> S] /\ all[0] = x
  BY <1>4
<1>7. ASSUME NEW i \in Nat PROVE all[i + 1] = g[all[i]]
  <2>1. run[i + 1][i + 1] = g[run[i + 1][i]]
    BY <1>4
  <2>2. QED
    BY <1>5, <2>1
<1> HIDE DEF all
<1>8. all = [i \in Nat |-> IF i = 0 THEN x ELSE g[all[i - 1]]]
  <2>1. ASSUME NEW i \in Nat PROVE all[i] = IF i = 0 THEN x ELSE g[all[i - 1]]
    <3>1. CASE i = 0
      BY <1>6, <3>1
    <3>2. CASE i # 0
      <4>1. i - 1 \in Nat /\ (i - 1) + 1 = i
        BY <3>2
      <4>2. QED
        BY <1>7, <3>2, <4>1
    <3>3. QED
      BY <3>1, <3>2
  <2>2. QED
    BY <1>6, <2>1
<1>9. QED
  BY <1>6, <1>8

\* What falls in every round until it is 0 gets there.
LEMMA RoundsEnd ==
    ASSUME NEW m, \A i \in Nat : m[i] \in Nat,
           \A i \in Nat : m[i + 1] < m[i] \/ (m[i] = 0 /\ m[i + 1] = 0),
           NEW n \in Nat, m[0] <= n
    PROVE  m[n] = 0
<1> DEFINE T == {i \in Nat : m[i] + i <= n \/ m[i] = 0}
<1>1. 0 \in T
  OBVIOUS
<1>2. ASSUME NEW i \in Nat, i \in T PROVE i + 1 \in T
  BY <1>2
<1>3. n \in T
  <2> HIDE DEF T
  <2>1. QED
    BY <1>1, <1>2, SetInduction
<1>4. QED
  BY <1>3

-----------------------------------------------------------------------------
(* The degrees e of the n roots that __heap_union goes through, at         *)
(* position k: those before k grow; the rest does not fall, and no three   *)
(* in a row agree unless the first of them is at k.  Two agree around k    *)
(* only when a third does.                                                 *)
InUnion(e, n, k) ==
    /\ k \in 1 .. n /\ \A i \in 1 .. n : e[i] \in Nat
    /\ \A i, j \in 1 .. n : i < j /\ j < k => e[i] < e[j]
    /\ k > 1 => \/ e[k - 1] < e[k]
                \/ /\ k < n /\ e[k - 1] = e[k] /\ e[k + 1] = e[k]
                   /\ k + 2 <= n => e[k + 1] < e[k + 2]
    /\ \A i \in k .. n - 1 : e[i] <= e[i + 1]
    /\ \A i \in k + 1 .. n - 2 : e[i] < e[i + 2]

LEMMA UnionAdvances ==
    ASSUME NEW e, NEW n \in Nat, NEW k, InUnion(e, n, k), k < n,
           e[k] # e[k + 1] \/ (k + 2 <= n /\ e[k + 2] = e[k])
    PROVE  InUnion(e, n, k + 1)
<1>1. k \in 1 .. n /\ k + 1 \in 1 .. n /\ e[k] \in Nat /\ e[k + 1] \in Nat /\ e[k] <= e[k + 1]
  BY DEF InUnion
<1>2. CASE e[k] # e[k + 1]
  <2>1. e[k] < e[k + 1]
    BY <1>1, <1>2
  <2>2. k > 1 => e[k - 1] < e[k]
    BY <1>1, <1>2 DEF InUnion
  <2>3. ASSUME NEW i \in 1 .. n, NEW j \in 1 .. n, i < j, j < k + 1 PROVE e[i] < e[j]
    BY <1>1, <2>2, <2>3 DEF InUnion
  <2>4. QED
    BY <1>1, <2>1, <2>3 DEF InUnion
<1>3. CASE e[k] = e[k + 1]
  <2>1. k + 2 \in 1 .. n /\ e[k + 2] = e[k]
    BY <1>1, <1>3
  <2>2. k > 1 => e[k - 1] < e[k]
    BY <1>1, <1>3, <2>1 DEF InUnion
  <2>3. ASSUME NEW i \in 1 .. n, NEW j \in 1 .. n, i < j, j < k + 1 PROVE e[i] < e[j]
    BY <1>1, <2>2, <2>3 DEF InUnion
  <2>4. k + 3 <= n => e[k + 1] < e[k + 3]
    BY <1>1 DEF InUnion
  <2>5. QED
    BY <1>1, <1>3, <2>1, <2>3, <2>4 DEF InUnion
<1>4. QED
  BY <1>2, <1>3

\* Two trees of one degree become one of the next degree.
LEMMA UnionLinks ==
    ASSUME NEW e, NEW n \in Nat, NEW k, InUnion(e, n, k), k < n, e[k] = e[k + 1],
           ~(k + 2 <= n /\ e[k + 2] = e[k]),
           NEW f, \A i \in 1 .. n - 1 : f[i] = IF i < k THEN e[i]
                                               ELSE IF i = k THEN e[k] + 1 ELSE e[i + 1]
    PROVE  InUnion(f, n - 1, k)
<1>1. k \in 1 .. n /\ k + 1 \in 1 .. n /\ e[k] \in Nat /\ k \in 1 .. n - 1
  BY DEF InUnion
<1>2. \A i \in 1 .. n - 1 : f[i] \in Nat
  BY <1>1 DEF InUnion
<1>3. \A i, j \in 1 .. n - 1 : i < j /\ j < k => f[i] < f[j]
  BY <1>1 DEF InUnion
<1>4. k > 1 => f[k - 1] < f[k]
  BY <1>1 DEF InUnion
<1>5. k + 2 <= n => e[k] + 1 <= e[k + 2]
  BY <1>1 DEF InUnion
<1>6. \A i \in k .. (n - 1) - 1 : f[i] <= f[i + 1]
  BY <1>1, <1>5 DEF InUnion
<1>7. \A i \in k + 1 .. (n - 1) - 2 : f[i] < f[i + 2]
  BY <1>1 DEF InUnion
<1>8. QED
  BY <1>1, <1>2, <1>3, <1>4, <1>6, <1>7 DEF InUnion

LEMMA UnionEnds ==
    ASSUME NEW e, NEW n \in Nat, NEW k, InUnion(e, n, k), k >= n
    PROVE  \A i, j \in 1 .. n : i < j => e[i] < e[j]
<1>1. k = n /\ (k > 1 => e[k - 1] < e[k])
  BY DEF InUnion
<1>2. ASSUME NEW i \in 1 .. n, NEW j \in 1 .. n, i < j PROVE e[i] < e[j]
  BY <1>1, <1>2 DEF InUnion
<1>3. QED
  BY <1>2

-----------------------------------------------------------------------------
(* __heap_merge.  The degrees e of the n roots in the merged list, and f   *)
(* and g of the m and l roots that are left of the two.                    *)
Growing(e, n) == \A i, j \in 1 .. n : i < j => e[i] < e[j]

\* The list of the degrees f can go on after the n of e.
After(e, n, f, m) ==
    m > 0 => /\ n > 0 => e[n] <= f[1]
             /\ n > 1 => e[n - 1] < f[1]

InMerge(e, n, f, m, g, l) ==
    /\ n \in Nat /\ m \in Nat /\ l \in Nat
    /\ (\A i \in 1 .. n : e[i] \in Nat) /\ (\A i \in 1 .. m : f[i] \in Nat)
    /\ \A i \in 1 .. l : g[i] \in Nat
    /\ Growing(f, m) /\ Growing(g, l) /\ After(e, n, f, m) /\ After(e, n, g, l)
    /\ \A i \in 1 .. n - 1 : e[i] <= e[i + 1]
    /\ \A i \in 1 .. n - 2 : e[i] < e[i + 2]
    /\ n > 0 /\ m > 0 /\ l > 0 => e[n] # f[1] \/ e[n] # g[1]

LEMMA MergeTakes ==
    ASSUME NEW e, NEW n, NEW f, NEW m, NEW g, NEW l, InMerge(e, n, f, m, g, l),
           m > 0, l > 0, f[1] <= g[1],
           NEW d, \A i \in 1 .. n : d[i] = e[i], d[n + 1] = f[1],
           NEW h, \A i \in 1 .. m - 1 : h[i] = f[i + 1]
    PROVE  InMerge(d, n + 1, h, m - 1, g, l)
<1>1. /\ n \in Nat /\ m \in Nat /\ l \in Nat /\ m - 1 \in Nat /\ n + 1 \in Nat
      /\ (\A i \in 1 .. n : e[i] \in Nat) /\ (\A i \in 1 .. m : f[i] \in Nat)
      /\ \A i \in 1 .. l : g[i] \in Nat
  BY DEF InMerge
<1>2. (\A i \in 1 .. n + 1 : d[i] \in Nat) /\ \A i \in 1 .. m - 1 : h[i] \in Nat
  BY <1>1
<1>3. /\ n > 0 => e[n] <= f[1] /\ (e[n] # f[1] \/ e[n] # g[1])
      /\ n > 1 => e[n - 1] < f[1]
  BY <1>1 DEF InMerge, After
<1>4. Growing(h, m - 1) /\ Growing(g, l)
  BY <1>1 DEF InMerge, Growing
<1>5. \A i \in 1 .. (n + 1) - 1 : d[i] <= d[i + 1]
  BY <1>1, <1>3 DEF InMerge
<1>6. \A i \in 1 .. (n + 1) - 2 : d[i] < d[i + 2]
  BY <1>1, <1>3 DEF InMerge
<1>7. m > 1 => f[1] < f[2] /\ h[1] = f[2]
  BY <1>1 DEF InMerge, Growing
<1>8. After(d, n + 1, h, m - 1)
  BY <1>1, <1>3, <1>7 DEF After
<1>9. After(d, n + 1, g, l)
  BY <1>1, <1>3 DEF After
<1>10. m - 1 > 0 => d[n + 1] # h[1]
  BY <1>1, <1>7
<1>11. QED
  BY <1>1, <1>2, <1>4, <1>5, <1>6, <1>8, <1>9, <1>10 DEF InMerge

\* The rest goes on after the merged list.
LEMMA MergeEnds ==
    ASSUME NEW e, NEW n, NEW f, NEW m, NEW g, NEW l, InMerge(e, n, f, m, g, l), n + m > 0,
           NEW d, \A i \in 1 .. n : d[i] = e[i], \A i \in 1 .. m : d[n + i] = f[i]
    PROVE  InUnion(d, n + m, 1)
<1>1. /\ n \in Nat /\ m \in Nat /\ 1 \in 1 .. n + m
      /\ (\A i \in 1 .. n : e[i] \in Nat) /\ (\A i \in 1 .. m : f[i] \in Nat)
  BY DEF InMerge
<1>2. \A i \in n + 1 .. n + m : i - n \in 1 .. m /\ d[i] = f[i - n]
  <2>1. SUFFICES ASSUME NEW i \in n + 1 .. n + m PROVE i - n \in 1 .. m /\ d[i] = f[i - n]
    OBVIOUS
  <2>2. i - n \in 1 .. m /\ n + (i - n) = i
    BY <1>1
  <2>3. QED
    BY <2>2
<1>3. \A i \in 1 .. n + m : d[i] \in Nat
  BY <1>1, <1>2
<1>4. \A i \in 1 .. (n + m) - 1 : d[i] <= d[i + 1]
  <2>1. SUFFICES ASSUME NEW i \in 1 .. (n + m) - 1 PROVE d[i] <= d[i + 1]
    OBVIOUS
  <2>2. CASE i < n
    BY <1>1, <2>2 DEF InMerge
  <2>3. CASE i = n
    BY <1>1, <2>3 DEF InMerge, After
  <2>4. CASE i > n
    BY <1>1, <1>2, <2>4 DEF InMerge, Growing
  <2>5. QED
    BY <1>1, <2>2, <2>3, <2>4
<1>5. \A i \in 1 .. (n + m) - 2 : d[i] < d[i + 2]
  <2>1. SUFFICES ASSUME NEW i \in 1 .. (n + m) - 2 PROVE d[i] < d[i + 2]
    OBVIOUS
  <2>2. CASE i + 1 < n
    BY <1>1, <2>2 DEF InMerge
  <2>3. CASE i + 1 = n
    BY <1>1, <2>3 DEF InMerge, After
  <2>4. CASE i = n
    <3>1. d[i] = e[n] /\ d[i + 2] = f[2] /\ 1 \in 1 .. m /\ 2 \in 1 .. m
      BY <1>1, <2>4
    <3>2. e[n] <= f[1] /\ f[1] < f[2]
      BY <1>1, <2>4, <3>1 DEF InMerge, After, Growing
    <3>3. QED
      BY <1>1, <2>4, <3>1, <3>2
  <2>5. CASE i > n
    BY <1>1, <1>2, <2>5 DEF InMerge, Growing
  <2>6. QED
    BY <1>1, <2>2, <2>3, <2>4, <2>5
<1>6. QED
  BY <1>1, <1>3, <1>4, <1>5 DEF InUnion

\* The lists hold every member of T once.
Distinct(q) == \A i, j \in 1 .. Len(q) : q[i] = q[j] => i = j

Apart(p, q) == \A i \in 1 .. Len(p), j \in 1 .. Len(q) : p[i] # q[j]

Has(q, x) == \E i \in 1 .. Len(q) : q[i] = x

Parts(T, o, p, q) ==
    /\ o \in Seq(T) /\ p \in Seq(T) /\ q \in Seq(T)
    /\ Distinct(o) /\ Distinct(p) /\ Distinct(q) /\ Apart(o, p) /\ Apart(o, q) /\ Apart(p, q)
    /\ \A x \in T : Has(o, x) \/ Has(p, x) \/ Has(q, x)

LEMMA PartsMove ==
    ASSUME NEW T, NEW o, NEW p, NEW q, Parts(T, o, p, q), p # <<>>
    PROVE  Parts(T, Append(o, Head(p)), Tail(p), q)
<1> DEFINE oo == Append(o, Head(p))
           pp == Tail(p)
<1>0. o \in Seq(T) /\ p \in Seq(T) /\ q \in Seq(T)
  BY DEF Parts
<1>1. /\ Len(p) \in Nat \ {0} /\ oo \in Seq(T) /\ Len(oo) = Len(o) + 1 /\ oo[Len(o) + 1] = p[1]
      /\ \A k \in 1 .. Len(o) : oo[k] = o[k]
      /\ pp \in Seq(T) /\ Len(pp) = Len(p) - 1 /\ \A k \in 1 .. Len(p) - 1 : pp[k] = p[k + 1]
  BY <1>0, HeadMoves
<1>a. /\ Len(p) \in Nat \ {0} /\ Len(oo) = Len(o) + 1 /\ oo[Len(o) + 1] = p[1]
      /\ \A k \in 1 .. Len(o) : oo[k] = o[k]
      /\ Len(pp) = Len(p) - 1 /\ \A k \in 1 .. Len(p) - 1 : pp[k] = p[k + 1]
  BY <1>1
<1>2. Len(o) \in Nat /\ Len(q) \in Nat
  BY <1>0
<1> HIDE DEF oo, pp
<1>3. /\ Distinct(o) /\ Distinct(p) /\ Distinct(q) /\ Apart(o, p) /\ Apart(o, q) /\ Apart(p, q)
  BY DEF Parts
<1>4. Distinct(oo)
  BY <1>a, <1>2, <1>3 DEF Distinct, Apart
<1>5. Distinct(pp) /\ Apart(pp, q)
  BY <1>a, <1>2, <1>3, SMTT(60) DEF Distinct, Apart
<1>6. Apart(oo, pp)
  BY <1>a, <1>2, <1>3, SMTT(60) DEF Distinct, Apart
<1>7. Apart(oo, q)
  BY <1>a, <1>2, <1>3 DEF Apart
<1>8. ASSUME NEW x \in T PROVE Has(oo, x) \/ Has(pp, x) \/ Has(q, x)
  <2>1. CASE Has(o, x)
    <3>1. PICK i \in 1 .. Len(o) : o[i] = x
      BY <2>1 DEF Has
    <3>2. i \in 1 .. Len(oo) /\ oo[i] = x
      BY <1>a, <1>2, <3>1
    <3>3. QED
      BY <3>2 DEF Has
  <2>2. CASE Has(p, x)
    <3>1. PICK i \in 1 .. Len(p) : p[i] = x
      BY <2>2 DEF Has
    <3>2. CASE i = 1
      <4>1. Len(o) + 1 \in 1 .. Len(oo) /\ oo[Len(o) + 1] = x
        BY <1>a, <1>2, <3>1, <3>2
      <4>2. QED
        BY <4>1 DEF Has
    <3>3. CASE i # 1
      <4>1. i - 1 \in 1 .. Len(pp) /\ pp[i - 1] = x
        BY <1>a, <3>1, <3>3
      <4>2. QED
        BY <4>1 DEF Has
    <3>4. QED
      BY <3>2, <3>3
  <2>3. QED
    BY <2>1, <2>2 DEF Parts
<1>9. QED
  BY <1>0, <1>1, <1>3, <1>4, <1>5, <1>6, <1>7, <1>8 DEF Parts, oo, pp

LEMMA PartsSwap ==
    ASSUME NEW T, NEW o, NEW p, NEW q, Parts(T, o, p, q) PROVE Parts(T, o, q, p)
  BY DEF Parts, Apart

LEMMA MergeSwap ==
    ASSUME NEW e, NEW n, NEW f, NEW m, NEW g, NEW l, InMerge(e, n, f, m, g, l)
    PROVE  InMerge(e, n, g, l, f, m)
  BY DEF InMerge

Degrees(d, q) == [i \in 1 .. Len(q) |-> d[q[i]]]

Merging(d, T, o, p, q) ==
    /\ Parts(T, o, p, q)
    /\ InMerge(Degrees(d, o), Len(o), Degrees(d, p), Len(p), Degrees(d, q), Len(q))

LEMMA MergingTakes ==
    ASSUME NEW T, NEW d \in [T -> Nat], NEW o, NEW p, NEW q, Merging(d, T, o, p, q),
           p # <<>>, q # <<>>, d[p[1]] <= d[q[1]]
    PROVE  Merging(d, T, Append(o, Head(p)), Tail(p), q)
<1> DEFINE oo == Append(o, Head(p))
           pp == Tail(p)
<1>1. o \in Seq(T) /\ p \in Seq(T) /\ q \in Seq(T)
  BY DEF Merging, Parts
<1>2. /\ Len(p) \in Nat \ {0} /\ Len(q) \in Nat \ {0} /\ Len(o) \in Nat
      /\ Len(oo) = Len(o) + 1 /\ oo[Len(o) + 1] = p[1] /\ Len(pp) = Len(p) - 1
      /\ \A k \in 1 .. Len(o) : oo[k] = o[k]
      /\ \A k \in 1 .. Len(p) - 1 : pp[k] = p[k + 1]
  BY <1>1, HeadMoves
<1>3. Parts(T, oo, pp, q)
  BY PartsMove DEF Merging
<1> DEFINE e == Degrees(d, o)   f == Degrees(d, p)   g == Degrees(d, q)
           ee == Degrees(d, oo) ff == Degrees(d, pp)
<1> HIDE DEF oo, pp
<1>4. /\ \A i \in 1 .. Len(o) : ee[i] = e[i]
      /\ ee[Len(o) + 1] = f[1] /\ f[1] <= g[1]
      /\ \A i \in 1 .. Len(p) - 1 : ff[i] = f[i + 1]
  BY <1>2 DEF Degrees
<1> HIDE DEF e, f, g, ee, ff
<1>5. InMerge(e, Len(o), f, Len(p), g, Len(q))
  BY DEF Merging, e, f, g
<1>6. InMerge(ee, Len(o) + 1, ff, Len(p) - 1, g, Len(q))
  BY <1>2, <1>4, <1>5, MergeTakes, SMTT(60)
<1>7. QED
  BY <1>2, <1>3, <1>6 DEF Merging, ee, ff, g, oo, pp

\* One round, on lists that are being merged.
LEMMA MergeRoundIs ==
    ASSUME NEW s, NEW T, NEW d \in [T -> Nat], \A x \in T : s.degree[x] = d[x],
           NEW m \in [out : Seq(T), a : Seq(T), b : Seq(T)], Merging(d, T, m.out, m.a, m.b)
    PROVE  LET v == MergeRound(s, m)
           IN  /\ v \in [out : Seq(T), a : Seq(T), b : Seq(T)]
               /\ Merging(d, T, v.out, v.a, v.b)
               /\ m.a = <<>> \/ m.b = <<>> => v = m
               /\ m.a # <<>> /\ m.b # <<>> => Len(v.a) + Len(v.b) = Len(m.a) + Len(m.b) - 1
<1>1. m.out \in Seq(T) /\ m.a \in Seq(T) /\ m.b \in Seq(T)
  OBVIOUS
<1>2. CASE m.a = <<>> \/ m.b = <<>>
  BY <1>2 DEF MergeRound
<1>3. CASE m.a # <<>> /\ m.b # <<>>
  <2>1. /\ Head(m.a) = m.a[1] /\ Head(m.b) = m.b[1] /\ m.a[1] \in T /\ m.b[1] \in T
        /\ Len(Tail(m.a)) = Len(m.a) - 1 /\ Len(Tail(m.b)) = Len(m.b) - 1
        /\ Append(m.out, Head(m.a)) \in Seq(T) /\ Append(m.out, Head(m.b)) \in Seq(T)
        /\ Tail(m.a) \in Seq(T) /\ Tail(m.b) \in Seq(T)
        /\ Len(m.a) \in Nat \ {0} /\ Len(m.b) \in Nat \ {0}
    BY <1>1, <1>3, HeadMoves
  <2>2. d[m.a[1]] \in Nat /\ d[m.b[1]] \in Nat
    BY <2>1
  <2>3. CASE s.degree[Head(m.a)] < s.degree[Head(m.b)]
    <3>1. MergeRound(s, m) = [out |-> Append(m.out, Head(m.a)), a |-> Tail(m.a), b |-> m.b]
      BY <1>3, <2>3 DEF MergeRound
    <3>2. d[m.a[1]] <= d[m.b[1]]
      BY <2>1, <2>2, <2>3
    <3>3. Merging(d, T, Append(m.out, Head(m.a)), Tail(m.a), m.b)
      BY <1>3, <3>2, MergingTakes
    <3>4. Len(Tail(m.a)) + Len(m.b) = Len(m.a) + Len(m.b) - 1
      BY <2>1
    <3>5. QED
      BY <1>1, <1>3, <2>1, <3>1, <3>3, <3>4
  <2>4. CASE ~(s.degree[Head(m.a)] < s.degree[Head(m.b)])
    <3>1. MergeRound(s, m) = [out |-> Append(m.out, Head(m.b)), a |-> m.a, b |-> Tail(m.b)]
      BY <1>3, <2>4 DEF MergeRound
    <3>2. d[m.b[1]] <= d[m.a[1]]
      BY <2>1, <2>2, <2>4
    <3>3. Merging(d, T, m.out, m.b, m.a)
      BY MergeSwap, PartsSwap DEF Merging
    <3>4. Merging(d, T, Append(m.out, Head(m.b)), Tail(m.b), m.a)
      BY <1>3, <3>2, <3>3, MergingTakes
    <3>5. Merging(d, T, Append(m.out, Head(m.b)), m.a, Tail(m.b))
      BY <3>4, MergeSwap, PartsSwap DEF Merging
    <3>6. Len(m.a) + Len(Tail(m.b)) = Len(m.a) + Len(m.b) - 1
      BY <2>1
    <3>7. QED
      BY <1>1, <1>3, <2>1, <3>1, <3>5, <3>6
  <2>5. QED
    BY <2>3, <2>4
<1>4. QED
  BY <1>2, <1>3

Merged(s, x, n) == Rounds(LAMBDA y : MergeRound(s, y), x, n)

MergeRun(c, s, S, x) ==
    /\ c[0] = x /\ \A i \in Nat : c[i] \in S /\ c[i + 1] = MergeRound(s, c[i])
    /\ \A n \in Nat : Merged(s, x, n) = c[n]

LEMMA MergeRounds ==
    ASSUME NEW s, NEW S, NEW x \in S, \A y \in S : MergeRound(s, y) \in S
    PROVE  \E c : MergeRun(c, s, S, x)
<1> DEFINE g == [y \in S |-> MergeRound(s, y)]
           Run(r) == r = [i \in Nat |-> IF i = 0 THEN x ELSE MergeRound(s, r[i - 1])]
           c == CHOOSE r : Run(r)
<1>1. g \in [S -> S]
  OBVIOUS
<1> HIDE DEF g
<1>2. \E r \in [Nat -> S] : r = [i \in Nat |-> IF i = 0 THEN x ELSE g[r[i - 1]]]
  BY <1>1, RoundsStay
<1>3. PICK r \in [Nat -> S] : r = [i \in Nat |-> IF i = 0 THEN x ELSE g[r[i - 1]]]
  BY <1>2
<1>4. \A i \in Nat : i # 0 => g[r[i - 1]] = MergeRound(s, r[i - 1])
  BY DEF g
<1>5. Run(r)
  BY <1>3, <1>4
<1>6. Run(c)
  BY <1>5
<1>7. \A n \in Nat : Merged(s, x, n) = c[n]
  BY DEF Merged, Rounds
<1> HIDE DEF c
<1>8. c[0] = x /\ \A i \in Nat : c[i + 1] = MergeRound(s, c[i])
  BY <1>6
<1> DEFINE U == {i \in Nat : c[i] \in S}
<1>9. 0 \in U
  BY <1>8
<1>10. ASSUME NEW i \in Nat, i \in U PROVE i + 1 \in U
  BY <1>8, <1>10
<1> HIDE DEF U
<1>11. Nat \subseteq U
  BY <1>9, <1>10, SetInduction
<1>12. MergeRun(c, s, S, x)
  BY <1>7, <1>8, <1>11 DEF U, MergeRun
<1>13. QED
  BY <1>12

\* The rest after what has been merged.
LEMMA MergedWhole ==
    ASSUME NEW T, T # {}, NEW d \in [T -> Nat], NEW o, NEW r, Merging(d, T, o, r, <<>>)
    PROVE  LET w == o \o r
           IN  /\ w \in Seq(T) /\ Distinct(w) /\ \A x \in T : Has(w, x)
               /\ InUnion(Degrees(d, w), Len(w), 1)
<1> DEFINE w == o \o r
<1>1. o \in Seq(T) /\ r \in Seq(T) /\ Len(o) \in Nat /\ Len(r) \in Nat
  BY DEF Merging, Parts
<1>2. /\ w \in Seq(T) /\ Len(w) = Len(o) + Len(r)
      /\ \A k \in 1 .. Len(o) : w[k] = o[k]
      /\ \A k \in 1 .. Len(r) : w[Len(o) + k] = r[k]
  BY <1>1, ConcatIs
<1> HIDE DEF w
<1>3. Distinct(o) /\ Distinct(r) /\ Apart(o, r) /\ \A x \in T : Has(o, x) \/ Has(r, x)
  BY DEF Merging, Parts, Has
<1>4. \A k \in 1 .. Len(w) : IF k <= Len(o) THEN k \in 1 .. Len(o) /\ w[k] = o[k]
                             ELSE k - Len(o) \in 1 .. Len(r) /\ w[k] = r[k - Len(o)]
  <2>1. SUFFICES ASSUME NEW k \in 1 .. Len(w), ~(k <= Len(o))
                 PROVE  k - Len(o) \in 1 .. Len(r) /\ w[k] = r[k - Len(o)]
    BY <1>1, <1>2, SMTT(60)
  <2>2. k - Len(o) \in 1 .. Len(r) /\ Len(o) + (k - Len(o)) = k
    BY <1>1, <1>2, <2>1
  <2>3. QED
    BY <1>2, <2>2
<1>5. Distinct(w)
  <2>1. SUFFICES ASSUME NEW i \in 1 .. Len(w), NEW j \in 1 .. Len(w), w[i] = w[j] PROVE i = j
    BY DEF Distinct
  <2>2. CASE i <= Len(o) /\ j <= Len(o)
    BY <1>3, <1>4, <2>1, <2>2 DEF Distinct
  <2>3. CASE ~(i <= Len(o)) /\ ~(j <= Len(o))
    <3>1. i - Len(o) = j - Len(o)
      BY <1>3, <1>4, <2>1, <2>3 DEF Distinct
    <3>2. QED
      BY <1>1, <1>2, <3>1
  <2>4. CASE (i <= Len(o)) # (j <= Len(o))
    BY <1>3, <1>4, <2>1, <2>4 DEF Apart
  <2>5. QED
    BY <2>2, <2>3, <2>4
<1>6. ASSUME NEW x \in T PROVE Has(w, x)
  <2>1. CASE Has(o, x)
    <3>1. PICK i \in 1 .. Len(o) : o[i] = x
      BY <2>1 DEF Has
    <3>2. i \in 1 .. Len(w) /\ w[i] = x
      BY <1>1, <1>2, <3>1
    <3>3. QED
      BY <3>2 DEF Has
  <2>2. CASE Has(r, x)
    <3>1. PICK i \in 1 .. Len(r) : r[i] = x
      BY <2>2 DEF Has
    <3>2. Len(o) + i \in 1 .. Len(w) /\ w[Len(o) + i] = x
      BY <1>1, <1>2, <3>1, SMTT(60)
    <3>3. QED
      BY <3>2 DEF Has
  <2>3. QED
    BY <1>3, <2>1, <2>2
<1>7. Len(o) + Len(r) > 0
  <2>1. PICK x \in T : Has(w, x)
    BY <1>6
  <2>2. QED
    BY <1>1, <1>2, <2>1 DEF Has
<1>8. InUnion(Degrees(d, w), Len(o) + Len(r), 1)
  <2> DEFINE e == Degrees(d, o)  f == Degrees(d, r)  g == Degrees(d, <<>>)  v == Degrees(d, w)
  <2>1. InMerge(e, Len(o), f, Len(r), g, Len(<<>>))
    BY DEF Merging
  <2>2. /\ \A i \in 1 .. Len(o) : v[i] = e[i]
        /\ \A i \in 1 .. Len(r) : v[Len(o) + i] = f[i]
    BY <1>1, <1>2, SMTT(60) DEF Degrees
  <2> HIDE DEF e, f, g, v
  <2>3. InUnion(v, Len(o) + Len(r), 1)
    BY <1>7, <2>1, <2>2, MergeEnds
  <2>4. QED
    BY <2>3 DEF v
<1>9. QED
  BY <1>2, <1>5, <1>6, <1>8 DEF w

\* The merged list: every root of the two, the degrees as __heap_union needs them.
LEMMA MergeIs ==
    ASSUME NEW s, NEW T, NEW d \in [T -> Nat], \A x \in T : s.degree[x] = d[x],
           NEW a, NEW b, Merging(d, T, <<>>, a, b), a # <<>>
    PROVE  LET w == Merge(s, a, b)
           IN  /\ w \in Seq(T) /\ Distinct(w) /\ \A x \in T : Has(w, x)
               /\ InUnion(Degrees(d, w), Len(w), 1)
<1> DEFINE S  == {m \in [out : Seq(T), a : Seq(T), b : Seq(T)] : Merging(d, T, m.out, m.a, m.b)}
           x0 == [out |-> <<>>, a |-> a, b |-> b]
           N  == Len(a) + Len(b)
<1>1. a \in Seq(T) /\ b \in Seq(T) /\ <<>> \in Seq(T)
  BY DEF Merging, Parts
<1>2. x0 \in S /\ N \in Nat
  BY <1>1
<1>3. \A m \in S :
        /\ m.a \in Seq(T) /\ m.b \in Seq(T) /\ m.out \in Seq(T)
        /\ MergeRound(s, m) \in S
        /\ m.a = <<>> \/ m.b = <<>> => MergeRound(s, m) = m
        /\ m.a # <<>> /\ m.b # <<>> =>
             Len(MergeRound(s, m).a) + Len(MergeRound(s, m).b) = Len(m.a) + Len(m.b) - 1
  <2>1. SUFFICES ASSUME NEW m \in S
                 PROVE  /\ m.a \in Seq(T) /\ m.b \in Seq(T) /\ m.out \in Seq(T)
                        /\ MergeRound(s, m) \in S
                        /\ m.a = <<>> \/ m.b = <<>> => MergeRound(s, m) = m
                        /\ m.a # <<>> /\ m.b # <<>> =>
                             Len(MergeRound(s, m).a) + Len(MergeRound(s, m).b)
                               = Len(m.a) + Len(m.b) - 1
    OBVIOUS
  <2>2. m \in [out : Seq(T), a : Seq(T), b : Seq(T)] /\ Merging(d, T, m.out, m.a, m.b)
    OBVIOUS
  <2> HIDE DEF N, x0
  <2>3. m.a \in Seq(T) /\ m.b \in Seq(T) /\ m.out \in Seq(T)
    BY <2>2
  <2> DEFINE v == MergeRound(s, m)
  <2>4. /\ v \in [out : Seq(T), a : Seq(T), b : Seq(T)]
        /\ Merging(d, T, v.out, v.a, v.b)
        /\ m.a = <<>> \/ m.b = <<>> => v = m
        /\ m.a # <<>> /\ m.b # <<>> => Len(v.a) + Len(v.b) = Len(m.a) + Len(m.b) - 1
    BY <2>2, MergeRoundIs
  <2> HIDE DEF v
  <2>5. v \in S
    BY <2>4
  <2> HIDE DEF S
  <2>6. QED
    BY <2>3, <2>4, <2>5 DEF v
<1> HIDE DEF S, x0, N
<1>4. \A m \in S : MergeRound(s, m) \in S
  BY <1>3
<1>b. PICK c : MergeRun(c, s, S, x0)
  BY <1>2, <1>4, MergeRounds
<1>5. /\ c[0] = x0 /\ \A i \in Nat : c[i] \in S /\ c[i + 1] = MergeRound(s, c[i])
      /\ \A n \in Nat : Merged(s, x0, n) = c[n]
  BY <1>b DEF MergeRun
<1> DEFINE left == [i \in Nat |-> IF c[i].a = <<>> \/ c[i].b = <<>> THEN 0
                                  ELSE Len(c[i].a) + Len(c[i].b)]
<1>a. \A i \in Nat : left[i] = IF c[i].a = <<>> \/ c[i].b = <<>> THEN 0
                              ELSE Len(c[i].a) + Len(c[i].b)
  OBVIOUS
<1> HIDE DEF left
<1>6. ASSUME NEW i \in Nat
      PROVE  /\ left[i] \in Nat
             /\ left[i + 1] < left[i] \/ (left[i] = 0 /\ left[i + 1] = 0)
  <2>1. /\ c[i] \in S /\ c[i + 1] = MergeRound(s, c[i]) /\ c[i + 1] \in S /\ i + 1 \in Nat
    BY <1>5, SMTT(60)
  <2> DEFINE la == Len(c[i].a)      lb == Len(c[i].b)
             ma == Len(c[i + 1].a)  mb == Len(c[i + 1].b)
  <2>2. la \in Nat /\ lb \in Nat /\ ma \in Nat /\ mb \in Nat
    BY <1>3, <2>1
  <2>3. CASE c[i].a = <<>> \/ c[i].b = <<>>
    <3>1. c[i + 1] = c[i]
      BY <1>3, <2>1, <2>3
    <3>2. left[i] = 0 /\ left[i + 1] = 0
      BY <1>a, <2>1, <2>3, <3>1
    <3>3. QED
      BY <3>2
  <2>4. CASE c[i].a # <<>> /\ c[i].b # <<>>
    <3>1. ma + mb = la + lb - 1
      BY <1>3, <2>1, <2>4
    <3>2. left[i] = la + lb /\ left[i + 1] \in {0, ma + mb}
      BY <1>a, <2>1, <2>4
    <3>3. la > 0
      BY <1>3, <2>1, <2>4
    <3> HIDE DEF la, lb, ma, mb
    <3>4. QED
      BY <2>2, <3>1, <3>2, <3>3
  <2>5. QED
    BY <2>3, <2>4
<1>7. left[0] <= N
  <2>1. c[0].a = a /\ c[0].b = b
    BY <1>5 DEF x0
  <2>2. Len(a) \in Nat /\ Len(b) \in Nat
    BY <1>1
  <2>3. left[0] = IF a = <<>> \/ b = <<>> THEN 0 ELSE Len(a) + Len(b)
    BY <1>a, <2>1, 0 \in Nat, Zenon
  <2>4. QED
    BY <2>2, <2>3 DEF N
<1>8. left[N] = 0
  BY <1>2, <1>6, <1>7, RoundsEnd
<1> DEFINE z == c[N]
           o == z.out
           w == o \o z.a \o z.b
<1>9. Merge(s, a, b) = w
  BY <1>2, <1>5 DEF Merge, Merged, N, x0
<1>10. /\ z.a \in Seq(T) /\ z.b \in Seq(T) /\ o \in Seq(T) /\ Merging(d, T, o, z.a, z.b)
  BY <1>2, <1>3, <1>5 DEF S
<1>11. z.a = <<>> \/ z.b = <<>>
  <2>1. SUFFICES ASSUME z.a # <<>>, z.b # <<>> PROVE FALSE
    OBVIOUS
  <2>2. left[N] = Len(z.a) + Len(z.b)
    BY <1>2, <1>a, <2>1, Zenon
  <2> HIDE DEF z, o
  <2>3. Len(z.a) \in Nat \ {0} /\ Len(z.b) \in Nat
    BY <1>10, <2>1
  <2> DEFINE la == Len(z.a)   lb == Len(z.b)
  <2>4. la \in Nat \ {0} /\ lb \in Nat /\ la + lb = 0
    BY <1>8, <2>2, <2>3, Zenon
  <2> HIDE DEF la, lb
  <2>5. QED
    BY <2>4
<1> HIDE DEF z, o, w
<1>12. PICK r : w = o \o r /\ Merging(d, T, o, r, <<>>)
  <2>1. CASE z.b = <<>>
    <3>1. o \o z.a \in Seq(T)
      BY <1>10
    <3>2. w = o \o z.a
      BY <2>1, <3>1 DEF w
    <3>3. QED
      BY <1>10, <2>1, <3>2
  <2>2. CASE z.a = <<>>
    <3>1. w = o \o z.b
      BY <1>10, <2>2 DEF w
    <3>2. Merging(d, T, o, z.b, <<>>)
      BY <1>10, <2>2, MergeSwap, PartsSwap DEF Merging
    <3>3. QED
      BY <1>10, <3>1, <3>2
  <2>3. QED
    BY <1>11, <2>1, <2>2
<1>13. T # {}
  BY <1>1
<1>14. w \in Seq(T) /\ Distinct(w) /\ (\A x \in T : Has(w, x)) /\ InUnion(Degrees(d, w), Len(w), 1)
  BY <1>12, <1>13, MergedWhole
<1>15. QED
  BY <1>9, <1>14

-----------------------------------------------------------------------------
(* Trees.  In a store s, t says in which heap's trees a node is.           *)
NoHeap == CHOOSE x : x \notin Heaps

Stores ==
    [roots : [Heaps -> Seq(Nodes)], min : [Heaps -> Nodes \cup {NULL}],
     child : [Nodes -> Seq(Nodes)], parent : [Nodes -> Nodes \cup {NULL}],
     degree : [Nodes -> Nat], value : [Nodes -> Nodes], ref : [Nodes -> Nodes]]

Places == [Nodes -> Heaps \cup {NoHeap}]

Family(s, t, p) ==
    /\ Len(s.child[p]) = s.degree[p]
    /\ \A k \in 1 .. s.degree[p] :
         /\ s.child[p][k] \in Nodes /\ s.parent[s.child[p][k]] = p
         /\ t[s.child[p][k]] = t[p] /\ s.degree[s.child[p][k]] = s.degree[p] - k

Fathered(s, t, n) ==
    /\ t[n] # NoHeap /\ s.parent[n] \in Nodes /\ t[s.parent[n]] = t[n]
    /\ \E k \in 1 .. s.degree[s.parent[n]] : s.child[s.parent[n]][k] = n

Trees(s, t) ==
    /\ s \in Stores /\ t \in Places
    /\ \A p \in Nodes : t[p] # NoHeap => Family(s, t, p)
    /\ \A n \in Nodes : s.parent[n] # NULL => Fathered(s, t, n)

\* The roots of the trees of heap h are the members of q.
IsTop(s, t, h, n) == t[n] = h /\ s.parent[n] = NULL

Tops(s, t, h, q) ==
    q \in Seq(Nodes) /\ Distinct(q) /\ \A n \in Nodes : Has(q, n) <=> IsTop(s, t, h, n)

Rooted(s, t, h, q) == Tops(s, t, h, q) /\ Growing(Degrees(s.degree, q), Len(q))

\* The item in n is not before that of the parent.
Behind(s, pr, n) == pr[s.value[s.parent[n]]] <= pr[s.value[n]]

Ordered(s, pr) == \A n \in Nodes : s.parent[n] # NULL => Behind(s, pr, n)

\* What becomes of s, in v, when only the trees of h change.
Frame(s, t, h, v) ==
    /\ v.min = s.min /\ v.value = s.value /\ v.ref = s.ref
    /\ \A n \in Nodes : t[n] # h =>
         v.parent[n] = s.parent[n] /\ v.degree[n] = s.degree[n] /\ v.child[n] = s.child[n]

LEMMA StoreFields ==
    ASSUME NEW s \in Stores
    PROVE  /\ s.roots \in [Heaps -> Seq(Nodes)] /\ s.min \in [Heaps -> Nodes \cup {NULL}]
           /\ s.child \in [Nodes -> Seq(Nodes)] /\ s.parent \in [Nodes -> Nodes \cup {NULL}]
           /\ s.degree \in [Nodes -> Nat] /\ s.value \in [Nodes -> Nodes]
           /\ s.ref \in [Nodes -> Nodes]
  BY DEF Stores

Linked(s, r, c, v) ==
    /\ v \in Stores /\ v.roots = s.roots /\ v.min = s.min /\ v.value = s.value /\ v.ref = s.ref
    /\ v.parent = [s.parent EXCEPT ![c] = r]
    /\ v.child = [s.child EXCEPT ![r] = <<c>> \o s.child[r]]
    /\ v.degree = [s.degree EXCEPT ![r] = s.degree[r] + 1]

LEMMA LinkIs ==
    ASSUME NEW s \in Stores, NEW r \in Nodes, NEW c \in Nodes
    PROVE  Linked(s, r, c, Link(s, r, c))
<1>1. /\ s.roots \in [Heaps -> Seq(Nodes)] /\ s.min \in [Heaps -> Nodes \cup {NULL}]
      /\ s.child \in [Nodes -> Seq(Nodes)] /\ s.parent \in [Nodes -> Nodes \cup {NULL}]
      /\ s.degree \in [Nodes -> Nat] /\ s.value \in [Nodes -> Nodes]
      /\ s.ref \in [Nodes -> Nodes]
  BY StoreFields
<1>2. <<c>> \o s.child[r] \in Seq(Nodes)
  BY <1>1, ConsIs
<1> DEFINE pa == [s.parent EXCEPT ![c] = r]
           ch == [s.child EXCEPT ![r] = <<c>> \o @]
           de == [s.degree EXCEPT ![r] = @ + 1]
<1>3. /\ pa \in [Nodes -> Nodes \cup {NULL}] /\ ch \in [Nodes -> Seq(Nodes)]
      /\ de \in [Nodes -> Nat]
  BY <1>1, <1>2
<1>4. Link(s, r, c) = [s EXCEPT !.parent = pa, !.child = ch, !.degree = de]
  BY DEF Link
<1> HIDE DEF pa, ch, de
<1>5. QED
  BY <1>1, <1>3, <1>4 DEF Linked, Stores, pa, ch, de

\* A root becomes the first child of another one of its degree.
LEMMA LinkKeeps ==
    ASSUME NEW s, NEW t, Trees(s, t), NEW h \in Heaps, NEW r \in Nodes, NEW c \in Nodes, r # c,
           IsTop(s, t, h, r), IsTop(s, t, h, c), s.degree[r] = s.degree[c]
    PROVE  LET v == Link(s, r, c)
           IN  /\ Trees(v, t) /\ Frame(s, t, h, v) /\ v.roots = s.roots
               /\ \A n \in Nodes : IsTop(v, t, h, n) <=> IsTop(s, t, h, n) /\ n # c
<1> DEFINE v == Link(s, r, c)
<1>1. /\ s.child \in [Nodes -> Seq(Nodes)] /\ s.parent \in [Nodes -> Nodes \cup {NULL}]
      /\ s.degree \in [Nodes -> Nat] /\ s \in Stores /\ t \in Places
  BY StoreFields DEF Trees
<1>a. Linked(s, r, c, v)
  BY <1>1, LinkIs
<1> HIDE DEF v
<1>2. /\ v \in Stores /\ v.roots = s.roots /\ v.min = s.min
      /\ v.value = s.value /\ v.ref = s.ref
      /\ v.parent = [s.parent EXCEPT ![c] = r]
      /\ v.child = [s.child EXCEPT ![r] = <<c>> \o s.child[r]]
      /\ v.degree = [s.degree EXCEPT ![r] = s.degree[r] + 1]
  BY <1>a DEF Linked
<1>3. /\ \A n \in Nodes : v.parent[n] = IF n = c THEN r ELSE s.parent[n]
      /\ \A n \in Nodes : v.degree[n] = IF n = r THEN s.degree[r] + 1 ELSE s.degree[n]
      /\ \A n \in Nodes : n # r => v.child[n] = s.child[n]
      /\ v.child[r] = <<c>> \o s.child[r]
  BY <1>1, <1>2
<1>4. /\ Len(v.child[r]) = Len(s.child[r]) + 1 /\ v.child[r][1] = c
      /\ \A k \in 1 .. Len(s.child[r]) : v.child[r][k + 1] = s.child[r][k]
  BY <1>1, <1>3, ConsIs
<1>5. /\ t[r] = h /\ t[c] = h /\ s.parent[r] = NULL /\ s.parent[c] = NULL /\ h # NoHeap
      /\ r # NULL /\ c # NULL
  BY HeapAssumption, NoSetContainsEverything DEF IsTop, NoHeap
<1>6. ASSUME NEW p \in Nodes, t[p] # NoHeap PROVE Family(v, t, p)
  <2>1. Family(s, t, p) /\ p # NULL
    BY <1>6, HeapAssumption DEF Trees
  <2>2. ASSUME NEW k \in 1 .. s.degree[p]
        PROVE  LET n == s.child[p][k]
               IN  /\ n \in Nodes /\ v.parent[n] = p /\ t[n] = t[p]
                   /\ v.degree[n] = s.degree[p] - k
    <3>1. s.child[p][k] \in Nodes /\ s.child[p][k] # c /\ s.child[p][k] # r
      BY <1>5, <2>1, <2>2 DEF Family
    <3>2. QED
      BY <1>3, <2>1, <2>2, <3>1 DEF Family
  <2>3. CASE p # r
    BY <1>3, <2>1, <2>2, <2>3 DEF Family
  <2>4. CASE p = r
    <3>1. s.degree[r] \in Nat /\ Len(s.child[r]) = s.degree[r]
      BY <1>1, <2>1, <2>4 DEF Family
    <3>2. v.degree[r] = s.degree[r] + 1 /\ Len(v.child[r]) = v.degree[r]
      BY <1>3, <1>4, <3>1
    <3>3. ASSUME NEW k \in 1 .. v.degree[r]
          PROVE  LET n == v.child[r][k]
                 IN  /\ n \in Nodes /\ v.parent[n] = r /\ t[n] = t[r]
                     /\ v.degree[n] = v.degree[r] - k
      <4>1. CASE k = 1
        BY <1>3, <1>4, <1>5, <3>1, <3>2, <4>1
      <4>2. CASE k # 1
        <5>1. k - 1 \in 1 .. s.degree[r] /\ (k - 1) + 1 = k
              /\ v.degree[r] - k = s.degree[r] - (k - 1)
          BY <3>1, <3>2, <4>2
        <5>2. v.child[r][k] = s.child[r][k - 1]
          BY <1>4, <3>1, <5>1
        <5>3. QED
          BY <2>2, <2>4, <5>1, <5>2
      <4>3. QED
        BY <4>1, <4>2
    <3>4. QED
      BY <2>4, <3>2, <3>3 DEF Family
  <2>5. QED
    BY <2>3, <2>4
<1>7. ASSUME NEW n \in Nodes, v.parent[n] # NULL PROVE Fathered(v, t, n)
  <2>1. CASE n = c
    <3>1. 1 \in 1 .. v.degree[r]
      BY <1>1, <1>3
    <3>2. QED
      BY <1>3, <1>4, <1>5, <2>1, <3>1 DEF Fathered
  <2>2. CASE n # c
    <3>1. Fathered(s, t, n) /\ v.parent[n] = s.parent[n]
      BY <1>3, <1>7, <2>2 DEF Trees
    <3>2. PICK k \in 1 .. s.degree[s.parent[n]] : s.child[s.parent[n]][k] = n
      BY <3>1 DEF Fathered
    <3>3. CASE s.parent[n] # r
      BY <1>3, <3>1, <3>2, <3>3 DEF Fathered
    <3>4. CASE s.parent[n] = r
      <4>1. Family(s, t, r) /\ s.degree[r] \in Nat
        BY <1>1, <1>5 DEF Trees
      <4>2. k + 1 \in 1 .. v.degree[r] /\ v.child[r][k + 1] = n
        BY <1>3, <1>4, <3>2, <3>4, <4>1 DEF Family
      <4>3. QED
        BY <3>1, <3>4, <4>2 DEF Fathered
    <3>5. QED
      BY <3>3, <3>4
  <2>3. QED
    BY <2>1, <2>2
<1>8. Trees(v, t)
  BY <1>1, <1>2, <1>6, <1>7 DEF Trees
<1>9. Frame(s, t, h, v)
  BY <1>2, <1>3, <1>5 DEF Frame
<1>10. \A n \in Nodes : IsTop(v, t, h, n) <=> IsTop(s, t, h, n) /\ n # c
  BY <1>3, <1>5 DEF IsTop
<1>11. QED
  BY <1>2, <1>8, <1>9, <1>10 DEF v

LEMMA LinkOrders ==
    ASSUME NEW s, NEW t, Trees(s, t), NEW h \in Heaps, NEW r \in Nodes, NEW c \in Nodes, r # c,
           IsTop(s, t, h, r), IsTop(s, t, h, c), NEW pr, Ordered(s, pr),
           pr[s.value[r]] <= pr[s.value[c]]
    PROVE  Ordered(Link(s, r, c), pr)
<1> DEFINE v == Link(s, r, c)
<1>1. /\ s.parent \in [Nodes -> Nodes \cup {NULL}] /\ s \in Stores
  BY StoreFields DEF Trees
<1>2. Linked(s, r, c, v)
  BY <1>1, LinkIs
<1> HIDE DEF v
<1>3. v.value = s.value /\ \A n \in Nodes : v.parent[n] = IF n = c THEN r ELSE s.parent[n]
  BY <1>1, <1>2 DEF Linked
<1>4. Ordered(v, pr)
  BY <1>3 DEF Ordered, Behind
<1>5. QED
  BY <1>4 DEF v

\* Of the roots at k and k + 1, the one at r takes the one at x as a child.
Joined(s, t, h, q, k, v, p) ==
    /\ Trees(v, t) /\ Frame(s, t, h, v) /\ v.roots = s.roots
    /\ Tops(v, t, h, p) /\ InUnion(Degrees(v.degree, p), Len(p), k)
    /\ Len(p) = Len(q) - 1

LEMMA JoinKeeps ==
    ASSUME NEW s, NEW t, Trees(s, t), NEW h \in Heaps, NEW q, Tops(s, t, h, q), NEW k,
           InUnion(Degrees(s.degree, q), Len(q), k), k < Len(q), ~Advances(s, q, k),
           NEW r \in {k, k + 1}, NEW x \in {k, k + 1}, r # x
    PROVE  Joined(s, t, h, q, k, Link(s, q[r], q[x]), RemoveAt(q, x))
<1> DEFINE v == Link(s, q[r], q[x])
           p == RemoveAt(q, x)
           n == Len(q)
           e == Degrees(s.degree, q)
           f == Degrees(v.degree, p)
<1>1. /\ q \in Seq(Nodes) /\ Distinct(q) /\ n \in Nat
      /\ \A m \in Nodes : Has(q, m) <=> IsTop(s, t, h, m)
  BY DEF Tops
<1>2. k \in 1 .. n - 1 /\ k + 1 \in 1 .. n /\ r \in 1 .. n /\ x \in 1 .. n
  BY <1>1 DEF InUnion
<1>3. /\ p \in Seq(Nodes) /\ Len(p) = n - 1
      /\ \A i \in 1 .. n - 1 : p[i] = IF i < x THEN q[i] ELSE q[i + 1]
  BY <1>1, <1>2, RemoveAtIs
<1>4. q[r] \in Nodes /\ q[x] \in Nodes /\ q[r] # q[x]
  <2>1. q[r] \in Nodes /\ q[x] \in Nodes
    BY <1>1, <1>2
  <2>2. QED
    BY <1>1, <1>2, <2>1 DEF Distinct
<1>5. IsTop(s, t, h, q[r]) /\ IsTop(s, t, h, q[x])
  BY <1>1, <1>2, <1>4 DEF Has
<1>6. \A i \in 1 .. n : e[i] = s.degree[q[i]]
  BY DEF Degrees
<1>7. e[k] = e[k + 1] /\ ~(k + 2 <= n /\ e[k + 2] = e[k]) /\ e[r] = e[k]
      /\ s.degree[q[r]] = s.degree[q[x]] /\ e[k] \in Nat
  <2>1. s.degree[q[k]] = s.degree[q[k + 1]]
        /\ ~(k + 2 <= n /\ s.degree[q[k + 2]] = s.degree[q[k]])
    BY DEF Advances
  <2>2. e[k] = e[k + 1] /\ ~(k + 2 <= n /\ e[k + 2] = e[k])
    BY <1>1, <1>2, <1>6, <2>1
  <2>3. e[k] \in Nat
    BY <1>1, <1>2 DEF InUnion
  <2>4. s.degree[q[r]] = s.degree[q[x]] /\ e[r] = e[k]
    BY <1>2, <1>6, <2>1, <2>2
  <2>5. QED
    BY <2>2, <2>3, <2>4
<1>8. /\ Trees(v, t) /\ Frame(s, t, h, v) /\ v.roots = s.roots
      /\ \A m \in Nodes : IsTop(v, t, h, m) <=> IsTop(s, t, h, m) /\ m # q[x]
  BY <1>4, <1>5, <1>7, LinkKeeps
<1>9. \A m \in Nodes : v.degree[m] = IF m = q[r] THEN s.degree[q[r]] + 1 ELSE s.degree[m]
  <2>1. s.degree \in [Nodes -> Nat] /\ s \in Stores
    BY StoreFields DEF Trees
  <2>2. Linked(s, q[r], q[x], v)
    BY <1>4, <2>1, LinkIs
  <2>3. v.degree = [s.degree EXCEPT ![q[r]] = s.degree[q[r]] + 1]
    BY <2>2 DEF Linked
  <2>4. QED
    BY <1>4, <2>1, <2>3
<1>10. \A i \in 1 .. n - 1 : p[i] = IF i < k THEN q[i] ELSE IF i = k THEN q[r] ELSE q[i + 1]
  BY <1>2, <1>3
<1>a. \A i \in 1 .. n - 1 : f[i] = v.degree[p[i]] /\ p[i] \in Nodes
  BY <1>3 DEF Degrees
<1>b. Distinct(q) /\ \A i \in 1 .. n : q[i] \in Nodes
  BY <1>1
<1> HIDE DEF v, e, f, p, n
<1>11. \A i \in 1 .. n - 1 : f[i] = IF i < k THEN e[i] ELSE IF i = k THEN e[k] + 1 ELSE e[i + 1]
  <2>1. SUFFICES ASSUME NEW i \in 1 .. n - 1
                 PROVE  f[i] = IF i < k THEN e[i] ELSE IF i = k THEN e[k] + 1 ELSE e[i + 1]
    OBVIOUS
  <2>2. CASE i = k
    <3>1. p[i] = q[r] /\ s.degree[q[r]] = e[k]
      BY <1>2, <1>6, <1>7, <1>10, <2>2
    <3>2. QED
      BY <1>9, <1>a, <2>2, <3>1
  <2>3. CASE i < k
    <3>1. p[i] = q[i] /\ i # r /\ i \in 1 .. n
      BY <1>1, <1>2, <1>10, <2>3
    <3>2. q[i] # q[r]
      BY <1>2, <1>b, <3>1 DEF Distinct, n
    <3>3. QED
      BY <1>2, <1>6, <1>9, <1>a, <2>3, <3>1, <3>2
  <2>4. CASE i > k
    <3>1. p[i] = q[i + 1] /\ i + 1 # r /\ i + 1 \in 1 .. n
      BY <1>1, <1>2, <1>10, <2>4
    <3>2. q[i + 1] # q[r]
      BY <1>2, <1>b, <3>1 DEF Distinct, n
    <3>3. QED
      BY <1>2, <1>6, <1>9, <1>a, <2>4, <3>1, <3>2
  <2>5. QED
    BY <1>2, <2>2, <2>3, <2>4
<1>12. InUnion(f, n - 1, k)
  BY <1>1, <1>2, <1>7, <1>11, UnionLinks DEF e, n
<1>13. Distinct(p)
  <2>1. SUFFICES ASSUME NEW i \in 1 .. n - 1, NEW j \in 1 .. n - 1, p[i] = p[j] PROVE i = j
    BY <1>3 DEF Distinct
  <2> DEFINE a == IF i < x THEN i ELSE i + 1
             b == IF j < x THEN j ELSE j + 1
  <2>2. a \in 1 .. n /\ b \in 1 .. n
    BY <1>1, <1>2
  <2>3. q[a] = q[b]
    BY <1>3, <2>1
  <2>4. a = b
    BY <1>b, <2>2, <2>3 DEF Distinct, n
  <2>5. QED
    BY <1>1, <1>2, <2>4
<1>14. \A m \in Nodes : Has(p, m) <=> Has(q, m) /\ m # q[x]
  <2>1. ASSUME NEW m \in Nodes, Has(p, m) PROVE Has(q, m) /\ m # q[x]
    <3>1. PICK i \in 1 .. n - 1 : p[i] = m
      BY <1>3, <2>1 DEF Has
    <3> DEFINE a == IF i < x THEN i ELSE i + 1
    <3>2. a \in 1 .. n /\ a # x /\ q[a] = m
      BY <1>1, <1>2, <1>3, <3>1
    <3>3. QED
      BY <1>2, <1>b, <3>2 DEF Has, Distinct, n
  <2>2. ASSUME NEW m \in Nodes, Has(q, m), m # q[x] PROVE Has(p, m)
    <3>1. PICK i \in 1 .. n : q[i] = m
      BY <2>2 DEF Has, n
    <3> DEFINE a == IF i < x THEN i ELSE i - 1
    <3>2. a \in 1 .. n - 1 /\ p[a] = m
      BY <1>1, <1>2, <1>3, <2>2, <3>1
    <3>3. QED
      BY <1>3, <3>2 DEF Has
  <2>3. QED
    BY <2>1, <2>2
<1>15. Tops(v, t, h, p)
  BY <1>1, <1>3, <1>8, <1>13, <1>14 DEF Tops
<1>16. QED
  BY <1>3, <1>8, <1>12, <1>15 DEF Joined, f, n, p, v

\* The loop of __heap_union, which started in s.
Uniting(s, t, h, u) ==
    /\ Trees(u.s, t) /\ Frame(s, t, h, u.s) /\ u.s.roots = s.roots
    /\ Tops(u.s, t, h, u.q) /\ InUnion(Degrees(u.s.degree, u.q), Len(u.q), u.k)
    /\ Ordered(s, prio) => Ordered(u.s, prio)

Unions(s, t, h) ==
    {u \in [s : Stores, q : Seq(Nodes), k : Nat] : Uniting(s, t, h, u)}

LEMMA FrameAgain ==
    ASSUME NEW s, NEW t, NEW h, NEW v, NEW w, Frame(s, t, h, v), Frame(v, t, h, w)
    PROVE  Frame(s, t, h, w)
  BY DEF Frame

LEMMA UnionRoundIs ==
    ASSUME NEW s, NEW t, NEW h \in Heaps, NEW u \in Unions(s, t, h), prio \in [Nodes -> Nat]
    PROVE  LET w == UnionRound(u)
           IN  /\ w \in Unions(s, t, h)
               /\ u.k >= Len(u.q) => w = u
               /\ u.k < Len(u.q) => Len(w.q) - w.k < Len(u.q) - u.k
               /\ Len(u.q) \in Nat /\ u.k \in 1 .. Len(u.q)
<1> DEFINE w == UnionRound(u)
           n == Len(u.q)
           k == u.k
<1>1. /\ u.s \in Stores /\ u.q \in Seq(Nodes) /\ u.k \in Nat /\ n \in Nat
      /\ u = [s |-> u.s, q |-> u.q, k |-> u.k]
  BY DEF Unions
<1>2. /\ Trees(u.s, t) /\ Frame(s, t, h, u.s) /\ u.s.roots = s.roots
      /\ Tops(u.s, t, h, u.q) /\ InUnion(Degrees(u.s.degree, u.q), n, k)
      /\ Ordered(s, prio) => Ordered(u.s, prio)
  BY DEF Unions, Uniting
<1>3. k \in 1 .. n
  BY <1>2 DEF InUnion
<1>4. CASE k >= n
  <2>1. w = u
    BY <1>4 DEF UnionRound
  <2>2. QED
    BY <1>1, <1>3, <1>4, <2>1
<1>5. CASE k < n /\ Advances(u.s, u.q, k)
  <2>1. w = [u EXCEPT !.k = k + 1]
    BY <1>1, <1>3, <1>5 DEF UnionRound
  <2>2. w.s = u.s /\ w.q = u.q /\ w.k = k + 1
        /\ w \in [s : Stores, q : Seq(Nodes), k : Nat]
    BY <1>1, <2>1
  <2> DEFINE e == Degrees(u.s.degree, u.q)
  <2>3. e[k] # e[k + 1] \/ (k + 2 <= n /\ e[k + 2] = e[k])
    BY <1>3, <1>5, SMTT(60) DEF Degrees, Advances
  <2>4. InUnion(e, n, k)
    BY <1>2
  <2> HIDE DEF e
  <2>5. InUnion(e, n, k + 1)
    BY <1>1, <1>5, <2>3, <2>4, UnionAdvances
  <2>6. Uniting(s, t, h, w)
    BY <1>2, <2>2, <2>5 DEF Uniting, e
  <2>7. w \in Unions(s, t, h)
    BY <2>2, <2>6 DEF Unions
  <2>8. Len(w.q) - w.k < n - k
    BY <1>1, <2>2
  <2>9. QED
    BY <1>1, <1>3, <1>5, <2>7, <2>8
<1>6. CASE k < n /\ ~Advances(u.s, u.q, k)
  <2>1. PICK r \in {k, k + 1}, x \in {k, k + 1} :
          /\ r # x /\ w = [u EXCEPT !.s = Link(u.s, u.q[r], u.q[x]), !.q = RemoveAt(u.q, x)]
          /\ prio[u.s.value[u.q[r]]] <= prio[u.s.value[u.q[x]]]
    <3>1. u.q[k] \in Nodes /\ u.q[k + 1] \in Nodes
      BY <1>1, <1>3, <1>6
    <3>2. u.s.value[u.q[k]] \in Nodes /\ u.s.value[u.q[k + 1]] \in Nodes
      BY <1>1, <3>1, StoreFields
    <3>3. prio[u.s.value[u.q[k]]] \in Nat /\ prio[u.s.value[u.q[k + 1]]] \in Nat
      BY <3>2, SMTT(60)
    <3>4. CASE higher_prio(u.s, u.q[k], u.q[k + 1])
      <4>1. w = [u EXCEPT !.s = Link(u.s, u.q[k], u.q[k + 1]), !.q = RemoveAt(u.q, k + 1)]
        BY <1>1, <1>3, <1>6, <3>4 DEF UnionRound
      <4>2. QED
        BY <1>3, <3>3, <3>4, <4>1, SMTT(60) DEF higher_prio
    <3>5. CASE ~higher_prio(u.s, u.q[k], u.q[k + 1])
      <4>1. w = [u EXCEPT !.s = Link(u.s, u.q[k + 1], u.q[k]), !.q = RemoveAt(u.q, k)]
        BY <1>1, <1>3, <1>6, <3>5 DEF UnionRound
      <4>2. QED
        BY <1>3, <3>3, <3>5, <4>1 DEF higher_prio
    <3>6. QED
      BY <3>4, <3>5
  <2> DEFINE v == Link(u.s, u.q[r], u.q[x])
             p == RemoveAt(u.q, x)
  <2>2. Joined(u.s, t, h, u.q, k, v, p)
    BY <1>2, <1>6, <2>1, JoinKeeps
  <2>3. Ordered(u.s, prio) => Ordered(v, prio)
    <3>1. r \in 1 .. n /\ x \in 1 .. n
      BY <1>3, <1>6
    <3>2. u.q[r] \in Nodes /\ u.q[x] \in Nodes /\ u.q[r] # u.q[x]
      BY <1>1, <1>2, <2>1, <3>1 DEF Tops, Distinct
    <3>3. IsTop(u.s, t, h, u.q[r]) /\ IsTop(u.s, t, h, u.q[x])
      BY <1>2, <3>1, <3>2 DEF Tops, Has
    <3>4. QED
      BY <1>2, <2>1, <3>2, <3>3, LinkOrders
  <2> HIDE DEF v, p
  <2>4. /\ Trees(v, t) /\ Frame(u.s, t, h, v) /\ v.roots = u.s.roots
        /\ Tops(v, t, h, p) /\ InUnion(Degrees(v.degree, p), Len(p), k)
        /\ Len(p) = n - 1
    BY <2>2 DEF Joined
  <2>5. v \in Stores /\ p \in Seq(Nodes)
    BY <2>4 DEF Trees, Tops
  <2>6. w = [u EXCEPT !.s = v, !.q = p]
    BY <2>1 DEF v, p
  <2>7. /\ w.s = v /\ w.q = p /\ w.k = k
        /\ w \in [s : Stores, q : Seq(Nodes), k : Nat]
    BY <1>1, <2>5, <2>6
  <2>8. Frame(s, t, h, v)
    BY <1>2, <2>4, FrameAgain
  <2>9. Uniting(s, t, h, w)
    BY <1>2, <2>3, <2>4, <2>7, <2>8 DEF Uniting
  <2>10. w \in Unions(s, t, h)
    BY <2>7, <2>9 DEF Unions
  <2>11. Len(w.q) - w.k < n - k
    BY <1>1, <2>4, <2>7
  <2>12. QED
    BY <1>1, <1>3, <1>6, <2>10, <2>11, SMTT(60)
<1>7. QED
  BY <1>1, <1>3, <1>4, <1>5, <1>6

United(x, n) == Rounds(UnionRound, x, n)

UnionRun(c, S, x) ==
    /\ c[0] = x /\ \A i \in Nat : c[i] \in S /\ c[i + 1] = UnionRound(c[i])
    /\ \A n \in Nat : United(x, n) = c[n]

LEMMA UnionRounds ==
    ASSUME NEW S, NEW x \in S, \A y \in S : UnionRound(y) \in S
    PROVE  \E c : UnionRun(c, S, x)
<1> DEFINE g == [y \in S |-> UnionRound(y)]
           Run(r) == r = [i \in Nat |-> IF i = 0 THEN x ELSE UnionRound(r[i - 1])]
           c == CHOOSE r : Run(r)
<1>1. g \in [S -> S]
  OBVIOUS
<1> HIDE DEF g
<1>2. \E r \in [Nat -> S] : r = [i \in Nat |-> IF i = 0 THEN x ELSE g[r[i - 1]]]
  BY <1>1, RoundsStay
<1>3. PICK r \in [Nat -> S] : r = [i \in Nat |-> IF i = 0 THEN x ELSE g[r[i - 1]]]
  BY <1>2
<1>4. \A i \in Nat : i # 0 => g[r[i - 1]] = UnionRound(r[i - 1])
  BY DEF g
<1>5. Run(r)
  BY <1>3, <1>4
<1>6. Run(c)
  BY <1>5
<1>7. \A n \in Nat : United(x, n) = c[n]
  BY DEF United, Rounds
<1> HIDE DEF c
<1>8. c[0] = x /\ \A i \in Nat : c[i + 1] = UnionRound(c[i])
  BY <1>6
<1> DEFINE U == {i \in Nat : c[i] \in S}
<1>9. 0 \in U
  BY <1>8
<1>10. ASSUME NEW i \in Nat, i \in U PROVE i + 1 \in U
  BY <1>8, <1>10
<1> HIDE DEF U
<1>11. Nat \subseteq U
  BY <1>9, <1>10, SetInduction
<1>12. UnionRun(c, S, x)
  BY <1>7, <1>8, <1>11 DEF U, UnionRun
<1>13. QED
  BY <1>12

\* Nothing but the shape of the trees decides.
LEMMA SameShape ==
    ASSUME NEW s, NEW t, Trees(s, t), NEW v \in Stores,
           v.child = s.child, v.parent = s.parent, v.degree = s.degree
    PROVE  Trees(v, t)
  BY DEF Trees, Family, Fathered

RootsSet(s, h, q, v) ==
    /\ v \in Stores /\ v.roots[h] = q /\ \A g \in Heaps : g # h => v.roots[g] = s.roots[g]
    /\ v.min = s.min /\ v.child = s.child /\ v.parent = s.parent /\ v.degree = s.degree
    /\ v.value = s.value /\ v.ref = s.ref

LEMMA SetRoots ==
    ASSUME NEW s \in Stores, NEW h \in Heaps, NEW q \in Seq(Nodes)
    PROVE  RootsSet(s, h, q, [s EXCEPT !.roots[h] = q])
<1> DEFINE ro == [s.roots EXCEPT ![h] = q]
<1>1. s.roots \in [Heaps -> Seq(Nodes)]
  BY StoreFields
<1>2. ro \in [Heaps -> Seq(Nodes)] /\ ro[h] = q /\ \A g \in Heaps : g # h => ro[g] = s.roots[g]
  BY <1>1
<1>3. [s EXCEPT !.roots[h] = q] = [s EXCEPT !.roots = ro]
  OBVIOUS
<1> HIDE DEF ro
<1>4. QED
  BY <1>2, <1>3 DEF Stores, RootsSet

\* The trees of h have been changed, and its list of roots is in order.
Brought(s, t, h, v) ==
    /\ Trees(v, t) /\ Rooted(v, t, h, v.roots[h]) /\ Frame(s, t, h, v)
    /\ \A g \in Heaps : g # h => v.roots[g] = s.roots[g]
    /\ Ordered(s, prio) => Ordered(v, prio)

\* A list of roots is set, and the rest is as in w, which has come from s.
LEMMA RootsBrought ==
    ASSUME NEW s, NEW t, NEW h \in Heaps, NEW w, NEW q,
           Trees(w, t), Rooted(w, t, h, q), Frame(s, t, h, w), w.roots = s.roots,
           Ordered(s, prio) => Ordered(w, prio)
    PROVE  Brought(s, t, h, [w EXCEPT !.roots[h] = q])
<1> DEFINE v == [w EXCEPT !.roots[h] = q]
<1>1. RootsSet(w, h, q, v)
  BY SetRoots DEF Rooted, Tops, Trees
<1> HIDE DEF v
<1>2. Trees(v, t)
  BY <1>1, SameShape DEF RootsSet
<1>3. Rooted(v, t, h, q)
  BY <1>1 DEF RootsSet, Rooted, Tops, IsTop
<1>4. Frame(s, t, h, v)
  BY <1>1 DEF RootsSet, Frame
<1>5. Ordered(s, prio) => Ordered(v, prio)
  BY <1>1 DEF RootsSet, Ordered, Behind
<1>6. QED
  BY <1>1, <1>2, <1>3, <1>4, <1>5 DEF Brought, RootsSet, v

LEMMA ConsolidateIs ==
    ASSUME NEW s, NEW t, Trees(s, t), NEW h \in Heaps, prio \in [Nodes -> Nat],
           NEW q, Tops(s, t, h, q), InUnion(Degrees(s.degree, q), Len(q), 1)
    PROVE  Brought(s, t, h, Consolidate(s, h, q))
<1> DEFINE S == Unions(s, t, h)
           x == [s |-> s, q |-> q, k |-> 1]
           n == Len(q)
<1>1. s \in Stores /\ q \in Seq(Nodes) /\ n \in Nat
  BY DEF Trees, Tops
<1>2. x \in S
  <2>1. Uniting(s, t, h, x)
    BY DEF Uniting, Frame
  <2>2. QED
    BY <1>1, <2>1 DEF Unions
<1>3. \A u \in S :
        /\ UnionRound(u) \in S
        /\ u.k >= Len(u.q) => UnionRound(u) = u
        /\ u.k < Len(u.q) => Len(UnionRound(u).q) - UnionRound(u).k < Len(u.q) - u.k
        /\ Len(u.q) \in Nat /\ u.k \in 1 .. Len(u.q)
  BY UnionRoundIs
<1>a. x.k = 1 /\ Len(x.q) = n
  OBVIOUS
<1> HIDE DEF S, x, n
<1>b. PICK c : UnionRun(c, S, x)
  BY <1>2, <1>3, UnionRounds
<1>4. /\ c[0] = x /\ \A i \in Nat : c[i] \in S /\ c[i + 1] = UnionRound(c[i])
      /\ \A i \in Nat : United(x, i) = c[i]
  BY <1>b DEF UnionRun
<1> DEFINE left == [i \in Nat |-> IF c[i].k >= Len(c[i].q) THEN 0 ELSE Len(c[i].q) - c[i].k]
<1>5. \A i \in Nat : left[i] = IF c[i].k >= Len(c[i].q) THEN 0 ELSE Len(c[i].q) - c[i].k
  OBVIOUS
<1> HIDE DEF left
<1>6. ASSUME NEW i \in Nat
      PROVE  /\ left[i] \in Nat
             /\ left[i + 1] < left[i] \/ (left[i] = 0 /\ left[i + 1] = 0)
  <2> DEFINE l == Len(c[i].q)  k == c[i].k  m == Len(c[i + 1].q)  j == c[i + 1].k
  <2>1. /\ c[i] \in S /\ c[i + 1] = UnionRound(c[i]) /\ c[i + 1] \in S /\ i + 1 \in Nat
    BY <1>4
  <2>2. l \in Nat /\ k \in 1 .. l /\ m \in Nat /\ j \in 1 .. m
    BY <1>3, <2>1
  <2>3. left[i] = (IF k >= l THEN 0 ELSE l - k) /\ left[i + 1] = IF j >= m THEN 0 ELSE m - j
    BY <1>5, <2>1
  <2>4. k >= l => m = l /\ j = k
    BY <1>3, <2>1
  <2>5. k < l => m - j < l - k
    BY <1>3, <2>1
  <2> HIDE DEF l, k, m, j
  <2>6. QED
    BY <2>2, <2>3, <2>4, <2>5
<1>7. left[0] <= n
  <2>1. left[0] = IF 1 >= n THEN 0 ELSE n - 1
    BY <1>4, <1>5, <1>a
  <2>2. QED
    BY <1>1, <2>1 DEF n
<1>c. n \in Nat
  BY <1>1 DEF n
<1>8. left[n] = 0
  BY <1>c, <1>6, <1>7, RoundsEnd
<1> DEFINE u == c[n]
<1>9. u \in S /\ United(x, n) = u
  BY <1>4, <1>c
<1>10. u.k >= Len(u.q)
  <2>1. left[n] = IF u.k >= Len(u.q) THEN 0 ELSE Len(u.q) - u.k
    BY <1>5, <1>c
  <2>2. Len(u.q) \in Nat /\ u.k \in 1 .. Len(u.q)
    BY <1>3, <1>9
  <2> HIDE DEF u
  <2>3. QED
    BY <1>8, <2>1, <2>2
<1> HIDE DEF u
<1>11. Uniting(s, t, h, u) /\ Len(u.q) \in Nat
  BY <1>3, <1>9 DEF S, Unions
<1>12. Growing(Degrees(u.s.degree, u.q), Len(u.q))
  BY <1>10, <1>11, UnionEnds DEF Uniting, Growing
<1>13. Brought(s, t, h, [u.s EXCEPT !.roots[h] = u.q])
  BY <1>11, <1>12, RootsBrought DEF Uniting, Rooted
<1>14. Consolidate(s, h, q) = [u.s EXCEPT !.roots[h] = u.q]
  BY <1>9 DEF Consolidate, United, x, n
<1>15. QED
  BY <1>13, <1>14

\* The roots of the trees of h are in two lists.
Halves(s, t, h, a, b) ==
    /\ a \in Seq(Nodes) /\ b \in Seq(Nodes) /\ Distinct(a) /\ Distinct(b) /\ Apart(a, b)
    /\ \A n \in Nodes : Has(a, n) \/ Has(b, n) <=> IsTop(s, t, h, n)
    /\ Growing(Degrees(s.degree, a), Len(a)) /\ Growing(Degrees(s.degree, b), Len(b))

LEMMA SeqInto ==
    ASSUME NEW S, NEW T, NEW q \in Seq(S), \A i \in 1 .. Len(q) : q[i] \in T
    PROVE  q \in Seq(T)
  OBVIOUS

LEMMA HalvesMerge ==
    ASSUME NEW s, NEW t, Trees(s, t), NEW h \in Heaps, NEW a, NEW b, Halves(s, t, h, a, b),
           a # <<>>
    PROVE  LET w == Merge(s, a, b)
           IN  Tops(s, t, h, w) /\ InUnion(Degrees(s.degree, w), Len(w), 1)
<1> DEFINE T == {n \in Nodes : IsTop(s, t, h, n)}
           d == [n \in T |-> s.degree[n]]
           w == Merge(s, a, b)
<1>1. s.degree \in [Nodes -> Nat]
  BY StoreFields DEF Trees
<1>2. d \in [T -> Nat] /\ \A n \in T : s.degree[n] = d[n]
  BY <1>1
<1>3. a \in Seq(T) /\ b \in Seq(T)
  <2>1. /\ a \in Seq(Nodes) /\ b \in Seq(Nodes)
        /\ \A n \in Nodes : Has(a, n) \/ Has(b, n) <=> IsTop(s, t, h, n)
    BY DEF Halves
  <2>2. (\A i \in 1 .. Len(a) : a[i] \in T) /\ \A i \in 1 .. Len(b) : b[i] \in T
    <3>1. (\A i \in 1 .. Len(a) : a[i] \in Nodes) /\ \A i \in 1 .. Len(b) : b[i] \in Nodes
      BY <2>1
    <3>2. QED
      BY <2>1, <3>1 DEF Has
  <2> HIDE DEF T
  <2>3. QED
    BY <2>1, <2>2, SeqInto
<1>4. Parts(T, <<>>, a, b)
  <2>1. \A n \in T : Has(a, n) \/ Has(b, n)
    BY DEF Halves
  <2>2. <<>> \in Seq(T) /\ Distinct(<<>>) /\ Apart(<<>>, a) /\ Apart(<<>>, b)
    BY DEF Distinct, Apart
  <2> HIDE DEF T
  <2>3. QED
    BY <1>3, <2>1, <2>2 DEF Parts, Halves
<1>5. /\ \A i \in 1 .. Len(a) : a[i] \in T
      /\ \A i \in 1 .. Len(b) : b[i] \in T
      /\ Len(a) \in Nat /\ Len(b) \in Nat
  BY <1>3
<1> HIDE DEF T, d
<1>6. /\ \A i \in 1 .. Len(a) : /\ Degrees(d, a)[i] = Degrees(s.degree, a)[i]
                                 /\ Degrees(d, a)[i] \in Nat
      /\ \A i \in 1 .. Len(b) : /\ Degrees(d, b)[i] = Degrees(s.degree, b)[i]
                                 /\ Degrees(d, b)[i] \in Nat
  BY <1>2, <1>5 DEF Degrees
<1>7. InMerge(Degrees(d, <<>>), Len(<<>>), Degrees(d, a), Len(a), Degrees(d, b), Len(b))
  <2>1. Growing(Degrees(d, a), Len(a)) /\ Growing(Degrees(d, b), Len(b))
    BY <1>6 DEF Halves, Growing
  <2>2. Len(<<>>) = 0
    OBVIOUS
  <2>3. QED
    BY <1>5, <1>6, <2>1, <2>2 DEF InMerge, After
<1>8. Merging(d, T, <<>>, a, b)
  BY <1>4, <1>7 DEF Merging
<1>9. w \in Seq(T) /\ Distinct(w) /\ (\A x \in T : Has(w, x)) /\ InUnion(Degrees(d, w), Len(w), 1)
  BY <1>2, <1>8, MergeIs
<1> HIDE DEF w
<1>10. \A i \in 1 .. Len(w) : w[i] \in T
  BY <1>9
<1>11. Degrees(d, w) = Degrees(s.degree, w)
  BY <1>2, <1>10 DEF Degrees
<1>12. w \in Seq(Nodes)
  <2>1. \A i \in 1 .. Len(w) : w[i] \in Nodes
    BY <1>10 DEF T
  <2>2. QED
    BY <1>9, <2>1, SeqInto
<1>13. \A n \in Nodes : Has(w, n) <=> IsTop(s, t, h, n)
  BY <1>9, <1>10 DEF Has, T
<1>14. Tops(s, t, h, w)
  BY <1>9, <1>12, <1>13 DEF Tops
<1>15. QED
  BY <1>9, <1>11, <1>14 DEF w

LEMMA HalvesEmpty ==
    ASSUME NEW s, NEW t, NEW h, NEW a, NEW b, Halves(s, t, h, a, b), b = <<>>
    PROVE  Rooted(s, t, h, a)
<1>1. \A n : ~Has(b, n)
  BY DEF Has
<1>2. QED
  BY <1>1 DEF Halves, Rooted, Tops

LEMMA UniteIs ==
    ASSUME NEW s, NEW t, Trees(s, t), NEW h \in Heaps, prio \in [Nodes -> Nat],
           NEW b, Halves(s, t, h, s.roots[h], b)
    PROVE  Brought(s, t, h, Unite(s, h, b))
<1>1. CASE b = <<>>
  <2>1. Unite(s, h, b) = s
    BY <1>1 DEF Unite
  <2>2. Rooted(s, t, h, s.roots[h])
    BY <1>1, HalvesEmpty
  <2>3. Frame(s, t, h, s)
    BY DEF Frame
  <2>4. QED
    BY <2>1, <2>2, <2>3 DEF Brought
<1>2. CASE b # <<>> /\ s.roots[h] = <<>>
  <2>1. Unite(s, h, b) = [s EXCEPT !.roots[h] = b]
    BY <1>2 DEF Unite
  <2>2. Halves(s, t, h, b, s.roots[h])
    BY DEF Halves, Apart
  <2>3. Rooted(s, t, h, b)
    BY <1>2, <2>2, HalvesEmpty
  <2>4. Frame(s, t, h, s)
    BY DEF Frame
  <2>5. QED
    BY <2>1, <2>3, <2>4, RootsBrought
<1>3. CASE b # <<>> /\ s.roots[h] # <<>>
  <2>1. Unite(s, h, b) = Consolidate(s, h, Merge(s, s.roots[h], b))
    BY <1>3 DEF Unite
  <2>2. QED
    BY <1>3, <2>1, HalvesMerge, ConsolidateIs
<1>4. QED
  BY <1>1, <1>2, <1>3

Roots(s, t) == \A h \in Heaps : Rooted(s, t, h, s.roots[h])

Forest(s, t) == Trees(s, t) /\ Roots(s, t)

\* From s to v the trees may change, but no item moves.
Kept(s, t, v) ==
    /\ Forest(v, t) /\ v.min = s.min /\ v.value = s.value /\ v.ref = s.ref
    /\ \A m \in Nodes : t[m] = NoHeap => v.degree[m] = s.degree[m]

\* The trees of g are what they were.
SameTrees(s, t, v, u, g) ==
    \A m \in Nodes :
      /\ u[m] = g <=> t[m] = g
      /\ t[m] = g => v.parent[m] = s.parent[m] /\ v.degree[m] = s.degree[m]

LEMMA RootsStay ==
    ASSUME NEW s, NEW t, NEW v, NEW u, NEW g, SameTrees(s, t, v, u, g), NEW q, Rooted(s, t, g, q)
    PROVE  Rooted(v, u, g, q)
<1>1. Tops(s, t, g, q) /\ Growing(Degrees(s.degree, q), Len(q))
  BY DEF Rooted
<1>2. \A n \in Nodes : IsTop(v, u, g, n) <=> IsTop(s, t, g, n)
  BY DEF IsTop, SameTrees
<1>3. Tops(v, u, g, q)
  BY <1>1, <1>2 DEF Tops
<1>4. \A i \in 1 .. Len(q) : q[i] \in Nodes /\ IsTop(s, t, g, q[i])
  <2>1. \A i \in 1 .. Len(q) : q[i] \in Nodes
    BY <1>1 DEF Tops
  <2>2. QED
    BY <1>1, <2>1 DEF Tops, Has
<1>5. Degrees(v.degree, q) = Degrees(s.degree, q)
  <2>1. \A i \in 1 .. Len(q) : v.degree[q[i]] = s.degree[q[i]]
    BY <1>4 DEF IsTop, SameTrees
  <2>2. QED
    BY <2>1 DEF Degrees
<1>6. QED
  BY <1>1, <1>3, <1>5 DEF Rooted

\* __heap_union, for all the heaps.
LEMMA UniteKeeps ==
    ASSUME NEW s, NEW t, Trees(s, t), NEW h \in Heaps, prio \in [Nodes -> Nat],
           NEW b, Halves(s, t, h, s.roots[h], b),
           \A g \in Heaps : g # h => Rooted(s, t, g, s.roots[g])
    PROVE  LET v == Unite(s, h, b)
           IN  Kept(s, t, v) /\ (Ordered(s, prio) => Ordered(v, prio))
               /\ \A g \in Heaps : g # h => v.roots[g] = s.roots[g]
<1> DEFINE v == Unite(s, h, b)
<1>1. Brought(s, t, h, v)
  BY UniteIs
<1> HIDE DEF v
<1>2. /\ Trees(v, t) /\ Rooted(v, t, h, v.roots[h]) /\ Frame(s, t, h, v)
      /\ \A g \in Heaps : g # h => v.roots[g] = s.roots[g]
      /\ Ordered(s, prio) => Ordered(v, prio)
  BY <1>1 DEF Brought
<1>3. \A m \in Nodes : t[m] # h => v.parent[m] = s.parent[m] /\ v.degree[m] = s.degree[m]
  BY <1>2 DEF Frame
<1>5. Roots(v, t)
  <2>1. SUFFICES ASSUME NEW g \in Heaps, g # h PROVE Rooted(v, t, g, v.roots[g])
    BY <1>2 DEF Roots
  <2>2. SameTrees(s, t, v, t, g)
    BY <1>3, <2>1 DEF SameTrees
  <2>3. QED
    BY <1>2, <2>1, <2>2, RootsStay
<1>6. h # NoHeap
  BY NoSetContainsEverything DEF NoHeap
<1>7. Kept(s, t, v)
  BY <1>2, <1>3, <1>5, <1>6 DEF Kept, Forest, Frame
<1>8. QED
  BY <1>2, <1>7 DEF v

IsReset(s, n, d, v) ==
    /\ v \in Stores /\ v.roots = s.roots /\ v.min = s.min /\ v.value = s.value /\ v.ref = s.ref
    /\ v.parent = [s.parent EXCEPT ![n] = NULL]
    /\ v.child = [s.child EXCEPT ![n] = <<>>]
    /\ v.degree = [s.degree EXCEPT ![n] = d]

LEMMA ResetIs ==
    ASSUME NEW s \in Stores, NEW n \in Nodes
    PROVE  IsReset(s, n, 0, Reset(s, n)) /\ IsReset(s, n, NOT_IN_HEAP, Leave(s, n))
<1>1. /\ s.roots \in [Heaps -> Seq(Nodes)] /\ s.min \in [Heaps -> Nodes \cup {NULL}]
      /\ s.child \in [Nodes -> Seq(Nodes)] /\ s.parent \in [Nodes -> Nodes \cup {NULL}]
      /\ s.degree \in [Nodes -> Nat] /\ s.value \in [Nodes -> Nodes]
      /\ s.ref \in [Nodes -> Nodes]
  BY StoreFields
<1>2. <<>> \in Seq(Nodes) /\ NOT_IN_HEAP \in Nat
  BY DEF NOT_IN_HEAP
<1> DEFINE pa == [s.parent EXCEPT ![n] = NULL]
           ch == [s.child EXCEPT ![n] = <<>>]
           de == [s.degree EXCEPT ![n] = 0]
           le == [s.degree EXCEPT ![n] = NOT_IN_HEAP]
<1>3. /\ pa \in [Nodes -> Nodes \cup {NULL}] /\ ch \in [Nodes -> Seq(Nodes)]
      /\ de \in [Nodes -> Nat] /\ le \in [Nodes -> Nat]
      /\ [de EXCEPT ![n] = NOT_IN_HEAP] = le
  BY <1>1, <1>2
<1>4. Reset(s, n) = [s EXCEPT !.parent = pa, !.child = ch, !.degree = de]
  BY DEF Reset
<1>5. Leave(s, n) = [Reset(s, n) EXCEPT !.degree = [Reset(s, n).degree EXCEPT ![n] = NOT_IN_HEAP]]
  BY DEF Leave
<1> HIDE DEF pa, ch, de, le
<1>6. Reset(s, n).degree = de
  BY <1>4 DEF Stores
<1>7. Leave(s, n) = [s EXCEPT !.parent = pa, !.child = ch, !.degree = le]
  BY <1>3, <1>4, <1>5, <1>6 DEF Stores
<1>8. IsReset(s, n, 0, Reset(s, n))
  BY <1>1, <1>3, <1>4 DEF IsReset, Stores, pa, ch, de
<1>9. IsReset(s, n, NOT_IN_HEAP, Leave(s, n))
  BY <1>1, <1>3, <1>7 DEF IsReset, Stores, pa, ch, le
<1>10. QED
  BY <1>8, <1>9

\* A node of no tree may become a tree of its own.
LEMMA ResetKeeps ==
    ASSUME NEW s, NEW t, Trees(s, t), NEW n \in Nodes, t[n] = NoHeap, NEW v, NEW d,
           IsReset(s, n, d, v), NEW u \in Places, \A m \in Nodes : m # n => u[m] = t[m],
           u[n] = NoHeap \/ d = 0
    PROVE  /\ Trees(v, u) /\ \A pr : Ordered(s, pr) => Ordered(v, pr)
           /\ \A m \in Nodes : m # n =>
                v.parent[m] = s.parent[m] /\ v.degree[m] = s.degree[m] /\ v.child[m] = s.child[m]
           /\ v.parent[n] = NULL /\ v.degree[n] = d /\ s.parent[n] = NULL
<1>1. /\ s.child \in [Nodes -> Seq(Nodes)] /\ s.parent \in [Nodes -> Nodes \cup {NULL}]
      /\ s.degree \in [Nodes -> Nat] /\ s \in Stores /\ t \in Places
  BY StoreFields DEF Trees
<1>2. /\ \A m \in Nodes : m # n =>
           v.parent[m] = s.parent[m] /\ v.degree[m] = s.degree[m] /\ v.child[m] = s.child[m]
      /\ v.parent[n] = NULL /\ v.degree[n] = d /\ v.child[n] = <<>>
      /\ v.value = s.value /\ v \in Stores
  BY <1>1 DEF IsReset
<1>3. s.parent[n] = NULL
  BY DEF Trees, Fathered
<1>4. ASSUME NEW p \in Nodes, u[p] # NoHeap PROVE Family(v, u, p)
  <2>1. CASE p = n
    BY <1>2, <1>4, <2>1 DEF Family
  <2>2. CASE p # n
    <3>1. Family(s, t, p) /\ t[p] # NoHeap
      BY <1>4, <2>2 DEF Trees
    <3>2. \A k \in 1 .. s.degree[p] : s.child[p][k] # n
      BY <3>1 DEF Family
    <3>3. v.child[p] = s.child[p] /\ v.degree[p] = s.degree[p] /\ u[p] = t[p]
      BY <1>2, <2>2
    <3>4. ASSUME NEW k \in 1 .. s.degree[p], NEW c, c = s.child[p][k]
          PROVE  /\ c \in Nodes /\ v.parent[c] = p /\ u[c] = t[p]
                 /\ v.degree[c] = s.degree[p] - k
      <4>1. c \in Nodes /\ c # n
        BY <3>1, <3>2, <3>4 DEF Family
      <4>2. s.parent[c] = p /\ t[c] = t[p] /\ s.degree[c] = s.degree[p] - k
        BY <3>1, <3>4 DEF Family
      <4>3. QED
        BY <1>2, <4>1, <4>2
    <3>5. QED
      BY <3>1, <3>3, <3>4 DEF Family
  <2>3. QED
    BY <2>1, <2>2
<1>5. ASSUME NEW m \in Nodes, v.parent[m] # NULL PROVE Fathered(v, u, m)
  <2>1. m # n /\ Fathered(s, t, m) /\ v.parent[m] = s.parent[m]
    BY <1>2, <1>5 DEF Trees
  <2>2. s.parent[m] # n
    BY <2>1 DEF Fathered
  <2>3. QED
    BY <1>2, <2>1, <2>2 DEF Fathered
<1>6. Trees(v, u)
  BY <1>2, <1>4, <1>5 DEF Trees
<1>7. \A pr : Ordered(s, pr) => Ordered(v, pr)
  BY <1>2, HeapAssumption DEF Ordered, Behind
<1>8. QED
  BY <1>2, <1>3, <1>6, <1>7

\* A node of no tree becomes a tree of heap h.
LEMMA PlantKeeps ==
    ASSUME NEW s, NEW t, Forest(s, t), NEW h \in Heaps, prio \in [Nodes -> Nat],
           NEW n \in Nodes, t[n] = NoHeap
    PROVE  LET v == Unite(Reset(s, n), h, <<n>>)
           IN  Kept(s, [t EXCEPT ![n] = h], v) /\ (Ordered(s, prio) => Ordered(v, prio))
<1> DEFINE w == Reset(s, n)
           u == [t EXCEPT ![n] = h]
           a == s.roots[h]
           b == <<n>>
           v == Unite(w, h, b)
<1>1. Trees(s, t) /\ Roots(s, t) /\ s \in Stores /\ t \in Places
  BY DEF Forest, Trees
<1>2. u \in Places /\ u[n] = h /\ \A m \in Nodes : m # n => u[m] = t[m]
  BY <1>1 DEF Places
<1>3. IsReset(s, n, 0, w)
  BY <1>1, ResetIs
<1> HIDE DEF w, u, v
<1>4. /\ Trees(w, u) /\ (Ordered(s, prio) => Ordered(w, prio))
      /\ \A m \in Nodes : m # n => w.parent[m] = s.parent[m] /\ w.degree[m] = s.degree[m]
      /\ w.parent[n] = NULL /\ w.degree[n] = 0
  BY <1>1, <1>2, <1>3, ResetKeeps
<1>5. w.roots = s.roots /\ w.min = s.min /\ w.value = s.value /\ w.ref = s.ref
  BY <1>3 DEF IsReset
<1>6. h # NoHeap
  BY NoSetContainsEverything DEF NoHeap
<1>7. /\ a \in Seq(Nodes) /\ Distinct(a) /\ Growing(Degrees(s.degree, a), Len(a))
      /\ \A m \in Nodes : Has(a, m) <=> IsTop(s, t, h, m)
  BY <1>1 DEF Roots, Rooted, Tops
<1>8. b \in Seq(Nodes) /\ Len(b) = 1 /\ b[1] = n
  OBVIOUS
<1> HIDE DEF a, b
<1>9. \A i \in 1 .. Len(a) : a[i] \in Nodes /\ a[i] # n
  <2>1. \A i \in 1 .. Len(a) : a[i] \in Nodes
    BY <1>7
  <2>2. ~Has(a, n)
    BY <1>6, <1>7 DEF IsTop
  <2>3. QED
    BY <2>1, <2>2 DEF Has
<1>10. \A m \in Nodes : Has(b, m) <=> m = n
  BY <1>8 DEF Has
<1>11. \A m \in Nodes : Has(a, m) \/ Has(b, m) <=> IsTop(w, u, h, m)
  <2>1. \A m \in Nodes : IsTop(w, u, h, m) <=> IsTop(s, t, h, m) \/ m = n
    BY <1>2, <1>4, <1>6 DEF IsTop
  <2>2. QED
    BY <1>7, <1>10, <2>1
<1>12. Distinct(b) /\ Apart(a, b) /\ Growing(Degrees(w.degree, b), Len(b))
  BY <1>8, <1>9 DEF Distinct, Apart, Growing
<1>13. Degrees(w.degree, a) = Degrees(s.degree, a)
  BY <1>4, <1>9 DEF Degrees
<1>14. Halves(w, u, h, w.roots[h], b)
  BY <1>5, <1>7, <1>8, <1>11, <1>12, <1>13 DEF Halves, a
<1>15. \A g \in Heaps : g # h => Rooted(w, u, g, w.roots[g])
  <2>1. SUFFICES ASSUME NEW g \in Heaps, g # h PROVE Rooted(w, u, g, s.roots[g])
    BY <1>5
  <2>2. SameTrees(s, t, w, u, g)
    <3>1. g # NoHeap
      BY NoSetContainsEverything DEF NoHeap
    <3>2. QED
      BY <1>2, <1>4, <2>1, <3>1 DEF SameTrees
  <2>3. QED
    BY <1>1, <2>2, RootsStay DEF Roots
<1>16. Kept(w, u, v) /\ (Ordered(w, prio) => Ordered(v, prio))
  BY <1>4, <1>14, <1>15, UniteKeeps DEF v
<1>17. Kept(s, u, v)
  BY <1>2, <1>4, <1>5, <1>6, <1>16 DEF Kept
<1>18. QED
  BY <1>4, <1>16, <1>17 DEF u, v, w, b

Orphaned(s, n, v) ==
    /\ v \in Stores /\ v.roots = s.roots /\ v.min = s.min /\ v.value = s.value /\ v.ref = s.ref
    /\ v.child = s.child /\ v.degree = s.degree
    /\ \A m \in Nodes : v.parent[m] = IF Has(s.child[n], m) THEN NULL ELSE s.parent[m]

LEMMA OrphansIs ==
    ASSUME NEW s \in Stores, NEW n \in Nodes
    PROVE  Orphaned(s, n, Orphans(s, n))
<1>1. /\ s.roots \in [Heaps -> Seq(Nodes)] /\ s.min \in [Heaps -> Nodes \cup {NULL}]
      /\ s.child \in [Nodes -> Seq(Nodes)] /\ s.parent \in [Nodes -> Nodes \cup {NULL}]
      /\ s.degree \in [Nodes -> Nat] /\ s.value \in [Nodes -> Nodes]
      /\ s.ref \in [Nodes -> Nodes]
  BY StoreFields
<1> DEFINE pa == [m \in Nodes |-> IF m \in ToSet(s.child[n]) THEN NULL ELSE s.parent[m]]
<1>2. Orphans(s, n) = [s EXCEPT !.parent = pa]
  BY DEF Orphans
<1>3. \A m : m \in ToSet(s.child[n]) <=> Has(s.child[n], m)
  <2>1. s.child[n] \in Seq(Nodes)
    BY <1>1
  <2>2. QED
    BY <2>1 DEF ToSet, Has
<1>4. pa \in [Nodes -> Nodes \cup {NULL}]
      /\ \A m \in Nodes : pa[m] = IF Has(s.child[n], m) THEN NULL ELSE s.parent[m]
  BY <1>1, <1>3
<1> HIDE DEF pa
<1>5. QED
  BY <1>1, <1>2, <1>4 DEF Orphaned, Stores

\* No item is before that of its parent, except for the children of x.
OrderedBut(s, pr, x) ==
    \A n \in Nodes : s.parent[n] # NULL /\ s.parent[n] # x => Behind(s, pr, n)

\* __heap_extract_min, and the end of heap_delete: a root goes.
LEMMA OrphansKeep ==
    ASSUME NEW s, NEW t, Trees(s, t), NEW n \in Nodes, t[n] # NoHeap, s.parent[n] = NULL,
           NEW w, Orphaned(s, n, w), NEW u \in Places, u[n] = NoHeap,
           \A m \in Nodes : m # n => u[m] = t[m]
    PROVE  /\ Trees(w, u) /\ \A m \in Nodes : Has(s.child[n], m) <=> s.parent[m] = n
           /\ \A pr : OrderedBut(s, pr, n) => Ordered(w, pr)
<1>1. /\ s.child \in [Nodes -> Seq(Nodes)] /\ s.parent \in [Nodes -> Nodes \cup {NULL}]
      /\ s.degree \in [Nodes -> Nat] /\ s \in Stores /\ n # NULL
  BY StoreFields, HeapAssumption DEF Trees
<1>2. Family(s, t, n)
  BY DEF Trees
<1>3. \A m \in Nodes : Has(s.child[n], m) <=> s.parent[m] = n
  <2>1. ASSUME NEW m \in Nodes, Has(s.child[n], m) PROVE s.parent[m] = n
    BY <1>2, <2>1 DEF Has, Family
  <2>2. ASSUME NEW m \in Nodes, s.parent[m] = n PROVE Has(s.child[n], m)
    <3>1. Fathered(s, t, m)
      BY <1>1, <2>2 DEF Trees
    <3>2. QED
      BY <1>2, <2>2, <3>1 DEF Fathered, Family, Has
  <2>3. QED
    BY <2>1, <2>2
<1>4. /\ w \in Stores /\ w.child = s.child /\ w.degree = s.degree /\ w.value = s.value
      /\ \A m \in Nodes : w.parent[m] = IF s.parent[m] = n THEN NULL ELSE s.parent[m]
  BY <1>3 DEF Orphaned
<1>5. ASSUME NEW p \in Nodes, u[p] # NoHeap PROVE Family(w, u, p)
  <2>1. p # n /\ Family(s, t, p) /\ u[p] = t[p]
    BY <1>5 DEF Trees
  <2>2. ASSUME NEW k \in 1 .. s.degree[p], NEW c, c = s.child[p][k]
        PROVE  /\ c \in Nodes /\ w.parent[c] = p /\ u[c] = t[p]
               /\ w.degree[c] = s.degree[p] - k
    <3>1. c \in Nodes /\ s.parent[c] = p /\ t[c] = t[p] /\ s.degree[c] = s.degree[p] - k
      BY <2>1, <2>2 DEF Family
    <3>2. c # n
      BY <3>1, HeapAssumption
    <3>3. QED
      BY <1>4, <2>1, <3>1, <3>2
  <2>3. QED
    BY <1>4, <2>1, <2>2 DEF Family
<1>6. ASSUME NEW m \in Nodes, w.parent[m] # NULL PROVE Fathered(w, u, m)
  <2>1. s.parent[m] # n /\ w.parent[m] = s.parent[m] /\ m # n /\ Fathered(s, t, m)
    BY <1>1, <1>4, <1>6 DEF Trees
  <2>2. QED
    BY <1>4, <2>1 DEF Fathered
<1>7. Trees(w, u)
  BY <1>4, <1>5, <1>6 DEF Trees
<1>8. \A pr : OrderedBut(s, pr, n) => Ordered(w, pr)
  BY <1>4 DEF OrderedBut, Ordered, Behind
<1>9. QED
  BY <1>3, <1>7, <1>8

\* The list without its k-th member, and the children of that one in the other order.
LEMMA RootRemoved ==
    ASSUME NEW q \in Seq(Nodes), Distinct(q), NEW k \in 1 .. Len(q), NEW d,
           Growing(Degrees(d, q), Len(q))
    PROVE  LET a == RemoveAt(q, k)
           IN  /\ a \in Seq(Nodes) /\ Distinct(a) /\ Growing(Degrees(d, a), Len(a))
               /\ \A m : Has(a, m) <=> Has(q, m) /\ m # q[k]
<1> DEFINE a == RemoveAt(q, k)
           n == Len(q)
<1>1. n \in Nat /\ k \in 1 .. n
  OBVIOUS
<1>2. /\ a \in Seq(Nodes) /\ Len(a) = n - 1
      /\ \A i \in 1 .. n - 1 : a[i] = IF i < k THEN q[i] ELSE q[i + 1]
  BY RemoveAtIs
<1>3. \A i, j \in 1 .. n : q[i] = q[j] => i = j
  BY DEF Distinct
<1>a. \A i, j \in 1 .. n : i < j => d[q[i]] < d[q[j]]
  BY DEF Growing, Degrees
<1> HIDE DEF a, n
<1>b. Len(a) = n - 1 /\ \A i \in 1 .. n - 1 : a[i] = IF i < k THEN q[i] ELSE q[i + 1]
  BY <1>2
<1>4. Distinct(a)
  <2>1. SUFFICES ASSUME NEW i \in 1 .. n - 1, NEW j \in 1 .. n - 1, a[i] = a[j] PROVE i = j
    BY <1>b DEF Distinct
  <2> DEFINE x == IF i < k THEN i ELSE i + 1
             y == IF j < k THEN j ELSE j + 1
  <2>2. x \in 1 .. n /\ y \in 1 .. n
    BY <1>1
  <2>3. x = y
    BY <1>b, <1>3, <2>1, <2>2
  <2>4. QED
    BY <1>1, <2>3
<1>5. Growing(Degrees(d, a), Len(a))
  <2>1. SUFFICES ASSUME NEW i \in 1 .. n - 1, NEW j \in 1 .. n - 1, i < j
                 PROVE  d[a[i]] < d[a[j]]
    BY <1>b DEF Growing, Degrees
  <2> DEFINE x == IF i < k THEN i ELSE i + 1
             y == IF j < k THEN j ELSE j + 1
  <2>2. x \in 1 .. n /\ y \in 1 .. n /\ x < y
    BY <1>1, <2>1
  <2>3. a[i] = q[x] /\ a[j] = q[y]
    BY <1>b
  <2>4. d[q[x]] < d[q[y]]
    <3> HIDE DEF x, y
    <3>1. QED
      BY <1>a, <2>2
  <2>5. QED
    BY <2>3, <2>4
<1>6. ASSUME NEW m PROVE Has(a, m) <=> Has(q, m) /\ m # q[k]
  <2>1. ASSUME Has(a, m) PROVE Has(q, m) /\ m # q[k]
    <3>1. PICK i \in 1 .. n - 1 : a[i] = m
      BY <1>b, <2>1 DEF Has
    <3> DEFINE x == IF i < k THEN i ELSE i + 1
    <3>2. x \in 1 .. n /\ x # k /\ q[x] = m
      BY <1>1, <1>b, <3>1
    <3>3. QED
      BY <1>1, <1>3, <3>2 DEF Has, n
  <2>2. ASSUME Has(q, m), m # q[k] PROVE Has(a, m)
    <3>1. PICK i \in 1 .. n : q[i] = m
      BY <2>2 DEF Has, n
    <3> DEFINE x == IF i < k THEN i ELSE i - 1
    <3>2. x \in 1 .. n - 1 /\ a[x] = m
      BY <1>1, <1>b, <2>2, <3>1
    <3>3. QED
      BY <1>b, <3>2 DEF Has
  <2>3. QED
    BY <2>1, <2>2
<1>7. QED
  BY <1>2, <1>4, <1>5, <1>6 DEF a

LEMMA ChildrenReversed ==
    ASSUME NEW s, NEW t, Trees(s, t), NEW n \in Nodes, t[n] # NoHeap
    PROVE  LET b == Reverse(s.child[n])
           IN  /\ b \in Seq(Nodes) /\ Distinct(b) /\ Growing(Degrees(s.degree, b), Len(b))
               /\ \A m : Has(b, m) <=> Has(s.child[n], m)
<1> DEFINE q == s.child[n]
           b == Reverse(q)
           l == s.degree[n]
<1>1. q \in Seq(Nodes) /\ l \in Nat /\ Len(q) = l
      /\ \A i \in 1 .. l : q[i] \in Nodes /\ s.degree[q[i]] = l - i
  <2>1. Family(s, t, n)
    BY DEF Trees
  <2>2. s.child \in [Nodes -> Seq(Nodes)] /\ s.degree \in [Nodes -> Nat]
    BY StoreFields DEF Trees
  <2>3. QED
    BY <2>1, <2>2 DEF Family
<1> HIDE DEF q, l
<1>2. b \in Seq(Nodes) /\ Len(b) = l /\ \A i \in 1 .. l : b[i] = q[l - i + 1]
  BY <1>1, ReverseIs
<1> HIDE DEF b
<1>3. Len(b) = l /\ Len(q) = l /\ l \in Nat
      /\ \A i \in 1 .. l : b[i] = q[l - i + 1] /\ s.degree[b[i]] = i - 1
  <2>1. ASSUME NEW i \in 1 .. l PROVE s.degree[b[i]] = i - 1
    <3>1. l - i + 1 \in 1 .. l /\ l - (l - i + 1) = i - 1
      BY <1>1
    <3>2. QED
      BY <1>1, <1>2, <3>1
  <2>2. QED
    BY <1>1, <1>2, <2>1
<1>4. Distinct(b)
  <2>1. SUFFICES ASSUME NEW i \in 1 .. l, NEW j \in 1 .. l, b[i] = b[j] PROVE i = j
    BY <1>3 DEF Distinct
  <2>2. i - 1 = j - 1
    BY <1>3, <2>1
  <2>3. QED
    BY <1>3, <2>2
<1>5. Growing(Degrees(s.degree, b), Len(b))
  BY <1>3 DEF Growing, Degrees
<1>6. ASSUME NEW m PROVE Has(b, m) <=> Has(q, m)
  <2>1. ASSUME Has(b, m) PROVE Has(q, m)
    <3>1. PICK i \in 1 .. l : b[i] = m
      BY <1>3, <2>1 DEF Has
    <3>2. l - i + 1 \in 1 .. l /\ q[l - i + 1] = m
      BY <1>3, <3>1
    <3>3. QED
      BY <1>3, <3>2 DEF Has
  <2>2. ASSUME Has(q, m) PROVE Has(b, m)
    <3>1. PICK i \in 1 .. l : q[i] = m
      BY <1>3, <2>2 DEF Has
    <3>2. l - i + 1 \in 1 .. l /\ l - (l - i + 1) + 1 = i
      BY <1>3
    <3>3. b[l - i + 1] = m
      BY <1>3, <3>1, <3>2
    <3>4. QED
      BY <1>3, <3>2, <3>3 DEF Has
  <2>3. QED
    BY <2>1, <2>2
<1>7. QED
  BY <1>2, <1>4, <1>5, <1>6 DEF b, q

\* The root n of heap h has been removed.
Removed(s, t, h, n, v) ==
    /\ n \in Nodes /\ t[n] = h /\ s.parent[n] = NULL
    /\ Kept(s, [t EXCEPT ![n] = NoHeap], v) /\ (OrderedBut(s, prio, n) => Ordered(v, prio))

LEMMA RemoveKeeps ==
    ASSUME NEW s, NEW t, Forest(s, t), NEW h \in Heaps, prio \in [Nodes -> Nat],
           NEW k \in 1 .. Len(s.roots[h])
    PROVE  Removed(s, t, h, s.roots[h][k], RemoveRoot(s, h, k))
<1> DEFINE n == s.roots[h][k]
           u == [t EXCEPT ![n] = NoHeap]
           a == RemoveAt(s.roots[h], k)
           x == [s EXCEPT !.roots[h] = a]
           w == Orphans(x, n)
           b == Reverse(s.child[n])
           v == Unite(w, h, b)
<1>1. Trees(s, t) /\ Roots(s, t) /\ s \in Stores /\ t \in Places
  BY DEF Forest, Trees
<1>2. /\ s.roots[h] \in Seq(Nodes) /\ Distinct(s.roots[h])
      /\ Growing(Degrees(s.degree, s.roots[h]), Len(s.roots[h]))
      /\ \A m \in Nodes : Has(s.roots[h], m) <=> IsTop(s, t, h, m)
  BY <1>1 DEF Roots, Rooted, Tops
<1>3. n \in Nodes /\ t[n] = h /\ s.parent[n] = NULL /\ h # NoHeap
  <2>1. n \in Nodes
    BY <1>2
  <2>2. Has(s.roots[h], n)
    BY DEF Has
  <2>3. h # NoHeap
    BY NoSetContainsEverything DEF NoHeap
  <2>4. QED
    BY <1>2, <2>1, <2>2, <2>3 DEF IsTop
<1>4. u \in Places /\ u[n] = NoHeap /\ \A m \in Nodes : m # n => u[m] = t[m]
  BY <1>1, <1>3 DEF Places
<1>5. RemoveRoot(s, h, k) = v
  BY DEF RemoveRoot
<1>6. /\ a \in Seq(Nodes) /\ Distinct(a) /\ Growing(Degrees(s.degree, a), Len(a))
      /\ \A m : Has(a, m) <=> Has(s.roots[h], m) /\ m # n
  BY <1>2, RootRemoved
<1> HIDE DEF a, u, n
<1>7. RootsSet(s, h, a, x)
  BY <1>1, <1>6, SetRoots
<1> HIDE DEF x
<1>8. /\ x \in Stores /\ x.roots[h] = a /\ \A g \in Heaps : g # h => x.roots[g] = s.roots[g]
      /\ x.min = s.min /\ x.child = s.child /\ x.parent = s.parent /\ x.degree = s.degree
      /\ x.value = s.value /\ x.ref = s.ref
  BY <1>7 DEF RootsSet
<1>9. Trees(x, t)
  BY <1>1, <1>8, SameShape
<1>10. Orphaned(x, n, w)
  BY <1>3, <1>8, OrphansIs
<1> HIDE DEF w
<1>11. /\ Trees(w, u) /\ \A m \in Nodes : Has(x.child[n], m) <=> x.parent[m] = n
       /\ OrderedBut(x, prio, n) => Ordered(w, prio)
  BY <1>3, <1>4, <1>8, <1>9, <1>10, OrphansKeep
<1>12. /\ w.roots = x.roots /\ w.min = s.min /\ w.value = s.value /\ w.ref = s.ref
       /\ w.degree = s.degree
       /\ \A m \in Nodes : w.parent[m] = IF s.parent[m] = n THEN NULL ELSE s.parent[m]
  BY <1>8, <1>10, <1>11 DEF Orphaned
<1>13. /\ b \in Seq(Nodes) /\ Distinct(b) /\ Growing(Degrees(s.degree, b), Len(b))
       /\ \A m : Has(b, m) <=> Has(s.child[n], m)
  BY <1>1, <1>3, ChildrenReversed
<1> HIDE DEF b
<1>14. \A m \in Nodes : Has(b, m) <=> s.parent[m] = n
  BY <1>8, <1>11, <1>13
<1>15. \A m \in Nodes : s.parent[m] = n => m # n /\ t[m] = h
  <2>1. SUFFICES ASSUME NEW m \in Nodes, s.parent[m] = n PROVE m # n /\ t[m] = h
    OBVIOUS
  <2>2. n # NULL
    BY <1>3, HeapAssumption
  <2>3. Fathered(s, t, m)
    BY <1>1, <2>1, <2>2 DEF Trees
  <2>4. QED
    BY <1>3, <2>1, <2>2, <2>3 DEF Fathered
<1>16. \A m \in Nodes : Has(a, m) \/ Has(b, m) <=> IsTop(w, u, h, m)
  <2>1. SUFFICES ASSUME NEW m \in Nodes PROVE Has(a, m) \/ Has(b, m) <=> IsTop(w, u, h, m)
    OBVIOUS
  <2>2. Has(a, m) <=> IsTop(s, t, h, m) /\ m # n
    BY <1>2, <1>6
  <2>3. QED
    BY <1>3, <1>4, <1>12, <1>14, <1>15, <2>2 DEF IsTop
<1>17. Apart(a, b)
  <2>1. SUFFICES ASSUME NEW i \in 1 .. Len(a), NEW j \in 1 .. Len(b), a[i] = b[j] PROVE FALSE
    BY DEF Apart
  <2>2. a[i] \in Nodes
    BY <1>6
  <2>3. Has(a, a[i]) /\ Has(b, a[i])
    BY <2>1 DEF Has
  <2>4. s.parent[a[i]] = NULL /\ s.parent[a[i]] = n
    BY <1>2, <1>6, <1>14, <2>2, <2>3 DEF IsTop
  <2>5. QED
    BY <1>3, <2>4, HeapAssumption
<1>18. Halves(w, u, h, w.roots[h], b)
  BY <1>6, <1>8, <1>12, <1>13, <1>16, <1>17 DEF Halves
<1>19. \A g \in Heaps : g # h => Rooted(w, u, g, w.roots[g])
  <2>1. SUFFICES ASSUME NEW g \in Heaps, g # h PROVE Rooted(w, u, g, s.roots[g])
    BY <1>8, <1>12
  <2>2. g # NoHeap
    BY NoSetContainsEverything DEF NoHeap
  <2>3. SameTrees(s, t, w, u, g)
    BY <1>3, <1>4, <1>12, <1>15, <2>1, <2>2 DEF SameTrees
  <2>4. QED
    BY <1>1, <2>3, RootsStay DEF Roots
<1>20. Kept(w, u, v) /\ (Ordered(w, prio) => Ordered(v, prio))
  BY <1>11, <1>18, <1>19, UniteKeeps
<1> HIDE DEF v
<1>21. Kept(s, u, v)
  BY <1>12, <1>20 DEF Kept
<1>22. OrderedBut(s, prio, n) => OrderedBut(x, prio, n)
  BY <1>8 DEF OrderedBut, Behind
<1>23. QED
  BY <1>3, <1>5, <1>11, <1>20, <1>21, <1>22 DEF n, u, Removed

-----------------------------------------------------------------------------
(* Up and down the trees.                                                  *)
LEMMA ParentAbove ==
    ASSUME NEW s, NEW t, Trees(s, t), NEW n \in Nodes, s.parent[n] # NULL
    PROVE  /\ s.parent[n] \in Nodes /\ t[n] # NoHeap /\ t[s.parent[n]] = t[n]
           /\ s.degree[n] < s.degree[s.parent[n]] /\ Has(s.child[s.parent[n]], n)
<1> DEFINE p == s.parent[n]
<1>1. /\ t[n] # NoHeap /\ p \in Nodes /\ t[p] = t[n]
      /\ \E k \in 1 .. s.degree[p] : s.child[p][k] = n
  BY DEF Trees, Fathered
<1>2. PICK k \in 1 .. s.degree[p] : s.child[p][k] = n
  BY <1>1
<1>3. Family(s, t, p) /\ s.degree \in [Nodes -> Nat]
  BY <1>1, StoreFields DEF Trees
<1>4. s.degree[n] = s.degree[p] - k /\ Len(s.child[p]) = s.degree[p] /\ s.degree[p] \in Nat
  BY <1>1, <1>2, <1>3 DEF Family
<1> HIDE DEF p
<1>5. s.degree[n] < s.degree[p] /\ Has(s.child[p], n)
  BY <1>2, <1>4 DEF Has
<1>6. QED
  BY <1>1, <1>5 DEF p

LEMMA DegreeBound ==
    ASSUME NEW s, NEW t, Trees(s, t), NEW p \in Nodes, t[p] # NoHeap
    PROVE  s.degree[p] <= Cardinality(Nodes)
<1> DEFINE d == s.degree[p]
           f == [k \in 1 .. d |-> s.child[p][k]]
<1>1. /\ Len(s.child[p]) = d /\ d \in Nat
      /\ \A k \in 1 .. d : s.child[p][k] \in Nodes /\ s.degree[s.child[p][k]] = d - k
  <2>1. Family(s, t, p) /\ s.degree \in [Nodes -> Nat]
    BY StoreFields DEF Trees
  <2>2. QED
    BY <2>1 DEF Family
<1>2. f \in [1 .. d -> Nodes] /\ \A k \in 1 .. d : s.degree[f[k]] = d - k
  BY <1>1
<1> HIDE DEF d, f
<1>3. \A j, k \in 1 .. d : f[j] = f[k] => j = k
  <2>1. SUFFICES ASSUME NEW j \in 1 .. d, NEW k \in 1 .. d, f[j] = f[k] PROVE j = k
    OBVIOUS
  <2>2. d - j = d - k
    BY <1>2, <2>1
  <2>3. QED
    BY <1>1, <2>2
<1>4. f \in Injection(1 .. d, Nodes)
  BY <1>2, <1>3 DEF Injection, IsInjective
<1>5. Cardinality(1 .. d) <= Cardinality(Nodes)
  BY <1>4, HeapAssumption, FS_Injection
<1>6. Cardinality(1 .. d) = d
  <2>1. Cardinality(1 .. d) = IF 1 > d THEN 0 ELSE d - 1 + 1
    BY <1>1, FS_Interval
  <2>2. QED
    BY <1>1, <2>1
<1>7. QED
  BY <1>5, <1>6 DEF d

\* Every node leads up to a root, and along the way no item is before the next.
LEMMA RootBefore ==
    ASSUME NEW s, NEW t, Trees(s, t), NEW h \in Heaps, NEW pr \in [Nodes -> Nat],
           Ordered(s, pr), NEW n \in Nodes, t[n] = h
    PROVE  \E x \in Nodes : IsTop(s, t, h, x) /\ pr[s.value[x]] <= pr[s.value[n]]
<1> DEFINE N == Cardinality(Nodes)
           Led(m) == \E x \in Nodes : IsTop(s, t, h, x) /\ pr[s.value[x]] <= pr[s.value[m]]
           T == {i \in Nat : \A m \in Nodes : t[m] = h /\ s.degree[m] + i >= N => Led(m)}
<1>1. N \in Nat
  BY HeapAssumption, FS_CardinalityType
<1>2. h # NoHeap
  BY NoSetContainsEverything DEF NoHeap
<1>3. \A m \in Nodes : s.degree[m] \in Nat /\ s.value[m] \in Nodes /\ pr[s.value[m]] \in Nat
  BY StoreFields DEF Trees
<1>4. \A m \in Nodes : t[m] = h => s.degree[m] <= N
  BY <1>2, DegreeBound
<1> HIDE DEF N
<1>5. ASSUME NEW m \in Nodes, t[m] = h, s.parent[m] = NULL PROVE Led(m)
  BY <1>3, <1>5 DEF IsTop
<1>6. ASSUME NEW m \in Nodes, t[m] = h, s.parent[m] # NULL
      PROVE  /\ s.parent[m] \in Nodes /\ t[s.parent[m]] = h
             /\ s.degree[m] + 1 <= s.degree[s.parent[m]] /\ s.degree[s.parent[m]] \in Nat
             /\ s.degree[s.parent[m]] <= N
             /\ pr[s.value[s.parent[m]]] <= pr[s.value[m]]
  <2>1. s.parent[m] \in Nodes /\ t[s.parent[m]] = h /\ s.degree[m] < s.degree[s.parent[m]]
    BY <1>6, ParentAbove
  <2>2. QED
    BY <1>3, <1>4, <1>6, <2>1 DEF Ordered, Behind
<1>7. 0 \in T
  <2>1. SUFFICES ASSUME NEW m \in Nodes, t[m] = h, s.degree[m] >= N, s.parent[m] # NULL
                 PROVE  FALSE
    BY <1>1, <1>3, <1>5
  <2>2. QED
    BY <1>1, <1>3, <1>6, <2>1
<1>8. ASSUME NEW i \in Nat, i \in T PROVE i + 1 \in T
  <2>1. SUFFICES ASSUME NEW m \in Nodes, t[m] = h, s.degree[m] + (i + 1) >= N,
                        s.parent[m] # NULL
                 PROVE  Led(m)
    BY <1>5
  <2> DEFINE p == s.parent[m]
  <2>2. p \in Nodes /\ t[p] = h /\ s.degree[p] + i >= N /\ pr[s.value[p]] <= pr[s.value[m]]
    BY <1>1, <1>3, <1>6, <2>1
  <2> HIDE DEF p
  <2>3. PICK x \in Nodes : IsTop(s, t, h, x) /\ pr[s.value[x]] <= pr[s.value[p]]
    BY <1>8, <2>2
  <2>4. pr[s.value[x]] <= pr[s.value[m]]
    BY <1>3, <2>2, <2>3
  <2>5. QED
    BY <2>3, <2>4
<1> HIDE DEF T
<1>9. N \in T
  BY <1>1, <1>7, <1>8, SetInduction
<1>10. QED
  BY <1>1, <1>3, <1>9 DEF T

Below(child, S) == UNION {{m} \cup ToSet(child[m]) : m \in S}

Reached(child, x, n) == Rounds(LAMBDA S : UNION {{m} \cup ToSet(child[m]) : m \in S}, x, n)

ReachRun(c, child, S, x) ==
    /\ c[0] = x /\ \A i \in Nat : c[i] \in S /\ c[i + 1] = Below(child, c[i])
    /\ \A n \in Nat : Reached(child, x, n) = c[n]

LEMMA ReachRounds ==
    ASSUME NEW child, NEW S, NEW x \in S, \A y \in S : Below(child, y) \in S
    PROVE  \E c : ReachRun(c, child, S, x)
<1> DEFINE g == [y \in S |-> Below(child, y)]
           Run(r) == r = [i \in Nat |-> IF i = 0 THEN x ELSE Below(child, r[i - 1])]
           c == CHOOSE r : Run(r)
<1>1. g \in [S -> S]
  OBVIOUS
<1> HIDE DEF g
<1>2. \E r \in [Nat -> S] : r = [i \in Nat |-> IF i = 0 THEN x ELSE g[r[i - 1]]]
  BY <1>1, RoundsStay
<1>3. PICK r \in [Nat -> S] : r = [i \in Nat |-> IF i = 0 THEN x ELSE g[r[i - 1]]]
  BY <1>2
<1>4. \A i \in Nat : i # 0 => g[r[i - 1]] = Below(child, r[i - 1])
  BY DEF g
<1>5. Run(r)
  BY <1>3, <1>4
<1>6. Run(c)
  BY <1>5
<1>7. \A n \in Nat : Reached(child, x, n) = c[n]
  BY DEF Reached, Rounds, Below
<1> HIDE DEF c
<1>8. c[0] = x /\ \A i \in Nat : c[i + 1] = Below(child, c[i])
  BY <1>6
<1> DEFINE V == {i \in Nat : c[i] \in S}
<1>9. 0 \in V
  BY <1>8
<1>10. ASSUME NEW i \in Nat, i \in V PROVE i + 1 \in V
  BY <1>8, <1>10
<1> HIDE DEF V
<1>11. Nat \subseteq V
  BY <1>9, <1>10, SetInduction
<1>12. ReachRun(c, child, S, x)
  BY <1>7, <1>8, <1>11 DEF V, ReachRun
<1>13. QED
  BY <1>12

\* The lists of children lead to the nodes of the heap's trees.
LEMMA ReachedIs ==
    ASSUME NEW s, NEW t, Forest(s, t), NEW h \in Heaps
    PROVE  Reached(s.child, ToSet(s.roots[h]), Cardinality(Nodes)) = {n \in Nodes : t[n] = h}
<1> DEFINE N == Cardinality(Nodes)
           U == {n \in Nodes : t[n] = h}
           x == ToSet(s.roots[h])
<1>1. N \in Nat
  BY HeapAssumption, FS_CardinalityType
<1>2. h # NoHeap
  BY NoSetContainsEverything DEF NoHeap
<1>3. Trees(s, t) /\ s.degree \in [Nodes -> Nat] /\ s.child \in [Nodes -> Seq(Nodes)]
  BY StoreFields DEF Forest, Trees
<1>4. \A n \in Nodes : n \in x <=> IsTop(s, t, h, n)
  <2>1. s.roots[h] \in Seq(Nodes) /\ \A n \in Nodes : Has(s.roots[h], n) <=> IsTop(s, t, h, n)
    BY DEF Forest, Roots, Rooted, Tops
  <2>2. \A n : n \in x <=> Has(s.roots[h], n)
    BY <2>1 DEF ToSet, Has
  <2>3. QED
    BY <2>1, <2>2
<1>5. x \in SUBSET U
  <2>1. x \subseteq Nodes
    BY DEF Forest, Roots, Rooted, Tops, ToSet
  <2>2. QED
    BY <1>4, <2>1 DEF IsTop
<1>6. \A n \in Nodes : \A m : m \in ToSet(s.child[n]) <=> Has(s.child[n], m)
  <2>1. SUFFICES ASSUME NEW n \in Nodes, NEW m PROVE m \in ToSet(s.child[n]) <=> Has(s.child[n], m)
    OBVIOUS
  <2>2. s.child[n] \in Seq(Nodes)
    BY <1>3
  <2>3. QED
    BY <2>2 DEF ToSet, Has
<1>7. \A n \in U : \A m : Has(s.child[n], m) => m \in U
  BY <1>2, <1>3 DEF Trees, Family, Has
<1> HIDE DEF x, N
<1>8. \A S \in SUBSET U : Below(s.child, S) \in SUBSET U
  BY <1>6, <1>7 DEF Below
<1>9. PICK c : ReachRun(c, s.child, SUBSET U, x)
  BY <1>5, <1>8, ReachRounds
<1>10. /\ c[0] = x /\ \A i \in Nat : c[i] \in SUBSET U /\ c[i + 1] = Below(s.child, c[i])
       /\ Reached(s.child, x, N) = c[N]
  BY <1>1, <1>9 DEF ReachRun
<1>11. \A i \in Nat : /\ c[i] \subseteq c[i + 1]
                      /\ \A n \in c[i] : \A m : Has(s.child[n], m) => m \in c[i + 1]
  <2>1. SUFFICES ASSUME NEW i \in Nat, NEW n \in c[i]
                 PROVE  n \in c[i + 1] /\ \A m : Has(s.child[n], m) => m \in c[i + 1]
    BY Zenon
  <2>2. n \in Nodes /\ t[n] = h
    BY <1>10
  <2>3. {n} \cup ToSet(s.child[n]) \subseteq c[i + 1]
    BY <1>10 DEF Below
  <2>4. QED
    BY <1>6, <2>2, <2>3
<1> DEFINE T == {i \in Nat : \A n \in U : IsTop(s, t, h, n) \/ s.degree[n] + i >= N => n \in c[i]}
<1>12. ASSUME NEW n \in U, ~IsTop(s, t, h, n)
       PROVE  /\ s.parent[n] \in U /\ s.degree[n] + 1 <= s.degree[s.parent[n]]
              /\ s.degree[s.parent[n]] <= N /\ Has(s.child[s.parent[n]], n)
              /\ s.degree[n] \in Nat /\ s.degree[s.parent[n]] \in Nat
  <2>1. n \in Nodes /\ t[n] = h /\ s.parent[n] # NULL
    BY <1>12 DEF IsTop
  <2>2. /\ s.parent[n] \in Nodes /\ t[s.parent[n]] = h
        /\ s.degree[n] < s.degree[s.parent[n]] /\ Has(s.child[s.parent[n]], n)
    BY <1>3, <2>1, ParentAbove
  <2>3. s.degree[s.parent[n]] <= N
    BY <1>2, <1>3, <2>2, DegreeBound DEF N
  <2>4. QED
    BY <1>3, <2>1, <2>2, <2>3
<1>13. 0 \in T
  <2>1. ASSUME NEW n \in U, IsTop(s, t, h, n) PROVE n \in c[0]
    BY <1>4, <1>10, <2>1
  <2>2. ASSUME NEW n \in U, ~IsTop(s, t, h, n) PROVE ~(s.degree[n] + 0 >= N)
    BY <1>1, <1>12, <2>2
  <2>3. QED
    BY <2>1, <2>2
<1>14. ASSUME NEW i \in Nat, i \in T PROVE i + 1 \in T
  <2>1. SUFFICES ASSUME NEW n \in U, IsTop(s, t, h, n) \/ s.degree[n] + (i + 1) >= N
                 PROVE  n \in c[i + 1]
    OBVIOUS
  <2>2. CASE IsTop(s, t, h, n)
    BY <1>11, <1>14, <2>2
  <2>3. CASE ~IsTop(s, t, h, n)
    <3>1. s.parent[n] \in U /\ s.degree[s.parent[n]] + i >= N /\ Has(s.child[s.parent[n]], n)
      BY <1>1, <1>12, <2>1, <2>3
    <3>2. s.parent[n] \in c[i]
      BY <1>14, <3>1
    <3>3. QED
      BY <1>11, <3>1, <3>2
  <2>4. QED
    BY <2>2, <2>3
<1> HIDE DEF T
<1>15. N \in T
  BY <1>1, <1>13, <1>14, SetInduction
<1>16. \A n \in U : s.degree[n] + N >= N
  BY <1>1, <1>3
<1>17. c[N] = U
  BY <1>1, <1>10, <1>15, <1>16 DEF T
<1>18. QED
  BY <1>10, <1>17 DEF x, N

-----------------------------------------------------------------------------
(* The invariant.                                                          *)

\* The cached node of a heap is in no tree, no other heap's, and not behind any.
Cached(s, t, pr) ==
    \A h \in Heaps : s.min[h] # NULL =>
      /\ t[s.min[h]] = NoHeap /\ \A g \in Heaps : s.min[g] = s.min[h] => g = h
      /\ \A n \in Nodes : t[n] = h => pr[s.value[s.min[h]]] <= pr[s.value[n]]

\* Exactly the nodes in no heap say so; x has not been told yet.
Marked(s, t, x) ==
    \A n \in Nodes : n # x =>
      (s.degree[n] = NOT_IN_HEAP <=> t[n] = NoHeap /\ \A h \in Heaps : s.min[h] # n)

Refs(s) ==
    /\ \A i \in WithRef : s.value[s.ref[i]] = i
    /\ \A m, n \in Nodes : s.value[m] = s.value[n] => m = n
    /\ \A i \in Nodes : \E n \in Nodes : s.value[n] = i

Sound(s, t, pr, x) ==
    Forest(s, t) /\ Ordered(s, pr) /\ Cached(s, t, pr) /\ Marked(s, t, x) /\ Refs(s)

Holds(s, t, h) == {n \in Nodes : t[n] = h \/ s.min[h] = n}

LEMMA NoHeapIs == \A h \in Heaps : h # NoHeap
  BY NoSetContainsEverything DEF NoHeap

LEMMA MarkedIf ==
    ASSUME NEW s, NEW t, Trees(s, t), NEW x,
           \A n \in Nodes : t[n] = NoHeap /\ n # x =>
             (s.degree[n] = NOT_IN_HEAP <=> \A h \in Heaps : s.min[h] # n)
    PROVE  Marked(s, t, x)
<1>1. SUFFICES ASSUME NEW n \in Nodes, t[n] # NoHeap PROVE s.degree[n] # NOT_IN_HEAP
  BY DEF Marked
<1>2. s.degree[n] <= Cardinality(Nodes) /\ s.degree[n] \in Nat
  BY <1>1, DegreeBound, StoreFields DEF Trees
<1>3. Cardinality(Nodes) \in Nat /\ Cardinality(Nodes) < NOT_IN_HEAP /\ NOT_IN_HEAP \in Nat
  BY HeapAssumption, FS_CardinalityType DEF NOT_IN_HEAP
<1>4. QED
  BY <1>2, <1>3

MinSet(s, h, x, v) ==
    /\ v \in Stores /\ v.roots = s.roots /\ v.child = s.child /\ v.parent = s.parent
    /\ v.degree = s.degree /\ v.value = s.value /\ v.ref = s.ref
    /\ v.min[h] = x /\ \A g \in Heaps : g # h => v.min[g] = s.min[g]

LEMMA SetMin ==
    ASSUME NEW s \in Stores, NEW h \in Heaps, NEW x \in Nodes \cup {NULL}
    PROVE  MinSet(s, h, x, [s EXCEPT !.min[h] = x])
<1> DEFINE mi == [s.min EXCEPT ![h] = x]
<1>1. s.min \in [Heaps -> Nodes \cup {NULL}]
  BY StoreFields
<1>2. mi \in [Heaps -> Nodes \cup {NULL}] /\ mi[h] = x /\ \A g \in Heaps : g # h => mi[g] = s.min[g]
  BY <1>1
<1>3. [s EXCEPT !.min[h] = x] = [s EXCEPT !.min = mi]
  OBVIOUS
<1> HIDE DEF mi
<1>4. QED
  BY <1>2, <1>3 DEF Stores, MinSet

LEMMA SameForest ==
    ASSUME NEW s, NEW t, Forest(s, t), NEW v \in Stores, v.roots = s.roots,
           v.child = s.child, v.parent = s.parent, v.degree = s.degree
    PROVE  Forest(v, t)
<1>1. Trees(v, t)
  BY SameShape DEF Forest
<1>2. ASSUME NEW h \in Heaps PROVE Rooted(v, t, h, v.roots[h])
  <2>1. SameTrees(s, t, v, t, h)
    BY DEF SameTrees
  <2>2. QED
    BY <2>1, RootsStay DEF Forest, Roots
<1>3. QED
  BY <1>1, <1>2 DEF Forest, Roots

\* A node of no tree is reset.
LEMMA ResetForest ==
    ASSUME NEW s, NEW t, Forest(s, t), NEW n \in Nodes, t[n] = NoHeap, NEW d, NEW v,
           IsReset(s, n, d, v)
    PROVE  /\ Forest(v, t) /\ \A pr : Ordered(s, pr) => Ordered(v, pr)
           /\ v.degree[n] = d /\ \A m \in Nodes : m # n => v.degree[m] = s.degree[m]
<1>1. Trees(s, t) /\ Roots(s, t) /\ t \in Places
  BY DEF Forest, Trees
<1>2. /\ Trees(v, t) /\ \A pr : Ordered(s, pr) => Ordered(v, pr)
      /\ \A m \in Nodes : m # n => v.parent[m] = s.parent[m] /\ v.degree[m] = s.degree[m]
      /\ v.degree[n] = d
  BY <1>1, ResetKeeps
<1>3. v.roots = s.roots
  BY DEF IsReset
<1>4. ASSUME NEW h \in Heaps PROVE Rooted(v, t, h, v.roots[h])
  <2>1. SameTrees(s, t, v, t, h)
    BY <1>2, NoHeapIs DEF SameTrees
  <2>2. QED
    BY <1>1, <1>3, <2>1, RootsStay DEF Roots
<1>5. QED
  BY <1>2, <1>4 DEF Forest, Roots

\* The heap h gains n, and nothing else changes hands.
Gains(s, t, h, n, v, u) ==
    /\ v.value = s.value /\ v.ref = s.ref /\ Holds(v, u, h) = Holds(s, t, h) \cup {n}
    /\ \A g \in Heaps : g # h => v.min[g] = s.min[g] /\ Holds(v, u, g) = Holds(s, t, g)

LEMMA PlantIs ==
    ASSUME NEW s, NEW t, NEW h \in Heaps, NEW n \in Nodes, Sound(s, t, prio, n),
           prio \in [Nodes -> Nat], t[n] = NoHeap, \A g \in Heaps : s.min[g] # n,
           s.min[h] # NULL => prio[s.value[s.min[h]]] <= prio[s.value[n]]
    PROVE  LET v == Unite(Reset(s, n), h, <<n>>)
               u == [t EXCEPT ![n] = h]
           IN  Sound(v, u, prio, NULL) /\ Gains(s, t, h, n, v, u) /\ v.min = s.min
<1> DEFINE v == Unite(Reset(s, n), h, <<n>>)
           u == [t EXCEPT ![n] = h]
<1>1. Forest(s, t) /\ Ordered(s, prio) /\ Cached(s, t, prio) /\ Marked(s, t, n) /\ Refs(s)
  BY DEF Sound
<1>2. Kept(s, u, v) /\ (Ordered(s, prio) => Ordered(v, prio))
  BY <1>1, PlantKeeps
<1>3. u[n] = h /\ (\A m \in Nodes : m # n => u[m] = t[m]) /\ h # NoHeap
  BY <1>1, NoHeapIs DEF Forest, Trees, Places
<1> HIDE DEF u, v
<1>4. /\ Forest(v, u) /\ v.min = s.min /\ v.value = s.value /\ v.ref = s.ref
      /\ \A m \in Nodes : u[m] = NoHeap => v.degree[m] = s.degree[m]
  BY <1>2 DEF Kept
<1>5. Cached(v, u, prio)
  <2>1. SUFFICES ASSUME NEW g \in Heaps, s.min[g] # NULL
                 PROVE  /\ u[s.min[g]] = NoHeap
                        /\ \A f \in Heaps : s.min[f] = s.min[g] => f = g
                        /\ \A y \in Nodes : u[y] = g =>
                             prio[s.value[s.min[g]]] <= prio[s.value[y]]
    BY <1>4 DEF Cached
  <2>2. s.min[g] \in Nodes /\ s.min[g] # n
    BY <1>1, <2>1, StoreFields DEF Forest, Trees
  <2>3. /\ t[s.min[g]] = NoHeap /\ \A f \in Heaps : s.min[f] = s.min[g] => f = g
        /\ \A y \in Nodes : t[y] = g => prio[s.value[s.min[g]]] <= prio[s.value[y]]
    BY <1>1, <2>1 DEF Cached
  <2>4. QED
    BY <1>3, <2>1, <2>2, <2>3
<1>6. Marked(v, u, NULL)
  <2>1. \A m \in Nodes : u[m] = NoHeap =>
          (v.degree[m] = NOT_IN_HEAP <=> \A g \in Heaps : v.min[g] # m)
    BY <1>1, <1>3, <1>4 DEF Marked
  <2>2. QED
    BY <1>4, <2>1, MarkedIf DEF Forest
<1>7. Refs(v)
  BY <1>1, <1>4 DEF Refs
<1>8. Gains(s, t, h, n, v, u)
  <2>1. Holds(v, u, h) = Holds(s, t, h) \cup {n}
    BY <1>3, <1>4 DEF Holds
  <2>2. \A g \in Heaps : g # h => Holds(v, u, g) = Holds(s, t, g)
    BY <1>3, <1>4, NoHeapIs DEF Holds
  <2>3. QED
    BY <1>4, <2>1, <2>2 DEF Gains
<1>9. QED
  BY <1>1, <1>2, <1>4, <1>5, <1>6, <1>7, <1>8 DEF Sound, u, v

\* heap_insert of a node that is in no heap.
LEMMA AddIs ==
    ASSUME NEW s, NEW t, NEW h \in Heaps, NEW n \in Nodes, Sound(s, t, prio, n),
           prio \in [Nodes -> Nat], t[n] = NoHeap, \A g \in Heaps : s.min[g] # n
    PROVE  \E u : Sound(Add(s, h, n), u, prio, NULL) /\ Gains(s, t, h, n, Add(s, h, n), u)
<1>1. Forest(s, t) /\ Ordered(s, prio) /\ Cached(s, t, prio) /\ Marked(s, t, n) /\ Refs(s)
      /\ s \in Stores
  BY DEF Sound, Forest, Trees
<1>2. \A m \in Nodes : s.value[m] \in Nodes /\ prio[s.value[m]] \in Nat
  BY <1>1, StoreFields
<1>3. s.min[h] \in Nodes \cup {NULL}
  BY <1>1, StoreFields
<1>4. CASE ~Overtakes(s, h, n)
  <2>1. Add(s, h, n) = Unite(Reset(s, n), h, <<n>>)
    BY <1>4 DEF Add
  <2>2. s.min[h] # NULL => prio[s.value[s.min[h]]] <= prio[s.value[n]]
    BY <1>2, <1>3, <1>4 DEF Overtakes, higher_prio
  <2> DEFINE v == Unite(Reset(s, n), h, <<n>>)
             u == [t EXCEPT ![n] = h]
  <2>3. Sound(v, u, prio, NULL) /\ Gains(s, t, h, n, v, u)
    BY <2>2, PlantIs
  <2> HIDE DEF v, u
  <2>4. QED
    BY <2>1, <2>3 DEF v
<1>5. CASE Overtakes(s, h, n)
  <2> DEFINE m == s.min[h]
             w == Reset(s, n)
             x == Unite(Reset(w, m), h, <<m>>)
             u == [t EXCEPT ![m] = h]
             v == [x EXCEPT !.min[h] = n]
  <2>1. /\ m \in Nodes /\ m # n /\ t[m] = NoHeap
        /\ prio[s.value[n]] < prio[s.value[m]]
        /\ \A g \in Heaps : s.min[g] = m => g = h
        /\ \A y \in Nodes : t[y] = h => prio[s.value[m]] <= prio[s.value[y]]
    BY <1>1, <1>3, <1>5 DEF Overtakes, higher_prio, Cached
  <2>2. Add(s, h, n) = v
    BY <1>5 DEF Add
  <2>3. IsReset(s, n, 0, w)
    BY <1>1, ResetIs
  <2>4. u[m] = h /\ (\A y \in Nodes : y # m => u[y] = t[y]) /\ h # NoHeap
    BY <1>1, <2>1, NoHeapIs DEF Forest, Trees, Places
  <2> HIDE DEF m, w, u
  <2>5. /\ Forest(w, t) /\ Ordered(w, prio) /\ w.degree[n] = 0
        /\ \A y \in Nodes : y # n => w.degree[y] = s.degree[y]
    BY <1>1, <2>3, ResetForest
  <2>6. w.min = s.min /\ w.value = s.value /\ w.ref = s.ref
    BY <2>3 DEF IsReset
  <2>7. Kept(w, u, x) /\ (Ordered(w, prio) => Ordered(x, prio))
    BY <2>1, <2>5, PlantKeeps DEF u
  <2> HIDE DEF x
  <2>8. /\ Forest(x, u) /\ x.min = s.min /\ x.value = s.value /\ x.ref = s.ref
        /\ \A y \in Nodes : u[y] = NoHeap => x.degree[y] = w.degree[y]
    BY <2>6, <2>7 DEF Kept
  <2>9. MinSet(x, h, n, v)
    BY <2>8, SetMin DEF Forest, Trees
  <2> HIDE DEF v
  <2>10. Forest(v, u) /\ Ordered(v, prio)
    <3>1. Ordered(v, prio)
      BY <2>5, <2>7, <2>9 DEF Ordered, Behind, MinSet
    <3>2. QED
      BY <2>8, <2>9, <3>1, SameForest DEF MinSet
  <2>11. /\ v.value = s.value /\ v.ref = s.ref /\ v.degree = x.degree
         /\ v.min[h] = n /\ \A g \in Heaps : g # h => v.min[g] = s.min[g]
    BY <2>8, <2>9 DEF MinSet
  <2>12. Cached(v, u, prio)
    <3>1. SUFFICES ASSUME NEW g \in Heaps, v.min[g] # NULL
                   PROVE  /\ u[v.min[g]] = NoHeap
                          /\ \A f \in Heaps : v.min[f] = v.min[g] => f = g
                          /\ \A y \in Nodes : u[y] = g =>
                               prio[s.value[v.min[g]]] <= prio[s.value[y]]
      BY <2>11 DEF Cached
    <3>2. CASE g = h
      <4>1. u[n] = NoHeap /\ \A f \in Heaps : v.min[f] = n => f = h
        BY <2>1, <2>4, <2>11
      <4>2. ASSUME NEW y \in Nodes, u[y] = h PROVE prio[s.value[n]] <= prio[s.value[y]]
        <5>1. prio[s.value[m]] <= prio[s.value[y]]
          BY <1>2, <2>1, <2>4, <4>2
        <5>2. QED
          BY <1>2, <2>1, <5>1
      <4>3. QED
        BY <2>11, <3>2, <4>1, <4>2
    <3>3. CASE g # h
      <4>1. v.min[g] = s.min[g] /\ s.min[g] # m /\ s.min[g] \in Nodes
        BY <1>1, <2>1, <2>11, <3>1, <3>3, StoreFields
      <4>2. /\ t[s.min[g]] = NoHeap /\ \A f \in Heaps : s.min[f] = s.min[g] => f = g
            /\ \A y \in Nodes : t[y] = g => prio[s.value[s.min[g]]] <= prio[s.value[y]]
        BY <1>1, <3>1, <4>1 DEF Cached
      <4>3. \A f \in Heaps : v.min[f] = v.min[g] => f = g
        BY <2>11, <4>1, <4>2
      <4>4. QED
        BY <2>4, <3>3, <4>1, <4>2, <4>3
    <3>4. QED
      BY <3>2, <3>3
  <2>13. Marked(v, u, NULL)
    <3>1. ASSUME NEW y \in Nodes, u[y] = NoHeap
          PROVE  v.degree[y] = NOT_IN_HEAP <=> \A g \in Heaps : v.min[g] # y
      <4>1. y # m /\ t[y] = NoHeap /\ v.degree[y] = w.degree[y]
        BY <2>4, <2>8, <2>11, <3>1
      <4>2. CASE y = n
        BY <2>5, <2>11, <4>1, <4>2 DEF NOT_IN_HEAP
      <4>3. CASE y # n
        <5>1. s.degree[y] = NOT_IN_HEAP <=> \A g \in Heaps : s.min[g] # y
          BY <1>1, <4>1, <4>3 DEF Marked
        <5>2. (\A g \in Heaps : s.min[g] # y) <=> \A g \in Heaps : v.min[g] # y
          BY <2>11, <4>1, <4>3 DEF m
        <5>3. QED
          BY <2>5, <4>1, <4>3, <5>1, <5>2
      <4>4. QED
        BY <4>2, <4>3
    <3>2. QED
      BY <2>10, <3>1, MarkedIf DEF Forest
  <2>14. Refs(v)
    BY <1>1, <2>11 DEF Refs
  <2>15. Gains(s, t, h, n, v, u)
    <3>1. Holds(v, u, h) = Holds(s, t, h) \cup {n}
      BY <2>1, <2>4, <2>11 DEF Holds, m
    <3>2. \A g \in Heaps : g # h => Holds(v, u, g) = Holds(s, t, g)
      BY <2>1, <2>4, <2>11, NoHeapIs DEF Holds
    <3>3. QED
      BY <2>11, <3>1, <3>2 DEF Gains
  <2>16. QED
    BY <2>2, <2>10, <2>12, <2>13, <2>14, <2>15 DEF Sound
<1>6. QED
  BY <1>4, <1>5

\* Every heap has the nodes it had, with the items they had.
Same(s, t, v, u) ==
    v.value = s.value /\ v.ref = s.ref /\ \A g \in Heaps : Holds(v, u, g) = Holds(s, t, g)

\* The cached node of h is taken out of the cache.
Out(s, t, h, x) ==
    /\ x \in Stores /\ x.value = s.value /\ x.ref = s.ref /\ x.roots = s.roots
    /\ x.min[h] = NULL /\ \A g \in Heaps : g # h => x.min[g] = s.min[g]
    /\ s.min[h] \in Nodes /\ t[s.min[h]] = NoHeap /\ \A g \in Heaps : x.min[g] # s.min[h]
    /\ Sound(x, t, prio, s.min[h])
    /\ s.min[h] \in Holds(s, t, h) /\ Holds(x, t, h) = Holds(s, t, h) \ {s.min[h]}
    /\ \A g \in Heaps : g # h => Holds(x, t, g) = Holds(s, t, g)

LEMMA MinOut ==
    ASSUME NEW s, NEW t, NEW h \in Heaps, Sound(s, t, prio, NULL), s.min[h] # NULL
    PROVE  Out(s, t, h, [s EXCEPT !.min[h] = NULL])
<1> DEFINE m == s.min[h]
           x == [s EXCEPT !.min[h] = NULL]
<1>1. /\ Forest(s, t) /\ Ordered(s, prio) /\ Cached(s, t, prio) /\ Marked(s, t, NULL)
      /\ Refs(s) /\ s \in Stores
  BY DEF Sound, Forest, Trees
<1>2. m \in Nodes /\ t[m] = NoHeap /\ \A g \in Heaps : s.min[g] = m => g = h
  BY <1>1, StoreFields DEF Cached
<1>3. MinSet(s, h, NULL, x)
  BY <1>1, SetMin
<1> HIDE DEF m, x
<1>4. /\ x \in Stores /\ x.roots = s.roots /\ x.child = s.child /\ x.parent = s.parent
      /\ x.degree = s.degree /\ x.value = s.value /\ x.ref = s.ref
      /\ x.min[h] = NULL /\ \A g \in Heaps : g # h => x.min[g] = s.min[g]
  BY <1>3 DEF MinSet
<1>5. Forest(x, t) /\ Ordered(x, prio) /\ Refs(x)
  BY <1>1, <1>4, SameForest DEF Ordered, Behind, Refs
<1>6. Cached(x, t, prio)
  <2>1. SUFFICES ASSUME NEW g \in Heaps, g # h, s.min[g] # NULL
                 PROVE  /\ t[s.min[g]] = NoHeap
                        /\ \A f \in Heaps : x.min[f] = s.min[g] => f = g
                        /\ \A y \in Nodes : t[y] = g =>
                             prio[s.value[s.min[g]]] <= prio[s.value[y]]
    BY <1>4 DEF Cached
  <2>2. /\ t[s.min[g]] = NoHeap /\ \A f \in Heaps : s.min[f] = s.min[g] => f = g
        /\ \A y \in Nodes : t[y] = g => prio[s.value[s.min[g]]] <= prio[s.value[y]]
    BY <1>1, <2>1 DEF Cached
  <2>3. QED
    BY <1>4, <2>1, <2>2
<1>7. \A g \in Heaps : x.min[g] # m
  BY <1>2, <1>4, HeapAssumption
<1>8. Marked(x, t, m)
  <2>1. ASSUME NEW y \in Nodes, y # m, t[y] = NoHeap
        PROVE  x.degree[y] = NOT_IN_HEAP <=> \A g \in Heaps : x.min[g] # y
    <3>1. s.degree[y] = NOT_IN_HEAP <=> \A g \in Heaps : s.min[g] # y
      BY <1>1, <2>1, HeapAssumption DEF Marked
    <3>2. (\A g \in Heaps : s.min[g] # y) <=> \A g \in Heaps : x.min[g] # y
      BY <1>4, <2>1, HeapAssumption DEF m
    <3>3. QED
      BY <1>4, <3>1, <3>2
  <2>2. QED
    BY <1>5, <2>1, MarkedIf DEF Forest
<1>9. Sound(x, t, prio, m)
  BY <1>5, <1>6, <1>8 DEF Sound
<1>10. Holds(x, t, h) = Holds(s, t, h) \ {m} /\ m \in Holds(s, t, h)
  BY <1>2, <1>4, NoHeapIs, HeapAssumption DEF Holds, m
<1>11. \A g \in Heaps : g # h => Holds(x, t, g) = Holds(s, t, g)
  BY <1>4 DEF Holds
<1>12. QED
  BY <1>2, <1>4, <1>7, <1>9, <1>10, <1>11 DEF Out, m, x

LEMMA UncacheIs ==
    ASSUME NEW s, NEW t, NEW h \in Heaps, Sound(s, t, prio, NULL), prio \in [Nodes -> Nat]
    PROVE  LET v == Uncache(s, h)
           IN  /\ \E u : Sound(v, u, prio, NULL) /\ Same(s, t, v, u)
               /\ v.min[h] = NULL /\ \A g \in Heaps : g # h => v.min[g] = s.min[g]
<1>1. CASE s.min[h] = NULL
  <2>1. Uncache(s, h) = s
    BY <1>1 DEF Uncache
  <2>2. QED
    BY <1>1, <2>1 DEF Same
<1>2. CASE s.min[h] # NULL
  <2> DEFINE m == s.min[h]
             x == [s EXCEPT !.min[h] = NULL]
             v == Unite(Reset(x, m), h, <<m>>)
             u == [t EXCEPT ![m] = h]
  <2>1. Uncache(s, h) = Add(x, h, m)
    BY <1>2 DEF Uncache
  <2>2. Out(s, t, h, x)
    BY <1>2, MinOut
  <2> HIDE DEF x, u
  <2>3. /\ x.value = s.value /\ x.ref = s.ref
        /\ x.min[h] = NULL /\ \A g \in Heaps : g # h => x.min[g] = s.min[g]
        /\ m \in Nodes /\ t[m] = NoHeap /\ \A g \in Heaps : x.min[g] # m
        /\ Sound(x, t, prio, m)
        /\ m \in Holds(s, t, h) /\ Holds(x, t, h) = Holds(s, t, h) \ {m}
        /\ \A g \in Heaps : g # h => Holds(x, t, g) = Holds(s, t, g)
    BY <2>2 DEF Out
  <2> HIDE DEF m
  <2>4. Add(x, h, m) = v
    BY <2>3 DEF Add, Overtakes
  <2> HIDE DEF v
  <2>5. x.min[h] # NULL => prio[x.value[x.min[h]]] <= prio[x.value[m]]
    BY <2>3
  <2>6. Sound(v, u, prio, NULL) /\ Gains(x, t, h, m, v, u) /\ v.min = x.min
    BY <2>3, <2>5, PlantIs, SMTT(60) DEF v, u
  <2>7. Holds(x, t, h) \cup {m} = Holds(s, t, h)
    BY <2>3
  <2>8. Same(s, t, v, u)
    BY <2>3, <2>6, <2>7 DEF Same, Gains
  <2>9. QED
    BY <2>1, <2>3, <2>4, <2>6, <2>8
<1>3. QED
  BY <1>1, <1>2

\* A node that is in no heap any more says so.
LEMMA LeaveIs ==
    ASSUME NEW s, NEW t, NEW pr, NEW n \in Nodes, Sound(s, t, pr, n), t[n] = NoHeap,
           \A g \in Heaps : s.min[g] # n
    PROVE  LET v == Leave(s, n)
           IN  /\ Sound(v, t, pr, NULL) /\ Same(s, t, v, t)
<1> DEFINE v == Leave(s, n)
<1>1. /\ Forest(s, t) /\ Ordered(s, pr) /\ Cached(s, t, pr) /\ Marked(s, t, n)
      /\ Refs(s) /\ s \in Stores
  BY DEF Sound, Forest, Trees
<1>2. IsReset(s, n, NOT_IN_HEAP, v)
  BY <1>1, ResetIs
<1> HIDE DEF v
<1>3. /\ Forest(v, t) /\ Ordered(v, pr) /\ v.degree[n] = NOT_IN_HEAP
      /\ \A m \in Nodes : m # n => v.degree[m] = s.degree[m]
  BY <1>1, <1>2, ResetForest
<1>4. v.min = s.min /\ v.value = s.value /\ v.ref = s.ref
  BY <1>2 DEF IsReset
<1>5. Cached(v, t, pr) /\ Refs(v) /\ Same(s, t, v, t)
  BY <1>1, <1>4 DEF Cached, Refs, Same, Holds
<1>6. Marked(v, t, NULL)
  BY <1>1, <1>3, <1>4 DEF Marked
<1>7. QED
  BY <1>3, <1>5, <1>6 DEF Sound, v

IsLowest(s, h, k) ==
    /\ k \in 1 .. Len(s.roots[h])
    /\ \A j \in 1 .. Len(s.roots[h]) :
         prio[s.value[s.roots[h][k]]] <= prio[s.value[s.roots[h][j]]]

\* __heap_min finds a root, and none has a higher priority.
LEMMA LowestIs ==
    ASSUME NEW s \in Stores, NEW h \in Heaps, prio \in [Nodes -> Nat], s.roots[h] # <<>>
    PROVE  IsLowest(s, h, Lowest(s, h))
<1> DEFINE q == s.roots[h]
           l == Len(q)
           w == [j \in 1 .. l |-> prio[s.value[q[j]]]]
<1>1. q \in Seq(Nodes) /\ l \in Nat /\ l > 0 /\ DOMAIN q = 1 .. l
  <2>1. q \in Seq(Nodes)
    BY StoreFields
  <2>2. QED
    BY <2>1
<1>2. \A j \in 1 .. l : w[j] \in Nat /\ w[j] = prio[s.value[q[j]]]
  BY <1>1, StoreFields, SMTT(60)
<1>3. \A i, j \in 1 .. l : higher_prio(s, q[i], q[j]) <=> w[i] < w[j]
  BY <1>2 DEF higher_prio
<1> DEFINE Best(k) == /\ \A j \in DOMAIN q : ~higher_prio(s, q[j], q[k])
                      /\ \A j \in 1 .. (k - 1) : higher_prio(s, q[k], q[j])
<1>4. Lowest(s, h) = CHOOSE k \in DOMAIN q : Best(k)
  BY DEF Lowest
<1> HIDE DEF q, l, w
<1>5. PICK b \in {w[j] : j \in 1 .. l} : \A c \in {w[j] : j \in 1 .. l} : b <= c
  <2>1. {w[j] : j \in 1 .. l} \in SUBSET Nat /\ {w[j] : j \in 1 .. l} # {}
    BY <1>1, <1>2
  <2>2. QED
    BY <2>1, LeastNumber
<1>6. PICK k \in {j \in 1 .. l : w[j] = b} : \A j \in {j \in 1 .. l : w[j] = b} : k <= j
  <2> DEFINE B == {j \in 1 .. l : w[j] = b}
  <2>1. B \in SUBSET Nat /\ B # {}
    BY <1>1, <1>5
  <2> HIDE DEF B
  <2>2. \E k \in B : \A j \in B : k <= j
    BY <2>1, LeastNumber
  <2>3. QED
    BY <2>2 DEF B
<1>7. k \in 1 .. l /\ w[k] = b
  OBVIOUS
<1>8. \A j \in 1 .. l : w[k] <= w[j]
  BY <1>5, <1>7
<1>9. ASSUME NEW j \in 1 .. (k - 1) PROVE w[k] < w[j]
  <2>1. j \in 1 .. l /\ ~(k <= j)
    BY <1>1, <1>7
  <2>2. w[j] # w[k]
    BY <1>6, <1>7, <2>1
  <2>3. w[k] <= w[j] /\ w[k] \in Nat /\ w[j] \in Nat
    BY <1>2, <1>7, <1>8, <2>1
  <2>4. QED
    BY <2>2, <2>3
<1>10. Best(k)
  <2>1. \A j \in 1 .. l : ~higher_prio(s, q[j], q[k])
    BY <1>2, <1>3, <1>7, <1>8
  <2>2. \A j \in 1 .. (k - 1) : higher_prio(s, q[k], q[j])
    BY <1>1, <1>3, <1>7, <1>9
  <2>3. QED
    BY <1>1, <2>1, <2>2
<1> DEFINE z == Lowest(s, h)
<1>11. z \in DOMAIN q /\ \A j \in DOMAIN q : ~higher_prio(s, q[j], q[z])
  BY <1>1, <1>4, <1>7, <1>10
<1>12. z \in 1 .. l
  BY <1>1, <1>11
<1> HIDE DEF z
<1>13. ASSUME NEW j \in 1 .. l PROVE w[z] <= w[j]
  <2>1. ~higher_prio(s, q[j], q[z])
    BY <1>1, <1>11
  <2>2. ~(w[j] < w[z]) /\ w[j] \in Nat /\ w[z] \in Nat
    BY <1>2, <1>3, <1>12, <2>1
  <2>3. QED
    BY <2>2
<1>14. \A j \in 1 .. l : prio[s.value[q[z]]] <= prio[s.value[q[j]]]
  BY <1>2, <1>12, <1>13
<1>15. IsLowest(s, h, z)
  BY <1>12, <1>14 DEF IsLowest, q, l
<1>16. QED
  BY <1>15 DEF z

\* heap_peek: the lowest root is cached, and the heap has the nodes it had.
LEMMA CacheIs ==
    ASSUME NEW s, NEW t, NEW h \in Heaps, Sound(s, t, prio, NULL), prio \in [Nodes -> Nat]
    PROVE  LET v == Cache(s, h)
           IN  \E u : /\ Sound(v, u, prio, NULL) /\ Same(s, t, v, u)
                      /\ v.min[h] = NULL => Holds(v, u, h) = {}
<1>1. /\ Forest(s, t) /\ Ordered(s, prio) /\ Cached(s, t, prio) /\ Marked(s, t, NULL)
      /\ Refs(s) /\ s \in Stores /\ t \in Places /\ Trees(s, t) /\ Roots(s, t)
  BY DEF Sound, Forest, Trees
<1>2. \A n \in Nodes : t[n] = h => \E x \in Nodes :
        Has(s.roots[h], x) /\ prio[s.value[x]] <= prio[s.value[n]]
  <2>1. SUFFICES ASSUME NEW n \in Nodes, t[n] = h
                 PROVE  \E x \in Nodes :
                          Has(s.roots[h], x) /\ prio[s.value[x]] <= prio[s.value[n]]
    OBVIOUS
  <2>2. PICK x \in Nodes : IsTop(s, t, h, x) /\ prio[s.value[x]] <= prio[s.value[n]]
    BY <1>1, <2>1, RootBefore
  <2>3. Has(s.roots[h], x)
    BY <1>1, <2>2 DEF Roots, Rooted, Tops
  <2>4. QED
    BY <2>2, <2>3
<1>3. CASE s.min[h] # NULL
  <2>1. Cache(s, h) = s
    BY <1>3 DEF Cache
  <2>2. QED
    BY <1>3, <2>1 DEF Same
<1>4. CASE s.min[h] = NULL /\ s.roots[h] = <<>>
  <2>1. Cache(s, h) = s
    BY <1>4 DEF Cache
  <2>2. \A x : ~Has(s.roots[h], x)
    BY <1>4 DEF Has
  <2>3. Holds(s, t, h) = {}
    BY <1>2, <1>4, <2>2, HeapAssumption DEF Holds
  <2>4. QED
    BY <2>1, <2>3 DEF Same
<1>5. CASE s.min[h] = NULL /\ s.roots[h] # <<>>
  <2> DEFINE k == Lowest(s, h)
             n == s.roots[h][k]
             x == RemoveRoot(s, h, k)
             u == [t EXCEPT ![n] = NoHeap]
             v == [x EXCEPT !.min[h] = n]
  <2>1. IsLowest(s, h, k)
    BY <1>1, <1>5, LowestIs
  <2>2. Cache(s, h) = v
    BY <1>5 DEF Cache
  <2> HIDE DEF k
  <2>3. /\ k \in 1 .. Len(s.roots[h])
        /\ \A j \in 1 .. Len(s.roots[h]) : prio[s.value[n]] <= prio[s.value[s.roots[h][j]]]
    BY <2>1 DEF IsLowest
  <2>4. /\ n \in Nodes /\ t[n] = h /\ s.parent[n] = NULL /\ Kept(s, u, x)
        /\ OrderedBut(s, prio, n) => Ordered(x, prio)
    <3>1. Removed(s, t, h, n, x)
      BY <1>1, <2>3, RemoveKeeps
    <3>2. QED
      BY <3>1 DEF Removed
  <2>5. OrderedBut(s, prio, n)
    BY <1>1 DEF Ordered, OrderedBut
  <2>6. u[n] = NoHeap /\ (\A y \in Nodes : y # n => u[y] = t[y]) /\ h # NoHeap
    BY <1>1, <2>4, NoHeapIs DEF Places
  <2>7. \A y \in Nodes : t[y] = h => prio[s.value[n]] <= prio[s.value[y]]
    <3>1. SUFFICES ASSUME NEW y \in Nodes, t[y] = h PROVE prio[s.value[n]] <= prio[s.value[y]]
      OBVIOUS
    <3>2. PICK z \in Nodes : Has(s.roots[h], z) /\ prio[s.value[z]] <= prio[s.value[y]]
      BY <1>2, <3>1
    <3>3. prio[s.value[n]] <= prio[s.value[z]]
      BY <2>3, <3>2 DEF Has
    <3>4. prio[s.value[n]] \in Nat /\ prio[s.value[y]] \in Nat /\ prio[s.value[z]] \in Nat
      BY <1>1, <2>4, StoreFields
    <3>5. QED
      BY <3>2, <3>3, <3>4
  <2> HIDE DEF n, x, u
  <2>8. /\ Forest(x, u) /\ x.min = s.min /\ x.value = s.value /\ x.ref = s.ref
        /\ \A y \in Nodes : u[y] = NoHeap => x.degree[y] = s.degree[y]
    BY <2>4 DEF Kept
  <2>9. MinSet(x, h, n, v)
    BY <2>4, <2>8, SetMin DEF Forest, Trees
  <2> HIDE DEF v
  <2>10. /\ v \in Stores /\ v.roots = x.roots /\ v.child = x.child /\ v.parent = x.parent
        /\ v.degree = x.degree /\ v.value = s.value /\ v.ref = s.ref
        /\ v.min[h] = n /\ \A g \in Heaps : g # h => v.min[g] = s.min[g]
    BY <2>8, <2>9 DEF MinSet
  <2>11. Forest(v, u) /\ Ordered(v, prio)
    <3>1. Ordered(v, prio)
      BY <2>4, <2>5, <2>8, <2>10 DEF Ordered, Behind
    <3>2. QED
      BY <2>8, <2>10, <3>1, SameForest
  <2>12. \A g \in Heaps : s.min[g] # n
    BY <1>1, <2>4, <2>6, HeapAssumption DEF Cached
  <2>13. Cached(v, u, prio)
    <3>1. SUFFICES ASSUME NEW g \in Heaps, v.min[g] # NULL
                   PROVE  /\ u[v.min[g]] = NoHeap
                          /\ \A f \in Heaps : v.min[f] = v.min[g] => f = g
                          /\ \A y \in Nodes : u[y] = g =>
                               prio[s.value[v.min[g]]] <= prio[s.value[y]]
      BY <2>10 DEF Cached
    <3>2. CASE g = h
      <4>1. u[n] = NoHeap /\ \A f \in Heaps : v.min[f] = n => f = h
        BY <2>6, <2>10, <2>12
      <4>2. \A y \in Nodes : u[y] = h => prio[s.value[n]] <= prio[s.value[y]]
        BY <2>6, <2>7
      <4>3. QED
        BY <2>10, <3>2, <4>1, <4>2
    <3>3. CASE g # h
      <4>1. v.min[g] = s.min[g] /\ s.min[g] # n /\ s.min[g] \in Nodes
        BY <1>1, <2>10, <2>12, <3>1, <3>3, StoreFields
      <4>2. /\ t[s.min[g]] = NoHeap /\ \A f \in Heaps : s.min[f] = s.min[g] => f = g
            /\ \A y \in Nodes : t[y] = g => prio[s.value[s.min[g]]] <= prio[s.value[y]]
        BY <1>1, <3>1, <4>1 DEF Cached
      <4>3. \A f \in Heaps : v.min[f] = v.min[g] => f = g
        BY <2>10, <4>1, <4>2
      <4>4. QED
        BY <2>6, <3>3, <4>1, <4>2, <4>3, NoHeapIs
    <3>4. QED
      BY <3>2, <3>3
  <2>14. Marked(v, u, NULL)
    <3>1. ASSUME NEW y \in Nodes, u[y] = NoHeap
          PROVE  v.degree[y] = NOT_IN_HEAP <=> \A g \in Heaps : v.min[g] # y
      <4>1. s.degree[y] = NOT_IN_HEAP <=> t[y] = NoHeap /\ \A g \in Heaps : s.min[g] # y
        BY <1>1, HeapAssumption DEF Marked
      <4>2. CASE y = n
        BY <2>4, <2>6, <2>8, <2>10, <3>1, <4>1, <4>2
      <4>3. CASE y # n
        <5>1. (\A g \in Heaps : s.min[g] # y) <=> \A g \in Heaps : v.min[g] # y
          BY <1>5, <2>10, <4>3, HeapAssumption
        <5>2. QED
          BY <2>6, <2>8, <2>10, <3>1, <4>1, <4>3, <5>1
      <4>4. QED
        BY <4>2, <4>3
    <3>2. QED
      BY <2>11, <3>1, MarkedIf DEF Forest
  <2>15. Refs(v)
    BY <1>1, <2>10 DEF Refs
  <2>16. Same(s, t, v, u)
    <3>1. Holds(v, u, h) = Holds(s, t, h)
      BY <1>5, <2>4, <2>6, <2>10, HeapAssumption DEF Holds
    <3>2. \A g \in Heaps : g # h => Holds(v, u, g) = Holds(s, t, g)
      BY <2>4, <2>6, <2>10, NoHeapIs DEF Holds
    <3>3. QED
      BY <2>10, <3>1, <3>2 DEF Same
  <2>17. v.min[h] # NULL
    BY <2>4, <2>10, HeapAssumption
  <2>18. QED
    BY <2>2, <2>11, <2>13, <2>14, <2>15, <2>16, <2>17 DEF Sound
<1>6. QED
  BY <1>3, <1>4, <1>5

\* The heap h has got the nodes of heap a.
Whole(s, t, h, a, v) ==
    \E u : /\ Sound(v, u, prio, NULL) /\ v.value = s.value /\ v.ref = s.ref
           /\ Holds(v, u, h) = Holds(s, t, h) \cup Holds(s, t, a)
           /\ Holds(v, u, a) = {}
           /\ \A g \in Heaps \ {h, a} : Holds(v, u, g) = Holds(s, t, g)

\* The trees of two heaps without a cached node go to one of them.
LEMMA UnionIs ==
    ASSUME NEW s, NEW t, NEW h \in Heaps, NEW a \in Heaps, h # a, Sound(s, t, prio, NULL),
           prio \in [Nodes -> Nat], s.min[h] = NULL, s.min[a] = NULL
    PROVE  Whole(s, t, h, a, [Unite(s, h, s.roots[a]) EXCEPT !.roots[a] = <<>>])
<1> DEFINE u == [n \in Nodes |-> IF t[n] = a THEN h ELSE t[n]]
           x == Unite(s, h, s.roots[a])
           v == [x EXCEPT !.roots[a] = <<>>]
<1>1. /\ Forest(s, t) /\ Ordered(s, prio) /\ Cached(s, t, prio) /\ Marked(s, t, NULL)
      /\ Refs(s) /\ s \in Stores /\ t \in Places /\ Trees(s, t) /\ Roots(s, t)
  BY DEF Sound, Forest, Trees
<1>2. u \in Places /\ \A n \in Nodes : u[n] = IF t[n] = a THEN h ELSE t[n]
  BY <1>1 DEF Places
<1>3. h # NoHeap /\ a # NoHeap
  BY NoHeapIs
<1> HIDE DEF u
<1>4. Trees(s, u)
  <2>1. ASSUME NEW p \in Nodes, u[p] # NoHeap PROVE Family(s, u, p)
    <3>1. Family(s, t, p)
      BY <1>1, <1>2, <1>3, <2>1 DEF Trees
    <3>2. \A k \in 1 .. s.degree[p] : u[s.child[p][k]] = u[p]
      BY <1>2, <3>1 DEF Family
    <3>3. QED
      BY <3>1, <3>2 DEF Family
  <2>2. ASSUME NEW n \in Nodes, s.parent[n] # NULL PROVE Fathered(s, u, n)
    <3>1. Fathered(s, t, n)
      BY <1>1, <2>2 DEF Trees
    <3>2. QED
      BY <1>2, <1>3, <3>1 DEF Fathered
  <2>3. QED
    BY <1>1, <1>2, <2>1, <2>2 DEF Trees
<1>5. Rooted(s, t, h, s.roots[h]) /\ Rooted(s, t, a, s.roots[a])
  BY <1>1 DEF Roots
<1>6. Halves(s, u, h, s.roots[h], s.roots[a])
  <2> DEFINE q == s.roots[h]  r == s.roots[a]
  <2>1. /\ q \in Seq(Nodes) /\ Distinct(q) /\ Growing(Degrees(s.degree, q), Len(q))
        /\ r \in Seq(Nodes) /\ Distinct(r) /\ Growing(Degrees(s.degree, r), Len(r))
        /\ \A n \in Nodes : Has(q, n) <=> IsTop(s, t, h, n)
        /\ \A n \in Nodes : Has(r, n) <=> IsTop(s, t, a, n)
    BY <1>5 DEF Rooted, Tops
  <2> HIDE DEF q, r
  <2>2. \A n \in Nodes : Has(q, n) \/ Has(r, n) <=> IsTop(s, u, h, n)
    BY <1>2, <2>1 DEF IsTop
  <2>3. Apart(q, r)
    <3>1. SUFFICES ASSUME NEW i \in 1 .. Len(q), NEW j \in 1 .. Len(r), q[i] = r[j] PROVE FALSE
      BY DEF Apart
    <3>2. q[i] \in Nodes /\ Has(q, q[i]) /\ Has(r, q[i])
      BY <2>1, <3>1 DEF Has
    <3>3. QED
      BY <2>1, <3>2 DEF IsTop
  <2>4. QED
    BY <2>1, <2>2, <2>3 DEF Halves, q, r
<1>7. \A g \in Heaps \ {h, a} : Rooted(s, u, g, s.roots[g])
  <2>1. SUFFICES ASSUME NEW g \in Heaps \ {h, a} PROVE Rooted(s, u, g, s.roots[g])
    OBVIOUS
  <2>2. SameTrees(s, t, s, u, g)
    BY <1>2 DEF SameTrees
  <2>3. QED
    BY <1>1, <2>2, RootsStay DEF Roots
<1>8. Brought(s, u, h, x)
  BY <1>4, <1>6, UniteIs
<1> HIDE DEF x
<1>9. /\ Trees(x, u) /\ Rooted(x, u, h, x.roots[h])
      /\ x.min = s.min /\ x.value = s.value /\ x.ref = s.ref
      /\ \A n \in Nodes : u[n] # h => x.parent[n] = s.parent[n] /\ x.degree[n] = s.degree[n]
      /\ \A g \in Heaps : g # h => x.roots[g] = s.roots[g]
      /\ Ordered(x, prio)
  BY <1>1, <1>8 DEF Brought, Frame
<1>10. RootsSet(x, a, <<>>, v)
  <2>1. <<>> \in Seq(Nodes) /\ x \in Stores
    BY <1>9 DEF Trees
  <2>2. QED
    BY <2>1, SetRoots
<1> HIDE DEF v
<1>11. /\ v \in Stores /\ v.roots[a] = <<>> /\ \A g \in Heaps : g # a => v.roots[g] = x.roots[g]
       /\ v.min = s.min /\ v.child = x.child /\ v.parent = x.parent /\ v.degree = x.degree
       /\ v.value = s.value /\ v.ref = s.ref
  BY <1>9, <1>10 DEF RootsSet
<1>12. Trees(v, u)
  BY <1>9, <1>11, SameShape
<1>13. Roots(v, u)
  <2>1. SUFFICES ASSUME NEW g \in Heaps PROVE Rooted(v, u, g, v.roots[g])
    BY DEF Roots
  <2>2. CASE g = h
    <3>1. SameTrees(x, u, v, u, h)
      BY <1>11 DEF SameTrees
    <3>2. QED
      BY <1>9, <1>11, <2>2, <3>1, RootsStay
  <2>3. CASE g = a
    <3>1. \A n \in Nodes : ~IsTop(v, u, a, n)
      BY <1>2 DEF IsTop
    <3>2. <<>> \in Seq(Nodes) /\ Distinct(<<>>) /\ \A n : ~Has(<<>>, n)
      BY DEF Distinct, Has
    <3>3. Growing(Degrees(v.degree, <<>>), Len(<<>>))
      BY DEF Growing
    <3>4. QED
      BY <1>11, <2>3, <3>1, <3>2, <3>3 DEF Rooted, Tops
  <2>4. CASE g \notin {h, a}
    <3>1. SameTrees(s, u, v, u, g)
      BY <1>9, <1>11, <2>4 DEF SameTrees
    <3>2. QED
      BY <1>7, <1>9, <1>11, <2>4, <3>1, RootsStay
  <2>5. QED
    BY <2>2, <2>3, <2>4
<1>14. Ordered(v, prio)
  BY <1>9, <1>11 DEF Ordered, Behind
<1>15. Cached(v, u, prio)
  <2>1. SUFFICES ASSUME NEW g \in Heaps, s.min[g] # NULL
                 PROVE  /\ u[s.min[g]] = NoHeap
                        /\ \A f \in Heaps : s.min[f] = s.min[g] => f = g
                        /\ \A y \in Nodes : u[y] = g =>
                             prio[s.value[s.min[g]]] <= prio[s.value[y]]
    BY <1>11 DEF Cached
  <2>2. g # h /\ g # a /\ s.min[g] \in Nodes
    BY <1>1, <2>1, StoreFields
  <2>3. /\ t[s.min[g]] = NoHeap /\ \A f \in Heaps : s.min[f] = s.min[g] => f = g
        /\ \A y \in Nodes : t[y] = g => prio[s.value[s.min[g]]] <= prio[s.value[y]]
    BY <1>1, <2>1 DEF Cached
  <2>4. QED
    BY <1>2, <1>3, <2>2, <2>3
<1>16. Marked(v, u, NULL)
  <2>1. \A y \in Nodes : u[y] = NoHeap =>
          (v.degree[y] = NOT_IN_HEAP <=> \A g \in Heaps : v.min[g] # y)
    BY <1>1, <1>2, <1>3, <1>9, <1>11, HeapAssumption DEF Marked
  <2>2. QED
    BY <1>12, <2>1, MarkedIf
<1>17. Refs(v)
  BY <1>1, <1>11 DEF Refs
<1>18. Holds(v, u, h) = Holds(s, t, h) \cup Holds(s, t, a)
  BY <1>2, <1>11, HeapAssumption DEF Holds
<1>19. Holds(v, u, a) = {}
  BY <1>2, <1>11, HeapAssumption DEF Holds
<1>20. \A g \in Heaps \ {h, a} : Holds(v, u, g) = Holds(s, t, g)
  BY <1>2, <1>11 DEF Holds
<1>21. Sound(v, u, prio, NULL)
  BY <1>12, <1>13, <1>14, <1>15, <1>16, <1>17 DEF Sound, Forest
<1>22. Whole(s, t, h, a, v)
  BY <1>11, <1>18, <1>19, <1>20, <1>21 DEF Whole
<1>23. QED
  BY <1>22 DEF v, x

-----------------------------------------------------------------------------
(* Items that move up.                                                     *)
Items(s, t, h) == {s.value[n] : n \in Holds(s, t, h)}

SameItems(s, t, v, u) == \A g \in Heaps : Items(v, u, g) = Items(s, t, g)

Swapped(s, n, p, v) ==
    /\ v \in Stores /\ v.roots = s.roots /\ v.min = s.min /\ v.child = s.child
    /\ v.parent = s.parent /\ v.degree = s.degree
    /\ \A m \in Nodes : v.value[m] = IF m = p THEN s.value[n]
                                     ELSE IF m = n THEN s.value[p] ELSE s.value[m]
    /\ \A i \in Nodes : v.ref[i] = IF i = s.value[n] THEN p
                                   ELSE IF i = s.value[p] /\ i \in WithRef THEN n ELSE s.ref[i]

LEMMA SwapIs ==
    ASSUME NEW s \in Stores, NEW n \in Nodes, NEW p \in Nodes, n # p
    PROVE  Swapped(s, n, p, Swap(s, n, p))
<1>1. /\ s.roots \in [Heaps -> Seq(Nodes)] /\ s.min \in [Heaps -> Nodes \cup {NULL}]
      /\ s.child \in [Nodes -> Seq(Nodes)] /\ s.parent \in [Nodes -> Nodes \cup {NULL}]
      /\ s.degree \in [Nodes -> Nat] /\ s.value \in [Nodes -> Nodes]
      /\ s.ref \in [Nodes -> Nodes]
  BY StoreFields
<1> DEFINE va == [s.value EXCEPT ![n] = s.value[p], ![p] = s.value[n]]
           re == [i \in Nodes |-> IF i = s.value[n] THEN p
                                  ELSE IF i = s.value[p] /\ i \in WithRef THEN n ELSE s.ref[i]]
<1>2. /\ va \in [Nodes -> Nodes]
      /\ \A m \in Nodes : va[m] = IF m = p THEN s.value[n]
                                  ELSE IF m = n THEN s.value[p] ELSE s.value[m]
  BY <1>1
<1>3. /\ re \in [Nodes -> Nodes]
      /\ \A i \in Nodes : re[i] = IF i = s.value[n] THEN p
                                  ELSE IF i = s.value[p] /\ i \in WithRef THEN n ELSE s.ref[i]
  BY <1>1
<1>4. Swap(s, n, p) = [s EXCEPT !.value = va, !.ref = re]
  BY <1>1 DEF Swap
<1> HIDE DEF va, re
<1>5. QED
  BY <1>1, <1>2, <1>3, <1>4 DEF Swapped, Stores

\* No item is before that of the parent, but for the item in x and those of its
\* children, which are not before that of the parent of x.
Hole(s, pr, x) ==
    \A m \in Nodes :
      /\ s.parent[m] # NULL /\ s.parent[m] # x /\ m # x => Behind(s, pr, m)
      /\ s.parent[m] = x /\ s.parent[x] # NULL => pr[s.value[s.parent[x]]] <= pr[s.value[m]]

\* The item in x is not behind those of the children.
Over(s, pr, x) == \A m \in Nodes : s.parent[m] = x => pr[s.value[x]] <= pr[s.value[m]]

\* The item i, which is in b.n, is moving up from where it was in s.  It moves as
\* long as its priority is higher (up), or to the root.
Moving(s, t, pr, i, h, up, b) ==
    /\ b \in [s : Stores, n : Nodes]
    /\ b.s.roots = s.roots /\ b.s.min = s.min /\ b.s.child = s.child
    /\ b.s.parent = s.parent /\ b.s.degree = s.degree
    /\ t[b.n] = h /\ b.s.value[b.n] = i /\ Refs(b.s) /\ Cached(b.s, t, pr)
    /\ Hole(b.s, pr, b.n) /\ (up => Over(b.s, pr, b.n)) /\ SameItems(s, t, b.s, t)

Step(up, pr, b) == IF up THEN BubbleRound(b, pr) ELSE RootRound(b)

\* The loop goes on.
Moves(up, pr, b) ==
    /\ b.s.parent[b.n] # NULL
    /\ up => pr[b.s.value[b.n]] < pr[b.s.value[b.s.parent[b.n]]]

LEMMA SwapRefs ==
    ASSUME NEW s \in Stores, NEW n \in Nodes, NEW p \in Nodes, n # p, NEW v,
           Swapped(s, n, p, v), Refs(s)
    PROVE  Refs(v)
<1>1. s.value \in [Nodes -> Nodes] /\ s.ref \in [Nodes -> Nodes]
  BY StoreFields
<1>2. \A m \in Nodes : v.value[m] = IF m = p THEN s.value[n]
                                    ELSE IF m = n THEN s.value[p] ELSE s.value[m]
  BY DEF Swapped
<1>3. /\ \A j \in WithRef : s.value[s.ref[j]] = j
      /\ \A m, x \in Nodes : s.value[m] = s.value[x] => m = x
      /\ \A j \in Nodes : \E x \in Nodes : s.value[x] = j
  BY DEF Refs
<1>4. ASSUME NEW j \in WithRef PROVE v.value[v.ref[j]] = j
  <2>1. j \in Nodes /\ s.ref[j] \in Nodes /\ s.value[s.ref[j]] = j
    BY <1>1, <1>3, HeapAssumption
  <2>2. v.ref[j] = IF j = s.value[n] THEN p ELSE IF j = s.value[p] THEN n ELSE s.ref[j]
    BY <2>1 DEF Swapped
  <2>3. CASE j = s.value[n]
    BY <1>2, <2>2, <2>3
  <2>4. CASE j = s.value[p] /\ j # s.value[n]
    BY <1>2, <2>2, <2>4
  <2>5. CASE j # s.value[p] /\ j # s.value[n]
    BY <1>2, <2>1, <2>2, <2>5
  <2>6. QED
    BY <2>3, <2>4, <2>5
<1>5. ASSUME NEW m \in Nodes, NEW x \in Nodes, v.value[m] = v.value[x] PROVE m = x
  BY <1>2, <1>3, <1>5
<1>6. ASSUME NEW j \in Nodes PROVE \E x \in Nodes : v.value[x] = j
  <2>1. PICK x \in Nodes : s.value[x] = j
    BY <1>3
  <2>2. CASE x = n
    BY <1>2, <2>1, <2>2
  <2>3. CASE x = p
    BY <1>2, <2>1, <2>3
  <2>4. CASE x # n /\ x # p
    BY <1>2, <2>1, <2>4
  <2>5. QED
    BY <2>2, <2>3, <2>4
<1>7. QED
  BY <1>4, <1>5, <1>6 DEF Refs

\* The item moves from n to its parent.
LEMMA SwapHole ==
    ASSUME NEW s, NEW t, Trees(s, t), NEW pr \in [Nodes -> Nat], NEW n \in Nodes,
           s.parent[n] # NULL, NEW v, Swapped(s, n, s.parent[n], v), Hole(s, pr, n)
    PROVE  /\ Hole(v, pr, s.parent[n])
           /\ Over(s, pr, n) /\ pr[s.value[n]] < pr[s.value[s.parent[n]]]
                => Over(v, pr, s.parent[n])
<1> DEFINE p == s.parent[n]
<1>1. p \in Nodes /\ n # p /\ p # NULL
  <2>1. p \in Nodes /\ s.degree[n] < s.degree[p] /\ s.degree[n] \in Nat /\ s.degree[p] \in Nat
    BY ParentAbove, StoreFields DEF Trees
  <2>2. QED
    BY <2>1, HeapAssumption
<1>2. s.parent[p] # n /\ s.parent[p] # p
  <2>1. ASSUME s.parent[p] \in {n, p} PROVE FALSE
    <3>1. s.parent[p] # NULL
      BY <1>1, <2>1, HeapAssumption
    <3>2. s.degree[n] < s.degree[p] /\ s.degree[p] < s.degree[s.parent[p]]
          /\ s.degree[n] \in Nat /\ s.degree[p] \in Nat
      BY <1>1, <3>1, ParentAbove, StoreFields DEF Trees
    <3>3. QED
      BY <2>1, <3>2
  <2>2. QED
    BY <2>1
<1>3. v.parent = s.parent /\ s.parent[n] = p /\ s \in Stores
  BY DEF Swapped, Trees
<1>4. \A m \in Nodes : v.value[m] = IF m = p THEN s.value[n]
                                    ELSE IF m = n THEN s.value[p] ELSE s.value[m]
  BY DEF Swapped
<1>5. \A m \in Nodes : pr[s.value[m]] \in Nat
  BY <1>3, StoreFields
<1> HIDE DEF p
<1>6. \A m \in Nodes : s.parent[m] # NULL /\ s.parent[m] # n /\ m # n =>
        pr[s.value[s.parent[m]]] <= pr[s.value[m]]
  BY DEF Hole, Behind
<1>7. \A m \in Nodes : s.parent[m] = n => pr[s.value[p]] <= pr[s.value[m]]
  BY <1>1, <1>3 DEF Hole
<1>8. \A m \in Nodes : s.parent[m] \in Nodes \cup {NULL} /\ (s.parent[m] # NULL => s.parent[m] # m)
  <2>1. SUFFICES ASSUME NEW m \in Nodes, s.parent[m] # NULL PROVE s.parent[m] # m
    BY <1>3, StoreFields
  <2>2. s.degree[m] < s.degree[s.parent[m]] /\ s.degree[m] \in Nat
    BY <1>3, <2>1, ParentAbove, StoreFields
  <2>3. QED
    BY <2>2
<1>9. ASSUME NEW m \in Nodes, s.parent[m] # NULL, s.parent[m] # p, m # p
      PROVE  pr[v.value[s.parent[m]]] <= pr[v.value[m]]
  <2>1. m # n /\ s.parent[m] \in Nodes
    BY <1>3, <1>8, <1>9
  <2>2. CASE s.parent[m] = n
    BY <1>1, <1>4, <1>7, <1>9, <2>1, <2>2
  <2>3. CASE s.parent[m] # n
    BY <1>4, <1>6, <1>9, <2>1, <2>3
  <2>4. QED
    BY <2>2, <2>3
<1>10. ASSUME NEW m \in Nodes, s.parent[m] = p, s.parent[p] # NULL
       PROVE  pr[v.value[s.parent[p]]] <= pr[v.value[m]]
  <2> DEFINE g == s.parent[p]
  <2>1. g \in Nodes /\ g # n /\ g # p /\ v.value[g] = s.value[g]
    BY <1>1, <1>2, <1>4, <1>8, <1>10
  <2>2. pr[s.value[g]] <= pr[s.value[p]]
    BY <1>1, <1>2, <1>6, <1>10
  <2>3. m # p
    BY <1>2, <1>10
  <2> HIDE DEF g
  <2>4. CASE m = n
    BY <1>4, <2>1, <2>2, <2>3, <2>4 DEF g
  <2>5. CASE m # n
    <3>1. pr[s.value[p]] <= pr[s.value[m]]
      BY <1>1, <1>6, <1>10, <2>5
    <3>2. pr[s.value[g]] <= pr[s.value[m]]
      BY <1>1, <1>5, <2>1, <2>2, <3>1
    <3>3. QED
      BY <1>4, <2>1, <2>3, <2>5, <3>2 DEF g
  <2>6. QED
    BY <2>4, <2>5
<1>11. Hole(v, pr, p)
  BY <1>3, <1>9, <1>10 DEF Hole, Behind
<1>12. ASSUME Over(s, pr, n), pr[s.value[n]] < pr[s.value[p]] PROVE Over(v, pr, p)
  <2>1. SUFFICES ASSUME NEW m \in Nodes, s.parent[m] = p PROVE pr[v.value[p]] <= pr[v.value[m]]
    BY <1>3 DEF Over
  <2>2. m # p /\ v.value[p] = s.value[n]
    BY <1>1, <1>2, <1>4, <2>1
  <2>3. CASE m = n
    BY <1>4, <1>5, <1>1, <1>12, <2>2, <2>3
  <2>4. CASE m # n
    <3>1. pr[s.value[p]] <= pr[s.value[m]]
      BY <1>1, <1>6, <2>1, <2>4
    <3>2. pr[s.value[n]] <= pr[s.value[m]]
      BY <1>1, <1>5, <1>12, <3>1
    <3>3. QED
      BY <1>4, <2>2, <2>4, <3>2
  <2>5. QED
    BY <2>3, <2>4
<1>13. QED
  BY <1>11, <1>12 DEF p

\* One round of heap_decrease or of heap_delete.
Climbed(b, w) ==
    w.n = b.s.parent[b.n] /\ w.n \in DOMAIN b.s.degree /\ b.s.degree[b.n] < b.s.degree[w.n]

LEMMA SwapItems ==
    ASSUME NEW s, NEW t, Trees(s, t), NEW h \in Heaps, NEW n \in Nodes, NEW p \in Nodes, n # p,
           t[n] = h, t[p] = h, NEW v, Swapped(s, n, p, v), NEW pr, Cached(s, t, pr)
    PROVE  Cached(v, t, pr) /\ SameItems(s, t, v, t)
<1>1. /\ v.min = s.min /\ h # NoHeap
      /\ \A m \in Nodes : v.value[m] = IF m = p THEN s.value[n]
                                       ELSE IF m = n THEN s.value[p] ELSE s.value[m]
  BY NoHeapIs DEF Swapped
<1>2. \A g \in Heaps : s.min[g] # n /\ s.min[g] # p
  BY <1>1, HeapAssumption DEF Cached
<1>3. \A g \in Heaps : s.min[g] # NULL => s.min[g] \in Nodes
  BY StoreFields DEF Trees
<1>4. Cached(v, t, pr)
  <2>1. SUFFICES ASSUME NEW g \in Heaps, s.min[g] # NULL
                 PROVE  /\ t[s.min[g]] = NoHeap
                        /\ \A f \in Heaps : s.min[f] = s.min[g] => f = g
                        /\ \A y \in Nodes : t[y] = g =>
                             pr[v.value[s.min[g]]] <= pr[v.value[y]]
    BY <1>1 DEF Cached
  <2>2. /\ t[s.min[g]] = NoHeap /\ \A f \in Heaps : s.min[f] = s.min[g] => f = g
        /\ \A y \in Nodes : t[y] = g => pr[s.value[s.min[g]]] <= pr[s.value[y]]
    BY <2>1 DEF Cached
  <2>3. v.value[s.min[g]] = s.value[s.min[g]]
    BY <1>1, <1>2, <1>3, <2>1
  <2>4. ASSUME NEW y \in Nodes, t[y] = g PROVE pr[s.value[s.min[g]]] <= pr[v.value[y]]
    <3>1. CASE y = n
      BY <1>1, <2>2, <2>4, <3>1
    <3>2. CASE y = p
      BY <1>1, <2>2, <2>4, <3>2
    <3>3. CASE y # n /\ y # p
      BY <1>1, <2>2, <2>4, <3>3
    <3>4. QED
      BY <3>1, <3>2, <3>3
  <2>5. QED
    BY <2>2, <2>3, <2>4
<1>5. \A g \in Heaps : Holds(v, t, g) = Holds(s, t, g)
  BY <1>1 DEF Holds
<1>6. \A g \in Heaps : n \in Holds(s, t, g) <=> p \in Holds(s, t, g)
  BY <1>2 DEF Holds
<1>7. SUFFICES ASSUME NEW g \in Heaps PROVE Items(v, t, g) = Items(s, t, g)
  BY <1>4 DEF SameItems
<1> DEFINE H == Holds(s, t, g)
<1>8. H \subseteq Nodes /\ (n \in H <=> p \in H)
  BY <1>6 DEF Holds
<1> HIDE DEF H
<1>9. {v.value[m] : m \in H} \subseteq {s.value[m] : m \in H}
  BY <1>1, <1>8
<1>10. {s.value[m] : m \in H} \subseteq {v.value[m] : m \in H}
  <2>1. SUFFICES ASSUME NEW m \in H PROVE \E x \in H : v.value[x] = s.value[m]
    OBVIOUS
  <2>2. CASE m = n
    BY <1>1, <1>8, <2>2
  <2>3. CASE m = p
    BY <1>1, <1>8, <2>3
  <2>4. CASE m # n /\ m # p
    BY <1>1, <1>8, <2>4
  <2>5. QED
    BY <2>2, <2>3, <2>4
<1>11. QED
  BY <1>5, <1>9, <1>10 DEF Items, H

LEMMA MovingStep ==
    ASSUME NEW s, NEW t, Trees(s, t), NEW pr \in [Nodes -> Nat], NEW i, NEW h \in Heaps,
           NEW up \in BOOLEAN, NEW b, Moving(s, t, pr, i, h, up, b)
    PROVE  /\ Moving(s, t, pr, i, h, up, Step(up, pr, b))
           /\ ~Moves(up, pr, b) => Step(up, pr, b) = b
           /\ Moves(up, pr, b) => Climbed(b, Step(up, pr, b))
<1> DEFINE x == b.s
           n == b.n
           p == x.parent[n]
           v == Swap(x, n, p)
           w == [s |-> v, n |-> p]
<1>1. /\ x \in Stores /\ n \in Nodes /\ x.roots = s.roots /\ x.min = s.min
      /\ x.child = s.child /\ x.parent = s.parent /\ x.degree = s.degree
      /\ t[n] = h /\ x.value[n] = i /\ Refs(x) /\ Cached(x, t, pr)
      /\ Hole(x, pr, n) /\ (up => Over(x, pr, n)) /\ SameItems(s, t, x, t)
  BY DEF Moving
<1>2. Step(up, pr, b) = IF Moves(up, pr, b) THEN w ELSE b
  BY DEF Step, Moves, BubbleRound, RootRound
<1>3. CASE ~Moves(up, pr, b)
  BY <1>2, <1>3
<1>4. CASE Moves(up, pr, b)
  <2>1. p # NULL /\ (up => pr[x.value[n]] < pr[x.value[p]])
    BY <1>4 DEF Moves
  <2>2. Trees(x, t)
    BY <1>1, SameShape
  <2>3. /\ p \in Nodes /\ t[p] = h /\ x.degree[n] < x.degree[p]
        /\ x.degree[n] \in Nat /\ x.degree[p] \in Nat
    BY <1>1, <2>1, <2>2, ParentAbove, StoreFields
  <2>4. n # p
    BY <2>3
  <2>5. Swapped(x, n, p, v)
    BY <1>1, <2>3, <2>4, SwapIs
  <2> HIDE DEF v
  <2>6. Refs(v)
    BY <1>1, <2>3, <2>4, <2>5, SwapRefs
  <2>7. Hole(v, pr, p) /\ (up => Over(v, pr, p))
    BY <1>1, <2>1, <2>2, <2>5, SwapHole
  <2>8. Cached(v, t, pr) /\ SameItems(x, t, v, t)
    BY <1>1, <2>2, <2>3, <2>4, <2>5, SwapItems
  <2>9. /\ v \in Stores /\ v.roots = x.roots /\ v.min = x.min /\ v.child = x.child
        /\ v.parent = x.parent /\ v.degree = x.degree /\ v.value[p] = x.value[n]
    BY <2>3, <2>5 DEF Swapped
  <2> HIDE DEF p, x, n
  <2>10. w \in [s : Stores, n : Nodes] /\ w.s = v /\ w.n = p
    BY <2>3, <2>9
  <2> HIDE DEF w
  <2>11. SameItems(s, t, v, t)
    BY <1>1, <2>8 DEF SameItems
  <2>12. Moving(s, t, pr, i, h, up, w)
    BY <1>1, <2>3, <2>6, <2>7, <2>8, <2>9, <2>10, <2>11 DEF Moving
  <2>13. Climbed(b, w)
    <3>1. DOMAIN x.degree = Nodes
      BY <1>1, StoreFields
    <3>2. QED
      BY <2>3, <2>10, <3>1 DEF Climbed, p, x, n
  <2>14. QED
    BY <1>2, <1>4, <2>12, <2>13
<1>5. QED
  BY <1>3, <1>4

\* A sequence of rounds up the tree: at the end nothing moves.
Rose(up, pr, x, n) ==
    IF up THEN Rounds(LAMBDA b : BubbleRound(b, pr), x, n) ELSE Rounds(RootRound, x, n)

RoseRun(c, up, pr, S, x) ==
    /\ c[0] = x /\ \A i \in Nat : c[i] \in S /\ c[i + 1] = Step(up, pr, c[i])
    /\ \A n \in Nat : Rose(up, pr, x, n) = c[n]

LEMMA RoseRounds ==
    ASSUME NEW S, NEW x \in S, NEW up \in BOOLEAN, NEW pr, \A y \in S : Step(up, pr, y) \in S
    PROVE  \E c : RoseRun(c, up, pr, S, x)
<1> DEFINE g == [y \in S |-> Step(up, pr, y)]
           Run(r) == r = [i \in Nat |-> IF i = 0 THEN x ELSE Step(up, pr, r[i - 1])]
           Bubbles(r) == r = [i \in Nat |-> IF i = 0 THEN x ELSE BubbleRound(r[i - 1], pr)]
           Rises(r) == r = [i \in Nat |-> IF i = 0 THEN x ELSE RootRound(r[i - 1])]
           c == IF up THEN CHOOSE r : Bubbles(r) ELSE CHOOSE r : Rises(r)
<1>1. g \in [S -> S]
  OBVIOUS
<1> HIDE DEF g
<1>2. \E r \in [Nat -> S] : r = [i \in Nat |-> IF i = 0 THEN x ELSE g[r[i - 1]]]
  BY <1>1, RoundsStay
<1>3. PICK r \in [Nat -> S] : r = [i \in Nat |-> IF i = 0 THEN x ELSE g[r[i - 1]]]
  BY <1>2
<1>4. \A i \in Nat : i # 0 => g[r[i - 1]] = Step(up, pr, r[i - 1])
  BY DEF g
<1>5. Run(r)
  BY <1>3, <1>4
<1>6. Run(c) /\ \A n \in Nat : Rose(up, pr, x, n) = c[n]
  <2>1. CASE up
    <3>1. \A y : Step(up, pr, y) = BubbleRound(y, pr)
      BY <2>1 DEF Step
    <3>2. Bubbles(r)
      BY <1>5, <3>1
    <3>3. Bubbles(c)
      BY <2>1, <3>2
    <3>4. \A n \in Nat : Rose(up, pr, x, n) = c[n]
      BY <2>1 DEF Rose, Rounds
    <3>5. Run(c)
      BY <3>1, <3>3
    <3>6. QED
      BY <3>4, <3>5
  <2>2. CASE ~up
    <3>1. \A y : Step(up, pr, y) = RootRound(y)
      BY <2>2 DEF Step
    <3>2. Rises(r)
      BY <1>5, <3>1
    <3>3. Rises(c)
      BY <2>2, <3>2
    <3>4. \A n \in Nat : Rose(up, pr, x, n) = c[n]
      BY <2>2 DEF Rose, Rounds
    <3>5. Run(c)
      BY <3>1, <3>3
    <3>6. QED
      BY <3>4, <3>5
  <2>3. QED
    BY <2>1, <2>2
<1> HIDE DEF c
<1>7. c[0] = x /\ \A i \in Nat : c[i + 1] = Step(up, pr, c[i])
  BY <1>6
<1> DEFINE U == {i \in Nat : c[i] \in S}
<1>8. 0 \in U
  BY <1>7
<1>9. ASSUME NEW i \in Nat, i \in U PROVE i + 1 \in U
  BY <1>7, <1>9
<1> HIDE DEF U
<1>10. Nat \subseteq U
  BY <1>8, <1>9, SetInduction
<1>11. RoseRun(c, up, pr, S, x)
  BY <1>6, <1>7, <1>10 DEF U, RoseRun
<1>12. QED
  BY <1>11

\* What the loop makes of it: the item is where nothing moves it any more.
LEMMA RoseEnds ==
    ASSUME NEW s, NEW t, Trees(s, t), NEW pr \in [Nodes -> Nat], NEW i, NEW h \in Heaps,
           NEW up \in BOOLEAN, NEW b, Moving(s, t, pr, i, h, up, b)
    PROVE  LET w == Rose(up, pr, b, Cardinality(Nodes))
           IN  Moving(s, t, pr, i, h, up, w) /\ ~Moves(up, pr, w)
<1> DEFINE S == {x \in [s : Stores, n : Nodes] : Moving(s, t, pr, i, h, up, x)}
           N == Cardinality(Nodes)
<1>1. b \in S /\ N \in Nat
  BY HeapAssumption, FS_CardinalityType DEF Moving
<1>2. \A x \in S : Moving(s, t, pr, i, h, up, x)
  OBVIOUS
<1>3. \A x : Moving(s, t, pr, i, h, up, x) => x \in S
  BY DEF Moving
<1> HIDE DEF S
<1>4. \A x \in S : /\ Step(up, pr, x) \in S /\ (~Moves(up, pr, x) => Step(up, pr, x) = x)
                   /\ Moves(up, pr, x) => Climbed(x, Step(up, pr, x))
  BY <1>2, <1>3, MovingStep
<1>5. PICK c : RoseRun(c, up, pr, S, b)
  BY <1>1, <1>4, RoseRounds
<1>6. /\ c[0] = b /\ \A k \in Nat : c[k] \in S /\ c[k + 1] = Step(up, pr, c[k])
      /\ \A n \in Nat : Rose(up, pr, b, n) = c[n]
  BY <1>5 DEF RoseRun
<1>7. \A x \in S : s.degree[x.n] \in Nat /\ s.degree[x.n] <= N /\ x.s.degree = s.degree
                   /\ s.degree \in [Nodes -> Nat] /\ x.n \in Nodes
  <2>1. SUFFICES ASSUME NEW x \in S
                 PROVE  s.degree[x.n] \in Nat /\ s.degree[x.n] <= N /\ x.s.degree = s.degree
                        /\ s.degree \in [Nodes -> Nat] /\ x.n \in Nodes
    OBVIOUS
  <2>2. x.n \in Nodes /\ t[x.n] = h /\ x.s.degree = s.degree /\ s \in Stores
    BY <1>2 DEF Moving, Trees
  <2>3. QED
    BY <2>2, NoHeapIs, DegreeBound, StoreFields
<1>8. \A x \in S : Moves(up, pr, x) => /\ s.degree[x.n] < s.degree[Step(up, pr, x).n]
                                       /\ s.degree[x.n] < N
  <2>1. SUFFICES ASSUME NEW x \in S, Moves(up, pr, x)
                 PROVE  /\ s.degree[x.n] < s.degree[Step(up, pr, x).n]
                        /\ s.degree[x.n] < N
    OBVIOUS
  <2>2. Step(up, pr, x) \in S /\ Climbed(x, Step(up, pr, x))
    BY <1>4, <2>1
  <2>3. s.degree[x.n] < s.degree[Step(up, pr, x).n]
    BY <1>7, <2>2 DEF Climbed
  <2>4. s.degree[Step(up, pr, x).n] <= N /\ s.degree[Step(up, pr, x).n] \in Nat
        /\ s.degree[x.n] \in Nat
    BY <1>7, <2>2
  <2>5. QED
    BY <1>1, <2>3, <2>4
<1> DEFINE m == [k \in Nat |-> IF Moves(up, pr, c[k]) THEN N - s.degree[c[k].n] ELSE 0]
<1>9. \A k \in Nat : m[k] = IF Moves(up, pr, c[k]) THEN N - s.degree[c[k].n] ELSE 0
  OBVIOUS
<1> HIDE DEF m, N
<1>10. ASSUME NEW k \in Nat
       PROVE  m[k] \in Nat /\ m[k] <= N /\ (Moves(up, pr, c[k]) => m[k] # 0)
  <2>1. c[k] \in S /\ s.degree[c[k].n] \in Nat
    BY <1>6, <1>7
  <2>2. CASE Moves(up, pr, c[k])
    <3> DEFINE d == s.degree[c[k].n]
    <3>1. d < N /\ d \in Nat /\ m[k] = N - d
      BY <1>8, <1>9, <2>1, <2>2
    <3> HIDE DEF d
    <3>2. QED
      BY <1>1, <3>1
  <2>3. CASE ~Moves(up, pr, c[k])
    BY <1>1, <1>9, <2>3
  <2>4. QED
    BY <2>2, <2>3
<1>11. ASSUME NEW k \in Nat PROVE m[k + 1] < m[k] \/ (m[k] = 0 /\ m[k + 1] = 0)
  <2>1. c[k] \in S /\ c[k + 1] \in S /\ c[k + 1] = Step(up, pr, c[k]) /\ k + 1 \in Nat
    BY <1>6
  <2>2. CASE ~Moves(up, pr, c[k])
    BY <1>4, <1>9, <2>1, <2>2
  <2>3. CASE Moves(up, pr, c[k]) /\ ~Moves(up, pr, c[k + 1])
    <3>1. m[k] \in Nat /\ m[k] # 0 /\ m[k + 1] = 0
      BY <1>9, <1>10, <2>1, <2>3
    <3>2. QED
      BY <3>1
  <2>4. CASE Moves(up, pr, c[k]) /\ Moves(up, pr, c[k + 1])
    <3> DEFINE d == s.degree[c[k].n]
               e == s.degree[c[k + 1].n]
    <3>1. d \in Nat /\ e \in Nat /\ d < e /\ m[k] = N - d /\ m[k + 1] = N - e
      BY <1>7, <1>8, <1>9, <2>1, <2>4
    <3> HIDE DEF d, e
    <3>2. QED
      BY <1>1, <3>1
  <2>5. QED
    BY <2>2, <2>3, <2>4
<1>12. m[N] = 0
  BY <1>1, <1>10, <1>11, RoundsEnd
<1>13. ~Moves(up, pr, c[N])
  BY <1>1, <1>10, <1>12
<1>14. Rose(up, pr, b, N) = c[N] /\ c[N] \in S
  BY <1>1, <1>6
<1>15. QED
  BY <1>2, <1>13, <1>14 DEF N

\* What the heaps hold, when only h changes, and in what way.
Loses(s, t, h, i, v, u) ==
    /\ Items(v, u, h) = Items(s, t, h) \ {i}
    /\ \A g \in Heaps : g # h => Items(v, u, g) = Items(s, t, g)

LEMMA ItemsLose ==
    ASSUME NEW s, NEW t, Refs(s), NEW h \in Heaps, NEW n \in Nodes, NEW v, NEW u,
           v.value = s.value, Holds(v, u, h) = Holds(s, t, h) \ {n},
           \A g \in Heaps : g # h => Holds(v, u, g) = Holds(s, t, g)
    PROVE  Loses(s, t, h, s.value[n], v, u)
<1>1. \A x, y \in Nodes : s.value[x] = s.value[y] => x = y
  BY DEF Refs
<1>2. Holds(s, t, h) \subseteq Nodes
  BY DEF Holds
<1>3. Items(v, u, h) = {s.value[m] : m \in Holds(s, t, h) \ {n}}
  BY DEF Items
<1>4. {s.value[m] : m \in Holds(s, t, h) \ {n}} = {s.value[m] : m \in Holds(s, t, h)} \ {s.value[n]}
  BY <1>1, <1>2
<1>5. QED
  BY <1>3, <1>4 DEF Loses, Items

\* The node of an item with a reference.
LEMMA ItemNode ==
    ASSUME NEW s \in Stores, Refs(s), NEW t, NEW h \in Heaps, NEW i \in WithRef,
           i \in Items(s, t, h)
    PROVE  /\ s.ref[i] \in Holds(s, t, h) /\ s.ref[i] \in Nodes /\ s.value[s.ref[i]] = i
           /\ i \in Nodes /\ \A m \in Nodes : m # s.ref[i] => s.value[m] # i
<1>1. i \in Nodes /\ s.ref[i] \in Nodes /\ s.value[s.ref[i]] = i
  BY HeapAssumption, StoreFields DEF Refs
<1>2. \A x, y \in Nodes : s.value[x] = s.value[y] => x = y
  BY DEF Refs
<1>3. PICK m \in Holds(s, t, h) : i = s.value[m]
  BY DEF Items
<1>4. m \in Nodes
  BY <1>3 DEF Holds
<1>5. QED
  BY <1>1, <1>2, <1>3, <1>4

\* The item in n, and no other, gets a higher priority.
Raised(s, n, pr) ==
    /\ pr \in [Nodes -> Nat] /\ pr[s.value[n]] < prio[s.value[n]]
    /\ \A m \in Nodes : m # n => pr[s.value[m]] = prio[s.value[m]]

\* No other node of its heap is cached: the cached ones are still not behind any.
LEMMA CachedRaised ==
    ASSUME NEW s, NEW t, Trees(s, t), Cached(s, t, prio), prio \in [Nodes -> Nat],
           NEW n \in Nodes, NEW pr, Raised(s, n, pr), NEW h \in Heaps,
           t[n] = h \/ s.min[h] = n, s.min[h] \in {NULL, n}
    PROVE  Cached(s, t, pr)
<1>1. \A g \in Heaps : s.min[g] # NULL => s.min[g] \in Nodes
  BY StoreFields DEF Trees
<1>2. /\ \A m \in Nodes : prio[s.value[m]] \in Nat /\ pr[s.value[m]] \in Nat
      /\ pr[s.value[n]] < prio[s.value[n]]
      /\ \A m \in Nodes : m # n => pr[s.value[m]] = prio[s.value[m]]
  BY StoreFields DEF Trees, Raised
<1>3. SUFFICES ASSUME NEW g \in Heaps, s.min[g] # NULL
               PROVE  /\ t[s.min[g]] = NoHeap
                      /\ \A f \in Heaps : s.min[f] = s.min[g] => f = g
                      /\ \A y \in Nodes : t[y] = g => pr[s.value[s.min[g]]] <= pr[s.value[y]]
  BY DEF Cached
<1>4. /\ t[s.min[g]] = NoHeap /\ \A f \in Heaps : s.min[f] = s.min[g] => f = g
      /\ \A y \in Nodes : t[y] = g => prio[s.value[s.min[g]]] <= prio[s.value[y]]
  BY <1>3 DEF Cached
<1>5. h # NoHeap /\ g # NoHeap
  BY NoHeapIs
<1>6. ASSUME NEW y \in Nodes, t[y] = g PROVE pr[s.value[s.min[g]]] <= pr[s.value[y]]
  <2>1. CASE g = h
    <3>1. s.min[g] = n /\ y # n
      BY <1>3, <1>4, <1>5, <1>6, <2>1
    <3>2. pr[s.value[y]] = prio[s.value[y]] /\ prio[s.value[n]] <= prio[s.value[y]]
      BY <1>2, <1>4, <1>6, <3>1
    <3>3. QED
      BY <1>2, <3>1, <3>2
  <2>2. CASE g # h
    <3>1. s.min[g] # n /\ y # n
      <4>1. CASE t[n] = h
        BY <1>4, <1>5, <1>6, <2>2, <4>1
      <4>2. CASE s.min[h] = n
        <5>1. t[n] = NoHeap
          BY <4>2, HeapAssumption DEF Cached
        <5>2. QED
          BY <1>4, <1>5, <1>6, <2>2, <4>2, <5>1
      <4>3. QED
        BY <4>1, <4>2
    <3>2. QED
      BY <1>1, <1>2, <1>3, <1>4, <1>6, <3>1
  <2>3. QED
    BY <2>1, <2>2
<1>7. QED
  BY <1>4, <1>6

\* The node of the item is in a tree: the loop begins.
LEMMA DecreaseBegins ==
    ASSUME NEW s, NEW t, Sound(s, t, prio, NULL), prio \in [Nodes -> Nat], NEW h \in Heaps,
           NEW n \in Nodes, t[n] = h, s.min[h] = NULL, NEW pr, Raised(s, n, pr)
    PROVE  Moving(s, t, pr, s.value[n], h, TRUE, [s |-> s, n |-> n])
<1>1. /\ Forest(s, t) /\ Ordered(s, prio) /\ Cached(s, t, prio) /\ Marked(s, t, NULL)
      /\ Refs(s) /\ s \in Stores /\ Trees(s, t)
  BY DEF Sound, Forest, Trees
<1>2. \A m \in Nodes : /\ s.value[m] \in Nodes /\ prio[s.value[m]] \in Nat
                       /\ pr[s.value[m]] \in Nat /\ s.parent[m] \in Nodes \cup {NULL}
                       /\ s.parent[m] # NULL => s.parent[m] # m
  <2>1. \A m \in Nodes : s.value[m] \in Nodes /\ s.parent[m] \in Nodes \cup {NULL}
    BY <1>1, StoreFields
  <2>2. ASSUME NEW m \in Nodes, s.parent[m] # NULL PROVE s.parent[m] # m
    <3>1. s.degree[m] < s.degree[s.parent[m]] /\ s.degree[m] \in Nat
      BY <1>1, <2>2, ParentAbove, StoreFields
    <3>2. QED
      BY <3>1
  <2>3. QED
    BY <2>1, <2>2 DEF Raised
<1>3. /\ pr[s.value[n]] < prio[s.value[n]]
      /\ \A m \in Nodes : m # n => pr[s.value[m]] = prio[s.value[m]]
  BY DEF Raised
<1>4. \A m \in Nodes : s.parent[m] # NULL => prio[s.value[s.parent[m]]] <= prio[s.value[m]]
  BY <1>1 DEF Ordered, Behind
<1>5. Cached(s, t, pr)
  BY <1>1, CachedRaised
<1>6. Over(s, pr, n)
  <2>1. SUFFICES ASSUME NEW m \in Nodes, s.parent[m] = n
                 PROVE  pr[s.value[n]] <= pr[s.value[m]]
    BY DEF Over
  <2>2. m # n /\ prio[s.value[n]] <= prio[s.value[m]]
    BY <1>2, <1>4, <2>1, HeapAssumption
  <2>3. QED
    BY <1>2, <1>3, <2>2
<1>7. ASSUME NEW m \in Nodes, s.parent[m] # NULL, s.parent[m] # n, m # n
      PROVE  pr[s.value[s.parent[m]]] <= pr[s.value[m]]
  BY <1>2, <1>3, <1>4, <1>7
<1>8. ASSUME NEW m \in Nodes, s.parent[m] = n, s.parent[n] # NULL
      PROVE  pr[s.value[s.parent[n]]] <= pr[s.value[m]]
  <2> DEFINE g == s.parent[n]
  <2>1. m # n /\ g # n /\ g \in Nodes
    BY <1>2, <1>8, HeapAssumption
  <2>2. prio[s.value[g]] <= prio[s.value[n]] /\ prio[s.value[n]] <= prio[s.value[m]]
    BY <1>4, <1>8, HeapAssumption
  <2> HIDE DEF g
  <2>3. pr[s.value[g]] <= pr[s.value[m]]
    BY <1>2, <1>3, <2>1, <2>2
  <2>4. QED
    BY <2>3 DEF g
<1>9. Hole(s, pr, n)
  BY <1>7, <1>8 DEF Hole, Behind
<1>10. SameItems(s, t, s, t)
  BY DEF SameItems
<1>11. QED
  BY <1>1, <1>5, <1>6, <1>9, <1>10 DEF Moving

\* The item has come to where the loop leaves it: all is in order again.
LEMMA DecreaseEnds ==
    ASSUME NEW s, NEW t, Sound(s, t, prio, NULL), NEW h \in Heaps, NEW pr \in [Nodes -> Nat],
           NEW i, NEW b, Moving(s, t, pr, i, h, TRUE, b), ~Moves(TRUE, pr, b)
    PROVE  Sound(b.s, t, pr, NULL) /\ SameItems(s, t, b.s, t)
<1> DEFINE v == b.s
           n == b.n
<1>1. /\ v \in Stores /\ n \in Nodes /\ v.roots = s.roots /\ v.min = s.min
      /\ v.child = s.child /\ v.parent = s.parent /\ v.degree = s.degree
      /\ Refs(v) /\ Cached(v, t, pr) /\ Hole(v, pr, n) /\ Over(v, pr, n) /\ SameItems(s, t, v, t)
  BY DEF Moving
<1>2. v.parent[n] = NULL \/ ~(pr[v.value[n]] < pr[v.value[v.parent[n]]])
  BY DEF Moves
<1> HIDE DEF v, n
<1>3. \A m \in Nodes : v.parent[m] \in Nodes \cup {NULL} /\ pr[v.value[m]] \in Nat
  BY <1>1, StoreFields
<1>4. Ordered(v, pr)
  <2>1. SUFFICES ASSUME NEW m \in Nodes, v.parent[m] # NULL
                 PROVE  pr[v.value[v.parent[m]]] <= pr[v.value[m]]
    BY DEF Ordered, Behind
  <2>2. CASE m = n
    BY <1>2, <1>3, <2>1, <2>2
  <2>3. CASE v.parent[m] = n
    BY <1>1, <2>3 DEF Over
  <2>4. CASE m # n /\ v.parent[m] # n
    BY <1>1, <2>1, <2>4 DEF Hole, Behind
  <2>5. QED
    BY <2>2, <2>3, <2>4
<1>5. Forest(v, t) /\ Marked(v, t, NULL)
  <2>1. Forest(s, t) /\ Marked(s, t, NULL)
    BY DEF Sound
  <2>2. QED
    BY <1>1, <2>1, SameForest DEF Marked
<1>6. QED
  BY <1>1, <1>4, <1>5 DEF Sound, v

\* heap_decrease: the item has gone up to where its priority belongs.
LEMMA DecreaseIs ==
    ASSUME NEW s, NEW t, Sound(s, t, prio, NULL), prio \in [Nodes -> Nat], NEW h \in Heaps,
           NEW n \in Nodes, n \in Holds(s, t, h), NEW pr, Raised(s, n, pr),
           s.min[h] \in {NULL, n}
    PROVE  LET v == IF s.min[h] = n THEN s
                    ELSE Rose(TRUE, pr, [s |-> s, n |-> n], Cardinality(Nodes)).s
           IN  Sound(v, t, pr, NULL) /\ SameItems(s, t, v, t)
<1>1. /\ Forest(s, t) /\ Ordered(s, prio) /\ Cached(s, t, prio) /\ Marked(s, t, NULL)
      /\ Refs(s) /\ s \in Stores /\ Trees(s, t)
  BY DEF Sound, Forest, Trees
<1>2. t[n] = h \/ s.min[h] = n
  BY DEF Holds
<1>3. pr \in [Nodes -> Nat]
  BY DEF Raised
<1>4. CASE s.min[h] = n
  <2>1. t[n] = NoHeap
    BY <1>1, <1>4, HeapAssumption DEF Cached
  <2>2. Cached(s, t, pr)
    BY <1>1, <1>2, <1>4, CachedRaised
  <2>3. Ordered(s, pr)
    <3>1. SUFFICES ASSUME NEW m \in Nodes, s.parent[m] # NULL
                   PROVE  pr[s.value[s.parent[m]]] <= pr[s.value[m]]
      BY DEF Ordered, Behind
    <3>2. s.parent[m] \in Nodes /\ t[m] # NoHeap /\ t[s.parent[m]] # NoHeap
      BY <1>1, <3>1, ParentAbove
    <3>3. prio[s.value[s.parent[m]]] <= prio[s.value[m]]
      BY <1>1, <3>1 DEF Ordered, Behind
    <3>4. QED
      BY <2>1, <3>2, <3>3 DEF Raised
  <2>4. QED
    BY <1>1, <1>4, <2>2, <2>3 DEF Sound, SameItems
<1>5. CASE s.min[h] # n
  <2> DEFINE b == [s |-> s, n |-> n]
             w == Rose(TRUE, pr, b, Cardinality(Nodes))
  <2>1. t[n] = h /\ s.min[h] = NULL
    BY <1>2, <1>5
  <2>2. Moving(s, t, pr, s.value[n], h, TRUE, b)
    BY <2>1, DecreaseBegins
  <2> HIDE DEF b
  <2>3. Moving(s, t, pr, s.value[n], h, TRUE, w) /\ ~Moves(TRUE, pr, w)
    BY <1>1, <1>3, <2>2, RoseEnds
  <2> HIDE DEF w
  <2>4. Sound(w.s, t, pr, NULL) /\ SameItems(s, t, w.s, t)
    BY <1>3, <2>3, DecreaseEnds
  <2>5. QED
    BY <1>5, <2>4 DEF b, w
<1>6. QED
  BY <1>4, <1>5

\* The root n of heap h leaves the trees.
RootGone(s, t, h, n, v, u) ==
    /\ Sound(v, u, prio, n) /\ u[n] = NoHeap /\ (\A g \in Heaps : v.min[g] # n)
    /\ v.value = s.value /\ v.ref = s.ref /\ Holds(v, u, h) = Holds(s, t, h) \ {n}
    /\ \A g \in Heaps : g # h => Holds(v, u, g) = Holds(s, t, g)

LEMMA RootGoes ==
    ASSUME NEW s, NEW t, Forest(s, t), Cached(s, t, prio), Marked(s, t, NULL), Refs(s),
           prio \in [Nodes -> Nat], NEW h \in Heaps, NEW k \in 1 .. Len(s.roots[h]),
           NEW n, n = s.roots[h][k], OrderedBut(s, prio, n)
    PROVE  RootGone(s, t, h, n, RemoveRoot(s, h, k), [t EXCEPT ![n] = NoHeap])
<1> DEFINE v == RemoveRoot(s, h, k)
           u == [t EXCEPT ![n] = NoHeap]
<1>1. n \in Nodes /\ t[n] = h /\ Kept(s, u, v) /\ Ordered(v, prio)
  <2>1. Removed(s, t, h, n, v)
    BY RemoveKeeps
  <2>2. QED
    BY <2>1 DEF Removed
<1>2. /\ h # NoHeap /\ s \in Stores /\ t \in Places
      /\ \A g \in Heaps : s.min[g] # NULL => s.min[g] \in Nodes
  BY NoHeapIs, StoreFields DEF Forest, Trees
<1>3. u[n] = NoHeap /\ \A m \in Nodes : m # n => u[m] = t[m]
  BY <1>1, <1>2 DEF Places
<1> HIDE DEF u, v
<1>4. /\ Forest(v, u) /\ v.min = s.min /\ v.value = s.value /\ v.ref = s.ref
      /\ \A m \in Nodes : u[m] = NoHeap => v.degree[m] = s.degree[m]
  BY <1>1 DEF Kept
<1>5. \A g \in Heaps : s.min[g] # n
  BY <1>1, <1>2, HeapAssumption DEF Cached
<1>6. Cached(v, u, prio)
  <2>1. SUFFICES ASSUME NEW g \in Heaps, s.min[g] # NULL
                 PROVE  /\ u[s.min[g]] = NoHeap
                        /\ \A f \in Heaps : s.min[f] = s.min[g] => f = g
                        /\ \A y \in Nodes : u[y] = g =>
                             prio[s.value[s.min[g]]] <= prio[s.value[y]]
    BY <1>4 DEF Cached
  <2>2. /\ t[s.min[g]] = NoHeap /\ \A f \in Heaps : s.min[f] = s.min[g] => f = g
        /\ \A y \in Nodes : t[y] = g => prio[s.value[s.min[g]]] <= prio[s.value[y]]
    BY <2>1 DEF Cached
  <2>3. g # NoHeap
    BY NoHeapIs
  <2>4. QED
    BY <1>2, <1>3, <1>5, <2>1, <2>2, <2>3
<1>7. Marked(v, u, n)
  <2>1. \A m \in Nodes : m # NULL => (s.degree[m] = NOT_IN_HEAP <=>
                                      t[m] = NoHeap /\ \A g \in Heaps : s.min[g] # m)
    BY DEF Marked
  <2>2. \A m \in Nodes : u[m] = NoHeap /\ m # n =>
          (v.degree[m] = NOT_IN_HEAP <=> \A g \in Heaps : v.min[g] # m)
    BY <1>3, <1>4, <2>1, HeapAssumption
  <2>3. QED
    BY <1>4, <2>2, MarkedIf DEF Forest
<1>8. Refs(v)
  BY <1>4 DEF Refs
<1>9. Holds(v, u, h) = Holds(s, t, h) \ {n}
  BY <1>2, <1>3, <1>4, <1>5 DEF Holds
<1>10. \A g \in Heaps : g # h => Holds(v, u, g) = Holds(s, t, g)
  BY <1>1, <1>3, <1>4, NoHeapIs DEF Holds
<1>11. QED
  BY <1>1, <1>3, <1>4, <1>5, <1>6, <1>7, <1>8, <1>9, <1>10 DEF RootGone, Sound, u, v

\* heap_delete: the item has gone, and the others are in the heaps they were in.
LEMMA DeleteIs ==
    ASSUME NEW s, NEW t, Sound(s, t, prio, NULL), prio \in [Nodes -> Nat], NEW h \in Heaps,
           NEW n \in Nodes, n \in Holds(s, t, h)
    PROVE  LET v == DeleteNode(s, h, n)
           IN  \E u : Sound(v, u, prio, NULL) /\ Loses(s, t, h, s.value[n], v, u)
<1>1. /\ Forest(s, t) /\ Ordered(s, prio) /\ Cached(s, t, prio) /\ Marked(s, t, NULL)
      /\ Refs(s) /\ s \in Stores /\ Trees(s, t)
  BY DEF Sound, Forest, Trees
<1>2. t[n] = h \/ s.min[h] = n
  BY DEF Holds
<1>3. CASE s.min[h] = n
  <2> DEFINE x == [s EXCEPT !.min[h] = NULL]
             v == Leave(x, n)
  <2>1. Out(s, t, h, x)
    BY <1>3, HeapAssumption, MinOut
  <2> HIDE DEF x
  <2>2. /\ t[n] = NoHeap /\ (\A g \in Heaps : x.min[g] # n) /\ Sound(x, t, prio, n)
        /\ Holds(x, t, h) = Holds(s, t, h) \ {n} /\ x.value = s.value
        /\ \A g \in Heaps : g # h => Holds(x, t, g) = Holds(s, t, g)
    BY <1>3, <2>1 DEF Out
  <2>3. Sound(v, t, prio, NULL) /\ Same(x, t, v, t)
    BY <2>2, LeaveIs
  <2> HIDE DEF v
  <2>4. Loses(s, t, h, s.value[n], v, t)
    BY <1>1, <2>2, <2>3, ItemsLose DEF Same
  <2>5. DeleteNode(s, h, n) = v
    BY <1>3 DEF DeleteNode, v, x
  <2>6. QED
    BY <2>3, <2>4, <2>5
<1>4. CASE s.min[h] # n
  <2> DEFINE b == Rose(FALSE, prio, [s |-> s, n |-> n], Cardinality(Nodes))
             q == b.s.roots[h]
             k == CHOOSE k \in DOMAIN q : q[k] = b.n
             x == RemoveRoot(b.s, h, k)
             u == [t EXCEPT ![b.n] = NoHeap]
             v == Leave(x, b.n)
  <2>1. t[n] = h
    BY <1>2, <1>4
  <2>2. Moving(s, t, prio, s.value[n], h, FALSE, [s |-> s, n |-> n])
    <3>1. Hole(s, prio, n)
      <4>1. \A m \in Nodes : s.parent[m] # NULL => prio[s.value[s.parent[m]]] <= prio[s.value[m]]
        BY <1>1 DEF Ordered, Behind
      <4>2. \A m \in Nodes : prio[s.value[m]] \in Nat /\ s.parent[m] \in Nodes \cup {NULL}
        BY <1>1, StoreFields
      <4>3. ASSUME NEW m \in Nodes, s.parent[m] = n, s.parent[n] # NULL
            PROVE  prio[s.value[s.parent[n]]] <= prio[s.value[m]]
        <5>1. prio[s.value[s.parent[n]]] <= prio[s.value[n]]
              /\ prio[s.value[n]] <= prio[s.value[m]]
          BY <4>1, <4>3, HeapAssumption
        <5>2. s.parent[n] \in Nodes
          BY <4>2, <4>3
        <5>3. QED
          BY <4>2, <5>1, <5>2
      <4>4. QED
        BY <4>1, <4>3 DEF Hole, Behind
    <3>2. SameItems(s, t, s, t)
      BY DEF SameItems
    <3>3. QED
      BY <1>1, <2>1, <3>1, <3>2 DEF Moving
  <2>3. Moving(s, t, prio, s.value[n], h, FALSE, b) /\ ~Moves(FALSE, prio, b)
    BY <1>1, <2>2, RoseEnds
  <2>4. b = Bubble(RootRound, s, n)
    BY DEF Rose, Bubble, Rounds
  <2>5. DeleteNode(s, h, n) = v
    BY <1>4, <2>4 DEF DeleteNode
  <2> HIDE DEF b
  <2>6. /\ b.s \in Stores /\ b.n \in Nodes /\ b.s.roots = s.roots /\ b.s.min = s.min
        /\ b.s.child = s.child /\ b.s.parent = s.parent /\ b.s.degree = s.degree
        /\ t[b.n] = h /\ b.s.value[b.n] = s.value[n] /\ Refs(b.s) /\ Cached(b.s, t, prio)
        /\ Hole(b.s, prio, b.n) /\ SameItems(s, t, b.s, t) /\ b.s.parent[b.n] = NULL
    BY <2>3 DEF Moving, Moves
  <2>7. Forest(b.s, t) /\ Marked(b.s, t, NULL)
    BY <1>1, <2>6, SameForest DEF Marked
  <2>8. k \in 1 .. Len(q) /\ q[k] = b.n
    <3>1. Has(q, b.n) /\ q \in Seq(Nodes)
      BY <2>6, <2>7 DEF Forest, Roots, Rooted, Tops, IsTop
    <3>2. \E j \in DOMAIN q : q[j] = b.n
      BY <3>1 DEF Has
    <3>3. DOMAIN q = 1 .. Len(q)
      BY <3>1
    <3> HIDE DEF q
    <3>4. QED
      BY <3>2, <3>3
  <2> HIDE DEF k
  <2>9. OrderedBut(b.s, prio, b.n)
    BY <2>6 DEF Hole, OrderedBut
  <2>10. RootGone(b.s, t, h, b.n, x, u)
    BY <2>6, <2>7, <2>8, <2>9, RootGoes
  <2> HIDE DEF x, u
  <2>11. Sound(v, u, prio, NULL) /\ Same(x, u, v, u)
    BY <2>6, <2>10, LeaveIs DEF RootGone
  <2> HIDE DEF v
  <2>12. Loses(b.s, t, h, b.s.value[b.n], v, u)
    BY <2>6, <2>10, <2>11, ItemsLose DEF RootGone, Same
  <2>13. Loses(s, t, h, s.value[n], v, u)
    BY <2>6, <2>12 DEF Loses, SameItems
  <2>14. QED
    BY <2>5, <2>11, <2>13
<1>5. QED
  BY <1>3, <1>4

-----------------------------------------------------------------------------
(* The heaps.                                                              *)

\* For some t, in which every node that is in a tree is in the place of its heap, the
\* store is sound: nothing in the code keeps t, the lists and the parents imply it.
Inv == prio \in [Nodes -> Prios] /\ \E t : Sound(store, t, prio, NULL)

Inside(s, h) ==
    {s.value[n] : n \in Reached(s.child, ToSet(s.roots[h]), Cardinality(Nodes))
                          \cup ({s.min[h]} \ {NULL})}

LEMMA InsideIs ==
    ASSUME NEW s, NEW t, Forest(s, t), NEW h \in Heaps
    PROVE  Inside(s, h) = Items(s, t, h)
<1>1. Reached(s.child, ToSet(s.roots[h]), Cardinality(Nodes)) = {n \in Nodes : t[n] = h}
  BY ReachedIs
<1>2. s.min[h] \in Nodes \cup {NULL}
  BY StoreFields DEF Forest, Trees
<1>3. {n \in Nodes : t[n] = h} \cup ({s.min[h]} \ {NULL}) = Holds(s, t, h)
  BY <1>2, HeapAssumption DEF Holds
<1>4. QED
  BY <1>1, <1>3 DEF Inside, Items

LEMMA InvIs ==
    ASSUME Inv
    PROVE  /\ prio \in [Nodes -> Nat]
           /\ \E t : /\ Sound(store, t, prio, NULL)
                     /\ \A h \in Heaps : Contents(h) = Items(store, t, h)
<1>1. PICK t : Sound(store, t, prio, NULL)
  BY DEF Inv
<1>2. \A h : Contents(h) = Inside(store, h)
  BY DEF Contents, Held, InTrees, Inside, Reached, Rounds
<1>3. \A h \in Heaps : Inside(store, h) = Items(store, t, h)
  BY <1>1, InsideIs DEF Sound
<1>4. QED
  BY <1>1, <1>2, <1>3, HeapAssumption DEF Inv

LEMMA InvNext ==
    ASSUME NEW u, Sound(store', u, prio', NULL), prio' \in [Nodes -> Prios]
    PROVE  Inv' /\ \A h \in Heaps : Contents(h)' = Items(store', u, h)
<1>1. \A h : Contents(h)' = Inside(store', h)
  BY DEF Contents, Held, InTrees, Inside, Reached, Rounds
<1>2. \A h \in Heaps : Inside(store', h) = Items(store', u, h)
  BY InsideIs DEF Sound
<1>3. Inv'
  BY DEF Inv
<1>4. QED
  BY <1>1, <1>2, <1>3

\* The cached item is one of the heap's, and none of them is before it.
LEMMA CachedFirst ==
    ASSUME NEW s, NEW t, Sound(s, t, prio, NULL), prio \in [Nodes -> Nat], NEW h \in Heaps,
           s.min[h] # NULL
    PROVE  /\ s.value[s.min[h]] \in Items(s, t, h)
           /\ \A j \in Items(s, t, h) : prio[s.value[s.min[h]]] <= prio[j]
<1>1. Cached(s, t, prio) /\ s.min[h] \in Nodes /\ prio[s.value[s.min[h]]] \in Nat
  BY StoreFields DEF Sound, Forest, Trees
<1>2. s.min[h] \in Holds(s, t, h)
  BY <1>1 DEF Holds
<1>3. \A n \in Holds(s, t, h) : prio[s.value[s.min[h]]] <= prio[s.value[n]]
  BY <1>1 DEF Holds, Cached
<1>4. QED
  BY <1>2, <1>3 DEF Items

\* Two nodes never hold the same item.
LEMMA NewItem ==
    ASSUME NEW s, NEW t, Refs(s), NEW n \in Nodes, NEW g \in Heaps, n \notin Holds(s, t, g)
    PROVE  s.value[n] \notin Items(s, t, g)
  BY DEF Refs, Items, Holds

\* A node that is in no heap is inserted: its item is added to the heap's.
LEMMA InsertStep ==
    ASSUME Inv, NEW h \in Heaps, heap_insert(h)
    PROVE  Inv' /\ Queue!Insert(h)
<1>1. PICK n \in Nodes : ~heap_node_in_heap(n) /\ store' = Add(store, h, n)
  BY DEF heap_insert
<1>2. result' = NULL /\ prio' = prio
  BY DEF heap_insert
<1>3. PICK t : /\ Sound(store, t, prio, NULL) /\ prio \in [Nodes -> Nat]
               /\ \A g \in Heaps : Contents(g) = Items(store, t, g)
  BY InvIs
<1>4. /\ store \in Stores /\ Forest(store, t) /\ Ordered(store, prio) /\ Cached(store, t, prio)
      /\ Marked(store, t, NULL) /\ Refs(store)
  BY <1>3 DEF Sound, Forest, Trees
<1>5. t[n] = NoHeap /\ \A g \in Heaps : store.min[g] # n
  BY <1>1, <1>4, HeapAssumption DEF heap_node_in_heap, Marked
<1>6. Sound(store, t, prio, n)
  <2>1. Marked(store, t, n)
    BY <1>4, HeapAssumption DEF Marked
  <2>2. QED
    BY <1>4, <2>1 DEF Sound
<1>7. PICK u : Sound(store', u, prio, NULL) /\ Gains(store, t, h, n, store', u)
  BY <1>1, <1>3, <1>5, <1>6, AddIs
<1>8. Inv' /\ \A g \in Heaps : Contents(g)' = Items(store', u, g)
  BY <1>2, <1>7, InvNext DEF Inv
<1> DEFINE i == store.value[n]
<1>9. Items(store', u, h) = Items(store, t, h) \cup {i}
  BY <1>7 DEF Gains, Items
<1>10. \A g \in Heaps : g # h => Items(store', u, g) = Items(store, t, g)
  BY <1>7 DEF Gains, Items
<1>11. i \in Nodes /\ \A g \in Heaps : i \notin Items(store, t, g)
  <2>1. \A g \in Heaps : n \notin Holds(store, t, g)
    BY <1>5, NoHeapIs DEF Holds
  <2>2. QED
    BY <1>4, <2>1, NewItem, StoreFields
<1> HIDE DEF i
<1>12. i \in Nodes \ Queue!Queued
  BY <1>3, <1>11 DEF Queue!Queued
<1>13. [g \in Heaps |-> Contents(g)'] =
         [[g \in Heaps |-> Contents(g)] EXCEPT ![h] = @ \cup {i}]
  BY <1>3, <1>8, <1>9, <1>10
<1>14. Queue!Insert(h)
  BY <1>2, <1>12, <1>13 DEF Queue!Insert
<1>15. QED
  BY <1>8, <1>14

\* The items of one heap go to another.
LEMMA UnionStep ==
    ASSUME Inv, NEW h \in Heaps, NEW a \in Heaps, h # a, heap_union(h, a)
    PROVE  Inv' /\ Queue!Union(h, a)
<1> DEFINE x == Uncache(store, h)
           y == Uncache(x, a)
<1>1. result' = NULL /\ prio' = prio /\ store' = [Unite(y, h, y.roots[a]) EXCEPT !.roots[a] = <<>>]
  BY DEF heap_union
<1>2. PICK t : /\ Sound(store, t, prio, NULL) /\ prio \in [Nodes -> Nat]
               /\ \A g \in Heaps : Contents(g) = Items(store, t, g)
  BY InvIs
<1>3. (\E u : Sound(x, u, prio, NULL) /\ Same(store, t, x, u)) /\ x.min[h] = NULL
  BY <1>2, UncacheIs
<1> HIDE DEF x
<1>4. PICK u : Sound(x, u, prio, NULL) /\ Same(store, t, x, u)
  BY <1>3
<1>5. (\E w : Sound(y, w, prio, NULL) /\ Same(x, u, y, w)) /\ y.min[a] = NULL /\ y.min[h] = NULL
  BY <1>2, <1>3, <1>4, UncacheIs
<1> HIDE DEF y
<1>6. PICK w : Sound(y, w, prio, NULL) /\ Same(x, u, y, w)
  BY <1>5
<1>7. Whole(y, w, h, a, store')
  <2>1. Whole(y, w, h, a, [Unite(y, h, y.roots[a]) EXCEPT !.roots[a] = <<>>])
    BY <1>2, <1>5, <1>6, UnionIs
  <2>2. QED
    BY <1>1, <2>1
<1>8. PICK z : /\ Sound(store', z, prio, NULL) /\ store'.value = y.value
               /\ Holds(store', z, h) = Holds(y, w, h) \cup Holds(y, w, a)
               /\ Holds(store', z, a) = {}
               /\ \A g \in Heaps \ {h, a} : Holds(store', z, g) = Holds(y, w, g)
  BY <1>7 DEF Whole
<1>9. Inv' /\ \A g \in Heaps : Contents(g)' = Items(store', z, g)
  BY <1>1, <1>8, InvNext DEF Inv
<1>10. y.value = store.value /\ \A g \in Heaps : Holds(y, w, g) = Holds(store, t, g)
  BY <1>4, <1>6 DEF Same
<1>11. /\ Items(store', z, h) = Items(store, t, h) \cup Items(store, t, a)
       /\ Items(store', z, a) = {}
       /\ \A g \in Heaps \ {h, a} : Items(store', z, g) = Items(store, t, g)
  BY <1>8, <1>10 DEF Items
<1>12. [g \in Heaps |-> Contents(g)'] =
         [[g \in Heaps |-> Contents(g)] EXCEPT ![h] = @ \cup [g \in Heaps |-> Contents(g)][a],
                                               ![a] = {}]
  BY <1>2, <1>9, <1>11
<1>13. Queue!Union(h, a)
  BY <1>1, <1>12 DEF Queue!Union
<1>14. QED
  BY <1>9, <1>13

\* What a peek finds, and what it leaves behind.
LEMMA PeekIs ==
    ASSUME Inv, NEW h \in Heaps, NEW v, v = Cache(store, h)
    PROVE  \E u : /\ Sound(v, u, prio, NULL) /\ prio \in [Nodes -> Nat]
                  /\ v.value = store.value
                  /\ \A g \in Heaps : Contents(g) = Items(v, u, g)
                  /\ v.min[h] = NULL => Contents(h) = {}
                  /\ v.min[h] # NULL => v.value[v.min[h]] \in Queue!First(Contents(h))
<1>1. PICK t : /\ Sound(store, t, prio, NULL) /\ prio \in [Nodes -> Nat]
               /\ \A g \in Heaps : Contents(g) = Items(store, t, g)
  BY InvIs
<1>2. PICK u : /\ Sound(v, u, prio, NULL) /\ Same(store, t, v, u)
               /\ v.min[h] = NULL => Holds(v, u, h) = {}
  BY <1>1, CacheIs
<1>3. \A g \in Heaps : Contents(g) = Items(v, u, g)
  BY <1>1, <1>2 DEF Same, Items
<1>4. v.min[h] = NULL => Contents(h) = {}
  BY <1>2, <1>3 DEF Items
<1>5. v.min[h] # NULL => v.value[v.min[h]] \in Queue!First(Contents(h))
  BY <1>1, <1>2, <1>3, CachedFirst DEF Queue!First
<1>6. v.value = store.value
  BY <1>2 DEF Same
<1>7. QED
  BY <1>1, <1>2, <1>3, <1>4, <1>5, <1>6

\* Nothing but the place of the items changes.
LEMMA PeekStep ==
    ASSUME Inv, NEW h \in Heaps, heap_peek(h)
    PROVE  Inv' /\ Queue!Peek(h)
<1>1. store' = Cache(store, h) /\ result' = ItemOf(store'.min[h]) /\ prio' = prio
  BY DEF heap_peek
<1>2. PICK u : /\ Sound(store', u, prio, NULL) /\ prio \in [Nodes -> Nat]
               /\ store'.value = store.value
               /\ \A g \in Heaps : Contents(g) = Items(store', u, g)
               /\ store'.min[h] = NULL => Contents(h) = {}
               /\ store'.min[h] # NULL => store'.value[store'.min[h]] \in Queue!First(Contents(h))
  BY <1>1, PeekIs
<1>3. Inv' /\ \A g \in Heaps : Contents(g)' = Items(store', u, g)
  BY <1>1, <1>2, InvNext DEF Inv
<1>4. [g \in Heaps |-> Contents(g)'] = [g \in Heaps |-> Contents(g)]
  BY <1>2, <1>3
<1>5. Queue!ReturnsFirst(h)
  <2>1. CASE store'.min[h] = NULL
    BY <1>1, <1>2, <2>1 DEF Queue!ReturnsFirst, ItemOf
  <2>2. CASE store'.min[h] # NULL
    <3>1. result' \in Queue!First(Contents(h))
      BY <1>1, <1>2, <2>2 DEF ItemOf
    <3>2. Contents(h) # {}
      BY <3>1 DEF Queue!First
    <3>3. QED
      BY <3>1, <3>2 DEF Queue!ReturnsFirst
  <2>3. QED
    BY <2>1, <2>2
<1>6. Queue!Peek(h)
  BY <1>1, <1>4, <1>5 DEF Queue!Peek
<1>7. QED
  BY <1>3, <1>6

\* The cached item leaves the heap.
LEMMA TakeStep ==
    ASSUME Inv, NEW h \in Heaps, heap_take(h)
    PROVE  Inv' /\ Queue!Take(h)
<1> DEFINE s == Cache(store, h)
           n == s.min[h]
           x == [s EXCEPT !.min[h] = NULL]
<1>1. /\ store' = IF n = NULL THEN s ELSE Leave(x, n)
      /\ result' = ItemOf(n) /\ prio' = prio
  BY DEF heap_take
<1>2. PICK u : /\ Sound(s, u, prio, NULL) /\ prio \in [Nodes -> Nat]
               /\ s.value = store.value
               /\ \A g \in Heaps : Contents(g) = Items(s, u, g)
               /\ s.min[h] = NULL => Contents(h) = {}
               /\ s.min[h] # NULL => s.value[s.min[h]] \in Queue!First(Contents(h))
  BY PeekIs
<1> HIDE DEF s
<1>3. CASE n = NULL
  <2>1. store' = s /\ result' = NULL /\ Contents(h) = {}
    BY <1>1, <1>2, <1>3 DEF ItemOf
  <2>2. Inv' /\ \A g \in Heaps : Contents(g)' = Items(store', u, g)
    BY <1>1, <1>2, <2>1, InvNext DEF Inv
  <2>3. [g \in Heaps |-> Contents(g)'] = [[g \in Heaps |-> Contents(g)] EXCEPT ![h] = @ \ {result'}]
    BY <1>2, <2>1, <2>2
  <2>4. Queue!ReturnsFirst(h)
    BY <2>1 DEF Queue!ReturnsFirst
  <2>5. Queue!Take(h)
    BY <1>1, <2>3, <2>4 DEF Queue!Take
  <2>6. QED
    BY <2>2, <2>5
<1>4. CASE n # NULL
  <2>1. Out(s, u, h, x)
    BY <1>2, <1>4, MinOut
  <2> HIDE DEF x
  <2>2. /\ x.value = s.value /\ n \in Nodes /\ u[n] = NoHeap /\ (\A g \in Heaps : x.min[g] # n)
        /\ Sound(x, u, prio, n) /\ Holds(x, u, h) = Holds(s, u, h) \ {n}
        /\ \A g \in Heaps : g # h => Holds(x, u, g) = Holds(s, u, g)
    BY <2>1 DEF Out
  <2> HIDE DEF n
  <2>3. Sound(Leave(x, n), u, prio, NULL) /\ Same(x, u, Leave(x, n), u)
    BY <2>2, LeaveIs
  <2>4. store' = Leave(x, n)
    BY <1>1, <1>4
  <2>5. Sound(store', u, prio, NULL) /\ Same(x, u, store', u)
    BY <2>3, <2>4
  <2>6. Inv' /\ \A g \in Heaps : Contents(g)' = Items(store', u, g)
    BY <1>1, <2>5, InvNext DEF Inv
  <2>7. Loses(s, u, h, s.value[n], store', u)
    <3>1. Refs(s)
      BY <1>2 DEF Sound
    <3>2. QED
      BY <2>2, <2>5, <3>1, ItemsLose DEF Same
  <2>8. result' = s.value[n] /\ result' \in Queue!First(Contents(h))
    BY <1>1, <1>2, <1>4 DEF ItemOf, n
  <2>9. [g \in Heaps |-> Contents(g)'] = [[g \in Heaps |-> Contents(g)] EXCEPT ![h] = @ \ {result'}]
    BY <1>2, <2>6, <2>7, <2>8 DEF Loses
  <2>10. Queue!ReturnsFirst(h)
    <3>1. Contents(h) # {}
      BY <2>8 DEF Queue!First
    <3>2. QED
      BY <2>8, <3>1 DEF Queue!ReturnsFirst
  <2>11. Queue!Take(h)
    BY <1>1, <2>9, <2>10 DEF Queue!Take
  <2>12. QED
    BY <2>6, <2>11
<1>5. QED
  BY <1>3, <1>4

\* The item goes up its tree, and stays in its heap.
LEMMA DecreaseStep ==
    ASSUME Inv, NEW h \in Heaps, heap_decrease(h)
    PROVE  Inv' /\ Queue!Decrease(h)
<1>1. PICK i \in Contents(h) \cap WithRef, p \in Prios :
        /\ p < prio[i] /\ prio' = [prio EXCEPT ![i] = p]
        /\ store.min[h] \in {NULL, store.ref[i]}
        /\ store' = IF store.min[h] = store.ref[i] THEN store
                    ELSE Bubble(LAMBDA b : BubbleRound(b, prio'), store, store.ref[i]).s
  BY DEF heap_decrease
<1> DEFINE n == store.ref[i]
<1>2. store' = IF store.min[h] = n THEN store
               ELSE Rose(TRUE, prio', [s |-> store, n |-> n], Cardinality(Nodes)).s
  BY <1>1 DEF Bubble, Rose, Rounds
<1>3. PICK t : /\ Sound(store, t, prio, NULL) /\ prio \in [Nodes -> Nat]
               /\ \A g \in Heaps : Contents(g) = Items(store, t, g)
  BY InvIs
<1>4. /\ n \in Holds(store, t, h) /\ n \in Nodes /\ store.value[n] = i /\ i \in Nodes
      /\ \A m \in Nodes : m # n => store.value[m] # i
  BY <1>1, <1>3, ItemNode DEF Sound, Forest, Trees
<1>5. prio' \in [Nodes -> Prios]
  BY <1>1, <1>4 DEF Inv
<1>6. Raised(store, n, prio')
  <2>1. prio' \in [Nodes -> Nat]
    BY <1>5, HeapAssumption
  <2>2. prio'[i] = p /\ \A m \in Nodes : m # i => prio'[m] = prio[m]
    BY <1>1, <1>3, <1>4
  <2>3. \A m \in Nodes : store.value[m] \in Nodes
    BY <1>3, StoreFields DEF Sound, Forest, Trees
  <2>4. QED
    BY <1>1, <1>4, <2>1, <2>2, <2>3 DEF Raised
<1>7. result' = NULL /\ store.min[h] \in {NULL, n}
  BY <1>1 DEF heap_decrease
<1> HIDE DEF n
<1> DEFINE v == IF store.min[h] = n THEN store
                ELSE Rose(TRUE, prio', [s |-> store, n |-> n], Cardinality(Nodes)).s
<1>8. Sound(v, t, prio', NULL) /\ SameItems(store, t, v, t)
  BY <1>3, <1>4, <1>6, <1>7, DecreaseIs
<1>9. store' = v
  BY <1>2
<1> HIDE DEF v
<1>10. Inv' /\ \A g \in Heaps : Contents(g)' = Items(store', t, g)
  BY <1>5, <1>8, <1>9, InvNext
<1>11. [g \in Heaps |-> Contents(g)'] = [g \in Heaps |-> Contents(g)]
  BY <1>3, <1>8, <1>9, <1>10 DEF SameItems
<1>12. Queue!Decrease(h)
  BY <1>1, <1>7, <1>11 DEF Queue!Decrease
<1>13. QED
  BY <1>10, <1>12

\* The item leaves the heap, wherever it is.
LEMMA DeleteStep ==
    ASSUME Inv, NEW h \in Heaps, heap_delete(h)
    PROVE  Inv' /\ Queue!Delete(h)
<1>1. PICK i \in Contents(h) \cap WithRef : store' = DeleteNode(store, h, store.ref[i])
  BY DEF heap_delete
<1>2. result' = NULL /\ prio' = prio
  BY DEF heap_delete
<1>3. PICK t : /\ Sound(store, t, prio, NULL) /\ prio \in [Nodes -> Nat]
               /\ \A g \in Heaps : Contents(g) = Items(store, t, g)
  BY InvIs
<1> DEFINE n == store.ref[i]
<1>4. n \in Holds(store, t, h) /\ n \in Nodes /\ store.value[n] = i
  BY <1>1, <1>3, ItemNode DEF Sound, Forest, Trees
<1>5. PICK u : Sound(store', u, prio, NULL) /\ Loses(store, t, h, i, store', u)
  BY <1>1, <1>3, <1>4, DeleteIs
<1>6. Inv' /\ \A g \in Heaps : Contents(g)' = Items(store', u, g)
  BY <1>2, <1>5, InvNext DEF Inv
<1>7. [g \in Heaps |-> Contents(g)'] = [[g \in Heaps |-> Contents(g)] EXCEPT ![h] = @ \ {i}]
  BY <1>3, <1>5, <1>6 DEF Loses
<1>8. Queue!Delete(h)
  BY <1>1, <1>2, <1>7 DEF Queue!Delete
<1>9. QED
  BY <1>6, <1>8

\* The empty heaps.
LEMMA InvInit == Init => Inv /\ Queue!Init
<1>1. SUFFICES ASSUME Init PROVE Inv /\ Queue!Init
  OBVIOUS
<1> DEFINE t == [n \in Nodes |-> NoHeap]
<1>2. /\ store.roots = [h \in Heaps |-> <<>>] /\ store.min = [h \in Heaps |-> NULL]
      /\ store.child = [n \in Nodes |-> <<>>] /\ store.parent = [n \in Nodes |-> NULL]
      /\ store.degree = [n \in Nodes |-> NOT_IN_HEAP]
      /\ store.value = [n \in Nodes |-> n] /\ store.ref = [i \in Nodes |-> i]
      /\ prio \in [Nodes -> Prios] /\ result = NULL
  BY <1>1 DEF Init
<1>3. store \in Stores
  BY <1>1 DEF Init, Stores, NOT_IN_HEAP
<1>4. t \in Places /\ \A n \in Nodes : t[n] = NoHeap
  BY DEF Places
<1> HIDE DEF t
<1>5. Trees(store, t)
  BY <1>2, <1>3, <1>4 DEF Trees
<1>6. ASSUME NEW h \in Heaps PROVE Rooted(store, t, h, store.roots[h])
  <2>1. \A n \in Nodes : ~IsTop(store, t, h, n)
    BY <1>4, NoHeapIs DEF IsTop
  <2>2. <<>> \in Seq(Nodes) /\ Distinct(<<>>) /\ \A n : ~Has(<<>>, n)
    BY DEF Distinct, Has
  <2>3. Growing(Degrees(store.degree, <<>>), Len(<<>>))
    BY DEF Growing
  <2>4. store.roots[h] = <<>>
    BY <1>2
  <2>5. QED
    BY <2>1, <2>2, <2>3, <2>4 DEF Rooted, Tops
<1>7. Ordered(store, prio) /\ Cached(store, t, prio) /\ Refs(store) /\ Marked(store, t, NULL)
  <2>1. Ordered(store, prio)
    BY <1>2 DEF Ordered
  <2>2. Cached(store, t, prio)
    BY <1>2 DEF Cached
  <2>3. Refs(store)
    BY <1>2, HeapAssumption DEF Refs
  <2>4. Marked(store, t, NULL)
    BY <1>2, <1>4, HeapAssumption DEF Marked
  <2>5. QED
    BY <2>1, <2>2, <2>3, <2>4
<1>8. Forest(store, t)
  BY <1>5, <1>6 DEF Forest, Roots
<1>9. Sound(store, t, prio, NULL)
  BY <1>7, <1>8 DEF Sound
<1>10. \A h \in Heaps : Contents(h) = {}
  <2>1. \A h \in Heaps : Contents(h) = Inside(store, h)
    BY DEF Contents, Held, InTrees, Inside, Reached, Rounds
  <2>2. \A h \in Heaps : Items(store, t, h) = {}
    BY <1>2, <1>4, NoHeapIs, HeapAssumption DEF Items, Holds
  <2>3. QED
    BY <1>8, <2>1, <2>2, InsideIs
<1>11. Queue!Init
  BY <1>2, <1>10 DEF Queue!Init
<1>12. QED
  BY <1>2, <1>9, <1>11 DEF Inv

\* Every operation.
LEMMA InvStep == Inv /\ [Next]_vars => Inv' /\ [Queue!Next]_(Queue!vars)
<1>1. ASSUME Inv, NEW h \in Heaps, heap_insert(h) PROVE Inv' /\ Queue!Next
  BY <1>1, InsertStep DEF Queue!Next
<1>2. ASSUME Inv, NEW h \in Heaps, heap_peek(h) PROVE Inv' /\ Queue!Next
  BY <1>2, PeekStep DEF Queue!Next
<1>3. ASSUME Inv, NEW h \in Heaps, heap_take(h) PROVE Inv' /\ Queue!Next
  BY <1>3, TakeStep DEF Queue!Next
<1>4. ASSUME Inv, NEW h \in Heaps, heap_decrease(h) PROVE Inv' /\ Queue!Next
  BY <1>4, DecreaseStep DEF Queue!Next
<1>5. ASSUME Inv, NEW h \in Heaps, heap_delete(h) PROVE Inv' /\ Queue!Next
  BY <1>5, DeleteStep DEF Queue!Next
<1>6. ASSUME Inv, NEW h \in Heaps, NEW a \in Heaps, h # a, heap_union(h, a)
      PROVE  Inv' /\ Queue!Next
  BY <1>6, UnionStep DEF Queue!Next
<1>7. ASSUME Inv, UNCHANGED vars PROVE Inv' /\ UNCHANGED Queue!vars
  <2>1. store' = store /\ prio' = prio /\ result' = result
    BY <1>7 DEF vars
  <2>2. Inv'
    BY <1>7, <2>1 DEF Inv
  <2>3. \A h : Contents(h)' = Contents(h)
    BY <2>1 DEF Contents, Held, InTrees, Rounds
  <2>4. [h \in Heaps |-> Contents(h)]' = [h \in Heaps |-> Contents(h)]
    BY <2>3
  <2>5. QED
    BY <2>1, <2>2, <2>4 DEF Queue!vars
<1>8. QED
  BY <1>1, <1>2, <1>3, <1>4, <1>5, <1>6, <1>7 DEF Next

(***************************************************************************)
(* Every operation leaves a sound store behind (include/heap.h:235-377).   *)
(***************************************************************************)
THEOREM Invariance == Spec => []Inv
<1>1. Init => Inv
  BY InvInit
<1>2. Inv /\ [Next]_vars => Inv'
  BY InvStep
<1>3. QED
  BY <1>1, <1>2, PTL DEF Spec

(***************************************************************************)
(* Whatever the nodes, the heaps and the priorities, what insertion, union,*)
(* peek, take, decrease and delete do to the items is what a priority queue*)
(* does (include/heap.h:235-377).                                          *)
(***************************************************************************)
THEOREM HeapsRefine == Spec => IsPriorityQueue
<1>1. Init => Queue!Init
  BY InvInit
<1>2. Inv /\ [Next]_vars => [Queue!Next]_(Queue!vars)
  BY InvStep
<1>3. QED
  BY <1>1, <1>2, Invariance, PTL DEF Spec, IsPriorityQueue, Queue!Spec

\* The nodes that the lists lead to are those in the heap's place.
LEMMA InTreesIs ==
    ASSUME NEW t, Forest(store, t), NEW h \in Heaps
    PROVE  /\ InTrees(h) = {n \in Nodes : t[n] = h} /\ Held(h) = Holds(store, t, h)
<1>1. InTrees(h) = Reached(store.child, ToSet(store.roots[h]), Cardinality(Nodes))
  BY DEF InTrees, Reached, Rounds
<1>2. InTrees(h) = {n \in Nodes : t[n] = h}
  BY <1>1, ReachedIs
<1>3. store.min[h] \in Nodes \cup {NULL}
  BY StoreFields DEF Forest, Trees
<1>4. QED
  BY <1>2, <1>3, HeapAssumption DEF Held, Holds

(***************************************************************************)
(* The trees are binomial and heap-ordered, the roots have growing degrees,*)
(* no node is in two places, exactly the nodes in no heap say so, and the  *)
(* cached node is a minimum, after any operations (include/heap.h:235-377).*)
(***************************************************************************)
THEOREM HeapsWellFormed == Spec => []WellFormed
<1>1. Inv => WellFormed
  <2>1. SUFFICES ASSUME Inv PROVE WellFormed
    OBVIOUS
  <2>2. PICK t : Sound(store, t, prio, NULL) /\ prio \in [Nodes -> Nat]
    BY <2>1, InvIs
  <2>3. /\ Forest(store, t) /\ Ordered(store, prio) /\ Cached(store, t, prio)
        /\ Marked(store, t, NULL) /\ store \in Stores /\ Trees(store, t)
    BY <2>2 DEF Sound, Forest, Trees
  <2>4. \A h \in Heaps : InTrees(h) = {n \in Nodes : t[n] = h} /\ Held(h) = Holds(store, t, h)
    BY <2>3, InTreesIs
  <2>5. \A n \in UNION {InTrees(h) : h \in Heaps} : n \in Nodes /\ Family(store, t, n)
    BY <2>3, <2>4, NoHeapIs DEF Trees
  <2>6. \A n \in Nodes : prio[store.value[n]] \in Nat /\ store.child[n] \in Seq(Nodes)
                         /\ store.degree[n] \in Nat
    BY <2>2, <2>3, StoreFields
  <2>7. ASSUME NEW h \in Heaps
        PROVE  LET q == store.roots[h]
               IN  /\ \A k \in DOMAIN q : store.parent[q[k]] = NULL
                   /\ \A k \in 1 .. (Len(q) - 1) : store.degree[q[k]] < store.degree[q[k + 1]]
                   /\ store.min[h] \notin InTrees(h)
    <3> DEFINE q == store.roots[h]
    <3>1. /\ q \in Seq(Nodes) /\ Growing(Degrees(store.degree, q), Len(q))
          /\ \A n \in Nodes : Has(q, n) <=> IsTop(store, t, h, n)
      BY <2>3 DEF Forest, Roots, Rooted, Tops
    <3> HIDE DEF q
    <3>2. \A k \in DOMAIN q : store.parent[q[k]] = NULL
      BY <3>1 DEF Has, IsTop
    <3>3. ASSUME NEW k \in 1 .. (Len(q) - 1) PROVE store.degree[q[k]] < store.degree[q[k + 1]]
      <4>1. k \in 1 .. Len(q) /\ k + 1 \in 1 .. Len(q) /\ k < k + 1
        BY <3>1
      <4>2. Degrees(store.degree, q)[k] < Degrees(store.degree, q)[k + 1]
        BY <3>1, <4>1 DEF Growing
      <4>3. QED
        BY <4>1, <4>2 DEF Degrees
    <3>4. store.min[h] \notin InTrees(h)
      BY <2>3, <2>4, NoHeapIs, HeapAssumption DEF Cached
    <3>5. QED
      BY <3>2, <3>3, <3>4 DEF q
  <2>8. \A n \in UNION {InTrees(h) : h \in Heaps} : Binomial(n)
    <3>1. SUFFICES ASSUME NEW n \in UNION {InTrees(h) : h \in Heaps} PROVE Binomial(n)
      OBVIOUS
    <3> DEFINE c == store.child[n]
    <3>2. /\ Len(c) = store.degree[n] /\ c \in Seq(Nodes)
          /\ \A k \in 1 .. Len(c) : store.parent[c[k]] = n /\ store.degree[c[k]] = Len(c) - k
      BY <2>5, <2>6 DEF Family
    <3> HIDE DEF c
    <3>3. DOMAIN c = 1 .. Len(c)
      BY <3>2
    <3>4. QED
      BY <3>2, <3>3 DEF Binomial, c
  <2>9. \A g, h \in Heaps : g # h => Held(g) \cap Held(h) = {}
    <3>1. SUFFICES ASSUME NEW g \in Heaps, NEW h \in Heaps, g # h, NEW n \in Nodes,
                          n \in Holds(store, t, g), n \in Holds(store, t, h)
                   PROVE  FALSE
      BY <2>4 DEF Holds
    <3>2. n # NULL
      BY HeapAssumption
    <3>3. QED
      BY <2>3, <3>1, <3>2, NoHeapIs DEF Holds, Cached
  <2>10. \A n \in Nodes : heap_node_in_heap(n) <=> \E h \in Heaps : n \in Held(h)
    <3>1. SUFFICES ASSUME NEW n \in Nodes
                   PROVE  heap_node_in_heap(n) <=> \E h \in Heaps : n \in Held(h)
      OBVIOUS
    <3>2. heap_node_in_heap(n) <=> ~(t[n] = NoHeap /\ \A h \in Heaps : store.min[h] # n)
      BY <2>3, HeapAssumption DEF heap_node_in_heap, Marked
    <3>3. t[n] \in Heaps \cup {NoHeap}
      BY <2>3 DEF Trees, Places
    <3>4. QED
      BY <2>4, <3>2, <3>3, NoHeapIs DEF Holds
  <2>11. HeapOrdered
    <3>1. SUFFICES ASSUME NEW n \in UNION {InTrees(h) : h \in Heaps},
                          NEW k \in DOMAIN store.child[n]
                   PROVE  ~higher_prio(store, store.child[n][k], n)
      BY DEF HeapOrdered
    <3> DEFINE m == store.child[n][k]
    <3>2. n \in Nodes /\ m \in Nodes /\ store.parent[m] = n
      BY <2>5, <2>6, SMTT(60) DEF Family
    <3>3. prio[store.value[n]] <= prio[store.value[m]]
      BY <2>3, <3>2, HeapAssumption DEF Ordered, Behind
    <3> HIDE DEF m
    <3>4. ~higher_prio(store, m, n)
      BY <2>6, <3>2, <3>3 DEF higher_prio
    <3>5. QED
      BY <3>4 DEF m
  <2>12. MinimumCached
    <3>1. SUFFICES ASSUME NEW h \in Heaps, store.min[h] # NULL, NEW n \in InTrees(h)
                   PROVE  ~higher_prio(store, n, store.min[h])
      BY DEF MinimumCached
    <3>2. store.min[h] \in Nodes /\ n \in Nodes
      BY <2>3, <2>4, <3>1, StoreFields
    <3>3. prio[store.value[store.min[h]]] <= prio[store.value[n]]
      BY <2>3, <2>4, <3>1 DEF Cached
    <3>4. QED
      BY <2>6, <3>2, <3>3 DEF higher_prio
  <2>13. BinomialTrees
    BY <2>7, <2>8, <2>9, <2>10 DEF BinomialTrees
  <2>14. QED
    BY <2>11, <2>12, <2>13 DEF WellFormed
<1>2. QED
  BY <1>1, Invariance, PTL

(***************************************************************************)
(* The reference of an item leads to its node however often decrease and   *)
(* delete have exchanged items (include/heap.h:300-377).                   *)
(***************************************************************************)
THEOREM ReferencesFollow == Spec => []RefsFollow
<1>1. Inv => RefsFollow
  <2>1. SUFFICES ASSUME Inv PROVE RefsFollow
    OBVIOUS
  <2>2. PICK t : Sound(store, t, prio, NULL)
    BY <2>1 DEF Inv
  <2>3. Refs(store) /\ store.value \in [Nodes -> Nodes]
    BY <2>2, StoreFields DEF Sound, Forest, Trees
  <2>4. QED
    BY <2>3 DEF Refs, RefsFollow
<1>2. QED
  BY <1>1, Invariance, PTL
=============================================================================
