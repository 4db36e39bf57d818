------------------------------ MODULE Induction -----------------------------
(***************************************************************************)
(* Induction over the natural numbers, stated of a set of numbers instead  *)
(* of a predicate, and what it gives for sums over the positions of a      *)
(* file.                                                                   *)
(***************************************************************************)
EXTENDS Integers, FiniteSetTheorems, WellFoundedInduction, TLAPS

\* A set of numbers has a least one: the intervals below its members are ordered by
\* inclusion, which is well-founded on finite sets.
LEMMA LeastNumber ==
    ASSUME NEW B \in SUBSET Nat, B # {}
    PROVE  \E n \in B : \A m \in B : n <= m
<1> DEFINE Upto  == {0 .. n : n \in B}
           Below == StrictSubsetOrdering(Nat)
<1>1. \A n \in Nat : IsFiniteSet(0 .. n) /\ 0 .. n \in SUBSET Nat
  BY FS_Interval
<1>2. Upto \subseteq FiniteSubsetsOf(Nat) /\ Upto # {}
  BY <1>1 DEF FiniteSubsetsOf
<1>3. IsWellFoundedOn(Below, FiniteSubsetsOf(Nat))
  BY FS_StrictSubsetOrderingWellFounded
<1> HIDE DEF Upto, Below
<1>4. \E x \in Upto : \A y \in Upto : ~(<<y, x>> \in Below)
  BY <1>2, <1>3, WFMin
<1>5. PICK x \in Upto : \A y \in Upto : ~(<<y, x>> \in Below)
  BY <1>4
<1>6. PICK n \in B : x = 0 .. n
  BY DEF Upto
<1>7. ASSUME NEW m \in B, m < n PROVE FALSE
  <2>1. 0 .. m \subseteq x /\ n \in x /\ n \notin 0 .. m /\ 0 .. m \in Upto
        /\ 0 .. m \in SUBSET Nat /\ x \in SUBSET Nat
    BY <1>6, <1>7 DEF Upto
  <2>2. <<0 .. m, x>> \in Below
    BY <2>1 DEF StrictSubsetOrdering, Below
  <2>3. QED
    BY <1>5, <2>1, <2>2
<1>8. QED
  BY <1>6, <1>7

\* Induction: a set of numbers that holds 0 and the successor of each of its members.
LEMMA SetInduction ==
    ASSUME NEW T, 0 \in T, \A n \in Nat : n \in T => n + 1 \in T
    PROVE  Nat \subseteq T
<1> DEFINE Others == Nat \ T
<1>1. SUFFICES ASSUME Others # {} PROVE FALSE
  OBVIOUS
<1>2. PICK n \in Others : \A m \in Others : n <= m
  BY <1>1, LeastNumber
<1>3. n # 0 /\ n - 1 \in Nat /\ n - 1 \in T
  BY <1>2
<1>4. QED
  BY <1>3

-----------------------------------------------------------------------------
(* Sums over the positions of a file                                       *)

\* s[k] is the sum of the first k weights.
IsSum(s, w, n) == s[0] = 0 /\ \A k \in 0 .. (n - 1) : s[k + 1] = s[k] + w[k + 1]

SumOf(s, w, n) == s \in [0 .. n -> Int] /\ w \in [0 .. n -> Int] /\ IsSum(s, w, n)

AgreeBut(v, w, j, n) == \A k \in 1 .. n : k # j => v[k] = w[k]

\* The recursion of a sum has a solution.
LEMMA SumExists ==
    ASSUME NEW n \in Nat, NEW w \in [0 .. n -> Int]
    PROVE  \E s \in [0 .. n -> Int] : IsSum(s, w, n)
<1> DEFINE T == {m \in Nat : m <= n => \E s \in [0 .. m -> Int] : IsSum(s, w, m)}
<1>1. 0 \in T
  <2>1. [k \in 0 .. 0 |-> 0] \in [0 .. 0 -> Int] /\ [k \in 0 .. 0 |-> 0][0] = 0 /\ 0 .. (0 - 1) = {}
    OBVIOUS
  <2>2. QED
    BY <2>1 DEF IsSum
<1>2. ASSUME NEW m \in Nat, m \in T PROVE m + 1 \in T
  <2>1. SUFFICES ASSUME m + 1 <= n PROVE \E s \in [0 .. (m + 1) -> Int] : IsSum(s, w, m + 1)
    OBVIOUS
  <2>2. m <= n
    BY <2>1
  <2>3. PICK s \in [0 .. m -> Int] : IsSum(s, w, m)
    BY <1>2, <2>2
  <2> DEFINE longer == [k \in 0 .. (m + 1) |-> IF k = m + 1 THEN s[m] + w[k] ELSE s[k]]
  <2>4. longer \in [0 .. (m + 1) -> Int] /\ longer[0] = 0
    BY <2>1, <2>3 DEF IsSum
  <2>5. ASSUME NEW k \in 0 .. ((m + 1) - 1) PROVE longer[k + 1] = longer[k] + w[k + 1]
    <3>1. CASE k = m
      BY <3>1
    <3>2. CASE k # m
      BY <2>3, <3>2 DEF IsSum
    <3>3. QED
      BY <3>1, <3>2
  <2>6. QED
    BY <2>4, <2>5 DEF IsSum
<1>3. n \in T
  <2> HIDE DEF T
  <2>1. QED
    BY <1>1, <1>2, SetInduction
<1>4. QED
  BY <1>3

\* Weights of 0 add up to 0.
LEMMA SumOfNothing ==
    ASSUME NEW n \in Nat, NEW s \in [0 .. n -> Int], NEW w, IsSum(s, w, n),
           \A k \in 1 .. n : w[k] = 0
    PROVE  s[n] = 0
<1> DEFINE T == {m \in Nat : m <= n => s[m] = 0}
<1>1. 0 \in T
  BY DEF IsSum
<1>2. ASSUME NEW m \in Nat, m \in T PROVE m + 1 \in T
  <2>1. SUFFICES ASSUME m + 1 <= n PROVE s[m + 1] = 0
    OBVIOUS
  <2>2. s[m] = 0 /\ w[m + 1] = 0 /\ m + 1 \in 1 .. n
    BY <1>2, <2>1
  <2>a. m \in 0 .. (n - 1)
    BY <2>1
  <2>3. s[m + 1] = s[m] + w[m + 1]
    BY <2>a DEF IsSum
  <2>4. QED
    BY <2>2, <2>3
<1>3. n \in T
  <2> HIDE DEF T
  <2>1. QED
    BY <1>1, <1>2, SetInduction
<1>4. QED
  BY <1>3

\* One weight changes.
LEMMA SumChanges ==
    ASSUME NEW n \in Nat, NEW s, NEW r, NEW w, NEW v, SumOf(s, w, n), SumOf(r, v, n),
           NEW j \in 1 .. n, AgreeBut(v, w, j, n)
    PROVE  r[n] = s[n] + (v[j] - w[j])
<1>1. \A m \in 0 .. (n - 1) : s[m + 1] = s[m] + w[m + 1]
  BY DEF SumOf, IsSum
<1>2. \A m \in 0 .. (n - 1) : r[m + 1] = r[m] + v[m + 1]
  BY DEF SumOf, IsSum
<1>3. /\ \A m \in 0 .. n : s[m] \in Int /\ r[m] \in Int /\ w[m] \in Int /\ v[m] \in Int
      /\ s[0] = 0 /\ r[0] = 0
  BY DEF SumOf, IsSum
<1> DEFINE d == v[j] - w[j]
           T == {m \in Nat : /\ m < j => r[m] = s[m]
                             /\ (j <= m /\ m <= n => r[m] = s[m] + d)}
<1>4. d \in Int /\ v[j] = w[j] + d
  <2>1. v[j] \in Int /\ w[j] \in Int
    BY <1>3
  <2>2. QED
    BY <2>1
<1> HIDE DEF d
<1>5. 0 \in T
  BY <1>3
<1>6. ASSUME NEW m \in Nat, m \in T PROVE m + 1 \in T
  <2>1. SUFFICES ASSUME m + 1 <= n
                 PROVE  /\ m + 1 < j => r[m + 1] = s[m + 1]
                        /\ j <= m + 1 => r[m + 1] = s[m + 1] + d
    OBVIOUS
  <2>2. m \in 0 .. (n - 1) /\ m \in 0 .. n /\ m + 1 \in 0 .. n /\ m + 1 \in 1 .. n
    BY <2>1
  <2>3. /\ s[m + 1] = s[m] + w[m + 1] /\ r[m + 1] = r[m] + v[m + 1]
        /\ s[m] \in Int /\ r[m] \in Int /\ w[m + 1] \in Int
    BY <1>1, <1>2, <1>3, <2>2
  <2>4. (m < j => r[m] = s[m]) /\ (j <= m => r[m] = s[m] + d)
    <3>1. m <= n
      BY <2>1
    <3>2. QED
      BY <1>6, <3>1
  <2>5. m + 1 # j => v[m + 1] = w[m + 1]
    BY <2>2 DEF AgreeBut
  <2>6. m + 1 = j => v[m + 1] = w[m + 1] + d
    BY <1>4
  <2> HIDE DEF T
  <2>7. CASE m + 1 < j
    <3>1. r[m] = s[m] /\ v[m + 1] = w[m + 1]
      BY <2>4, <2>5, <2>7
    <3>2. QED
      BY <2>3, <2>7, <3>1
  <2>8. CASE m + 1 = j
    <3>1. r[m] = s[m] /\ v[m + 1] = w[m + 1] + d
      BY <2>4, <2>6, <2>8
    <3>2. QED
      BY <1>4, <2>3, <2>8, <3>1
  <2>9. CASE j < m + 1
    <3>1. r[m] = s[m] + d /\ v[m + 1] = w[m + 1]
      BY <2>4, <2>5, <2>9
    <3>2. QED
      BY <1>4, <2>3, <2>9, <3>1
  <2>10. QED
    BY <2>7, <2>8, <2>9
<1>7. n \in T
  <2> HIDE DEF T
  <2>1. QED
    BY <1>5, <1>6, SetInduction
<1>8. QED
  BY <1>7 DEF d
=============================================================================
