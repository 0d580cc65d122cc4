----------------------------- MODULE Induction -----------------------------
(***************************************************************************)
(* Facts about natural numbers and sums that the proofs share.  Induction  *)
(* is stated over sets of numbers: a set with zero and every successor has *)
(* all of them, because what it lacks would have a least member.           *)
(***************************************************************************)
EXTENDS Integers, Sequences, FiniteSets, WellFoundedInduction, FiniteSetTheorems, TLAPS

LessOnNat == {p \in Nat \X Nat : p[1] < p[2]}

\* Every set of natural numbers with a member has a least one.
THEOREM LeastNatural ==
    ASSUME NEW S \in SUBSET Nat, S # {}
    PROVE  \E m \in S : \A k \in S : m <= k
<1>1. IsWellFoundedOn(LessOnNat, Nat)
  BY NatLessThanWellFounded DEF OpToRel, LessOnNat
<1>2. PICK m \in S : \A k \in S : ~ (<<k, m>> \in LessOnNat)
  BY <1>1, WFMin
<1>3. ASSUME NEW k \in S PROVE m <= k
  <2>1. k \in Nat /\ m \in Nat /\ <<k, m>> \in Nat \X Nat
    OBVIOUS
  <2>2. ~ (k < m)
    BY <1>2, <2>1 DEF LessOnNat
  <2> QED
    BY <2>1, <2>2
<1> QED
  BY <1>3

\* Induction: from lo up to any n.
THEOREM UpFrom ==
    ASSUME NEW lo \in Int, NEW hi \in Int, NEW S, lo \in S,
           \A n \in Int : lo <= n /\ n < hi /\ n \in S => n + 1 \in S
    PROVE  \A n \in lo..hi : n \in S
<1> SUFFICES ASSUME NEW n \in lo..hi, n \notin S PROVE FALSE
  OBVIOUS
<1> DEFINE Lacks == {k \in Nat : lo + k <= hi /\ lo + k \notin S}
<1>1. n - lo \in Lacks
  OBVIOUS
<1>2. PICK m \in Lacks : \A k \in Lacks : m <= k
  BY <1>1, LeastNatural
<1>3. m # 0
  BY <1>2
<1>4. m - 1 \in Nat /\ m - 1 \notin Lacks
  BY <1>2, <1>3
<1>5. lo + (m - 1) \in S
  BY <1>2, <1>4
<1>6. (lo + (m - 1)) + 1 \in S
  BY <1>2, <1>3, <1>5
<1> QED
  BY <1>2, <1>6

----------------------------------------------------------------------------
(* Functions defined by recursion over a range *)

\* g gives a next value in T for each place of the range and value in T.
IsRule(g, lo, hi, T) == g \in [((lo + 1)..hi) \X T -> T]

Follows(r, g, lo, hi) == \A i \in (lo + 1)..hi : r[i] = g[<<i, r[i - 1]>>]

\* A rule that gives each value from the one before defines a function.
THEOREM RecursionExists ==
    ASSUME NEW lo \in Int, NEW hi \in Int, lo <= hi, NEW T, NEW b \in T,
           NEW g, IsRule(g, lo, hi, T)
    PROVE  \E r \in [lo..hi -> T] : r[lo] = b /\ Follows(r, g, lo, hi)
<1> DEFINE Fits(r, n) == /\ r \in [lo..n -> T] /\ r[lo] = b
                         /\ \A i \in (lo + 1)..n : r[i] = g[<<i, r[i - 1]>>]
           S == {n \in lo..hi : \E r : Fits(r, n)}
<1>1. lo \in S
  <2> DEFINE r == [i \in lo..lo |-> b]
  <2>1. Fits(r, lo)
    OBVIOUS
  <2> HIDE DEF r
  <2> QED
    BY <2>1
<1>2. ASSUME NEW n \in Int, lo <= n, n < hi, n \in S PROVE n + 1 \in S
  <2>1. PICK r : Fits(r, n)
    BY <1>2
  <2> DEFINE q == [i \in lo..(n + 1) |-> IF i = n + 1 THEN g[<<n + 1, r[n]>>] ELSE r[i]]
  <2>2. r \in [lo..n -> T] /\ n \in lo..n /\ n + 1 \in (lo + 1)..hi
    BY <1>2, <2>1
  <2>3. g[<<n + 1, r[n]>>] \in T
    <3>1. r[n] \in T
      BY <2>2
    <3>2. <<n + 1, r[n]>> \in ((lo + 1)..hi) \X T
      BY <2>2, <3>1
    <3> QED
      BY <3>2 DEF IsRule
  <2>4. q \in [lo..(n + 1) -> T] /\ q[lo] = b
    BY <1>2, <2>1, <2>2, <2>3
  <2>5. ASSUME NEW i \in (lo + 1)..(n + 1) PROVE q[i] = g[<<i, q[i - 1]>>]
    <3>1. i \in lo..(n + 1) /\ i - 1 \in lo..(n + 1) /\ i - 1 # n + 1
      BY <1>2
    <3>2. CASE i = n + 1
      BY <1>2, <3>1, <3>2
    <3>3. CASE i # n + 1
      <4>1. i \in (lo + 1)..n
        BY <1>2, <3>3
      <4>2. r[i] = g[<<i, r[i - 1]>>]
        BY <2>1, <4>1
      <4> QED
        BY <3>1, <3>3, <4>2
    <3> QED
      BY <3>2, <3>3
  <2>6. Fits(q, n + 1)
    BY <2>4, <2>5
  <2>7. n + 1 \in lo..hi
    BY <1>2
  <2> HIDE DEF q
  <2> QED
    BY <2>6, <2>7
<1>3. hi \in S
  <2> HIDE DEF S
  <2>1. \A n \in lo..hi : n \in S
    BY <1>1, <1>2, UpFrom
  <2> QED
    BY <2>1
<1> QED
  BY <1>3 DEF Follows

----------------------------------------------------------------------------
(* Sums *)

\* s is the running sum of a over lo + 1 .. hi, from zero.
IsSum(s, a, lo, hi) ==
    /\ s \in [lo..hi -> Int]
    /\ s[lo] = 0
    /\ \A i \in (lo + 1)..hi : s[i] = s[i - 1] + a[i]

LEMMA SumExists ==
    ASSUME NEW lo \in Int, NEW hi \in Int, lo <= hi, NEW a,
           \A i \in (lo + 1)..hi : a[i] \in Int
    PROVE  \E s : IsSum(s, a, lo, hi)
<1> DEFINE S == {n \in lo..hi : \E s : IsSum(s, a, lo, n)}
<1>1. lo \in S
  <2>1. IsSum([i \in lo..lo |-> 0], a, lo, lo)
    BY DEF IsSum
  <2> QED
    BY <2>1
<1>2. ASSUME NEW n \in Int, lo <= n, n < hi, n \in S PROVE n + 1 \in S
  <2>1. PICK s : IsSum(s, a, lo, n)
    BY <1>2
  <2> DEFINE t == [i \in lo..(n + 1) |-> IF i = n + 1 THEN s[n] + a[n + 1] ELSE s[i]]
  <2>2. s \in [lo..n -> Int] /\ n + 1 \in (lo + 1)..hi
    BY <1>2, <2>1 DEF IsSum
  <2>3. t \in [lo..(n + 1) -> Int]
    BY <1>2, <2>2
  <2>4. t[lo] = 0
    BY <1>2, <2>1 DEF IsSum
  <2>5. ASSUME NEW i \in (lo + 1)..(n + 1) PROVE t[i] = t[i - 1] + a[i]
    <3>1. i \in lo..(n + 1) /\ i - 1 \in lo..(n + 1) /\ i - 1 # n + 1
      BY <1>2
    <3>2. CASE i = n + 1
      BY <1>2, <3>1, <3>2
    <3>3. CASE i # n + 1
      <4>1. i \in (lo + 1)..n
        BY <1>2, <3>3
      <4>2. s[i] = s[i - 1] + a[i]
        BY <2>1, <4>1 DEF IsSum
      <4> QED
        BY <3>1, <3>3, <4>2
    <3> QED
      BY <3>2, <3>3
  <2>6. IsSum(t, a, lo, n + 1)
    BY <2>3, <2>4, <2>5 DEF IsSum
  <2> QED
    BY <1>2, <2>6
<1>3. hi \in S
  <2> HIDE DEF S
  <2>1. \A n \in lo..hi : n \in S
    BY <1>1, <1>2, UpFrom
  <2> QED
    BY <2>1
<1> QED
  BY <1>3

\* A running sum is determined by what it adds up.
LEMMA SumUnique ==
    ASSUME NEW lo \in Int, NEW hi \in Int, NEW a, NEW s, NEW t,
           IsSum(s, a, lo, hi), IsSum(t, a, lo, hi), lo <= hi
    PROVE  s = t
<1> DEFINE S == {j \in lo..hi : s[j] = t[j]}
<1>1. lo \in S
  BY DEF IsSum
<1>2. ASSUME NEW n \in Int, lo <= n, n < hi, n \in S PROVE n + 1 \in S
  <2>1. n + 1 \in (lo + 1)..hi /\ n + 1 \in lo..hi /\ (n + 1) - 1 = n
    BY <1>2
  <2>2. s[n + 1] = s[n] + a[n + 1] /\ t[n + 1] = t[n] + a[n + 1]
    BY <2>1 DEF IsSum
  <2> QED
    BY <1>2, <2>1, <2>2
<1>3. \A n \in lo..hi : n \in S
  <2> HIDE DEF S
  <2> QED
    BY <1>1, <1>2, UpFrom
<1>4. s = [i \in lo..hi |-> s[i]] /\ t = [i \in lo..hi |-> t[i]]
  BY DEF IsSum
<1> QED
  BY <1>3, <1>4

\* One more term.
LEMMA SumExtend ==
    ASSUME NEW lo \in Int, NEW hi \in Int, lo <= hi, NEW a, NEW s, NEW b,
           IsSum(s, a, lo, hi), \A i \in (lo + 1)..hi : b[i] = a[i],
           b[hi + 1] \in Int
    PROVE  LET t == [i \in lo..(hi + 1) |-> IF i = hi + 1 THEN s[hi] + b[hi + 1] ELSE s[i]]
           IN  IsSum(t, b, lo, hi + 1) /\ t[hi + 1] = s[hi] + b[hi + 1]
<1> DEFINE t == [i \in lo..(hi + 1) |-> IF i = hi + 1 THEN s[hi] + b[hi + 1] ELSE s[i]]
<1>1. s \in [lo..hi -> Int] /\ hi + 1 \in lo..(hi + 1) /\ hi \in lo..hi
  BY DEF IsSum
<1>2. t \in [lo..(hi + 1) -> Int] /\ t[hi + 1] = s[hi] + b[hi + 1]
  BY <1>1
<1>3. t[lo] = 0
  BY DEF IsSum
<1>4. ASSUME NEW i \in (lo + 1)..(hi + 1) PROVE t[i] = t[i - 1] + b[i]
  <2>1. i \in lo..(hi + 1) /\ i - 1 \in lo..(hi + 1) /\ i - 1 # hi + 1
    OBVIOUS
  <2>2. CASE i = hi + 1
    BY <2>1, <2>2
  <2>3. CASE i # hi + 1
    <3>1. i \in (lo + 1)..hi
      BY <2>3
    <3>2. s[i] = s[i - 1] + b[i]
      BY <3>1 DEF IsSum
    <3> QED
      BY <2>1, <2>3, <3>2
  <2> QED
    BY <2>2, <2>3
<1> QED
  BY <1>2, <1>3, <1>4 DEF IsSum

\* The same terms backwards have the same sum.
LEMMA SumReverse ==
    ASSUME NEW n \in Nat, n >= 1, NEW a, NEW b, NEW s, NEW t,
           IsSum(s, a, 1, n), IsSum(t, b, 1, n),
           \A i \in 2..n : b[i] = a[n + 2 - i] /\ a[i] \in Int
    PROVE  t[n] = s[n]
<1> DEFINE S == {i \in 1..n : t[i] = s[n] - s[n + 1 - i]}
<1>0. /\ s \in [1..n -> Int] /\ s[1] = 0 /\ t \in [1..n -> Int] /\ t[1] = 0
      /\ \A i \in 2..n : s[i] = s[i - 1] + a[i] /\ t[i] = t[i - 1] + b[i]
  BY DEF IsSum
<1>1. 1 \in S
  BY <1>0
<1>2. ASSUME NEW i \in Int, 1 <= i, i < n, i \in S PROVE i + 1 \in S
  <2>1. i + 1 \in 2..n /\ n + 1 - i \in 2..n /\ n + 2 - (i + 1) = n + 1 - i
        /\ (n + 1 - i) - 1 = n + 1 - (i + 1) /\ n + 1 - (i + 1) \in 1..n
        /\ (i + 1) - 1 = i
    BY <1>2
  <2>2. t[i + 1] = t[i] + a[n + 1 - i]
    BY <1>0, <2>1
  <2>3. s[n + 1 - i] = s[n + 1 - (i + 1)] + a[n + 1 - i]
    BY <1>0, <2>1
  <2>4. a[n + 1 - i] \in Int /\ s[n + 1 - (i + 1)] \in Int /\ s[n] \in Int
    BY <1>0, <2>1
  <2> QED
    BY <1>2, <2>1, <2>2, <2>3, <2>4
<1>3. n \in S
  <2> HIDE DEF S
  <2>1. \A i \in 1..n : i \in S
    BY <1>1, <1>2, UpFrom
  <2> QED
    BY <2>1
<1> QED
  BY <1>0, <1>3

\* The recursive definition of a running sum defines it.
THEOREM RunningSum ==
    ASSUME NEW lo \in Int, NEW hi \in Int, lo <= hi, NEW a,
           \A i \in (lo + 1)..hi : a[i] \in Int
    PROVE  LET s[i \in lo..hi] == IF i = lo THEN 0 ELSE s[i - 1] + a[i]
           IN  IsSum(s, a, lo, hi)
<1> DEFINE Rule(s) == s = [i \in lo..hi |-> IF i = lo THEN 0 ELSE s[i - 1] + a[i]]
           s == CHOOSE r : Rule(r)
<1>1. PICK t : IsSum(t, a, lo, hi)
  BY SumExists
<1>2. Rule(t)
  <2>1. t = [i \in lo..hi |-> t[i]]
    BY <1>1 DEF IsSum
  <2>2. \A i \in lo..hi : t[i] = IF i = lo THEN 0 ELSE t[i - 1] + a[i]
    BY <1>1 DEF IsSum
  <2> QED
    BY <2>1, <2>2
<1>3. Rule(s)
  BY <1>2
<1> HIDE DEF s
<1>4. \A i \in lo..hi : s[i] = IF i = lo THEN 0 ELSE s[i - 1] + a[i]
  BY <1>3
<1>5. IsSum(s, a, lo, hi)
  <2>1. \A i \in lo..hi : i \in {j \in lo..hi : s[j] = t[j]}
    <3> DEFINE S == {j \in lo..hi : s[j] = t[j]}
    <3>1. lo \in S
      BY <1>1, <1>4 DEF IsSum
    <3>2. ASSUME NEW n \in Int, lo <= n, n < hi, n \in S PROVE n + 1 \in S
      <4>1. n + 1 \in (lo + 1)..hi /\ n + 1 \in lo..hi /\ n + 1 # lo /\ (n + 1) - 1 = n
        BY <3>2
      <4>2. s[n + 1] = s[n] + a[n + 1] /\ t[n + 1] = t[n] + a[n + 1]
        BY <1>1, <1>4, <4>1 DEF IsSum
      <4> QED
        BY <3>2, <4>1, <4>2
    <3> HIDE DEF S
    <3> QED
      BY <3>1, <3>2, UpFrom DEF S
  <2>2. s = [i \in lo..hi |-> s[i]] /\ t = [i \in lo..hi |-> t[i]]
    BY <1>1, <1>3 DEF IsSum
  <2> QED
    BY <1>1, <2>1, <2>2
<1> QED
  BY <1>5 DEF s

----------------------------------------------------------------------------
(* Rows *)

\* In the rows of a graph every edge has one place: the row its source finds.
AreRows(o, N, M) ==
    /\ o \in [1..(N + 1) -> Nat] /\ o[1] = 0 /\ o[N + 1] = M
    /\ \A i \in 1..N : o[i] <= o[i + 1]
InRow(o, N, e, m) == {i \in 1..(N + 1) : o[i] <= e} = 1..m /\ o[m] <= e /\ e < o[m + 1]

LEMMA RowsCover ==
    ASSUME NEW N \in Nat, NEW M \in Nat, NEW o, AreRows(o, N, M)
    PROVE  /\ \A i \in 1..N : o[i + 1] <= M
           /\ \A e \in 0..(M - 1) : \E m \in 1..N : InRow(o, N, e, m)
<1>0. /\ o \in [1..(N + 1) -> Nat] /\ o[1] = 0 /\ o[N + 1] = M
      /\ \A i \in 1..N : o[i] <= o[i + 1]
  BY DEF AreRows
<1>1. ASSUME NEW i \in 1..(N + 1), NEW j \in 1..(N + 1), i <= j PROVE o[i] <= o[j]
  <2> DEFINE S == {n \in i..(N + 1) : o[i] <= o[n]}
  <2>1. i \in S /\ i \in Int
    BY <1>0
  <2>2. PICK H \in Int : H = N + 1
    OBVIOUS
  <2>4. \A n \in Int : i <= n /\ n < H /\ n \in S => n + 1 \in S
    <3> SUFFICES ASSUME NEW n \in Int, i <= n, n < N + 1, n \in S PROVE n + 1 \in S
      BY <2>2
    <3>1. n \in 1..N /\ n + 1 \in i..(N + 1) /\ o[n] \in Nat /\ o[n + 1] \in Nat /\ o[i] \in Nat
      BY <1>0
    <3> QED
      BY <1>0, <3>1
  <2> HIDE DEF S
  <2>5. \A n \in i..H : n \in S
    BY <2>1, <2>4, UpFrom
  <2>3. \A n \in i..(N + 1) : n \in S
    BY <2>2, <2>5
  <2> QED
    BY <1>1, <2>3 DEF S
<1>2. \A i \in 1..N : o[i + 1] <= M
  BY <1>0, <1>1
<1>3. ASSUME NEW e \in 0..(M - 1)
      PROVE  \E m \in 1..N : InRow(o, N, e, m)
  <2> DEFINE Above == {i \in 1..(N + 1) : ~ (o[i] <= e)}
  <2>1. N + 1 \in Above
    BY <1>0
  <2>2. PICK j \in Above : \A k \in Above : j <= k
    <3>1. Above \in SUBSET Nat /\ Above # {}
      BY <2>1
    <3> HIDE DEF Above
    <3> QED
      BY <3>1, LeastNatural
  <2>3. j # 1
    BY <1>0, <2>2
  <2>4. PICK m \in 1..N : m = j - 1 /\ j = m + 1
    BY <2>2, <2>3
  <2>5. \A i \in 1..(N + 1) : o[i] <= e <=> i <= m
    <3> SUFFICES ASSUME NEW i \in 1..(N + 1) PROVE o[i] <= e <=> i <= m
      OBVIOUS
    <3>1. i <= m => o[i] <= e
      <4>1. i <= m => i \notin Above
        BY <2>2, <2>4
      <4> QED
        BY <4>1
    <3>2. i > m => ~ (o[i] <= e)
      <4>1. i > m => o[j] <= o[i]
        BY <1>1, <2>2, <2>4
      <4>2. o[i] \in Nat /\ o[j] \in Nat /\ ~ (o[j] <= e)
        BY <1>0, <2>2
      <4> QED
        BY <4>1, <4>2
    <3> QED
      BY <3>1, <3>2
  <2>6. {i \in 1..(N + 1) : o[i] <= e} = 1..m
    BY <2>5
  <2>7. o[m] <= e /\ e < o[m + 1]
    <3>1. m \in 1..(N + 1) /\ m + 1 \in 1..(N + 1) /\ o[m + 1] \in Nat
      BY <1>0
    <3> QED
      BY <2>5, <3>1
  <2> QED
    BY <2>6, <2>7 DEF InRow
<1> QED
  BY <1>2, <1>3
=============================================================================
