-------------------------- MODULE GraphFileProofs --------------------------
(***************************************************************************)
(* Proofs about a .graph file, for every width of its fields and all parts *)
(* that make a graph: that the numbers are read back as they were written, *)
(* section by section, so that an untouched file gives its parts; that a   *)
(* damaged one never passes for a graph of another size; and that what is  *)
(* accepted, damaged or not, is safe to walk and has a frame that can be   *)
(* looked up.                                                              *)
(***************************************************************************)
EXTENDS GraphFile, SequenceTheorems, Induction

----------------------------------------------------------------------------
(* Sequences made of pieces *)

Lengths(s) == [i \in DOMAIN s |-> Len(s[i])]

\* Where each piece of a flattened sequence ends up: pos[i] elements are in
\* the first i pieces.
LEMMA FlattenPieces ==
    ASSUME NEW S, NEW s \in Seq(Seq(S)), NEW pos, IsSum(pos, Lengths(s), 0, Len(s))
    PROVE  /\ FlattenSeq(s) \in Seq(S)
           /\ Len(FlattenSeq(s)) = pos[Len(s)]
           /\ \A i \in 1..Len(s) : \A j \in 1..Len(s[i]) :
                /\ pos[i - 1] + j \in 1..Len(FlattenSeq(s))
                /\ FlattenSeq(s)[pos[i - 1] + j] = s[i][j]
<1> DEFINE n == Len(s)
           Rule(r) == r = [i \in 1..n |-> IF i = 1 THEN s[i] ELSE r[i - 1] \o s[i]]
           flatten == CHOOSE r : Rule(r)
<1>1. n \in Nat /\ \A i \in 1..n : s[i] \in Seq(S) /\ Len(s[i]) \in Nat
  <2>1. ASSUME NEW i \in 1..n PROVE s[i] \in Seq(S) /\ Len(s[i]) \in Nat
    <3>1. PICK x \in Seq(S) : x = s[i]
      BY ElementOfSeq
    <3>2. Len(x) \in Nat
      OBVIOUS
    <3> QED
      BY <3>1, <3>2
  <2> QED
    BY <2>1
<1>2. pos[0] = 0 /\ pos \in [0..n -> Int] /\ \A i \in 1..n : pos[i] = pos[i - 1] + Len(s[i])
  <2>1. DOMAIN s = 1..n
    OBVIOUS
  <2> QED
    BY <2>1 DEF IsSum, Lengths
<1>3. CASE n = 0
  <2>1. s = <<>>
    BY <1>3
  <2>2. FlattenSeq(s) = <<>>
    BY <1>3, <2>1 DEF FlattenSeq
  <2> QED
    BY <1>2, <1>3, <2>2
<1>4. CASE n # 0
  <2>1. FlattenSeq(s) = flatten[n]
    BY <1>4 DEF FlattenSeq
  <2>2. \E r : Rule(r)
    <3> DEFINE g == [p \in (2..n) \X Seq(S) |-> p[2] \o s[p[1]]]
    <3>1. IsRule(g, 1, n, Seq(S))
      <4>1. ASSUME NEW p \in (2..n) \X Seq(S) PROVE p[2] \o s[p[1]] \in Seq(S)
        <5>1. p[2] \in Seq(S) /\ s[p[1]] \in Seq(S)
          BY <1>1
        <5> QED
          BY <5>1, ConcatProperties
      <4> QED
        BY <4>1 DEF IsRule
    <3>2. s[1] \in Seq(S) /\ 1 <= n /\ n \in Int /\ 1 \in Int
      BY <1>1, <1>4
    <3> HIDE DEF g, n
    <3>3. PICK r \in [1..n -> Seq(S)] : r[1] = s[1] /\ Follows(r, g, 1, n)
      <4>0. PICK T : T = Seq(S)
        OBVIOUS
      <4>1. PICK m \in Int, b \in T : T = Seq(S) /\ m = n /\ b = s[1]
        BY <3>2, <4>0
      <4>2. IsRule(g, 1, m, T) /\ 1 <= m
        BY <3>1, <3>2, <4>1
      <4>3. \E r \in [1..m -> T] : r[1] = b /\ Follows(r, g, 1, m)
        BY <3>2, <4>2, RecursionExists
      <4> QED
        BY <4>1, <4>3
    <3>4. \A i \in 2..n : g[<<i, r[i - 1]>>] = r[i - 1] \o s[i]
      <4> SUFFICES ASSUME NEW i \in 2..n PROVE g[<<i, r[i - 1]>>] = r[i - 1] \o s[i]
        OBVIOUS
      <4>1. i - 1 \in 1..n
        BY <3>2
      <4>2. <<i, r[i - 1]>> \in (2..n) \X Seq(S)
        BY <3>3, <4>1
      <4> QED
        BY <4>2 DEF g
    <3>5. \A i \in 1..n : r[i] = IF i = 1 THEN s[i] ELSE r[i - 1] \o s[i]
      <4>1. \A i \in 1..n : i # 1 => i \in 2..n
        BY <3>2
      <4>2. \A i \in 2..n : r[i] = g[<<i, r[i - 1]>>]
        BY <3>3 DEF Follows
      <4> QED
        BY <3>3, <3>4, <4>1, <4>2
    <3>6. r = [i \in 1..n |-> r[i]]
      BY <3>3
    <3>7. Rule(r)
      BY <3>5, <3>6
    <3> QED
      BY <3>7
  <2>3. Rule(flatten)
    BY <2>2
  <2> HIDE DEF flatten
  <2>4. \A i \in 1..n : flatten[i] = IF i = 1 THEN s[i] ELSE flatten[i - 1] \o s[i]
    BY <2>3
  <2> DEFINE Placed(k) == /\ flatten[k] \in Seq(S) /\ Len(flatten[k]) = pos[k]
                          /\ \A i \in 1..k : 0 <= pos[i - 1] /\ pos[i - 1] + Len(s[i]) <= pos[k]
                          /\ \A i \in 1..k : \A j \in 1..Len(s[i]) :
                                flatten[k][pos[i - 1] + j] = s[i][j]
             Q == {k \in 1..n : Placed(k)}
  <2>5. 1 \in Q
    <3>1. flatten[1] = s[1] /\ 1 \in 1..n
      BY <1>1, <1>4, <2>4
    <3>2. pos[1] = Len(s[1]) /\ s[1] \in Seq(S) /\ pos[1 - 1] = 0
      BY <1>1, <1>2, <3>1
    <3>3. \A i \in 1..1 : i = 1
      OBVIOUS
    <3> HIDE DEF n
    <3>4. \A i \in 1..1 : \A j \in 1..Len(s[i]) : flatten[1][pos[i - 1] + j] = s[i][j]
      <4> SUFFICES ASSUME NEW j \in 1..Len(s[1]) PROVE flatten[1][pos[1 - 1] + j] = s[1][j]
        BY <3>3
      <4>1. pos[1 - 1] + j = j
        BY <3>2
      <4> QED
        BY <3>1, <4>1
    <3> QED
      BY <3>1, <3>2, <3>3, <3>4
  <2>6. ASSUME NEW k \in Int, 1 <= k, k < n, k \in Q PROVE k + 1 \in Q
    <3>1. k + 1 \in 1..n /\ k + 1 # 1 /\ (k + 1) - 1 = k /\ k \in 1..n
      BY <1>1, <2>6
    <3>2. flatten[k + 1] = flatten[k] \o s[k + 1]
      BY <2>4, <3>1
    <3>3. s[k + 1] \in Seq(S) /\ flatten[k] \in Seq(S)
      BY <1>1, <2>6, <3>1
    <3>4. PICK L \in Nat, M \in Nat : /\ L = Len(flatten[k]) /\ M = Len(s[k + 1])
                                       /\ pos[k] = L /\ pos[k + 1] = L + M
      <4>1. PICK a \in Seq(S) : a = flatten[k]
        BY <3>3
      <4>2. Len(a) \in Nat
        OBVIOUS
      <4>3. Len(flatten[k]) \in Nat /\ Len(s[k + 1]) \in Nat
        BY <1>1, <3>1, <4>1, <4>2
      <4>4. pos[k] = Len(flatten[k])
        BY <2>6
      <4>5. pos[k + 1] = pos[k] + Len(s[k + 1])
        BY <1>2, <3>1
      <4> QED
        BY <4>3, <4>4, <4>5
    <3>5. /\ flatten[k + 1] \in Seq(S)
          /\ Len(flatten[k + 1]) = L + M
          /\ \A i \in 1..(L + M) :
               flatten[k + 1][i] = IF i <= L THEN flatten[k][i] ELSE s[k + 1][i - L]
      <4>1. PICK a \in Seq(S), b \in Seq(S) : a = flatten[k] /\ b = s[k + 1]
        BY <3>3
      <4>2. PICK c : c = flatten[k + 1] /\ c = a \o b
        BY <3>2, <4>1
      <4>3. /\ c \in Seq(S) /\ Len(c) = Len(a) + Len(b)
            /\ \A i \in 1..(Len(a) + Len(b)) :
                 c[i] = IF i <= Len(a) THEN a[i] ELSE b[i - Len(a)]
        BY <4>2, ConcatProperties
      <4>4. Len(a) = L /\ Len(b) = M
        BY <3>4, <4>1
      <4>5. \A i \in 1..(L + M) : c[i] = IF i <= L THEN a[i] ELSE b[i - L]
        BY <4>3, <4>4
      <4>6. c \in Seq(S) /\ Len(c) = L + M
        BY <4>3, <4>4
      <4> HIDE DEF n
      <4> QED
        BY <4>1, <4>2, <4>5, <4>6
    <3>6. k \in Int /\ n \in Int
      BY <1>1
    <3> HIDE DEF n
    <3>7. ASSUME NEW i \in 1..(k + 1)
          PROVE  0 <= pos[i - 1] /\ pos[i - 1] + Len(s[i]) <= pos[k + 1]
                 /\ \A j \in 1..Len(s[i]) : flatten[k + 1][pos[i - 1] + j] = s[i][j]
      <4>1. CASE i = k + 1
        <5>1. pos[i - 1] = L /\ Len(s[i]) = M
          BY <3>1, <3>4, <4>1
        <5>2. ASSUME NEW j \in 1..Len(s[i]) PROVE flatten[k + 1][pos[i - 1] + j] = s[i][j]
          <6>1. j \in 1..M
            BY <5>1
          <6>2. L + j \in 1..(L + M) /\ ~ (L + j <= L) /\ (L + j) - L = j
            BY <6>1
          <6>3. flatten[k + 1][L + j] = s[k + 1][j]
            BY <3>5, <6>2
          <6> QED
            BY <4>1, <5>1, <6>3
        <5>3. 0 <= L /\ L + M <= pos[k + 1]
          BY <3>4
        <5> QED
          BY <5>1, <5>2, <5>3
      <4>2. CASE i # k + 1
        <5>1. i \in 1..k /\ i - 1 \in 0..n /\ i \in 1..n
          BY <3>1, <3>6, <4>2
        <5>2. /\ 0 <= pos[i - 1] /\ pos[i - 1] + Len(s[i]) <= L
              /\ \A j \in 1..Len(s[i]) : flatten[k][pos[i - 1] + j] = s[i][j]
          BY <2>6, <3>4, <5>1
        <5>3. PICK P \in Int, N \in Nat : P = pos[i - 1] /\ N = Len(s[i])
          BY <1>1, <1>2, <5>1
        <5>4. ASSUME NEW j \in 1..Len(s[i]) PROVE flatten[k + 1][pos[i - 1] + j] = s[i][j]
          <6>1. j \in 1..N /\ 0 <= P /\ P + N <= L
            BY <5>2, <5>3
          <6>2. P + j \in 1..(L + M) /\ P + j <= L
            BY <6>1
          <6>3. flatten[k + 1][P + j] = flatten[k][P + j]
            BY <3>5, <6>2
          <6> QED
            BY <5>2, <5>3, <6>3
        <5>5. 0 <= P /\ P + N <= L + M
          <6>1. 0 <= P /\ P + N <= L
            BY <5>2, <5>3
          <6> QED
            BY <6>1
        <5> QED
          BY <3>4, <5>3, <5>4, <5>5
      <4> QED
        BY <4>1, <4>2
    <3> QED
      BY <3>1, <3>4, <3>5, <3>7
  <2>7. n \in Q
    <3>1. 1 \in Int /\ n \in Int /\ n \in 1..n
      BY <1>1, <1>4
    <3> HIDE DEF Q, n
    <3>2. \A k \in 1..n : k \in Q
      BY <2>5, <2>6, <3>1, UpFrom
    <3> QED
      BY <3>1, <3>2
  <2>8. Placed(n)
    BY <2>7
  <2>9. ASSUME NEW i \in 1..n, NEW j \in 1..Len(s[i])
        PROVE  pos[i - 1] + j \in 1..Len(FlattenSeq(s))
    <3> HIDE DEF n
    <3>1. i - 1 \in 0..n /\ n \in 0..n
      BY <1>1
    <3>2. pos[i - 1] \in Int /\ Len(s[i]) \in Nat /\ pos[n] \in Int
      BY <1>1, <1>2, <3>1
    <3>3. 0 <= pos[i - 1] /\ pos[i - 1] + Len(s[i]) <= pos[n] /\ Len(FlattenSeq(s)) = pos[n]
      BY <2>1, <2>8
    <3> HIDE DEF Placed
    <3> QED
      BY <3>2, <3>3
  <2> QED
    BY <2>1, <2>8, <2>9
<1> QED
  BY <1>3, <1>4

\* Pieces of one and the same length w, for the two lengths the format has; f is
\* they in a row.
EvenPieces(S, s, w) == s \in Seq(Seq(S)) /\ \A i \in DOMAIN s : Len(s[i]) = w
EvenRow(S, s, w, f) ==
    /\ f \in Seq(S) /\ Len(f) = w * Len(s)
    /\ \A i \in 1..Len(s), j \in 1..w : f[w * (i - 1) + j] = s[i][j]

LEMMA FlattenEven ==
    ASSUME NEW S, NEW s, NEW w \in {2, 6}, EvenPieces(S, s, w)
    PROVE  EvenRow(S, s, w, FlattenSeq(s))
<1>0. s \in Seq(Seq(S)) /\ \A i \in DOMAIN s : Len(s[i]) = w
  BY DEF EvenPieces
<1> DEFINE n == Len(s)
           pos == [i \in 0..n |-> w * i]
<1>1. n \in Nat /\ DOMAIN s = 1..n
  BY <1>0
<1>2. IsSum(pos, Lengths(s), 0, n)
  <2>1. pos \in [0..n -> Int] /\ pos[0] = 0
    BY <1>1
  <2>2. ASSUME NEW i \in (0 + 1)..n PROVE pos[i] = pos[i - 1] + Lengths(s)[i]
    <3>1. i \in 0..n /\ i - 1 \in 0..n /\ i \in 1..n
      BY <1>1
    <3>2. Lengths(s)[i] = w
      BY <1>0, <1>1, <3>1 DEF Lengths
    <3>3. pos[i] = w * i /\ pos[i - 1] = w * (i - 1)
      BY <3>1
    <3> QED
      BY <3>1, <3>2, <3>3
  <2> QED
    BY <2>1, <2>2 DEF IsSum
<1> HIDE DEF pos
<1>3. /\ FlattenSeq(s) \in Seq(S)
      /\ Len(FlattenSeq(s)) = pos[n]
      /\ \A i \in 1..n : \A j \in 1..Len(s[i]) : FlattenSeq(s)[pos[i - 1] + j] = s[i][j]
  BY <1>0, <1>2, FlattenPieces
<1>4. \A i \in 1..n : i - 1 \in 0..n /\ Len(s[i]) = w
  <2>1. \A i \in 1..n : Len(s[i]) = w
    BY <1>0, <1>1
  <2> HIDE DEF n
  <2> QED
    BY <1>1, <2>1
<1>5. pos[n] = w * n /\ \A i \in 1..n : pos[i - 1] = w * (i - 1)
  BY <1>1, <1>4 DEF pos
<1>6. \A i \in 1..n, j \in 1..w : FlattenSeq(s)[w * (i - 1) + j] = s[i][j]
  BY <1>3, <1>4, <1>5
<1> QED
  BY <1>3, <1>5, <1>6 DEF EvenRow

----------------------------------------------------------------------------
(* Division *)

LEMMA DivideFacts ==
    ASSUME NEW u \in Nat, NEW b \in Nat \ {0}
    PROVE  u \div b \in Nat /\ u % b \in 0..(b - 1) /\ u = b * (u \div b) + (u % b)
  OBVIOUS

LEMMA DivideSmall ==
    ASSUME NEW u \in Nat, NEW b \in Nat \ {0}, u < b
    PROVE  u \div b = 0 /\ u % b = u
  OBVIOUS

LEMMA DropsTop ==
    ASSUME NEW d \in Nat, NEW b \in Nat \ {0}, d < b
    PROVE  d % b = d /\ (d + b) % b = d
  OBVIOUS

LEMMA DivideUnique ==
    ASSUME NEW a \in Int, NEW b \in Nat \ {0}, NEW q \in Int, NEW r \in 0..(b - 1),
           a = b * q + r
    PROVE  a \div b = q
  OBVIOUS

\* Dividing twice.
LEMMA DivideTwice ==
    ASSUME NEW u \in Nat, NEW b \in Nat \ {0}, NEW c \in Nat \ {0}
    PROVE  (u \div b) \div c = u \div (c * b)
<1> DEFINE v == u \div b
           w == v \div c
<1>1. PICK r \in 0..(b - 1) : u = b * v + r
  OBVIOUS
<1>2. v \in Nat
  OBVIOUS
<1> HIDE DEF v
<1>3. PICK s \in 0..(c - 1) : v = c * w + s
  BY <1>2
<1>4. w \in Nat
  BY <1>2
<1> HIDE DEF w
<1>5. u = (c * b) * w + (b * s + r)
  BY <1>1, <1>2, <1>3, <1>4
<1>6. b * s + r \in 0..(c * b - 1)
  <2>1. b * s <= b * (c - 1)
    BY <1>3
  <2> QED
    BY <1>1, <1>3, <2>1
<1>7. c * b \in Nat \ {0}
  OBVIOUS
<1>8. u \div (c * b) = w
  BY <1>4, <1>5, <1>6, <1>7, DivideUnique
<1> QED
  BY <1>8 DEF v, w

\* The last digit of v in base g, and what is above it.
LEMMA DigitArithmetic ==
    ASSUME NEW u \in Nat, NEW g \in Nat \ {0}, NEW b \in Nat \ {0}
    PROVE  /\ (u \div b) % g \in 0..(g - 1)
           /\ ((u \div b) % g) * b \in 0..u
           /\ u - (u \div (g * b)) * (g * b)
                = (u - (u \div b) * b) + ((u \div b) % g) * b
<1>1. PICK v \in Nat, r \in 0..(b - 1) : v = u \div b /\ u = b * v + r
  BY DivideFacts
<1>2. PICK w \in Nat, d \in 0..(g - 1) : w = v \div g /\ d = v % g /\ v = g * w + d
  BY DivideFacts
<1>3. u \div (g * b) = w
  BY <1>1, <1>2, DivideTwice
<1>4. d <= v
  <2>1. g * w >= 0
    OBVIOUS
  <2> QED
    BY <1>2, <2>1
<1>5. d * b <= v * b
  BY <1>4
<1>6. d * b \in 0..u
  <2>1. d * b >= 0 /\ b * v = v * b
    OBVIOUS
  <2> QED
    BY <1>1, <1>5, <2>1
<1>7. w * (g * b) + d * b = v * b
  <2>1. v * b = (g * w + d) * b
    BY <1>2
  <2>2. (g * w + d) * b = (g * w) * b + d * b
    OBVIOUS
  <2>3. (g * w) * b = w * (g * b)
    OBVIOUS
  <2> QED
    BY <2>1, <2>2, <2>3
<1>8. u - w * (g * b) = (u - v * b) + d * b
  <2>1. PICK x \in Int, y \in Int, z \in Int : x = w * (g * b) /\ y = d * b /\ z = v * b
    OBVIOUS
  <2>2. x + y = z
    BY <1>7, <2>1
  <2>3. u - x = (u - z) + y
    BY <2>2
  <2> QED
    BY <2>1, <2>3
<1> QED
  BY <1>1, <1>2, <1>3, <1>6, <1>8

----------------------------------------------------------------------------
(* Bits *)

BitValue(b) == (IF 0 \in b THEN 1 ELSE 0) + (IF 1 \in b THEN 2 ELSE 0)

LEMMA BitSums ==
    ASSUME NEW b \in SUBSET {0, 1}
    PROVE  BitSum(b) = BitValue(b)
<1> DEFINE Next2(r, s) == IF s = {} THEN 0
                          ELSE LET x == CHOOSE x \in s : TRUE IN 2 ^ x + r[s \ {x}]
           Rule(r) == r = [s \in SUBSET b |-> Next2(r, s)]
           t == [s \in SUBSET b |-> BitValue(s)]
           iter == CHOOSE r : Rule(r)
<1>1. 2 ^ 0 = 1 /\ 2 ^ 1 = 2
  OBVIOUS
<1>2. ASSUME NEW r, \A s \in SUBSET b : r[s] = BitValue(s), NEW s \in SUBSET b
      PROVE  Next2(r, s) = BitValue(s)
  <2>1. CASE s = {}
    BY <2>1 DEF BitValue
  <2>2. CASE s # {}
    <3>1. PICK x \in s : x = CHOOSE y \in s : TRUE
      BY <2>2
    <3>2. Next2(r, s) = 2 ^ x + r[s \ {x}]
      BY <2>2, <3>1
    <3>3. r[s \ {x}] = BitValue(s \ {x})
      BY <1>2
    <3> HIDE DEF Next2
    <3>4. x = 0 \/ x = 1
      OBVIOUS
    <3>5. CASE x = 0
      <4>1. 0 \in s /\ 0 \notin s \ {x} /\ (1 \in s \ {x} <=> 1 \in s)
        BY <3>5
      <4>2. 2 ^ x = 1
        BY <3>5
      <4> QED
        BY <3>2, <3>3, <4>1, <4>2 DEF BitValue
    <3>6. CASE x = 1
      <4>1. 1 \in s /\ 1 \notin s \ {x} /\ (0 \in s \ {x} <=> 0 \in s)
        BY <3>6
      <4>2. 2 ^ x = 2
        BY <3>6
      <4> QED
        BY <3>2, <3>3, <4>1, <4>2 DEF BitValue
    <3> QED
      BY <3>4, <3>5, <3>6
  <2> QED
    BY <2>1, <2>2
<1>3. Rule(t)
  <2>1. \A s \in SUBSET b : t[s] = BitValue(s)
    OBVIOUS
  <2> HIDE DEF Next2
  <2>2. \A s \in SUBSET b : Next2(t, s) = BitValue(s)
    BY <1>2, <2>1
  <2> QED
    BY <2>2
<1>4. Rule(iter)
  <2> HIDE DEF t, Rule
  <2> QED
    BY <1>3
<1>5. BitSum(b) = iter[b]
  BY DEF BitSum, MapThenSumSet, MapThenFoldSet
<1> HIDE DEF iter
<1>6. \A s \in SUBSET b : iter[s] = Next2(iter, s)
  BY <1>4
<1>7. iter[{}] = 0
  BY <1>6
<1>8. ASSUME NEW x \in {0, 1}, {x} \in SUBSET b PROVE iter[{x}] = 2 ^ x
  <2>1. (CHOOSE y \in {x} : TRUE) = x /\ {x} \ {x} = {} /\ {x} # {}
    OBVIOUS
  <2>2. iter[{x}] = 2 ^ x + iter[{}]
    BY <1>6, <1>8, <2>1
  <2>3. 2 ^ x \in Int
    OBVIOUS
  <2> QED
    BY <1>7, <2>2, <2>3
<1>a. 0 \in b => iter[{0}] = 1
  <2>1. 0 \in b => {0} \in SUBSET b
    OBVIOUS
  <2> QED
    BY <1>1, <1>8, <2>1
<1>b. 1 \in b => iter[{1}] = 2
  <2>1. 1 \in b => {1} \in SUBSET b
    OBVIOUS
  <2> QED
    BY <1>1, <1>8, <2>1
<1>9. CASE b = {}
  BY <1>5, <1>7, <1>9 DEF BitValue
<1>10. CASE b = {0}
  BY <1>5, <1>a, <1>10 DEF BitValue
<1>11. CASE b = {1}
  BY <1>5, <1>b, <1>11 DEF BitValue
<1>12. CASE b = {0, 1}
  <2>1. iter[{0}] = 1 /\ iter[{1}] = 2
    BY <1>a, <1>b, <1>12
  <2>2. PICK x \in b : x = CHOOSE y \in b : TRUE
    BY <1>12
  <2>3. iter[b] = 2 ^ x + iter[b \ {x}]
    BY <1>6, <1>12, <2>2
  <2>4. CASE x = 0
    <3>1. b \ {x} = {1} /\ 2 ^ x = 1
      BY <1>12, <2>4
    <3> QED
      BY <1>5, <1>12, <2>1, <2>3, <3>1 DEF BitValue
  <2>5. CASE x = 1
    <3>1. b \ {x} = {0} /\ 2 ^ x = 2
      BY <1>12, <2>5
    <3> QED
      BY <1>5, <1>12, <2>1, <2>3, <3>1 DEF BitValue
  <2> QED
    BY <1>12, <2>4, <2>5
<1> QED
  BY <1>9, <1>10, <1>11, <1>12

LEMMA PowersOfTwo ==
    ASSUME NEW i \in 2..15
    PROVE  2 ^ i \in Nat /\ 2 ^ i >= 4
<1>2. i = 2 => 2 ^ i = 4
  OBVIOUS
<1>3. i = 3 => 2 ^ i = 8
  OBVIOUS
<1>4. i = 4 => 2 ^ i = 16
  OBVIOUS
<1>5. i = 5 => 2 ^ i = 32
  OBVIOUS
<1>6. i = 6 => 2 ^ i = 64
  OBVIOUS
<1>7. i = 7 => 2 ^ i = 128
  OBVIOUS
<1>8. i = 8 => 2 ^ i = 256
  OBVIOUS
<1>9. i = 9 => 2 ^ i = 512
  OBVIOUS
<1>10. i = 10 => 2 ^ i = 1024
  OBVIOUS
<1>11. i = 11 => 2 ^ i = 2048
  OBVIOUS
<1>12. i = 12 => 2 ^ i = 4096
  OBVIOUS
<1>13. i = 13 => 2 ^ i = 8192
  OBVIOUS
<1>14. i = 14 => 2 ^ i = 16384
  OBVIOUS
<1>15. i = 15 => 2 ^ i = 32768
  OBVIOUS
<1> QED
  BY <1>2, <1>3, <1>4, <1>5, <1>6, <1>7, <1>8, <1>9, <1>10, <1>11, <1>12, <1>13, <1>14, <1>15

\* Bits survive the number they are written as.
LEMMA BitsReturn ==
    ASSUME NEW b \in SUBSET {0, 1}
    PROVE  BitSum(b) \in CellValue /\ BitSet(BitSum(b)) = b
<1>1. PICK n \in 0..3 : n = BitSum(b) /\ n = BitValue(b)
  BY BitSums DEF BitValue
<1>2. \A i \in 2..15 : (n \div 2 ^ i) % 2 = 0
  <2> SUFFICES ASSUME NEW i \in 2..15 PROVE (n \div 2 ^ i) % 2 = 0
    OBVIOUS
  <2>1. PICK m \in Nat : m = 2 ^ i /\ m >= 4
    BY PowersOfTwo
  <2>2. n \div m = 0
    BY <2>1, DivideSmall
  <2> QED
    BY <2>1, <2>2
<1>3. 2 ^ 0 = 1 /\ 2 ^ 1 = 2
  OBVIOUS
<1>4. ((n \div 1) % 2 = 1 <=> 0 \in b) /\ ((n \div 2) % 2 = 1 <=> 1 \in b)
  <2>1. n = 0 \/ n = 1 \/ n = 2 \/ n = 3
    OBVIOUS
  <2>2. /\ n = 0 => 0 \notin b /\ 1 \notin b
        /\ n = 1 => 0 \in b /\ 1 \notin b
        /\ n = 2 => 0 \notin b /\ 1 \in b
        /\ n = 3 => 0 \in b /\ 1 \in b
    BY <1>1 DEF BitValue
  <2>3. /\ (0 \div 1) % 2 = 0 /\ (0 \div 2) % 2 = 0
        /\ (1 \div 1) % 2 = 1 /\ (1 \div 2) % 2 = 0
        /\ (2 \div 1) % 2 = 0 /\ (2 \div 2) % 2 = 1
        /\ (3 \div 1) % 2 = 1 /\ (3 \div 2) % 2 = 1
    OBVIOUS
  <2> QED
    BY <2>1, <2>2, <2>3
<1>5. BitSet(n) = {i \in 0..15 : (n \div 2 ^ i) % 2 = 1}
  BY DEF BitSet, Bits
<1>6. BitSet(n) \subseteq {0, 1} /\ (0 \in BitSet(n) <=> 0 \in b) /\ (1 \in BitSet(n) <=> 1 \in b)
  <2>1. \A i \in 0..15 : i = 0 \/ i = 1 \/ i \in 2..15
    OBVIOUS
  <2>2. BitSet(n) \subseteq {0, 1}
    <3> SUFFICES ASSUME NEW i \in 0..15, (n \div 2 ^ i) % 2 = 1 PROVE i \in {0, 1}
      BY <1>5
    <3>1. i \in 2..15 => FALSE
      <4>1. i \in 2..15 => (n \div 2 ^ i) % 2 = 0
        BY <1>2
      <4> QED
        BY <4>1
    <3> QED
      BY <2>1, <3>1
  <2>3. 0 \in BitSet(n) <=> (n \div 1) % 2 = 1
    BY <1>3, <1>5
  <2>4. 1 \in BitSet(n) <=> (n \div 2) % 2 = 1
    BY <1>3, <1>5
  <2> QED
    BY <1>4, <2>2, <2>3, <2>4
<1>7. n \in CellValue
  BY WidthAssumption DEF CellValue
<1>8. BitSet(n) = b
  <2>1. \A x : x \in b => x = 0 \/ x = 1
    OBVIOUS
  <2>2. \A x : x \in BitSet(n) => x = 0 \/ x = 1
    BY <1>6
  <2>3. PICK c : c = BitSet(n)
    OBVIOUS
  <2>4. \A x : x \in c <=> x \in b
    BY <1>6, <2>1, <2>2, <2>3
  <2>5. c = b
    BY <2>4
  <2> QED
    BY <2>3, <2>5
<1> QED
  BY <1>1, <1>7, <1>8

----------------------------------------------------------------------------
(* Numbers *)

\* zigzag_decode undoes zigzag_encode, whatever the width.
THEOREM ZigzagInverts ==
    ASSUME NEW v \in Int
    PROVE  ZigzagDecode(ZigzagEncode(v)) = v
<1> USE WidthAssumption, UnitAssumption
<1>1. CASE v >= 0
  BY <1>1 DEF ZigzagEncode, ZigzagDecode
<1>2. CASE v < 0
  <2>1. ZigzagEncode(v) = -2 * v - 1 /\ (-2 * v - 1) % 2 = 1
    BY <1>2 DEF ZigzagEncode
  <2>2. (-2 * v - 1 + 1) \div 2 = -v
    OBVIOUS
  <2> QED
    BY <2>1, <2>2 DEF ZigzagDecode
<1> QED
  BY <1>1, <1>2

\* A zigzagged delta fits an unsigned field, even between the two ends of the
\* range, where the difference itself does not fit.
THEOREM DeltaFits ==
    ASSUME NEW x \in Number, NEW y \in Number
    PROVE  ZigzagEncode(Wrapping(x - y)) \in 0..(2 * Half - 1)
  BY WidthAssumption, UnitAssumption DEF Number, Wrapping, ZigzagEncode

\* Adding a wrapped delta to the point before gives the point back: what
\* decode_geometry needs of encode_geometry.
THEOREM DeltaInverts ==
    ASSUME NEW x \in Number, NEW y \in Number
    PROVE  Wrapping(y + ZigzagDecode(ZigzagEncode(Wrapping(x - y)))) = x
<1> USE WidthAssumption, UnitAssumption
<1>1. Wrapping(x - y) \in Int
  BY DEF Number, Wrapping
<1>2. ZigzagDecode(ZigzagEncode(Wrapping(x - y))) = Wrapping(x - y)
  BY <1>1, ZigzagInverts
<1> QED
  BY <1>2 DEF Number, Wrapping

\* A signed coordinate survives its unsigned cell.
THEOREM CellInverts ==
    ASSUME NEW v \in Number
    PROVE  Unsigned(v) \in 0..(2 * Half - 1) /\ Signed(Unsigned(v)) = v
  BY WidthAssumption, UnitAssumption DEF Number, Unsigned, Signed

----------------------------------------------------------------------------
(* Graph::assemble *)

LEMMA FirstOfTwelve ==
    ASSUME NEW S \in SUBSET (1..12), S # {}
    PROVE  \E i \in S : \A j \in S : i <= j
<1> USE WidthAssumption, UnitAssumption
<1> SUFFICES ASSUME \A i \in S : \E j \in S : j < i
             PROVE  FALSE
  OBVIOUS
<1>1. \A i \in S : \E j \in S : j < i /\ i \in 1..12 /\ j \in 1..12
  OBVIOUS
<1>2. 1 \notin S
  BY <1>1
<1>3. 2 \notin S
  BY <1>1, <1>2
<1>4. 3 \notin S
  BY <1>1, <1>2, <1>3
<1>5. 4 \notin S
  BY <1>1, <1>2, <1>3, <1>4
<1>6. 5 \notin S
  BY <1>1, <1>2, <1>3, <1>4, <1>5
<1>7. 6 \notin S
  BY <1>1, <1>2, <1>3, <1>4, <1>5, <1>6
<1>8. 7 \notin S
  BY <1>1, <1>2, <1>3, <1>4, <1>5, <1>6, <1>7
<1>9. 8 \notin S
  BY <1>1, <1>2, <1>3, <1>4, <1>5, <1>6, <1>7, <1>8
<1>10. 9 \notin S
  BY <1>1, <1>2, <1>3, <1>4, <1>5, <1>6, <1>7, <1>8, <1>9
<1>11. 10 \notin S
  BY <1>1, <1>2, <1>3, <1>4, <1>5, <1>6, <1>7, <1>8, <1>9, <1>10
<1>12. 11 \notin S
  BY <1>1, <1>2, <1>3, <1>4, <1>5, <1>6, <1>7, <1>8, <1>9, <1>10, <1>11
<1>13. 12 \notin S
  BY <1>1, <1>2, <1>3, <1>4, <1>5, <1>6, <1>7, <1>8, <1>9, <1>10, <1>11, <1>12
<1>14. PICK i \in S : TRUE
  OBVIOUS
<1>15. i \in 1..12
  OBVIOUS
<1> QED
  BY <1>14, <1>15, <1>2, <1>3, <1>4, <1>5, <1>6, <1>7, <1>8, <1>9, <1>10, <1>11, <1>12, <1>13

\* Parts are accepted only if every check holds; a complaint is no acceptance.
LEMMA AllChecked ==
    ASSUME NEW p, Assemble(p) = None \/ Assemble(p) = "Ok"
    PROVE  Assemble(p) = None /\ \A i \in 1..12 : Checks(p)[i]
<1> USE WidthAssumption, UnitAssumption
<1> DEFINE failed == {i \in 1..12 : ~Checks(p)[i]}
<1>1. DOMAIN Complaints = 1..12
  BY DEF Complaints
<1>2. ASSUME failed # {} PROVE FALSE
  <2>1. \E i \in failed : \A j \in failed : i <= j
    BY <1>2, FirstOfTwelve
  <2>2. (CHOOSE i \in failed : \A j \in failed : i <= j) \in 1..12
    BY <2>1
  <2>3. Assemble(p) = Complaints[CHOOSE i \in failed : \A j \in failed : i <= j]
    BY <1>1, <1>2 DEF Assemble
  <2> QED
    BY <2>2, <2>3, NoneAssumption
<1> QED
  BY <1>1, <1>2 DEF Assemble

\* The program hands out no graph whose sections, rows, frame, coordinates and
\* references were not all checked, whatever happened to the file.
THEOREM AcceptedWasChecked ==
    Spec => [](Accepted => \A i \in 1..12 : Checks(parts)[i])
<1> USE WidthAssumption, UnitAssumption
<1> DEFINE Checked == Accepted => \A i \in 1..12 : Checks(parts)[i]
<1>1. Init => Checked
  BY DEF Init, Accepted
<1>2. Checked /\ [Next]_vars => Checked'
  <2> SUFFICES ASSUME Checked, [Next]_vars PROVE Checked'
    OBVIOUS
  <2>1. CASE FromParts \/ Cut \/ Grow \/ Change \/ ReadHeader \/ ReadNodes \/ ReadEdges
             \/ ReadPoint
    <3>1. pc' # "done"
      BY <2>1 DEF FromParts, Cut, Grow, Change, Spoil, Damageable, ReadHeader, ReadNodes,
                  ReadEdges, ReadPoint, MorePoints
    <3> QED
      BY <3>1 DEF Accepted
  <2>2. CASE RefuseHeader \/ RefuseEdges \/ RefusePoint \/ RefuseLeftover
    <3>1. HeaderError # None => HeaderError # "Ok"
      BY DEF HeaderError
    <3>2. RefuseHeader => result' # "Ok"
      BY <3>1 DEF RefuseHeader, Stop
    <3>3. \A n : ReadVarint(n).error \in {None, "varint too long", "Truncated"}
      BY DEF ReadVarint
    <3>4. RefusePoint => result' # "Ok"
      BY <3>3 DEF RefusePoint, Stop
    <3>5. RefuseEdges \/ RefuseLeftover => result' # "Ok"
      BY DEF RefuseEdges, RefuseLeftover, Stop
    <3> QED
      BY <2>2, <3>2, <3>4, <3>5 DEF Accepted
  <2>3. CASE Finish
    <3>1. result' = Answer(Assemble(parts)) /\ parts' = parts
      BY <2>3 DEF Finish, Stop
    <3>2. result' = "Ok" => \A i \in 1..12 : Checks(parts)[i]
      BY <3>1, AllChecked DEF Answer
    <3> QED
      BY <3>1, <3>2 DEF Accepted
  <2>4. CASE Settled \/ UNCHANGED vars
    BY <2>4 DEF Settled, vars, Accepted
  <2> QED
    BY <2>1, <2>2, <2>3, <2>4 DEF Next
<1> QED
  BY <1>1, <1>2, PTL DEF Spec

----------------------------------------------------------------------------
(* The frame of a graph across the 180th meridian *)

LEMMA Turns ==
    ASSUME NEW m \in Nat \ {0}, NEW a \in Int, 0 <= a, a < m
    PROVE  a % m = a /\ (a + m) % m = a /\ (a - m) % m = a /\ (a - 2 * m) % m = a
<1> USE WidthAssumption, UnitAssumption
<1>1. a % m = a
  OBVIOUS
<1>2. (a + m) % m = a
  OBVIOUS
<1>3. (a - m) % m = a
  OBVIOUS
<1>4. (a - 2 * m) % m = a
  OBVIOUS
<1> QED
  BY <1>1, <1>2, <1>3, <1>4

\* Whatever whole turns a difference has been moved by, normalizing it brings
\* it back, if it is less than half a turn.
LEMMA Recentered ==
    ASSUME NEW d \in Int, -HalfCircle < d, d < HalfCircle,
           NEW e \in {d - 2 * HalfCircle, d, d + 2 * HalfCircle}
    PROVE  LET r == e % (2 * HalfCircle)
           IN  (IF r >= HalfCircle THEN r - 2 * HalfCircle ELSE r) = d
<1> USE WidthAssumption, UnitAssumption
<1>1. PICK m \in Nat \ {0} : m = 2 * HalfCircle
  OBVIOUS
<1>2. CASE d >= 0
  <2>1. e % m = d
    BY <1>1, <1>2, Turns
  <2> QED
    BY <1>1, <1>2, <2>1
<1>3. CASE d < 0
  <2>1. PICK a \in Int : a = d + m
    BY <1>1
  <2>2. 0 <= a /\ a < m /\ (e = a - 2 * m \/ e = a - m \/ e = a)
    BY <1>1, <1>3, <2>1
  <2>3. a % m = a /\ (a - m) % m = a /\ (a - 2 * m) % m = a
    BY ONLY <2>2, m \in Nat \ {0}, a \in Int, Turns
  <2>4. e % m = a
    BY ONLY <2>2, <2>3
  <2> QED
    BY <1>1, <1>3, <2>1, <2>4
<1> QED
  BY <1>2, <1>3

IsPoint(point) == point \in Point

\* In any accepted graph, what node_latlon shows of a node is within +-180,
\* and normalize_query_lon brings it back to where the node is stored: the
\* statement of FrameIsOneToOne, for every width of the numbers.
THEOREM AcceptedFrame ==
    ASSUME NEW p, Assemble(p) = None, IsPoint(p.bbox.min), IsPoint(p.bbox.max),
           NEW i \in DOMAIN p.nodes, IsPoint(p.nodes[i])
    PROVE  LET lon == WrapLon(Lon(p.nodes[i]))
           IN  /\ -HalfCircle <= lon /\ lon <= HalfCircle
               /\ NormalizeQueryLon(Loads(p), lon) = Lon(p.nodes[i])
<1> USE WidthAssumption, UnitAssumption
<1> DEFINE x == Lon(p.nodes[i])
           low == Lon(p.bbox.min)
           high == Lon(p.bbox.max)
           middle == (low + high) \div 2
<1>1. x \in Number /\ low \in Number /\ high \in Number
  BY DEF IsPoint, Point, Lon
<1>2. CoordOk(p, p.nodes[i]) /\ FrameFits(p)
  <2>1. Checks(p)[8] /\ Checks(p)[10]
    BY AllChecked
  <2> QED
    BY <2>1 DEF Checks
<1>3. low <= x /\ x <= high
  BY <1>2 DEF CoordOk, Lon
<1>4. -HalfCircle <= WrapLon(x) /\ WrapLon(x) <= HalfCircle
  BY <1>1 DEF Number, WrapLon
<1>5. CASE 0 \notin p.flags
  <2>1. WrapLon(x) = x
    BY <1>1, <1>2, <1>5 DEF CoordOk, WrapLon, Number
  <2> QED
    BY <1>4, <1>5, <2>1 DEF NormalizeQueryLon, Loads
<1>6. CASE 0 \in p.flags
  <2>1. high - low <= HalfCircle
    BY <1>2, <1>6 DEF FrameFits
  <2>2. middle \in Int /\ -HalfCircle < x - middle /\ x - middle < HalfCircle
    BY <1>1, <1>3, <2>1 DEF Number
  <2>3. WrapLon(x) - middle \in {(x - middle) - 2 * HalfCircle, x - middle,
                                (x - middle) + 2 * HalfCircle}
    BY <1>1, <2>2 DEF WrapLon, Number
  <2> DEFINE r == (WrapLon(x) - middle) % (2 * HalfCircle)
  <2>4. (IF r >= HalfCircle THEN r - 2 * HalfCircle ELSE r) = x - middle
    <3>1. x - middle \in Int
      BY <1>1, <2>2 DEF Number
    <3> HIDE DEF x, middle
    <3> QED
      BY <2>2, <2>3, <3>1, Recentered
  <2>5. NormalizeQueryLon(Loads(p), WrapLon(x)) =
            middle + (IF r >= HalfCircle THEN r - 2 * HalfCircle ELSE r)
    BY <1>6 DEF NormalizeQueryLon, Loads, Lon
  <2> QED
    BY <1>1, <1>4, <2>2, <2>4, <2>5 DEF Number
<1> QED
  BY <1>5, <1>6

----------------------------------------------------------------------------
(* Varints *)

LEMMA PlaceFacts ==
    /\ Place[0] = 1
    /\ \A i \in 0..MaxGroups : Place[i] \in Nat \ {0}
    /\ \A i \in 1..MaxGroups : Place[i] = Group * Place[i - 1]
<1> USE WidthAssumption, UnitAssumption
<1> DEFINE Rule(r) == r = [i \in 0..MaxGroups |-> IF i = 0 THEN 1 ELSE Group * r[i - 1]]
           T == Nat \ {0}
           g == [q \in (1..MaxGroups) \X T |-> Group * q[2]]
<1>1. Group \in Nat /\ Group >= 2 /\ MaxGroups \in Nat
  OBVIOUS
<1>2. \A v \in T : Group * v \in T
  BY <1>1
<1>3. IsRule(g, 0, MaxGroups, T)
  <2>1. (0 + 1)..MaxGroups = 1..MaxGroups
    OBVIOUS
  <2>2. g \in [(1..MaxGroups) \X T -> T]
    BY <1>2
  <2> QED
    BY <2>1, <2>2 DEF IsRule
<1> HIDE DEF g, T
<1>4. PICK r \in [0..MaxGroups -> T] : r[0] = 1 /\ Follows(r, g, 0, MaxGroups)
  <2>1. 1 \in T
    BY DEF T
  <2> QED
    BY <1>1, <1>3, <2>1, RecursionExists
<1>5. \A i \in 1..MaxGroups : r[i] = Group * r[i - 1]
  <2> SUFFICES ASSUME NEW i \in 1..MaxGroups PROVE r[i] = Group * r[i - 1]
    OBVIOUS
  <2>1. r[i] = g[<<i, r[i - 1]>>]
    BY <1>4 DEF Follows
  <2>2. i - 1 \in 0..MaxGroups
    BY <1>1
  <2>3. <<i, r[i - 1]>> \in (1..MaxGroups) \X T
    BY <1>4, <2>2
  <2> QED
    BY <2>1, <2>3 DEF g
<1>6. Rule(r)
  <2>1. r = [i \in 0..MaxGroups |-> r[i]]
    BY <1>4
  <2>2. \A i \in 0..MaxGroups : i # 0 => i \in 1..MaxGroups
    OBVIOUS
  <2> QED
    BY <1>4, <1>5, <2>1, <2>2
<1>7. Rule(Place)
  <2>1. Place = CHOOSE q : Rule(q)
    BY DEF Place
  <2> QED
    BY <1>6, <2>1
<1> DEFINE S == {i \in 0..MaxGroups : Place[i] = r[i]}
<1>8. \A i \in 0..MaxGroups : i \in S
  <2>1. 0 \in S
    BY <1>4, <1>7
  <2>2. ASSUME NEW i \in Int, 0 <= i, i < MaxGroups, i \in S PROVE i + 1 \in S
    <3>1. i + 1 \in 1..MaxGroups /\ (i + 1) - 1 = i /\ i + 1 # 0 /\ i + 1 \in 0..MaxGroups
      BY <1>1, <2>2
    <3>2. Place[i + 1] = Group * Place[i] /\ r[i + 1] = Group * r[i]
      BY <1>5, <1>7, <3>1
    <3> QED
      BY <2>2, <3>1, <3>2
  <2> HIDE DEF S
  <2> QED
    BY <1>1, <2>1, <2>2, UpFrom
<1>9. \A i \in 0..MaxGroups : Place[i] = r[i]
  BY <1>8
<1>10. \A i \in 1..MaxGroups : i \in 0..MaxGroups /\ i - 1 \in 0..MaxGroups
  BY <1>1
<1>11. 0 \in 0..MaxGroups
  BY <1>1
<1>12. Place[0] = 1
  BY ONLY <1>4, <1>9, <1>11
<1>13. \A i \in 0..MaxGroups : Place[i] \in Nat \ {0}
  BY ONLY <1>4, <1>9 DEF T
<1>14. \A i \in 1..MaxGroups : Place[i] = Group * Place[i - 1]
  BY ONLY <1>5, <1>9, <1>10
<1> QED
  BY <1>12, <1>13, <1>14

\* The number of groups is the least that holds the number.
LEMMA VarintLenFacts ==
    ASSUME NEW u \in CellValue
    PROVE  LET n == VarintLen(u)
           IN  n \in 1..MaxGroups /\ u < Place[n] /\ (n > 1 => u >= Place[n - 1])
<1> USE WidthAssumption, UnitAssumption
<1> DEFINE S == {n \in Nat : n \in 1..MaxGroups /\ u < Place[n]}
           Fits(n) == u < Place[n] /\ (n > 1 => u >= Place[n - 1])
<1>1. u \in Nat /\ u < Place[MaxGroups] /\ MaxGroups \in S
  <2>1. Place[MaxGroups] \in Nat /\ MaxGroups \in 1..MaxGroups
    BY PlaceFacts
  <2> QED
    BY <2>1 DEF CellValue
<1>2. PICK n \in S : \A k \in S : n <= k
  <2>1. S \in SUBSET Nat /\ S # {}
    BY <1>1
  <2> HIDE DEF S
  <2> QED
    BY <2>1, LeastNatural
<1>3. n \in 1..MaxGroups /\ u < Place[n]
  BY <1>2
<1>4. n > 1 => u >= Place[n - 1]
  <2> SUFFICES ASSUME n > 1, ~ (u >= Place[n - 1]) PROVE FALSE
    OBVIOUS
  <2>1. n - 1 \in 1..MaxGroups /\ n - 1 \in Nat /\ n - 1 \in 0..MaxGroups /\ ~ (n <= n - 1)
    BY <1>3
  <2>2. Place[n - 1] \in Nat
    BY <2>1, PlaceFacts
  <2>3. n - 1 \in S
    BY <1>1, <2>1, <2>2
  <2> QED
    BY <1>2, <2>1, <2>3
<1>5. \E k \in 1..MaxGroups : Fits(k)
  BY <1>3, <1>4
<1>6. VarintLen(u) = CHOOSE k \in 1..MaxGroups : Fits(k)
  BY DEF VarintLen
<1> HIDE DEF Fits
<1>7. VarintLen(u) \in 1..MaxGroups /\ Fits(VarintLen(u))
  BY <1>5, <1>6
<1> QED
  BY <1>7 DEF Fits

\* The i-th group of u.
Digit(u, i) == (u \div Place[i - 1]) % Group

\* A group, the place it stands at and what the groups above it hold.
LEMMA DigitFacts ==
    ASSUME NEW u \in CellValue, NEW i \in 1..MaxGroups
    PROVE  /\ Digit(u, i) \in 0..(Group - 1)
           /\ Digit(u, i) * Place[i - 1] \in 0..u
           /\ u - (u \div Place[i]) * Place[i]
                = (u - (u \div Place[i - 1]) * Place[i - 1]) + Digit(u, i) * Place[i - 1]
<1> USE WidthAssumption, UnitAssumption
<1>1. u \in Nat /\ Group \in Nat \ {0}
  BY DEF CellValue
<1>2. PICK b \in Nat \ {0} : b = Place[i - 1]
  <2>1. i - 1 \in 0..MaxGroups
    OBVIOUS
  <2> QED
    BY <2>1, PlaceFacts
<1>3. Place[i] = Group * b
  BY <1>2, PlaceFacts
<1>4. /\ (u \div b) % Group \in 0..(Group - 1)
      /\ ((u \div b) % Group) * b \in 0..u
      /\ u - (u \div (Group * b)) * (Group * b)
           = (u - (u \div b) * b) + ((u \div b) % Group) * b
  BY ONLY <1>1, u \in Nat, b \in Nat \ {0}, DigitArithmetic
<1>5. Digit(u, i) = (u \div b) % Group
  BY <1>2 DEF Digit
<1> QED
  BY <1>2, <1>3, <1>4, <1>5

\* A number is written in bytes of which only the last does not continue.
LEMMA WriteVarintFacts ==
    ASSUME NEW u \in CellValue
    PROVE  LET w == WriteVarint(u)
           IN  /\ w \in Seq(CellValue)
               /\ Len(w) = VarintLen(u) /\ Len(w) \in 1..MaxGroups
               /\ \A i \in 1..Len(w) :
                    /\ Digit(u, i) \in 0..(Group - 1)
                    /\ w[i] = Digit(u, i) + (IF i < Len(w) THEN Group ELSE 0)
<1> USE WidthAssumption, UnitAssumption
<1> DEFINE n == VarintLen(u)
<1>1. n \in 1..MaxGroups
  BY VarintLenFacts
<1> HIDE DEF n
<1>2. WriteVarint(u) = [i \in 1..n |-> Digit(u, i) + (IF i < n THEN Group ELSE 0)]
  BY DEF WriteVarint, Digit, n
<1>3. \A i \in 1..n : Digit(u, i) \in 0..(Group - 1)
  <2>1. \A i \in 1..n : i \in 1..MaxGroups
    BY <1>1
  <2> QED
    BY <2>1, DigitFacts
<1>4. \A i \in 1..n : Digit(u, i) + (IF i < n THEN Group ELSE 0) \in CellValue
  BY <1>3 DEF CellValue
<1>5. WriteVarint(u) \in Seq(CellValue) /\ Len(WriteVarint(u)) = n
  BY <1>1, <1>2, <1>4
<1> QED
  BY <1>1, <1>2, <1>3, <1>5 DEF n

\* What was written is read, and no more of the file than was written.
LEMMA ReadsWritten ==
    ASSUME NEW u \in CellValue, NEW p \in Nat, file \in Seq(CellValue),
           p + Len(WriteVarint(u)) <= Len(file),
           \A j \in 1..Len(WriteVarint(u)) : file[p + j] = WriteVarint(u)[j]
    PROVE  ReadVarint(p) = [error |-> None, at |-> p + Len(WriteVarint(u)), value |-> u]
<1> USE WidthAssumption, UnitAssumption
<1> DEFINE n == Len(WriteVarint(u))
           ends == {k \in 1..MaxGroups : p + k <= Len(file) /\ ~Continues(file[p + k])}
           last == CHOOSE k \in ends : \A j \in ends : k <= j
           bits == [i \in 1..last |-> ((file[p + i] % Group) * Place[i - 1]) % (2 * Half)]
           sum[i \in 0..last] == IF i = 0 THEN 0 ELSE sum[i - 1] + bits[i]
<1>1. PICK L \in Nat : L = Len(file)
  OBVIOUS
<1>2. /\ n \in 1..MaxGroups /\ n = VarintLen(u) /\ u \in Nat /\ p + n <= L
      /\ \A i \in 1..n : /\ Digit(u, i) \in 0..(Group - 1)
                         /\ file[p + i] = Digit(u, i) + (IF i < n THEN Group ELSE 0)
  BY <1>1, WriteVarintFacts DEF CellValue
<1>3. ReadVarint(p) = IF ends # {} THEN [error |-> None, at |-> p + last, value |-> sum[last]]
                      ELSE [error |-> IF p + MaxGroups <= Len(file) THEN "varint too long"
                                      ELSE "Truncated"]
  BY DEF ReadVarint
<1> HIDE DEF n
<1>4. n \in ends /\ \A k \in ends : n <= k
  <2>1. n \in ends
    <3>1. n \in 1..n /\ ~(n < n)
      BY <1>2
    <3>2. PICK d \in 0..(Group - 1) : d = Digit(u, n) /\ file[p + n] = d + 0
      BY <1>2, <3>1
    <3>3. ~Continues(file[p + n])
      BY <3>2 DEF Continues
    <3> QED
      BY <1>1, <1>2, <3>3
  <2>2. ASSUME NEW k \in ends, k < n PROVE FALSE
    <3>1. k \in 1..n /\ ~Continues(file[p + k])
      BY <1>2, <2>2
    <3>2. PICK d \in 0..(Group - 1) : d = Digit(u, k) /\ file[p + k] = d + Group
      BY <1>2, <2>2, <3>1
    <3> QED
      BY <3>1, <3>2 DEF Continues
  <2>3. \A k \in ends : k \in Nat
    OBVIOUS
  <2> HIDE DEF ends
  <2> QED
    BY <1>2, <2>1, <2>2, <2>3
<1>5. last = n
  <2>1. \A k \in ends : k \in Int
    OBVIOUS
  <2> HIDE DEF ends
  <2>2. last \in ends /\ \A k \in ends : last <= k
    BY <1>4
  <2> QED
    BY <1>4, <2>1, <2>2
<1> HIDE DEF ends, last
<1>6. \A i \in 1..n : bits[i] = Digit(u, i) * Place[i - 1] /\ bits[i] \in Int
  <2> SUFFICES ASSUME NEW i \in 1..n
               PROVE  bits[i] = Digit(u, i) * Place[i - 1] /\ bits[i] \in Int
    OBVIOUS
  <2>1. i \in 1..MaxGroups
    BY <1>2
  <2>2. Digit(u, i) \in 0..(Group - 1) /\ Digit(u, i) * Place[i - 1] \in 0..u
    BY <2>1, DigitFacts
  <2>3. file[p + i] % Group = Digit(u, i)
    <3>1. PICK d \in Nat : d = Digit(u, i) /\ d < Group
      BY <2>2
    <3>2. d % Group = d /\ (d + Group) % Group = d
      BY <3>1, DropsTop
    <3>3. file[p + i] = d \/ file[p + i] = d + Group
      <4>1. d + 0 = d
        BY <3>1
      <4>2. file[p + i] = Digit(u, i) + (IF i < n THEN Group ELSE 0)
        BY <1>2
      <4> QED
        BY <3>1, <4>1, <4>2
    <3> QED
      BY <3>1, <3>2, <3>3
  <2>4. PICK x \in 0..u : x = Digit(u, i) * Place[i - 1]
    BY <2>2
  <2>5. x % (2 * Half) = x
    <3>1. u \in Nat /\ u < 2 * Half /\ 2 * Half \in Nat \ {0}
      BY DEF CellValue
    <3>2. x \in Nat /\ x <= u
      BY <3>1
    <3> QED
      BY ONLY <3>1, <3>2, DivideSmall
  <2>6. bits[i] = (Digit(u, i) * Place[i - 1]) % (2 * Half)
    BY <1>5, <2>3
  <2> QED
    BY <2>4, <2>5, <2>6
<1>7. IsSum(sum, bits, 0, n)
  <2> HIDE DEF bits
  <2>1. \A i \in (0 + 1)..n : bits[i] \in Int
    BY <1>6
  <2>2. 0 \in Int /\ n \in Int /\ 0 <= n
    BY <1>2
  <2> QED
    <3>1. IsSum(sum, bits, 0, last)
      BY <1>5, <2>1, <2>2, RunningSum
    <3> QED
      BY <1>5, <3>1
<1> HIDE DEF sum, bits
<1> DEFINE below == [i \in 0..n |-> u - (u \div Place[i]) * Place[i]]
<1>8. IsSum(below, bits, 0, n)
  <2>1. \A i \in 0..n : Place[i] \in Nat \ {0}
    BY <1>2, PlaceFacts
  <2>2. below \in [0..n -> Int]
    <3> SUFFICES ASSUME NEW i \in 0..n PROVE u - (u \div Place[i]) * Place[i] \in Int
      OBVIOUS
    <3>1. PICK b \in Nat \ {0} : b = Place[i]
      BY <2>1
    <3>2. PICK q \in Int : q = u \div b
      <4>1. PICK w \in Int : w = u
        BY <1>2
      <4>2. w \div b \in Int
        BY ONLY w \in Int, b \in Nat \ {0}
      <4> QED
        BY ONLY <4>1, <4>2
    <3>3. PICK c \in Int : c = q * b
      OBVIOUS
    <3>4. u - c \in Int
      BY <1>2
    <3> QED
      BY ONLY <3>1, <3>2, <3>3, <3>4
  <2>3. below[0] = 0
    <3>1. 0 \in 0..n /\ Place[0] = 1
      BY <1>2, PlaceFacts
    <3>2. u - (u \div 1) * 1 = 0
      BY <1>2
    <3> QED
      BY <3>1, <3>2
  <2>4. ASSUME NEW i \in (0 + 1)..n PROVE below[i] = below[i - 1] + bits[i]
    <3>0. PICK N \in Nat, G \in Nat : N = n /\ G = MaxGroups /\ N <= G
      BY <1>2
    <3>1. i \in 1..n /\ i \in 1..MaxGroups /\ i \in 0..n /\ i - 1 \in 0..n
      BY ONLY <3>0, N \in Nat, G \in Nat, i \in (0 + 1)..n
    <3>2. bits[i] = Digit(u, i) * Place[i - 1]
      BY <1>6, <3>1
    <3>3. u - (u \div Place[i]) * Place[i]
            = (u - (u \div Place[i - 1]) * Place[i - 1]) + Digit(u, i) * Place[i - 1]
      BY <3>1, DigitFacts
    <3>4. /\ below[i] = u - (u \div Place[i]) * Place[i]
          /\ below[i - 1] = u - (u \div Place[i - 1]) * Place[i - 1]
      BY ONLY <3>1
    <3> QED
      BY ONLY <3>2, <3>3, <3>4
  <2> HIDE DEF below
  <2> QED
    BY <2>2, <2>3, <2>4 DEF IsSum
<1>9. below[n] = u
  <2>1. u < Place[n] /\ Place[n] \in Nat \ {0}
    <3>1. u < Place[n]
      BY <1>2, VarintLenFacts
    <3>2. n \in 0..MaxGroups
      BY <1>2
    <3> QED
      BY <3>1, <3>2, PlaceFacts
  <2>2. u \div Place[n] = 0
    BY <1>2, <2>1, DivideSmall
  <2>3. n \in 0..n /\ 0 * Place[n] = 0
    BY <1>2, <2>1
  <2>4. below[n] = u - 0 * Place[n]
    BY <2>2, <2>3
  <2> QED
    BY <1>2, <2>3, <2>4
<1> HIDE DEF below
<1>10. sum = below
  <2>1. 0 \in Int /\ n \in Int /\ 0 <= n
    BY <1>2
  <2> QED
    BY <1>7, <1>8, <2>1, SumUnique
<1> QED
  BY <1>3, <1>4, <1>5, <1>9, <1>10 DEF n

----------------------------------------------------------------------------
(* format::serialize: where everything is *)

\* c is a, of length L, followed by b, of length M.
IsJoin(c, a, b, L, M) ==
    /\ Len(c) = L + M
    /\ \A i \in 1..L : c[i] = a[i]
    /\ \A i \in 1..M : c[L + i] = b[i]

LEMMA Joined ==
    ASSUME NEW S, NEW a \in Seq(S), NEW b \in Seq(S), NEW c, c = a \o b
    PROVE  c \in Seq(S) /\ IsJoin(c, a, b, Len(a), Len(b))
<1>1. PICK L \in Nat, M \in Nat : L = Len(a) /\ M = Len(b)
  OBVIOUS
<1>2. /\ c \in Seq(S) /\ Len(c) = Len(a) + Len(b)
      /\ \A i \in 1..(Len(a) + Len(b)) :
           c[i] = IF i <= Len(a) THEN a[i] ELSE b[i - Len(a)]
  BY ConcatProperties
<1>3. \A i \in 1..L : c[i] = a[i]
  <2> SUFFICES ASSUME NEW i \in 1..L PROVE c[i] = a[i]
    OBVIOUS
  <2>1. i \in 1..(L + M) /\ i <= L
    OBVIOUS
  <2> QED
    BY <1>1, <1>2, <2>1
<1>4. \A i \in 1..M : c[L + i] = b[i]
  <2> SUFFICES ASSUME NEW i \in 1..M PROVE c[L + i] = b[i]
    OBVIOUS
  <2>1. L + i \in 1..(L + M) /\ ~ (L + i <= L) /\ (L + i) - L = i
    OBVIOUS
  <2> QED
    BY <1>1, <1>2, <2>1
<1>5. Len(c) = L + M
  BY <1>1, <1>2
<1>6. IsJoin(c, a, b, L, M)
  BY <1>3, <1>4, <1>5 DEF IsJoin
<1> QED
  BY <1>1, <1>2, <1>6

Pieces3(S, u, v, w, A, B, C) ==
    /\ u \in Seq(S) /\ v \in Seq(S) /\ w \in Seq(S)
    /\ A \in Nat /\ B \in Nat /\ C \in Nat
    /\ Len(u) = A /\ Len(v) = B /\ Len(w) = C
IsChain3(h, u, v, w) == h = u \o v \o w
Placed3(S, h, u, v, w, A, B, C) ==
    /\ h \in Seq(S) /\ Len(h) = A + B + C
    /\ \A i \in 1..A : h[i] = u[i]
    /\ \A i \in 1..B : h[A + i] = v[i]
    /\ \A i \in 1..C : h[A + B + i] = w[i]

Pieces5(S, a, b, c, d, e, A, B, C, D, E) ==
    /\ a \in Seq(S) /\ b \in Seq(S) /\ c \in Seq(S) /\ d \in Seq(S) /\ e \in Seq(S)
    /\ A \in Nat /\ B \in Nat /\ C \in Nat /\ D \in Nat /\ E \in Nat
    /\ Len(a) = A /\ Len(b) = B /\ Len(c) = C /\ Len(d) = D /\ Len(e) = E
IsChain5(all, a, b, c, d, e) == all = a \o b \o c \o d \o e
Placed5(S, all, a, b, c, d, e, A, B, C, D, E) ==
    /\ all \in Seq(S) /\ Len(all) = A + B + C + D + E
    /\ \A i \in 1..A : all[i] = a[i]
    /\ \A i \in 1..B : all[A + i] = b[i]
    /\ \A i \in 1..C : all[A + B + i] = c[i]
    /\ \A i \in 1..D : all[A + B + C + i] = d[i]
    /\ \A i \in 1..E : all[A + B + C + D + i] = e[i]

\* The four sections after the header, one after the other.
LEMMA Sections ==
    ASSUME NEW S, NEW a, NEW b, NEW c, NEW d, NEW e, NEW A, NEW B, NEW C, NEW D, NEW E, NEW all,
           Pieces5(S, a, b, c, d, e, A, B, C, D, E), IsChain5(all, a, b, c, d, e)
    PROVE  Placed5(S, all, a, b, c, d, e, A, B, C, D, E)
<1> /\ a \in Seq(S) /\ b \in Seq(S) /\ c \in Seq(S) /\ d \in Seq(S) /\ e \in Seq(S)
    /\ A \in Nat /\ B \in Nat /\ C \in Nat /\ D \in Nat /\ E \in Nat
    /\ Len(a) = A /\ Len(b) = B /\ Len(c) = C /\ Len(d) = D /\ Len(e) = E
  BY DEF Pieces5
<1>1. PICK w : w = a \o b
  OBVIOUS
<1>2. w \in Seq(S) /\ Len(w) = A + B /\ IsJoin(w, a, b, A, B)
  <2>1. w \in Seq(S) /\ IsJoin(w, a, b, Len(a), Len(b))
    BY <1>1, Joined
  <2>2. Len(a) = A
    OBVIOUS
  <2>3. IsJoin(w, a, b, A, B)
    BY <2>1, <2>2
  <2> QED
    BY <2>1, <2>3 DEF IsJoin
<1>3. PICK x : x = w \o c
  OBVIOUS
<1>4. x \in Seq(S) /\ Len(x) = A + B + C /\ IsJoin(x, w, c, A + B, C)
  <2>1. x \in Seq(S) /\ IsJoin(x, w, c, Len(w), Len(c))
    BY <1>2, <1>3, Joined
  <2>2. Len(w) = A + B
    BY <1>2
  <2>3. IsJoin(x, w, c, A + B, C)
    BY <2>1, <2>2
  <2> QED
    BY <2>1, <2>3 DEF IsJoin
<1>5. PICK y : y = x \o d
  OBVIOUS
<1>6. y \in Seq(S) /\ Len(y) = A + B + C + D /\ IsJoin(y, x, d, A + B + C, D)
  <2>1. y \in Seq(S) /\ IsJoin(y, x, d, Len(x), Len(d))
    BY <1>4, <1>5, Joined
  <2>2. Len(x) = A + B + C
    BY <1>4
  <2>3. IsJoin(y, x, d, A + B + C, D)
    BY <2>1, <2>2
  <2> QED
    BY <2>1, <2>3 DEF IsJoin
<1>7. PICK z : z = y \o e
  OBVIOUS
<1>8. z \in Seq(S) /\ Len(z) = A + B + C + D + E /\ IsJoin(z, y, e, A + B + C + D, E)
  <2>1. z \in Seq(S) /\ IsJoin(z, y, e, Len(y), Len(e))
    BY <1>6, <1>7, Joined
  <2>2. Len(y) = A + B + C + D
    BY <1>6
  <2>3. IsJoin(z, y, e, A + B + C + D, E)
    BY <2>1, <2>2
  <2> QED
    BY <2>1, <2>3 DEF IsJoin
<1>9. \A i \in 1..A : z[i] = a[i]
  <2> SUFFICES ASSUME NEW i \in 1..A PROVE z[i] = a[i]
    OBVIOUS
  <2>1. w[i] = a[i]
    BY <1>2 DEF IsJoin
  <2>2. x[i] = w[i]
    <3>1. i \in 1..(A + B)
      OBVIOUS
    <3> QED
      BY <1>4, <3>1 DEF IsJoin
  <2>3. y[i] = x[i]
    <3>1. i \in 1..(A + B + C)
      OBVIOUS
    <3> QED
      BY <1>6, <3>1 DEF IsJoin
  <2>4. z[i] = y[i]
    <3>1. i \in 1..(A + B + C + D)
      OBVIOUS
    <3> QED
      BY <1>8, <3>1 DEF IsJoin
  <2> QED
    BY <2>1, <2>2, <2>3, <2>4
<1>10. \A i \in 1..B : z[A + i] = b[i]
  <2> SUFFICES ASSUME NEW i \in 1..B PROVE z[A + i] = b[i]
    OBVIOUS
  <2>1. w[A + i] = b[i]
    BY <1>2 DEF IsJoin
  <2>2. x[A + i] = w[A + i]
    <3>1. A + i \in 1..(A + B)
      OBVIOUS
    <3> QED
      BY <1>4, <3>1 DEF IsJoin
  <2>3. y[A + i] = x[A + i]
    <3>1. A + i \in 1..(A + B + C)
      OBVIOUS
    <3> QED
      BY <1>6, <3>1 DEF IsJoin
  <2>4. z[A + i] = y[A + i]
    <3>1. A + i \in 1..(A + B + C + D)
      OBVIOUS
    <3> QED
      BY <1>8, <3>1 DEF IsJoin
  <2> QED
    BY <2>1, <2>2, <2>3, <2>4
<1>11. \A i \in 1..C : z[A + B + i] = c[i]
  <2> SUFFICES ASSUME NEW i \in 1..C PROVE z[A + B + i] = c[i]
    OBVIOUS
  <2>1. x[A + B + i] = c[i]
    BY <1>4 DEF IsJoin
  <2>2. y[A + B + i] = x[A + B + i]
    <3>1. A + B + i \in 1..(A + B + C)
      OBVIOUS
    <3> QED
      BY <1>6, <3>1 DEF IsJoin
  <2>3. z[A + B + i] = y[A + B + i]
    <3>1. A + B + i \in 1..(A + B + C + D)
      OBVIOUS
    <3> QED
      BY <1>8, <3>1 DEF IsJoin
  <2> QED
    BY <2>1, <2>2, <2>3
<1>12. \A i \in 1..D : z[A + B + C + i] = d[i]
  <2> SUFFICES ASSUME NEW i \in 1..D PROVE z[A + B + C + i] = d[i]
    OBVIOUS
  <2>1. y[A + B + C + i] = d[i]
    BY <1>6 DEF IsJoin
  <2>2. z[A + B + C + i] = y[A + B + C + i]
    <3>1. A + B + C + i \in 1..(A + B + C + D)
      OBVIOUS
    <3> QED
      BY <1>8, <3>1 DEF IsJoin
  <2> QED
    BY <2>1, <2>2
<1>13. z = all
  BY <1>1, <1>3, <1>5, <1>7 DEF IsChain5
<1>14. Placed5(S, z, a, b, c, d, e, A, B, C, D, E)
  <2>1. z \in Seq(S) /\ Len(z) = A + B + C + D + E
    BY <1>8
  <2>2. \A i \in 1..E : z[A + B + C + D + i] = e[i]
    BY <1>8 DEF IsJoin
  <2> QED
    BY <2>1, <2>2, <1>9, <1>10, <1>11, <1>12 DEF Placed5
<1> QED
  BY <1>13, <1>14

\* Three pieces one after the other.
LEMMA ThreeSections ==
    ASSUME NEW S, NEW u, NEW v, NEW w, NEW A, NEW B, NEW C, NEW h,
           Pieces3(S, u, v, w, A, B, C), IsChain3(h, u, v, w)
    PROVE  Placed3(S, h, u, v, w, A, B, C)
<1> /\ u \in Seq(S) /\ v \in Seq(S) /\ w \in Seq(S)
    /\ A \in Nat /\ B \in Nat /\ C \in Nat
    /\ Len(u) = A /\ Len(v) = B /\ Len(w) = C
  BY DEF Pieces3
<1>1. PICK q : q = u \o v
  OBVIOUS
<1>2. q \in Seq(S) /\ Len(q) = A + B /\ IsJoin(q, u, v, A, B)
  <2>1. q \in Seq(S) /\ IsJoin(q, u, v, Len(u), Len(v))
    BY <1>1, Joined
  <2>2. Len(u) = A
    OBVIOUS
  <2>3. IsJoin(q, u, v, A, B)
    BY <2>1, <2>2
  <2> QED
    BY <2>1, <2>3 DEF IsJoin
<1>3. h \in Seq(S) /\ Len(h) = A + B + C /\ IsJoin(h, q, w, A + B, C)
  <2>1. h \in Seq(S) /\ IsJoin(h, q, w, Len(q), Len(w))
    <3>1. h = q \o w
      BY <1>1 DEF IsChain3
    <3> QED
      BY <1>2, <3>1, Joined
  <2>2. Len(q) = A + B
    BY <1>2
  <2>3. IsJoin(h, q, w, A + B, C)
    BY <2>1, <2>2
  <2> QED
    BY <2>1, <2>3 DEF IsJoin
<1>4. \A i \in 1..A : h[i] = u[i]
  <2> SUFFICES ASSUME NEW i \in 1..A PROVE h[i] = u[i]
    OBVIOUS
  <2>1. q[i] = u[i]
    BY <1>2 DEF IsJoin
  <2>2. i \in 1..(A + B)
    OBVIOUS
  <2> QED
    BY <1>3, <2>1, <2>2 DEF IsJoin
<1>5. \A i \in 1..B : h[A + i] = v[i]
  <2> SUFFICES ASSUME NEW i \in 1..B PROVE h[A + i] = v[i]
    OBVIOUS
  <2>1. q[A + i] = v[i]
    BY <1>2 DEF IsJoin
  <2>2. A + i \in 1..(A + B)
    OBVIOUS
  <2> QED
    BY <1>3, <2>1, <2>2 DEF IsJoin
<1>6. \A i \in 1..C : h[A + B + i] = w[i]
  BY <1>3 DEF IsJoin
<1> QED
  BY <1>3, <1>4, <1>5, <1>6 DEF Placed3

LEMMA PointCellsFacts ==
    ASSUME NEW ps \in Seq(Point)
    PROVE  /\ PointCells(ps) \in Seq(CellValue) /\ Len(PointCells(ps)) = 2 * Len(ps)
           /\ \A i \in 1..Len(ps) : /\ PointCells(ps)[2 * i - 1] = Unsigned(Lat(ps[i]))
                                    /\ PointCells(ps)[2 * i] = Unsigned(Lon(ps[i]))
<1> DEFINE s == [i \in DOMAIN ps |-> <<Unsigned(Lat(ps[i])), Unsigned(Lon(ps[i]))>>]
           n == Len(ps)
<1>0. n \in Nat
  OBVIOUS
<1>1. n \in Nat /\ DOMAIN ps = 1..n /\ \A i \in 1..n : ps[i] \in Point
  BY ElementOfSeq
<1> HIDE DEF n
<1>2. \A i \in 1..n : Unsigned(Lat(ps[i])) \in CellValue /\ Unsigned(Lon(ps[i])) \in CellValue
  BY <1>1, CellInverts DEF Point, Lat, Lon, CellValue
<1>3. s = [i \in 1..n |-> <<Unsigned(Lat(ps[i])), Unsigned(Lon(ps[i]))>>]
  BY <1>1
<1>4. \A i \in 1..n : s[i] \in Seq(CellValue) /\ Len(s[i]) = 2
  BY <1>2, <1>3
<1>5. s \in Seq(Seq(CellValue)) /\ Len(s) = n /\ DOMAIN s = 1..n
  BY <1>1, <1>3, <1>4
<1>6. PointCells(ps) = FlattenSeq(s)
  BY DEF PointCells
<1>7. \A i \in 1..n : s[i][1] = Unsigned(Lat(ps[i])) /\ s[i][2] = Unsigned(Lon(ps[i]))
  BY <1>3
<1> HIDE DEF s
<1>8. /\ FlattenSeq(s) \in Seq(CellValue) /\ Len(FlattenSeq(s)) = 2 * n
      /\ \A i \in 1..n, j \in 1..2 : FlattenSeq(s)[2 * (i - 1) + j] = s[i][j]
  <2>1. EvenPieces(CellValue, s, 2)
    BY <1>4, <1>5 DEF EvenPieces
  <2>2. EvenRow(CellValue, s, 2, FlattenSeq(s))
    BY <2>1, FlattenEven
  <2> QED
    BY ONLY <1>5, <2>2 DEF EvenRow
<1>9. \A i \in 1..n : 2 * (i - 1) + 1 = 2 * i - 1 /\ 2 * (i - 1) + 2 = 2 * i
  BY ONLY <1>0
<1>10. \A i \in 1..n : FlattenSeq(s)[2 * i - 1] = s[i][1] /\ FlattenSeq(s)[2 * i] = s[i][2]
  <2>1. 1 \in 1..2 /\ 2 \in 1..2
    OBVIOUS
  <2>2. \A i \in 1..n : /\ FlattenSeq(s)[2 * (i - 1) + 1] = s[i][1]
                        /\ FlattenSeq(s)[2 * (i - 1) + 2] = s[i][2]
    BY <1>8, <2>1
  <2> QED
    BY <1>9, <2>2
<1> QED
  BY <1>6, <1>7, <1>8, <1>10 DEF n

LEMMA EdgeCellsFacts ==
    ASSUME NEW es \in Seq(Road), \A i \in DOMAIN es : es[i].access \subseteq {0, 1}
    PROVE  LET cells == FlattenSeq([i \in DOMAIN es |-> EdgeCells(es[i])])
           IN  /\ cells \in Seq(CellValue) /\ Len(cells) = 6 * Len(es)
               /\ \A i \in 1..Len(es), k \in 1..6 :
                    cells[6 * (i - 1) + k] = EdgeCells(es[i])[k]
<1> DEFINE s == [i \in DOMAIN es |-> EdgeCells(es[i])]
           n == Len(es)
<1>1. n \in Nat /\ DOMAIN es = 1..n /\ \A i \in 1..n : es[i] \in Road
  BY ElementOfSeq
<1> HIDE DEF n
<1>2. ASSUME NEW i \in 1..n PROVE EdgeCells(es[i]) \in Seq(CellValue) /\ Len(EdgeCells(es[i])) = 6
  <2>1. BitSum(es[i].access) \in CellValue
    BY <1>1, BitsReturn
  <2>2. 0 \in CellValue /\ 1 \in CellValue
    BY WidthAssumption DEF CellValue
  <2> QED
    BY <1>1, <2>1, <2>2 DEF EdgeCells, Road
<1>3. s = [i \in 1..n |-> EdgeCells(es[i])]
  BY <1>1
<1>4. \A i \in 1..n : s[i] \in Seq(CellValue) /\ Len(s[i]) = 6
  BY <1>2, <1>3
<1>5. s \in Seq(Seq(CellValue)) /\ Len(s) = n /\ DOMAIN s = 1..n
  BY <1>1, <1>3, <1>4
<1>6. \A i \in 1..n : s[i] = EdgeCells(es[i])
  BY <1>3
<1>7. s = [i \in DOMAIN es |-> EdgeCells(es[i])]
  OBVIOUS
<1> HIDE DEF s
<1>8. /\ FlattenSeq(s) \in Seq(CellValue) /\ Len(FlattenSeq(s)) = 6 * n
      /\ \A i \in 1..n, j \in 1..6 : FlattenSeq(s)[6 * (i - 1) + j] = s[i][j]
  <2>1. EvenPieces(CellValue, s, 6)
    BY <1>4, <1>5 DEF EvenPieces
  <2>2. EvenRow(CellValue, s, 6, FlattenSeq(s))
    BY <2>1, FlattenEven
  <2> QED
    BY ONLY <1>5, <2>2 DEF EvenRow
<1>9. \A i \in 1..n, k \in 1..6 : FlattenSeq(s)[6 * (i - 1) + k] = EdgeCells(es[i])[k]
  BY ONLY <1>6, <1>8
<1> QED
  BY <1>7, <1>8, <1>9 DEF n

\* The two numbers point i of a pool is written as, and its bytes.
North(ps, i) == ZigzagEncode(Wrapping(Lat(ps[i]) - Lat(Previous(ps, i))))
East(ps, i) == ZigzagEncode(Wrapping(Lon(ps[i]) - Lon(Previous(ps, i))))
PointBytes(ps, i) == WriteVarint(North(ps, i)) \o WriteVarint(East(ps, i))

LEMMA PreviousIsPoint ==
    ASSUME NEW ps \in Seq(Point), NEW i \in 1..Len(ps)
    PROVE  Previous(ps, i) \in Point /\ ps[i] \in Point
<1>1. 0 \in Number
  BY WidthAssumption DEF Number
<1>2. \A k \in 1..Len(ps) : ps[k] \in Point
  BY ElementOfSeq
<1>3. CASE i = 1
  BY <1>1, <1>2, <1>3 DEF Previous, Point
<1>4. CASE i # 1
  <2>1. PICK n \in Nat : n = Len(ps)
    OBVIOUS
  <2>2. i - 1 \in 1..n
    BY <1>4, <2>1
  <2> QED
    BY <1>2, <1>4, <2>1, <2>2 DEF Previous
<1> QED
  BY <1>3, <1>4

LEMMA DeltaIsCell ==
    ASSUME NEW ps \in Seq(Point), NEW i \in 1..Len(ps)
    PROVE  North(ps, i) \in CellValue /\ East(ps, i) \in CellValue
  BY PreviousIsPoint, DeltaFits DEF North, East, Point, Lat, Lon, CellValue

\* Where the bytes of each point are: those of the first i points take pos[i].
IsCourse(pos, ps, bytes) ==
    /\ pos \in [0..Len(ps) -> Nat] /\ pos[0] = 0 /\ pos[Len(ps)] = Len(bytes)
    /\ \A i \in 1..Len(ps) :
         LET u == WriteVarint(North(ps, i))
             v == WriteVarint(East(ps, i))
         IN  /\ pos[i] = pos[i - 1] + Len(u) + Len(v) /\ pos[i] <= Len(bytes)
             /\ \A j \in 1..Len(u) : bytes[pos[i - 1] + j] = u[j]
             /\ \A j \in 1..Len(v) : bytes[pos[i - 1] + Len(u) + j] = v[j]

LEMMA EncodeFacts ==
    ASSUME NEW ps \in Seq(Point)
    PROVE  /\ EncodeGeometry(ps) \in Seq(CellValue)
           /\ \E pos : IsCourse(pos, ps, EncodeGeometry(ps))
<1> DEFINE n == Len(ps)
           s == [i \in DOMAIN ps |-> PointBytes(ps, i)]
           bytes == EncodeGeometry(ps)
<1>1. n \in Nat /\ DOMAIN ps = 1..n
  OBVIOUS
<1> HIDE DEF n
<1>2. bytes = FlattenSeq(s)
  BY DEF EncodeGeometry, PointBytes, North, East
<1> HIDE DEF bytes
<1>3. ASSUME NEW i \in 1..n
      PROVE  /\ WriteVarint(North(ps, i)) \in Seq(CellValue)
             /\ WriteVarint(East(ps, i)) \in Seq(CellValue)
             /\ Len(WriteVarint(North(ps, i))) \in Nat /\ Len(WriteVarint(East(ps, i))) \in Nat
             /\ PointBytes(ps, i) \in Seq(CellValue)
             /\ IsJoin(PointBytes(ps, i), WriteVarint(North(ps, i)), WriteVarint(East(ps, i)),
                       Len(WriteVarint(North(ps, i))), Len(WriteVarint(East(ps, i))))
  <2>1. North(ps, i) \in CellValue /\ East(ps, i) \in CellValue
    BY DeltaIsCell DEF n
  <2>2. PICK u \in Seq(CellValue), v \in Seq(CellValue) :
          u = WriteVarint(North(ps, i)) /\ v = WriteVarint(East(ps, i))
    BY <2>1, WriteVarintFacts
  <2>3. PICK w : w = u \o v
    OBVIOUS
  <2>4. w \in Seq(CellValue) /\ IsJoin(w, u, v, Len(u), Len(v))
    BY <2>3, Joined
  <2>5. Len(u) \in Nat /\ Len(v) \in Nat
    OBVIOUS
  <2>6. w = PointBytes(ps, i)
    BY <2>2, <2>3 DEF PointBytes
  <2> QED
    BY <2>2, <2>4, <2>5, <2>6
<1>4. s = [i \in 1..n |-> PointBytes(ps, i)]
  BY <1>1
<1> HIDE DEF s
<1>5. s \in Seq(Seq(CellValue)) /\ Len(s) = n /\ DOMAIN s = 1..n
  BY <1>1, <1>3, <1>4
<1>6. PICK L : L = Lengths(s)
  OBVIOUS
<1>7. \A i \in 1..n : /\ s[i] = PointBytes(ps, i)
                      /\ L[i] = Len(WriteVarint(North(ps, i))) + Len(WriteVarint(East(ps, i)))
                      /\ L[i] \in Nat /\ L[i] = Len(s[i])
  <2> SUFFICES ASSUME NEW i \in 1..n
               PROVE  /\ s[i] = PointBytes(ps, i)
                      /\ L[i] = Len(WriteVarint(North(ps, i))) + Len(WriteVarint(East(ps, i)))
                      /\ L[i] \in Nat /\ L[i] = Len(s[i])
    OBVIOUS
  <2>1. L[i] = Len(s[i]) /\ s[i] = PointBytes(ps, i)
    BY <1>4, <1>5, <1>6 DEF Lengths
  <2>2. Len(PointBytes(ps, i)) = Len(WriteVarint(North(ps, i))) + Len(WriteVarint(East(ps, i)))
    BY <1>3 DEF IsJoin
  <2> QED
    BY <1>3, <2>1, <2>2
<1>8. PICK pos : IsSum(pos, L, 0, n)
  <2>1. \A i \in (0 + 1)..n : L[i] \in Int
    BY <1>7
  <2>2. 0 \in Int /\ n \in Int /\ 0 <= n
    BY <1>1
  <2> QED
    BY <2>1, <2>2, SumExists
<1>9. /\ bytes \in Seq(CellValue) /\ Len(bytes) = pos[n]
      /\ \A i \in 1..n : \A j \in 1..Len(s[i]) :
           pos[i - 1] + j \in 1..Len(bytes) /\ bytes[pos[i - 1] + j] = s[i][j]
  <2>1. IsSum(pos, Lengths(s), 0, Len(s))
    BY <1>5, <1>6, <1>8
  <2>2. /\ FlattenSeq(s) \in Seq(CellValue)
        /\ Len(FlattenSeq(s)) = pos[Len(s)]
        /\ \A i \in 1..Len(s) : \A j \in 1..Len(s[i]) :
             /\ pos[i - 1] + j \in 1..Len(FlattenSeq(s))
             /\ FlattenSeq(s)[pos[i - 1] + j] = s[i][j]
    BY ONLY <1>5, <2>1, FlattenPieces
  <2> QED
    BY <1>2, <1>5, <2>2
<1>10. pos[0] = 0 /\ pos \in [0..n -> Int] /\ \A i \in 1..n : pos[i] = pos[i - 1] + L[i]
  BY <1>8 DEF IsSum
<1> DEFINE Q == {i \in 0..n : pos[i] >= 0}
<1>11. \A i \in 0..n : i \in Q
  <2>1. 0 \in Q
    BY <1>1, <1>10
  <2>2. ASSUME NEW i \in Int, 0 <= i, i < n, i \in Q PROVE i + 1 \in Q
    <3>1. i + 1 \in 1..n /\ (i + 1) - 1 = i /\ i + 1 \in 0..n /\ i \in 0..n
      BY <1>1, <2>2
    <3>2. pos[i + 1] = pos[i] + L[i + 1] /\ pos[i] \in Int /\ L[i + 1] \in Nat
      BY <1>7, <1>10, <3>1
    <3> QED
      BY <2>2, <3>1, <3>2
  <2> HIDE DEF Q
  <2> QED
    BY <1>1, <2>1, <2>2, UpFrom
<1>12. pos \in [0..n -> Nat]
  BY <1>10, <1>11
<1>13. ASSUME NEW i \in 1..n
       PROVE  LET u == WriteVarint(North(ps, i))
                  v == WriteVarint(East(ps, i))
              IN  /\ pos[i] = pos[i - 1] + Len(u) + Len(v) /\ pos[i] <= Len(bytes)
                  /\ \A j \in 1..Len(u) : bytes[pos[i - 1] + j] = u[j]
                  /\ \A j \in 1..Len(v) : bytes[pos[i - 1] + Len(u) + j] = v[j]
  <2>1. PICK u, v : u = WriteVarint(North(ps, i)) /\ v = WriteVarint(East(ps, i))
    OBVIOUS
  <2>2. PICK A \in Nat, B \in Nat : A = Len(u) /\ B = Len(v)
    BY <1>3, <2>1
  <2>3. IsJoin(s[i], u, v, A, B)
    BY <1>3, <1>7, <2>1, <2>2
  <2>4. L[i] = A + B /\ Len(s[i]) = A + B
    BY <1>7, <2>1, <2>2
  <2>5. PICK P \in Nat, M \in Nat : P = pos[i - 1] /\ M = Len(bytes)
    <3>1. i - 1 \in 0..n
      BY <1>1
    <3> QED
      BY <1>9, <1>12, <3>1
  <2>6. pos[i] = P + A + B
    BY <1>10, <2>4, <2>5
  <2>7. \A j \in 1..(A + B) : P + j \in 1..M /\ bytes[P + j] = s[i][j]
    BY <1>9, <2>4, <2>5
  <2>8. \A j \in 1..A : bytes[P + j] = u[j]
    <3> SUFFICES ASSUME NEW j \in 1..A PROVE bytes[P + j] = u[j]
      OBVIOUS
    <3>1. j \in 1..(A + B)
      OBVIOUS
    <3> QED
      BY <2>3, <2>7, <3>1 DEF IsJoin
  <2>9. \A j \in 1..B : bytes[P + A + j] = v[j]
    <3> SUFFICES ASSUME NEW j \in 1..B PROVE bytes[P + A + j] = v[j]
      OBVIOUS
    <3>1. A + j \in 1..(A + B) /\ P + (A + j) = P + A + j
      OBVIOUS
    <3>2. bytes[P + (A + j)] = s[i][A + j]
      BY <2>7, <3>1
    <3> QED
      BY <2>3, <3>1, <3>2 DEF IsJoin
  <2>10. P + A + B <= M
    <3>1. A + B = 0 \/ A + B \in 1..(A + B)
      OBVIOUS
    <3>2. CASE A + B = 0
      <4>1. A \in 1..MaxGroups
        <5>1. North(ps, i) \in CellValue
          BY DeltaIsCell DEF n
        <5> QED
          BY <2>1, <2>2, <5>1, WriteVarintFacts
      <4> QED
        BY <3>2, <4>1
    <3>3. CASE A + B \in 1..(A + B)
      <4>1. P + (A + B) \in 1..M
        BY <2>7, <3>3
      <4> QED
        BY <4>1
    <3> QED
      BY <3>1, <3>2, <3>3
  <2> QED
    BY <2>1, <2>2, <2>5, <2>6, <2>8, <2>9, <2>10
<1>14. IsCourse(pos, ps, bytes)
  BY <1>9, <1>10, <1>12, <1>13 DEF IsCourse, n
<1> QED
  BY <1>9, <1>14 DEF bytes

\* What is where in the file f of parts p.
Layout(p, f) ==
    LET nodes == Len(p.nodes)
        edges == Len(p.edges)
        bytes == EncodeGeometry(p.geometry)
        corners == <<p.bbox.min, p.bbox.max>>
        roads == HeaderCells + 3 * nodes + 1
    IN  /\ f \in Seq(CellValue) /\ Len(f) = Expected(nodes, edges, Len(bytes))
        /\ f[1] = Magic /\ f[2] = Version /\ f[3] = BitSum(p.flags)
        /\ f[4] = nodes /\ f[5] = edges /\ f[10] = Len(p.geometry) /\ f[11] = Len(bytes)
        /\ \A i \in 1..2 : /\ f[5 + 2 * i - 1] = Unsigned(Lat(corners[i]))
                           /\ f[5 + 2 * i] = Unsigned(Lon(corners[i]))
        /\ \A i \in 1..nodes : /\ f[HeaderCells + 2 * i - 1] = Unsigned(Lat(p.nodes[i]))
                               /\ f[HeaderCells + 2 * i] = Unsigned(Lon(p.nodes[i]))
        /\ \A i \in 1..(nodes + 1) : f[HeaderCells + 2 * nodes + i] = p.offsets[i]
        /\ \A i \in 1..edges, k \in 1..6 :
             f[roads + 6 * (i - 1) + k] = EdgeCells(p.edges[i])[k]
        /\ \A j \in 1..Len(bytes) : f[roads + 6 * edges + j] = bytes[j]

LEMMA SmallUnsigned ==
    ASSUME NEW v \in Nat, v < 2 * Half
    PROVE  v \in CellValue /\ Unsigned(v) = v
<1>1. 2 * Half \in Nat \ {0}
  BY WidthAssumption
<1>2. v % (2 * Half) = v
  BY <1>1, DivideSmall
<1> QED
  BY <1>1, <1>2 DEF Unsigned, CellValue

\* What assemble has checked of parts the builder handed in.
LEMMA AssembledParts ==
    ASSUME NEW p \in PartsType, Assemble(p) = None
    PROVE  /\ p.flags \in SUBSET {0}
           /\ Len(p.nodes) \in Nat /\ Len(p.edges) \in Nat /\ Len(p.geometry) \in Nat
           /\ Len(p.nodes) < 2 * Half /\ Len(p.edges) < 2 * Half /\ Len(p.geometry) < 2 * Half
           /\ Len(p.offsets) = Len(p.nodes) + 1
           /\ \A i \in DOMAIN p.edges : p.edges[i].access \subseteq {0, 1}
<1>1. \A i \in 1..12 : Checks(p)[i]
  BY AllChecked
<1>2. Checks(p)[1] /\ Checks(p)[2] /\ Checks(p)[3] /\ Checks(p)[12]
  BY <1>1
<1>3. /\ p.flags \subseteq {0}
      /\ Len(p.nodes) < 2 * Half - 1 /\ Len(p.edges) < 2 * Half /\ Len(p.geometry) < 2 * Half
      /\ Len(p.offsets) = Len(p.nodes) + 1
      /\ \A i \in DOMAIN p.edges : EdgeOk(p, p.edges[i])
  BY <1>2 DEF Checks
<1>4. p.nodes \in Seq(Point) /\ p.edges \in Seq(Road) /\ p.geometry \in Seq(Point)
  BY DEF PartsType
<1>5. Len(p.nodes) \in Nat /\ Len(p.edges) \in Nat /\ Len(p.geometry) \in Nat
  BY <1>4, LenProperties
<1>6. Half \in Nat
  BY WidthAssumption
<1> QED
  BY <1>3, <1>5, <1>6 DEF EdgeOk

LEMMA SerializeLayout ==
    ASSUME NEW p \in PartsType, Assemble(p) = None, PoolFits(p.geometry)
    PROVE  Layout(p, Serialize(p))
<1> DEFINE bytes == EncodeGeometry(p.geometry)
           corners == <<p.bbox.min, p.bbox.max>>
           a == <<Magic, Version, BitSum(p.flags), Len(p.nodes), Len(p.edges)>>
           b == PointCells(corners)
           c == <<Unsigned(Len(p.geometry)), Unsigned(Len(bytes))>>
           roads == FlattenSeq([i \in DOMAIN p.edges |-> EdgeCells(p.edges[i])])
           points == PointCells(p.nodes)
           f == Serialize(p)
<1>1. /\ p.nodes \in Seq(Point) /\ p.edges \in Seq(Road) /\ p.geometry \in Seq(Point)
      /\ p.offsets \in Seq(CellValue) /\ corners \in Seq(Point) /\ Len(corners) = 2
      /\ p.bbox.min \in Point /\ p.bbox.max \in Point
  BY DEF PartsType
<1>2. PICK N \in Nat, E \in Nat, G \in Nat, B \in Nat :
        N = Len(p.nodes) /\ E = Len(p.edges) /\ G = Len(p.geometry) /\ B = Len(bytes)
  <2>1. Len(bytes) \in Nat
    BY <1>1, EncodeFacts, LenProperties
  <2> QED
    BY <2>1, AssembledParts
<1>3. bytes \in Seq(CellValue)
  BY <1>1, EncodeFacts
<1>4. /\ N \in CellValue /\ E \in CellValue /\ G \in CellValue /\ B \in CellValue
      /\ Unsigned(G) = G /\ Unsigned(B) = B
  <2>1. N < 2 * Half /\ E < 2 * Half /\ G < 2 * Half
    BY <1>2, AssembledParts
  <2>2. B < 2 * Half
    BY <1>2 DEF PoolFits
  <2> QED
    BY <2>1, <2>2, SmallUnsigned
<1>5. Magic \in CellValue /\ Version \in CellValue /\ BitSum(p.flags) \in CellValue
  <2>1. p.flags \in SUBSET {0, 1}
    BY AssembledParts
  <2> QED
    BY <2>1, BitsReturn, GivenAssumption
<1>6. PICK u \in Seq(CellValue) :
        u = a /\ Len(u) = 5 /\ u[1] = Magic /\ u[2] = Version /\ u[3] = BitSum(p.flags)
              /\ u[4] = N /\ u[5] = E
  <2>1. PICK m \in CellValue : m = BitSum(p.flags)
    BY <1>5
  <2>2. a = <<Magic, Version, m, N, E>>
    BY <1>2, <2>1
  <2> HIDE DEF a
  <2>3. a \in Seq(CellValue) /\ Len(a) = 5 /\ a[1] = Magic /\ a[2] = Version /\ a[3] = m
          /\ a[4] = N /\ a[5] = E
    BY ONLY <1>4, <1>5, <2>2, N \in Nat, E \in Nat, m \in CellValue
  <2> QED
    BY <2>1, <2>3
<1>7. PICK v \in Seq(CellValue) :
        /\ v = b /\ Len(v) = 4
        /\ \A i \in 1..2 : v[2 * i - 1] = Unsigned(Lat(corners[i]))
                           /\ v[2 * i] = Unsigned(Lon(corners[i]))
  <2> HIDE DEF corners
  <2>1. /\ b \in Seq(CellValue) /\ Len(b) = 2 * Len(corners)
        /\ \A i \in 1..Len(corners) : b[2 * i - 1] = Unsigned(Lat(corners[i]))
                                      /\ b[2 * i] = Unsigned(Lon(corners[i]))
    BY <1>1, PointCellsFacts
  <2> QED
    BY <1>1, <2>1
<1>8. PICK w \in Seq(CellValue) : w = c /\ Len(w) = 2 /\ w[1] = G /\ w[2] = B
  <2>1. c = <<G, B>>
    BY <1>2, <1>4
  <2> HIDE DEF c
  <2>2. c \in Seq(CellValue) /\ Len(c) = 2 /\ c[1] = G /\ c[2] = B
    BY ONLY <1>4, <2>1
  <2> QED
    BY <2>2
<1>9. PICK x \in Seq(CellValue) :
        /\ x = points /\ Len(x) = 2 * N
        /\ \A i \in 1..N : x[2 * i - 1] = Unsigned(Lat(p.nodes[i]))
                           /\ x[2 * i] = Unsigned(Lon(p.nodes[i]))
  <2>1. /\ points \in Seq(CellValue) /\ Len(points) = 2 * Len(p.nodes)
        /\ \A i \in 1..Len(p.nodes) : points[2 * i - 1] = Unsigned(Lat(p.nodes[i]))
                                      /\ points[2 * i] = Unsigned(Lon(p.nodes[i]))
    BY <1>1, PointCellsFacts
  <2> QED
    BY <1>2, <2>1
<1>10. PICK y \in Seq(CellValue) :
         /\ y = roads /\ Len(y) = 6 * E
         /\ \A i \in 1..E, k \in 1..6 : y[6 * (i - 1) + k] = EdgeCells(p.edges[i])[k]
  <2>1. \A i \in DOMAIN p.edges : p.edges[i].access \subseteq {0, 1}
    BY AssembledParts
  <2>2. /\ roads \in Seq(CellValue) /\ Len(roads) = 6 * Len(p.edges)
        /\ \A i \in 1..Len(p.edges), k \in 1..6 :
             roads[6 * (i - 1) + k] = EdgeCells(p.edges[i])[k]
    BY <1>1, <2>1, EdgeCellsFacts
  <2> QED
    BY <1>2, <2>2
<1>11. PICK o \in Seq(CellValue) : o = p.offsets /\ Len(o) = N + 1
  BY <1>1, <1>2, AssembledParts
<1>12. PICK g \in Seq(CellValue) : g = bytes /\ Len(g) = B
  BY <1>2, <1>3
<1>13. f = u \o v \o w \o x \o o \o y \o g
  BY <1>6, <1>7, <1>8, <1>9, <1>10, <1>11, <1>12 DEF Serialize, BoxOf
<1> PICK R \in Nat, T \in Nat, U \in Nat : R = 5 /\ T = 4 /\ U = 2
  OBVIOUS
<1> PICK h : IsChain3(h, u, v, w)
  BY DEF IsChain3
<1>14. /\ IsChain3(h, u, v, w) /\ R = 5 /\ T = 4 /\ U = 2
       /\ Placed3(CellValue, h, u, v, w, R, T, U)
  <2>1. Pieces3(CellValue, u, v, w, R, T, U)
    BY <1>6, <1>7, <1>8 DEF Pieces3
  <2> QED
    BY <2>1, ThreeSections
<1>15. PICK A \in Nat, C \in Nat, D \in Nat :
         A = 2 * N /\ C = N + 1 /\ D = 6 * E
  OBVIOUS
<1>16. PICK all : IsChain5(all, h, x, o, y, g)
  BY DEF IsChain5
<1>17. /\ all \in Seq(CellValue) /\ Len(all) = 11 + A + C + D + B
       /\ \A i \in 1..11 : all[i] = h[i]
       /\ \A i \in 1..A : all[11 + i] = x[i]
       /\ \A i \in 1..C : all[11 + A + i] = o[i]
       /\ \A i \in 1..D : all[11 + A + C + i] = y[i]
       /\ \A i \in 1..B : all[11 + A + C + D + i] = g[i]
  <2>1. PICK H \in Nat : H = R + T + U /\ H = 11
    BY <1>14
  <2>2. Pieces5(CellValue, h, x, o, y, g, H, A, C, D, B)
    <3>1. h \in Seq(CellValue) /\ Len(h) = H
      BY <1>14, <2>1 DEF Placed3
    <3> QED
      BY <1>9, <1>10, <1>11, <1>12, <1>15, <3>1 DEF Pieces5
  <2>3. Placed5(CellValue, all, h, x, o, y, g, H, A, C, D, B)
    BY <1>16, <2>2, Sections
  <2>4. H = 11
    BY <2>1
  <2> QED
    BY ONLY <2>3, <2>4 DEF Placed5
<1>18. all = f
  BY <1>13, <1>14, <1>16 DEF IsChain3, IsChain5
<1> HIDE DEF f, corners
<1>19. /\ f[1] = Magic /\ f[2] = Version /\ f[3] = BitSum(p.flags)
       /\ f[4] = N /\ f[5] = E /\ f[10] = G /\ f[11] = B
  <2>1. \A i \in 1..11 : f[i] = h[i]
    BY <1>17, <1>18
  <2>2. /\ \A i \in 1..R : h[i] = u[i]
        /\ \A i \in 1..U : h[R + T + i] = w[i]
        /\ R = 5 /\ T = 4 /\ U = 2
    BY <1>14 DEF Placed3
  <2>3. \A i \in {1, 2, 3, 4, 5} : f[i] = u[i]
    <3>1. \A i \in {1, 2, 3, 4, 5} : i \in 1..R /\ i \in 1..11
      BY <2>2
    <3> QED
      BY <2>1, <2>2, <3>1
  <2>4. f[10] = w[1] /\ f[11] = w[2]
    <3>1. /\ 1 \in 1..U /\ R + T + 1 = 10 /\ 2 \in 1..U /\ R + T + 2 = 11
          /\ 10 \in 1..11 /\ 11 \in 1..11
      BY ONLY <2>2
    <3>2. h[10] = w[1] /\ h[11] = w[2]
      BY ONLY <2>2, <3>1
    <3> QED
      BY ONLY <2>1, <3>1, <3>2
  <2> QED
    BY <1>6, <1>8, <2>3, <2>4
<1>20. \A i \in 1..2 : /\ f[5 + 2 * i - 1] = Unsigned(Lat(corners[i]))
                       /\ f[5 + 2 * i] = Unsigned(Lon(corners[i]))
  <2> SUFFICES ASSUME NEW i \in 1..2
               PROVE  /\ f[5 + 2 * i - 1] = Unsigned(Lat(corners[i]))
                      /\ f[5 + 2 * i] = Unsigned(Lon(corners[i]))
    OBVIOUS
  <2>1. R = 5 /\ T = 4 /\ \A j \in 1..T : h[R + j] = v[j]
    BY <1>14 DEF Placed3
  <2>2. \A j \in 1..4 : f[5 + j] = v[j]
    <3> SUFFICES ASSUME NEW j \in 1..4 PROVE f[5 + j] = v[j]
      OBVIOUS
    <3>1. PICK k \in 1..11 : k = 5 + j /\ k = R + j /\ j \in 1..T
      BY ONLY <2>1, j \in 1..4
    <3>2. f[k] = h[k]
      BY ONLY <1>17, <1>18, k \in 1..11
    <3>3. h[k] = v[j]
      BY ONLY <2>1, <3>1
    <3> QED
      BY ONLY <3>1, <3>2, <3>3
  <2>3. PICK j \in 1..4, k \in 1..4 :
          j = 2 * i - 1 /\ k = 2 * i /\ 5 + j = 5 + 2 * i - 1 /\ 5 + k = 5 + 2 * i
    OBVIOUS
  <2>4. f[5 + j] = v[j] /\ f[5 + k] = v[k]
    BY <2>2
  <2>5. v[j] = Unsigned(Lat(corners[i])) /\ v[k] = Unsigned(Lon(corners[i]))
    BY <1>7, <2>3
  <2> QED
    BY ONLY <2>3, <2>4, <2>5
<1>21. \A i \in 1..N : /\ f[11 + 2 * i - 1] = Unsigned(Lat(p.nodes[i]))
                       /\ f[11 + 2 * i] = Unsigned(Lon(p.nodes[i]))
  <2> SUFFICES ASSUME NEW i \in 1..N
               PROVE  /\ f[11 + 2 * i - 1] = Unsigned(Lat(p.nodes[i]))
                      /\ f[11 + 2 * i] = Unsigned(Lon(p.nodes[i]))
    OBVIOUS
  <2>1. 2 * i - 1 \in 1..A /\ 2 * i \in 1..A /\ 11 + (2 * i - 1) = 11 + 2 * i - 1
    BY <1>15
  <2>2. f[11 + 2 * i - 1] = x[2 * i - 1] /\ f[11 + 2 * i] = x[2 * i]
    BY <1>17, <1>18, <2>1
  <2> QED
    BY <1>9, <2>2
<1>22. \A i \in 1..(N + 1) : f[11 + 2 * N + i] = p.offsets[i]
  BY <1>11, <1>15, <1>17, <1>18
<1>23. \A i \in 1..E, k \in 1..6 :
         f[11 + 3 * N + 1 + 6 * (i - 1) + k] = EdgeCells(p.edges[i])[k]
  <2> SUFFICES ASSUME NEW i \in 1..E, NEW k \in 1..6
               PROVE  f[11 + 3 * N + 1 + 6 * (i - 1) + k] = EdgeCells(p.edges[i])[k]
    OBVIOUS
  <2>1. /\ 6 * (i - 1) + k \in 1..D
        /\ 11 + A + C + (6 * (i - 1) + k) = 11 + 3 * N + 1 + 6 * (i - 1) + k
    BY <1>15
  <2>2. f[11 + A + C + (6 * (i - 1) + k)] = y[6 * (i - 1) + k]
    BY <1>17, <1>18, <2>1
  <2> QED
    BY <1>10, <2>1, <2>2
<1>24. \A j \in 1..B : f[11 + 3 * N + 1 + 6 * E + j] = bytes[j]
  <2> SUFFICES ASSUME NEW j \in 1..B PROVE f[11 + 3 * N + 1 + 6 * E + j] = bytes[j]
    OBVIOUS
  <2>1. 11 + A + C + D + j = 11 + 3 * N + 1 + 6 * E + j
    BY <1>15
  <2>2. f[11 + A + C + D + j] = g[j]
    BY <1>17, <1>18
  <2> QED
    BY <1>12, <2>1, <2>2
<1>25. f \in Seq(CellValue) /\ Len(f) = Expected(N, E, B)
  <2>1. 11 + A + C + D + B = 11 + 2 * N + (N + 1) + 6 * E + B
    BY <1>15
  <2> QED
    BY <1>17, <1>18, <2>1 DEF Expected, HeaderCells
<1> HIDE DEF bytes
<1> QED
  BY <1>2, <1>19, <1>20, <1>21, <1>22, <1>23, <1>24, <1>25
     DEF Layout, f, corners, bytes, HeaderCells

----------------------------------------------------------------------------
(* The box of the parts *)

LEMMA LeastOfNumbers ==
    ASSUME NEW S \in SUBSET Number, S # {}
    PROVE  \E x \in S : \A y \in S : x <= y
<1> DEFINE T == {v \in Nat : v - Half \in S}
<1>1. Half \in Nat
  BY WidthAssumption
<1>2. \A x \in S : x \in Int /\ x + Half \in T
  <2> SUFFICES ASSUME NEW x \in S PROVE x \in Int /\ x + Half \in T
    OBVIOUS
  <2>1. x \in Number
    OBVIOUS
  <2>2. x \in Int /\ x + Half \in Nat /\ (x + Half) - Half = x
    BY <1>1, <2>1 DEF Number
  <2> QED
    BY <2>2
<1>3. T \in SUBSET Nat /\ T # {}
  BY <1>2
<1>4. PICK m \in T : \A k \in T : m <= k
  <2> HIDE DEF T
  <2> QED
    BY <1>3, LeastNatural
<1>5. m - Half \in S /\ m \in Nat
  BY <1>4
<1>6. \A y \in S : m - Half <= y
  <2> SUFFICES ASSUME NEW y \in S PROVE m - Half <= y
    OBVIOUS
  <2>1. y \in Int /\ m <= y + Half
    BY <1>2, <1>4
  <2> QED
    BY <1>1, <1>5, <2>1
<1> QED
  BY <1>5, <1>6

LEMMA GreatestOfNumbers ==
    ASSUME NEW S \in SUBSET Number, S # {}
    PROVE  \E x \in S : \A y \in S : y <= x
<1> DEFINE T == {v \in Nat : Half - v \in S}
<1>1. Half \in Nat
  BY WidthAssumption
<1>2. \A x \in S : x \in Int /\ Half - x \in T
  <2> SUFFICES ASSUME NEW x \in S PROVE x \in Int /\ Half - x \in T
    OBVIOUS
  <2>1. x \in Number
    OBVIOUS
  <2>2. x \in Int /\ Half - x \in Nat /\ Half - (Half - x) = x
    BY <1>1, <2>1 DEF Number
  <2> QED
    BY <2>2
<1>3. T \in SUBSET Nat /\ T # {}
  BY <1>2
<1>4. PICK m \in T : \A k \in T : m <= k
  <2> HIDE DEF T
  <2> QED
    BY <1>3, LeastNatural
<1>5. Half - m \in S /\ m \in Nat
  BY <1>4
<1>6. \A y \in S : y <= Half - m
  <2> SUFFICES ASSUME NEW y \in S PROVE y <= Half - m
    OBVIOUS
  <2>1. y \in Int /\ m <= Half - y
    BY <1>2, <1>4
  <2> QED
    BY <1>1, <1>5, <2>1
<1> QED
  BY <1>5, <1>6

LEMMA TightIsBox ==
    ASSUME NEW p \in PartsType
    PROVE  Tight(p) \in [min : Point, max : Point]
<1> DEFINE points == {p.nodes[i] : i \in DOMAIN p.nodes}
                       \cup {p.geometry[i] : i \in DOMAIN p.geometry}
           Side(axis) == {q[axis] : q \in points}
           Low(axis) == CHOOSE x \in Side(axis) : \A q \in points : x <= q[axis]
           High(axis) == CHOOSE x \in Side(axis) : \A q \in points : q[axis] <= x
<1>1. points \subseteq Point
  <2>1. p.nodes \in Seq(Point) /\ p.geometry \in Seq(Point)
    BY DEF PartsType
  <2>2. \A i \in DOMAIN p.nodes : p.nodes[i] \in Point
    <3>1. PICK s \in Seq(Point) : s = p.nodes
      BY <2>1
    <3>2. \A i \in DOMAIN s : s[i] \in Point
      BY ElementOfSeq
    <3> QED
      BY <3>1, <3>2
  <2>3. \A i \in DOMAIN p.geometry : p.geometry[i] \in Point
    <3>1. PICK s \in Seq(Point) : s = p.geometry
      BY <2>1
    <3>2. \A i \in DOMAIN s : s[i] \in Point
      BY ElementOfSeq
    <3> QED
      BY <3>1, <3>2
  <2> QED
    BY <2>2, <2>3
<1>2. CASE points = {}
  <2>1. Tight(p) = [min |-> <<0, 0>>, max |-> <<0, 0>>]
    BY <1>2 DEF Tight
  <2>2. 0 \in Number
    BY WidthAssumption DEF Number
  <2> QED
    BY <2>1, <2>2 DEF Point
<1>3. CASE points # {}
  <2>1. Tight(p) = [min |-> <<Low(1), Low(2)>>, max |-> <<High(1), High(2)>>]
    BY <1>3 DEF Tight
  <2> HIDE DEF points
  <2>2. ASSUME NEW axis \in 1..2 PROVE Low(axis) \in Number /\ High(axis) \in Number
    <3>1. \A q \in Point : q[1] \in Number /\ q[2] \in Number
      BY DEF Point
    <3>2. axis = 1 \/ axis = 2
      OBVIOUS
    <3>3. \A q \in points : q[axis] \in Number
      BY <1>1, <3>1, <3>2
    <3>4. Side(axis) \in SUBSET Number /\ Side(axis) # {}
      BY <1>3, <3>3
    <3>5. \E x \in Side(axis) : \A y \in Side(axis) : x <= y
      <4> HIDE DEF Side
      <4> QED
        BY <3>4, LeastOfNumbers
    <3>6. \E x \in Side(axis) : \A y \in Side(axis) : y <= x
      <4> HIDE DEF Side
      <4> QED
        BY <3>4, GreatestOfNumbers
    <3>7. \A q \in points : q[axis] \in Side(axis)
      OBVIOUS
    <3>8. Low(axis) \in Side(axis)
      BY <3>5, <3>7
    <3>9. High(axis) \in Side(axis)
      BY <3>6, <3>7
    <3> QED
      BY <3>4, <3>8, <3>9
  <2>3. Low(1) \in Number /\ Low(2) \in Number /\ High(1) \in Number /\ High(2) \in Number
    BY <2>2
  <2> HIDE DEF Low, High
  <2> QED
    BY <2>1, <2>3 DEF Point
<1> QED
  BY <1>2, <1>3

LEMMA BoxedIsParts ==
    ASSUME NEW p \in PartsType
    PROVE  /\ Boxed(p) \in PartsType
           /\ Boxed(p).nodes = p.nodes /\ Boxed(p).edges = p.edges
           /\ Boxed(p).offsets = p.offsets /\ Boxed(p).geometry = p.geometry
           /\ Boxed(p).flags = p.flags
<1>1. PICK b \in [min : Point, max : Point] : b = Tight(p)
  BY TightIsBox
<1>2. Boxed(p) = [p EXCEPT !.bbox = b]
  BY <1>1 DEF Boxed
<1> QED
  BY <1>2 DEF PartsType

----------------------------------------------------------------------------
(* The file as it was written, and what damage leaves of it *)

Whole == Serialize(Boxed(given))
Bytes == EncodeGeometry(given.geometry)

MakesGraph == given \in PartsType /\ Assemble(Boxed(given)) = None /\ PoolFits(given.geometry)

\* What may have happened to it.
Damaged ==
    \/ damage = "none" /\ file = Whole
    \/ damage = "cut" /\ \E n \in 0..(Len(Whole) - 1) : file = SubSeq(Whole, 1, n)
    \/ damage = "longer" /\ \E v \in CellValue : file = Append(Whole, v)
    \/ damage = "changed" /\ \E i \in DOMAIN Whole, v \in CellValue :
                                file = [Whole EXCEPT ![i] = v]

\* What a file that has a good header is.
Kept ==
    /\ file \in Seq(CellValue) /\ Len(file) = Len(Whole)
    /\ NodeTotal = Len(given.nodes) /\ EdgeTotal = Len(given.edges) /\ GeoBytes = Len(Bytes)
    /\ damage \in {"none", "changed"} /\ (damage = "none" => file = Whole)
    /\ \E i \in 1..Len(Whole) : \A j \in 1..Len(Whole) : j # i => file[j] = Whole[j]

LEMMA ExpectedIs ==
    ASSUME NEW n \in Nat, NEW e \in Nat, NEW b \in Nat
    PROVE  Expected(n, e, b) = 12 + 3 * n + 6 * e + b /\ Expected(n, e, b) \in Nat
  BY DEF Expected, HeaderCells

LEMMA ChangedCell ==
    ASSUME NEW S, NEW s \in Seq(S), NEW i \in DOMAIN s, NEW v \in S, NEW t,
           t = [s EXCEPT ![i] = v]
    PROVE  /\ t \in Seq(S) /\ Len(t) = Len(s) /\ i \in 1..Len(s)
           /\ \A j \in 1..Len(s) : j # i => t[j] = s[j]
  OBVIOUS

LEMMA FirstCells ==
    ASSUME NEW S, NEW s \in Seq(S), NEW n \in 0..Len(s), NEW t, t = SubSeq(s, 1, n)
    PROVE  t \in Seq(S) /\ Len(t) = n /\ \A i \in 1..n : t[i] = s[i]
<1>1. \A i \in 1..n : i \in 1..Len(s) /\ s[i] \in S
  BY ElementOfSeq
<1> QED
  BY <1>1

LEMMA WholeLayout ==
    ASSUME MakesGraph
    PROVE  Layout(Boxed(given), Whole)
<1>1. Boxed(given) \in PartsType /\ Boxed(given).geometry = given.geometry
  BY BoxedIsParts DEF MakesGraph
<1> QED
  BY <1>1, SerializeLayout DEF MakesGraph, Whole

LEMMA WholeCounts ==
    ASSUME MakesGraph
    PROVE  /\ Whole \in Seq(CellValue)
           /\ Len(given.nodes) \in Nat /\ Len(given.edges) \in Nat
           /\ Len(given.geometry) \in Nat /\ Len(Bytes) \in Nat
           /\ Len(Whole) = Expected(Len(given.nodes), Len(given.edges), Len(Bytes))
           /\ Whole[4] = Len(given.nodes) /\ Whole[5] = Len(given.edges)
           /\ Whole[10] = Len(given.geometry) /\ Whole[11] = Len(Bytes)
<1>1. PICK p \in PartsType : /\ p = Boxed(given) /\ p.nodes = given.nodes /\ p.edges = given.edges
                            /\ p.geometry = given.geometry
  BY BoxedIsParts DEF MakesGraph
<1>2. Layout(p, Whole)
  BY <1>1, WholeLayout
<1>3. /\ Len(given.nodes) \in Nat /\ Len(given.edges) \in Nat /\ Len(given.geometry) \in Nat
  BY <1>1, AssembledParts DEF MakesGraph
<1>4. Len(Bytes) \in Nat
  <2>1. given.geometry \in Seq(Point)
    BY DEF MakesGraph, PartsType
  <2> QED
    BY <2>1, EncodeFacts, LenProperties DEF Bytes
<1> QED
  BY <1>1, <1>2, <1>3, <1>4 DEF Layout, Bytes

LEMMA HeaderPassed ==
    ASSUME file \in Seq(CellValue), HeaderError = None
    PROVE  /\ Len(file) \in Nat /\ 11 <= Len(file)
           /\ Len(file) = Expected(file[4], file[5], file[11])
           /\ file[4] \in Nat /\ file[5] \in Nat /\ file[11] \in Nat
<1>1. PICK L \in Nat : L = Len(file)
  OBVIOUS
<1>2. /\ ~ (L < 11)
      /\ ~ (L < Expected(file[4], file[5], file[11]))
      /\ ~ (L > Expected(file[4], file[5], file[11]))
  BY <1>1, NoneAssumption DEF HeaderError, HeaderCells, NodeTotal, EdgeTotal, GeoBytes
<1>3. \A i \in 1..L : file[i] \in Nat
  <2>1. \A i \in 1..Len(file) : file[i] \in CellValue
    BY ElementOfSeq
  <2> QED
    BY <1>1, <2>1, WidthAssumption DEF CellValue
<1>4. 4 \in 1..L /\ 5 \in 1..L /\ 11 \in 1..L
  BY <1>2
<1>5. PICK n \in Nat, e \in Nat, b \in Nat : n = file[4] /\ e = file[5] /\ b = file[11]
  BY <1>3, <1>4
<1>6. Expected(n, e, b) \in Nat
  BY ExpectedIs
<1> QED
  BY <1>1, <1>2, <1>5, <1>6

\* A good header is that of the whole file: no count can change alone, and
\* nothing can be missing or too much.
LEMMA HeaderKept ==
    ASSUME MakesGraph, Damaged, HeaderError = None
    PROVE  Kept
<1>1. PICK S : S = Seq(CellValue)
  OBVIOUS
<1>2. PICK W \in S : W = Whole
  BY <1>1, WholeCounts
<1>3. PICK M \in Nat, N \in Nat, E \in Nat, B \in Nat :
        /\ M = Len(W) /\ N = Len(given.nodes) /\ E = Len(given.edges) /\ B = Len(Bytes)
        /\ M = Expected(N, E, B) /\ W[4] = N /\ W[5] = E /\ W[11] = B
  <2>1. PICK N \in Nat, E \in Nat, B \in Nat :
          N = Len(given.nodes) /\ E = Len(given.edges) /\ B = Len(Bytes)
    BY WholeCounts
  <2>2. Expected(N, E, B) \in Nat
    BY ExpectedIs
  <2> QED
    BY <1>2, <2>1, <2>2, WholeCounts
<1>4. 11 <= M /\ M = 12 + 3 * N + 6 * E + B
  <2>1. M = Expected(N, E, B)
    BY <1>3
  <2>2. Expected(N, E, B) = 12 + 3 * N + 6 * E + B
    BY ExpectedIs
  <2> QED
    BY ONLY <2>1, <2>2, N \in Nat, E \in Nat, B \in Nat
<1>5. file \in Seq(CellValue)
      /\ \/ damage = "none" /\ file = W
         \/ damage = "cut" /\ Len(file) < M /\ \A i \in 1..Len(file) : file[i] = W[i]
         \/ damage = "longer" /\ Len(file) = M + 1 /\ \A i \in 1..M : file[i] = W[i]
         \/ /\ damage = "changed" /\ Len(file) = M
            /\ \E i \in 1..M : \A j \in 1..M : j # i => file[j] = W[j]
  <2>0. W \in Seq(CellValue)
    BY <1>1
  <2>1. CASE damage = "none" /\ file = Whole
    BY <1>2, <2>0, <2>1
  <2>2. ASSUME damage = "cut", NEW n \in 0..(Len(Whole) - 1), file = SubSeq(Whole, 1, n)
        PROVE  file \in Seq(CellValue) /\ Len(file) < M
               /\ \A i \in 1..Len(file) : file[i] = W[i]
    <3>1. file = SubSeq(W, 1, n) /\ n \in 0..(M - 1) /\ n \in 0..Len(W)
      BY <1>2, <1>3, <2>2
    <3>2. file \in Seq(CellValue) /\ Len(file) = n /\ \A i \in 1..n : file[i] = W[i]
      BY <2>0, <3>1, FirstCells
    <3> QED
      BY <3>1, <3>2
  <2>3. ASSUME damage = "longer", NEW v \in CellValue, file = Append(Whole, v)
        PROVE  file \in Seq(CellValue) /\ Len(file) = M + 1 /\ \A i \in 1..M : file[i] = W[i]
    <3>1. file = Append(W, v)
      BY <1>2, <2>3
    <3>2. file \in Seq(CellValue) /\ Len(file) = Len(W) + 1 /\ \A i \in 1..Len(W) : file[i] = W[i]
      BY <2>0, <3>1, AppendProperties
    <3> QED
      BY <1>3, <3>2
  <2>4. ASSUME damage = "changed", NEW i \in DOMAIN Whole, NEW v \in CellValue,
               file = [Whole EXCEPT ![i] = v]
        PROVE  file \in Seq(CellValue) /\ Len(file) = M
               /\ \E k \in 1..M : \A j \in 1..M : j # k => file[j] = W[j]
    <3>1. file = [W EXCEPT ![i] = v] /\ i \in DOMAIN W
      BY <1>2, <2>4
    <3>2. /\ file \in Seq(CellValue) /\ Len(file) = Len(W) /\ i \in 1..Len(W)
          /\ \A j \in 1..Len(W) : j # i => file[j] = W[j]
      BY ONLY <2>0, <3>1, i \in DOMAIN W, v \in CellValue, ChangedCell
    <3> QED
      BY <1>3, <3>2
  <2> QED
    BY <2>1, <2>2, <2>3, <2>4 DEF Damaged
<1>6. PICK L \in Nat, n \in Nat, e \in Nat, b \in Nat :
        /\ L = Len(file) /\ n = file[4] /\ e = file[5] /\ b = file[11] /\ 11 <= L
        /\ L = Expected(n, e, b)
  BY <1>5, HeaderPassed
<1>7. L = 12 + 3 * n + 6 * e + b
  BY <1>6 DEF Expected, HeaderCells
<1>8. CASE damage = "none" /\ file = W
  <2>1. n = N /\ e = E /\ b = B /\ L = M
    BY <1>3, <1>6, <1>8
  <2>2. 1 \in 1..M
    BY <1>4
  <2> QED
    BY <1>2, <1>3, <1>5, <1>6, <1>8, <2>1, <2>2 DEF Kept, NodeTotal, EdgeTotal, GeoBytes
<1>9. ASSUME Len(file) < M, \A i \in 1..Len(file) : file[i] = W[i] PROVE FALSE
  <2>1. 4 \in 1..Len(file) /\ 5 \in 1..Len(file) /\ 11 \in 1..Len(file)
    BY <1>6
  <2>2. n = N /\ e = E /\ b = B
    BY <1>3, <1>6, <1>9, <2>1
  <2> QED
    BY <1>4, <1>6, <1>7, <1>9, <2>2
<1>10. ASSUME Len(file) = M + 1, \A i \in 1..M : file[i] = W[i] PROVE FALSE
  <2>1. 4 \in 1..M /\ 5 \in 1..M /\ 11 \in 1..M
    BY <1>4
  <2>2. n = N /\ e = E /\ b = B /\ L = M + 1
    BY <1>3, <1>6, <1>10, <2>1
  <2> QED
    BY ONLY <1>4, <1>7, <2>2, M \in Nat
<1>11. ASSUME damage = "changed", Len(file) = M, NEW i \in 1..M,
              \A j \in 1..M : j # i => file[j] = W[j]
       PROVE  Kept
  <2>1. 4 \in 1..M /\ 5 \in 1..M /\ 11 \in 1..M
    BY <1>4
  <2>2. (i # 4 => n = N) /\ (i # 5 => e = E) /\ (i # 11 => b = B)
    BY <1>3, <1>6, <1>11, <2>1
  <2>3. L = M
    BY <1>6, <1>11
  <2>4. n = N /\ e = E /\ b = B
    BY <1>4, <1>7, <2>2, <2>3
  <2>5. \E k \in 1..M : \A j \in 1..M : j # k => file[j] = W[j]
    BY <1>11
  <2> QED
    BY <1>2, <1>3, <1>5, <1>6, <1>11, <2>3, <2>4, <2>5
       DEF Kept, NodeTotal, EdgeTotal, GeoBytes
<1> QED
  BY <1>5, <1>8, <1>9, <1>10, <1>11

----------------------------------------------------------------------------
(* decode_geometry *)

\* A varint that is read lies within the file.
LEMMA VarintRead ==
    ASSUME file \in Seq(CellValue), NEW p \in Nat, ReadVarint(p).error = None
    PROVE  /\ ReadVarint(p).at \in Nat /\ p < ReadVarint(p).at /\ ReadVarint(p).at <= Len(file)
           /\ ReadVarint(p).value \in Int
<1> DEFINE ends == {k \in 1..MaxGroups : p + k <= Len(file) /\ ~Continues(file[p + k])}
           last == CHOOSE k \in ends : \A j \in ends : k <= j
           bits == [i \in 1..last |-> ((file[p + i] % Group) * Place[i - 1]) % (2 * Half)]
           sum[i \in 0..last] == IF i = 0 THEN 0 ELSE sum[i - 1] + bits[i]
<1>1. PICK L \in Nat : L = Len(file)
  OBVIOUS
<1>2. ReadVarint(p) = IF ends # {} THEN [error |-> None, at |-> p + last, value |-> sum[last]]
                      ELSE [error |-> IF p + MaxGroups <= Len(file) THEN "varint too long"
                                      ELSE "Truncated"]
  BY DEF ReadVarint
<1>3. ends # {}
  <2> SUFFICES ASSUME ends = {} PROVE FALSE
    OBVIOUS
  <2> HIDE DEF ends, last, sum
  <2>1. PICK e \in {"varint too long", "Truncated"} :
          e = IF p + MaxGroups <= Len(file) THEN "varint too long" ELSE "Truncated"
    OBVIOUS
  <2>2. ReadVarint(p) = [error |-> e]
    BY <1>2, <2>1
  <2>3. e = None
    <3>1. PICK r : r = ReadVarint(p) /\ r.error = None
      OBVIOUS
    <3>2. r = [error |-> e]
      BY <2>2, <3>1
    <3>3. r.error = e
      BY ONLY <3>2
    <3> QED
      BY <3>1, <3>3
  <2> QED
    BY <2>1, <2>3, NoneAssumption
<1>4. last \in ends
  <2>1. ends \in SUBSET Nat
    BY WidthAssumption
  <2> HIDE DEF ends
  <2>2. \E k \in ends : \A j \in ends : k <= j
    BY <1>3, <2>1, LeastNatural
  <2> QED
    BY <2>2
<1>5. last \in 1..MaxGroups /\ p + last <= L
  BY <1>1, <1>4
<1> HIDE DEF ends, last
<1>6. \A i \in 1..last : bits[i] \in Int
  <2> SUFFICES ASSUME NEW i \in 1..last
               PROVE  ((file[p + i] % Group) * Place[i - 1]) % (2 * Half) \in Int
    OBVIOUS
  <2>1. p + i \in 1..L /\ i - 1 \in 0..MaxGroups
    BY <1>5, WidthAssumption
  <2>2. file[p + i] \in CellValue
    BY <1>1, <2>1, ElementOfSeq
  <2>3. PICK c \in Nat, b \in Nat : c = file[p + i] /\ b = Place[i - 1]
    <3>1. Place[i - 1] \in Nat
      BY <2>1, PlaceFacts
    <3>2. file[p + i] \in Nat
      BY <2>2, WidthAssumption DEF CellValue
    <3> QED
      BY <3>1, <3>2
  <2>4. PICK d \in Nat : d = c % Group
    BY WidthAssumption
  <2>5. PICK m \in Int : m = d * b
    OBVIOUS
  <2>6. m % (2 * Half) \in Int
    BY WidthAssumption
  <2> QED
    BY <2>3, <2>4, <2>5, <2>6
<1>7. sum[last] \in Int
  <2> HIDE DEF bits
  <2>1. 0 \in Int /\ last \in Int /\ 0 <= last /\ last \in 0..last
    BY <1>5, WidthAssumption
  <2>2. \A i \in (0 + 1)..last : bits[i] \in Int
    BY <1>6
  <2>3. IsSum(sum, bits, 0, last)
    BY <2>1, <2>2, RunningSum
  <2> QED
    BY <2>1, <2>3 DEF IsSum
<1> HIDE DEF sum
<1>8. ReadVarint(p) = [error |-> None, at |-> p + last, value |-> sum[last]]
  BY <1>2, <1>3
<1> QED
  BY <1>1, <1>5, <1>7, <1>8, WidthAssumption

CourseOf(points) == CHOOSE pos : IsCourse(pos, points, EncodeGeometry(points))
Course == CourseOf(given.geometry)

LEMMA CourseFacts ==
    ASSUME MakesGraph
    PROVE  IsCourse(Course, given.geometry, Bytes)
<1>1. given.geometry \in Seq(Point)
  BY DEF MakesGraph, PartsType
<1>2. \E pos : IsCourse(pos, given.geometry, Bytes)
  BY <1>1, EncodeFacts DEF Bytes
<1> QED
  BY <1>2 DEF Course, CourseOf, Bytes

\* Every point has bytes.
LEMMA CourseGrows ==
    ASSUME NEW ps \in Seq(Point), NEW bytes, NEW pos, IsCourse(pos, ps, bytes),
           NEW k \in 0..Len(ps), pos[k] = Len(bytes)
    PROVE  k = Len(ps)
<1> SUFFICES ASSUME k # Len(ps) PROVE FALSE
  OBVIOUS
<1>1. PICK n \in Nat : n = Len(ps)
  OBVIOUS
<1>2. /\ pos \in [0..n -> Nat] /\ pos[n] = Len(bytes)
      /\ \A i \in 1..n : pos[i - 1] < pos[i]
  <2>1. ASSUME NEW i \in 1..n PROVE pos[i - 1] < pos[i]
    <3>1. North(ps, i) \in CellValue /\ East(ps, i) \in CellValue
      BY <1>1, DeltaIsCell
    <3>2. PICK A \in Nat, B \in Nat :
            /\ A = Len(WriteVarint(North(ps, i))) /\ B = Len(WriteVarint(East(ps, i)))
            /\ A > 0 /\ B > 0
      BY <3>1, WriteVarintFacts, WidthAssumption
    <3>3. PICK P \in Nat : P = pos[i - 1]
      <4>1. i - 1 \in 0..n
        BY <1>1
      <4> QED
        BY <1>1, <4>1 DEF IsCourse
    <3>4. pos[i] = P + A + B
      BY <1>1, <3>2, <3>3 DEF IsCourse
    <3> QED
      BY <3>2, <3>3, <3>4
  <2> QED
    BY <1>1, <2>1 DEF IsCourse
<1> DEFINE Later == {i \in (k + 1)..n : pos[k] < pos[i]}
<1>3. k + 1 \in Int /\ k + 1 <= n /\ k \in Int /\ k >= 0 /\ k \in 0..n
  BY <1>1
<1>4. k + 1 \in Later
  <2>1. k + 1 \in 1..n /\ (k + 1) - 1 = k /\ k + 1 \in (k + 1)..n
    BY <1>3
  <2> QED
    BY <1>2, <2>1
<1>5. ASSUME NEW i \in Int, k + 1 <= i, i < n, i \in Later PROVE i + 1 \in Later
  <2>1. i + 1 \in 1..n /\ (i + 1) - 1 = i /\ i + 1 \in (k + 1)..n /\ i \in 0..n /\ i + 1 \in 0..n
    BY <1>3, <1>5
  <2>2. pos[i] < pos[i + 1] /\ pos[k] < pos[i]
    BY <1>2, <1>5, <2>1
  <2>3. pos[k] \in Nat /\ pos[i] \in Nat /\ pos[i + 1] \in Nat
    BY <1>2, <1>3, <2>1
  <2>4. pos[k] < pos[i + 1]
    BY <2>2, <2>3
  <2> QED
    BY <2>1, <2>4
<1>6. n \in Later
  <2> HIDE DEF Later
  <2>1. \A i \in (k + 1)..n : i \in Later
    BY <1>3, <1>4, <1>5, UpFrom
  <2> QED
    BY <1>3, <2>1
<1>7. pos[k] \in Nat /\ pos[n] = pos[k]
  BY <1>2, <1>3
<1> QED
  BY <1>6, <1>7

BytesStart == 12 + 3 * Len(given.nodes) + 6 * Len(given.edges)

\* The geometry bytes are those that were written.
Untouched == \A j \in 1..Len(Bytes) : file[BytesStart + j] = Bytes[j]

LEMMA KeptFacts ==
    ASSUME MakesGraph, Kept
    PROVE  /\ BytesStart \in Nat /\ Len(Bytes) \in Nat /\ Len(file) = BytesStart + Len(Bytes)
           /\ PointTotal \in Nat /\ NodeTotal \in Nat /\ EdgeTotal \in Nat
           /\ HeaderCells + 3 * NodeTotal + 1 + 6 * EdgeTotal = BytesStart
<1>1. PICK N \in Nat, E \in Nat, B \in Nat :
        /\ N = Len(given.nodes) /\ E = Len(given.edges) /\ B = Len(Bytes)
  BY WholeCounts
<1>2. Len(file) = Expected(N, E, B)
  BY <1>1, WholeCounts DEF Kept
<1>3. Len(file) = 12 + 3 * N + 6 * E + B
  BY <1>2, ExpectedIs
<1>4. file[10] \in CellValue
  <2>1. file \in Seq(CellValue)
    BY DEF Kept
  <2>2. 10 \in 1..Len(file)
    BY <1>3
  <2> QED
    BY <2>1, <2>2, ElementOfSeq
<1>5. PointTotal \in Nat
  BY <1>4, WidthAssumption DEF CellValue, PointTotal
<1>6. NodeTotal = N /\ EdgeTotal = E
  BY <1>1 DEF Kept
<1>7. BytesStart = 12 + 3 * N + 6 * E
  BY <1>1 DEF BytesStart
<1>8. HeaderCells + 3 * NodeTotal + 1 + 6 * EdgeTotal = 12 + 3 * N + 6 * E
  BY ONLY <1>6, N \in Nat, E \in Nat DEF HeaderCells
<1>9. Len(file) = BytesStart + B /\ BytesStart \in Nat
  BY ONLY <1>3, <1>7, N \in Nat, E \in Nat, B \in Nat
<1> QED
  BY <1>1, <1>5, <1>6, <1>7, <1>8, <1>9

\* The next point of the pool is read back from its bytes.
LEMMA PointDecoded ==
    ASSUME MakesGraph, Kept, Untouched, NEW k \in 0..(Len(given.geometry) - 1),
           NEW p, p = BytesStart + Course[k],
           NEW prev, prev = Previous(given.geometry, k + 1)
    PROVE  LET north == ReadVarint(p)
               east == ReadVarint(north.at)
           IN  /\ north.error = None /\ east.error = None
               /\ Wrapping(Lat(prev) + ZigzagDecode(north.value)) = Lat(given.geometry[k + 1])
               /\ Wrapping(Lon(prev) + ZigzagDecode(east.value)) = Lon(given.geometry[k + 1])
               /\ east.at = BytesStart + Course[k + 1]
<1> DEFINE ps == given.geometry
           i == k + 1
           u == WriteVarint(North(ps, i))
           v == WriteVarint(East(ps, i))
<1>1. PICK n \in Nat, M \in Nat, S \in Nat :
        /\ n = Len(ps) /\ M = Len(Bytes) /\ S = BytesStart /\ Len(file) = S + M
  BY WholeCounts, KeptFacts
<1>2. ps \in Seq(Point) /\ i \in 1..n /\ k \in 0..n /\ i - 1 = k
  BY <1>1 DEF MakesGraph, PartsType
<1>3. North(ps, i) \in CellValue /\ East(ps, i) \in CellValue
  BY <1>1, <1>2, DeltaIsCell
<1>4. PICK A \in Nat, B \in Nat : A = Len(u) /\ B = Len(v)
  BY <1>3, WriteVarintFacts, WidthAssumption
<1>5. PICK P \in Nat : P = Course[k]
  BY <1>1, <1>2, CourseFacts DEF IsCourse
<1>6. /\ Course[i] = P + A + B /\ P + A + B <= M
      /\ \A j \in 1..A : Bytes[P + j] = u[j]
      /\ \A j \in 1..B : Bytes[P + A + j] = v[j]
  <2> HIDE DEF i, ps
  <2>1. IsCourse(Course, ps, Bytes)
    BY CourseFacts DEF ps
  <2> QED
    BY <1>1, <1>2, <1>4, <1>5, <2>1 DEF IsCourse
<1> HIDE DEF i, ps, u, v
<1>7. p = S + P /\ p \in Nat /\ p + A <= Len(file) /\ (p + A) + B <= Len(file)
  <2>1. p = S + P /\ p \in Nat
    BY <1>1, <1>5
  <2>2. Len(file) = S + M /\ P + A + B <= M
    BY <1>1, <1>6
  <2> QED
    BY ONLY <2>1, <2>2, S \in Nat, M \in Nat, P \in Nat, A \in Nat, B \in Nat
<1>8. \A j \in 1..A : file[p + j] = u[j]
  <2> SUFFICES ASSUME NEW j \in 1..A PROVE file[p + j] = u[j]
    OBVIOUS
  <2>1. P + j \in 1..M /\ S + (P + j) = p + j
    BY <1>6, <1>7
  <2>2. file[S + (P + j)] = Bytes[P + j]
    BY <1>1, <2>1 DEF Untouched
  <2> QED
    BY <1>6, <2>1, <2>2
<1>9. \A j \in 1..B : file[(p + A) + j] = v[j]
  <2> SUFFICES ASSUME NEW j \in 1..B PROVE file[(p + A) + j] = v[j]
    OBVIOUS
  <2>1. P + A + j \in 1..M /\ S + (P + A + j) = (p + A) + j
    <3>1. p = S + P /\ P + A + B <= M
      BY <1>6, <1>7
    <3> QED
      BY ONLY <3>1, j \in 1..B, S \in Nat, M \in Nat, P \in Nat, A \in Nat, B \in Nat
  <2>2. file[S + (P + A + j)] = Bytes[P + A + j]
    BY <1>1, <2>1 DEF Untouched
  <2> QED
    BY <1>6, <2>1, <2>2
<1>10. PICK x \in CellValue, y \in CellValue : x = North(ps, i) /\ y = East(ps, i)
  BY <1>3
<1>11. ReadVarint(p) = [error |-> None, at |-> p + A, value |-> x]
  <2>1. file \in Seq(CellValue)
    BY DEF Kept
  <2>2. Len(WriteVarint(x)) = A /\ WriteVarint(x) = u
    BY <1>4, <1>10 DEF u
  <2>3. /\ p + Len(WriteVarint(x)) <= Len(file)
        /\ \A j \in 1..Len(WriteVarint(x)) : file[p + j] = WriteVarint(x)[j]
    BY <1>7, <1>8, <2>2
  <2>4. ReadVarint(p) = [error |-> None, at |-> p + Len(WriteVarint(x)), value |-> x]
    <3>1. p \in Nat /\ x \in CellValue
      BY <1>7
    <3> QED
      BY ONLY <2>1, <2>3, <3>1, ReadsWritten, WidthAssumption, UnitAssumption, SMTT(20)
  <2> QED
    BY <2>2, <2>4
<1>12. ReadVarint(p + A) = [error |-> None, at |-> (p + A) + B, value |-> y]
  <2>1. file \in Seq(CellValue) /\ p + A \in Nat
    <3>1. file \in Seq(CellValue)
      BY DEF Kept
    <3>2. PICK t \in Nat : t = p
      BY <1>7
    <3>3. t + A \in Nat
      BY ONLY t \in Nat, A \in Nat
    <3> QED
      BY ONLY <3>1, <3>2, <3>3
  <2>2. Len(WriteVarint(y)) = B /\ WriteVarint(y) = v
    BY <1>4, <1>10 DEF v
  <2>3. /\ (p + A) + Len(WriteVarint(y)) <= Len(file)
        /\ \A j \in 1..Len(WriteVarint(y)) : file[(p + A) + j] = WriteVarint(y)[j]
    BY <1>7, <1>9, <2>2
  <2>4. ReadVarint(p + A) = [error |-> None, at |-> (p + A) + Len(WriteVarint(y)), value |-> y]
    BY <2>1, <2>3, ReadsWritten
  <2> QED
    BY <2>2, <2>4
<1>13. PICK q \in Point : q = ps[i]
  BY <1>1, <1>2, PreviousIsPoint
<1>14. prev \in Point /\ prev = Previous(ps, i)
  BY <1>1, <1>2, PreviousIsPoint DEF ps, i
<1>15. /\ Wrapping(Lat(prev) + ZigzagDecode(x)) = Lat(q)
       /\ Wrapping(Lon(prev) + ZigzagDecode(y)) = Lon(q)
  <2>1. /\ Lat(prev) \in Number /\ Lon(prev) \in Number
        /\ Lat(q) \in Number /\ Lon(q) \in Number
    BY <1>14 DEF Point, Lat, Lon
  <2>2. /\ x = ZigzagEncode(Wrapping(Lat(q) - Lat(prev)))
        /\ y = ZigzagEncode(Wrapping(Lon(q) - Lon(prev)))
    BY <1>10, <1>13, <1>14 DEF North, East
  <2> QED
    BY <2>1, <2>2, DeltaInverts
<1>16. (p + A) + B = BytesStart + Course[i]
  BY <1>1, <1>6, <1>7
<1>17. q = given.geometry[k + 1] /\ Course[i] = Course[k + 1]
  BY <1>13 DEF ps, i
<1> QED
  BY <1>11, <1>12, <1>15, <1>16, <1>17

----------------------------------------------------------------------------
(* What is read of a kept file *)

LEMMA SignedIsNumber ==
    ASSUME NEW c \in CellValue
    PROVE  Signed(c) \in Number
  BY WidthAssumption DEF CellValue, Signed, Number

LEMMA AsSequence ==
    ASSUME NEW S, NEW n \in Nat, NEW f \in [1..n -> S]
    PROVE  /\ f \o <<>> \in Seq(S) /\ Len(f \o <<>>) = n
           /\ \A i \in 1..n : (f \o <<>>)[i] = f[i]
<1>1. f \in Seq(S) /\ Len(f) = n
  OBVIOUS
<1>2. f \o <<>> = f
  BY <1>1, ConcatEmptySeq
<1> QED
  BY <1>1, <1>2

LEMMA PointsRead ==
    ASSUME file \in Seq(CellValue), NEW p \in Nat, NEW n \in Nat, p + 2 * n <= Len(file)
    PROVE  /\ ReadPoints(p, n) \in Seq(Point) /\ Len(ReadPoints(p, n)) = n
           /\ \A i \in 1..n :
                ReadPoints(p, n)[i] = <<Signed(file[p + 2 * i - 1]), Signed(file[p + 2 * i])>>
<1> DEFINE f == [i \in 1..n |-> <<Signed(file[p + 2 * i - 1]), Signed(file[p + 2 * i])>>]
<1>1. PICK L \in Nat : L = Len(file)
  OBVIOUS
<1>2. ASSUME NEW i \in 1..n
      PROVE  <<Signed(file[p + 2 * i - 1]), Signed(file[p + 2 * i])>> \in Point
  <2>1. p + 2 * i - 1 \in 1..L /\ p + 2 * i \in 1..L
    BY <1>1
  <2>2. file[p + 2 * i - 1] \in CellValue /\ file[p + 2 * i] \in CellValue
    BY <1>1, <2>1, ElementOfSeq
  <2> QED
    BY <2>2, SignedIsNumber DEF Point
<1>3. f \in [1..n -> Point]
  BY <1>2
<1>4. ReadPoints(p, n) = f \o <<>>
  BY DEF ReadPoints
<1>5. \A i \in 1..n : f[i] = <<Signed(file[p + 2 * i - 1]), Signed(file[p + 2 * i])>>
  OBVIOUS
<1> HIDE DEF f
<1>6. /\ f \o <<>> \in Seq(Point) /\ Len(f \o <<>>) = n
      /\ \A i \in 1..n : (f \o <<>>)[i] = f[i]
  BY <1>3, AsSequence
<1> QED
  BY <1>4, <1>5, <1>6

RoadsStart == HeaderCells + 3 * NodeTotal + 1

\* Edge i of the file.
RoadOf(i) ==
    LET Cell(k) == file[RoadsStart + 6 * (i - 1) + k]
    IN  [target |-> Cell(1), length_dm |-> Cell(2), geo_off |-> Cell(3), geo_len |-> Cell(4),
         reversed |-> 0 \in BitSet(Cell(5)), access |-> BitSet(Cell(6))]
RoadsOf == [i \in 1..EdgeTotal |-> RoadOf(i)] \o <<>>
OffsetsOf == SubSeq(file, HeaderCells + 2 * NodeTotal + 1, HeaderCells + 3 * NodeTotal + 1)

LEMMA CellsOfKept ==
    ASSUME MakesGraph, Kept
    PROVE  \E N \in Nat, E \in Nat, B \in Nat, L \in Nat :
             /\ N = NodeTotal /\ E = EdgeTotal /\ B = Len(Bytes) /\ L = Len(file)
             /\ N = Len(given.nodes) /\ E = Len(given.edges)
             /\ L = 12 + 3 * N + 6 * E + B /\ RoadsStart = 12 + 3 * N
             /\ \A i \in 1..L : file[i] \in CellValue
<1>1. PICK N \in Nat, E \in Nat, B \in Nat, L \in Nat :
        /\ N = NodeTotal /\ E = EdgeTotal /\ B = Len(Bytes) /\ L = Len(file)
        /\ N = Len(given.nodes) /\ E = Len(given.edges) /\ L = BytesStart + B
  <2>1. file \in Seq(CellValue)
    BY DEF Kept
  <2>2. Len(file) \in Nat
    BY <2>1, LenProperties
  <2> QED
    BY <2>2, KeptFacts DEF Kept
<1>2. BytesStart = 12 + 3 * N + 6 * E
  BY <1>1 DEF BytesStart
<1>3. L = 12 + 3 * N + 6 * E + B
  BY ONLY <1>1, <1>2, N \in Nat, E \in Nat, B \in Nat
<1>4. RoadsStart = 12 + 3 * N
  <2>1. RoadsStart = 11 + 3 * N + 1
    BY <1>1 DEF RoadsStart, HeaderCells
  <2> QED
    BY <2>1
<1>5. \A i \in 1..L : file[i] \in CellValue
  <2>1. file \in Seq(CellValue)
    BY DEF Kept
  <2> QED
    BY <1>1, <2>1, ElementOfSeq
<1> QED
  BY <1>1, <1>3, <1>4, <1>5

LEMMA RoadsRead ==
    ASSUME MakesGraph, Kept
    PROVE  /\ RoadsOf \in Seq(Road) /\ Len(RoadsOf) = EdgeTotal
           /\ \A i \in 1..EdgeTotal : RoadsOf[i] = RoadOf(i)
<1>1. PICK N \in Nat, E \in Nat, B \in Nat, L \in Nat :
        /\ E = EdgeTotal /\ L = 12 + 3 * N + 6 * E + B /\ RoadsStart = 12 + 3 * N
        /\ \A i \in 1..L : file[i] \in CellValue
  BY CellsOfKept
<1>2. ASSUME NEW i \in 1..E PROVE RoadOf(i) \in Road
  <2>1. ASSUME NEW k \in 1..6 PROVE file[RoadsStart + 6 * (i - 1) + k] \in CellValue
    <3>1. (12 + 3 * N) + 6 * (i - 1) + k \in 1..L
      BY <1>1
    <3> QED
      BY <1>1, <3>1
  <2>2. \A n : BitSet(n) \in SUBSET Bits
    BY DEF BitSet
  <2> QED
    BY <2>1, <2>2 DEF RoadOf, Road
<1> DEFINE f == [i \in 1..E |-> RoadOf(i)]
<1>3. f \in [1..E -> Road]
  BY <1>2
<1>4. RoadsOf = f \o <<>>
  BY <1>1 DEF RoadsOf
<1>5. \A i \in 1..E : f[i] = RoadOf(i)
  OBVIOUS
<1> HIDE DEF f
<1>6. /\ f \o <<>> \in Seq(Road) /\ Len(f \o <<>>) = E
      /\ \A i \in 1..E : (f \o <<>>)[i] = f[i]
  BY <1>3, AsSequence
<1> QED
  BY <1>1, <1>4, <1>5, <1>6

LEMMA OffsetsRead ==
    ASSUME MakesGraph, Kept
    PROVE  /\ OffsetsOf \in Seq(CellValue) /\ Len(OffsetsOf) = NodeTotal + 1
           /\ \A i \in 1..(NodeTotal + 1) : OffsetsOf[i] = file[HeaderCells + 2 * NodeTotal + i]
<1>1. PICK N \in Nat, E \in Nat, B \in Nat, L \in Nat :
        /\ N = NodeTotal /\ L = 12 + 3 * N + 6 * E + B
        /\ \A i \in 1..L : file[i] \in CellValue
  BY CellsOfKept
<1>2. PICK m \in Int, n \in Int : m = 11 + 2 * N + 1 /\ n = 11 + 3 * N + 1
  OBVIOUS
<1>3. OffsetsOf = SubSeq(file, m, n)
  BY <1>1, <1>2 DEF OffsetsOf, HeaderCells
<1>4. \A i \in m..n : file[i] \in CellValue
  <2>1. \A i \in m..n : i \in 1..L
    BY <1>1, <1>2
  <2> QED
    BY <1>1, <2>1
<1>5. /\ SubSeq(file, m, n) \in Seq(CellValue)
      /\ Len(SubSeq(file, m, n)) = IF m <= n THEN n - m + 1 ELSE 0
      /\ \A i \in 1..(n - m + 1) : SubSeq(file, m, n)[i] = file[m + i - 1]
  BY <1>4, SubSeqProperties
<1>6. m <= n /\ n - m + 1 = N + 1 /\ \A i \in 1..(N + 1) : m + i - 1 = 11 + 2 * N + i
  BY <1>2
<1> QED
  BY <1>1, <1>3, <1>5, <1>6 DEF HeaderCells

----------------------------------------------------------------------------
(* What is read of an undamaged file *)

LEMMA WholeHeader ==
    ASSUME MakesGraph, file = Whole
    PROVE  HeaderError = None
<1>1. Layout(Boxed(given), file)
  BY WholeLayout
<1>2. file[1] = Magic /\ file[2] = Version
  BY <1>1 DEF Layout
<1>3. PICK N \in Nat, E \in Nat, B \in Nat :
        /\ Len(file) = Expected(N, E, B) /\ NodeTotal = N /\ EdgeTotal = E /\ GeoBytes = B
  BY WholeCounts DEF NodeTotal, EdgeTotal, GeoBytes
<1>4. PICK L \in Nat : L = Len(file) /\ L = Expected(N, E, B) /\ L = 12 + 3 * N + 6 * E + B
  BY <1>3, ExpectedIs
<1>5. ~ (L < 1) /\ ~ (L < 3) /\ ~ (L < 11) /\ ~ (L < L) /\ ~ (L > L)
  BY <1>4
<1> QED
  BY <1>2, <1>3, <1>4, <1>5 DEF HeaderError, HeaderCells

\* The sections after the header, by the counts in it.
AreCounts(p, N, E, bytes) ==
    N = Len(p.nodes) /\ E = Len(p.edges) /\ bytes = EncodeGeometry(p.geometry)
HasSections(p, f, N, E, bytes) ==
    /\ \A i \in 1..N : /\ f[11 + 2 * i - 1] = Unsigned(Lat(p.nodes[i]))
                      /\ f[11 + 2 * i] = Unsigned(Lon(p.nodes[i]))
    /\ \A i \in 1..(N + 1) : f[11 + 2 * N + i] = p.offsets[i]
    /\ \A i \in 1..E, k \in 1..6 :
         f[11 + 3 * N + 1 + 6 * (i - 1) + k] = EdgeCells(p.edges[i])[k]
    /\ \A j \in 1..Len(bytes) : f[11 + 3 * N + 1 + 6 * E + j] = bytes[j]

LEMMA LayoutSections ==
    ASSUME NEW p, NEW f, NEW N, NEW E, NEW bytes, Layout(p, f), AreCounts(p, N, E, bytes)
    PROVE  HasSections(p, f, N, E, bytes)
  BY Zenon DEF Layout, HeaderCells, AreCounts, HasSections

LEMMA UndamagedParts ==
    ASSUME MakesGraph, Kept, damage = "none"
    PROVE  /\ BitSet(file[3]) = given.flags
           /\ ReadPoints(5, 2)[1] = Boxed(given).bbox.min
           /\ ReadPoints(5, 2)[2] = Boxed(given).bbox.max
           /\ ReadPoints(HeaderCells, NodeTotal) = given.nodes
           /\ OffsetsOf = given.offsets
           /\ RoadsOf = given.edges
           /\ \A i \in 1..EdgeTotal : BitSet(file[RoadsStart + 6 * (i - 1) + 5]) \subseteq {0}
           /\ Untouched /\ PointTotal = Len(given.geometry)
<1>1. PICK p \in PartsType :
        /\ p = Boxed(given) /\ p.nodes = given.nodes /\ p.edges = given.edges
        /\ p.offsets = given.offsets /\ p.geometry = given.geometry /\ p.flags = given.flags
  BY BoxedIsParts DEF MakesGraph
<1>2. Layout(p, file)
  BY <1>1, WholeLayout DEF Kept
<1>3. PICK N \in Nat, E \in Nat, B \in Nat, L \in Nat :
        /\ N = NodeTotal /\ E = EdgeTotal /\ B = Len(Bytes) /\ L = Len(file)
        /\ N = Len(given.nodes) /\ E = Len(given.edges)
        /\ L = 12 + 3 * N + 6 * E + B /\ RoadsStart = 12 + 3 * N
        /\ \A i \in 1..L : file[i] \in CellValue
  BY CellsOfKept
<1>4. /\ p.flags \in SUBSET {0} /\ Len(p.offsets) = N + 1
      /\ \A i \in 1..E : p.edges[i].access \in SUBSET {0, 1}
  <2>1. Assemble(p) = None
    BY <1>1 DEF MakesGraph
  <2>2. DOMAIN p.edges = 1..E
    BY <1>1, <1>3 DEF PartsType
  <2> QED
    BY <1>1, <1>3, <2>1, <2>2, AssembledParts
<1>5. file \in Seq(CellValue)
  BY DEF Kept
<1>6. /\ p.nodes \in Seq(Point) /\ p.offsets \in Seq(CellValue) /\ p.edges \in Seq(Road)
      /\ p.bbox.min \in Point /\ p.bbox.max \in Point
  BY DEF PartsType
<1>7. \A q \in Point : <<Signed(Unsigned(Lat(q))), Signed(Unsigned(Lon(q)))>> = q
  BY CellInverts DEF Point, Lat, Lon
<1>7a. HasSections(p, file, N, E, Bytes)
  <2>1. AreCounts(p, N, E, Bytes)
    BY <1>1, <1>3 DEF Bytes, AreCounts
  <2> QED
    BY <1>2, <2>1, LayoutSections
<1>8. BitSet(file[3]) = given.flags
  <2>1. file[3] = BitSum(p.flags)
    BY <1>2 DEF Layout
  <2>2. p.flags \in SUBSET {0, 1}
    BY <1>4
  <2> QED
    BY <1>1, <2>1, <2>2, BitsReturn
<1>9. ReadPoints(5, 2)[1] = Boxed(given).bbox.min /\ ReadPoints(5, 2)[2] = Boxed(given).bbox.max
  <2> DEFINE corners == <<p.bbox.min, p.bbox.max>>
  <2>1. \A i \in 1..2 : /\ file[5 + 2 * i - 1] = Unsigned(Lat(corners[i]))
                         /\ file[5 + 2 * i] = Unsigned(Lon(corners[i]))
    BY <1>2 DEF Layout
  <2>2. PICK five \in Nat, two \in Nat : five = 5 /\ two = 2
    OBVIOUS
  <2>3. five + 2 * two <= Len(file)
    <3>1. Len(file) = 12 + 3 * N + 6 * E + B
      BY <1>3
    <3> QED
      BY ONLY <2>2, <3>1, N \in Nat, E \in Nat, B \in Nat
  <2>4. \A i \in 1..two : ReadPoints(five, two)[i]
                           = <<Signed(file[five + 2 * i - 1]), Signed(file[five + 2 * i])>>
    BY <1>5, <2>3, PointsRead
  <2>5. \A i \in 1..2 : corners[i] \in Point
    BY <1>6
  <2>6. corners[1] = p.bbox.min /\ corners[2] = p.bbox.max
    OBVIOUS
  <2> HIDE DEF corners
  <2>7. \A i \in 1..2 : ReadPoints(5, 2)[i] = corners[i]
    <3> SUFFICES ASSUME NEW i \in 1..2 PROVE ReadPoints(5, 2)[i] = corners[i]
      OBVIOUS
    <3>1. ReadPoints(5, 2)[i] = <<Signed(file[5 + 2 * i - 1]), Signed(file[5 + 2 * i])>>
      BY <2>2, <2>4
    <3>2. PICK q \in Point : q = corners[i]
      BY <2>5
    <3>3. file[5 + 2 * i - 1] = Unsigned(Lat(q)) /\ file[5 + 2 * i] = Unsigned(Lon(q))
      BY <2>1, <3>2
    <3> QED
      BY <1>7, <3>1, <3>2, <3>3
  <2> QED
    BY <1>1, <2>6, <2>7
<1>10. ReadPoints(HeaderCells, NodeTotal) = given.nodes
  <2>1. \A i \in 1..N : /\ file[11 + 2 * i - 1] = Unsigned(Lat(p.nodes[i]))
                         /\ file[11 + 2 * i] = Unsigned(Lon(p.nodes[i]))
    BY <1>7a DEF HasSections
  <2>2. PICK eleven \in Nat : eleven = 11
    OBVIOUS
  <2>3. eleven + 2 * N <= Len(file)
    <3>1. Len(file) = 12 + 3 * N + 6 * E + B
      BY <1>3
    <3> QED
      BY ONLY <2>2, <3>1, N \in Nat, E \in Nat, B \in Nat
  <2>4. /\ ReadPoints(eleven, N) \in Seq(Point) /\ Len(ReadPoints(eleven, N)) = N
        /\ \A i \in 1..N : ReadPoints(eleven, N)[i]
                             = <<Signed(file[eleven + 2 * i - 1]), Signed(file[eleven + 2 * i])>>
    BY <1>5, <2>3, PointsRead
  <2>5. PICK r \in Seq(Point) : r = ReadPoints(eleven, N) /\ Len(r) = N
    BY <2>4
  <2>6. \A i \in 1..N : p.nodes[i] \in Point /\ Len(p.nodes) = N
    BY <1>1, <1>3, <1>6, ElementOfSeq
  <2>7. \A i \in 1..N : r[i] = p.nodes[i]
    <3> SUFFICES ASSUME NEW i \in 1..N PROVE r[i] = p.nodes[i]
      OBVIOUS
    <3>1. PICK q \in Point : q = p.nodes[i]
      BY <2>6
    <3>2. r[i] = <<Signed(file[11 + 2 * i - 1]), Signed(file[11 + 2 * i])>>
      BY <2>2, <2>4, <2>5
    <3>3. file[11 + 2 * i - 1] = Unsigned(Lat(q)) /\ file[11 + 2 * i] = Unsigned(Lon(q))
      BY <2>1, <3>1
    <3> QED
      BY <1>7, <3>1, <3>2, <3>3
  <2>8. PICK t \in Seq(Point) : t = p.nodes /\ Len(t) = N
    BY <1>1, <1>3, <1>6
  <2>9. r = t
    BY <2>5, <2>7, <2>8, SeqEqual
  <2> QED
    BY <1>1, <1>3, <2>2, <2>5, <2>8, <2>9 DEF HeaderCells
<1>11. OffsetsOf = given.offsets
  <2>1. \A i \in 1..(N + 1) : file[11 + 2 * N + i] = p.offsets[i]
    BY <1>7a DEF HasSections
  <2>2. PICK r \in Seq(CellValue) :
          r = OffsetsOf /\ Len(r) = N + 1 /\ \A i \in 1..(N + 1) : r[i] = file[11 + 2 * N + i]
    BY <1>3, OffsetsRead DEF HeaderCells
  <2>3. PICK t \in Seq(CellValue) : t = p.offsets /\ Len(t) = N + 1
    BY <1>4, <1>6
  <2>4. Len(r) = Len(t) /\ \A i \in 1..Len(r) : r[i] = t[i]
    BY <2>1, <2>2, <2>3
  <2>5. r = t
    BY <2>4, SeqEqual
  <2> QED
    BY <1>1, <2>2, <2>3, <2>5
<1>12. ASSUME NEW i \in 1..E
       PROVE  /\ RoadOf(i) = p.edges[i] /\ BitSet(file[RoadsStart + 6 * (i - 1) + 5]) \subseteq {0}
  <2>1. PICK e \in Road : e = p.edges[i] /\ e.access \in SUBSET {0, 1}
    <3>1. i \in 1..Len(p.edges)
      BY <1>1, <1>3
    <3> QED
      BY <1>4, <1>6, <3>1, ElementOfSeq
  <2>2. \A k \in 1..6 : file[RoadsStart + 6 * (i - 1) + k] = EdgeCells(e)[k]
    <3>1. \A k \in 1..6 : file[11 + 3 * N + 1 + 6 * (i - 1) + k] = EdgeCells(p.edges[i])[k]
      BY <1>7a DEF HasSections
    <3>2. 11 + 3 * N + 1 = RoadsStart
      BY <1>3
    <3> QED
      BY <2>1, <3>1, <3>2
  <2>3. PICK one : one = BitSum({}) /\ BitSet(one) = {}
    BY BitsReturn
  <2>4. BitSum({}) = 0 /\ BitSum({0}) = 1
    BY BitSums DEF BitValue
  <2>5. BitSet(0) = {} /\ BitSet(1) = {0}
    <3>1. {} \in SUBSET {0, 1} /\ {0} \in SUBSET {0, 1}
      OBVIOUS
    <3> QED
      BY <2>4, <3>1, BitsReturn
  <2>6. BitSet(BitSum(e.access)) = e.access
    BY <2>1, BitsReturn
  <2> DEFINE c(k) == file[RoadsStart + 6 * (i - 1) + k]
  <2>7. /\ c(1) = e.target /\ c(2) = e.length_dm /\ c(3) = e.geo_off /\ c(4) = e.geo_len
        /\ c(5) = (IF e.reversed THEN 1 ELSE 0) /\ c(6) = BitSum(e.access)
    <3>1. c(1) = EdgeCells(e)[1] /\ c(2) = EdgeCells(e)[2] /\ c(3) = EdgeCells(e)[3]
          /\ c(4) = EdgeCells(e)[4] /\ c(5) = EdgeCells(e)[5] /\ c(6) = EdgeCells(e)[6]
      BY <2>2
    <3> HIDE DEF c
    <3> QED
      BY <3>1 DEF EdgeCells
  <2>8. RoadOf(i) = [target |-> c(1), length_dm |-> c(2), geo_off |-> c(3), geo_len |-> c(4),
                     reversed |-> 0 \in BitSet(c(5)), access |-> BitSet(c(6))]
    BY DEF RoadOf
  <2>9. BitSet(c(5)) = IF e.reversed THEN {0} ELSE {}
    BY <2>5, <2>7
  <2>10. (0 \in BitSet(c(5))) = e.reversed /\ BitSet(c(5)) \subseteq {0}
    BY <2>1, <2>9 DEF Road
  <2> HIDE DEF c
  <2>11. e = [target |-> e.target, length_dm |-> e.length_dm, geo_off |-> e.geo_off,
              geo_len |-> e.geo_len, reversed |-> e.reversed, access |-> e.access]
    BY DEF Road
  <2>12. RoadOf(i) = e
    BY <2>6, <2>7, <2>8, <2>10, <2>11
  <2> QED
    BY <2>1, <2>10, <2>12 DEF c
<1>13. RoadsOf = given.edges
  <2>1. PICK r \in Seq(Road) : r = RoadsOf /\ Len(r) = E /\ \A i \in 1..E : r[i] = RoadOf(i)
    BY <1>3, RoadsRead
  <2>2. PICK t \in Seq(Road) : t = p.edges /\ Len(t) = E
    BY <1>1, <1>3, <1>6
  <2>3. r = t
    BY <1>12, <2>1, <2>2, SeqEqual
  <2> QED
    BY <1>1, <2>1, <2>2, <2>3
<1>14. Untouched
  <2> SUFFICES ASSUME NEW j \in 1..B PROVE file[BytesStart + j] = Bytes[j]
    BY <1>3 DEF Untouched
  <2>1. file[11 + 3 * N + 1 + 6 * E + j] = Bytes[j]
    <3>1. \A k \in 1..Len(Bytes) : file[11 + 3 * N + 1 + 6 * E + k] = Bytes[k]
      BY <1>7a DEF HasSections
    <3>2. j \in 1..Len(Bytes)
      BY <1>3
    <3> QED
      BY <3>1, <3>2
  <2>2. BytesStart + j = 11 + 3 * N + 1 + 6 * E + j
    <3>1. BytesStart = 12 + 3 * N + 6 * E
      BY <1>3 DEF BytesStart
    <3> QED
      BY ONLY <3>1, N \in Nat, E \in Nat, j \in 1..B, B \in Nat
  <2> QED
    BY <2>1, <2>2
<1>15. PointTotal = Len(given.geometry)
  BY <1>1, <1>2 DEF Layout, PointTotal
<1> QED
  BY <1>3, <1>8, <1>9, <1>10, <1>11, <1>12, <1>13, <1>14, <1>15

----------------------------------------------------------------------------
(* The inductive invariant: what has been read so far is what the cells of *)
(* a kept file say, and as long as no geometry byte has changed, the points *)
(* read so far are the first points given.                                 *)

Header(p) == [min |-> p[1], max |-> p[2]]
HasHeader == parts.flags = BitSet(file[3]) /\ parts.bbox = Header(ReadPoints(5, 2))
NodesOf == ReadPoints(HeaderCells, NodeTotal)
HasNodes == parts.nodes = NodesOf /\ parts.offsets = OffsetsOf
HasRoads == parts.edges = RoadsOf

SoFar(k) ==
    /\ k <= Len(given.geometry) /\ at = BytesStart + Course[k]
    /\ \A i \in 1..k : parts.geometry[i] = given.geometry[i]
HasPool ==
    /\ parts.geometry \in Seq(Int \X Int) /\ at \in Nat /\ Len(parts.geometry) <= PointTotal
    /\ Untouched => SoFar(Len(parts.geometry))

Complete == at = Len(file) /\ Len(parts.geometry) = PointTotal /\ Assemble(parts) = None

IsParts(p) == p = [flags |-> p.flags, bbox |-> p.bbox, nodes |-> p.nodes, offsets |-> p.offsets,
                   edges |-> p.edges, geometry |-> p.geometry]

FileInv ==
    /\ given \in Given
    /\ pc = "given" => damage = "none"
    /\ pc \notin {"given", "refused"} => MakesGraph /\ Damaged

PartsInv ==
    /\ IsParts(parts)
    /\ pc \in {"given", "refused", "stored", "nodes", "edges"} => parts.geometry = <<>>
    /\ pc = "nodes" => at = HeaderCells
    /\ pc = "edges" => at = RoadsStart
    /\ pc \in {"nodes", "edges", "geometry"} \/ Accepted => Kept /\ HasHeader
    /\ pc \in {"edges", "geometry"} \/ Accepted => HasNodes
    /\ pc = "geometry" \/ Accepted => HasRoads /\ HasPool

VerdictInv ==
    /\ pc = "done" /\ damage = "none" => result = "Ok"
    /\ Accepted => Complete

Inv == FileInv /\ PartsInv /\ VerdictInv

\* Reading does not change the file, nor what it says.
LEMMA SameFile ==
    ASSUME UNCHANGED <<given, file, damage>>
    PROVE  /\ MakesGraph' <=> MakesGraph
           /\ Damaged' <=> Damaged
           /\ Kept' <=> Kept
           /\ Untouched' <=> Untouched
           /\ BytesStart' = BytesStart /\ Course' = Course /\ RoadsStart' = RoadsStart
           /\ PointTotal' = PointTotal /\ NodeTotal' = NodeTotal /\ EdgeTotal' = EdgeTotal
           /\ BitSet(file[3])' = BitSet(file[3]) /\ ReadPoints(5, 2)' = ReadPoints(5, 2)
           /\ NodesOf' = NodesOf /\ OffsetsOf' = OffsetsOf /\ RoadsOf' = RoadsOf
<1>1. given' = given /\ file' = file /\ damage' = damage
  OBVIOUS
<1>2. Whole' = Whole /\ Bytes' = Bytes /\ Course' = Course /\ BytesStart' = BytesStart
  BY <1>1 DEF Whole, Bytes, Course, BytesStart
<1>3. PointTotal' = PointTotal /\ NodeTotal' = NodeTotal /\ EdgeTotal' = EdgeTotal /\ GeoBytes' = GeoBytes
  BY <1>1 DEF PointTotal, NodeTotal, EdgeTotal, GeoBytes
<1>4. MakesGraph' <=> MakesGraph
  BY <1>1 DEF MakesGraph
<1>5. Damaged' <=> Damaged
  BY <1>1, <1>2 DEF Damaged
<1>6. Kept' <=> Kept
  BY <1>1, <1>2, <1>3 DEF Kept
<1>7. Untouched' <=> Untouched
  BY <1>1, <1>2 DEF Untouched
<1>8. RoadsStart' = RoadsStart
  BY <1>3 DEF RoadsStart
<1>9. /\ BitSet(file[3])' = BitSet(file[3]) /\ ReadPoints(5, 2)' = ReadPoints(5, 2)
      /\ NodesOf' = NodesOf /\ OffsetsOf' = OffsetsOf
  BY <1>1, <1>3 DEF NodesOf, OffsetsOf, ReadPoints
<1>10. RoadsOf' = RoadsOf
  BY <1>1, <1>3, <1>8 DEF RoadsOf, RoadOf
<1> QED
  BY <1>2, <1>3, <1>4, <1>5, <1>6, <1>7, <1>8, <1>9, <1>10

LEMMA InitInv == Init => Inv
<1> SUFFICES ASSUME Init PROVE Inv
  OBVIOUS
<1>1. parts = Empty /\ pc = "given" /\ damage = "none" /\ given \in Given
  BY DEF Init
<1>2. IsParts(Empty) /\ Empty.geometry = <<>>
  BY DEF IsParts, Empty
<1> QED
  BY <1>1, <1>2 DEF Inv, FileInv, PartsInv, VerdictInv, Accepted

LEMMA FromPartsInv ==
    ASSUME Inv, FromParts
    PROVE  Inv'
<1>1. /\ pc = "given" /\ given' = given /\ damage' = damage /\ at' = at /\ parts' = parts
      /\ damage = "none" /\ given \in Given /\ IsParts(parts) /\ parts.geometry = <<>>
  BY DEF FromParts, Inv, FileInv, PartsInv
<1>2. CASE pc' = "refused"
  BY <1>1, <1>2 DEF Inv, FileInv, PartsInv, VerdictInv, Accepted
<1>3. CASE pc' # "refused"
  <2>1. /\ pc' = "stored" /\ file' = Serialize(Boxed(given))
        /\ PoolFits(given.geometry) /\ Assemble(Boxed(given)) = None
    BY <1>3 DEF FromParts
  <2>2. given \in PartsType
    BY <1>1, GivenAssumption
  <2>3. MakesGraph'
    BY <1>1, <2>1, <2>2 DEF MakesGraph
  <2>4. Damaged'
    BY <1>1, <2>1 DEF Damaged, Whole
  <2> QED
    BY <1>1, <2>1, <2>3, <2>4 DEF Inv, FileInv, PartsInv, VerdictInv, Accepted
<1> QED
  BY <1>2, <1>3

LEMMA DamageInv ==
    ASSUME Inv, Cut \/ Grow \/ Change
    PROVE  Inv'
<1>1. /\ pc = "stored" /\ damage = "none" /\ given' = given /\ pc' = pc /\ parts' = parts
      /\ at' = at
  BY DEF Cut, Grow, Change, Spoil, Damageable
<1>2. given \in Given /\ MakesGraph /\ file = Whole /\ IsParts(parts) /\ parts.geometry = <<>>
  BY <1>1 DEF Inv, FileInv, PartsInv, Damaged
<1>3. MakesGraph' /\ Whole' = Whole
  BY <1>1, <1>2 DEF MakesGraph, Whole
<1>4. CASE Cut
  <2>1. damage' = "cut" /\ \E n \in 0..(Len(Whole) - 1) : file' = SubSeq(Whole, 1, n)
    BY <1>2, <1>4 DEF Cut, Spoil
  <2>2. Damaged'
    BY <1>3, <2>1 DEF Damaged
  <2> QED
    BY <1>1, <1>2, <1>3, <2>2 DEF Inv, FileInv, PartsInv, VerdictInv, Accepted
<1>5. CASE Grow
  <2>1. damage' = "longer" /\ \E v \in CellValue : file' = Append(Whole, v)
    BY <1>2, <1>5, GivenAssumption DEF Grow, Spoil
  <2>2. Damaged'
    BY <1>3, <2>1 DEF Damaged
  <2> QED
    BY <1>1, <1>2, <1>3, <2>2 DEF Inv, FileInv, PartsInv, VerdictInv, Accepted
<1>6. CASE Change
  <2>1. damage' = "changed" /\ \E i \in DOMAIN Whole, v \in CellValue :
                                    file' = [Whole EXCEPT ![i] = v]
    BY <1>2, <1>6, GivenAssumption DEF Change, Spoil
  <2>2. Damaged'
    BY <1>3, <2>1 DEF Damaged
  <2> QED
    BY <1>1, <1>2, <1>3, <2>2 DEF Inv, FileInv, PartsInv, VerdictInv, Accepted
<1> QED
  BY <1>4, <1>5, <1>6

\* A refusal is no acceptance; what is refused was not as it was written.
LEMMA StopInv ==
    ASSUME Inv, NEW error, Stop(error), pc \notin {"given", "refused"}, error # "Ok",
           damage # "none"
    PROVE  Inv'
<1>1. /\ pc' = "done" /\ result' = error /\ given' = given /\ file' = file /\ damage' = damage
      /\ at' = at /\ parts' = parts
  BY DEF Stop
<1>2. (MakesGraph' <=> MakesGraph) /\ (Damaged' <=> Damaged)
  BY <1>1, SameFile
<1>3. given \in Given /\ MakesGraph /\ Damaged /\ IsParts(parts)
  BY DEF Inv, FileInv, PartsInv
<1> QED
  BY <1>1, <1>2, <1>3 DEF Inv, FileInv, PartsInv, VerdictInv, Accepted

LEMMA RefuseHeaderInv ==
    ASSUME Inv, RefuseHeader
    PROVE  Inv'
<1>1. pc = "stored" /\ HeaderError # None /\ Stop(HeaderError)
  BY DEF RefuseHeader
<1>2. MakesGraph /\ Damaged
  BY <1>1 DEF Inv, FileInv
<1>3. damage # "none"
  <2>1. damage = "none" => file = Whole
    BY <1>2 DEF Damaged
  <2> QED
    BY <1>1, <1>2, <2>1, WholeHeader
<1>4. HeaderError # "Ok"
  BY <1>1 DEF HeaderError
<1> QED
  BY <1>1, <1>3, <1>4, StopInv

LEMMA ReadHeaderInv ==
    ASSUME Inv, ReadHeader
    PROVE  Inv'
<1>1. /\ pc = "stored" /\ HeaderError = None /\ pc' = "nodes" /\ at' = HeaderCells
      /\ given' = given /\ file' = file /\ damage' = damage
      /\ parts' = [parts EXCEPT !.flags = BitSet(file[3]), !.bbox = Header(ReadPoints(5, 2))]
  BY DEF ReadHeader, Header
<1>2. given \in Given /\ MakesGraph /\ Damaged /\ IsParts(parts) /\ parts.geometry = <<>>
  BY <1>1 DEF Inv, FileInv, PartsInv
<1>3. Kept
  BY <1>1, <1>2, HeaderKept
<1>4. MakesGraph' /\ Damaged' /\ Kept' /\ BitSet(file[3])' = BitSet(file[3])
      /\ ReadPoints(5, 2)' = ReadPoints(5, 2)
  BY <1>1, <1>2, <1>3, SameFile
<1>5. PICK f, b : f = BitSet(file[3]) /\ b = Header(ReadPoints(5, 2))
  OBVIOUS
<1>6. /\ IsParts(parts') /\ parts'.geometry = <<>> /\ parts'.flags = f /\ parts'.bbox = b
  BY <1>1, <1>2, <1>5 DEF IsParts
<1>7. HasHeader'
  BY <1>4, <1>5, <1>6 DEF HasHeader
<1> QED
  BY <1>1, <1>2, <1>4, <1>6, <1>7 DEF Inv, FileInv, PartsInv, VerdictInv, Accepted

LEMMA ReadNodesInv ==
    ASSUME Inv, ReadNodes
    PROVE  Inv'
<1>1. /\ pc = "nodes" /\ pc' = "edges"
      /\ given' = given /\ file' = file /\ damage' = damage
  BY DEF ReadNodes
<1>2. /\ given \in Given /\ MakesGraph /\ Damaged /\ IsParts(parts) /\ parts.geometry = <<>>
      /\ at = HeaderCells /\ Kept /\ HasHeader
  BY <1>1 DEF Inv, FileInv, PartsInv
<1>3. at' = RoadsStart /\ parts' = [parts EXCEPT !.nodes = NodesOf, !.offsets = OffsetsOf]
  BY <1>2 DEF ReadNodes, RoadsStart, NodesOf, OffsetsOf
<1>4. /\ MakesGraph' /\ Damaged' /\ Kept' /\ RoadsStart' = RoadsStart
      /\ BitSet(file[3])' = BitSet(file[3]) /\ ReadPoints(5, 2)' = ReadPoints(5, 2)
      /\ NodesOf' = NodesOf /\ OffsetsOf' = OffsetsOf
  BY <1>1, <1>2, SameFile
<1>5. PICK n, o : n = NodesOf /\ o = OffsetsOf
  OBVIOUS
<1>6. /\ IsParts(parts') /\ parts'.geometry = <<>> /\ parts'.flags = parts.flags
      /\ parts'.bbox = parts.bbox /\ parts'.nodes = n /\ parts'.offsets = o
  BY <1>2, <1>3, <1>5 DEF IsParts
<1>7. HasHeader' /\ HasNodes'
  BY <1>2, <1>4, <1>5, <1>6 DEF HasHeader, HasNodes
<1> QED
  BY <1>1, <1>2, <1>3, <1>4, <1>6, <1>7 DEF Inv, FileInv, PartsInv, VerdictInv, Accepted

LEMMA RefuseEdgesInv ==
    ASSUME Inv, RefuseEdges
    PROVE  Inv'
<1>1. pc = "edges" /\ ~KnownFlags /\ Stop("unknown edge flag bits")
  BY DEF RefuseEdges
<1>2. MakesGraph /\ Kept /\ at = RoadsStart
  BY <1>1 DEF Inv, FileInv, PartsInv
<1>3. damage # "none"
  <2> SUFFICES ASSUME damage = "none" PROVE KnownFlags
    BY <1>1
  <2>1. \A i \in 1..EdgeTotal : BitSet(file[RoadsStart + 6 * (i - 1) + 5]) \subseteq {0}
    BY <1>2, UndamagedParts
  <2> QED
    BY <1>2, <2>1 DEF KnownFlags, FlagsOf
<1> QED
  BY <1>1, <1>3, StopInv

LEMMA ReadEdgesInv ==
    ASSUME Inv, ReadEdges
    PROVE  Inv'
<1>1. /\ pc = "edges" /\ pc' = "geometry" /\ at' = at + 6 * EdgeTotal
      /\ given' = given /\ file' = file /\ damage' = damage
  BY DEF ReadEdges
<1>2. /\ given \in Given /\ MakesGraph /\ Damaged /\ IsParts(parts) /\ parts.geometry = <<>>
      /\ at = RoadsStart /\ Kept /\ HasHeader /\ HasNodes
  BY <1>1 DEF Inv, FileInv, PartsInv
<1>3. parts' = [parts EXCEPT !.edges = RoadsOf]
  BY <1>2 DEF ReadEdges, RoadsOf, RoadOf, FlagsOf
<1>4. at' = BytesStart /\ BytesStart \in Nat /\ PointTotal \in Nat
  BY <1>1, <1>2, KeptFacts DEF RoadsStart
<1>5. /\ MakesGraph' /\ Damaged' /\ Kept' /\ (Untouched' <=> Untouched) /\ Course' = Course
      /\ BytesStart' = BytesStart /\ PointTotal' = PointTotal
      /\ BitSet(file[3])' = BitSet(file[3]) /\ ReadPoints(5, 2)' = ReadPoints(5, 2)
      /\ NodesOf' = NodesOf /\ OffsetsOf' = OffsetsOf /\ RoadsOf' = RoadsOf
  BY <1>1, <1>2, SameFile
<1>6. PICK r : r = RoadsOf
  OBVIOUS
<1>7. /\ IsParts(parts') /\ parts'.geometry = <<>> /\ parts'.flags = parts.flags
      /\ parts'.bbox = parts.bbox /\ parts'.nodes = parts.nodes
      /\ parts'.offsets = parts.offsets /\ parts'.edges = r
  BY <1>2, <1>3, <1>6 DEF IsParts
<1>8. HasHeader' /\ HasNodes' /\ HasRoads'
  BY <1>2, <1>5, <1>6, <1>7 DEF HasHeader, HasNodes, HasRoads
<1>9. HasPool'
  <2>1. Course[0] = 0 /\ Len(given.geometry) \in Nat
    BY <1>2, CourseFacts, WholeCounts DEF IsCourse
  <2>2. Len(parts'.geometry) = 0 /\ parts'.geometry \in Seq(Int \X Int)
    BY <1>7
  <2>3. SoFar(0)'
    BY <1>1, <1>4, <1>5, <2>1 DEF SoFar
  <2> QED
    BY <1>4, <1>5, <2>2, <2>3 DEF HasPool
<1> QED
  BY <1>1, <1>2, <1>5, <1>7, <1>8, <1>9 DEF Inv, FileInv, PartsInv, VerdictInv, Accepted

\* While no byte has changed and points are missing, the next one can be read.
LEMMA NextPoint ==
    ASSUME MakesGraph, Kept, HasPool, Untouched, NEW k, k = Len(parts.geometry),
           k < Len(given.geometry)
    PROVE  LET north == ReadVarint(at)
               east == ReadVarint(north.at)
               prev == Previous(parts.geometry, k + 1)
           IN  /\ north.error = None /\ east.error = None
               /\ <<Wrapping(Lat(prev) + ZigzagDecode(north.value)),
                    Wrapping(Lon(prev) + ZigzagDecode(east.value))>> = given.geometry[k + 1]
               /\ east.at = BytesStart + Course[k + 1]
<1>1. k \in Nat
  BY DEF HasPool
<1>2. PICK n \in Nat : n = Len(given.geometry)
  BY WholeCounts
<1>3. k \in 0..(Len(given.geometry) - 1)
  BY <1>1, <1>2
<1>4. at = BytesStart + Course[k] /\ \A i \in 1..k : parts.geometry[i] = given.geometry[i]
  BY DEF HasPool, SoFar
<1> PICK prev : prev = Previous(given.geometry, k + 1)
  OBVIOUS
<1>5. prev = Previous(given.geometry, k + 1) /\ prev = Previous(parts.geometry, k + 1)
  <2>1. CASE k = 0
    BY <2>1 DEF Previous
  <2>2. CASE k # 0
    <3>1. k + 1 # 1 /\ (k + 1) - 1 = k /\ k \in 1..k
      BY <1>1, <2>2
    <3> QED
      BY <1>4, <3>1 DEF Previous
  <2> QED
    BY <2>1, <2>2
<1>6. LET north == ReadVarint(at)
          east == ReadVarint(north.at)
      IN  /\ north.error = None /\ east.error = None
          /\ Wrapping(Lat(prev) + ZigzagDecode(north.value)) = Lat(given.geometry[k + 1])
          /\ Wrapping(Lon(prev) + ZigzagDecode(east.value)) = Lon(given.geometry[k + 1])
          /\ east.at = BytesStart + Course[k + 1]
  BY <1>3, <1>4, <1>5, PointDecoded
<1>7. given.geometry[k + 1] = <<Lat(given.geometry[k + 1]), Lon(given.geometry[k + 1])>>
  <2>1. given.geometry \in Seq(Point)
    BY DEF MakesGraph, PartsType
  <2>2. k + 1 \in 1..Len(given.geometry)
    BY <1>1, <1>2
  <2>3. PICK q \in Point : q = given.geometry[k + 1]
    BY <2>1, <2>2, ElementOfSeq
  <2> QED
    BY <2>3 DEF Point, Lat, Lon
<1> QED
  BY <1>5, <1>6, <1>7

LEMMA ReadPointInv ==
    ASSUME Inv, ReadPoint
    PROVE  Inv'
<1> PICK k : k = Len(parts.geometry)
  OBVIOUS
<1> DEFINE north == ReadVarint(at)
           east == ReadVarint(north.at)
           g == parts.geometry
           prev == Previous(g, k + 1)
           point == <<Wrapping(Lat(prev) + ZigzagDecode(north.value)),
                      Wrapping(Lon(prev) + ZigzagDecode(east.value))>>
<1>1. /\ pc = "geometry" /\ pc' = pc /\ at' = east.at /\ k < PointTotal
      /\ given' = given /\ file' = file /\ damage' = damage
      /\ north.error = None /\ east.error = None
      /\ parts' = [parts EXCEPT !.geometry = Append(@, point)]
  BY DEF ReadPoint, MorePoints
<1>2. /\ given \in Given /\ MakesGraph /\ Damaged /\ IsParts(parts)
      /\ Kept /\ HasHeader /\ HasNodes /\ HasRoads /\ HasPool
  BY <1>1 DEF Inv, FileInv, PartsInv
<1>3. /\ MakesGraph' /\ Damaged' /\ Kept' /\ (Untouched' <=> Untouched) /\ Course' = Course
      /\ BytesStart' = BytesStart /\ PointTotal' = PointTotal
      /\ BitSet(file[3])' = BitSet(file[3]) /\ ReadPoints(5, 2)' = ReadPoints(5, 2)
      /\ NodesOf' = NodesOf /\ OffsetsOf' = OffsetsOf /\ RoadsOf' = RoadsOf
  BY <1>1, <1>2, SameFile
<1>4. g \in Seq(Int \X Int) /\ at \in Nat /\ k \in Nat /\ PointTotal \in Nat
  BY <1>2, KeptFacts DEF HasPool
<1>5. /\ north.at \in Nat /\ at < north.at /\ north.at <= Len(file) /\ north.value \in Int
      /\ east.at \in Nat /\ east.value \in Int
  <2>1. file \in Seq(CellValue)
    BY <1>2 DEF Kept
  <2>2. north.at \in Nat /\ at < north.at /\ north.at <= Len(file) /\ north.value \in Int
    BY <1>1, <1>4, <2>1, VarintRead
  <2> HIDE DEF north
  <2> QED
    BY <1>1, <2>1, <2>2, VarintRead
<1> HIDE DEF north, east
<1>6. prev \in Int \X Int
  <2>1. CASE k = 0
    BY <2>1 DEF Previous
  <2>2. CASE k # 0
    <3>1. k + 1 # 1 /\ (k + 1) - 1 = k /\ k \in 1..k
      BY <1>4, <2>2
    <3>2. g[k] \in Int \X Int
      BY <1>4, <3>1, ElementOfSeq
    <3> QED
      BY <3>1, <3>2 DEF Previous
  <2> QED
    BY <2>1, <2>2
<1>7. point \in Int \X Int
  <2> HIDE DEF prev
  <2>1. Lat(prev) \in Int /\ Lon(prev) \in Int
    BY <1>6 DEF Lat, Lon
  <2>2. \A u \in Int : ZigzagDecode(u) \in Int
    BY DEF ZigzagDecode
  <2>3. \A x \in Int, y \in Int : Wrapping(x + y) \in Int
    BY WidthAssumption DEF Wrapping
  <2> QED
    BY <1>5, <2>1, <2>2, <2>3
<1> HIDE DEF point, prev
<1>8. PICK h : h = Append(g, point)
  OBVIOUS
<1>9. h \in Seq(Int \X Int) /\ Len(h) = k + 1 /\ h[k + 1] = point /\ \A i \in 1..k : h[i] = g[i]
  BY <1>4, <1>7, <1>8, AppendProperties
<1>10. /\ IsParts(parts') /\ parts'.geometry = h /\ parts'.flags = parts.flags
       /\ parts'.bbox = parts.bbox /\ parts'.nodes = parts.nodes
       /\ parts'.offsets = parts.offsets /\ parts'.edges = parts.edges
  BY <1>1, <1>2, <1>8 DEF IsParts
<1>11. HasHeader' /\ HasNodes' /\ HasRoads'
  BY <1>2, <1>3, <1>10 DEF HasHeader, HasNodes, HasRoads
<1>12. ASSUME Untouched
       PROVE  k + 1 <= Len(given.geometry) /\ east.at = BytesStart + Course[k + 1]
              /\ \A i \in 1..(k + 1) : h[i] = given.geometry[i]
  <2>1. SoFar(k)
    BY <1>2, <1>12 DEF HasPool
  <2>2. PICK n \in Nat, B \in Nat, S \in Nat :
          n = Len(given.geometry) /\ B = Len(Bytes) /\ S = BytesStart /\ Len(file) = S + B
    BY <1>2, WholeCounts, KeptFacts
  <2>3. k < n
    <3> SUFFICES ASSUME ~ (k < n) PROVE FALSE
      OBVIOUS
    <3>1. k = n
      BY <1>4, <2>1, <2>2 DEF SoFar
    <3>2. Course[n] = B
      BY <1>2, <2>2, CourseFacts DEF IsCourse
    <3>3. at = S + B
      BY <2>1, <2>2, <3>1, <3>2 DEF SoFar
    <3> QED
      BY <1>4, <1>5, <2>2, <3>3
  <2>4. point = given.geometry[k + 1] /\ east.at = BytesStart + Course[k + 1]
    BY <1>2, <1>12, <2>2, <2>3, NextPoint DEF north, east, point, prev
  <2>5. \A i \in 1..(k + 1) : h[i] = given.geometry[i]
    <3>1. \A i \in 1..(k + 1) : i \in 1..k \/ i = k + 1
      BY <1>4
    <3> QED
      BY <1>9, <2>1, <2>4, <3>1 DEF SoFar
  <2>6. k + 1 <= Len(given.geometry)
    BY <1>4, <2>2, <2>3
  <2> QED
    BY <2>4, <2>5, <2>6
<1>13. HasPool'
  <2>1. k + 1 <= PointTotal
    BY <1>1, <1>4
  <2>2. Len(parts'.geometry) = k + 1
    BY <1>9, <1>10
  <2>3. ASSUME Untouched PROVE SoFar(k + 1)'
    BY <1>1, <1>3, <1>10, <1>12, <2>3 DEF SoFar
  <2>4. Untouched' => SoFar(Len(parts.geometry))'
    BY <1>3, <2>2, <2>3 DEF SoFar
  <2> QED
    BY <1>1, <1>3, <1>5, <1>9, <1>10, <2>1, <2>2, <2>4 DEF HasPool
<1> QED
  BY <1>1, <1>2, <1>3, <1>10, <1>11, <1>13 DEF Inv, FileInv, PartsInv, VerdictInv, Accepted

LEMMA VarintError ==
    ASSUME NEW p, ReadVarint(p).error # None
    PROVE  ReadVarint(p).error \in {"varint too long", "Truncated"}
<1> DEFINE ends == {k \in 1..MaxGroups : p + k <= Len(file) /\ ~Continues(file[p + k])}
           last == CHOOSE k \in ends : \A j \in ends : k <= j
           bits == [i \in 1..last |-> ((file[p + i] % Group) * Place[i - 1]) % (2 * Half)]
           sum[i \in 0..last] == IF i = 0 THEN 0 ELSE sum[i - 1] + bits[i]
<1>1. ReadVarint(p) = IF ends # {} THEN [error |-> None, at |-> p + last, value |-> sum[last]]
                      ELSE [error |-> IF p + MaxGroups <= Len(file) THEN "varint too long"
                                      ELSE "Truncated"]
  BY DEF ReadVarint
<1> PICK a, v : a = p + last /\ v = sum[last]
  OBVIOUS
<1> HIDE DEF ends, last, sum
<1>2. PICK e \in {"varint too long", "Truncated"} :
        e = IF p + MaxGroups <= Len(file) THEN "varint too long" ELSE "Truncated"
  OBVIOUS
<1>3. ReadVarint(p) = [error |-> None, at |-> a, value |-> v] \/ ReadVarint(p) = [error |-> e]
  BY <1>1, <1>2
<1>4. PICK r : r = ReadVarint(p) /\ r.error # None
  OBVIOUS
<1>5. r = [error |-> e]
  <2>1. ASSUME r = [error |-> None, at |-> a, value |-> v] PROVE FALSE
    <3>1. [error |-> None, at |-> a, value |-> v].error = None
      OBVIOUS
    <3>2. r.error = None
      BY ONLY <2>1, <3>1
    <3> QED
      BY <1>4, <3>2
  <2> QED
    BY <1>3, <1>4, <2>1
<1>6. r.error = e
  BY <1>5
<1> QED
  BY <1>2, <1>4, <1>6

LEMMA RefusePointInv ==
    ASSUME Inv, RefusePoint
    PROVE  Inv'
<1> DEFINE north == ReadVarint(at)
           east == ReadVarint(north.at)
           error == IF north.error # None THEN north.error ELSE east.error
<1>1. pc = "geometry" /\ Len(parts.geometry) < PointTotal /\ error # None /\ Stop(error)
  BY DEF RefusePoint, MorePoints
<1>2. MakesGraph /\ Kept /\ HasPool
  BY <1>1 DEF Inv, FileInv, PartsInv
<1>3. error # "Ok"
  <2> HIDE DEF north, east
  <2>1. north.error # None => north.error \in {"varint too long", "Truncated"}
    BY VarintError DEF north
  <2>2. east.error # None => east.error \in {"varint too long", "Truncated"}
    BY VarintError DEF east
  <2> QED
    BY <1>1, <2>1, <2>2
<1>4. damage # "none"
  <2> SUFFICES ASSUME damage = "none" PROVE FALSE
    OBVIOUS
  <2>1. Untouched /\ PointTotal = Len(given.geometry)
    BY <1>2, UndamagedParts
  <2>2. Len(parts.geometry) < Len(given.geometry)
    BY <1>1, <2>1
  <2>3. north.error = None /\ east.error = None
    BY <1>2, <2>1, <2>2, NextPoint
  <2> QED
    BY <1>1, <2>3
<1> HIDE DEF error
<1> QED
  BY <1>1, <1>3, <1>4, StopInv

\* When all the points of an unchanged pool have been read, so have its bytes;
\* and when its bytes have been, so have its points.
LEMMA PoolRead ==
    ASSUME MakesGraph, Kept, HasPool, Untouched
    PROVE  at = Len(file) <=> Len(parts.geometry) = Len(given.geometry)
<1>1. PICK k : k = Len(parts.geometry)
  OBVIOUS
<1>2. given.geometry \in Seq(Point) /\ IsCourse(Course, given.geometry, Bytes)
  BY CourseFacts DEF MakesGraph, PartsType
<1>3. PICK n \in Nat, B \in Nat, S \in Nat :
        n = Len(given.geometry) /\ B = Len(Bytes) /\ S = BytesStart /\ Len(file) = S + B
  BY WholeCounts, KeptFacts
<1>4. k \in 0..n /\ at = S + Course[k]
  <2>1. k \in Nat
    BY <1>1 DEF HasPool
  <2>2. k <= Len(given.geometry) /\ at = BytesStart + Course[k]
    BY <1>1 DEF HasPool, SoFar
  <2> QED
    BY <1>3, <2>1, <2>2
<1>5. Course[n] = B
  <2>1. Course[Len(given.geometry)] = Len(Bytes)
    BY <1>2 DEF IsCourse
  <2> QED
    BY <1>3, <2>1
<1>6. PICK c \in Nat : c = Course[k]
  BY <1>2, <1>3, <1>4 DEF IsCourse
<1>7. at = Len(file) <=> c = B
  <2>1. S + c = S + B <=> c = B
    OBVIOUS
  <2> QED
    BY ONLY <1>3, <1>4, <1>6, <2>1
<1>8. c = B => k = n
  <2> SUFFICES ASSUME c = B PROVE k = n
    OBVIOUS
  <2>1. k \in 0..Len(given.geometry) /\ Course[k] = Len(Bytes)
    BY <1>3, <1>4, <1>6
  <2>2. k = Len(given.geometry)
    BY <1>2, <2>1, CourseGrows
  <2> QED
    BY <1>3, <2>2
<1> QED
  BY <1>1, <1>3, <1>5, <1>6, <1>7, <1>8

LEMMA RefuseLeftoverInv ==
    ASSUME Inv, RefuseLeftover
    PROVE  Inv'
<1>1. /\ pc = "geometry" /\ ~ (Len(parts.geometry) < PointTotal) /\ at # Len(file)
      /\ Stop("geometry section has trailing bytes")
  BY DEF RefuseLeftover, AllPoints, MorePoints, Leftover
<1>2. MakesGraph /\ Kept /\ HasPool
  BY <1>1 DEF Inv, FileInv, PartsInv
<1>3. damage # "none"
  <2> SUFFICES ASSUME damage = "none" PROVE FALSE
    OBVIOUS
  <2>1. Untouched /\ PointTotal = Len(given.geometry)
    BY <1>2, UndamagedParts
  <2>2. PICK k \in Nat : k = Len(parts.geometry) /\ k <= PointTotal
    BY <1>2 DEF HasPool
  <2>3. PICK n \in Nat : n = PointTotal
    BY <1>2, KeptFacts
  <2>4. ~ (k < n) /\ k <= n
    BY <1>1, <2>2, <2>3
  <2>5. k = n
    BY ONLY <2>4, k \in Nat, n \in Nat
  <2> QED
    BY <1>1, <1>2, <2>1, <2>2, <2>3, <2>5, PoolRead
<1> QED
  BY <1>1, <1>3, StopInv

\* All that was read of an undamaged file is all that was given.
LEMMA WholeParts ==
    ASSUME MakesGraph, Kept, IsParts(parts), HasHeader, HasNodes, HasRoads, HasPool,
           damage = "none", Len(parts.geometry) = PointTotal
    PROVE  parts = Boxed(given)
<1>1. PICK p \in PartsType :
        /\ p = Boxed(given) /\ p.nodes = given.nodes /\ p.edges = given.edges
        /\ p.offsets = given.offsets /\ p.geometry = given.geometry /\ p.flags = given.flags
  BY BoxedIsParts DEF MakesGraph
<1>2. /\ parts.flags = p.flags /\ parts.nodes = p.nodes /\ parts.offsets = p.offsets
      /\ parts.edges = p.edges
  BY <1>1, UndamagedParts DEF HasHeader, HasNodes, HasRoads, NodesOf
<1>3. parts.bbox = p.bbox
  <2>1. PICK b \in [min : Point, max : Point] : b = p.bbox
    BY DEF PartsType
  <2>2. b = [min |-> b.min, max |-> b.max]
    OBVIOUS
  <2>3. parts.bbox = [min |-> b.min, max |-> b.max]
    BY <1>1, <2>1, UndamagedParts DEF HasHeader, Header
  <2> QED
    BY <2>1, <2>2, <2>3
<1>4. parts.geometry = p.geometry
  <2>1. PICK g \in Seq(Int \X Int) : g = parts.geometry
    BY DEF HasPool
  <2>2. PICK t \in Seq(Point) : t = given.geometry
    BY DEF MakesGraph, PartsType
  <2>3. Untouched /\ Len(g) = Len(t)
    BY <2>1, <2>2, UndamagedParts
  <2>4. \A i \in 1..Len(g) : g[i] = t[i]
    BY <2>1, <2>2, <2>3 DEF HasPool, SoFar
  <2>5. t \in Seq(Int \X Int)
    <3>1. Point \subseteq Int \X Int
      BY WidthAssumption DEF Point, Number
    <3> QED
      BY <3>1
  <2>6. g = t
    BY <2>3, <2>4, <2>5, SeqEqual
  <2> QED
    BY <1>1, <2>1, <2>2, <2>6
<1>5. p = [flags |-> p.flags, bbox |-> p.bbox, nodes |-> p.nodes, offsets |-> p.offsets,
           edges |-> p.edges, geometry |-> p.geometry]
  BY DEF PartsType
<1>6. parts = [flags |-> p.flags, bbox |-> p.bbox, nodes |-> p.nodes, offsets |-> p.offsets,
               edges |-> p.edges, geometry |-> p.geometry]
  BY <1>2, <1>3, <1>4 DEF IsParts
<1> QED
  BY <1>1, <1>5, <1>6

LEMMA FinishInv ==
    ASSUME Inv, Finish
    PROVE  Inv'
<1>1. /\ pc = "geometry" /\ ~ (Len(parts.geometry) < PointTotal) /\ at = Len(file)
      /\ pc' = "done" /\ result' = Answer(Assemble(parts))
      /\ given' = given /\ file' = file /\ damage' = damage /\ at' = at /\ parts' = parts
  BY DEF Finish, AllPoints, MorePoints, Leftover, Stop
<1>2. /\ given \in Given /\ MakesGraph /\ Damaged /\ IsParts(parts)
      /\ Kept /\ HasHeader /\ HasNodes /\ HasRoads /\ HasPool
  BY <1>1 DEF Inv, FileInv, PartsInv
<1>3. /\ MakesGraph' /\ Damaged' /\ Kept' /\ (Untouched' <=> Untouched) /\ Course' = Course
      /\ BytesStart' = BytesStart /\ PointTotal' = PointTotal
      /\ BitSet(file[3])' = BitSet(file[3]) /\ ReadPoints(5, 2)' = ReadPoints(5, 2)
      /\ NodesOf' = NodesOf /\ OffsetsOf' = OffsetsOf /\ RoadsOf' = RoadsOf
  BY <1>1, <1>2, SameFile
<1>4. HasHeader' /\ HasNodes' /\ HasRoads'
  BY <1>1, <1>2, <1>3 DEF HasHeader, HasNodes, HasRoads
<1>5. HasPool'
  BY <1>1, <1>2, <1>3 DEF HasPool, SoFar
<1>6. Len(parts.geometry) = PointTotal
  <2>1. PICK k \in Nat : k = Len(parts.geometry) /\ k <= PointTotal
    BY <1>2 DEF HasPool
  <2>2. PICK n \in Nat : n = PointTotal
    BY <1>2, KeptFacts
  <2> QED
    BY <1>1, <2>1, <2>2
<1> PICK a : a = Assemble(parts)
  OBVIOUS
<1>7. a = Assemble(parts) /\ Assemble(parts)' = Assemble(parts)
  <2>1. parts' = parts
    BY <1>1
  <2>2. Assemble(parts)' = Assemble(parts)
    BY ONLY <2>1 DEF Assemble, Checks
  <2> QED
    BY <2>2
<1>8. damage = "none" => result' = "Ok"
  BY <1>1, <1>2, <1>6, WholeParts DEF MakesGraph, Answer
<1>9. result' = "Ok" => a = None
  <2>1. result' = "Ok" => a = None \/ a = "Ok"
    BY <1>1, <1>7 DEF Answer
  <2> QED
    BY <1>7, <2>1, AllChecked
<1>10. Accepted' => Complete'
  BY <1>1, <1>3, <1>6, <1>7, <1>9 DEF Accepted, Complete
<1> QED
  BY <1>1, <1>2, <1>3, <1>4, <1>5, <1>8, <1>10 DEF Inv, FileInv, PartsInv, VerdictInv

LEMMA StandsInv ==
    ASSUME Inv, UNCHANGED vars
    PROVE  Inv'
<1>1. /\ given' = given /\ file' = file /\ damage' = damage /\ at' = at /\ parts' = parts
      /\ pc' = pc /\ result' = result
  BY DEF vars
<1>2. /\ MakesGraph' <=> MakesGraph
      /\ Damaged' <=> Damaged
      /\ Kept' <=> Kept
      /\ Untouched' <=> Untouched
      /\ Course' = Course
      /\ BytesStart' = BytesStart /\ PointTotal' = PointTotal /\ RoadsStart' = RoadsStart
      /\ BitSet(file[3])' = BitSet(file[3]) /\ ReadPoints(5, 2)' = ReadPoints(5, 2)
      /\ NodesOf' = NodesOf /\ OffsetsOf' = OffsetsOf /\ RoadsOf' = RoadsOf
  BY <1>1, SameFile
<1>3. FileInv'
  BY <1>1, <1>2 DEF Inv, FileInv
<1>4. PartsInv'
  <2>1. (HasHeader' <=> HasHeader) /\ (HasNodes' <=> HasNodes) /\ (HasRoads' <=> HasRoads)
    BY <1>1, <1>2 DEF HasHeader, HasNodes, HasRoads
  <2>2. HasPool' <=> HasPool
    BY <1>1, <1>2 DEF HasPool, SoFar
  <2> QED
    BY <1>1, <1>2, <2>1, <2>2 DEF Inv, PartsInv, Accepted
<1>5. VerdictInv'
  <2>1. Assemble(parts)' = Assemble(parts)
    BY <1>1 DEF Assemble, Checks
  <2> QED
    BY <1>1, <1>2, <2>1 DEF Inv, VerdictInv, Accepted, Complete
<1> QED
  BY <1>3, <1>4, <1>5 DEF Inv

LEMMA NextInv == Inv /\ [Next]_vars => Inv'
<1> SUFFICES ASSUME Inv, [Next]_vars PROVE Inv'
  OBVIOUS
<1>1. CASE FromParts
  BY <1>1, FromPartsInv
<1>2. CASE Cut \/ Grow \/ Change
  BY <1>2, DamageInv
<1>3. CASE RefuseHeader
  BY <1>3, RefuseHeaderInv
<1>4. CASE ReadHeader
  BY <1>4, ReadHeaderInv
<1>5. CASE ReadNodes
  BY <1>5, ReadNodesInv
<1>6. CASE RefuseEdges
  BY <1>6, RefuseEdgesInv
<1>7. CASE ReadEdges
  BY <1>7, ReadEdgesInv
<1>8. CASE ReadPoint
  BY <1>8, ReadPointInv
<1>9. CASE RefusePoint
  BY <1>9, RefusePointInv
<1>10. CASE RefuseLeftover
  BY <1>10, RefuseLeftoverInv
<1>11. CASE Finish
  BY <1>11, FinishInv
<1>12. CASE Settled \/ UNCHANGED vars
  BY <1>12, StandsInv DEF Settled
<1> QED
  BY <1>1, <1>2, <1>3, <1>4, <1>5, <1>6, <1>7, <1>8, <1>9, <1>10, <1>11, <1>12 DEF Next

LEMMA AlwaysInv == Spec => []Inv
  BY InitInv, NextInv, PTL DEF Spec

----------------------------------------------------------------------------
(* What an accepted file was *)

\* No graph is lost in its file: what was written and not touched is taken
\* again, and every part of it is the one given.
THEOREM RoundTrips == Spec => []RoundTrip
<1>1. Inv => RoundTrip
  <2> SUFFICES ASSUME Inv, pc = "done", damage = "none"
               PROVE  result = "Ok" /\ parts = Boxed(given)
    BY DEF RoundTrip
  <2>1. Accepted
    BY DEF Inv, VerdictInv, Accepted
  <2>2. /\ MakesGraph /\ Kept /\ IsParts(parts)
        /\ HasHeader /\ HasNodes /\ HasRoads /\ HasPool /\ Complete
    BY <2>1 DEF Inv, FileInv, PartsInv, VerdictInv
  <2> QED
    BY <2>1, <2>2, WholeParts DEF Complete, Accepted
<1> QED
  BY <1>1, AlwaysInv, PTL

\* What an accepted file was, and what has been read of it.
LEMMA OnceAccepted ==
    ASSUME Inv, Accepted
    PROVE  /\ MakesGraph /\ Kept /\ HasHeader /\ HasNodes /\ HasRoads /\ HasPool /\ Complete
           /\ file \in Seq(CellValue)
  BY DEF Inv, FileInv, PartsInv, VerdictInv, Accepted, Kept

\* Of one changed cell and the geometry bytes, one is as it was.
LEMMA CountOrBytes ==
    ASSUME MakesGraph, Kept
    PROVE  Untouched \/ file[10] = Whole[10]
<1>1. PICK i \in 1..Len(Whole) : \A j \in 1..Len(Whole) : j # i => file[j] = Whole[j]
  BY DEF Kept
<1>2. PICK N \in Nat, E \in Nat, B \in Nat, L \in Nat :
        /\ N = NodeTotal /\ E = EdgeTotal /\ B = Len(Bytes) /\ L = Len(file)
        /\ N = Len(given.nodes) /\ E = Len(given.edges) /\ L = 12 + 3 * N + 6 * E + B
  BY CellsOfKept
<1>3. Len(Whole) = L
  BY <1>2 DEF Kept
<1>4. PICK S \in Nat : S = BytesStart /\ S = 12 + 3 * N + 6 * E
  <2>1. BytesStart = 12 + 3 * N + 6 * E
    BY <1>2 DEF BytesStart
  <2> QED
    BY <2>1
<1>5. CASE i = 10
  <2> SUFFICES ASSUME NEW j \in 1..B PROVE file[S + j] = Bytes[j]
    BY <1>2, <1>4 DEF Untouched
  <2>1. S + j \in 1..L /\ S + j # 10
    <3>1. L = 12 + 3 * N + 6 * E + B /\ S = 12 + 3 * N + 6 * E
      BY <1>2, <1>4
    <3> QED
      BY ONLY <3>1, N \in Nat, E \in Nat, B \in Nat, j \in 1..B
  <2>2. file[S + j] = Whole[S + j]
    BY <1>1, <1>3, <1>5, <2>1
  <2>3. Whole[S + j] = Bytes[j]
    <3>1. PICK p \in PartsType : /\ p = Boxed(given) /\ p.nodes = given.nodes
                                 /\ p.edges = given.edges /\ p.geometry = given.geometry
      BY BoxedIsParts DEF MakesGraph
    <3>2. Layout(p, Whole)
      BY <3>1, WholeLayout
    <3>3. AreCounts(p, N, E, Bytes)
      BY <1>2, <3>1 DEF Bytes, AreCounts
    <3>4. HasSections(p, Whole, N, E, Bytes)
      BY <3>2, <3>3, LayoutSections
    <3>5. Whole[11 + 3 * N + 1 + 6 * E + j] = Bytes[j]
      <4>1. \A k \in 1..Len(Bytes) : Whole[11 + 3 * N + 1 + 6 * E + k] = Bytes[k]
        BY <3>4 DEF HasSections
      <4> QED
        BY <1>2, <4>1
    <3>6. 11 + 3 * N + 1 + 6 * E + j = S + j
      BY <1>4
    <3> QED
      BY <3>5, <3>6
  <2> QED
    BY <2>2, <2>3
<1>6. CASE i # 10
  <2>1. 10 \in 1..L
    <3>1. L = 12 + 3 * N + 6 * E + B
      BY <1>2
    <3> QED
      BY ONLY <3>1, N \in Nat, E \in Nat, B \in Nat
  <2> QED
    BY <1>1, <1>3, <1>6, <2>1
<1> QED
  BY <1>5, <1>6

\* A file that lost its end or got one cell more is never taken for a graph,
\* and one changed cell never makes it a graph of another size.
THEOREM OnlyWholeAccepted == Spec => []OnlyWholeFiles
<1>1. Inv => OnlyWholeFiles
  <2> SUFFICES ASSUME Inv, Accepted
               PROVE  /\ damage \notin {"cut", "longer"}
                      /\ Len(parts.nodes) = Len(given.nodes)
                      /\ Len(parts.edges) = Len(given.edges)
                      /\ Len(parts.geometry) = Len(given.geometry)
    BY DEF OnlyWholeFiles
  <2>1. /\ MakesGraph /\ Kept /\ HasNodes /\ HasRoads /\ HasPool /\ Complete
        /\ file \in Seq(CellValue)
    BY OnceAccepted
  <2>2. PICK N \in Nat, E \in Nat, B \in Nat, L \in Nat :
          /\ N = NodeTotal /\ E = EdgeTotal /\ B = Len(Bytes) /\ L = Len(file)
          /\ N = Len(given.nodes) /\ E = Len(given.edges) /\ L = 12 + 3 * N + 6 * E + B
    BY <2>1, CellsOfKept
  <2>3. damage \notin {"cut", "longer"}
    BY <2>1 DEF Kept
  <2>4. Len(parts.nodes) = N
    <3>1. PICK eleven \in Nat : eleven = 11
      OBVIOUS
    <3>2. eleven + 2 * N <= L
      <4>1. L = 12 + 3 * N + 6 * E + B
        BY <2>2
      <4> QED
        BY ONLY <3>1, <4>1, N \in Nat, E \in Nat, B \in Nat
    <3>3. Len(ReadPoints(eleven, N)) = N
      BY <2>1, <2>2, <3>2, PointsRead
    <3> QED
      BY <2>1, <2>2, <3>1, <3>3 DEF HasNodes, NodesOf, HeaderCells
  <2>5. Len(parts.edges) = E
    BY <2>1, <2>2, RoadsRead DEF HasRoads
  <2>6. Len(parts.geometry) = Len(given.geometry)
    <3>1. CASE Untouched
      BY <2>1, <3>1, PoolRead DEF Complete
    <3>2. CASE file[10] = Whole[10]
      <4>1. PointTotal = Len(given.geometry)
        BY <2>1, <3>2, WholeCounts DEF PointTotal
      <4> QED
        BY <2>1, <4>1 DEF Complete
    <3> QED
      BY <2>1, <3>1, <3>2, CountOrBytes
  <2> QED
    BY <2>2, <2>3, <2>4, <2>5, <2>6
<1> QED
  BY <1>1, AlwaysInv, PTL

LEMMA PartsRead ==
    ASSUME Inv, Accepted
    PROVE  /\ parts.bbox.min \in Point /\ parts.bbox.max \in Point
           /\ parts.nodes \in Seq(Point) /\ parts.offsets \in Seq(CellValue)
           /\ parts.edges \in Seq(Road) /\ parts.geometry \in Seq(Int \X Int)
<1>1. /\ MakesGraph /\ Kept /\ HasHeader /\ HasNodes /\ HasRoads /\ HasPool
      /\ file \in Seq(CellValue)
  BY OnceAccepted
<1>2. PICK N \in Nat, E \in Nat, B \in Nat, L \in Nat :
        /\ N = NodeTotal /\ L = Len(file) /\ L = 12 + 3 * N + 6 * E + B
  BY <1>1, CellsOfKept
<1>3. L = 12 + 3 * N + 6 * E + B
  BY <1>2
<1>4. parts.bbox.min \in Point /\ parts.bbox.max \in Point
  <2>1. PICK five \in Nat, two \in Nat : five = 5 /\ two = 2
    OBVIOUS
  <2>2. five + 2 * two <= L
    BY ONLY <1>3, <2>1, N \in Nat, E \in Nat, B \in Nat
  <2>3. PICK r \in Seq(Point) : r = ReadPoints(5, 2) /\ Len(r) = 2
    <3>1. ReadPoints(five, two) \in Seq(Point) /\ Len(ReadPoints(five, two)) = two
      BY <1>1, <1>2, <2>2, PointsRead
    <3> QED
      BY <2>1, <3>1
  <2>4. r[1] \in Point /\ r[2] \in Point
    BY <2>3, ElementOfSeq
  <2>5. parts.bbox = [min |-> r[1], max |-> r[2]]
    BY <1>1, <2>3 DEF HasHeader, Header
  <2> QED
    BY <2>4, <2>5
<1>5. parts.nodes \in Seq(Point)
  <2>1. PICK eleven \in Nat : eleven = 11
    OBVIOUS
  <2>2. eleven + 2 * N <= L
    BY ONLY <1>3, <2>1, N \in Nat, E \in Nat, B \in Nat
  <2>3. ReadPoints(eleven, N) \in Seq(Point)
    BY <1>1, <1>2, <2>2, PointsRead
  <2> QED
    BY <1>1, <1>2, <2>1, <2>3 DEF HasNodes, NodesOf, HeaderCells
<1> QED
  BY <1>1, <1>4, <1>5, OffsetsRead, RoadsRead DEF HasNodes, HasRoads, HasPool

\* Whatever happened to the file, a node of an accepted graph is looked up
\* where it is shown.
THEOREM AcceptedFrameIsOne == Spec => []FrameIsOneToOne
<1>1. Inv => FrameIsOneToOne
  <2> SUFFICES ASSUME Inv, Accepted, NEW i \in DOMAIN parts.nodes
               PROVE  LET lon == WrapLon(Lon(parts.nodes[i]))
                      IN  /\ -HalfCircle <= lon /\ lon <= HalfCircle
                          /\ NormalizeQueryLon(Loads(parts), lon) = Lon(parts.nodes[i])
    BY DEF FrameIsOneToOne, Loads
  <2>1. Assemble(parts) = None
    BY OnceAccepted DEF Complete
  <2>2. parts.bbox.min \in Point /\ parts.bbox.max \in Point /\ parts.nodes[i] \in Point
    <3>1. PICK s \in Seq(Point) : s = parts.nodes
      BY PartsRead
    <3>2. s[i] \in Point
      BY <3>1, ElementOfSeq
    <3> QED
      BY <3>1, <3>2, PartsRead
  <2>3. IsPoint(parts.bbox.min) /\ IsPoint(parts.bbox.max) /\ IsPoint(parts.nodes[i])
    BY <2>2 DEF IsPoint
  <2>4. PICK p : p = parts
    OBVIOUS
  <2> QED
    BY <2>1, <2>3, <2>4, AcceptedFrame
<1> QED
  BY <1>1, AlwaysInv, PTL

\* The accessors of an accepted graph stay within their sections.
LEMMA AssembledIsSafe ==
    ASSUME NEW p, Assemble(p) = None, p.nodes \in Seq(Point), p.offsets \in Seq(CellValue),
           p.edges \in Seq(Road), p.geometry \in Seq(Int \X Int)
    PROVE  LET g == Loads(p)
           IN  /\ \A n \in NodeIndices(g) : EdgesFrom(g, n) \subseteq EdgeIndices(g)
               /\ \A e \in EdgeIndices(g) :
                    /\ {EdgeSource(g, e), At(g.edges, e).target} \subseteq NodeIndices(g)
                    /\ e \in EdgesFrom(g, EdgeSource(g, e))
                    /\ LET road == At(g.edges, e)
                       IN  \A k \in 1..road.geo_len : road.geo_off + k \in DOMAIN g.geometry
<1> PICK g : g = Loads(p)
  OBVIOUS
<1>1. /\ g = Loads(p) /\ g.nodes = p.nodes /\ g.offsets = p.offsets
      /\ g.edges = p.edges /\ g.geometry = p.geometry
  <2>1. g = [shifted |-> 0 \in p.flags, bbox |-> p.bbox, nodes |-> p.nodes,
             offsets |-> p.offsets, edges |-> p.edges, geometry |-> p.geometry]
    BY DEF Loads
  <2> QED
    BY <2>1
<1>2. PICK N \in Nat, M \in Nat, P \in Nat :
        N = Len(p.nodes) /\ M = Len(p.edges) /\ P = Len(p.geometry)
  BY LenProperties
<1>3. \A i \in 1..12 : Checks(p)[i]
  BY AllChecked
<1>4. /\ Len(p.offsets) = N + 1 /\ p.offsets[1] = 0
      /\ \A i \in 1..(Len(p.offsets) - 1) : p.offsets[i] <= p.offsets[i + 1]
      /\ p.offsets[Len(p.offsets)] = M /\ \A i \in DOMAIN p.edges : EdgeOk(p, p.edges[i])
  <2>1. Checks(p)[3] /\ Checks(p)[4] /\ Checks(p)[5] /\ Checks(p)[6] /\ Checks(p)[12]
    BY <1>3
  <2> QED
    BY <1>2, <2>1 DEF Checks
<1>5. PICK o \in [1..(N + 1) -> Nat] : o = p.offsets
  <2>1. PICK s \in Seq(CellValue) : s = p.offsets
    OBVIOUS
  <2>2. s \in [1..Len(s) -> CellValue] /\ CellValue \subseteq Nat
    <3>1. CellValue \subseteq Nat
      BY WidthAssumption DEF CellValue
    <3> QED
      BY <3>1
  <2> QED
    BY <1>4, <2>1, <2>2
<1>6. AreRows(o, N, M)
  <2>1. (N + 1) - 1 = N
    OBVIOUS
  <2> QED
    BY <1>4, <1>5, <2>1 DEF AreRows
<1>7. DOMAIN g.offsets = 1..(N + 1) /\ DOMAIN g.geometry = 1..P
  BY <1>1, <1>2, <1>5
<1>8. ASSUME NEW n \in NodeIndices(g) PROVE EdgesFrom(g, n) \subseteq EdgeIndices(g)
  <2>1. n \in 0..(N - 1)
    BY <1>1, <1>2 DEF NodeIndices
  <2>2. /\ n + 1 \in 1..N /\ o[n + 1] \in Nat /\ o[(n + 1) + 1] \in Nat
        /\ o[(n + 1) + 1] <= M
    <3>1. n + 1 \in 1..N /\ n + 1 \in 1..(N + 1) /\ (n + 1) + 1 \in 1..(N + 1)
      BY <2>1
    <3>2. \A i \in 1..N : o[i + 1] <= M
      BY <1>6, RowsCover
    <3> QED
      BY <3>1, <3>2
  <2>3. EdgesFrom(g, n) = o[n + 1]..(o[(n + 1) + 1] - 1)
    <3>1. n + 2 = (n + 1) + 1
      BY <2>1
    <3> QED
      BY <1>1, <1>5, <3>1 DEF EdgesFrom, At
  <2>4. EdgeIndices(g) = 0..(M - 1)
    BY <1>1, <1>2 DEF EdgeIndices
  <2>5. PICK a \in Nat, b \in Nat : a = o[n + 1] /\ b = o[(n + 1) + 1] /\ b <= M
    BY <2>2
  <2>6. a..(b - 1) \subseteq 0..(M - 1)
    BY ONLY <2>5, a \in Nat, b \in Nat, M \in Nat
  <2> QED
    BY ONLY <2>3, <2>4, <2>5, <2>6
<1>9. ASSUME NEW e \in EdgeIndices(g)
      PROVE  /\ {EdgeSource(g, e), At(g.edges, e).target} \subseteq NodeIndices(g)
             /\ e \in EdgesFrom(g, EdgeSource(g, e))
             /\ LET road == At(g.edges, e)
                IN  \A k \in 1..road.geo_len : road.geo_off + k \in DOMAIN g.geometry
  <2>1. e \in 0..(M - 1)
    BY <1>1, <1>2 DEF EdgeIndices
  <2>2. PICK m \in 1..N : /\ {i \in 1..(N + 1) : o[i] <= e} = 1..m
                          /\ o[m] <= e /\ e < o[m + 1]
    <3>1. PICK m \in 1..N : InRow(o, N, e, m)
      BY <1>6, <2>1, RowsCover
    <3> QED
      BY <3>1 DEF InRow
  <2>3. EdgeSource(g, e) = m - 1
    <3>1. {i \in DOMAIN g.offsets : g.offsets[i] <= e} = 1..m
      BY <1>1, <1>5, <1>7, <2>2
    <3>2. Cardinality(1..m) = m
      BY FS_Interval
    <3> QED
      BY <3>1, <3>2 DEF EdgeSource
  <2>4. m - 1 \in NodeIndices(g) /\ NodeIndices(g) = 0..(N - 1)
    BY <1>1, <1>2 DEF NodeIndices
  <2>5. e \in EdgesFrom(g, m - 1)
    <3>1. EdgesFrom(g, m - 1) = o[(m - 1) + 1]..(o[(m - 1) + 2] - 1)
      BY <1>1, <1>5 DEF EdgesFrom, At
    <3>2. (m - 1) + 1 = m /\ (m - 1) + 2 = m + 1 /\ o[m] \in Nat /\ o[m + 1] \in Nat
      OBVIOUS
    <3> QED
      BY <2>1, <2>2, <3>1, <3>2
  <2>6. PICK road \in Road : road = At(g.edges, e) /\ EdgeOk(p, road)
    <3>1. PICK s \in Seq(Road) : s = p.edges /\ Len(s) = M
      BY <1>2
    <3>2. e + 1 \in 1..M
      BY <2>1
    <3>3. s[e + 1] \in Road /\ e + 1 \in DOMAIN s
      BY <3>1, <3>2, ElementOfSeq
    <3> QED
      BY <1>1, <1>4, <3>1, <3>3 DEF At
  <2>7. road.target \in Nat /\ road.geo_off \in Nat /\ road.geo_len \in Nat
    BY WidthAssumption DEF Road, CellValue
  <2>8. road.target < N /\ road.geo_off + road.geo_len <= P
    BY <1>2, <2>6 DEF EdgeOk, ShapeInPool
  <2>9. \A k \in 1..road.geo_len : road.geo_off + k \in 1..P
    <3>1. PICK a \in Nat, b \in Nat : a = road.geo_off /\ b = road.geo_len
      BY <2>7
    <3>2. a + b <= P /\ P \in Nat
      BY <1>2, <2>8, <3>1
    <3>3. \A k \in 1..b : a + k \in 1..P
      BY ONLY <3>2, a \in Nat, b \in Nat
    <3> QED
      BY ONLY <3>1, <3>3
  <2> QED
    BY <1>7, <2>3, <2>4, <2>5, <2>6, <2>7, <2>8, <2>9
<1> QED
  BY <1>1, <1>8, <1>9

\* No file, however damaged, makes a graph whose accessors index outside a
\* section or whose edges have no source.
THEOREM AcceptedGraphIsSafe == Spec => []AcceptedIsSafe
<1>1. Inv => AcceptedIsSafe
  <2> SUFFICES ASSUME Inv, Accepted PROVE AcceptedIsSafe
    BY DEF AcceptedIsSafe
  <2>1. Assemble(parts) = None
    BY OnceAccepted DEF Complete
  <2>2. PICK p : p = parts
    OBVIOUS
  <2> QED
    BY <2>1, <2>2, PartsRead, AssembledIsSafe DEF AcceptedIsSafe
<1> QED
  BY <1>1, AlwaysInv, PTL

=============================================================================
