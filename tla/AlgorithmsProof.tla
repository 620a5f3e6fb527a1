--------------------------- MODULE AlgorithmsProof ---------------------------
(***************************************************************************)
(* Proofs about parts of the compiler that keep no state, for all inputs   *)
(* and not only the few of the run: the units of measure, and the check of *)
(* pattern matches.                                                        *)
(***************************************************************************)
EXTENDS Units, Match, SequenceTheorems, FiniteSetTheorems, TLAPS

-----------------------------------------------------------------------------
(* Induction on a bounded number, from the least counterexample. *)
LEMMA Induction ==
  ASSUME NEW N \in Nat, NEW S, 0 \in S,
         \A m \in 0..(N - 1) : m \in S => m + 1 \in S
  PROVE  \A m \in 0..N : m \in S
<1> SUFFICES ASSUME NEW k \in 0..N, k \notin S
             PROVE  FALSE
  OBVIOUS
<1> DEFINE Less == OpToRel(<, Nat)
           T == {m \in 0..N : m \notin S}
<1>1. IsWellFoundedOn(Less, Nat)
  BY NatLessThanWellFounded
<1>2. T \subseteq Nat /\ T # {}
  OBVIOUS
<1>3. PICK x \in T : \A y \in T : <<y, x>> \notin Less
  <2> HIDE DEF T, Less
  <2> QED BY <1>1, <1>2, WFMin
<1>4. x # 0 /\ x - 1 \in 0..(N - 1) /\ x - 1 \in Nat /\ x \in Nat
  OBVIOUS
<1>5. x - 1 \in T
  BY <1>4
<1>6. <<x - 1, x>> \in Less
  BY <1>4 DEF OpToRel
<1> QED BY <1>3, <1>5, <1>6

(* What is defined by recursion up to a bound exists. *)
Follows(h, n, S, v, G) == h \in [0..n -> S] /\ h[0] = v /\ \A i \in 1..n : h[i] = G[i][h[i - 1]]

LEMMA Recursion ==
  ASSUME NEW n \in Nat, NEW S, NEW v \in S, NEW G \in [1..n -> [S -> S]]
  PROVE  \E h : Follows(h, n, S, v, G)
<1> DEFINE Upto(h, m) == h[0] = v /\ \A i \in 1..m : h[i] = G[i][h[i - 1]]
           T == {m \in 0..n : \E h \in [0..m -> S] : Upto(h, m)}
<1>1. 0 \in T
  <2> DEFINE h == [i \in 0..0 |-> v]
  <2>1. h \in [0..0 -> S] /\ h[0] = v
    OBVIOUS
  <2>2. 1..0 = {}
    OBVIOUS
  <2>3. Upto(h, 0)
    BY <2>1, <2>2
  <2> HIDE DEF Upto, h
  <2> QED BY <2>1, <2>3
<1>2. ASSUME NEW m \in 0..(n - 1), m \in T
      PROVE  m + 1 \in T
  <2>1. PICK h \in [0..m -> S] : Upto(h, m)
    BY <1>2
  <2> DEFINE w == G[m + 1][h[m]]
             g == [i \in 0..(m + 1) |-> IF i = m + 1 THEN w ELSE h[i]]
  <2>2. w \in S /\ m + 1 \in 0..n
    OBVIOUS
  <2>3. g \in [0..(m + 1) -> S]
    <3> HIDE DEF w
    <3> QED BY <2>2
  <2>4. g[0] = v
    BY <2>1
  <2>5. ASSUME NEW i \in 1..(m + 1)
        PROVE  g[i] = G[i][g[i - 1]]
    <3>1. CASE i = m + 1
      <4>1. i - 1 = m /\ m \in 0..(m + 1) /\ m # m + 1 /\ i \in 0..(m + 1)
        BY <3>1
      <4>2. g[i] = w /\ g[m] = h[m]
        BY <3>1, <4>1
      <4> QED BY <3>1, <4>1, <4>2
    <3>2. CASE i # m + 1
      <4>1. i \in 1..m /\ i - 1 # m + 1 /\ i - 1 \in 0..(m + 1) /\ i \in 0..(m + 1)
        BY <3>2
      <4>2. g[i] = h[i] /\ g[i - 1] = h[i - 1]
        BY <4>1
      <4> QED BY <2>1, <4>1, <4>2
    <3> QED BY <3>1, <3>2
  <2>6. Upto(g, m + 1)
    <3> HIDE DEF g, w
    <3> QED BY <2>4, <2>5
  <2> HIDE DEF g, Upto
  <2> QED BY <2>2, <2>3, <2>6
<1>3. n \in 0..n
  OBVIOUS
<1>4. n \in T
  <2> HIDE DEF T
  <2> QED BY <1>1, <1>2, <1>3, Induction
<1> QED BY <1>4 DEF Follows

-----------------------------------------------------------------------------
(* The sums of the first numbers of a sequence; Total is the last of them. *)
Sums(u, s) == /\ u \in [0..Len(s) -> Int] /\ u[0] = 0
              /\ \A i \in 1..Len(s) : u[i] = u[i - 1] + s[i]

LEMMA SumsUnique ==
  ASSUME NEW s \in Seq(Int), NEW u, NEW w, Sums(u, s), Sums(w, s)
  PROVE  u = w
<1> DEFINE T == {i \in 0..Len(s) : u[i] = w[i]}
<1>1. 0 \in T
  BY DEF Sums
<1>2. ASSUME NEW m \in 0..(Len(s) - 1), m \in T
      PROVE  m + 1 \in T
  <2>1. m + 1 \in 1..Len(s) /\ m + 1 - 1 = m /\ m + 1 \in 0..Len(s)
    OBVIOUS
  <2>2. u[m + 1] = u[m] + s[m + 1] /\ w[m + 1] = w[m] + s[m + 1]
    BY <2>1 DEF Sums
  <2> QED BY <1>2, <2>1, <2>2
<1>3. \A i \in 0..Len(s) : i \in T
  <2>1. Len(s) \in Nat
    OBVIOUS
  <2> HIDE DEF T
  <2> QED BY <1>1, <1>2, <2>1, Induction
<1> QED BY <1>3 DEF Sums

LEMMA TotalSums ==
  ASSUME NEW s \in Seq(Int)
  PROVE  \E u : Sums(u, s) /\ Total(s) = u[Len(s)]
<1> DEFINE n == Len(s)
           Rule(u) == u = [i \in 0..n |-> IF i = 0 THEN 0 ELSE u[i - 1] + s[i]]
           upto == CHOOSE u : Rule(u)
<1>0. n \in Nat
  OBVIOUS
<1>1. \E u : Rule(u)
  <2> DEFINE G == [i \in 1..n |-> [x \in Int |-> x + s[i]]]
  <2>1. \A i \in 1..n : s[i] \in Int
    OBVIOUS
  <2>2. G \in [1..n -> [Int -> Int]]
    BY <2>1
  <2>3. PICK h \in [0..n -> Int] : h[0] = 0 /\ \A i \in 1..n : h[i] = G[i][h[i - 1]]
    <3> DEFINE v == 0
    <3>1. v \in Int
      OBVIOUS
    <3>2. \E h : Follows(h, n, Int, v, G)
      <4> HIDE DEF G, n, v
      <4> QED BY <1>0, <2>2, <3>1, Recursion
    <3> HIDE DEF G
    <3> QED BY <3>2 DEF Follows
  <2>4. ASSUME NEW i \in 1..n
        PROVE  h[i] = h[i - 1] + s[i]
    <3>1. h[i - 1] \in Int
      OBVIOUS
    <3> QED BY <2>3, <3>1
  <2>5. Rule(h)
    <3>1. \A i \in 0..n : h[i] = IF i = 0 THEN 0 ELSE h[i - 1] + s[i]
      BY <2>3, <2>4
    <3> QED BY <3>1
  <2> QED BY <2>5
<1>2. Rule(upto)
  <2> HIDE DEF Rule
  <2> QED BY <1>1
<1>3. Total(s) = upto[n]
  BY DEF Total
<1>4. Sums(upto, s)
  <2> DEFINE T == {i \in 0..n : upto[i] \in Int}
  <2> HIDE DEF upto
  <2>0. \A i \in 0..n : upto[i] = IF i = 0 THEN 0 ELSE upto[i - 1] + s[i]
    BY <1>2
  <2>1. upto[0] = 0 /\ \A i \in 1..n : upto[i] = upto[i - 1] + s[i]
    <3>1. 0 \in 0..n /\ \A i \in 1..n : i \in 0..n /\ i # 0
      BY <1>0
    <3> QED BY <2>0, <3>1
  <2>2. \A i \in 0..n : i \in T
    <3>1. 0 \in T
      BY <2>1
    <3>2. ASSUME NEW m \in 0..(n - 1), m \in T
          PROVE  m + 1 \in T
      <4>1. m + 1 \in 1..n /\ m + 1 - 1 = m /\ s[m + 1] \in Int
        OBVIOUS
      <4> QED BY <3>2, <4>1, <2>1
    <3>3. n \in Nat
      OBVIOUS
    <3> HIDE DEF T
    <3> QED BY <3>1, <3>2, <3>3, Induction
  <2>3. upto \in [0..n -> Int]
    BY <1>2, <2>2
  <2> QED BY <2>1, <2>3 DEF Sums
<1> QED BY <1>3, <1>4

(* Any sums of the numbers end in their total. *)
LEMMA TotalIs ==
  ASSUME NEW s \in Seq(Int), NEW u, Sums(u, s)
  PROVE  Total(s) = u[Len(s)]
BY TotalSums, SumsUnique

LEMMA TotalType ==
  ASSUME NEW s \in Seq(Int)
  PROVE  Total(s) \in Int
BY TotalSums DEF Sums

LEMMA TotalConcat ==
  ASSUME NEW s \in Seq(Int), NEW t \in Seq(Int)
  PROVE  Total(s \o t) = Total(s) + Total(t)
<1>1. PICK u \in [0..Len(s) -> Int] :
             u[0] = 0 /\ (\A i \in 1..Len(s) : u[i] = u[i - 1] + s[i]) /\ Total(s) = u[Len(s)]
  BY TotalSums DEF Sums
<1>2. PICK w \in [0..Len(t) -> Int] :
             w[0] = 0 /\ (\A i \in 1..Len(t) : w[i] = w[i - 1] + t[i]) /\ Total(t) = w[Len(t)]
  BY TotalSums DEF Sums
<1>3. PICK n \in Nat, m \in Nat : n = Len(s) /\ m = Len(t)
  OBVIOUS
<1>4. /\ s \o t \in Seq(Int) /\ Len(s \o t) = n + m
      /\ \A i \in 1..(n + m) : (s \o t)[i] = IF i <= n THEN s[i] ELSE t[i - n]
  BY <1>3, ConcatProperties
<1>5. /\ \A i \in 0..n : u[i] \in Int
      /\ \A i \in 0..m : w[i] \in Int
  BY <1>1, <1>2, <1>3
<1> DEFINE x == [i \in 0..(n + m) |-> IF i <= n THEN u[i] ELSE u[n] + w[i - n]]
<1>6. x \in [0..(n + m) -> Int]
  <2> SUFFICES ASSUME NEW i \in 0..(n + m)
               PROVE  (IF i <= n THEN u[i] ELSE u[n] + w[i - n]) \in Int
    OBVIOUS
  <2>1. CASE i <= n
    BY <2>1, <1>5
  <2>2. CASE ~(i <= n)
    <3>1. i - n \in 0..m /\ n \in 0..n
      BY <2>2
    <3>2. u[n] \in Int /\ w[i - n] \in Int
      BY <3>1, <1>5
    <3> QED BY <2>2, <3>2
  <2> QED BY <2>1, <2>2
<1>7. ASSUME NEW i \in 1..(n + m)
      PROVE  x[i] = x[i - 1] + (s \o t)[i]
  <2>1. CASE i <= n
    <3>1. i \in 1..n /\ i - 1 <= n /\ i - 1 \in 0..(n + m) /\ i \in 0..(n + m)
      BY <2>1
    <3>2. x[i] = u[i] /\ x[i - 1] = u[i - 1] /\ (s \o t)[i] = s[i]
      BY <2>1, <3>1, <1>4
    <3> HIDE DEF x
    <3> QED BY <3>1, <3>2, <1>1, <1>3
  <2>2. CASE i > n
    <3>1. PICK k \in 1..m : k = i - n
      BY <2>2
    <3>2. w[k] = w[k - 1] + t[k] /\ (s \o t)[i] = t[k]
      <4>1. ~(i <= n) /\ i - n = k
        BY <2>2, <3>1
      <4>2. (s \o t)[i] = t[k]
        BY <4>1, <1>4
      <4> QED BY <3>1, <4>2, <1>2, <1>3
    <3>3. u[n] \in Int /\ w[k] \in Int /\ w[k - 1] \in Int /\ t[k] \in Int
      BY <3>1, <1>3, <1>5
    <3>4. x[i] = u[n] + w[k]
      BY <2>2, <3>1
    <3>5. x[i - 1] = u[n] + w[k - 1]
      <4>1. CASE i - 1 = n
        <5>1. k - 1 = 0 /\ i - 1 <= n /\ i - 1 \in 0..(n + m)
          BY <4>1, <3>1
        <5>2. x[i - 1] = u[n]
          BY <4>1, <5>1
        <5> HIDE DEF x
        <5> QED BY <5>1, <5>2, <3>3, <1>2
      <4>2. CASE i - 1 # n
        <5>1. ~(i - 1 <= n) /\ (i - 1) - n = k - 1 /\ i - 1 \in 0..(n + m)
          BY <4>2, <2>2, <3>1
        <5> QED BY <5>1
      <4> QED BY <4>1, <4>2
    <3> HIDE DEF x
    <3>6. u[n] + (w[k - 1] + t[k]) = (u[n] + w[k - 1]) + t[k]
      BY <3>3
    <3>7. x[i] = u[n] + (w[k - 1] + t[k]) /\ x[i - 1] + (s \o t)[i] = (u[n] + w[k - 1]) + t[k]
      BY <3>2, <3>4, <3>5
    <3> QED BY <3>6, <3>7
  <2>3. i <= n \/ i > n
    OBVIOUS
  <2> HIDE DEF x
  <2> QED BY <2>1, <2>2, <2>3
<1>8. x[0] = 0
  BY <1>1, <1>3
<1>9. Sums(x, s \o t)
  <2> HIDE DEF x
  <2> QED BY <1>4, <1>6, <1>7, <1>8 DEF Sums
<1>10. x[n + m] = u[n] + w[m]
  <2>1. CASE m = 0
    <3>1. n + m <= n /\ n + m = n /\ w[m] = 0 /\ u[n] \in Int
      BY <2>1, <1>2, <1>3, <1>5
    <3>2. x[n + m] = u[n]
      BY <3>1
    <3> HIDE DEF x
    <3> QED BY <3>1, <3>2
  <2>2. CASE m # 0
    <3>1. ~(n + m <= n) /\ n + m - n = m
      BY <2>2
    <3> QED BY <3>1
  <2> QED BY <2>1, <2>2
<1> HIDE DEF x
<1> QED BY <1>1, <1>2, <1>3, <1>4, <1>9, <1>10, TotalIs

(* Only one of the numbers, at most, is not zero. *)
LEMMA TotalSingle ==
  ASSUME NEW s \in Seq(Int), NEW k \in 1..Len(s), \A i \in 1..Len(s) : i # k => s[i] = 0
  PROVE  Total(s) = s[k]
<1> DEFINE x == [i \in 0..Len(s) |-> IF i < k THEN 0 ELSE s[k]]
<1>1. Sums(x, s)
  BY DEF Sums
<1>2. x[Len(s)] = s[k]
  OBVIOUS
<1> HIDE DEF x
<1> QED BY <1>1, <1>2, TotalIs

LEMMA TotalZero ==
  ASSUME NEW s \in Seq(Int), \A i \in 1..Len(s) : s[i] = 0
  PROVE  Total(s) = 0
<1> DEFINE x == [i \in 0..Len(s) |-> 0]
<1>1. Sums(x, s)
  BY DEF Sums
<1>2. x[Len(s)] = 0
  OBVIOUS
<1> HIDE DEF x
<1> QED BY <1>1, <1>2, TotalIs

LEMMA TotalNegated ==
  ASSUME NEW s \in Seq(Int), NEW t \in Seq(Int), Len(t) = Len(s), \A i \in 1..Len(s) : t[i] = -s[i]
  PROVE  Total(t) = -Total(s)
<1>1. PICK u \in [0..Len(s) -> Int] :
             u[0] = 0 /\ (\A i \in 1..Len(s) : u[i] = u[i - 1] + s[i]) /\ Total(s) = u[Len(s)]
  BY TotalSums DEF Sums
<1> DEFINE x == [i \in 0..Len(s) |-> -u[i]]
<1>2. Sums(x, t)
  <2>1. x \in [0..Len(s) -> Int] /\ x[0] = 0
    BY <1>1
  <2>2. ASSUME NEW i \in 1..Len(s)
        PROVE  x[i] = x[i - 1] + t[i]
    <3>1. i \in 0..Len(s) /\ i - 1 \in 0..Len(s) /\ s[i] \in Int
      OBVIOUS
    <3>2. x[i] = -u[i] /\ x[i - 1] = -u[i - 1] /\ u[i] \in Int /\ u[i - 1] \in Int
      BY <3>1
    <3>3. u[i] = u[i - 1] + s[i] /\ t[i] = -s[i]
      BY <1>1
    <3> HIDE DEF x
    <3> QED BY <3>1, <3>2, <3>3
  <2> HIDE DEF x
  <2> QED BY <2>1, <2>2 DEF Sums
<1>3. x[Len(s)] = -u[Len(s)]
  OBVIOUS
<1> HIDE DEF x
<1> QED BY <1>1, <1>2, <1>3, TotalIs

-----------------------------------------------------------------------------
(* The power of a name is a total. *)
Parts == [name : Int, power : Int]
PowersIn(c, n) == [i \in DOMAIN c |-> IF c[i].name = n THEN c[i].power ELSE 0]

LEMMA PowerTotal ==
  ASSUME NEW c \in Seq(Parts), NEW n
  PROVE  /\ PowersIn(c, n) \in Seq(Int)
         /\ Len(PowersIn(c, n)) = Len(c)
         /\ \A i \in 1..Len(c) : PowersIn(c, n)[i] = IF c[i].name = n THEN c[i].power ELSE 0
         /\ Power(c, n) = Total(PowersIn(c, n))
         /\ Power(c, n) \in Int
<1>1. Len(c) \in Nat /\ DOMAIN c = 1..Len(c)
  BY LenProperties
<1>2. ASSUME NEW i \in 1..Len(c)
      PROVE  c[i] \in Parts /\ c[i].power \in Int
  <2>1. c[i] \in Parts
    BY ElementOfSeq
  <2> QED BY <2>1 DEF Parts
<1> DEFINE p == PowersIn(c, n)
<1>3. p \in [1..Len(c) -> Int]
  BY <1>1, <1>2 DEF PowersIn
<1>4. p \in Seq(Int) /\ Len(p) = Len(c)
  BY <1>1, <1>3
<1>5. Power(c, n) = Total(p)
  BY DEF Power, PowersIn
<1>6. Total(p) \in Int
  BY <1>4, TotalType
<1>7. \A i \in 1..Len(c) : p[i] = IF c[i].name = n THEN c[i].power ELSE 0
  BY <1>1 DEF PowersIn
<1> QED BY <1>4, <1>5, <1>6, <1>7

LEMMA PowerConcat ==
  ASSUME NEW a \in Seq(Parts), NEW b \in Seq(Parts), NEW n
  PROVE  Power(a \o b, n) = Power(a, n) + Power(b, n)
<1> DEFINE c == a \o b
<1>1. /\ c \in Seq(Parts) /\ Len(c) = Len(a) + Len(b)
      /\ \A i \in 1..(Len(a) + Len(b)) : c[i] = IF i <= Len(a) THEN a[i] ELSE b[i - Len(a)]
  BY ConcatProperties
<1> HIDE DEF c
<1>2. Len(a) \in Nat /\ Len(b) \in Nat
  BY LenProperties
<1> DEFINE p == PowersIn(a, n)
           q == PowersIn(b, n)
           r == PowersIn(c, n)
<1>3. /\ p \in Seq(Int) /\ Len(p) = Len(a) /\ Power(a, n) = Total(p)
      /\ q \in Seq(Int) /\ Len(q) = Len(b) /\ Power(b, n) = Total(q)
      /\ r \in Seq(Int) /\ Len(r) = Len(c) /\ Power(c, n) = Total(r)
  BY <1>1, PowerTotal
<1>4. /\ \A i \in 1..Len(a) : p[i] = IF a[i].name = n THEN a[i].power ELSE 0
      /\ \A i \in 1..Len(b) : q[i] = IF b[i].name = n THEN b[i].power ELSE 0
      /\ \A i \in 1..Len(c) : r[i] = IF c[i].name = n THEN c[i].power ELSE 0
  <2>1. \A i \in 1..Len(a) : p[i] = IF a[i].name = n THEN a[i].power ELSE 0
    BY PowerTotal
  <2>2. \A i \in 1..Len(b) : q[i] = IF b[i].name = n THEN b[i].power ELSE 0
    BY PowerTotal
  <2>3. \A i \in 1..Len(c) : r[i] = IF c[i].name = n THEN c[i].power ELSE 0
    BY <1>1, PowerTotal
  <2> HIDE DEF p, q, r
  <2> QED BY <2>1, <2>2, <2>3
<1> HIDE DEF p, q, r
<1> DEFINE s == p \o q
<1>5. /\ s \in Seq(Int) /\ Len(s) = Len(a) + Len(b)
      /\ \A i \in 1..(Len(a) + Len(b)) : s[i] = IF i <= Len(a) THEN p[i] ELSE q[i - Len(a)]
  <2>1. /\ s \in Seq(Int) /\ Len(s) = Len(p) + Len(q)
        /\ \A i \in 1..(Len(p) + Len(q)) : s[i] = IF i <= Len(p) THEN p[i] ELSE q[i - Len(p)]
    BY <1>3, ConcatProperties
  <2> HIDE DEF s
  <2> QED BY <2>1, <1>3
<1> HIDE DEF s
<1>6. ASSUME NEW i \in 1..(Len(a) + Len(b))
      PROVE  s[i] = r[i]
  <2>1. CASE i <= Len(a)
    <3>1. i \in 1..Len(a) /\ i \in 1..Len(c)
      BY <2>1, <1>1, <1>2
    <3>2. c[i] = a[i] /\ s[i] = p[i]
      BY <2>1, <1>1, <1>5
    <3>3. p[i] = r[i]
      BY <3>1, <3>2, <1>4
    <3> QED BY <3>2, <3>3
  <2>2. CASE ~(i <= Len(a))
    <3>1. i - Len(a) \in 1..Len(b) /\ i \in 1..Len(c)
      BY <2>2, <1>1, <1>2
    <3>2. c[i] = b[i - Len(a)] /\ s[i] = q[i - Len(a)]
      BY <2>2, <1>1, <1>5
    <3>3. q[i - Len(a)] = r[i]
      BY <3>1, <3>2, <1>4
    <3> QED BY <3>2, <3>3
  <2> QED BY <2>1, <2>2
<1>7. s = r
  BY <1>1, <1>3, <1>5, <1>6, SeqEqual
<1>8. Total(s) = Total(p) + Total(q)
  BY <1>3, TotalConcat DEF s
<1> QED BY <1>3, <1>7, <1>8 DEF c

(* All that have the name have the power zero, in particular if none has it. *)
LEMMA PowerAbsent ==
  ASSUME NEW c \in Seq(Parts), NEW n, \A i \in 1..Len(c) : c[i].name = n => c[i].power = 0
  PROVE  Power(c, n) = 0
BY PowerTotal, TotalZero

LEMMA PowerOnly ==
  ASSUME NEW c \in Seq(Parts), NEW k \in 1..Len(c), \A i \in 1..Len(c) : c[i].name = c[k].name => i = k
  PROVE  Power(c, c[k].name) = c[k].power
<1> DEFINE p == PowersIn(c, c[k].name)
<1>1. /\ p \in Seq(Int) /\ Len(p) = Len(c) /\ Power(c, c[k].name) = Total(p)
      /\ \A i \in 1..Len(c) : p[i] = IF c[i].name = c[k].name THEN c[i].power ELSE 0
  BY PowerTotal
<1> HIDE DEF p
<1>2. \A i \in 1..Len(p) : i # k => p[i] = 0
  BY <1>1
<1> QED BY <1>1, <1>2, TotalSingle

LEMMA InvertedParts ==
  ASSUME NEW c \in Seq(Parts)
  PROVE  /\ Inverted(c) \in Seq(Parts) /\ Len(Inverted(c)) = Len(c)
         /\ \A i \in 1..Len(c) : Inverted(c)[i].name = c[i].name /\ Inverted(c)[i].power = -c[i].power
<1>1. Len(c) \in Nat /\ DOMAIN c = 1..Len(c)
  BY LenProperties
<1>2. ASSUME NEW i \in 1..Len(c)
      PROVE  /\ [c[i] EXCEPT !.power = -@] \in Parts
             /\ [c[i] EXCEPT !.power = -@].name = c[i].name
             /\ [c[i] EXCEPT !.power = -@].power = -c[i].power
  <2>1. c[i] \in Parts
    BY ElementOfSeq
  <2> QED BY <2>1 DEF Parts
<1>3. Inverted(c) = [i \in 1..Len(c) |-> [c[i] EXCEPT !.power = -@]]
  BY <1>1 DEF Inverted
<1>4. Inverted(c) \in [1..Len(c) -> Parts]
  BY <1>2, <1>3
<1>5. Inverted(c) \in Seq(Parts) /\ Len(Inverted(c)) = Len(c)
  BY <1>1, <1>4
<1> QED BY <1>2, <1>3, <1>5

LEMMA PowerInverted ==
  ASSUME NEW c \in Seq(Parts), NEW n
  PROVE  Power(Inverted(c), n) = -Power(c, n)
<1> DEFINE p == PowersIn(c, n)
           q == PowersIn(Inverted(c), n)
<1>1. /\ p \in Seq(Int) /\ Len(p) = Len(c) /\ Power(c, n) = Total(p)
      /\ \A i \in 1..Len(c) : p[i] = IF c[i].name = n THEN c[i].power ELSE 0
  BY PowerTotal
<1>2. /\ q \in Seq(Int) /\ Len(q) = Len(c) /\ Power(Inverted(c), n) = Total(q)
      /\ \A i \in 1..Len(c) : q[i] = IF Inverted(c)[i].name = n THEN Inverted(c)[i].power ELSE 0
  BY InvertedParts, PowerTotal
<1> HIDE DEF p, q
<1>3. ASSUME NEW i \in 1..Len(p)
      PROVE  q[i] = -p[i]
  <2>1. Inverted(c)[i].name = c[i].name /\ Inverted(c)[i].power = -c[i].power
    BY <1>1, InvertedParts
  <2> QED BY <2>1, <1>1, <1>2
<1> QED BY <1>1, <1>2, <1>3, TotalNegated

-----------------------------------------------------------------------------
(* cmp_component_exponents orders components that differ. *)
LEMMA BeforeOrders ==
  ASSUME NEW x \in Parts, NEW y \in Parts
  PROVE  /\ ~Before(x, x)
         /\ Before(x, y) => ~Before(y, x)
         /\ \A z \in Parts : Before(x, y) /\ Before(y, z) => Before(x, z)
         /\ x # y => Before(x, y) \/ Before(y, x)
<1>1. /\ x.name \in Int /\ x.power \in Int /\ y.name \in Int /\ y.power \in Int
      /\ x.name = y.name /\ x.power = y.power => x = y
  BY DEF Parts
<1>2. ~Before(x, x) /\ (Before(x, y) => ~Before(y, x))
  BY <1>1 DEF Before
<1>3. ASSUME NEW z \in Parts, Before(x, y), Before(y, z)
      PROVE  Before(x, z)
  <2>1. z.name \in Int /\ z.power \in Int
    BY DEF Parts
  <2> QED BY <1>1, <1>3, <2>1 DEF Before
<1>4. x # y => Before(x, y) \/ Before(y, x)
  BY <1>1 DEF Before
<1> QED BY <1>2, <1>3, <1>4

Sorted(s, S) == /\ s \in [1..Cardinality(S) -> S]
                /\ \A i, j \in 1..Cardinality(S) : i < j => Before(s[i], s[j])

(* A finite set of components can be put in order: each after as many as   *)
(* are before it.                                                          *)
LEMMA SortedExists ==
  ASSUME NEW S, IsFiniteSet(S), S \subseteq Parts
  PROVE  \E s : Sorted(s, S)
<1> DEFINE n == Cardinality(S)
           Upto(x) == {y \in S : y = x \/ Before(y, x)}
           rank == [x \in S |-> Cardinality(Upto(x))]
<1>1. n \in Nat
  BY FS_CardinalityType
<1>2. ASSUME NEW x \in S
      PROVE  IsFiniteSet(Upto(x)) /\ rank[x] = Cardinality(Upto(x)) /\ rank[x] \in 1..n
  <2>1. Upto(x) \subseteq S /\ x \in Upto(x)
    OBVIOUS
  <2>2. rank[x] = Cardinality(Upto(x))
    OBVIOUS
  <2> HIDE DEF Upto, rank
  <2>3. IsFiniteSet(Upto(x)) /\ Cardinality(Upto(x)) <= n
    BY <2>1, FS_Subset
  <2>4. Cardinality(Upto(x)) \in Nat /\ Cardinality(Upto(x)) # 0
    BY <2>1, <2>3, FS_CardinalityType, FS_EmptySet
  <2> QED BY <1>1, <2>2, <2>3, <2>4
<1>3. ASSUME NEW x \in S, NEW y \in S, Before(x, y)
      PROVE  rank[x] < rank[y]
  <2>1. x \in Parts /\ y \in Parts
    OBVIOUS
  <2>2. y \notin Upto(x)
    BY <1>3, <2>1, BeforeOrders
  <2>3. ASSUME NEW z \in Upto(x)
        PROVE  z \in Upto(y)
    <3>1. z \in S /\ z \in Parts /\ (z = x \/ Before(z, x))
      OBVIOUS
    <3>2. Before(z, y)
      BY <1>3, <2>1, <3>1, BeforeOrders
    <3> QED BY <3>1, <3>2
  <2>4. y \in Upto(y)
    OBVIOUS
  <2> HIDE DEF Upto, rank
  <2>5. Upto(x) \subseteq Upto(y) \ {y}
    BY <2>2, <2>3
  <2>6. /\ IsFiniteSet(Upto(y) \ {y})
        /\ Cardinality(Upto(y) \ {y}) = Cardinality(Upto(y)) - 1
    BY <1>2, <2>4, FS_RemoveElement
  <2>7. Cardinality(Upto(x)) <= Cardinality(Upto(y)) - 1
    BY <2>5, <2>6, FS_Subset
  <2>8. rank[x] \in Int /\ rank[y] \in Int
    BY <1>2
  <2> QED BY <1>2, <2>7, <2>8
<1>4. \A x, y \in S : rank[x] = rank[y] => x = y
  <2> SUFFICES ASSUME NEW x \in S, NEW y \in S, rank[x] = rank[y], x # y
               PROVE  FALSE
    OBVIOUS
  <2>1. Before(x, y) \/ Before(y, x)
    BY BeforeOrders
  <2>2. rank[x] \in Int /\ rank[y] \in Int
    BY <1>2
  <2> HIDE DEF rank
  <2> QED BY <1>3, <2>1, <2>2
<1>5. ASSUME NEW i \in 1..n
      PROVE  \E x \in S : rank[x] = i
  <2>0. rank \in [S -> 1..n]
    BY <1>2
  <2> HIDE DEF rank
  <2>1. rank \in Injection(S, 1..n)
    BY <1>4, <2>0 DEF Injection, IsInjective
  <2>2. IsFiniteSet(1..n) /\ Cardinality(1..n) = n
    BY <1>1, FS_Interval
  <2>3. rank \in Surjection(S, 1..n)
    BY <2>1, <2>2, FS_Injection
  <2> QED BY <2>3 DEF Surjection
<1> DEFINE s == [i \in 1..n |-> CHOOSE x \in S : rank[x] = i]
<1>6. \A i \in 1..n : s[i] \in S /\ rank[s[i]] = i
  <2> HIDE DEF rank
  <2> QED BY <1>5
<1>7. s \in [1..n -> S]
  <2> HIDE DEF rank
  <2> QED BY <1>5
<1>8. ASSUME NEW i \in 1..n, NEW j \in 1..n, i < j
      PROVE  Before(s[i], s[j])
  <2> HIDE DEF rank, s
  <2>1. s[i] \in Parts /\ s[j] \in Parts /\ s[i] # s[j]
    BY <1>6, <1>8
  <2>2. ~Before(s[j], s[i])
    BY <1>3, <1>6, <1>8
  <2> QED BY <2>1, <2>2, BeforeOrders
<1> HIDE DEF s, rank
<1> QED BY <1>7, <1>8 DEF Sorted

LEMMA InOrderSorts ==
  ASSUME NEW S, IsFiniteSet(S), S \subseteq Parts
  PROVE  /\ Cardinality(S) \in Nat
         /\ Sorted(InOrder(S), S)
         /\ \A i, j \in 1..Cardinality(S) : InOrder(S)[i] = InOrder(S)[j] => i = j
         /\ \A x \in S : \E i \in 1..Cardinality(S) : InOrder(S)[i] = x
<1> DEFINE n == Cardinality(S)
           s == InOrder(S)
<1>1. n \in Nat
  BY FS_CardinalityType
<1>2. Sorted(s, S)
  <2>1. \A t \in [1..n -> S] : DOMAIN t = 1..n
    OBVIOUS
  <2>2. PICK t \in [1..n -> S] : \A i, j \in DOMAIN t : i < j => Before(t[i], t[j])
    BY <2>1, SortedExists DEF Sorted
  <2>3. s \in [1..n -> S] /\ \A i, j \in DOMAIN s : i < j => Before(s[i], s[j])
    BY <2>2 DEF InOrder
  <2>4. DOMAIN s = 1..n
    BY <2>3
  <2> HIDE DEF s
  <2> QED BY <2>3, <2>4 DEF Sorted
<1> HIDE DEF s
<1>3. \A i \in 1..n : s[i] \in S /\ s[i] \in Parts
  BY <1>2 DEF Sorted
<1>4. \A i, j \in 1..n : s[i] = s[j] => i = j
  <2> SUFFICES ASSUME NEW i \in 1..n, NEW j \in 1..n, s[i] = s[j], i < j
               PROVE  FALSE
    BY <1>1
  <2>1. Before(s[i], s[j])
    BY <1>2 DEF Sorted
  <2> QED BY <2>1, <1>3, BeforeOrders
<1>5. ASSUME NEW x \in S
      PROVE  \E i \in 1..n : s[i] = x
  <2>1. s \in Injection(1..n, S)
    BY <1>2, <1>4 DEF Injection, IsInjective, Sorted
  <2>2. IsFiniteSet(1..n) /\ Cardinality(1..n) = n
    BY <1>1, FS_Interval
  <2>3. s \in Surjection(1..n, S)
    BY <2>1, <2>2, FS_Injection
  <2> QED BY <2>3 DEF Surjection
<1> QED BY <1>1, <1>2, <1>4, <1>5 DEF s

-----------------------------------------------------------------------------
(* make_unit keeps every power that is not zero, once. *)
LEMMA MergedIs ==
  ASSUME NEW c \in Seq(Parts)
  PROVE  /\ IsFiniteSet(Merged(c))
         /\ Merged(c) = {x \in Parts : x.power = Power(c, x.name) /\ x.power # 0}
<1>1. Len(c) \in Nat /\ DOMAIN c = 1..Len(c)
  BY LenProperties
<1>2. \A i \in 1..Len(c) : c[i] \in Parts
  BY ElementOfSeq
<1>3. IsFiniteSet(Named(c)) /\ Named(c) \subseteq Int
  <2> DEFINE f == [i \in 1..Len(c) |-> c[i].name]
  <2>1. f \in Surjection(1..Len(c), Named(c))
    BY <1>1 DEF Surjection, Named
  <2>2. IsFiniteSet(1..Len(c))
    BY <1>1, FS_Interval
  <2>3. Named(c) \subseteq Int
    BY <1>1, <1>2 DEF Named, Parts
  <2> HIDE DEF f
  <2> QED BY <2>1, <2>2, <2>3, FS_Surjection
<1>4. \A n : Power(c, n) \in Int
  BY PowerTotal
<1> DEFINE S == {[name |-> n, power |-> Power(c, n)] : n \in Named(c)}
<1>5. IsFiniteSet(S)
  <2> DEFINE g == [n \in Named(c) |-> [name |-> n, power |-> Power(c, n)]]
  <2>1. g \in Surjection(Named(c), S)
    BY DEF Surjection
  <2> HIDE DEF g, S
  <2> QED BY <1>3, <2>1, FS_Surjection
<1>6. IsFiniteSet(Merged(c))
  <2>1. Merged(c) \subseteq S
    BY DEF Merged
  <2> HIDE DEF S
  <2> QED BY <1>5, <2>1, FS_Subset
<1>7. ASSUME NEW x \in Merged(c)
      PROVE  x \in Parts /\ x.power = Power(c, x.name) /\ x.power # 0
  <2>1. PICK n \in Named(c) : x = [name |-> n, power |-> Power(c, n)]
    BY DEF Merged
  <2>2. x.power # 0
    BY DEF Merged
  <2>3. n \in Int /\ Power(c, n) \in Int
    BY <1>3, <1>4
  <2> QED BY <2>1, <2>2, <2>3 DEF Parts
<1>8. ASSUME NEW x \in Parts, x.power = Power(c, x.name), x.power # 0
      PROVE  x \in Merged(c)
  <2>1. PICK i \in 1..Len(c) : c[i].name = x.name
    BY <1>8, PowerAbsent
  <2>2. x.name \in Named(c)
    BY <1>1, <2>1 DEF Named
  <2>3. x = [name |-> x.name, power |-> Power(c, x.name)]
    BY <1>8 DEF Parts
  <2> QED BY <1>8, <2>2, <2>3 DEF Merged
<1> QED BY <1>6, <1>7, <1>8

(* What make_unit returns. *)
Made(u) == /\ u \in Seq(Parts)
           /\ \A i \in 1..Len(u) : u[i].power # 0
           /\ \A i, j \in 1..Len(u) : u[i].name = u[j].name => i = j
           /\ \A i, j \in 1..Len(u) : i < j => u[i].power >= u[j].power

LEMMA MakeUnitMakes ==
  ASSUME NEW c \in Seq(Parts)
  PROVE  Made(MakeUnit(c)) /\ \A n \in Int : Power(MakeUnit(c), n) = Power(c, n)
<1> DEFINE S == Merged(c)
           u == MakeUnit(c)
           k == Cardinality(S)
<1>0. \A x : x \in S <=> x \in Parts /\ x.power = Power(c, x.name) /\ x.power # 0
  BY MergedIs
<1>1. IsFiniteSet(S) /\ S \subseteq Parts
  BY MergedIs
<1>2. /\ k \in Nat /\ Sorted(u, S)
      /\ \A i, j \in 1..k : u[i] = u[j] => i = j
      /\ \A x \in S : \E i \in 1..k : u[i] = x
  BY <1>1, InOrderSorts DEF MakeUnit
<1> HIDE DEF S, u
<1>3. u \in [1..k -> Parts]
  BY <1>1, <1>2 DEF Sorted
<1>4. u \in Seq(Parts) /\ Len(u) = k
  BY <1>2, <1>3
<1>5. \A i \in 1..k : u[i] \in Parts /\ u[i].power = Power(c, u[i].name) /\ u[i].power # 0
  BY <1>0, <1>2 DEF Sorted
<1>6. \A i, j \in 1..k : u[i].name = u[j].name => i = j
  <2> SUFFICES ASSUME NEW i \in 1..k, NEW j \in 1..k, u[i].name = u[j].name
               PROVE  i = j
    OBVIOUS
  <2>1. u[i] \in Parts /\ u[j] \in Parts /\ u[i].power = u[j].power
    BY <1>5
  <2>2. u[i] = u[j]
    BY <2>1 DEF Parts
  <2> QED BY <1>2, <2>2
<1>7. \A i, j \in 1..k : i < j => u[i].power >= u[j].power
  <2> SUFFICES ASSUME NEW i \in 1..k, NEW j \in 1..k, i < j
               PROVE  u[i].power >= u[j].power
    OBVIOUS
  <2>1. Before(u[i], u[j])
    BY <1>2 DEF Sorted
  <2>2. u[i].power \in Int /\ u[j].power \in Int
    BY <1>5 DEF Parts
  <2> QED BY <2>1, <2>2 DEF Before
<1>8. Made(u)
  BY <1>4, <1>5, <1>6, <1>7 DEF Made
<1>9. ASSUME NEW n \in Int
      PROVE  Power(u, n) = Power(c, n)
  <2>0. Power(c, n) \in Int
    BY PowerTotal
  <2>1. CASE Power(c, n) = 0
    <3>1. \A i \in 1..Len(u) : u[i].name = n => u[i].power = 0
      BY <2>1, <1>4, <1>5
    <3> QED BY <2>1, <3>1, <1>4, PowerAbsent
  <2>2. CASE Power(c, n) # 0
    <3> DEFINE x == [name |-> n, power |-> Power(c, n)]
    <3>1. x \in Parts /\ x.power = Power(c, x.name) /\ x.power # 0
      BY <2>0, <2>2 DEF Parts
    <3>2. x \in S
      BY <3>1, <1>0
    <3>3. PICK i \in 1..k : u[i] = x
      BY <1>2, <3>2
    <3>4. u[i].name = n /\ u[i].power = Power(c, n)
      BY <3>3
    <3> QED BY <3>4, <1>4, <1>6, PowerOnly
  <2> QED BY <2>1, <2>2
<1> QED BY <1>8, <1>9 DEF u

(* It depends on nothing but the powers. *)
LEMMA MakeUnitByPowers ==
  ASSUME NEW c \in Seq(Parts), NEW d \in Seq(Parts), \A n \in Int : Power(c, n) = Power(d, n)
  PROVE  MakeUnit(c) = MakeUnit(d)
<1>1. \A x \in Parts : x.name \in Int
  BY DEF Parts
<1>2. \A x : x \in Merged(c) <=> x \in Merged(d)
  BY <1>1, MergedIs
<1>3. Merged(c) = Merged(d)
  BY <1>2
<1> QED BY <1>3 DEF MakeUnit

LEMMA MakeUnitTwice ==
  ASSUME NEW c \in Seq(Parts)
  PROVE  MakeUnit(MakeUnit(c)) = MakeUnit(c)
<1>1. MakeUnit(c) \in Seq(Parts) /\ \A n \in Int : Power(MakeUnit(c), n) = Power(c, n)
  BY MakeUnitMakes DEF Made
<1> QED BY <1>1, MakeUnitByPowers

-----------------------------------------------------------------------------
(* What unit_from_string makes of a string. *)
LEMMA NothingIsPart == Nothing \in Parts /\ <<Nothing>> \in Seq(Parts) /\ \A n : Power(<<Nothing>>, n) = 0
<1>1. Nothing \in Parts /\ Nothing.power = 0
  BY DEF Nothing, Parts
<1>2. <<Nothing>> \in Seq(Parts) /\ Len(<<Nothing>>) = 1 /\ <<Nothing>>[1] = Nothing
  BY <1>1
<1>3. \A n : Power(<<Nothing>>, n) = 0
  <2> DEFINE u == <<Nothing>>
  <2>1. u \in Seq(Parts) /\ \A i \in 1..Len(u) : u[i].power = 0
    BY <1>1, <1>2
  <2> HIDE DEF u
  <2>2. \A n : Power(u, n) = 0
    BY <2>1, PowerAbsent
  <2> QED BY <2>2 DEF u
<1> QED BY <1>1, <1>2, <1>3

LEMMA ComponentsAre ==
  ASSUME NEW text \in Texts(Int)
  PROVE  /\ Components(text) \in Seq(Parts) /\ Len(Components(text)) = Len(text)
         /\ \A i \in 1..Len(text) : Components(text)[i] = Component(text, i)
<1>1. Len(text) \in Nat /\ DOMAIN text = 1..Len(text)
  BY DEF Texts
<1>2. ASSUME NEW i \in 1..Len(text)
      PROVE  Component(text, i) \in Parts
  <2>1. text[i] \in Tokens(Int)
    BY ElementOfSeq DEF Texts
  <2>2. CASE text[i].is # "name"
    BY <2>2, NothingIsPart DEF Component
  <2>3. CASE text[i].is = "name"
    <3>1. text[i].name \in Int /\ text[i].power \in Int
      BY <2>1, <2>3 DEF Tokens
    <3> QED BY <2>3, <3>1 DEF Component, Parts
  <2> QED BY <2>2, <2>3
<1>3. Components(text) \in [1..Len(text) -> Parts]
  BY <1>1, <1>2 DEF Components
<1> QED BY <1>1, <1>3 DEF Components

(* Before any slash, a string is read piece by piece. *)
LEMMA ComponentsConcat ==
  ASSUME NEW a \in Texts(Int), NEW b \in Texts(Int), \A i \in 1..Len(a) : a[i].is # "slash"
  PROVE  Components(a \o b) = Components(a) \o Components(b)
<1> DEFINE t == a \o b
           x == Components(a)
           y == Components(b)
           z == x \o y
<1>1. /\ t \in Texts(Int) /\ Len(t) = Len(a) + Len(b)
      /\ \A i \in 1..(Len(a) + Len(b)) : t[i] = IF i <= Len(a) THEN a[i] ELSE b[i - Len(a)]
  BY ConcatProperties DEF Texts
<1>2. Len(a) \in Nat /\ Len(b) \in Nat
  BY DEF Texts
<1>3. /\ x \in Seq(Parts) /\ Len(x) = Len(a)
      /\ \A i \in 1..Len(a) : x[i] = Component(a, i)
  BY ComponentsAre
<1>4. /\ y \in Seq(Parts) /\ Len(y) = Len(b)
      /\ \A i \in 1..Len(b) : y[i] = Component(b, i)
  BY ComponentsAre
<1> HIDE DEF t, x, y
<1>5. /\ Components(t) \in Seq(Parts) /\ Len(Components(t)) = Len(a) + Len(b)
      /\ \A i \in 1..(Len(a) + Len(b)) : Components(t)[i] = Component(t, i)
  BY <1>1, ComponentsAre
<1>6. /\ z \in Seq(Parts) /\ Len(z) = Len(x) + Len(y)
      /\ \A i \in 1..(Len(x) + Len(y)) : z[i] = IF i <= Len(x) THEN x[i] ELSE y[i - Len(x)]
  BY <1>3, <1>4, ConcatProperties
<1> HIDE DEF z
<1>7. /\ Len(z) = Len(a) + Len(b)
      /\ \A i \in 1..(Len(a) + Len(b)) : z[i] = IF i <= Len(a) THEN x[i] ELSE y[i - Len(a)]
  BY <1>3, <1>4, <1>6
<1>8. ASSUME NEW i \in 1..(Len(a) + Len(b))
      PROVE  Components(t)[i] = z[i]
  <2>1. CASE i <= Len(a)
    <3>1. i \in 1..Len(a) /\ t[i] = a[i]
      BY <2>1, <1>1, <1>2
    <3>2. ~Below(a, i) /\ ~Below(t, i)
      <4> SUFFICES ASSUME NEW j \in 1..i
                   PROVE  a[j].is # "slash" /\ t[j].is # "slash"
        BY DEF Below
      <4>1. j \in 1..Len(a) /\ j \in 1..(Len(a) + Len(b)) /\ j <= Len(a)
        BY <2>1, <1>2
      <4> QED BY <4>1, <1>1
    <3>3. Component(t, i) = Component(a, i)
      BY <3>1, <3>2 DEF Component
    <3> QED BY <2>1, <3>1, <3>3, <1>3, <1>5, <1>7
  <2>2. CASE ~(i <= Len(a))
    <3>1. i - Len(a) \in 1..Len(b) /\ t[i] = b[i - Len(a)]
      BY <2>2, <1>1, <1>2
    <3>2. Below(t, i) => Below(b, i - Len(a))
      <4> SUFFICES ASSUME NEW j \in 1..i, t[j].is = "slash"
                   PROVE  Below(b, i - Len(a))
        BY DEF Below
      <4>1. j \in 1..(Len(a) + Len(b))
        BY <1>2
      <4>2. ~(j <= Len(a))
        <5>1. j <= Len(a) => j \in 1..Len(a)
          BY <1>2
        <5> QED BY <4>1, <5>1, <1>1
      <4>3. t[j] = b[j - Len(a)] /\ j - Len(a) \in 1..(i - Len(a))
        BY <4>1, <4>2, <1>1, <1>2
      <4> QED BY <4>3 DEF Below
    <3>3. Below(b, i - Len(a)) => Below(t, i)
      <4> SUFFICES ASSUME NEW j \in 1..(i - Len(a)), b[j].is = "slash"
                   PROVE  Below(t, i)
        BY DEF Below
      <4>1. j + Len(a) \in 1..i /\ j + Len(a) \in 1..(Len(a) + Len(b)) /\ ~(j + Len(a) <= Len(a)) /\ (j + Len(a)) - Len(a) = j
        BY <2>2, <1>2
      <4>2. t[j + Len(a)] = b[j]
        BY <4>1, <1>1
      <4> QED BY <4>1, <4>2 DEF Below
    <3>4. Component(t, i) = Component(b, i - Len(a))
      BY <3>1, <3>2, <3>3 DEF Component
    <3> QED BY <2>2, <3>1, <3>4, <1>4, <1>5, <1>7
  <2> QED BY <2>1, <2>2
<1>9. Components(t) = z
  BY <1>5, <1>6, <1>7, <1>8, SeqEqual
<1> QED BY <1>9 DEF t, x, y, z

(* All that is after a slash is below it. *)
LEMMA ComponentsBelow ==
  ASSUME NEW t \in Texts(Int), NEW u \in Seq(Parts), Len(t) = Len(u),
         \A i \in 1..Len(u) : t[i] = Token(u[i]) /\ u[i].power < 0
  PROVE  Slash \o t \in Texts(Int) /\ Components(Slash \o t) = <<Nothing>> \o u
<1> DEFINE s == Slash \o t
           z == <<Nothing>> \o u
<1>1. Slash \in Texts(Int) /\ Len(Slash) = 1 /\ Slash[1].is = "slash"
  BY DEF Slash, Texts, Tokens
<1>2. Len(u) \in Nat /\ \A i \in 1..Len(u) : u[i] \in Parts
  BY LenProperties, ElementOfSeq
<1>3. /\ s \in Texts(Int) /\ Len(s) = 1 + Len(u)
      /\ \A i \in 1..(1 + Len(u)) : s[i] = IF i <= 1 THEN Slash[i] ELSE t[i - 1]
  <2>1. /\ s \in Texts(Int) /\ Len(s) = Len(Slash) + Len(t)
        /\ \A i \in 1..(Len(Slash) + Len(t)) : s[i] = IF i <= Len(Slash) THEN Slash[i] ELSE t[i - Len(Slash)]
    <3>1. Slash \in Seq(Tokens(Int)) /\ t \in Seq(Tokens(Int))
      BY <1>1 DEF Texts
    <3>2. /\ s \in Seq(Tokens(Int)) /\ Len(s) = Len(Slash) + Len(t)
          /\ \A i \in 1..(Len(Slash) + Len(t)) : s[i] = IF i <= Len(Slash) THEN Slash[i] ELSE t[i - Len(Slash)]
      BY <3>1, ConcatProperties
    <3> HIDE DEF s
    <3> QED BY <3>2 DEF Texts
  <2> HIDE DEF s
  <2> QED BY <1>1, <1>2, <2>1
<1>4. /\ z \in Seq(Parts) /\ Len(z) = 1 + Len(u)
      /\ \A i \in 1..(1 + Len(u)) : z[i] = IF i <= 1 THEN Nothing ELSE u[i - 1]
  <2>1. <<Nothing>> \in Seq(Parts) /\ Len(<<Nothing>>) = 1 /\ <<Nothing>>[1] = Nothing
    BY NothingIsPart
  <2> DEFINE o == <<Nothing>>
  <2>2. /\ z \in Seq(Parts) /\ Len(z) = Len(o) + Len(u)
        /\ \A i \in 1..(Len(o) + Len(u)) : z[i] = IF i <= Len(o) THEN o[i] ELSE u[i - Len(o)]
    BY <2>1, ConcatProperties
  <2> HIDE DEF z, o
  <2>3. Len(o) = 1 /\ o[1] = Nothing
    BY <2>1 DEF o
  <2> QED BY <1>2, <2>2, <2>3
<1> HIDE DEF s, z
<1>5. /\ Components(s) \in Seq(Parts) /\ Len(Components(s)) = 1 + Len(u)
      /\ \A i \in 1..(1 + Len(u)) : Components(s)[i] = Component(s, i)
  BY <1>3, ComponentsAre
<1>6. s[1].is = "slash"
  <2>1. 1 \in 1..(1 + Len(u)) /\ 1 <= 1
    BY <1>2
  <2>2. s[1] = Slash[1]
    BY <2>1, <1>3
  <2> QED BY <2>2, <1>1
<1>7. ASSUME NEW i \in 1..(1 + Len(u))
      PROVE  Component(s, i) = z[i]
  <2>1. CASE i = 1
    <3>1. z[i] = Nothing
      BY <2>1, <1>4
    <3>2. s[i].is # "name"
      BY <2>1, <1>6
    <3> QED BY <3>1, <3>2 DEF Component
  <2>2. CASE i # 1
    <3>1. i - 1 \in 1..Len(u) /\ ~(i <= 1) /\ 1 \in 1..i
      BY <2>2, <1>2
    <3>2. s[i] = Token(u[i - 1]) /\ z[i] = u[i - 1] /\ u[i - 1].power < 0
      <4>1. s[i] = t[i - 1] /\ z[i] = u[i - 1]
        BY <3>1, <1>3, <1>4
      <4>2. t[i - 1] = Token(u[i - 1]) /\ u[i - 1].power < 0
        BY <3>1
      <4> QED BY <4>1, <4>2
    <3>3. Below(s, i)
      BY <3>1, <1>6 DEF Below
    <3>4. u[i - 1] \in Parts /\ u[i - 1].power \in Int
      <4>1. u[i - 1] \in Parts
        BY <3>1, <1>2
      <4> QED BY <4>1 DEF Parts
    <3>5. s[i].is = "name" /\ s[i].name = u[i - 1].name /\ s[i].power = Magnitude(u[i - 1].power)
      BY <3>2 DEF Token
    <3>6. -Magnitude(u[i - 1].power) = u[i - 1].power
      BY <3>2, <3>4 DEF Magnitude
    <3>7. Component(s, i) = [name |-> u[i - 1].name, power |-> u[i - 1].power]
      BY <3>3, <3>5, <3>6 DEF Component
    <3>8. [name |-> u[i - 1].name, power |-> u[i - 1].power] = u[i - 1]
      BY <3>4 DEF Parts
    <3> QED BY <3>2, <3>7, <3>8
  <2> QED BY <2>1, <2>2
<1>8. Components(s) = z
  BY <1>4, <1>5, <1>7, SeqEqual
<1> QED BY <1>3, <1>8 DEF s, z

(* Without a slash, everything is above it. *)
LEMMA ComponentsAbove ==
  ASSUME NEW t \in Texts(Int), NEW u \in Seq(Parts), Len(t) = Len(u),
         \A i \in 1..Len(u) : t[i] = Token(u[i]) /\ u[i].power > 0
  PROVE  Components(t) = u
<1>1. Len(u) \in Nat /\ \A i \in 1..Len(u) : u[i] \in Parts
  BY LenProperties, ElementOfSeq
<1>2. /\ Components(t) \in Seq(Parts) /\ Len(Components(t)) = Len(u)
      /\ \A i \in 1..Len(u) : Components(t)[i] = Component(t, i)
  BY ComponentsAre
<1>3. ASSUME NEW i \in 1..Len(u)
      PROVE  Component(t, i) = u[i]
  <2>1. ~Below(t, i)
    <3> SUFFICES ASSUME NEW j \in 1..i
                 PROVE  t[j].is # "slash"
      BY DEF Below
    <3>1. j \in 1..Len(u)
      BY <1>1
    <3>2. t[j] = Token(u[j])
      BY <3>1
    <3> QED BY <3>2 DEF Token
  <2>2. u[i] \in Parts /\ u[i].power \in Int
    <3>1. u[i] \in Parts
      BY <1>1
    <3> QED BY <3>1 DEF Parts
  <2>3. t[i].is = "name" /\ t[i].name = u[i].name /\ t[i].power = Magnitude(u[i].power)
    <3>1. t[i] = Token(u[i])
      OBVIOUS
    <3> QED BY <3>1 DEF Token
  <2>4. Magnitude(u[i].power) = u[i].power
    <3>1. u[i].power > 0
      OBVIOUS
    <3> QED BY <2>2, <3>1 DEF Magnitude
  <2>5. Component(t, i) = [name |-> u[i].name, power |-> u[i].power]
    BY <2>1, <2>3, <2>4 DEF Component
  <2>6. [name |-> u[i].name, power |-> u[i].power] = u[i]
    BY <2>2 DEF Parts
  <2> QED BY <2>5, <2>6
<1> QED BY <1>2, <1>3, SeqEqual

LEMMA Joined ==
  ASSUME NEW a \in Texts(Int), NEW b \in Texts(Int), NEW c \in Texts(Int)
  PROVE  a \o b \o c = a \o (b \o c)
BY ConcatAssociative DEF Texts

LEMMA Counted == \A n \in Nat : IsFiniteSet(1..n) /\ Cardinality(1..n) = n
BY FS_Interval

(* unit_to_string: the powers in the string of a unit are those of the unit. *)
LEMMA StringPowers ==
  ASSUME NEW u, Made(u)
  PROVE  /\ Components(UnitString(u)) \in Seq(Parts)
         /\ \A n \in Int : Power(Components(UnitString(u)), n) = Power(u, n)
<1> DEFINE m == Len(u)
           above == {i \in DOMAIN u : \A j \in 1..i : u[j].power > 0}
           k == Cardinality(above)
           tokens == [i \in DOMAIN u |-> Token(u[i])]
           front == IF k = 0 THEN One ELSE SubSeq(tokens, 1, k)
           back == SubSeq(tokens, k + 1, m)
           high == IF k = 0 THEN <<Nothing>> ELSE SubSeq(u, 1, k)
           low == SubSeq(u, k + 1, m)
<1>1. u \in Seq(Parts) /\ m \in Nat /\ DOMAIN u = 1..m /\ \A i \in 1..m : u[i] \in Parts
  <2>1. u \in Seq(Parts)
    BY DEF Made
  <2> QED BY <2>1, LenProperties, ElementOfSeq
<1>2. \A i \in 1..m : u[i].name \in Int /\ u[i].power \in Int /\ u[i].power # 0
  <2> TAKE i \in 1..m
  <2>1. u[i] \in Parts
    BY <1>1
  <2> QED BY <2>1 DEF Made, Parts
<1>3. \A i, j \in 1..m : i < j => u[i].power >= u[j].power
  BY DEF Made
<1>4. k \in 0..m /\ above = 1..k
  <2>1. above \subseteq 1..m
    BY <1>1
  <2>2. \A i \in above : 1..i \subseteq above
    BY <1>1
  <2> HIDE DEF above
  <2>3. IsFiniteSet(above) /\ k <= m /\ k \in Nat
    <3>1. IsFiniteSet(1..m) /\ Cardinality(1..m) = m
      BY <1>1, Counted
    <3> QED BY <2>1, <3>1, FS_Subset, FS_CardinalityType
  <2>4. ASSUME NEW i \in above
        PROVE  i \in 1..k
    <3>1. i \in 1..m /\ i \in Nat /\ i >= 1
      BY <2>1
    <3>2. Cardinality(1..i) = i
      BY <3>1, Counted
    <3>3. Cardinality(1..i) <= k
      BY <2>2, <2>3, FS_Subset
    <3> QED BY <2>3, <3>1, <3>2, <3>3
  <2>5. above \subseteq 1..k /\ IsFiniteSet(1..k) /\ Cardinality(1..k) = k
    BY <2>3, <2>4, Counted
  <2>6. above = 1..k
    BY <2>5, FS_Subset
  <2> QED BY <2>3, <2>6, <1>1
<1>5. \A i \in 1..k : u[i].power > 0
  BY <1>1, <1>4
<1>6. \A i \in (k + 1)..m : u[i].power < 0
  <2> SUFFICES ASSUME NEW i \in (k + 1)..m
               PROVE  u[i].power < 0
    OBVIOUS
  <2>1. i \in 1..m /\ i \notin above
    <3> HIDE DEF above, k, m
    <3>1. k \in Nat /\ k <= m /\ m \in Nat
      BY <1>1, <1>4
    <3>2. i \in 1..m /\ i \notin 1..k
      BY <3>1
    <3> QED BY <3>2, <1>4
  <2>2. PICK j \in 1..i : ~(u[j].power > 0)
    BY <1>1, <2>1
  <2>3. j \in 1..m /\ (j = i \/ j < i)
    BY <2>1
  <2>4. j < i => u[j].power >= u[i].power
    BY <1>3, <2>1, <2>3
  <2> HIDE DEF above, k
  <2> QED BY <1>2, <2>1, <2>2, <2>3, <2>4
<1>7. tokens \in Texts(Int) /\ Len(tokens) = m /\ \A i \in 1..m : tokens[i] = Token(u[i])
  <2>1. \A i \in 1..m : Token(u[i]) \in Tokens(Int)
    BY <1>2 DEF Token, Tokens, Magnitude
  <2>2. tokens \in [1..m -> Tokens(Int)]
    BY <1>1, <2>1
  <2> QED BY <1>1, <2>2 DEF Texts
<1>8. UnitString(u) = IF k = m THEN tokens ELSE front \o Slash \o back
  BY DEF UnitString
<1> HIDE DEF above, k, tokens
<1> HIDE DEF m
<1>9. k \in Nat /\ m \in Nat /\ k <= m
  BY <1>1, <1>4
<1>10. CASE k = m
  <2>1. Components(tokens) = u
    BY <1>1, <1>5, <1>7, <1>10, ComponentsAbove
  <2> QED BY <1>1, <1>8, <1>10, <2>1
<1>11. CASE k # m
  <2>1. /\ back \in Texts(Int) /\ Len(back) = m - k
        /\ \A i \in 1..(m - k) : back[i] = tokens[k + i]
    <3>1. \A i \in (k + 1)..m : tokens[i] \in Tokens(Int)
      BY <1>4, <1>7, ElementOfSeq DEF Texts
    <3>2. k + 1 \in Int /\ m \in Int /\ k + 1 <= m /\ m - (k + 1) + 1 = m - k
      BY <1>11, <1>9
    <3>3. /\ back \in Seq(Tokens(Int)) /\ Len(back) = m - (k + 1) + 1
          /\ \A i \in 1..(m - (k + 1) + 1) : back[i] = tokens[k + 1 + i - 1]
      BY <3>1, <3>2, SubSeqProperties
    <3>4. \A i \in 1..(m - k) : k + 1 + i - 1 = k + i
      BY <1>1, <1>4
    <3> HIDE DEF back
    <3> QED BY <3>2, <3>3, <3>4 DEF Texts
  <2>2. /\ low \in Seq(Parts) /\ Len(low) = m - k
        /\ \A i \in 1..(m - k) : low[i] = u[k + i]
    <3>1. \A i \in (k + 1)..m : u[i] \in Parts
      BY <1>1, <1>4
    <3>2. k + 1 \in Int /\ m \in Int /\ k + 1 <= m /\ m - (k + 1) + 1 = m - k
      BY <1>11, <1>9
    <3>3. /\ low \in Seq(Parts) /\ Len(low) = m - (k + 1) + 1
          /\ \A i \in 1..(m - (k + 1) + 1) : low[i] = u[k + 1 + i - 1]
      BY <3>1, <3>2, SubSeqProperties
    <3>4. \A i \in 1..(m - k) : k + 1 + i - 1 = k + i
      BY <1>1, <1>4
    <3> HIDE DEF low
    <3> QED BY <3>2, <3>3, <3>4
  <2> HIDE DEF back, low
  <2>3. Slash \o back \in Texts(Int) /\ Components(Slash \o back) = <<Nothing>> \o low
    <3>1. ASSUME NEW i \in 1..Len(low)
          PROVE  back[i] = Token(low[i]) /\ low[i].power < 0
      <4>1. i \in 1..(m - k) /\ k + i \in 1..m /\ k + i \in (k + 1)..m
        BY <1>1, <1>4, <2>2
      <4>2. back[i] = tokens[k + i] /\ low[i] = u[k + i]
        BY <4>1, <2>1, <2>2
      <4> QED BY <4>1, <4>2, <1>6, <1>7
    <3> QED BY <2>1, <2>2, <3>1, ComponentsBelow
  <2>4. front \in Texts(Int) /\ Components(front) = high /\ high \in Seq(Parts) /\ \A i \in 1..Len(front) : front[i].is # "slash"
    <3>1. CASE k = 0
      <4>1. One \in Texts(Int) /\ Len(One) = 1 /\ One[1].is = "one"
        BY DEF One, Texts, Tokens
      <4>2. /\ Components(One) \in Seq(Parts) /\ Len(Components(One)) = 1
            /\ Components(One)[1] = Component(One, 1)
        BY <4>1, ComponentsAre
      <4>3. Component(One, 1) = Nothing
        BY <4>1 DEF Component
      <4>4. <<Nothing>> \in Seq(Parts) /\ Len(<<Nothing>>) = 1 /\ <<Nothing>>[1] = Nothing
        BY NothingIsPart
      <4>5. Components(One) = <<Nothing>>
        <5> DEFINE o == <<Nothing>>
        <5>1. o \in Seq(Parts) /\ Len(o) = 1 /\ o[1] = Nothing
          BY <4>4
        <5> HIDE DEF o
        <5>2. Components(One) = o
          BY <4>2, <4>3, <5>1, SeqEqual
        <5> QED BY <5>2 DEF o
      <4>6. \A i \in 1..Len(One) : One[i].is # "slash"
        BY <4>1
      <4> QED BY <3>1, <4>1, <4>4, <4>5, <4>6
    <3>2. CASE k # 0
      <4> DEFINE f == SubSeq(tokens, 1, k)
                 h == SubSeq(u, 1, k)
      <4>1. k \in Int /\ 1 \in Int /\ 1 <= k /\ k - 1 + 1 = k /\ k <= m
        BY <1>4, <3>2
      <4>2. f \in Texts(Int) /\ Len(f) = k /\ \A i \in 1..k : f[i] = tokens[i]
        <5>1. \A i \in 1..k : tokens[i] \in Tokens(Int)
          BY <4>1, <1>1, <1>7, ElementOfSeq DEF Texts
        <5>2. /\ f \in Seq(Tokens(Int)) /\ Len(f) = k - 1 + 1
              /\ \A i \in 1..(k - 1 + 1) : f[i] = tokens[1 + i - 1]
          BY <4>1, <5>1, SubSeqProperties
        <5>3. \A i \in 1..k : 1 + i - 1 = i
          OBVIOUS
        <5> HIDE DEF f
        <5> QED BY <4>1, <5>2, <5>3 DEF Texts
      <4>3. h \in Seq(Parts) /\ Len(h) = k /\ \A i \in 1..k : h[i] = u[i]
        <5>1. \A i \in 1..k : u[i] \in Parts
          BY <4>1, <1>1
        <5>2. /\ h \in Seq(Parts) /\ Len(h) = k - 1 + 1
              /\ \A i \in 1..(k - 1 + 1) : h[i] = u[1 + i - 1]
          BY <4>1, <5>1, SubSeqProperties
        <5>3. \A i \in 1..k : 1 + i - 1 = i
          OBVIOUS
        <5> HIDE DEF h
        <5> QED BY <4>1, <5>2, <5>3
      <4> HIDE DEF f, h
      <4>4. \A i \in 1..k : f[i] = Token(h[i]) /\ h[i].power > 0
        <5> TAKE i \in 1..k
        <5>1. i \in 1..m
          BY <4>1, <1>1
        <5> QED BY <5>1, <4>2, <4>3, <1>5, <1>7
      <4>5. Components(f) = h
        BY <4>2, <4>3, <4>4, ComponentsAbove
      <4>6. \A i \in 1..k : f[i].is # "slash"
        <5> TAKE i \in 1..k
        <5>1. f[i] = Token(h[i])
          BY <4>4
        <5> QED BY <5>1 DEF Token
      <4> QED BY <3>2, <4>2, <4>3, <4>5, <4>6 DEF f, h
    <3> QED BY <3>1, <3>2
  <2>5. ASSUME NEW n \in Int
        PROVE  Power(u, n) = Power(high, n) + Power(low, n)
    <3>1. CASE k = 0
      <4>1. low = u
        <5>1. \A i \in 1..m : low[i] = u[i]
          <6> TAKE i \in 1..m
          <6>1. i \in 1..(m - k) /\ k + i = i
            BY <3>1, <1>1
          <6> QED BY <6>1, <2>2
        <5>2. Len(low) = m
          BY <3>1, <1>1, <2>2
        <5> QED BY <5>1, <5>2, <1>1, <2>2, SeqEqual
      <4>2. Power(high, n) = 0
        BY <3>1, NothingIsPart
      <4>3. Power(u, n) \in Int
        BY <1>1, PowerTotal
      <4> QED BY <4>1, <4>2, <4>3
    <3>2. CASE k # 0
      <4>1. 1 \in 1..(Len(u) + 1) /\ k \in (1 - 1)..Len(u) /\ m \in k..Len(u)
        BY <1>1, <1>4
      <4>2. SubSeq(u, 1, k) \o SubSeq(u, k + 1, m) = SubSeq(u, 1, m)
        BY <4>1, <1>1, ConcatAdjacentSubSeq
      <4>3. SubSeq(u, 1, m) = u
        BY <1>1, SubSeqFull
      <4>4. high \o low = u
        BY <3>2, <4>2, <4>3 DEF low
      <4> HIDE DEF high
      <4> QED BY <4>4, <2>2, <2>4, PowerConcat
    <3> QED BY <3>1, <3>2
  <2> HIDE DEF front, high
  <2>6. Slash \in Texts(Int)
    BY DEF Slash, Texts, Tokens
  <2>7. front \o Slash \o back = front \o (Slash \o back)
    <3> DEFINE slash == Slash
    <3>1. slash \in Texts(Int)
      BY <2>6
    <3> HIDE DEF slash
    <3>2. front \o slash \o back = front \o (slash \o back)
      BY <2>1, <2>4, <3>1, Joined
    <3> QED BY <3>2 DEF slash
  <2>8. Components(UnitString(u)) = high \o (<<Nothing>> \o low)
    <3> DEFINE s == Slash \o back
    <3>1. s \in Texts(Int) /\ Components(s) = <<Nothing>> \o low
      BY <2>3
    <3> HIDE DEF s
    <3>2. Components(front \o s) = Components(front) \o Components(s)
      BY <3>1, <2>4, ComponentsConcat
    <3>3. UnitString(u) = front \o s
      BY <1>8, <1>11, <2>7 DEF s
    <3> QED BY <3>1, <3>2, <3>3, <2>4
  <2> DEFINE z == <<Nothing>> \o low
  <2>9. z \in Seq(Parts) /\ \A n \in Int : Power(z, n) = Power(low, n)
    <3> DEFINE o == <<Nothing>>
    <3>1. o \in Seq(Parts) /\ \A n : Power(o, n) = 0
      BY NothingIsPart
    <3> HIDE DEF o
    <3>2. o \o low \in Seq(Parts)
      BY <2>2, <3>1, ConcatProperties
    <3>3. \A n : Power(o \o low, n) = Power(o, n) + Power(low, n)
      BY <2>2, <3>1, PowerConcat
    <3>4. \A n : Power(low, n) \in Int
      BY <2>2, PowerTotal
    <3>5. \A n : Power(o \o low, n) = Power(low, n)
      <4> TAKE n
      <4>1. Power(o \o low, n) = Power(o, n) + Power(low, n) /\ Power(o, n) = 0 /\ Power(low, n) \in Int
        BY <3>1, <3>3, <3>4
      <4> QED BY <4>1
    <3> QED BY <3>2, <3>5 DEF o
  <2> HIDE DEF z
  <2>10. high \o z \in Seq(Parts)
    BY <2>4, <2>9, ConcatProperties
  <2>11. \A n \in Int : Power(high \o z, n) = Power(high, n) + Power(z, n)
    BY <2>4, <2>9, PowerConcat
  <2>12. \A n \in Int : Power(high \o z, n) = Power(u, n)
    BY <2>5, <2>9, <2>11
  <2> QED BY <2>8, <2>10, <2>12 DEF z
<1> QED BY <1>10, <1>11

(* A string is read as what was written. *)
LEMMA ReadsAsWritten ==
  ASSUME NEW u, Made(u), MakeUnit(u) = u
  PROVE  ReadUnit(UnitString(u)) = u
<1>1. u \in Seq(Parts)
  BY DEF Made
<1>2. MakeUnit(Components(UnitString(u))) = MakeUnit(u)
  BY <1>1, StringPowers, MakeUnitByPowers
<1> QED BY <1>2 DEF ReadUnit

-----------------------------------------------------------------------------
(* The units there are: what make_unit has made. *)
AllUnits == {u \in Seq(Parts) : Made(u) /\ MakeUnit(u) = u}

LEMMA UnitsAreMade ==
  ASSUME NEW c \in Seq(Parts)
  PROVE  MakeUnit(c) \in AllUnits /\ \A n \in Int : Power(MakeUnit(c), n) = Power(c, n)
<1>1. MakeUnit(c) \in Seq(Parts)
  BY MakeUnitMakes DEF Made
<1> QED BY <1>1, MakeUnitMakes, MakeUnitTwice DEF AllUnits

LEMMA SameUnit ==
  ASSUME NEW x \in AllUnits, NEW y \in AllUnits, \A n \in Int : Power(x, n) = Power(y, n)
  PROVE  x = y
<1>1. x \in Seq(Parts) /\ y \in Seq(Parts) /\ MakeUnit(x) = x /\ MakeUnit(y) = y
  BY DEF AllUnits
<1> QED BY <1>1, MakeUnitByPowers

(* A string names only names that are in it. *)
LEMMA ReadsAUnit ==
  ASSUME NEW names \in SUBSET Int, NEW text \in Texts(names)
  PROVE  /\ text \in Texts(Int)
         /\ ReadUnit(text) \in AllUnits
         /\ \A n \in Int \ names : Power(ReadUnit(text), n) = 0
<1>1. text \in Texts(Int)
  <2>1. Tokens(names) \subseteq Tokens(Int)
    BY DEF Tokens
  <2> QED BY <2>1, SeqMonotonic DEF Texts
<1>2. /\ Components(text) \in Seq(Parts) /\ Len(Components(text)) = Len(text)
      /\ \A i \in 1..Len(text) : Components(text)[i] = Component(text, i)
  BY <1>1, ComponentsAre
<1>3. ReadUnit(text) \in AllUnits /\ \A n \in Int : Power(ReadUnit(text), n) = Power(Components(text), n)
  BY <1>2, UnitsAreMade DEF ReadUnit
<1>4. ASSUME NEW n \in Int \ names
      PROVE  Power(Components(text), n) = 0
  <2>1. ASSUME NEW i \in 1..Len(text), Component(text, i).name = n
        PROVE  Component(text, i).power = 0
    <3>1. text[i] \in Tokens(names)
      BY ElementOfSeq DEF Texts
    <3>2. CASE text[i].is = "name"
      <4>1. text[i].name \in names
        BY <3>1, <3>2 DEF Tokens
      <4>2. Component(text, i).name = text[i].name
        BY <3>2 DEF Component
      <4> QED BY <2>1, <4>1, <4>2
    <3>3. CASE text[i].is # "name"
      BY <3>3 DEF Component, Nothing
    <3> QED BY <3>2, <3>3
  <2>2. \A i \in 1..Len(Components(text)) : Components(text)[i].name = n => Components(text)[i].power = 0
    BY <1>2, <2>1
  <2> QED BY <1>2, <2>2, PowerAbsent
<1> QED BY <1>1, <1>3, <1>4

LEMMA ReadsBackUnit ==
  ASSUME NEW u \in AllUnits
  PROVE  ReadUnit(UnitString(u)) = u
BY ReadsAsWritten DEF AllUnits

(* Products add the powers, and quotients subtract them. *)
LEMMA TimesAdds ==
  ASSUME NEW x \in AllUnits, NEW y \in AllUnits
  PROVE  Times(x, y) \in AllUnits /\ \A n \in Int : Power(Times(x, y), n) = Power(x, n) + Power(y, n)
<1>1. x \in Seq(Parts) /\ y \in Seq(Parts)
  BY DEF AllUnits
<1> DEFINE c == x \o y
<1>2. c \in Seq(Parts)
  BY <1>1, ConcatProperties
<1>3. \A n \in Int : Power(c, n) = Power(x, n) + Power(y, n)
  BY <1>1, PowerConcat
<1>4. Times(x, y) = MakeUnit(c)
  BY DEF Times
<1> HIDE DEF c
<1> QED BY <1>2, <1>3, <1>4, UnitsAreMade

LEMMA OverSubtracts ==
  ASSUME NEW x \in AllUnits, NEW y \in AllUnits
  PROVE  Over(x, y) \in AllUnits /\ \A n \in Int : Power(Over(x, y), n) = Power(x, n) - Power(y, n)
<1>1. x \in Seq(Parts) /\ y \in Seq(Parts)
  BY DEF AllUnits
<1> DEFINE z == Inverted(y)
           c == x \o z
<1>2. z \in Seq(Parts) /\ \A n \in Int : Power(z, n) = -Power(y, n)
  BY <1>1, InvertedParts, PowerInverted
<1> HIDE DEF z
<1>3. c \in Seq(Parts)
  BY <1>1, <1>2, ConcatProperties
<1>4. \A n \in Int : Power(c, n) = Power(x, n) + Power(z, n)
  BY <1>1, <1>2, PowerConcat
<1>5. Over(x, y) = MakeUnit(c)
  BY DEF Over, z
<1> HIDE DEF c
<1>6. Over(x, y) \in AllUnits /\ \A n \in Int : Power(Over(x, y), n) = Power(c, n)
  BY <1>3, <1>5, UnitsAreMade
<1>7. ASSUME NEW n \in Int
      PROVE  Power(Over(x, y), n) = Power(x, n) - Power(y, n)
  <2>1. Power(x, n) \in Int /\ Power(y, n) \in Int
    BY <1>1, PowerTotal
  <2> QED BY <2>1, <1>2, <1>4, <1>6
<1> QED BY <1>6, <1>7

(* Strings of units are canonical. *)
LEMMA StringsAreCanonical ==
  ASSUME NEW names \in SUBSET Int, NEW a \in Texts(names), NEW b \in Texts(names)
  PROVE  Canonical(a, b, names)
<1> DEFINE x == ReadUnit(a)
           y == ReadUnit(b)
<1>1. /\ x \in AllUnits /\ \A n \in Int \ names : Power(x, n) = 0
      /\ y \in AllUnits /\ \A n \in Int \ names : Power(y, n) = 0
  BY ReadsAUnit
<1>2. PowersOf(a, names) = [n \in names |-> Power(x, n)] /\ PowersOf(b, names) = [n \in names |-> Power(y, n)]
  BY DEF PowersOf
<1> HIDE DEF x, y
<1>3. ReadUnit(UnitString(x)) = x /\ ReadUnit(UnitString(y)) = y
  BY <1>1, ReadsBackUnit
<1>4. (UnitString(x) = UnitString(y)) <=> x = y
  BY <1>3
<1>5. x = y => PowersOf(a, names) = PowersOf(b, names)
  BY <1>2
<1>6. ASSUME PowersOf(a, names) = PowersOf(b, names)
      PROVE  x = y
  <2>1. ASSUME NEW n \in names
        PROVE  Power(x, n) = Power(y, n)
    <3>1. PowersOf(a, names)[n] = Power(x, n) /\ PowersOf(b, names)[n] = Power(y, n)
      BY <1>2
    <3> QED BY <1>6, <3>1
  <2>2. \A n \in Int : Power(x, n) = Power(y, n)
    BY <1>1, <2>1
  <2> QED BY <1>1, <2>2, SameUnit
<1>7. (UnitString(x) = UnitString(y)) = (PowersOf(a, names) = PowersOf(b, names))
  BY <1>4, <1>5, <1>6
<1>8. \A n \in names : /\ Power(Times(x, y), n) = Power(x, n) + Power(y, n)
                       /\ Power(Over(x, y), n) = Power(x, n) - Power(y, n)
  BY <1>1, TimesAdds, OverSubtracts
<1> QED BY <1>3, <1>7, <1>8 DEF Canonical, x, y

-----------------------------------------------------------------------------
(* How often a unit is in another. *)
LEMMA QuotientType ==
  ASSUME NEW m \in Int, NEW n \in Int, n # 0
  PROVE  Quotient(m, n) \in Int
<1>1. Magnitude(m) \in Nat /\ Magnitude(n) \in Nat /\ Magnitude(n) > 0
  BY DEF Magnitude
<1>2. Magnitude(m) \div Magnitude(n) \in Int
  BY <1>1
<1> QED BY <1>2 DEF Quotient

Part(u, c) == Quotient(Power(u, c.name), c.power)
Smaller(u, least, c) ==
  IF least = 0 \/ Part(u, c) = 0 THEN 0
  ELSE IF Magnitude(Part(u, c)) < Magnitude(least) THEN Part(u, c)
  ELSE least

LEMMA ContainedIs ==
  ASSUME NEW u \in AllUnits, NEW derived \in AllUnits
  PROVE  /\ Contained(u, derived) \in Int
         /\ Len(derived) = 1 => Contained(u, derived) = Smaller(u, Limit, derived[1])
<1> DEFINE k == Len(derived)
           Rule(l) == l = [d \in 0..k |-> IF d = 0 THEN Limit ELSE Smaller(u, l[d - 1], derived[d])]
           least == CHOOSE l : Rule(l)
<1>1. k \in Nat /\ u \in Seq(Parts) /\ derived \in Seq(Parts) /\ Limit \in Int
  BY DEF AllUnits, Limit
<1>2. \A d \in 1..k : Part(u, derived[d]) \in Int
  <2> TAKE d \in 1..k
  <2>1. derived[d] \in Parts /\ derived[d].power # 0
    BY <1>1, ElementOfSeq DEF AllUnits, Made
  <2>2. derived[d].power \in Int /\ Power(u, derived[d].name) \in Int
    BY <1>1, <2>1, PowerTotal DEF Parts
  <2> QED BY <2>1, <2>2, QuotientType DEF Part
<1>3. \A d \in 1..k, l \in Int : Smaller(u, l, derived[d]) \in Int
  BY <1>2 DEF Smaller
<1>4. Contained(u, derived) = least[k]
  BY DEF Contained, Smaller, Part
<1>5. \E l : Rule(l)
  <2> DEFINE G == [d \in 1..k |-> [l \in Int |-> Smaller(u, l, derived[d])]]
  <2>1. G \in [1..k -> [Int -> Int]]
    BY <1>3
  <2>2. \E l : Follows(l, k, Int, Limit, G)
    <3> HIDE DEF G, k
    <3> QED BY <1>1, <2>1, Recursion
  <2>3. PICK l \in [0..k -> Int] : l[0] = Limit /\ \A d \in 1..k : l[d] = G[d][l[d - 1]]
    <3> HIDE DEF G, k
    <3> QED BY <2>2 DEF Follows
  <2>4. \A d \in 1..k : l[d] = Smaller(u, l[d - 1], derived[d])
    <3> TAKE d \in 1..k
    <3>1. l[d - 1] \in Int
      BY <1>1
    <3> QED BY <2>3, <3>1
  <2>5. Rule(l)
    <3>1. \A d \in 0..k : l[d] = IF d = 0 THEN Limit ELSE Smaller(u, l[d - 1], derived[d])
      BY <2>3, <2>4
    <3> QED BY <3>1
  <2> QED BY <2>5
<1>6. Rule(least)
  <2> HIDE DEF Rule
  <2> QED BY <1>5
<1> HIDE DEF least
<1>7. least[0] = Limit /\ \A d \in 1..k : least[d] = Smaller(u, least[d - 1], derived[d])
  BY <1>1, <1>6
<1>8. least[k] \in Int
  <2> DEFINE T == {d \in 0..k : least[d] \in Int}
  <2>1. 0 \in T
    BY <1>1, <1>7
  <2>2. ASSUME NEW m \in 0..(k - 1), m \in T
        PROVE  m + 1 \in T
    <3>1. m + 1 \in 1..k /\ m + 1 - 1 = m
      BY <1>1
    <3>2. least[m + 1] = Smaller(u, least[m], derived[m + 1]) /\ least[m] \in Int
      BY <1>7, <2>2, <3>1
    <3>3. Smaller(u, least[m], derived[m + 1]) \in Int
      BY <1>3, <3>1, <3>2
    <3>4. m + 1 \in 0..k
      BY <3>1
    <3> QED BY <3>2, <3>3, <3>4
  <2>3. k \in 0..k
    BY <1>1
  <2>4. k \in T
    <3> HIDE DEF T
    <3> QED BY <1>1, <2>1, <2>2, <2>3, Induction
  <2> QED BY <2>4
<1>9. k = 1 => least[k] = Smaller(u, Limit, derived[1])
  BY <1>7
<1> QED BY <1>4, <1>8, <1>9

-----------------------------------------------------------------------------
(* One round of unit_derive. *)
LEMMA OnceMore == \A k, p, q \in Int : q + (k - 1) * p + p = q + k * p
OBVIOUS

LEMMA TurnedAround == \A e, x, y \in Int : (-e) * (y - x) = e * (x - y)
OBVIOUS

LEMMA RepeatedIs ==
  ASSUME NEW u \in AllUnits, NEW f \in AllUnits, NEW k \in Nat
  PROVE  /\ Repeated(u, f, k) \in AllUnits
         /\ \A n \in Int : Power(Repeated(u, f, k), n) = Power(u, n) + k * Power(f, n)
<1> DEFINE Rule(t) == t = [i \in 0..k |-> IF i = 0 THEN u ELSE Times(t[i - 1], f)]
           times == CHOOSE t : Rule(t)
<1>1. Repeated(u, f, k) = times[k]
  BY DEF Repeated
<1>2. \A x \in AllUnits : Times(x, f) \in AllUnits
  BY TimesAdds
<1>3. \E t : Rule(t)
  <2> DEFINE G == [i \in 1..k |-> [x \in AllUnits |-> Times(x, f)]]
  <2>1. G \in [1..k -> [AllUnits -> AllUnits]]
    BY <1>2
  <2>2. \E t : Follows(t, k, AllUnits, u, G)
    <3> HIDE DEF G
    <3> QED BY <2>1, Recursion
  <2>3. PICK t \in [0..k -> AllUnits] : t[0] = u /\ \A i \in 1..k : t[i] = G[i][t[i - 1]]
    <3> HIDE DEF G
    <3> QED BY <2>2 DEF Follows
  <2>4. \A i \in 1..k : t[i] = Times(t[i - 1], f)
    <3> TAKE i \in 1..k
    <3>1. t[i - 1] \in AllUnits
      OBVIOUS
    <3> QED BY <2>3, <3>1
  <2>5. Rule(t)
    <3>1. \A i \in 0..k : t[i] = IF i = 0 THEN u ELSE Times(t[i - 1], f)
      BY <2>3, <2>4
    <3> QED BY <3>1
  <2> QED BY <2>5
<1>4. Rule(times)
  <2> HIDE DEF Rule
  <2> QED BY <1>3
<1> HIDE DEF times
<1>5. times[0] = u /\ \A i \in 1..k : times[i] = Times(times[i - 1], f)
  BY <1>4
<1> DEFINE T == {i \in 0..k : /\ times[i] \in AllUnits
                              /\ \A n \in Int : Power(times[i], n) = Power(u, n) + i * Power(f, n)}
<1>6. \A x \in AllUnits : \A n \in Int : Power(x, n) \in Int
  BY PowerTotal DEF AllUnits
<1>7. 0 \in T
  <2>1. \A n \in Int : Power(u, n) = Power(u, n) + 0 * Power(f, n)
    BY <1>6
  <2> QED BY <1>5, <2>1
<1>8. ASSUME NEW m \in 0..(k - 1), m \in T
      PROVE  m + 1 \in T
  <2>1. m + 1 \in 1..k /\ m + 1 - 1 = m /\ m + 1 \in 0..k
    OBVIOUS
  <2>2. times[m + 1] = Times(times[m], f) /\ times[m] \in AllUnits
    BY <1>5, <1>8, <2>1
  <2>3. times[m + 1] \in AllUnits
    BY <1>2, <2>2
  <2>4. ASSUME NEW n \in Int
        PROVE  Power(times[m + 1], n) = Power(u, n) + (m + 1) * Power(f, n)
    <3>1. Power(times[m + 1], n) = Power(times[m], n) + Power(f, n)
      BY <2>2, TimesAdds
    <3>2. Power(times[m], n) = Power(u, n) + m * Power(f, n)
      BY <1>8
    <3>3. Power(u, n) \in Int /\ Power(f, n) \in Int
      BY <1>6
    <3> QED BY <3>1, <3>2, <3>3
  <2> QED BY <2>1, <2>3, <2>4
<1>9. k \in 0..k
  OBVIOUS
<1>10. k \in T
  <2> HIDE DEF T
  <2> QED BY <1>7, <1>8, <1>9, Induction
<1> QED BY <1>1, <1>10

Conversion == [derived : Texts(Int), base : Texts(Int)]
State == [unit : AllUnits, ratios : Seq(Int)]

LEMMA ConvertIs ==
  ASSUME NEW was \in State, NEW conversion \in Conversion, NEW e,
         e = Contained(was.unit, ReadUnit(conversion.derived))
  PROVE  /\ Convert(was, conversion) \in State /\ e \in Int
         /\ Convert(was, conversion).ratios = Append(was.ratios, e)
         /\ \A n \in Int : /\ Gain(conversion, n) \in Int
                           /\ Power(Convert(was, conversion).unit, n) = Power(was.unit, n) + e * Gain(conversion, n)
<1> DEFINE u == was.unit
           derived == ReadUnit(conversion.derived)
           base == ReadUnit(conversion.base)
           f == Factor(e, base, derived)
<1>1. u \in AllUnits /\ was.ratios \in Seq(Int)
  BY DEF State
<1>2. derived \in AllUnits /\ base \in AllUnits
  <2>1. conversion.derived \in Texts(Int) /\ conversion.base \in Texts(Int)
    BY DEF Conversion
  <2> QED BY <2>1, ReadsAUnit
<1>3. \A n \in Int : Gain(conversion, n) = Power(base, n) - Power(derived, n)
  BY DEF Gain
<1>4. Convert(was, conversion) =
        [unit |-> Repeated(u, f, Magnitude(e)), ratios |-> Append(was.ratios, e)]
  BY DEF Convert
<1> HIDE DEF u, derived, base
<1>5. e \in Int
  BY <1>1, <1>2, ContainedIs DEF u, derived
<1>6. \A x \in AllUnits : \A n \in Int : Power(x, n) \in Int
  BY PowerTotal DEF AllUnits
<1>7. /\ Over(base, derived) \in AllUnits
      /\ \A n \in Int : Power(Over(base, derived), n) = Power(base, n) - Power(derived, n)
      /\ Over(derived, base) \in AllUnits
      /\ \A n \in Int : Power(Over(derived, base), n) = Power(derived, n) - Power(base, n)
  BY <1>2, OverSubtracts
<1>8. f \in AllUnits
  BY <1>7 DEF Factor
<1>9. \A n \in Int : Magnitude(e) * Power(f, n) = e * Gain(conversion, n)
  <2> TAKE n \in Int
  <2>1. Power(base, n) \in Int /\ Power(derived, n) \in Int
    BY <1>2, <1>6
  <2>2. CASE e > 0
    <3>1. Magnitude(e) = e /\ Power(f, n) = Power(base, n) - Power(derived, n)
      BY <1>5, <1>7, <2>2 DEF Magnitude, Factor
    <3> QED BY <3>1, <1>3
  <2>3. CASE ~(e > 0)
    <3>1. Magnitude(e) = -e
      BY <1>5, <2>3 DEF Magnitude
    <3>2. Power(f, n) = Power(derived, n) - Power(base, n)
      BY <1>7, <2>3 DEF Factor
    <3>3. (-e) * (Power(derived, n) - Power(base, n)) = e * (Power(base, n) - Power(derived, n))
      BY <1>5, <2>1, TurnedAround
    <3> QED BY <3>1, <3>2, <3>3, <1>3
  <2> QED BY <2>2, <2>3
<1> HIDE DEF f
<1>10. Magnitude(e) \in Nat
  BY <1>5 DEF Magnitude
<1>11. /\ Repeated(u, f, Magnitude(e)) \in AllUnits
       /\ \A n \in Int : Power(Repeated(u, f, Magnitude(e)), n) = Power(u, n) + Magnitude(e) * Power(f, n)
  BY <1>1, <1>8, <1>10, RepeatedIs
<1>12. Append(was.ratios, e) \in Seq(Int)
  BY <1>1, <1>5, AppendProperties
<1>13. Convert(was, conversion) \in State
  BY <1>4, <1>11, <1>12 DEF State
<1>14. /\ Convert(was, conversion).unit = Repeated(u, f, Magnitude(e))
       /\ Convert(was, conversion).ratios = Append(was.ratios, e)
  BY <1>4
<1>15. ASSUME NEW n \in Int
       PROVE  /\ Gain(conversion, n) \in Int
              /\ Power(Convert(was, conversion).unit, n) = Power(was.unit, n) + e * Gain(conversion, n)
  <2>1. Power(base, n) \in Int /\ Power(derived, n) \in Int
    BY <1>2, <1>6
  <2>2. Gain(conversion, n) \in Int
    BY <1>3, <2>1
  <2>3. Power(Repeated(u, f, Magnitude(e)), n) = Power(u, n) + e * Gain(conversion, n)
    BY <1>9, <1>11
  <2> QED BY <1>14, <2>2, <2>3 DEF u
<1> QED BY <1>5, <1>13, <1>14, <1>15

-----------------------------------------------------------------------------
(* The rounds of unit_derive, one for each conversion. *)
Start(text) == [unit |-> ReadUnit(text), ratios |-> <<>>]

LEMMA RoundsAre ==
  ASSUME NEW text \in Texts(Int), NEW conversions \in Seq(Conversion)
  PROVE  Follows(Rounds(text, conversions), Len(conversions), State, Start(text),
                 [i \in 1..Len(conversions) |-> [was \in State |-> Convert(was, conversions[i])]])
<1> DEFINE k == Len(conversions)
           G == [i \in 1..k |-> [was \in State |-> Convert(was, conversions[i])]]
           v == Start(text)
           Rule(r) == r = [i \in 0..k |-> IF i = 0 THEN v ELSE Convert(r[i - 1], conversions[i])]
           round == CHOOSE r : Rule(r)
<1>1. k \in Nat /\ \A i \in 1..k : conversions[i] \in Conversion
  BY LenProperties, ElementOfSeq
<1>2. v \in State
  <2>1. ReadUnit(text) \in AllUnits
    BY ReadsAUnit
  <2>2. <<>> \in Seq(Int)
    BY EmptySeq
  <2> QED BY <2>1, <2>2 DEF State, Start
<1>3. \A i \in 1..k, was \in State : Convert(was, conversions[i]) \in State
  BY <1>1, ConvertIs
<1>4. G \in [1..k -> [State -> State]]
  BY <1>3
<1>5. Rounds(text, conversions) = round
  BY DEF Rounds, Start
<1>6. \E r : Rule(r)
  <2>1. \E r : Follows(r, k, State, v, G)
    <3> HIDE DEF G, v, k
    <3> QED BY <1>1, <1>2, <1>4, Recursion
  <2>2. PICK r : Follows(r, k, State, v, G)
    BY <2>1
  <2>3. r \in [0..k -> State] /\ r[0] = v /\ \A i \in 1..k : r[i] = G[i][r[i - 1]]
    <3> HIDE DEF G, v, k
    <3> QED BY <2>2 DEF Follows
  <2>4. ASSUME NEW i \in 1..k
        PROVE  r[i] = Convert(r[i - 1], conversions[i])
    <3>1. i - 1 \in 0..k
      BY <1>1
    <3>2. r[i - 1] \in State
      BY <2>3, <3>1
    <3> QED BY <2>3, <3>2
  <2>5. \A i \in 0..k : r[i] = IF i = 0 THEN v ELSE Convert(r[i - 1], conversions[i])
    <3> HIDE DEF v
    <3> QED BY <1>1, <2>3, <2>4
  <2>6. Rule(r)
    <3> HIDE DEF v
    <3> QED BY <2>3, <2>5
  <2> HIDE DEF Rule
  <2> QED BY <2>6
<1>7. Rule(round)
  <2> HIDE DEF Rule
  <2> QED BY <1>6
<1> HIDE DEF round, v
<1>8. round[0] = v /\ \A i \in 1..k : round[i] = Convert(round[i - 1], conversions[i])
  BY <1>1, <1>7
<1> DEFINE T == {i \in 0..k : round[i] \in State}
<1>9. \A i \in 0..k : i \in T
  <2>1. 0 \in T
    BY <1>1, <1>2, <1>8
  <2>2. ASSUME NEW m \in 0..(k - 1), m \in T
        PROVE  m + 1 \in T
    <3>1. m + 1 \in 1..k /\ m + 1 - 1 = m /\ m + 1 \in 0..k
      BY <1>1
    <3>2. round[m + 1] = Convert(round[m], conversions[m + 1]) /\ round[m] \in State
      BY <1>8, <2>2, <3>1
    <3>3. round[m + 1] \in State
      BY <1>3, <3>1, <3>2
    <3> QED BY <3>1, <3>3
  <2> HIDE DEF T
  <2> QED BY <1>1, <2>1, <2>2, Induction
<1>10. round \in [0..k -> State]
  BY <1>7, <1>9
<1>11. \A i \in 1..k : round[i] = G[i][round[i - 1]]
  <2> TAKE i \in 1..k
  <2>1. i - 1 \in 0..k
    BY <1>1
  <2>2. round[i - 1] \in State
    BY <1>10, <2>1
  <2> QED BY <1>8, <2>2
<1>12. Follows(round, k, State, v, G)
  <2> HIDE DEF G, k
  <2> QED BY <1>8, <1>10, <1>11 DEF Follows
<1> QED BY <1>5, <1>12 DEF v

(* What is known after each round. *)
LEMMA EveryRound ==
  ASSUME NEW text \in Texts(Int), NEW conversions \in Seq(Conversion), NEW r, r = Rounds(text, conversions)
  PROVE  /\ r \in [0..Len(conversions) -> State] /\ r[0] = Start(text)
         /\ \A i \in 1..Len(conversions) : r[i] = Convert(r[i - 1], conversions[i])
         /\ Len(r[Len(conversions)].ratios) = Len(conversions)
         /\ \A j \in 1..Len(conversions) :
              r[Len(conversions)].ratios[j] = Contained(r[j - 1].unit, ReadUnit(conversions[j].derived))
<1> DEFINE k == Len(conversions)
           G == [i \in 1..k |-> [was \in State |-> Convert(was, conversions[i])]]
           v == Start(text)
<1>1. k \in Nat /\ \A i \in 1..k : conversions[i] \in Conversion
  BY LenProperties, ElementOfSeq
<1>2. r \in [0..k -> State] /\ r[0] = v /\ \A i \in 1..k : r[i] = G[i][r[i - 1]]
  <2>1. Follows(r, k, State, v, G)
    BY RoundsAre
  <2> HIDE DEF G, v, k
  <2> QED BY <2>1 DEF Follows
<1>3. ASSUME NEW i \in 1..k
      PROVE  r[i] = Convert(r[i - 1], conversions[i])
  <2>1. i - 1 \in 0..k
    BY <1>1
  <2>2. r[i - 1] \in State
    BY <1>2, <2>1
  <2> QED BY <1>2, <2>2
<1> DEFINE E(j) == Contained(r[j - 1].unit, ReadUnit(conversions[j].derived))
           T == {i \in 0..k : Len(r[i].ratios) = i /\ \A j \in 1..i : r[i].ratios[j] = E(j)}
<1>4. 0 \in T
  <2>1. Len(r[0].ratios) = 0
    <3>1. r[0].ratios = <<>>
      BY <1>2 DEF Start
    <3> QED BY <3>1
  <2>2. 1..0 = {}
    OBVIOUS
  <2> HIDE DEF E
  <2> QED BY <1>1, <2>1, <2>2
<1>5. ASSUME NEW m \in 0..(k - 1), m \in T
      PROVE  m + 1 \in T
  <2>1. m + 1 \in 1..k /\ m + 1 - 1 = m /\ m + 1 \in 0..k /\ m \in 0..k
    BY <1>1
  <2>2. r[m] \in State /\ conversions[m + 1] \in Conversion
    BY <1>1, <1>2, <2>1
  <2>3. r[m + 1] = Convert(r[m], conversions[m + 1])
    BY <1>3, <2>1
  <2>4. E(m + 1) = Contained(r[m].unit, ReadUnit(conversions[m + 1].derived))
    BY <2>1
  <2> DEFINE e == E(m + 1)
             s == r[m].ratios
  <2>5. e = Contained(r[m].unit, ReadUnit(conversions[m + 1].derived))
    BY <2>4
  <2> HIDE DEF E, e
  <2>6. e \in Int /\ r[m + 1].ratios = Append(s, e)
    <3> DEFINE was == r[m]
               cv == conversions[m + 1]
    <3>1. was \in State /\ cv \in Conversion /\ e = Contained(was.unit, ReadUnit(cv.derived))
      BY <2>2, <2>5
    <3> HIDE DEF was, cv
    <3>2. e \in Int /\ Convert(was, cv).ratios = Append(was.ratios, e)
      BY <3>1, ConvertIs
    <3> QED BY <2>3, <3>2 DEF was, cv
  <2>7. s \in Seq(Int) /\ Len(s) = m /\ \A j \in 1..m : s[j] = E(j)
    BY <1>5, <2>2 DEF State
  <2> HIDE DEF s
  <2>8. /\ Len(Append(s, e)) = m + 1 /\ \A j \in 1..m : Append(s, e)[j] = s[j]
        /\ Append(s, e)[m + 1] = e
    BY <2>6, <2>7, AppendProperties
  <2>9. ASSUME NEW j \in 1..(m + 1)
        PROVE  r[m + 1].ratios[j] = E(j)
    <3>1. CASE j = m + 1
      BY <3>1, <2>6, <2>8 DEF e
    <3>2. CASE j # m + 1
      <4>1. j \in 1..m
        BY <3>2
      <4> QED BY <4>1, <2>6, <2>7, <2>8
    <3> QED BY <3>1, <3>2
  <2>10. Len(r[m + 1].ratios) = m + 1
    BY <2>6, <2>8
  <2> QED BY <2>1, <2>9, <2>10
<1>6. k \in T
  <2>1. k \in 0..k
    BY <1>1
  <2> HIDE DEF T
  <2> QED BY <1>1, <1>4, <1>5, <2>1, Induction
<1> QED BY <1>2, <1>3, <1>6

(* A derived unit is the same quantity. *)
LEMMA QuantityIsKept ==
  ASSUME NEW names \in SUBSET Int, NEW text \in Texts(Int), NEW conversions \in Seq(Conversion)
  PROVE  SameQuantity(text, conversions, names)
<1> DEFINE k == Len(conversions)
           r == Rounds(text, conversions)
           d == Derive(text, conversions)
<1>1. k \in Nat /\ DOMAIN conversions = 1..k /\ \A i \in 1..k : conversions[i] \in Conversion
  BY LenProperties, ElementOfSeq
<1>2. d.text = UnitString(r[k].unit) /\ d.ratios = r[k].ratios
  BY DEF Derive
<1> HIDE DEF r, d
<1>3. /\ r \in [0..k -> State] /\ r[0] = Start(text)
      /\ \A i \in 1..k : r[i] = Convert(r[i - 1], conversions[i])
      /\ Len(d.ratios) = k
      /\ \A j \in 1..k : d.ratios[j] = Contained(r[j - 1].unit, ReadUnit(conversions[j].derived))
  BY <1>2, EveryRound DEF r
<1>4. \A i \in 0..k : r[i] \in State /\ r[i].unit \in AllUnits
  BY <1>3 DEF State
<1>5. r[0].unit = ReadUnit(text)
  BY <1>3 DEF Start
<1>6. ReadUnit(d.text) = r[k].unit
  <2>1. k \in 0..k
    BY <1>1
  <2> QED BY <1>2, <1>4, <2>1, ReadsBackUnit
<1>7. ASSUME NEW n \in names
      PROVE  Power(ReadUnit(d.text), n) =
               Power(ReadUnit(text), n) + Total([i \in DOMAIN conversions |-> d.ratios[i] * Gain(conversions[i], n)])
  <2> DEFINE s == [i \in DOMAIN conversions |-> d.ratios[i] * Gain(conversions[i], n)]
             u == [i \in 0..k |-> Power(r[i].unit, n) - Power(r[0].unit, n)]
  <2>1. \A i \in 0..k : Power(r[i].unit, n) \in Int
    BY <1>4, PowerTotal DEF AllUnits
  <2>2. ASSUME NEW i \in 1..k
        PROVE  /\ d.ratios[i] * Gain(conversions[i], n) \in Int
               /\ Power(r[i].unit, n) = Power(r[i - 1].unit, n) + d.ratios[i] * Gain(conversions[i], n)
    <3>1. i - 1 \in 0..k
      BY <1>1
    <3>2. r[i - 1] \in State /\ conversions[i] \in Conversion /\ n \in Int
      BY <1>1, <1>4, <3>1
    <3> DEFINE e == d.ratios[i]
    <3>3. e = Contained(r[i - 1].unit, ReadUnit(conversions[i].derived)) /\ r[i] = Convert(r[i - 1], conversions[i])
      BY <1>3
    <3> DEFINE was == r[i - 1]
               cv == conversions[i]
    <3> HIDE DEF e, was, cv
    <3>4. /\ e \in Int /\ Gain(cv, n) \in Int
          /\ Power(Convert(was, cv).unit, n) = Power(was.unit, n) + e * Gain(cv, n)
      <4>1. was \in State /\ cv \in Conversion /\ n \in Int /\ e = Contained(was.unit, ReadUnit(cv.derived))
        BY <3>2, <3>3 DEF was, cv
      <4> QED BY <4>1, ConvertIs
    <3>5. e * Gain(cv, n) \in Int
      BY <3>4
    <3> QED BY <3>3, <3>4, <3>5 DEF e, was, cv
  <2>3. s \in [1..k -> Int] /\ \A i \in 1..k : s[i] = d.ratios[i] * Gain(conversions[i], n)
    BY <1>1, <2>2
  <2>4. s \in Seq(Int) /\ Len(s) = k
    BY <1>1, <2>3
  <2>5. \A i \in 0..k : u[i] = Power(r[i].unit, n) - Power(r[0].unit, n) /\ u[i] \in Int
    BY <1>1, <2>1
  <2>6. u \in [0..k -> Int]
    BY <1>1, <2>1
  <2> HIDE DEF s, u
  <2>7. u[0] = 0
    BY <1>1, <2>1, <2>5
  <2>8. ASSUME NEW i \in 1..k
        PROVE  u[i] = u[i - 1] + s[i]
    <3>1. i - 1 \in 0..k /\ i \in 0..k /\ 0 \in 0..k
      BY <1>1
    <3>2. /\ u[i] = Power(r[i].unit, n) - Power(r[0].unit, n)
          /\ u[i - 1] = Power(r[i - 1].unit, n) - Power(r[0].unit, n)
      BY <2>5, <3>1
    <3>3. Power(r[i].unit, n) = Power(r[i - 1].unit, n) + s[i] /\ s[i] \in Int
      BY <2>2, <2>3
    <3>4. Power(r[i].unit, n) \in Int /\ Power(r[i - 1].unit, n) \in Int /\ Power(r[0].unit, n) \in Int
      BY <2>1, <3>1
    <3> QED BY <3>2, <3>3, <3>4
  <2>9. Total(s) = u[k]
    BY <2>4, <2>6, <2>7, <2>8, TotalIs DEF Sums
  <2>10. u[k] = Power(r[k].unit, n) - Power(r[0].unit, n) /\ Power(r[k].unit, n) \in Int /\ Power(r[0].unit, n) \in Int
    BY <1>1, <2>1, <2>5
  <2>11. Power(r[k].unit, n) = Power(r[0].unit, n) + Total(s)
    BY <2>9, <2>10
  <2> QED BY <2>11, <1>5, <1>6 DEF s
<1> QED BY <1>7 DEF SameQuantity, d

-----------------------------------------------------------------------------
(* A unit that is derived from one name. *)
LEMMA OneName ==
  ASSUME NEW text \in Texts(Int), Len(text) = 1, text[1].is = "name", text[1].power = 1
  PROVE  LET n == text[1].name
             D == ReadUnit(text)
         IN  /\ n \in Int /\ D \in AllUnits /\ Power(D, n) = 1 /\ \A x \in Int \ {n} : Power(D, x) = 0
             /\ Len(D) = 1 /\ D[1].name = n /\ D[1].power = 1
<1> DEFINE n == text[1].name
           D == ReadUnit(text)
           c == Components(text)
<1>1. n \in Int
  <2>1. text[1] \in Tokens(Int)
    BY ElementOfSeq DEF Texts
  <2> QED BY <2>1 DEF Tokens
<1>2. c \in Seq(Parts) /\ Len(c) = 1 /\ c[1] = Component(text, 1)
  BY ComponentsAre
<1>3. Component(text, 1) = [name |-> n, power |-> 1]
  <2>1. ~Below(text, 1)
    BY DEF Below
  <2> QED BY <2>1 DEF Component
<1>4. D \in AllUnits /\ \A x \in Int : Power(D, x) = Power(c, x)
  BY <1>2, UnitsAreMade DEF ReadUnit
<1> HIDE DEF c, D
<1>5. c[1].name = n /\ c[1].power = 1
  BY <1>2, <1>3
<1>6. Power(c, n) = 1
  <2>1. 1 \in 1..Len(c) /\ \A i \in 1..Len(c) : c[i].name = c[1].name => i = 1
    BY <1>2
  <2>2. Power(c, c[1].name) = c[1].power
    BY <1>2, <2>1, PowerOnly
  <2> QED BY <1>5, <2>2
<1>7. ASSUME NEW x \in Int \ {n}
      PROVE  Power(c, x) = 0
  <2>1. \A i \in 1..Len(c) : c[i].name = x => c[i].power = 0
    BY <1>2, <1>5
  <2> QED BY <1>2, <2>1, PowerAbsent
<1>8. /\ D \in Seq(Parts) /\ Len(D) \in Nat
      /\ \A i \in 1..Len(D) : D[i].power # 0 /\ D[i].name \in Int
      /\ \A i, j \in 1..Len(D) : D[i].name = D[j].name => i = j
  <2>1. D \in Seq(Parts) /\ Made(D)
    BY <1>4 DEF AllUnits
  <2>2. ASSUME NEW i \in 1..Len(D)
        PROVE  D[i].name \in Int
    <3>1. D[i] \in Parts
      BY <2>1, ElementOfSeq
    <3> QED BY <3>1 DEF Parts
  <2> QED BY <2>1, <2>2, LenProperties DEF Made
<1>9. \A i \in 1..Len(D) : Power(D, D[i].name) = D[i].power
  BY <1>8, PowerOnly
<1>10. \A i \in 1..Len(D) : D[i].name = n
  <2> TAKE i \in 1..Len(D)
  <2>1. Power(D, D[i].name) # 0 /\ D[i].name \in Int
    BY <1>8, <1>9
  <2>2. D[i].name # n => Power(c, D[i].name) = 0
    BY <1>7, <2>1
  <2> QED BY <1>4, <2>1, <2>2
<1>11. Len(D) # 0
  <2> SUFFICES ASSUME Len(D) = 0
               PROVE  FALSE
    OBVIOUS
  <2>1. \A i \in 1..Len(D) : D[i].name = n => D[i].power = 0
    OBVIOUS
  <2>2. Power(D, n) = 0
    BY <1>8, <2>1, PowerAbsent
  <2> QED BY <1>1, <1>4, <1>6, <2>2
<1>12. Len(D) = 1
  <2> SUFFICES ASSUME Len(D) # 1
               PROVE  FALSE
    OBVIOUS
  <2>0. Len(D) \in Nat
    BY <1>8
  <2>1. 1 \in 1..Len(D) /\ 2 \in 1..Len(D)
    BY <2>0, <1>11
  <2>2. D[1].name = D[2].name
    BY <1>10, <2>1
  <2> QED BY <1>8, <2>1, <2>2
<1>13. D[1].name = n /\ D[1].power = 1
  <2>1. 1 \in 1..Len(D)
    BY <1>12
  <2> QED BY <1>1, <1>4, <1>6, <1>9, <1>10, <2>1
<1> QED BY <1>1, <1>4, <1>6, <1>7, <1>12, <1>13 DEF D

(* It is in a unit as often as the power of its name, but Limit times at most. *)
LEMMA ContainedOnce ==
  ASSUME NEW u \in AllUnits, NEW text \in Texts(Int),
         Len(text) = 1, text[1].is = "name", text[1].power = 1
  PROVE  LET e == Contained(u, ReadUnit(text))
             p == Power(u, text[1].name)
         IN  e = p \/ (e = Limit /\ p # 0)
<1> DEFINE D == ReadUnit(text)
           n == text[1].name
           p == Power(u, n)
<1>1. n \in Int /\ D \in AllUnits /\ Len(D) = 1 /\ D[1].name = n /\ D[1].power = 1
  BY OneName
<1>2. p \in Int
  BY PowerTotal DEF AllUnits
<1> HIDE DEF D, n
<1>3. Contained(u, D) = Smaller(u, Limit, D[1])
  BY <1>1, ContainedIs
<1>4. Part(u, D[1]) = Quotient(p, 1)
  BY <1>1 DEF Part
<1> HIDE DEF p
<1>5. Quotient(p, 1) = p
  <2>1. Magnitude(1) = 1 /\ Magnitude(p) \in Nat
    BY <1>2 DEF Magnitude
  <2>2. Magnitude(p) \div 1 = Magnitude(p)
    BY <2>1
  <2>3. Quotient(p, 1) = IF p < 0 THEN -Magnitude(p) ELSE Magnitude(p)
    BY <1>2, <2>1, <2>2 DEF Quotient
  <2> QED BY <1>2, <2>3 DEF Magnitude
<1>6. Contained(u, D) = p \/ (Contained(u, D) = Limit /\ p # 0)
  BY <1>3, <1>4, <1>5 DEF Smaller, Limit
<1> QED BY <1>6 DEF D, n, p

(* No name that is derived before its base is left. *)
LEMMA NoNameIsLeft ==
  ASSUME NEW text \in Texts(Int), NEW conversions \in Seq(Conversion)
  PROVE  NoneLeft(text, conversions)
<1> DEFINE k == Len(conversions)
           r == Rounds(text, conversions)
           d == Derive(text, conversions)
<1>1. k \in Nat /\ DOMAIN conversions = 1..k /\ \A i \in 1..k : conversions[i] \in Conversion
  BY LenProperties, ElementOfSeq
<1>2. d.text = UnitString(r[k].unit) /\ d.ratios = r[k].ratios
  BY DEF Derive
<1> HIDE DEF r, d
<1>3. /\ r \in [0..k -> State]
      /\ \A i \in 1..k : r[i] = Convert(r[i - 1], conversions[i])
      /\ \A j \in 1..k : d.ratios[j] = Contained(r[j - 1].unit, ReadUnit(conversions[j].derived))
  BY <1>2, EveryRound DEF r
<1>4. \A i \in 0..k : r[i] \in State /\ r[i].unit \in AllUnits
  BY <1>3 DEF State
<1>5. ReadUnit(d.text) = r[k].unit
  <2>1. k \in 0..k
    BY <1>1
  <2> QED BY <1>2, <1>4, <2>1, ReadsBackUnit
<1> SUFFICES ASSUME Ordered(conversions), \A i \in DOMAIN conversions : d.ratios[i] # Limit,
                    NEW i \in DOMAIN conversions
             PROVE  conversions[i].derived[1].name \notin Named(ReadUnit(d.text))
  BY DEF NoneLeft, d
<1> DEFINE name(j) == conversions[j].derived[1].name
           n == name(i)
           T == {m \in 0..k : m >= i => Power(r[m].unit, n) = 0}
<1>6. ASSUME NEW j \in 1..k
      PROVE  /\ conversions[j].derived \in Texts(Int) /\ Len(conversions[j].derived) = 1
             /\ conversions[j].derived[1].is = "name" /\ conversions[j].derived[1].power = 1
             /\ j >= i => Power(ReadUnit(conversions[j].base), n) = 0
  <2>1. conversions[j] \in Conversion
    BY <1>1
  <2>2. conversions[j].derived \in Texts(Int)
    BY <2>1 DEF Conversion
  <2>3. j >= i => i \in 1..j
    BY <1>1
  <2> QED BY <1>1, <2>2, <2>3 DEF Ordered
<1>7. \A j \in 1..k : name(j) \in Int
  BY <1>6, OneName
<1>8. i \in 1..k /\ n \in Int
  BY <1>1, <1>7
<1>9. ASSUME NEW m \in 0..(k - 1), m \in T
      PROVE  m + 1 \in T
  <2>1. m + 1 \in 1..k /\ m + 1 - 1 = m /\ m + 1 \in 0..k /\ m \in 0..k
    BY <1>1
  <2> SUFFICES ASSUME m + 1 >= i
               PROVE  Power(r[m + 1].unit, n) = 0
    BY <2>1
  <2> DEFINE cv == conversions[m + 1]
             e == Contained(r[m].unit, ReadUnit(cv.derived))
             p == Power(r[m].unit, n)
             D == ReadUnit(cv.derived)
  <2>2. r[m] \in State /\ r[m].unit \in AllUnits /\ cv \in Conversion /\ r[m + 1] = Convert(r[m], cv)
    BY <1>1, <1>3, <1>4, <2>1
  <2>3. e # Limit
    <3>1. d.ratios[m + 1] = e
      <4>1. d.ratios[m + 1] = Contained(r[m + 1 - 1].unit, ReadUnit(conversions[m + 1].derived))
        BY <1>3, <2>1
      <4> QED BY <4>1, <2>1
    <3> QED BY <1>1, <2>1, <3>1
  <2>4. /\ cv.derived \in Texts(Int) /\ Len(cv.derived) = 1
        /\ cv.derived[1].is = "name" /\ cv.derived[1].power = 1
        /\ Power(ReadUnit(cv.base), n) = 0
    BY <1>6, <2>1
  <2>5. e = Power(r[m].unit, cv.derived[1].name)
    BY <2>2, <2>3, <2>4, ContainedOnce
  <2>6. Power(D, cv.derived[1].name) = 1 /\ \A x \in Int \ {cv.derived[1].name} : Power(D, x) = 0
    BY <2>4, OneName
  <2>7. Gain(cv, n) = 0 - Power(D, n)
    BY <2>4 DEF Gain
  <2>8. p \in Int
    BY <2>2, PowerTotal DEF AllUnits
  <2>9. Power(r[m + 1].unit, n) = p + e * Gain(cv, n)
    <3> DEFINE q == e
               was == r[m]
    <3>1. was \in State /\ cv \in Conversion /\ q = Contained(was.unit, ReadUnit(cv.derived))
      BY <2>2
    <3> HIDE DEF q, e, cv, n, was
    <3>2. Power(Convert(was, cv).unit, n) = Power(was.unit, n) + q * Gain(cv, n)
      BY <1>8, <3>1, ConvertIs
    <3> QED BY <2>2, <3>2 DEF q, was
  <2>10. i <= m => p = 0
    BY <1>9, <1>8
  <2>11. m + 1 = i => n = cv.derived[1].name
    OBVIOUS
  <2>12. i <= m \/ m + 1 = i
    BY <1>8
  <2> HIDE DEF e, D, cv, p, n
  <2>13. CASE n = cv.derived[1].name
    <3>1. e = p /\ Gain(cv, n) = -1
      BY <2>5, <2>6, <2>7, <2>13 DEF p
    <3> QED BY <2>8, <2>9, <3>1
  <2>14. CASE n # cv.derived[1].name
    <3>1. Power(D, n) = 0
      BY <1>8, <2>6, <2>14
    <3>2. Gain(cv, n) = 0 /\ p = 0
      BY <2>7, <2>10, <2>11, <2>12, <2>14, <3>1
    <3>3. e \in Int
      BY <2>2, <2>4, ContainedIs, ReadsAUnit DEF e
    <3> QED BY <2>9, <3>2, <3>3
  <2> QED BY <2>13, <2>14
<1>10. Power(r[k].unit, n) = 0
  <2>1. 0 \in T
    BY <1>1, <1>8
  <2>2. k \in 0..k /\ k >= i
    BY <1>1, <1>8
  <2>3. k \in T
    <3> HIDE DEF T
    <3> QED BY <1>1, <1>9, <2>1, <2>2, Induction
  <2> QED BY <2>2, <2>3
<1> DEFINE w == r[k].unit
<1>11. w \in AllUnits
  BY <1>1, <1>4
<1> HIDE DEF w, n
<1>12. ASSUME n \in Named(w)
       PROVE  FALSE
  <2>1. w \in Seq(Parts) /\ Made(w) /\ DOMAIN w = 1..Len(w)
    BY <1>11, LenProperties DEF AllUnits
  <2>2. PICK j \in 1..Len(w) : w[j].name = n
    BY <1>12, <2>1 DEF Named
  <2>3. Power(w, w[j].name) = w[j].power
    BY <2>1, PowerOnly DEF Made
  <2> QED BY <1>10, <2>1, <2>2, <2>3 DEF Made, w
<1> QED BY <1>5, <1>12 DEF w, n

-----------------------------------------------------------------------------
(* A behaviour asks one question, about whatever names, and answers it. *)
Asked == \E names \in SUBSET Int : input \in Questions(names)
UnitsSpec == Asked /\ answered = FALSE /\ [][Answer]_<<input, answered>>

LEMMA EveryAnswer ==
  ASSUME Asked
  PROVE  /\ input.kind = "units" => Canonical(input.a, input.b, input.names)
         /\ input.kind = "derive" => /\ SameQuantity(input.a, input.conversions, input.names)
                                     /\ NoneLeft(input.a, input.conversions)
<1>1. PICK names \in SUBSET Int : input \in Questions(names)
  BY DEF Asked
<1>2. ASSUME input.kind = "units"
      PROVE  Canonical(input.a, input.b, input.names)
  <2>1. input.names = names /\ input.a \in Texts(names) /\ input.b \in Texts(names)
    BY <1>1, <1>2 DEF Questions
  <2> QED BY <2>1, StringsAreCanonical
<1>3. ASSUME input.kind = "derive"
      PROVE  /\ SameQuantity(input.a, input.conversions, input.names)
             /\ NoneLeft(input.a, input.conversions)
  <2> DEFINE C == [derived : Texts(names), base : Texts(names)]
  <2>1. input.names = names /\ input.a \in Texts(names) /\ input.conversions \in Seq(C)
    BY <1>1, <1>3 DEF Questions
  <2>2. \A t \in Texts(names) : t \in Texts(Int)
    BY ReadsAUnit
  <2>3. C \subseteq Conversion
    BY <2>2 DEF Conversion
  <2> HIDE DEF C
  <2>4. input.conversions \in Seq(Conversion)
    BY <2>1, <2>3, SeqMonotonic
  <2> QED BY <2>1, <2>2, <2>4, QuantityIsKept, NoNameIsLeft
<1> QED BY <1>2, <1>3

(* Strings of units are canonical (unit_to_string and unit_from_string),    *)
(* products and quotients add and subtract the powers (unit_mul, unit_div), *)
(* and unit_derive keeps the quantity and leaves no derived name: for all   *)
(* names, powers, strings and conversions.                                  *)
THEOREM UnitsAlwaysAgree == UnitsSpec => UnitsAgree
<1>1. Asked /\ [Answer]_<<input, answered>> => Asked'
  BY DEF Asked, Answer
<1>2. UnitsSpec => []Asked
  BY <1>1, PTL DEF UnitsSpec
<1>3. Asked => [/\ input.kind = "units" => Canonical(input.a, input.b, input.names)
                /\ input.kind = "derive" => /\ SameQuantity(input.a, input.conversions, input.names)
                                            /\ NoneLeft(input.a, input.conversions)]_<<input, answered>>
  BY EveryAnswer
<1> QED BY <1>2, <1>3, PTL DEF UnitsAgree

-----------------------------------------------------------------------------
(* What is defined by recursion over things that have parts exists, if it  *)
(* only looks at the parts: all of a rank that is less.                    *)
AgreeBelow(f, g, rank, n) == \A y \in DOMAIN rank : rank[y] < n => f[y] = g[y]

LooksBelow(G, S, R, rank) ==
  /\ G \in [[S -> R] -> [S -> R]]
  /\ \A f \in [S -> R] : \A g \in [S -> R] : \A x \in S :
       AgreeBelow(f, g, rank, rank[x]) => G[f][x] = G[g][x]

LEMMA Grounded ==
  ASSUME NEW S, NEW R, NEW r0 \in R, NEW rank \in [S -> Nat], NEW G, LooksBelow(G, S, R, rank)
  PROVE  \E f \in [S -> R] : f = G[f]
<1> USE DEF LooksBelow
<1> DEFINE Good(n) == {f \in [S -> R] : AgreeBelow(f, G[f], rank, n)}
<1>0. DOMAIN rank = S /\ \A x \in S : rank[x] \in Nat
  OBVIOUS
<1>1. ASSUME NEW n \in Nat, NEW f \in Good(n)
      PROVE  G[f] \in Good(n + 1)
  <2>1. f \in [S -> R] /\ G[f] \in [S -> R] /\ G[G[f]] \in [S -> R]
    OBVIOUS
  <2>2. ASSUME NEW x \in S, rank[x] < n + 1
        PROVE  G[f][x] = G[G[f]][x]
    <3>1. \A y \in S : rank[y] < rank[x] => rank[y] < n
      BY <2>2, <1>0
    <3>2. AgreeBelow(f, G[f], rank, rank[x])
      BY <3>1, <1>0 DEF AgreeBelow
    <3> QED BY <2>1, <3>2
  <2> QED BY <1>0, <2>1, <2>2 DEF AgreeBelow
<1>2. \A n \in Nat : Good(n) # {}
  <2> SUFFICES ASSUME NEW n \in Nat
               PROVE  Good(n) # {}
    OBVIOUS
  <2> DEFINE T == {m \in 0..n : Good(m) # {}}
  <2>1. 0 \in T
    <3> DEFINE f == [x \in S |-> r0]
    <3>1. f \in [S -> R]
      OBVIOUS
    <3>2. AgreeBelow(f, G[f], rank, 0)
      BY <1>0 DEF AgreeBelow
    <3> HIDE DEF f
    <3>3. f \in Good(0)
      BY <3>1, <3>2
    <3> QED BY <3>3
  <2>2. ASSUME NEW m \in 0..(n - 1), m \in T
        PROVE  m + 1 \in T
    <3>1. m \in Nat /\ m + 1 \in 0..n
      OBVIOUS
    <3>2. PICK f : f \in Good(m)
      BY <2>2
    <3>3. G[f] \in Good(m + 1)
      <4> HIDE DEF Good
      <4> QED BY <1>1, <3>1, <3>2
    <3> HIDE DEF Good
    <3> QED BY <3>1, <3>3
  <2>3. \A m \in 0..n : m \in T
    <3> HIDE DEF T, Good
    <3> QED BY <2>1, <2>2, Induction
  <2>4. n \in T
    <3> HIDE DEF T, Good
    <3> QED BY <2>3
  <2> HIDE DEF Good
  <2> QED BY <2>4
<1>3. ASSUME NEW n \in Nat, NEW f \in Good(n), NEW k \in Nat, NEW g \in Good(k), n <= k
      PROVE  AgreeBelow(f, g, rank, n)
  <2> DEFINE T == {m \in 0..n : AgreeBelow(f, g, rank, m)}
  <2>1. 0 \in T
    BY <1>0 DEF AgreeBelow
  <2>2. ASSUME NEW m \in 0..(n - 1), m \in T
        PROVE  m + 1 \in T
    <3>1. ASSUME NEW x \in S, rank[x] < m + 1
          PROVE  f[x] = g[x]
      <4>1. rank[x] < n /\ rank[x] < k /\ \A y \in S : rank[y] < rank[x] => rank[y] < m
        BY <1>0, <1>3, <3>1
      <4>2. AgreeBelow(f, g, rank, rank[x])
        BY <2>2, <4>1, <1>0 DEF AgreeBelow
      <4>3. G[f][x] = G[g][x]
        BY <4>2
      <4>4. f[x] = G[f][x] /\ g[x] = G[g][x]
        BY <4>1, <1>0 DEF AgreeBelow
      <4> QED BY <4>3, <4>4
    <3>2. AgreeBelow(f, g, rank, m + 1)
      BY <3>1, <1>0 DEF AgreeBelow
    <3> QED BY <3>2
  <2>3. \A m \in 0..n : m \in T
    <3> HIDE DEF T, Good
    <3> QED BY <2>1, <2>2, Induction
  <2>4. n \in T
    <3> HIDE DEF T, Good
    <3> QED BY <2>3
  <2> QED BY <2>4
<1> DEFINE best == [n \in Nat |-> CHOOSE f : f \in Good(n)]
           h == [x \in S |-> best[rank[x] + 1][x]]
<1>4. \A n \in Nat : best[n] \in Good(n)
  <2> HIDE DEF Good
  <2> QED BY <1>2
<1>5. \A n \in Nat : best[n] \in [S -> R]
  BY <1>4
<1>6. h \in [S -> R]
  <2> HIDE DEF best
  <2> QED BY <1>0, <1>5
<1>7. ASSUME NEW x \in S
      PROVE  h[x] = G[h][x]
  <2> DEFINE n == rank[x] + 1
             f == best[n]
  <2>0. n \in Nat /\ rank[x] < n
    BY <1>0
  <2>1. f \in Good(n) /\ f \in [S -> R]
    <3> HIDE DEF best, Good
    <3> QED BY <1>4, <1>5, <2>0
  <2>2. h[x] = f[x]
    <3> HIDE DEF best
    <3> QED OBVIOUS
  <2>3. f[x] = G[f][x]
    <3> HIDE DEF f, n, h
    <3> QED BY <1>0, <2>0, <2>1 DEF AgreeBelow
  <2>4. ASSUME NEW y \in S, rank[y] < rank[x]
        PROVE  h[y] = f[y]
    <3> DEFINE m == rank[y] + 1
               g == best[m]
    <3>1. m \in Nat /\ rank[y] < m /\ m <= n
      BY <1>0, <2>4
    <3>2. g \in Good(m)
      <4> HIDE DEF best, Good
      <4> QED BY <1>4, <3>1
    <3>3. h[y] = g[y]
      <4> HIDE DEF best
      <4> QED OBVIOUS
    <3>4. AgreeBelow(g, f, rank, m)
      <4> HIDE DEF f, g, n, m, Good, h
      <4> QED BY <1>3, <2>0, <2>1, <3>1, <3>2
    <3> HIDE DEF f, g, n, m, h
    <3> QED BY <3>1, <3>3, <3>4, <1>0 DEF AgreeBelow
  <2>5. AgreeBelow(h, f, rank, rank[x])
    <3> HIDE DEF h, f
    <3> QED BY <2>4, <1>0 DEF AgreeBelow
  <2>6. G[h][x] = G[f][x]
    <3> HIDE DEF h, f
    <3> QED BY <1>6, <2>1, <2>5
  <2> HIDE DEF h, f
  <2> QED BY <2>2, <2>3, <2>6
<1>8. h = G[h]
  <2> HIDE DEF h
  <2>1. G[h] \in [S -> R]
    BY <1>6
  <2> QED BY <1>6, <1>7, <2>1
<1> HIDE DEF h
<1> QED BY <1>6, <1>8

-----------------------------------------------------------------------------
(* What the rules of a type look at is a type that is nested less.         *)
NestedLess(u, t) == u \in Types /\ Depth[u] < Depth[t]

LEMMA PartsNestLess ==
  ASSUME NEW t \in Types
  PROVE  /\ t.tag = "pointer" => NestedLess(t.to, t)
         /\ t.tag = "struct" => \A k \in DOMAIN t.fields : NestedLess(t.fields[k].type, t)
         /\ t.tag = "union" =>
              \A i \in DOMAIN t.members : t.members[i].type # None => NestedLess(t.members[i].type, t)
<1>1. \A u \in PartsOfType(t) : NestedLess(u, t)
  BY MatchAssumption DEF NestedLess
<1> QED BY <1>1 DEF PartsOfType

LEMMA MemberIs ==
  ASSUME NEW t, NEW name \in MemberNames(t)
  PROVE  \E i \in DOMAIN t.members : t.members[i].name = name /\ MemberType(t, name) = t.members[i].type
BY DEF MemberNames, MemberType

LEMMA HeldNestsLess ==
  ASSUME NEW t \in Types, NEW name, HoldsSome(t, name)
  PROVE  NestedLess(MemberType(t, name), t)
<1>1. PICK i \in DOMAIN t.members : MemberType(t, name) = t.members[i].type
  BY MemberIs DEF HoldsSome
<1> QED BY <1>1, PartsNestLess DEF HoldsSome

LEMMA Agrees ==
  ASSUME NEW t \in Types, NEW u, NestedLess(u, t), NEW f, NEW g, AgreeBelow(f, g, Depth, Depth[t])
  PROVE  f[u] = g[u]
<1>1. DOMAIN Depth = Types
  BY MatchAssumption
<1> QED BY <1>1 DEF NestedLess, AgreeBelow

(* One step of each of the rules, from the answers f for what is smaller. *)
FitsBy(f) ==
  [t \in Types |->
     [p \in Patterns |->
        CASE p.tag = "pointer" -> t.tag = "pointer" /\ f[t.to][p.to]
          [] p.tag = "struct" ->
               /\ t.tag = "struct"
               /\ \A k \in DOMAIN t.fields :
                    LET q == Bound(p.members, t.fields, k)
                    IN  q # None => f[t.fields[k].type][q]
          [] p.tag = "call" -> HoldsSome(t, p.fn) /\ f[MemberType(t, p.fn)][AsStruct(p)]
          [] OTHER -> TRUE]]

LEMMA FitsIs == Fits = FitsBy(Fits)
<1> DEFINE R == [Patterns -> BOOLEAN]
           G == [f \in [Types -> R] |-> FitsBy(f)]
           r0 == [p \in Patterns |-> TRUE]
<1>1. r0 \in R /\ Depth \in [Types -> Nat]
  BY MatchAssumption
<1>2. G \in [[Types -> R] -> [Types -> R]]
  BY DEF FitsBy
<1>3. ASSUME NEW f \in [Types -> R], NEW g \in [Types -> R], NEW t \in Types, AgreeBelow(f, g, Depth, Depth[t])
      PROVE  G[f][t] = G[g][t]
  <2>1. t.tag = "pointer" => f[t.to] = g[t.to]
    BY <1>3, PartsNestLess, Agrees
  <2>2. t.tag = "struct" => \A k \in DOMAIN t.fields : f[t.fields[k].type] = g[t.fields[k].type]
    BY <1>3, PartsNestLess, Agrees
  <2>3. \A name : HoldsSome(t, name) => f[MemberType(t, name)] = g[MemberType(t, name)]
    BY <1>3, HeldNestsLess, Agrees
  <2>4. FitsBy(f)[t] = FitsBy(g)[t]
    BY <2>1, <2>2, <2>3 DEF FitsBy
  <2> QED BY <2>4
<1>4. \E f \in [Types -> R] : f = FitsBy(f)
  <2>1. \E f \in [Types -> R] : f = G[f]
    <3> HIDE DEF G, R, r0
    <3>1. LooksBelow(G, Types, R, Depth)
      BY <1>2, <1>3 DEF LooksBelow
    <3> QED BY <1>1, <3>1, Grounded
  <2> QED BY <2>1
<1>5. Fits = CHOOSE f : f = FitsBy(f)
  BY DEF Fits, FitsBy
<1> QED BY <1>4, <1>5

MatchesBy(f) ==
  [t \in Types |->
    [value \in Values |-> [p \in Patterns |->
       /\ p.tag = "value" => value = p.value
       /\ p.tag = "member" => value.member = p.name
       /\ p.tag = "pointer" => t.tag = "pointer" /\ value # Null /\ f[t.to][value.to][p.to]
       /\ p.tag = "struct" =>
            /\ t.tag = "struct"
            /\ \A k \in DOMAIN t.fields :
                 LET q == Bound(p.members, t.fields, k)
                 IN  q # None => f[t.fields[k].type][value.fields[k]][q]
       /\ p.tag = "call" =>
            /\ HoldsSome(t, p.fn)
            /\ value.member = p.fn /\ f[MemberType(t, p.fn)][value.data][AsStruct(p)]]]]

LEMMA MatchesIs == Matches = MatchesBy(Matches)
<1> DEFINE R == [Values -> [Patterns -> BOOLEAN]]
           G == [f \in [Types -> R] |-> MatchesBy(f)]
           r0 == [value \in Values |-> [p \in Patterns |-> TRUE]]
<1>1. r0 \in R /\ Depth \in [Types -> Nat]
  BY MatchAssumption
<1>2. G \in [[Types -> R] -> [Types -> R]]
  BY DEF MatchesBy
<1>3. ASSUME NEW f \in [Types -> R], NEW g \in [Types -> R], NEW t \in Types, AgreeBelow(f, g, Depth, Depth[t])
      PROVE  G[f][t] = G[g][t]
  <2>1. t.tag = "pointer" => f[t.to] = g[t.to]
    BY <1>3, PartsNestLess, Agrees
  <2>2. t.tag = "struct" => \A k \in DOMAIN t.fields : f[t.fields[k].type] = g[t.fields[k].type]
    BY <1>3, PartsNestLess, Agrees
  <2>3. \A name : HoldsSome(t, name) => f[MemberType(t, name)] = g[MemberType(t, name)]
    BY <1>3, HeldNestsLess, Agrees
  <2>4. ASSUME NEW value \in Values, NEW p \in Patterns
        PROVE  MatchesBy(f)[t][value][p] = MatchesBy(g)[t][value][p]
    <3>1. CASE p.tag = "struct"
      BY <3>1, <2>2 DEF MatchesBy
    <3>2. CASE p.tag = "call"
      BY <3>2, <2>3 DEF MatchesBy
    <3>3. CASE p.tag \notin {"struct", "call"}
      BY <3>3, <2>1 DEF MatchesBy
    <3> QED BY <3>1, <3>2, <3>3
  <2>5. MatchesBy(f)[t] = MatchesBy(g)[t]
    BY <2>4 DEF MatchesBy
  <2> QED BY <2>5
<1>4. \E f \in [Types -> R] : f = MatchesBy(f)
  <2>1. \E f \in [Types -> R] : f = G[f]
    <3> HIDE DEF G, R, r0
    <3>1. LooksBelow(G, Types, R, Depth)
      BY <1>2, <1>3 DEF LooksBelow
    <3> QED BY <1>1, <3>1, Grounded
  <2> QED BY <2>1
<1>5. Matches = CHOOSE f : f = MatchesBy(f)
  BY DEF Matches, MatchesBy
<1> QED BY <1>4, <1>5

MissingBy(f) ==
  [t \in Types |->
    [patterns \in SUBSET Patterns |->
       /\ \A p \in patterns : p.tag # "wildcard"
       /\ t.tag = "union" =>
            \E i \in DOMAIN t.members :
              LET m == t.members[i]
                  handlers == Handlers(patterns, m.name)
              IN  /\ \A p \in patterns : ~(p.tag = "member" /\ p.name = m.name)
                  /\ handlers = {} \/ (m.type # None /\ f[m.type][handlers])
       /\ t.tag = "pointer" =>
            \/ ~NullHandled(t, patterns)
            \/ f[t.to][{p.to : p \in {q \in patterns : q.tag = "pointer"}}]
       /\ t.tag = "bool" => \E b \in {Yes, No} : \A p \in patterns : ~(p.tag = "value" /\ p.value = b)
       /\ t.tag = "struct" =>
            \A p \in patterns : p.tag = "struct" =>
              \E k \in DOMAIN t.fields :
                LET q == Given(p.members, t.fields, k)
                IN  q # None /\ f[t.fields[k].type][{q}]]]

LEMMA MissingIs == Missing = MissingBy(Missing)
<1> DEFINE R == [SUBSET Patterns -> BOOLEAN]
           G == [f \in [Types -> R] |-> MissingBy(f)]
           r0 == [patterns \in SUBSET Patterns |-> TRUE]
<1>1. r0 \in R /\ Depth \in [Types -> Nat]
  BY MatchAssumption
<1>2. G \in [[Types -> R] -> [Types -> R]]
  BY DEF MissingBy
<1>3. ASSUME NEW f \in [Types -> R], NEW g \in [Types -> R], NEW t \in Types, AgreeBelow(f, g, Depth, Depth[t])
      PROVE  G[f][t] = G[g][t]
  <2>1. t.tag = "pointer" => f[t.to] = g[t.to]
    BY <1>3, PartsNestLess, Agrees
  <2>2. t.tag = "struct" => \A k \in DOMAIN t.fields : f[t.fields[k].type] = g[t.fields[k].type]
    BY <1>3, PartsNestLess, Agrees
  <2>3. t.tag = "union" =>
          \A i \in DOMAIN t.members : t.members[i].type # None => f[t.members[i].type] = g[t.members[i].type]
    BY <1>3, PartsNestLess, Agrees
  <2>4. ASSUME NEW patterns \in SUBSET Patterns
        PROVE  MissingBy(f)[t][patterns] = MissingBy(g)[t][patterns]
    <3>1. CASE t.tag = "union"
      BY <3>1, <2>3 DEF MissingBy
    <3>2. CASE t.tag # "union"
      BY <3>2, <2>1, <2>2 DEF MissingBy
    <3> QED BY <3>1, <3>2
  <2>5. MissingBy(f)[t] = MissingBy(g)[t]
    BY <2>4 DEF MissingBy
  <2> QED BY <2>5
<1>4. \E f \in [Types -> R] : f = MissingBy(f)
  <2>1. \E f \in [Types -> R] : f = G[f]
    <3> HIDE DEF G, R, r0
    <3>1. LooksBelow(G, Types, R, Depth)
      BY <1>2, <1>3 DEF LooksBelow
    <3> QED BY <1>1, <3>1, Grounded
  <2> QED BY <2>1
<1>5. Missing = CHOOSE f : f = MissingBy(f)
  BY DEF Missing, MissingBy
<1> QED BY <1>4, <1>5

IsABy(f) ==
  [t \in Types |->
    [value \in Values |->
       /\ t.tag = "number" => "number" \in DOMAIN value
       /\ t.tag = "bool" => value \in {Yes, No}
       /\ t.tag = "pointer" => \/ t.optional /\ value = Null
                               \/ "to" \in DOMAIN value /\ f[t.to][value.to]
       /\ t.tag = "struct" =>
            /\ "fields" \in DOMAIN value /\ DOMAIN value.fields = DOMAIN t.fields
            /\ \A k \in DOMAIN t.fields : f[t.fields[k].type][value.fields[k]]
       /\ t.tag = "union" =>
            /\ {"member", "data"} \subseteq DOMAIN value /\ value.member \in MemberNames(t)
            /\ IF MemberType(t, value.member) = None THEN value.data = None
               ELSE value.data # None /\ f[MemberType(t, value.member)][value.data]]]

LEMMA IsAIs == IsA = IsABy(IsA)
<1> DEFINE R == [Values -> BOOLEAN]
           G == [f \in [Types -> R] |-> IsABy(f)]
           r0 == [value \in Values |-> TRUE]
<1>1. r0 \in R /\ Depth \in [Types -> Nat]
  BY MatchAssumption
<1>2. G \in [[Types -> R] -> [Types -> R]]
  BY DEF IsABy
<1>3. ASSUME NEW f \in [Types -> R], NEW g \in [Types -> R], NEW t \in Types, AgreeBelow(f, g, Depth, Depth[t])
      PROVE  G[f][t] = G[g][t]
  <2>1. t.tag = "pointer" => f[t.to] = g[t.to]
    BY <1>3, PartsNestLess, Agrees
  <2>2. t.tag = "struct" => \A k \in DOMAIN t.fields : f[t.fields[k].type] = g[t.fields[k].type]
    BY <1>3, PartsNestLess, Agrees
  <2>3. \A name : HoldsSome(t, name) => f[MemberType(t, name)] = g[MemberType(t, name)]
    BY <1>3, HeldNestsLess, Agrees
  <2>4. ASSUME NEW value \in Values
        PROVE  IsABy(f)[t][value] = IsABy(g)[t][value]
    <3>1. CASE t.tag = "union"
      <4>1. value.member \in MemberNames(t) /\ MemberType(t, value.member) # None =>
              f[MemberType(t, value.member)] = g[MemberType(t, value.member)]
        BY <3>1, <2>3 DEF HoldsSome
      <4> QED BY <3>1, <4>1 DEF IsABy
    <3>2. CASE t.tag # "union"
      BY <3>2, <2>1, <2>2 DEF IsABy
    <3> QED BY <3>1, <3>2
  <2>5. IsABy(f)[t] = IsABy(g)[t]
    BY <2>4 DEF IsABy
  <2> QED BY <2>5
<1>4. \E f \in [Types -> R] : f = IsABy(f)
  <2>1. \E f \in [Types -> R] : f = G[f]
    <3> HIDE DEF G, R, r0
    <3>1. LooksBelow(G, Types, R, Depth)
      BY <1>2, <1>3 DEF LooksBelow
    <3> QED BY <1>1, <3>1, Grounded
  <2> QED BY <2>1
<1>5. IsA = CHOOSE f : f = IsABy(f)
  BY DEF IsA, IsABy
<1> QED BY <1>4, <1>5

TakesDefaultBy(f) ==
  [t \in Types |->
    [p \in Patterns |->
       CASE p.tag = "pointer" -> t.tag = "pointer" /\ f[t.to][p.to]
         [] p.tag = "struct" ->
              /\ t.tag = "struct"
              /\ \E k \in DOMAIN t.fields :
                   LET q == Given(p.members, t.fields, k)
                   IN  \/ q = None /\ t.fields[k].default # None
                       \/ q # None /\ f[t.fields[k].type][q]
         [] p.tag = "call" -> HoldsSome(t, p.fn) /\ f[MemberType(t, p.fn)][AsStruct(p)]
         [] OTHER -> FALSE]]

LEMMA TakesDefaultIs == TakesDefault = TakesDefaultBy(TakesDefault)
<1> DEFINE R == [Patterns -> BOOLEAN]
           G == [f \in [Types -> R] |-> TakesDefaultBy(f)]
           r0 == [p \in Patterns |-> TRUE]
<1>1. r0 \in R /\ Depth \in [Types -> Nat]
  BY MatchAssumption
<1>2. G \in [[Types -> R] -> [Types -> R]]
  BY DEF TakesDefaultBy
<1>3. ASSUME NEW f \in [Types -> R], NEW g \in [Types -> R], NEW t \in Types, AgreeBelow(f, g, Depth, Depth[t])
      PROVE  G[f][t] = G[g][t]
  <2>1. t.tag = "pointer" => f[t.to] = g[t.to]
    BY <1>3, PartsNestLess, Agrees
  <2>2. t.tag = "struct" => \A k \in DOMAIN t.fields : f[t.fields[k].type] = g[t.fields[k].type]
    BY <1>3, PartsNestLess, Agrees
  <2>3. \A name : HoldsSome(t, name) => f[MemberType(t, name)] = g[MemberType(t, name)]
    BY <1>3, HeldNestsLess, Agrees
  <2>4. TakesDefaultBy(f)[t] = TakesDefaultBy(g)[t]
    BY <2>1, <2>2, <2>3 DEF TakesDefaultBy
  <2> QED BY <2>4
<1>4. \E f \in [Types -> R] : f = TakesDefaultBy(f)
  <2>1. \E f \in [Types -> R] : f = G[f]
    <3> HIDE DEF G, R, r0
    <3>1. LooksBelow(G, Types, R, Depth)
      BY <1>2, <1>3 DEF LooksBelow
    <3> QED BY <1>1, <3>1, Grounded
  <2> QED BY <2>1
<1>5. TakesDefault = CHOOSE f : f = TakesDefaultBy(f)
  BY DEF TakesDefault, TakesDefaultBy
<1> QED BY <1>4, <1>5

-----------------------------------------------------------------------------
(* The parts of patterns and values are patterns and values.               *)
LEMMA PatternParts ==
  ASSUME NEW p \in Patterns
  PROVE  /\ p # None
         /\ p.tag = "pointer" => p.to \in Patterns
         /\ p.tag = "struct" => \A i \in DOMAIN p.members : p.members[i].pattern \in Patterns
         /\ p.tag = "call" => AsStruct(p) \in Patterns
<1>1. p # None /\ PartsOfPattern(p) \subseteq Patterns
  BY MatchAssumption
<1> QED BY <1>1 DEF PartsOfPattern

LEMMA ValueParts ==
  ASSUME NEW value \in Values
  PROVE  /\ "to" \in DOMAIN value => value.to \in Values
         /\ "fields" \in DOMAIN value => \A k \in DOMAIN value.fields : value.fields[k] \in Values
         /\ "data" \in DOMAIN value /\ value.data # None => value.data \in Values
<1>1. PartsOfValue(value) \subseteq Values
  BY MatchAssumption
<1> QED BY <1>1 DEF PartsOfValue

LEMMA GivenIsPart ==
  ASSUME NEW p \in Patterns, p.tag = "struct", NEW fields, NEW k,
         Given(p.members, fields, k) # None
  PROVE  Given(p.members, fields, k) \in Patterns
<1> DEFINE given == {i \in DOMAIN p.members : Place(p.members, Names(fields), i) = k}
<1>1. given # {} /\ Given(p.members, fields, k) = p.members[CHOOSE i \in given : TRUE].pattern
  BY DEF Given
<1>2. (CHOOSE i \in given : TRUE) \in given
  BY <1>1
<1>3. (CHOOSE i \in given : TRUE) \in DOMAIN p.members
  BY <1>2
<1> QED BY <1>1, <1>3, PatternParts

(* What the rules say of one pattern. *)
LEMMA FitsParts ==
  ASSUME NEW t \in Types, NEW p \in Patterns, Fits[t][p]
  PROVE  /\ p.tag = "pointer" => Fits[t.to][p.to]
         /\ p.tag = "struct" =>
              \A k \in DOMAIN t.fields :
                Bound(p.members, t.fields, k) # None =>
                  Fits[t.fields[k].type][Bound(p.members, t.fields, k)]
         /\ p.tag = "call" => HoldsSome(t, p.fn) /\ Fits[MemberType(t, p.fn)][AsStruct(p)]
<1>1. Fits[t][p] = FitsBy(Fits)[t][p]
  BY FitsIs
<1> QED BY <1>1 DEF FitsBy

LEMMA DefaultParts ==
  ASSUME NEW t \in Types, NEW p \in Patterns, ~TakesDefault[t][p]
  PROVE  /\ p.tag = "pointer" /\ t.tag = "pointer" => ~TakesDefault[t.to][p.to]
         /\ p.tag = "struct" /\ t.tag = "struct" =>
              \A k \in DOMAIN t.fields :
                IF Given(p.members, t.fields, k) = None THEN t.fields[k].default = None
                ELSE ~TakesDefault[t.fields[k].type][Given(p.members, t.fields, k)]
         /\ p.tag = "call" /\ HoldsSome(t, p.fn) => ~TakesDefault[MemberType(t, p.fn)][AsStruct(p)]
<1>1. TakesDefault[t][p] = TakesDefaultBy(TakesDefault)[t][p]
  BY TakesDefaultIs
<1> QED BY <1>1 DEF TakesDefaultBy

LEMMA MatchesParts ==
  ASSUME NEW t \in Types, NEW value \in Values, NEW p \in Patterns
  PROVE  /\ p.tag = "wildcard" => Matches[t][value][p]
         /\ p.tag = "value" /\ value = p.value => Matches[t][value][p]
         /\ p.tag = "member" /\ value.member = p.name => Matches[t][value][p]
         /\ /\ p.tag = "pointer" /\ t.tag = "pointer" /\ value # Null
            /\ Matches[t.to][value.to][p.to]
            => Matches[t][value][p]
         /\ /\ p.tag = "struct" /\ t.tag = "struct"
            /\ \A k \in DOMAIN t.fields :
                 Bound(p.members, t.fields, k) # None =>
                   Matches[t.fields[k].type][value.fields[k]][Bound(p.members, t.fields, k)]
            => Matches[t][value][p]
         /\ /\ p.tag = "call" /\ HoldsSome(t, p.fn) /\ value.member = p.fn
            /\ Matches[MemberType(t, p.fn)][value.data][AsStruct(p)]
            => Matches[t][value][p]
<1>1. Matches[t][value][p] = MatchesBy(Matches)[t][value][p]
  BY MatchesIs
<1> QED BY <1>1 DEF MatchesBy

(* What it says of a type that no pattern is missing.                      *)
UnionDone(t, patterns) ==
  \A i \in DOMAIN t.members :
    LET m == t.members[i]
    IN  \/ \E p \in patterns : p.tag = "member" /\ p.name = m.name
        \/ /\ Handlers(patterns, m.name) # {}
           /\ m.type = None \/ ~Missing[m.type][Handlers(patterns, m.name)]
PointerDone(t, patterns) ==
  NullHandled(t, patterns) /\ ~Missing[t.to][{p.to : p \in {q \in patterns : q.tag = "pointer"}}]
BoolDone(patterns) == \A b \in {Yes, No} : \E p \in patterns : p.tag = "value" /\ p.value = b
StructDone(t, p) ==
  \A k \in DOMAIN t.fields :
    Given(p.members, t.fields, k) = None \/ ~Missing[t.fields[k].type][{Given(p.members, t.fields, k)}]

LEMMA MissingParts ==
  ASSUME NEW t \in Types, NEW patterns \in SUBSET Patterns, ~Missing[t][patterns]
  PROVE  \/ \E p \in patterns : p.tag = "wildcard"
         \/ t.tag = "union" /\ UnionDone(t, patterns)
         \/ t.tag = "pointer" /\ PointerDone(t, patterns)
         \/ t.tag = "bool" /\ BoolDone(patterns)
         \/ t.tag = "struct" /\ \E p \in patterns : p.tag = "struct" /\ StructDone(t, p)
<1>1. Missing[t][patterns] = MissingBy(Missing)[t][patterns]
  BY MissingIs
<1> QED BY <1>1 DEF MissingBy, UnionDone, PointerDone, BoolDone, StructDone

LEMMA IsAParts ==
  ASSUME NEW t \in Types, NEW value \in Values, IsA[t][value]
  PROVE  /\ t.tag = "bool" => value \in {Yes, No}
         /\ t.tag = "pointer" => \/ t.optional /\ value = Null
                                 \/ "to" \in DOMAIN value /\ IsA[t.to][value.to]
         /\ t.tag = "struct" =>
              /\ "fields" \in DOMAIN value /\ DOMAIN value.fields = DOMAIN t.fields
              /\ \A k \in DOMAIN t.fields : IsA[t.fields[k].type][value.fields[k]]
         /\ t.tag = "union" =>
              /\ "data" \in DOMAIN value /\ value.member \in MemberNames(t)
              /\ MemberType(t, value.member) # None =>
                   value.data # None /\ IsA[MemberType(t, value.member)][value.data]
<1>1. IsA[t][value] = IsABy(IsA)[t][value]
  BY IsAIs
<1> QED BY <1>1 DEF IsABy

-----------------------------------------------------------------------------
(* A type is exhaustive if all that are nested less are, by what it is.    *)
Covered(t) == \A patterns \in SUBSET Patterns : Exhaustive(t, patterns)

LEMMA CoveredIs ==
  ASSUME NEW t, Covered(t), NEW patterns \in SUBSET Patterns, ~Missing[t][patterns],
         \A p \in patterns : Fits[t][p] /\ ~TakesDefault[t][p],
         NEW value \in Values, IsA[t][value]
  PROVE  \E p \in patterns : Matches[t][value][p]
BY DEF Covered, Exhaustive

LEMMA PointersCovered ==
  ASSUME NEW t \in Types, t.tag = "pointer", Covered(t.to), NEW patterns \in SUBSET Patterns, PointerDone(t, patterns),
         \A p \in patterns : Fits[t][p] /\ ~TakesDefault[t][p],
         NEW value \in Values, IsA[t][value]
  PROVE  \E p \in patterns : Matches[t][value][p]
<1>1. CASE t.optional /\ value = Null
  <2>1. PICK p \in patterns : p.tag = "value" /\ p.value = Null
    BY <1>1 DEF PointerDone, NullHandled
  <2> QED BY <1>1, <2>1, MatchesParts
<1>2. CASE "to" \in DOMAIN value /\ IsA[t.to][value.to]
  <2> DEFINE inner == {p.to : p \in {q \in patterns : q.tag = "pointer"}}
  <2>1. value.to \in Values /\ value # Null
    BY <1>2, ValueParts DEF Null
  <2>2. inner \in SUBSET Patterns
    BY PatternParts
  <2>3. \A q \in inner : Fits[t.to][q] /\ ~TakesDefault[t.to][q]
    BY FitsParts, DefaultParts
  <2>4. \E q \in inner : Matches[t.to][value.to][q]
    <3> HIDE DEF inner
    <3>1. ~Missing[t.to][inner]
      BY DEF inner, PointerDone
    <3> QED BY <1>2, <2>1, <2>2, <2>3, <3>1, CoveredIs
  <2>5. PICK p \in patterns : p.tag = "pointer" /\ Matches[t.to][value.to][p.to]
    BY <2>4
  <2> QED BY <2>1, <2>5, MatchesParts
<1> QED BY <1>1, <1>2, IsAParts

LEMMA StructsCovered ==
  ASSUME NEW t \in Types, t.tag = "struct", \A k \in DOMAIN t.fields : Covered(t.fields[k].type),
         NEW patterns \in SUBSET Patterns, NEW p \in patterns, p.tag = "struct", StructDone(t, p),
         Fits[t][p] /\ ~TakesDefault[t][p],
         NEW value \in Values, IsA[t][value]
  PROVE  \E q \in patterns : Matches[t][value][q]
<1>1. ASSUME NEW k \in DOMAIN t.fields, Bound(p.members, t.fields, k) # None
      PROVE  Matches[t.fields[k].type][value.fields[k]][Bound(p.members, t.fields, k)]
  <2> DEFINE q == Given(p.members, t.fields, k)
             u == t.fields[k].type
             v == value.fields[k]
  <2>1. v \in Values /\ IsA[u][v]
    BY IsAParts, ValueParts
  <2>2. q # None /\ Bound(p.members, t.fields, k) = q
    BY <1>1, DefaultParts DEF Bound
  <2>3. {q} \in SUBSET Patterns
    BY <2>2, GivenIsPart
  <2>4. Fits[u][q] /\ ~TakesDefault[u][q]
    BY <1>1, <2>2, FitsParts, DefaultParts
  <2>5. ~Missing[u][{q}] /\ Covered(u)
    BY <2>2 DEF StructDone
  <2>6. \E r \in {q} : Matches[u][v][r]
    <3> HIDE DEF q, u, v
    <3>1. \A r \in {q} : Fits[u][r] /\ ~TakesDefault[u][r]
      BY <2>4
    <3> QED BY <2>1, <2>3, <2>5, <3>1, CoveredIs
  <2> QED BY <2>2, <2>6
<1>2. Matches[t][value][p]
  BY <1>1, MatchesParts
<1> QED BY <1>2

LEMMA UnionsCovered ==
  ASSUME NEW t \in Types, t.tag = "union", \A name : HoldsSome(t, name) => Covered(MemberType(t, name)),
         NEW patterns \in SUBSET Patterns, UnionDone(t, patterns),
         \A p \in patterns : Fits[t][p] /\ ~TakesDefault[t][p],
         NEW value \in Values, IsA[t][value]
  PROVE  \E p \in patterns : Matches[t][value][p]
<1> DEFINE name == value.member
           u == MemberType(t, name)
           handlers == Handlers(patterns, name)
<1>1. name \in MemberNames(t)
  BY IsAParts
<1>2. PICK i \in DOMAIN t.members : t.members[i].name = name /\ t.members[i].type = u
  BY <1>1, MemberIs
<1>3. CASE \E p \in patterns : p.tag = "member" /\ p.name = name
  BY <1>3, MatchesParts
<1>4. CASE handlers # {} /\ (u = None \/ ~Missing[u][handlers])
  <2>1. ASSUME NEW h \in handlers
        PROVE  \E p \in patterns : p.tag = "call" /\ p.fn = name /\ h = AsStruct(p)
    BY <2>1 DEF Handlers
  <2>2. HoldsSome(t, name)
    BY <1>4, <2>1, FitsParts
  <2>3. u # None /\ Covered(u)
    BY <2>2 DEF HoldsSome
  <2>4. value.data \in Values /\ IsA[u][value.data]
    BY <2>3, IsAParts, ValueParts
  <2>5. handlers \in SUBSET Patterns
    BY <2>1, PatternParts
  <2>6. \A h \in handlers : Fits[u][h] /\ ~TakesDefault[u][h]
    BY <2>1, <2>2, FitsParts, DefaultParts
  <2>7. PICK h \in handlers : Matches[u][value.data][h]
    <3> HIDE DEF handlers, u
    <3> QED BY <1>4, <2>3, <2>4, <2>5, <2>6, CoveredIs
  <2> QED BY <2>1, <2>2, <2>7, MatchesParts
<1> QED BY <1>2, <1>3, <1>4 DEF UnionDone

LEMMA EachIsCovered ==
  ASSUME NEW t \in Types, \A u : NestedLess(u, t) => Covered(u)
  PROVE  Covered(t)
<1> SUFFICES ASSUME NEW patterns \in SUBSET Patterns, ~Missing[t][patterns],
                    \A p \in patterns : Fits[t][p] /\ ~TakesDefault[t][p],
                    NEW value \in Values, IsA[t][value]
             PROVE  \E p \in patterns : Matches[t][value][p]
  BY DEF Covered, Exhaustive
<1>1. CASE \E p \in patterns : p.tag = "wildcard"
  BY <1>1, MatchesParts
<1>2. CASE t.tag = "union" /\ UnionDone(t, patterns)
  BY <1>2, HeldNestsLess, UnionsCovered
<1>3. CASE t.tag = "pointer" /\ PointerDone(t, patterns)
  BY <1>3, PartsNestLess, PointersCovered
<1>4. CASE t.tag = "bool" /\ BoolDone(patterns)
  BY <1>4, IsAParts, MatchesParts DEF BoolDone
<1>5. CASE t.tag = "struct" /\ \E p \in patterns : p.tag = "struct" /\ StructDone(t, p)
  BY <1>5, PartsNestLess, StructsCovered
<1> QED BY <1>1, <1>2, <1>3, <1>4, <1>5, MissingParts

LEMMA AllAreCovered == \A t \in Types : Covered(t)
<1> SUFFICES ASSUME NEW t \in Types
             PROVE  Covered(t)
  OBVIOUS
<1>0. \A u \in Types : Depth[u] \in Nat
  BY MatchAssumption
<1> DEFINE N == Depth[t] + 1
           T == {m \in 0..N : \A u \in Types : Depth[u] < m => Covered(u)}
<1>1. N \in Nat /\ Depth[t] < N
  BY <1>0
<1>2. 0 \in T
  BY <1>0, <1>1
<1>3. ASSUME NEW m \in 0..(N - 1), m \in T
      PROVE  m + 1 \in T
  <2>1. ASSUME NEW u \in Types, Depth[u] < m + 1
        PROVE  Covered(u)
    <3>1. \A w : NestedLess(w, u) => Depth[w] < m
      BY <1>0, <2>1 DEF NestedLess
    <3>2. \A w : NestedLess(w, u) => Covered(w)
      BY <1>3, <3>1 DEF NestedLess
    <3> QED BY <3>2, EachIsCovered
  <2> QED BY <1>1, <2>1
<1>4. \A m \in 0..N : m \in T
  <2> HIDE DEF T, N
  <2> QED BY <1>1, <1>2, <1>3, Induction
<1>5. N \in T
  <2> HIDE DEF T
  <2> QED BY <1>1, <1>4
<1> QED BY <1>1, <1>5

-----------------------------------------------------------------------------
(* A question about any type of the program, and any set of its patterns.  *)
MatchSpec ==
  /\ input \in [kind : {"match"}, type : Types, patterns : SUBSET Patterns]
  /\ answered = FALSE
  /\ [][Answer]_<<input, answered>>

(* When get_missing_pattern finds nothing missing from an `if', a clause   *)
(* runs for every value of the type, however types and patterns are nested *)
(* (if every clause fits, and leaves no field to its default).             *)
THEOREM MatchesAreComplete == MatchSpec => PatternsExhaustive
<1> DEFINE Legal == input \in [kind : {"match"}, type : Types, patterns : SUBSET Patterns]
<1>1. Legal /\ [Answer]_<<input, answered>> => Legal'
  BY DEF Answer
<1>2. Legal => (input.kind = "match" => Exhaustive(input.type, input.patterns))
  BY AllAreCovered DEF Covered
<1> HIDE DEF Legal
<1>3. Legal => [input.kind = "match" => Exhaustive(input.type, input.patterns)]_<<input, answered>>
  BY <1>2
<1>4. MatchSpec => Legal /\ [][Answer]_<<input, answered>>
  BY DEF MatchSpec, Legal
<1> QED BY <1>1, <1>3, <1>4, PTL DEF PatternsExhaustive
=============================================================================
