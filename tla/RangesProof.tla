----------------------------- MODULE RangesProof -----------------------------
(***************************************************************************)
(* What the loop over a range visits, its length and members, and what a   *)
(* slice by it holds, for integers and strides of any width.  The loop     *)
(* needs an invariant; the rest is about operators: what a range means is  *)
(* a line of values, and the code's truncated quotients and remainders     *)
(* find its length, its members, and where it enters an array.             *)
(***************************************************************************)
EXTENDS Ranges, TLAPS, FiniteSetTheorems, FunctionTheorems

(* The range is that of the literal, and the loop's variable is the value  *)
(* that the body saw last.                                                 *)
Seeing ==
  /\ pc = "made" => range = RangeOf(literal)
  /\ pc \in {"literal", "made", "failed"} => visited = <<>>
  /\ pc = "body" => visited # <<>> /\ x = visited[Len(visited)]

(* The inductive invariant. *)
IInv == TypeOK /\ LoopVisits /\ Seeing

-----------------------------------------------------------------------------
LEMMA InitInv == Init => IInv
<1> SUFFICES ASSUME Init PROVE IInv
  OBVIOUS
<1>1. /\ range = [first |-> 0, step |-> 1, last |-> 0]
      /\ visited = <<>> /\ pc = "literal" /\ x = 0 /\ literal \in Literal
  BY DEF Init
<1>2. 0 \in Int64 /\ 1 \in Int64
  BY RangesAssumption DEF Int64, IntMin
<1>3. TypeOK
  BY <1>1, <1>2 DEF TypeOK, AnyRange
<1> QED BY <1>1, <1>3 DEF IInv, LoopVisits, Seeing

(* The range that a literal makes has the parts of 64 bits. *)
LEMMA MakeInv ==
  ASSUME IInv, Make
  PROVE  IInv'
<1>1. /\ range' = RangeOf(literal)
      /\ pc = "literal" /\ visited = <<>> /\ visited' = <<>> /\ x' = x
      /\ literal' = literal /\ literal \in Literal
  BY DEF Make, IInv, Seeing, TypeOK
<1>2. IntMin \in Int64 /\ IntMax \in Int64 /\ 1 \in Int64
  BY RangesAssumption DEF Int64, IntMin
<1>3. range' \in AnyRange
  BY <1>1, <1>2 DEF RangeOf, Or, AnyRange, Literal, Part
<1>4. pc' = IF range'.step = 0 THEN "failed" ELSE "made"
  BY DEF Make
<1>5. TypeOK'
  BY <1>1, <1>3, <1>4 DEF IInv, TypeOK
<1>6. pc' \in {"made", "failed"} /\ RangeOf(literal)' = RangeOf(literal)
  BY <1>1, <1>4 DEF RangeOf, Or
<1> QED BY <1>1, <1>4, <1>5, <1>6 DEF IInv, LoopVisits, Seeing

(* The guard of the loop goes on to the next member, and to that only: a   *)
(* sum that it lets through has not overflowed.                            *)
LEMMA NextMember ==
  ASSUME range \in AnyRange, range.step # 0, x \in Int64, Between(range, x)
  PROVE  /\ CanContinue <=> Between(range, x + range.step)
         /\ CanContinue => /\ Wrap(x + range.step) = x + range.step
                           /\ x + range.step \in Int64
<1> PICK f, s, l : f = range.first /\ s = range.step /\ l = range.last
  OBVIOUS
<1>1. /\ IntMax \in Nat \ {0} /\ IntMin = -IntMax - 1
      /\ f \in IntMin..IntMax /\ s \in IntMin..IntMax /\ l \in IntMin..IntMax
      /\ x \in IntMin..IntMax /\ s # 0
  BY RangesAssumption DEF AnyRange, Int64, IntMin
<1>2. CASE s > 0
  <2>1. Wrap(IntMax - s) = IntMax - s
    BY <1>1, <1>2 DEF Wrap
  <2>2. CanContinue <=> x <= IntMax - s /\ Wrap(x + s) <= l
    BY <1>1, <1>2, <2>1 DEF CanContinue
  <2>3. f <= x /\ x <= l
    BY <1>2 DEF Between
  <2>4. Between(range, x + s) <=> x + s <= l
    BY <1>1, <1>2, <2>3 DEF Between
  <2>5. x <= IntMax - s => Wrap(x + s) = x + s /\ x + s \in Int64
    BY <1>1, <1>2 DEF Wrap, Int64
  <2> QED BY <1>1, <2>2, <2>4, <2>5
<1>3. CASE s < 0
  <2>1. Wrap(IntMin - s) = IntMin - s
    BY <1>1, <1>3 DEF Wrap
  <2>2. CanContinue <=> x >= IntMin - s /\ Wrap(x + s) >= l
    BY <1>1, <1>3, <2>1 DEF CanContinue
  <2>3. x <= f /\ l <= x
    BY <1>1, <1>3 DEF Between
  <2>4. Between(range, x + s) <=> l <= x + s
    BY <1>1, <1>3, <2>3 DEF Between
  <2>5. x >= IntMin - s => Wrap(x + s) = x + s /\ x + s \in Int64
    BY <1>1, <1>3 DEF Wrap, Int64
  <2> QED BY <1>1, <2>2, <2>4, <2>5
<1> QED BY <1>1, <1>2, <1>3

LEMMA EnterInv ==
  ASSUME IInv, Enter
  PROVE  IInv'
<1>1. /\ pc = "made" /\ visited = <<>> /\ UNCHANGED <<literal, range>> /\ literal \in Literal /\ range \in AnyRange
      /\ range.step # 0 /\ range.first \in Int64 /\ x \in Int64
  BY DEF Enter, IInv, TypeOK, Seeing, AnyRange
<1>2. IsEmpty <=> ~Between(range, range.first)
  BY <1>1, RangesAssumption DEF IsEmpty, Between, AnyRange, Int64, IntMin
<1>3. CASE IsEmpty
  <2>1. pc' = "done" /\ visited' = <<>> /\ x' = x
    BY <1>1, <1>3 DEF Enter
  <2> QED BY <1>1, <1>2, <1>3, <2>1 DEF IInv, TypeOK, LoopVisits, Seeing
<1>4. CASE ~IsEmpty
  <2>1. pc' = "body" /\ visited' = <<range.first>> /\ x' = range.first
    BY <1>4 DEF Enter
  <2>2. TypeOK'
    BY <1>1, <2>1 DEF TypeOK
  <2> QED BY <1>1, <1>2, <1>4, <2>1, <2>2 DEF IInv, LoopVisits, Seeing
<1> QED BY <1>3, <1>4

LEMMA NextItemInv ==
  ASSUME IInv, NextItem
  PROVE  IInv'
<1>1. /\ pc = "body" /\ UNCHANGED <<literal, range>> /\ literal \in Literal /\ range \in AnyRange /\ range.step # 0
      /\ visited \in Seq(Int64) /\ visited # <<>> /\ x = visited[Len(visited)] /\ x \in Int64
  BY DEF NextItem, IInv, TypeOK, Seeing
<1>2. Len(visited) \in DOMAIN visited
  BY <1>1
<1>3. Between(range, x)
  BY <1>1, <1>2 DEF IInv, LoopVisits
<1>4. CASE CanContinue
  <2> PICK y : y = x + range.step
    OBVIOUS
  <2>1. y \in Int64 /\ Between(range, y) /\ pc' = "body" /\ x' = y /\ visited' = Append(visited, y)
    BY <1>1, <1>3, <1>4, NextMember DEF NextItem
  <2>2. /\ Len(visited') = Len(visited) + 1 /\ visited'[Len(visited) + 1] = y
        /\ \A i \in DOMAIN visited : visited'[i] = visited[i]
        /\ DOMAIN visited' = 1..Len(visited) + 1 /\ DOMAIN visited = 1..Len(visited)
        /\ visited' \in Seq(Int64) /\ visited' # <<>> /\ Len(visited) \in Nat \ {0}
    BY <1>1, <2>1
  <2>3. TypeOK'
    BY <1>1, <2>1, <2>2 DEF TypeOK
  <2>4. \A i \in DOMAIN visited' : Between(range, visited'[i])
    BY <2>1, <2>2 DEF IInv, LoopVisits
  <2>5. \A i \in DOMAIN visited' : i > 1 => visited'[i] = visited'[i - 1] + range.step
    <3> SUFFICES ASSUME NEW i \in DOMAIN visited', i > 1
                 PROVE  visited'[i] = visited'[i - 1] + range.step
      OBVIOUS
    <3>1. i - 1 \in DOMAIN visited
      BY <2>2
    <3>2. CASE i \in DOMAIN visited
      BY <2>2, <3>1, <3>2 DEF IInv, LoopVisits
    <3>3. CASE i = Len(visited) + 1
      BY <1>1, <2>2, <3>1, <3>3
    <3> QED BY <2>2, <3>2, <3>3
  <2>6. visited'[1] = range.first
    BY <1>1, <2>2 DEF IInv, LoopVisits
  <2>7. LoopVisits'
    BY <1>1, <2>1, <2>4, <2>5, <2>6 DEF LoopVisits
  <2> QED BY <2>1, <2>2, <2>3, <2>7 DEF IInv, Seeing
<1>5. CASE ~CanContinue
  <2>1. pc' = "done" /\ UNCHANGED <<x, visited>>
    BY <1>5 DEF NextItem
  <2>2. ~Between(range, visited[Len(visited)] + range.step)
    BY <1>1, <1>3, <1>5, NextMember
  <2> QED BY <1>1, <2>1, <2>2 DEF IInv, TypeOK, LoopVisits, Seeing
<1> QED BY <1>4, <1>5

LEMMA StepInv == IInv /\ [Next]_vars => IInv'
<1> SUFFICES ASSUME IInv, [Next]_vars
             PROVE  IInv'
  OBVIOUS
<1>1. CASE Make
  BY <1>1, MakeInv
<1>2. CASE Enter
  BY <1>2, EnterInv
<1>3. CASE NextItem
  BY <1>3, NextItemInv
<1>4. CASE Stop
  BY <1>4 DEF Stop, IInv, TypeOK, LoopVisits, Seeing
<1>5. CASE UNCHANGED vars
  BY <1>5 DEF vars, IInv, TypeOK, LoopVisits, Seeing
<1> QED BY <1>1, <1>2, <1>3, <1>4, <1>5 DEF Next, Ended

LEMMA Invariance == Spec => []IInv
<1> QED BY InitInv, StepInv, PTL DEF Spec

(* The range and the values that a loop visits are integers of 64 bits:    *)
(* no addition of the loop overflows.                                      *)
THEOREM NoOverflow == Spec => []TypeOK
<1>1. IInv => TypeOK
  BY DEF IInv
<1> QED BY <1>1, Invariance, PTL

(* A loop over a range visits the members of the range in their order, and *)
(* all of them unless it is stopped.                                       *)
THEOREM VisitsRange == Spec => []LoopVisits
<1>1. IInv => LoopVisits
  BY DEF IInv
<1> QED BY <1>1, Invariance, PTL

-----------------------------------------------------------------------------
(* Division with a positive divisor, as arithmetic has it. *)

LEMMA DivMod ==
  ASSUME NEW a \in Int, NEW b \in Nat \ {0}
  PROVE  /\ a \div b \in Int /\ a % b \in 0..(b - 1)
         /\ a = b * (a \div b) + (a % b)
OBVIOUS

LEMMA Divides ==
  ASSUME NEW a \in Int, NEW b \in Nat \ {0}
  PROVE  \E p \in Int, t \in 0..(b - 1) : a \div b = p /\ a % b = t /\ a = b * p + t
BY DivMod

LEMMA DivUnique ==
  ASSUME NEW b \in Nat \ {0}, NEW q \in Int, NEW r \in 0..(b - 1)
  PROVE  (b * q + r) \div b = q /\ (b * q + r) % b = r
OBVIOUS

LEMMA Products ==
  ASSUME NEW a \in Int, NEW b \in Int, NEW c \in Int
  PROVE  /\ a * b \in Int /\ (-a) * b = -(a * b) /\ a * (-b) = -(a * b)
         /\ a * (b + c) = a * b + a * c /\ a * (b - c) = a * b - a * c
OBVIOUS

LEMMA ProductGrows ==
  ASSUME NEW b \in Nat \ {0}, NEW i \in Int, NEW j \in Int, i < j
  PROVE  b * i + b <= b * j
OBVIOUS

LEMMA RestsDiffer ==
  ASSUME NEW b \in Nat \ {0}, NEW p \in Int, NEW q \in Int,
         NEW r \in 0..(b - 1), NEW t \in 0..(b - 1)
  PROVE  ((b * p + r) - (b * q + t)) % b = 0 <=> r = t
<1>1. b * p \in Int /\ b * q \in Int /\ b * (p - q) = b * p - b * q
  OBVIOUS
<1>2. b * ((p - q) - 1) = b * (p - q) - b
  OBVIOUS
<1>3. CASE r >= t
  <2>1. r - t \in 0..(b - 1) /\ p - q \in Int
    BY <1>3
  <2>2. (b * p + r) - (b * q + t) = b * (p - q) + (r - t)
    BY <1>1
  <2>3. (b * (p - q) + (r - t)) % b = r - t
    BY <2>1, DivUnique
  <2> QED BY <2>2, <2>3
<1>4. CASE r < t
  <2>1. b + r - t \in 0..(b - 1) /\ b + r - t # 0 /\ (p - q) - 1 \in Int
    BY <1>4
  <2>2. (b * p + r) - (b * q + t) = b * ((p - q) - 1) + (b + r - t)
    BY <1>1, <1>2
  <2>3. (b * ((p - q) - 1) + (b + r - t)) % b = b + r - t
    BY <2>1, DivUnique
  <2> QED BY <1>4, <2>1, <2>2, <2>3
<1> QED BY <1>3, <1>4

(* Two integers have the same rest iff their difference is a multiple. *)
LEMMA SameRest ==
  ASSUME NEW b \in Nat \ {0}, NEW m \in Int, NEW n \in Int
  PROVE  m % b = n % b <=> (m - n) % b = 0
<1>1. \A p, q \in Int : \A r, t \in 0..(b - 1) :
        ((b * p + r) - (b * q + t)) % b = 0 <=> r = t
  BY RestsDiffer
<1>2. PICK p \in Int, r \in 0..(b - 1) : m % b = r /\ m = b * p + r
  BY DivMod
<1>3. PICK q \in Int, t \in 0..(b - 1) : n % b = t /\ n = b * q + t
  BY DivMod
<1>4. ((b * p + r) - (b * q + t)) % b = 0 <=> r = t
  BY <1>1
<1> QED BY <1>2, <1>3, <1>4, Zenon

LEMMA NoRestEitherWay ==
  ASSUME NEW b \in Nat \ {0}, NEW m \in Int
  PROVE  (-m) % b = 0 <=> m % b = 0
<1>1. 0 - m = -m /\ 0 \in Int
  OBVIOUS
<1>2. 0 % b = m % b <=> (0 - m) % b = 0
  BY <1>1, SameRest, Zenon
<1>3. 0 % b = 0
  OBVIOUS
<1> QED BY <1>1, <1>2, <1>3, Zenon

(* C's division and remainder, by the signs. *)
LEMMA Truncates ==
  ASSUME NEW a \in Int, NEW s \in Int \ {0}
  PROVE  /\ Abs(s) \in Nat \ {0}
         /\ Remainder(a, s) = IF a < 0 THEN -((-a) % Abs(s)) ELSE a % Abs(s)
<1> DEFINE k == Abs(s)
           m == Abs(a)
           q == m \div k
           u == m % k
<1>1. k \in Nat \ {0} /\ m \in Nat /\ (s > 0 => k = s) /\ (s < 0 => k = -s)
      /\ (a < 0 => m = -a) /\ (a >= 0 => m = a)
  BY DEF Abs
<1>2. Remainder(a, s) = a - s * (IF (a < 0) = (s < 0) THEN q ELSE -q)
  BY DEF Remainder, Quotient
<1> HIDE DEF k, m
<1>3. q \in Int /\ u \in 0..(k - 1) /\ m = k * q + u
  BY <1>1, DivMod
<1> HIDE DEF q, u
<1>4. s * q \in Int /\ s * (-q) = -(s * q)
  BY <1>3
<1>5. (s > 0 => k * q = s * q) /\ (s < 0 => k * q = -(s * q))
  <2>1. CASE s > 0
    BY <1>1, <2>1
  <2>2. CASE s < 0
    BY <1>1, <1>3, <2>2
  <2> QED BY <2>1, <2>2
<1>6. Remainder(a, s) = IF a < 0 THEN -u ELSE u
  <2>1. CASE (a < 0) = (s < 0)
    <3>1. Remainder(a, s) = a - s * q
      BY <1>2, <2>1
    <3> QED BY <1>1, <1>3, <1>4, <1>5, <2>1, <3>1
  <2>2. CASE (a < 0) # (s < 0)
    <3>1. Remainder(a, s) = a - s * (-q)
      BY <1>2, <2>2
    <3>2. Remainder(a, s) = a + s * q
      BY <1>4, <3>1
    <3> QED BY <1>1, <1>3, <1>4, <1>5, <2>2, <3>2
  <2> QED BY <2>1, <2>2
<1>7. u = IF a < 0 THEN (-a) % Abs(s) ELSE a % Abs(s)
  BY <1>1 DEF u, k
<1> QED BY <1>1, <1>6, <1>7 DEF k

-----------------------------------------------------------------------------
(* Membership: the code compares remainders, which have the sign of the    *)
(* dividend, so that it is right for values of the same sign as `first'.   *)
LEMMA ContainsMembers ==
  ASSUME NEW r \in AnyRange, r.step # 0, NEW n \in Int64, n * r.first > 0
  PROVE  RangeContains(r, n) <=> n \in Members(r)
<1> PICK f, s, k : f = r.first /\ s = r.step /\ k = Abs(r.step)
  OBVIOUS
<1>1. f \in Int /\ s \in Int \ {0} /\ n \in Int /\ r.last \in Int
  BY RangesAssumption DEF AnyRange, Int64, IntMin
<1>2. /\ k \in Nat \ {0}
      /\ Remainder(n, s) = IF n < 0 THEN -((-n) % k) ELSE n % k
      /\ Remainder(f, s) = IF f < 0 THEN -((-f) % k) ELSE f % k
  BY <1>1, Truncates
<1>3. (n > 0 /\ f > 0) \/ (n < 0 /\ f < 0)
  BY <1>1
<1>4. Remainder(n, s) = Remainder(f, s) <=> (n - f) % k = 0
  <2>1. CASE n > 0 /\ f > 0
    <3>1. n % k = f % k <=> (n - f) % k = 0
      BY <1>1, <1>2, SameRest, Zenon
    <3> QED BY <1>1, <1>2, <2>1, <3>1
  <2>2. CASE n < 0 /\ f < 0
    <3>1. -n \in Int /\ -f \in Int /\ (-n) - (-f) = -(n - f) /\ n - f \in Int
      BY <1>1
    <3>2. (-n) % k = (-f) % k <=> ((-n) - (-f)) % k = 0
      BY <1>2, <3>1, SameRest, Zenon
    <3>3. (-n) % k \in Int /\ (-f) % k \in Int
      BY <1>2, <3>1
    <3> QED BY <1>2, <2>2, <3>1, <3>2, <3>3, NoRestEitherWay
  <2> QED BY <1>3, <2>1, <2>2
<1>5. Between(r, n) <=> IF s >= 0 THEN f <= n /\ n <= r.last ELSE r.last <= n /\ n <= f
  BY <1>1 DEF Between
<1> QED BY <1>4, <1>5 DEF RangeContains, Members

-----------------------------------------------------------------------------
(* The values of a range: len of them from a, in steps of s. *)
Line(a, s, len) == {a + (i - 1) * s : i \in 1..len}

(* m does not lie behind n for a range whose step is s. *)
Ahead(s, m, n) == IF s > 0 THEN m <= n ELSE n <= m

LEMMA Multiples ==
  ASSUME NEW k \in Nat \ {0}, NEW m \in Nat, NEW u \in 0..(k - 1), NEW e \in Nat
  PROVE  e <= k * m + u /\ e % k = 0 <=> \E j \in 0..m : e = k * j
<1>1. ASSUME e <= k * m + u, e % k = 0 PROVE \E j \in 0..m : e = k * j
  <2>1. PICK j \in Int : e = k * j
    <3>1. e = k * (e \div k) + (e % k) /\ e \div k \in Int
      BY DivMod
    <3> QED BY <1>1, <3>1
  <2>2. ~(j < 0)
    <3> SUFFICES ASSUME j < 0 PROVE FALSE
      OBVIOUS
    <3>1. k * j + k <= k * 0
      BY ProductGrows
    <3> QED BY <2>1, <3>1
  <2>3. ~(m < j)
    <3> SUFFICES ASSUME m < j PROVE FALSE
      OBVIOUS
    <3>1. k * m + k <= k * j
      BY ProductGrows
    <3>2. k * m \in Int /\ k * j \in Int
      OBVIOUS
    <3> QED BY <1>1, <2>1, <3>1, <3>2
  <2> QED BY <2>1, <2>2, <2>3
<1>2. ASSUME NEW j \in 0..m, e = k * j PROVE e <= k * m + u /\ e % k = 0
  <2>1. k * j \in Int /\ k * m \in Int
    OBVIOUS
  <2>2. (k * j + 0) % k = 0
    BY DivUnique
  <2>3. k * j <= k * m
    <3>1. CASE j = m
      BY <2>1, <3>1
    <3>2. CASE j < m
      <4>1. k * j + k <= k * m
        BY <3>2, ProductGrows
      <4> QED BY <2>1, <4>1
    <3> QED BY <3>1, <3>2
  <2> QED BY <1>2, <2>1, <2>2, <2>3
<1> QED BY <1>1, <1>2

(* C's quotient counts the steps between two values. *)
LEMMA Quotients ==
  ASSUME NEW s \in Int \ {0}, NEW d \in Int, Ahead(s, 0, d)
  PROVE  /\ Quotient(d, s) \in Nat
         /\ \E u \in 0..(Abs(s) - 1) : Abs(d) = Abs(s) * Quotient(d, s) + u
<1> DEFINE k == Abs(s)
           e == Abs(d)
           q == e \div k
           u == e % k
<1>1. k \in Nat \ {0} /\ e \in Nat /\ (d = 0 <=> e = 0)
  BY DEF Abs
<1>2. (d < 0) = (s < 0) \/ d = 0
  BY DEF Ahead
<1>3. Quotient(d, s) = IF (d < 0) = (s < 0) THEN q ELSE -q
  BY DEF Quotient
<1> HIDE DEF k, e
<1>4. q \in Int /\ u \in 0..(k - 1) /\ e = k * q + u
  BY <1>1, DivMod
<1>5. e = 0 => q = 0
  BY <1>1
<1>6. q >= 0
  BY <1>1
<1> HIDE DEF q, u
<1>7. Quotient(d, s) = q
  BY <1>1, <1>2, <1>3, <1>5
<1> QED BY <1>4, <1>6, <1>7 DEF k, e

LEMMA LineMembers ==
  ASSUME NEW a \in Int, NEW l \in Int, NEW n \in Int, NEW s \in Int \ {0}, Ahead(s, a, l)
  PROVE  Ahead(s, a, n) /\ Ahead(s, n, l) /\ (n - a) % Abs(s) = 0
           <=> n \in Line(a, s, Quotient(l - a, s) + 1)
<1> DEFINE m == Quotient(l - a, s)
           k == Abs(s)
<1>1. k \in Nat \ {0} /\ l - a \in Int /\ Ahead(s, 0, l - a)
  BY DEF Abs, Ahead
<1>2. m \in Nat /\ \E u \in 0..(k - 1) : Abs(l - a) = k * m + u
  BY <1>1, Quotients
<1> HIDE DEF m
<1>3. PICK u \in 0..(k - 1) : Abs(l - a) = k * m + u
  BY <1>2
<1>4. n \in Line(a, s, m + 1) <=> \E j \in 0..m : n = a + j * s
  <2>1. ASSUME NEW i \in 1..(m + 1) PROVE i - 1 \in 0..m
    BY <1>2
  <2>2. ASSUME NEW j \in 0..m PROVE j + 1 \in 1..(m + 1) /\ (j + 1) - 1 = j
    BY <1>2
  <2> QED BY <2>1, <2>2 DEF Line
<1>5. CASE s > 0
  <2>1. k = s /\ (Ahead(s, a, n) <=> n - a \in Nat) /\ (Ahead(s, n, l) <=> n - a <= Abs(l - a))
    BY <1>5 DEF Abs, Ahead
  <2> HIDE DEF k
  <2>2. n - a \in Nat =>
          (n - a <= k * m + u /\ (n - a) % k = 0 <=> \E j \in 0..m : n - a = k * j)
    BY ZenonT(30), <1>1, <1>2, Multiples
  <2>3. ASSUME NEW j \in 0..m PROVE n = a + j * s <=> n - a = k * j
    <3>1. k * j = j * s /\ j * s \in Int
      BY <1>5, <2>1
    <3> QED BY <3>1
  <2>4. ASSUME NEW j \in 0..m, n - a = k * j PROVE n - a \in Nat
    BY <1>1, <1>2, <2>4
  <2>5. Ahead(s, a, n) /\ Ahead(s, n, l) <=> n - a \in Nat /\ n - a <= k * m + u
    BY <1>3, <2>1
  <2>6. Ahead(s, a, n) /\ Ahead(s, n, l) /\ (n - a) % k = 0 <=> \E j \in 0..m : n - a = k * j
    BY <2>2, <2>4, <2>5, Zenon
  <2>7. (\E j \in 0..m : n - a = k * j) <=> n \in Line(a, s, m + 1)
    BY <1>4, <2>3, Zenon
  <2> QED BY <2>6, <2>7, Zenon DEF k, m
<1>6. CASE s < 0
  <2>1. k = -s /\ (Ahead(s, a, n) <=> a - n \in Nat) /\ (Ahead(s, n, l) <=> a - n <= Abs(l - a))
    BY <1>6 DEF Abs, Ahead
  <2> HIDE DEF k
  <2>2. a - n \in Nat =>
          (a - n <= k * m + u /\ (a - n) % k = 0 <=> \E j \in 0..m : a - n = k * j)
    BY ZenonT(30), <1>1, <1>2, Multiples
  <2>3. ASSUME NEW j \in 0..m PROVE n = a + j * s <=> a - n = k * j
    <3>1. k * j = -(j * s) /\ j * s \in Int
      BY <1>6, <2>1
    <3> QED BY <3>1
  <2>4. ASSUME NEW j \in 0..m, a - n = k * j PROVE a - n \in Nat
    BY <1>1, <1>2, <2>4
  <2>5. (n - a) % k = 0 <=> (a - n) % k = 0
    <3>1. a - n = -(n - a) /\ n - a \in Int
      OBVIOUS
    <3> QED BY <1>1, <3>1, NoRestEitherWay
  <2>6. Ahead(s, a, n) /\ Ahead(s, n, l) <=> a - n \in Nat /\ a - n <= k * m + u
    BY <1>3, <2>1
  <2>7. Ahead(s, a, n) /\ Ahead(s, n, l) /\ (n - a) % k = 0 <=> \E j \in 0..m : a - n = k * j
    BY <2>2, <2>4, <2>5, <2>6, Zenon
  <2>8. (\E j \in 0..m : a - n = k * j) <=> n \in Line(a, s, m + 1)
    BY <1>4, <2>3, Zenon
  <2> QED BY <2>7, <2>8, Zenon DEF k, m
<1> QED BY <1>5, <1>6 DEF m

LEMMA LineSize ==
  ASSUME NEW a \in Int, NEW s \in Int \ {0}, NEW len \in Nat
  PROVE  Cardinality(Line(a, s, len)) = len
<1> DEFINE f == [i \in 1..len |-> a + (i - 1) * s]
<1>1. f \in [1..len -> Line(a, s, len)]
  BY DEF Line
<1>2. \A n \in Line(a, s, len) : \E i \in 1..len : f[i] = n
  BY DEF Line
<1>3. ASSUME NEW i \in 1..len, NEW j \in 1..len, f[i] = f[j] PROVE i = j
  <2>1. a + (i - 1) * s = a + (j - 1) * s
    BY <1>3
  <2>2. (i - 1) * s \in Int /\ (j - 1) * s \in Int /\ (i - 1) * s - (j - 1) * s = (i - j) * s
    OBVIOUS
  <2>3. (i - j) * s = 0
    BY <2>1, <2>2
  <2> QED BY <2>3
<1>4. ExistsBijection(1..len, Line(a, s, len))
  <2> HIDE DEF f
  <2>1. f \in Bijection(1..len, Line(a, s, len))
    BY <1>1, <1>2, <1>3, Fun_IsBij
  <2> QED BY <2>1, Fun_ExistsBij
<1>5. IsFiniteSet(1..len) /\ Cardinality(1..len) = len
  BY FS_Interval
<1> QED BY <1>4, <1>5, FS_Bijection

LEMMA BetweenAhead ==
  ASSUME NEW r \in AnyRange, r.step # 0, NEW n \in Int
  PROVE  Between(r, n) <=> Ahead(r.step, r.first, n) /\ Ahead(r.step, n, r.last)
BY RangesAssumption DEF AnyRange, Int64, IntMin, Between, Ahead

LEMMA RangeTypes ==
  ASSUME NEW r \in AnyRange, r.step # 0
  PROVE  r.first \in Int /\ r.last \in Int /\ r.step \in Int \ {0} /\ Int64 \subseteq Int
BY RangesAssumption DEF AnyRange, Int64, IntMin

(* What a range means, as a line of values. *)
LEMMA RangeMembers ==
  ASSUME NEW r \in AnyRange, r.step # 0, Ahead(r.step, r.first, r.last)
  PROVE  Members(r) = Line(r.first, r.step, Quotient(r.last - r.first, r.step) + 1)
<1> DEFINE len == Quotient(r.last - r.first, r.step) + 1
<1>1. r.first \in Int /\ r.last \in Int /\ r.step \in Int \ {0} /\ Int64 \subseteq Int
  BY RangeTypes
<1>2. ASSUME NEW n \in Int
      PROVE  Between(r, n) /\ (n - r.first) % Abs(r.step) = 0 <=> n \in Line(r.first, r.step, len)
  <2>1. Between(r, n) <=> Ahead(r.step, r.first, n) /\ Ahead(r.step, n, r.last)
    BY BetweenAhead
  <2>2. Ahead(r.step, r.first, n) /\ Ahead(r.step, n, r.last) /\ (n - r.first) % Abs(r.step) = 0
          <=> n \in Line(r.first, r.step, len)
    BY <1>1, LineMembers
  <2> QED BY <2>1, <2>2, Zenon
<1>3. ASSUME NEW n \in Int, Between(r, n) PROVE n \in Int64
  BY <1>3, RangesAssumption DEF AnyRange, Int64, IntMin, Between
<1>4. Line(r.first, r.step, len) \subseteq Int
  <2>1. Quotient(r.last - r.first, r.step) \in Nat
    <3>1. r.last - r.first \in Int /\ Ahead(r.step, 0, r.last - r.first)
      BY <1>1 DEF Ahead
    <3> QED BY <1>1, <3>1, Quotients
  <2>2. \A i \in 1..len : r.first + (i - 1) * r.step \in Int
    BY <1>1, <2>1
  <2> QED BY <2>2 DEF Line
<1> HIDE DEF len
<1>5. Members(r) = Line(r.first, r.step, len)
  BY <1>1, <1>2, <1>3, <1>4, Zenon DEF Members
<1> QED BY <1>5 DEF len

LEMMA NoMembers ==
  ASSUME NEW r \in AnyRange, r.step # 0, ~Ahead(r.step, r.first, r.last)
  PROVE  Members(r) = {}
BY RangesAssumption DEF AnyRange, Int64, IntMin, Members, Between, Ahead

(* A range that is empty by less than a step has no length. *)
LEMMA EmptyQuotient ==
  ASSUME NEW s \in Int \ {0}, Abs(s) = 1, NEW d \in Int, ~Ahead(s, 0, d)
  PROVE  Quotient(d, s) = -Abs(d) /\ Abs(d) \in Nat \ {0}
<1>1. Abs(d) \in Nat \ {0} /\ (d < 0) # (s < 0)
  BY DEF Abs, Ahead
<1>2. Quotient(d, s) = -(Abs(d) \div 1)
  BY <1>1 DEF Quotient
<1> QED BY <1>1, <1>2

LEMMA LengthIsSize ==
  ASSUME NEW r \in AnyRange, r.step # 0, r.last - r.first \in Int64,
         Cardinality(Members(r)) <= IntMax, Members(r) # {} \/ Abs(r.step) = 1
  PROVE  RangeLen(r) = Cardinality(Members(r))
<1> DEFINE d == r.last - r.first
           q == Quotient(d, r.step)
<1>1. /\ r.first \in Int /\ r.last \in Int /\ r.step \in Int \ {0} /\ IntMax \in Nat
      /\ IntMin = -IntMax - 1 /\ d \in IntMin..IntMax
  BY RangeTypes, RangesAssumption DEF Int64, IntMin
<1>2. Ahead(r.step, 0, d) <=> Ahead(r.step, r.first, r.last)
  BY <1>1 DEF Ahead
<1>3. Wrap(d) = d
  BY <1>1 DEF Wrap
<1>4. RangeLen(r) = NotNegative(Wrap(q + 1))
  BY <1>3 DEF RangeLen
<1>5. CASE Ahead(r.step, r.first, r.last)
  <2>1. q \in Nat
    <3>1. d \in Int /\ Ahead(r.step, 0, d) /\ r.step \in Int \ {0}
      BY <1>1, <1>2, <1>5
    <3> HIDE DEF d
    <3> QED BY <3>1, Quotients
  <2>2. Cardinality(Members(r)) = q + 1
    <3>1. Members(r) = Line(r.first, r.step, q + 1)
      BY <1>5, RangeMembers
    <3>2. q + 1 \in Nat
      BY <2>1
    <3> HIDE DEF q
    <3> QED BY <1>1, <3>1, <3>2, LineSize
  <2> HIDE DEF q, d
  <2>3. Wrap(q + 1) = q + 1
    BY <1>1, <2>1, <2>2 DEF Wrap
  <2> QED BY <1>4, <2>1, <2>2, <2>3 DEF NotNegative
<1>6. CASE ~Ahead(r.step, r.first, r.last)
  <2>1. Members(r) = {}
    BY <1>6, NoMembers
  <2>2. q = -Abs(d) /\ Abs(d) \in Nat \ {0} /\ Abs(d) <= IntMax + 1
    <3>1. Abs(r.step) = 1
      BY <2>1
    <3>2. Abs(d) <= IntMax + 1
      BY <1>1 DEF Abs
    <3> QED BY <1>1, <1>2, <1>6, <3>1, <3>2, EmptyQuotient
  <2>3. Cardinality({}) = 0
    BY FS_EmptySet
  <2> HIDE DEF q, d
  <2>4. Wrap(q + 1) = q + 1 /\ q + 1 <= 0
    BY <1>1, <2>2 DEF Wrap
  <2>5. NotNegative(q + 1) = 0
    BY <2>2, <2>4 DEF NotNegative
  <2> QED BY <1>4, <2>1, <2>3, <2>4, <2>5
<1> QED BY <1>5, <1>6

(* The length of a range is the number of the values that a loop over it   *)
(* visits, and membership in it agrees with them, wherever the code can    *)
(* tell: see MembersAgree.                                                 *)
THEOREM LengthAgrees == Spec => []MembersAgree
<1>1. TypeOK => MembersAgree
  BY LengthIsSize, ContainsMembers DEF TypeOK, MembersAgree
<1> QED BY <1>1, NoOverflow, PTL

-----------------------------------------------------------------------------
(* Slices. *)

(* A multiple of k that is more than -k is no less than 0. *)
LEMMA NextMultiple ==
  ASSUME NEW k \in Nat \ {0}, NEW e \in Int, e % k = 0, e > -k
  PROVE  e >= 0
<1>1. PICK j \in Int : e = k * j
  <2>1. e = k * (e \div k) + (e % k) /\ e \div k \in Int
    BY DivMod
  <2> QED BY <2>1
<1>2. ASSUME j < 0 PROVE FALSE
  <2>1. k * j + k <= k * 0
    BY <1>2, ProductGrows
  <2> QED BY <1>1, <2>1
<1>3. j >= 0 => k * j >= 0
  OBVIOUS
<1> QED BY <1>1, <1>2, <1>3

LEMMA WholeSteps ==
  ASSUME NEW k \in Nat \ {0}, NEW m \in Nat, NEW n \in Nat, k * m <= n
  PROVE  m <= n \div k
<1>1. PICK p \in Int, u \in 0..(k - 1) : n \div k = p /\ n = k * p + u
  BY DivMod
<1>2. ASSUME p < m PROVE FALSE
  <2>1. k * p + k <= k * m
    BY <1>2, ProductGrows
  <2>2. k * p \in Int /\ k * m \in Int
    OBVIOUS
  <2> QED BY <1>1, <2>1, <2>2
<1> QED BY <1>1, <1>2

(* Values a whole number of steps apart are reached by the same steps. *)
LEMMA SameSteps ==
  ASSUME NEW k \in Nat \ {0}, NEW a \in Int, NEW f \in Int, NEW n \in Int,
         \E j \in Int : a = f + k * j
  PROVE  (n - a) % k = 0 <=> (n - f) % k = 0
<1> PICK j \in Int : a = f + k * j
  OBVIOUS
<1>1. (k * j + 0) % k = 0 /\ k * j \in Int
  BY DivUnique
<1>2. (a - f) % k = 0
  BY <1>1
<1>3. a % k = f % k <=> (a - f) % k = 0
  BY SameRest, Zenon
<1>4. n % k = a % k <=> (n - a) % k = 0
  BY SameRest, ZenonT(30)
<1>5. n % k = f % k <=> (n - f) % k = 0
  BY SameRest, Zenon
<1> QED BY <1>2, <1>3, <1>4, <1>5, Zenon

LEMMA StrideFits ==
  ASSUME NEW n \in StrideMin..StrideMax
  PROVE  ShortStride(n) = n
<1>1. StrideMax \in Nat /\ StrideMin = -StrideMax - 1
  BY RangesAssumption DEF StrideMin
<1>2. n - StrideMin \in 0..(StrideMax - StrideMin) /\ StrideMax - StrideMin + 1 \in Nat \ {0}
  BY <1>1
<1>3. (n - StrideMin) % (StrideMax - StrideMin + 1) = n - StrideMin
  BY <1>1, <1>2
<1> QED BY <1>1, <1>2, <1>3 DEF ShortStride

(* A forward range that begins before the array begins, from the array's   *)
(* side, at the first of its values that are items.                        *)
LEMMA AlignedUp ==
  ASSUME NEW s \in Nat \ {0}, NEW f \in Int, f < 1
  PROVE  /\ Remainder(f, s) + s \in 1..s
         /\ \E j \in Int : Remainder(f, s) + s = f + s * j
<1>1. Abs(s) = s /\ s \in Int \ {0} /\ -f \in Nat
  BY DEF Abs
<1>2. Remainder(f, s) = IF f < 0 THEN -((-f) % s) ELSE f % s
  BY <1>1, Truncates
<1>3. f = 0 => f % s = 0 /\ (-f) % s = 0
  OBVIOUS
<1>4. Remainder(f, s) = -((-f) % s)
  BY <1>1, <1>2, <1>3
<1>5. PICK p \in Int, t \in 0..(s - 1) : (-f) % s = t /\ -f = s * p + t
  <2>1. -f \in Int
    OBVIOUS
  <2> QED BY <2>1, Divides, Zenon
<1>6. Remainder(f, s) + s = f + s * (p + 1) /\ p + 1 \in Int
  <2>1. s * p \in Int /\ s * (p + 1) = s * p + s
    OBVIOUS
  <2>2. Remainder(f, s) = -t
    BY <1>4, <1>5, Zenon
  <2>3. -f = s * p + t => f = -(s * p) - t
    BY <2>1
  <2>4. -f = s * p + t
    BY <1>5
  <2>5. -t + s = -(s * p) - t + (s * p + s)
    BY <2>1
  <2> QED BY <2>1, <2>2, <2>3, <2>4, <2>5
<1>7. Remainder(f, s) + s \in 1..s
  BY <1>4, <1>5
<1> QED BY <1>6, <1>7

(* A backward range that begins behind the array. *)
LEMMA AlignedDown ==
  ASSUME NEW k \in Nat \ {0}, NEW f \in Nat, NEW length \in Nat
  PROVE  LET near == length - (length % k) + (f % k)
             a == IF near > length THEN near - k ELSE near
         IN  a \in (length - k + 1)..length /\ \E j \in Int : a = f + k * j
<1>1. PICK p \in Int, u \in 0..(k - 1) : length % k = u /\ length = k * p + u
  <2>1. length \in Int
    OBVIOUS
  <2> QED BY <2>1, Divides, Zenon
<1>2. PICK q \in Int, v \in 0..(k - 1) : f % k = v /\ f = k * q + v
  <2>1. f \in Int
    OBVIOUS
  <2> QED BY <2>1, Divides, ZenonT(30)
<1>3. /\ k * p \in Int /\ k * q \in Int /\ k * (p - q) = k * p - k * q
      /\ k * ((p - q) - 1) = k * (p - q) - k
  OBVIOUS
<1> DEFINE near == length - (length % k) + (f % k)
<1>4. near = k * p + v
  BY <1>1, <1>2, <1>3
<1> DEFINE a == IF near > length THEN near - k ELSE near
<1> HIDE DEF near
<1>5. ASSUME near > length
      PROVE  a \in (length - k + 1)..length /\ \E j \in Int : a = f + k * j
  <2>1. near - k = f + k * ((p - q) - 1) /\ (p - q) - 1 \in Int
    BY <1>2, <1>3, <1>4
  <2>2. near - k \in (length - k + 1)..length
    BY <1>1, <1>3, <1>4, <1>5
  <2>3. a = near - k
    BY <1>5
  <2> QED BY <2>1, <2>2, <2>3
<1>6. ASSUME ~(near > length)
      PROVE  a \in (length - k + 1)..length /\ \E j \in Int : a = f + k * j
  <2>1. near = f + k * (p - q) /\ p - q \in Int
    BY <1>2, <1>3, <1>4
  <2>2. near \in (length - k + 1)..length
    BY <1>1, <1>3, <1>4, <1>6
  <2>3. a = near
    BY <1>6
  <2> QED BY <2>1, <2>2, <2>3
<1>7. a \in (length - k + 1)..length /\ \E j \in Int : a = f + k * j
  BY <1>5, <1>6
<1> QED BY <1>7 DEF near

(* n is a whole number of steps of k away from f. *)
InStep(k, f, n) == (n - f) % k = 0

(* From a, a range selects the items that it selects from f. *)
Enters(s, k, f, a, length) ==
  \A n \in 1..length : Ahead(s, f, n) /\ InStep(k, f, n) <=> Ahead(s, a, n) /\ InStep(k, a, n)

LEMMA EntersUp ==
  ASSUME NEW k \in Nat \ {0}, NEW s \in Int, s > 0, NEW f \in Int, f < 1, NEW length \in Nat,
         NEW a \in 1..k, \E j \in Int : a = f + k * j
  PROVE  Enters(s, k, f, a, length)
<1> SUFFICES ASSUME NEW n \in 1..length
             PROVE  Ahead(s, f, n) /\ InStep(k, f, n) <=> Ahead(s, a, n) /\ InStep(k, a, n)
  BY DEF Enters
<1>1. a \in Int /\ n \in Int /\ n - a \in Int /\ n - a > -k
  OBVIOUS
<1>2. (n - a) % k = 0 <=> (n - f) % k = 0
  BY <1>1, SameSteps, Zenon
<1>3. (n - a) % k = 0 => n - a >= 0
  BY <1>1, NextMultiple, Zenon
<1>4. Ahead(s, f, n) /\ (Ahead(s, a, n) <=> n - a >= 0)
  BY <1>1 DEF Ahead
<1> QED BY <1>2, <1>3, <1>4, Zenon DEF InStep

LEMMA EntersDown ==
  ASSUME NEW k \in Nat \ {0}, NEW s \in Int, s < 0, NEW f \in Int, NEW length \in Nat, f > length,
         NEW a \in (length - k + 1)..length, \E j \in Int : a = f + k * j
  PROVE  Enters(s, k, f, a, length)
<1> SUFFICES ASSUME NEW n \in 1..length
             PROVE  Ahead(s, f, n) /\ InStep(k, f, n) <=> Ahead(s, a, n) /\ InStep(k, a, n)
  BY DEF Enters
<1>1. /\ a \in Int /\ n \in Int /\ a - n \in Int /\ a - n > -k
      /\ a - n = -(n - a) /\ n - a \in Int
  OBVIOUS
<1>2. (n - a) % k = 0 <=> (n - f) % k = 0
  BY <1>1, SameSteps, ZenonT(30)
<1>3. (-(n - a)) % k = 0 <=> (n - a) % k = 0
  BY <1>1, NoRestEitherWay, Zenon
<1>4. (a - n) % k = 0 => a - n >= 0
  BY <1>1, NextMultiple, Zenon
<1>5. Ahead(s, f, n) /\ (Ahead(s, a, n) <=> a - n >= 0)
  BY <1>1 DEF Ahead
<1> QED BY <1>1, <1>2, <1>3, <1>4, <1>5, Zenon DEF InStep

(* Where a range enters the array, by the values of its parts. *)
LEMMA AlignedUpEnters ==
  ASSUME NEW s \in Int, s > 0, NEW f \in Int, f < 1, NEW length \in Nat
  PROVE  /\ Remainder(f, s) + s \in Int /\ Remainder(f, s) + s >= 1
         /\ Enters(s, Abs(s), f, Remainder(f, s) + s, length)
<1> DEFINE a == Remainder(f, s) + s
<1>1. s \in Nat \ {0} /\ Abs(s) = s
  BY DEF Abs
<1>2. a \in 1..s /\ \E j \in Int : a = f + s * j
  BY <1>1, AlignedUp, Zenon
<1> HIDE DEF a
<1>3. Enters(s, s, f, a, length)
  BY <1>1, <1>2, EntersUp, Zenon
<1>4. a \in Int /\ a >= 1
  BY <1>1, <1>2
<1> QED BY <1>1, <1>3, <1>4, Zenon DEF a

LEMMA AlignedDownEnters ==
  ASSUME NEW s \in Int, s < 0, NEW f \in Int, NEW length \in Nat, f > length
  PROVE  LET near == length - Remainder(length, -s) + Remainder(f, -s)
             a == IF near > length THEN near + s ELSE near
         IN  a \in Int /\ a <= length /\ Enters(s, Abs(s), f, a, length)
<1> DEFINE k == -s
           near == length - (length % k) + (f % k)
           a == IF near > length THEN near - k ELSE near
<1>1. k \in Nat \ {0} /\ Abs(s) = k /\ Abs(k) = k /\ k \in Int \ {0}
  BY DEF Abs
<1>2. f \in Nat /\ length \in Int /\ ~(length < 0) /\ ~(f < 0)
  OBVIOUS
<1> HIDE DEF k
<1>3. Remainder(length, k) = length % k /\ Remainder(f, k) = f % k
  <2>1. Remainder(length, k) = IF length < 0 THEN -((-length) % Abs(k)) ELSE length % Abs(k)
    BY <1>1, <1>2, Truncates
  <2>2. Remainder(f, k) = IF f < 0 THEN -((-f) % Abs(k)) ELSE f % Abs(k)
    BY <1>1, <1>2, Truncates
  <2> QED BY <1>1, <1>2, <2>1, <2>2, Zenon
<1>4. a \in (length - k + 1)..length /\ \E j \in Int : a = f + k * j
  BY <1>1, <1>2, AlignedDown, Zenon
<1>5. near \in Int
  BY <1>1, <1>2
<1>6. (IF near > length THEN near + s ELSE near) = a
  <2> HIDE DEF near
  <2> QED BY <1>5 DEF k
<1> HIDE DEF a, near
<1>7. Enters(s, k, f, a, length)
  BY <1>1, <1>4, EntersDown, Zenon
<1>8. a \in Int /\ a <= length
  BY <1>1, <1>4
<1>9. near = length - Remainder(length, k) + Remainder(f, k)
  BY <1>3, Zenon DEF near
<1> QED BY <1>1, <1>6, <1>7, <1>8, <1>9, Zenon DEF k

(* The items that a range selects are those that it selects from the value *)
(* at which it enters the array.                                           *)
LEMMA AlignedSelects ==
  ASSUME NEW q \in AnyRange, q.step # 0, NEW length \in Nat
  PROVE  /\ Aligned(q, length) \in Int
         /\ q.step > 0 => Aligned(q, length) >= 1
         /\ q.step < 0 => Aligned(q, length) <= length
         /\ Enters(q.step, Abs(q.step), q.first, Aligned(q, length), length)
<1>1. q.first \in Int /\ q.step \in Int \ {0}
  BY RangeTypes
<1>2. CASE q.step > 0 /\ q.first < 1
  <2>1. Aligned(q, length) = Remainder(q.first, q.step) + q.step
    BY <1>1, <1>2 DEF Aligned
  <2> QED BY <1>1, <1>2, <2>1, AlignedUpEnters
<1>3. CASE q.step < 0 /\ q.first > length
  <2> DEFINE near == length - Remainder(length, -q.step) + Remainder(q.first, -q.step)
             a == IF near > length THEN near + q.step ELSE near
  <2>1. Aligned(q, length) = a
    BY <1>1, <1>3, Zenon DEF Aligned
  <2>2. a \in Int /\ a <= length /\ Enters(q.step, Abs(q.step), q.first, a, length)
    BY <1>1, <1>3, AlignedDownEnters, Zenon
  <2> HIDE DEF a
  <2> QED BY <1>1, <1>3, <2>1, <2>2
<1>4. CASE (q.step > 0 /\ ~(q.first < 1)) \/ (q.step < 0 /\ ~(q.first > length))
  <2>1. Aligned(q, length) = q.first
    BY <1>1, <1>4 DEF Aligned
  <2> QED BY <1>1, <1>4, <2>1 DEF Enters
<1> QED BY <1>1, <1>2, <1>3, <1>4

(* A stride that fits: the step is not clamped. *)
LEMMA ResolvedRange ==
  ASSUME NEW r \in AnyRange, r.step # 0, NEW length \in 0..MaxLength,
         ItemSize * r.step \in StrideMin..StrideMax
  PROVE  /\ Resolved(r, length) \in AnyRange /\ Resolved(r, length).step = r.step
         /\ r.first # IntMin => Resolved(r, length).first = r.first
         /\ r.last # IntMax => Resolved(r, length).last = r.last
         /\ r.step > 0 => /\ r.first = IntMin => Resolved(r, length).first = 1
                          /\ r.last = IntMax => Resolved(r, length).last = length
<1>1. /\ r.first \in Int64 /\ r.last \in Int64 /\ r.step \in Int64 /\ r.step \in Int
      /\ length \in Int64 /\ 1 \in Int64
      /\ StrideMax \in Nat /\ StrideMin = -StrideMax - 1 /\ ItemSize \in Nat \ {0}
  BY RangesAssumption DEF AnyRange, Int64, IntMin, StrideMin
<1>2. Clamped(r.step) = r.step
  <2>1. ItemSize * r.step = (ItemSize - 1) * r.step + r.step /\ (ItemSize - 1) * r.step \in Int
    BY <1>1
  <2>2. r.step > 0 => (ItemSize - 1) * r.step >= 0
    BY <1>1
  <2>3. r.step < 0 => (ItemSize - 1) * r.step <= 0
    BY <1>1
  <2>4. r.step \in StrideMin..StrideMax
    BY <1>1, <2>1, <2>2, <2>3
  <2> QED BY <1>1, <2>4 DEF Clamped
<1>3. Resolved(r, length) =
        [step |-> r.step,
         first |-> IF r.first # IntMin THEN r.first ELSE IF r.step < 0 THEN length ELSE 1,
         last |-> IF r.last # IntMax THEN r.last ELSE IF r.step < 0 THEN 1 ELSE length]
  BY <1>2, Zenon DEF Resolved
<1> QED BY <1>1, <1>3 DEF AnyRange

(* The items that a range selects, as a line of values. *)
LEMMA SelectedLine ==
  ASSUME NEW q \in AnyRange, q.step # 0, NEW length \in 0..MaxLength, q.last \in 1..length
  PROVE  LET a == Aligned(q, length)
         IN  Members(q) \cap 1..length
               = IF a \in 1..length /\ Ahead(q.step, a, q.last)
                 THEN Line(a, q.step, Quotient(q.last - a, q.step) + 1) ELSE {}
<1> DEFINE a == Aligned(q, length)
           s == q.step
           L == Line(a, s, Quotient(q.last - a, s) + 1)
<1>1. /\ length \in Nat /\ \A n \in 1..length : n \in Int64 /\ n \in Int
      /\ q.first \in Int /\ s \in Int \ {0} /\ q.last \in Int
  BY RangeTypes, RangesAssumption DEF Int64, IntMin
<1>2. /\ a \in Int /\ (s > 0 => a >= 1) /\ (s < 0 => a <= length)
      /\ Enters(s, Abs(s), q.first, a, length)
  BY <1>1, AlignedSelects
<1> HIDE DEF a, s
<1>3. ASSUME NEW n \in 1..length
      PROVE  n \in Members(q) <=> Ahead(s, a, n) /\ Ahead(s, n, q.last) /\ (n - a) % Abs(s) = 0
  <2>1. Between(q, n) <=> Ahead(s, q.first, n) /\ Ahead(s, n, q.last)
    BY <1>1, BetweenAhead DEF s
  <2>2. n \in Members(q) <=> Between(q, n) /\ (n - q.first) % Abs(s) = 0
    BY <1>1 DEF Members, s
  <2>3. Ahead(s, q.first, n) /\ (n - q.first) % Abs(s) = 0
          <=> Ahead(s, a, n) /\ (n - a) % Abs(s) = 0
    BY <1>2, Zenon DEF Enters, InStep
  <2> QED BY <2>1, <2>2, <2>3, Zenon
<1>4. CASE a \in 1..length /\ Ahead(s, a, q.last)
  <2>1. ASSUME NEW n \in 1..length PROVE n \in Members(q) <=> n \in L
    <3>1. Ahead(s, a, n) /\ Ahead(s, n, q.last) /\ (n - a) % Abs(s) = 0 <=> n \in L
      BY <1>1, <1>2, <1>4, <2>1, LineMembers
    <3> QED BY <1>3, <3>1, Zenon
  <2>2. L \subseteq 1..length
    <3> SUFFICES ASSUME NEW n \in L PROVE n \in 1..length
      OBVIOUS
    <3>1. n \in Int
      <4>1. Quotient(q.last - a, s) \in Nat
        <5>1. q.last - a \in Int /\ Ahead(s, 0, q.last - a)
          BY <1>1, <1>2, <1>4 DEF Ahead
        <5> QED BY <1>1, <5>1, Quotients
      <4> QED BY <1>1, <1>2, <4>1 DEF Line
    <3>2. Ahead(s, a, n) /\ Ahead(s, n, q.last)
      <4>1. Ahead(s, a, n) /\ Ahead(s, n, q.last) /\ (n - a) % Abs(s) = 0 <=> n \in L
        BY <1>1, <1>2, <1>4, <3>1, LineMembers
      <4> QED BY <4>1
    <3> QED BY <1>1, <1>2, <1>4, <3>1, <3>2 DEF Ahead
  <2> HIDE DEF L
  <2>3. Members(q) \cap 1..length = L
    BY <2>1, <2>2, Zenon
  <2> QED BY <1>4, <2>3, Zenon DEF L, a, s
<1>5. CASE ~(a \in 1..length /\ Ahead(s, a, q.last))
  <2>1. ASSUME NEW n \in 1..length, Ahead(s, a, n), Ahead(s, n, q.last) PROVE FALSE
    BY <1>1, <1>2, <1>5, <2>1 DEF Ahead
  <2>2. Members(q) \cap 1..length = {}
    BY <1>3, <2>1, Zenon
  <2> QED BY <1>5, <2>2, Zenon DEF a, s
<1> QED BY <1>4, <1>5, Zenon

(* The slice that the code makes. *)
LEMMA SliceIsLine ==
  ASSUME NEW r \in AnyRange, r.step # 0, NEW length \in 0..MaxLength, CutsWell(r, length)
  PROVE  LET q == Resolved(r, length)
             a == Aligned(q, length)
         IN  /\ a \in 1..length /\ Ahead(r.step, a, q.last) =>
                  /\ Quotient(q.last - a, r.step) \in Nat
                  /\ RangeSlice(r, length)
                       = [offset |-> ItemSize * (a - 1), length |-> Quotient(q.last - a, r.step) + 1,
                          stride |-> ItemSize * r.step]
             /\ ~(a \in 1..length /\ Ahead(r.step, a, q.last)) => RangeSlice(r, length).length = 0
<1> DEFINE q == Resolved(r, length)
           a == Aligned(q, length)
           s == r.step
           d == q.last - a
           m == Quotient(d, s)
<1>1. /\ ItemSize * s \in StrideMin..StrideMax /\ q.last \in 1..length
      /\ Selected(r, length) # {} \/ Abs(s) = 1
  BY Zenon DEF CutsWell
<1>2. q \in AnyRange /\ q.step = s /\ s \in Int \ {0}
  BY <1>1, ResolvedRange, RangeTypes
<1>3. /\ length \in Nat /\ length < IntMax /\ IntMax \in Nat /\ IntMin = -IntMax - 1
      /\ q.last \in Int /\ ItemSize \in Nat \ {0}
  BY <1>1, RangesAssumption DEF IntMin
<1>4. a \in Int
  BY <1>2, <1>3, AlignedSelects
<1>5. Selected(r, length)
        = IF a \in 1..length /\ Ahead(s, a, q.last) THEN Line(a, s, m + 1) ELSE {}
  BY <1>1, <1>2, SelectedLine, Zenon DEF Selected
<1>6. Abs(s) \in Nat \ {0}
  BY <1>2 DEF Abs
<1>7. RangeSlice(r, length) =
        IF a \notin 1..length THEN [offset |-> 0, length |-> 0, stride |-> 1]
        ELSE [offset |-> ItemSize * (a - 1),
              length |-> Lesser(NotNegative(Quotient(Wrap(d), s) + 1), length \div Abs(s) + 1),
              stride |-> ShortStride(ItemSize * s)]
  BY <1>2, Zenon DEF RangeSlice
<1>8. ShortStride(ItemSize * s) = ItemSize * s
  BY <1>1, StrideFits
<1> HIDE DEF q, a, s
<1>9. a \in 1..length => Wrap(d) = d /\ d \in Int /\ Abs(d) \in 0..length
  BY <1>1, <1>3, <1>4 DEF Wrap, Abs
<1>10. Ahead(s, a, q.last) <=> Ahead(s, 0, d)
  BY <1>3, <1>4 DEF Ahead
<1>11. CASE a \in 1..length /\ Ahead(s, a, q.last)
  <2>1. d \in Int /\ Ahead(s, 0, d) /\ Wrap(d) = d /\ Abs(d) \in Nat /\ Abs(d) <= length
    BY <1>3, <1>9, <1>10, <1>11
  <2> HIDE DEF d
  <2>2. m \in Nat /\ \E u \in 0..(Abs(s) - 1) : Abs(d) = Abs(s) * m + u
    BY <1>2, <2>1, Quotients DEF s
  <2> HIDE DEF m
  <2>3. Abs(s) * m <= length
    BY <1>3, <1>6, <2>1, <2>2 DEF s
  <2>4. m <= length \div Abs(s)
    BY <1>3, <1>6, <2>2, <2>3, WholeSteps DEF s
  <2>5. Lesser(NotNegative(m + 1), length \div Abs(s) + 1) = m + 1
    <3>1. length \div Abs(s) \in Int
      BY <1>3, <1>6 DEF s
    <3>2. NotNegative(m + 1) = m + 1
      BY <2>2 DEF NotNegative
    <3> HIDE DEF s
    <3> QED BY <2>2, <2>4, <3>1, <3>2 DEF Lesser
  <2>6. RangeSlice(r, length)
          = [offset |-> ItemSize * (a - 1), length |-> m + 1, stride |-> ItemSize * s]
    BY <1>7, <1>8, <1>11, <2>1, <2>5, Zenon DEF m, s
  <2> QED BY <1>11, <2>2, <2>6, Zenon DEF m, d, q, a, s
<1>12. CASE a \in 1..length /\ ~Ahead(s, a, q.last)
  <2>1. Abs(s) = 1
    BY <1>1, <1>5, <1>12 DEF s
  <2>2. m = -Abs(d) /\ Abs(d) \in Nat \ {0} /\ Wrap(d) = d
    <3>1. d \in Int /\ ~Ahead(s, 0, d) /\ Wrap(d) = d /\ s \in Int \ {0}
      BY <1>2, <1>9, <1>10, <1>12 DEF s
    <3> HIDE DEF d
    <3> QED BY <2>1, <3>1, EmptyQuotient
  <2>3. RangeSlice(r, length).length = Lesser(NotNegative(m + 1), length \div 1 + 1)
    BY <1>7, <1>12, <2>1, <2>2
  <2> HIDE DEF m, d
  <2>4. NotNegative(m + 1) = 0
    BY <2>2 DEF NotNegative
  <2>5. Lesser(0, length \div 1 + 1) = 0
    BY <1>3 DEF Lesser
  <2>6. RangeSlice(r, length).length = 0
    BY <2>3, <2>4, <2>5, Zenon
  <2> QED BY <1>12, <2>6, Zenon DEF q, a, s
<1>13. CASE a \notin 1..length
  <2>1. RangeSlice(r, length).length = 0
    BY <1>7, <1>13
  <2> QED BY <1>13, <2>1, Zenon DEF q, a, s
<1> QED BY <1>11, <1>12, <1>13, Zenon

(* The addresses of the items of a line of positions are a line. *)
LEMMA AddressesOfLine ==
  ASSUME NEW a \in Int, NEW s \in Int \ {0}, NEW len \in Nat
  PROVE  /\ ItemSize * s \in Int \ {0} /\ ItemSize * (a - 1) \in Int
         /\ Line(ItemSize * (a - 1), ItemSize * s, len)
              = {ItemSize * (n - 1) : n \in Line(a, s, len)}
<1>1. ItemSize \in Nat \ {0}
  BY RangesAssumption
<1>2. ItemSize * s \in Int \ {0} /\ ItemSize * (a - 1) \in Int
  BY <1>1
<1>3. ASSUME NEW i \in 1..len
      PROVE  ItemSize * (a - 1) + (i - 1) * (ItemSize * s) = ItemSize * ((a + (i - 1) * s) - 1)
  <2> PICK j \in Int : j = i - 1
    OBVIOUS
  <2>1. j * s \in Int /\ j * (ItemSize * s) = ItemSize * (j * s)
    BY <1>1
  <2>2. ASSUME NEW t \in Int
        PROVE  ItemSize * ((a + t) - 1) = ItemSize * (a - 1) + ItemSize * t
    BY <1>1
  <2>3. ItemSize * ((a + j * s) - 1) = ItemSize * (a - 1) + ItemSize * (j * s)
    BY <2>1, <2>2
  <2> QED BY <2>1, <2>3
<1> QED BY <1>2, <1>3 DEF Line

(* The low 32 bits of an integer that has no more. *)
LEMMA CastFits ==
  ASSUME NEW n \in Int32
  PROVE  Cast32(n) = n
<1>1. LengthMax \in Nat /\ LengthMin = -LengthMax - 1 /\ n \in LengthMin..LengthMax
  BY RangesAssumption DEF LengthMin, Int32
<1>2. n - LengthMin \in 0..(LengthMax - LengthMin) /\ LengthMax - LengthMin + 1 \in Nat \ {0}
  BY <1>1
<1>3. (n - LengthMin) % (LengthMax - LengthMin + 1) = n - LengthMin
  BY <1>1, <1>2
<1> QED BY <1>1, <1>3 DEF Cast32

(* A literal without step, or with the step 1, is cut in the same way, if  *)
(* its bounds fit into 32 bits.                                            *)
LEMMA LiteralIsSlice ==
  ASSUME NEW l \in Literal, NEW r \in AnyRange, r = RangeOf(l), r.step = 1,
         NEW length \in 0..MaxLength, CutsWell(r, length), FitsLength(l, length),
         RangeSlice(r, length).length > 0
  PROVE  LiteralSlice(l, length) = RangeSlice(r, length)
<1> DEFINE q == Resolved(r, length)
           a == Aligned(q, length)
<1>1. /\ ItemSize * r.step \in StrideMin..StrideMax /\ q.last \in 1..length
  BY Zenon DEF CutsWell
<1>2. /\ q \in AnyRange /\ q.step = 1
      /\ r.first # IntMin => q.first = r.first
      /\ r.last # IntMax => q.last = r.last
      /\ r.first = IntMin => q.first = 1
      /\ r.last = IntMax => q.last = length
  BY <1>1, ResolvedRange
<1>3. /\ length \in Nat /\ length < IntMax /\ IntMax \in Nat /\ IntMin = -IntMax - 1
      /\ r.first \in Int /\ r.last \in Int /\ q.first \in Int /\ q.last \in Int
      /\ ItemSize \in Nat \ {0}
  BY <1>1, <1>2, RangeTypes, RangesAssumption DEF IntMin
<1>4. /\ a \in 1..length /\ Ahead(1, a, q.last)
      /\ RangeSlice(r, length)
           = [offset |-> ItemSize * (a - 1), length |-> Quotient(q.last - a, 1) + 1,
              stride |-> ItemSize * 1]
  BY SliceIsLine
<1>5. a = IF q.first < 1 THEN 1 ELSE q.first
  <2>1. q.first < 1 => Remainder(q.first, 1) + 1 = 1
    <3>1. 1 \in Nat \ {0}
      OBVIOUS
    <3>2. q.first < 1 => Remainder(q.first, 1) + 1 \in 1..1
      BY <1>3, <3>1, AlignedUp
    <3> QED BY <3>2
  <2>2. a = IF q.first < 1 THEN Remainder(q.first, 1) + 1 ELSE q.first
    BY <1>2 DEF Aligned
  <2> QED BY <2>1, <2>2
<1> HIDE DEF q, a
<1>6. Quotient(q.last - a, 1) = q.last - a
  <2>1. q.last - a \in Nat /\ Abs(1) = 1
    BY <1>3, <1>4 DEF Ahead, Abs
  <2>2. Abs(q.last - a) = q.last - a
    BY <2>1 DEF Abs
  <2>3. (q.last - a < 0) = (1 < 0)
    BY <2>1
  <2> QED BY <2>1, <2>2, <2>3 DEF Quotient
<1>7. /\ LengthMax \in Nat /\ LengthMin = -LengthMax - 1 /\ Int32 = LengthMin..LengthMax
      /\ length < LengthMax /\ LengthMax <= IntMax /\ Omitted \notin Int
  BY RangesAssumption DEF LengthMin, Int32
<1>8. (IF l.first = Omitted THEN 0 ELSE NotNegative(Cast32(Cast32(l.first) - 1))) = a - 1
  <2>1. CASE l.first = Omitted
    BY <1>2, <1>5, <2>1 DEF RangeOf, Or
  <2>2. CASE l.first # Omitted
    <3>1. r.first = l.first
      BY <2>2 DEF RangeOf, Or
    <3>2. r.first \in LengthMin + 1..LengthMax
      BY <1>3, <1>7, <2>2, <3>1 DEF FitsLength
    <3>3. r.first \in Int32 /\ r.first - 1 \in Int32
      BY <1>3, <1>7, <3>2
    <3>4. Cast32(l.first) = r.first
      BY <3>1, <3>3, CastFits
    <3>5. Cast32(Cast32(l.first) - 1) = r.first - 1
      BY <3>3, <3>4, CastFits
    <3>6. NotNegative(r.first - 1) = a - 1
      BY <1>2, <1>3, <1>5, <1>7, <3>2 DEF NotNegative
    <3> QED BY <2>2, <3>5, <3>6
  <2> QED BY <2>1, <2>2
<1>9. (IF l.last = Omitted THEN length ELSE Lesser(length, Cast32(l.last))) = q.last
  <2>1. CASE l.last = Omitted
    BY <1>2, <2>1 DEF RangeOf, Or
  <2>2. CASE l.last # Omitted
    <3>1. r.last = l.last /\ l.last \in Int32
      BY <2>2 DEF RangeOf, Or, FitsLength
    <3>2. Cast32(l.last) = r.last
      BY <3>1, CastFits
    <3>3. Lesser(length, r.last) = q.last
      BY <1>1, <1>2, <1>3, <1>7 DEF Lesser, q
    <3> QED BY <2>2, <3>2, <3>3
  <2> QED BY <2>1, <2>2
<1>10. Cast32(ItemSize * (a - 1)) = ItemSize * (a - 1) /\ Cast32(q.last - (a - 1)) = q.last - (a - 1)
  <2>1. ItemSize * (a - 1) \in Nat /\ ItemSize * (a - 1) <= ItemSize * (length - 1)
    BY <1>3, <1>4
  <2>2. ItemSize * (length - 1) <= LengthMax /\ ItemSize * (length - 1) \in Int
    BY <1>3 DEF FitsLength
  <2>3. ItemSize * (a - 1) \in Int32
    BY <1>7, <2>1, <2>2
  <2>4. q.last \in 1..length /\ a \in 1..length /\ length < LengthMax
    BY <1>1, <1>4, <1>7 DEF q
  <2>5. q.last - (a - 1) \in (1 - length)..length
    BY <1>3, <2>4
  <2>6. (1 - length)..length \subseteq Int32
    BY <1>3, <1>7, <2>4
  <2> QED BY <2>3, <2>5, <2>6, CastFits
<1>11. LiteralSlice(l, length)
        = [offset |-> ItemSize * (a - 1), length |-> q.last - (a - 1), stride |-> ItemSize]
  BY <1>8, <1>9, <1>10 DEF LiteralSlice
<1>12. ItemSize * 1 = ItemSize /\ (q.last - a) + 1 = q.last - (a - 1)
  BY <1>3, <1>4
<1> QED BY <1>4, <1>6, <1>11, <1>12

(* The property of one range and one length. *)
LEMMA SliceAgrees ==
  ASSUME NEW l \in Literal, NEW r \in AnyRange, r = RangeOf(l), r.step # 0,
         NEW length \in 0..MaxLength, CutsWell(r, length)
  PROVE  LET slice == RangeSlice(r, length)
             addresses == {slice.offset + (i - 1) * slice.stride : i \in 1..slice.length}
         IN  /\ addresses = {ItemSize * (n - 1) : n \in Selected(r, length)}
             /\ slice.length = Cardinality(addresses)
             /\ slice.length > 1 => slice.stride = ItemSize * r.step
             /\ r.step = 1 /\ slice.length > 0 /\ FitsLength(l, length)
                  => LiteralSlice(l, length) = slice
<1> DEFINE q == Resolved(r, length)
           a == Aligned(q, length)
           s == r.step
           len == Quotient(q.last - a, s) + 1
           slice == RangeSlice(r, length)
           addresses == {slice.offset + (i - 1) * slice.stride : i \in 1..slice.length}
<1>1. q.last \in 1..length /\ ItemSize * s \in StrideMin..StrideMax
  BY Zenon DEF CutsWell
<1>2. q \in AnyRange /\ q.step = s /\ s \in Int \ {0} /\ length \in Nat
  BY <1>1, ResolvedRange, RangeTypes, RangesAssumption
<1>3. a \in Int
  BY <1>2, AlignedSelects
<1>4. Selected(r, length) = IF a \in 1..length /\ Ahead(s, a, q.last) THEN Line(a, s, len) ELSE {}
  BY <1>1, <1>2, SelectedLine, Zenon DEF Selected
<1>5. r.step = 1 /\ slice.length > 0 /\ FitsLength(l, length) => LiteralSlice(l, length) = slice
  BY LiteralIsSlice
<1>6. CASE a \in 1..length /\ Ahead(s, a, q.last)
  <2>1. /\ len \in Nat
        /\ slice = [offset |-> ItemSize * (a - 1), length |-> len, stride |-> ItemSize * s]
    <3>1. /\ Quotient(q.last - a, s) \in Nat
          /\ slice = [offset |-> ItemSize * (a - 1), length |-> len, stride |-> ItemSize * s]
      BY <1>6, SliceIsLine, Zenon
    <3> QED BY <3>1
  <2> HIDE DEF len, slice, a, s
  <2>2. addresses = Line(ItemSize * (a - 1), ItemSize * s, len) /\ slice.length = len
    BY <2>1 DEF Line
  <2>3. /\ ItemSize * s \in Int \ {0} /\ ItemSize * (a - 1) \in Int
        /\ Line(ItemSize * (a - 1), ItemSize * s, len) = {ItemSize * (n - 1) : n \in Line(a, s, len)}
    BY <1>2, <1>3, <2>1, AddressesOfLine DEF s
  <2>4. addresses = {ItemSize * (n - 1) : n \in Selected(r, length)}
    BY <1>4, <1>6, <2>2, <2>3, Zenon
  <2>5. slice.length = Cardinality(addresses)
    <3>1. Cardinality(Line(ItemSize * (a - 1), ItemSize * s, len)) = len
      BY <2>1, <2>3, LineSize
    <3> QED BY <2>2, <3>1, Zenon
  <2>6. slice.stride = ItemSize * s
    BY <2>1
  <2> QED BY <1>5, <2>4, <2>5, <2>6, Zenon DEF slice, s
<1>7. CASE ~(a \in 1..length /\ Ahead(s, a, q.last))
  <2>1. slice.length = 0
    BY <1>7, SliceIsLine, Zenon
  <2> HIDE DEF slice
  <2>2. addresses = {}
    BY <2>1
  <2>3. Selected(r, length) = {}
    BY <1>4, <1>7, Zenon
  <2>4. Cardinality({}) = 0 /\ {ItemSize * (n - 1) : n \in {}} = {}
    BY FS_EmptySet
  <2>5. ~(slice.length > 1)
    BY <2>1
  <2> QED BY <1>5, <2>1, <2>2, <2>3, <2>4, <2>5, Zenon DEF slice, s
<1> QED BY <1>6, <1>7, Zenon

(* A slice has the items that the range selects, each at its address,      *)
(* wherever the code cuts well (CutsWell), and a literal without step is   *)
(* cut in the same way, if its bounds fit into 32 bits (FitsLength).       *)
THEOREM SlicesAreRanges == Spec => []SlicesAgree
<1>1. IInv => SlicesAgree
  <2> SUFFICES ASSUME IInv, pc = "made", NEW length \in 0..MaxLength, CutsWell(range, length)
               PROVE  LET slice == RangeSlice(range, length)
                          addresses == {slice.offset + (i - 1) * slice.stride : i \in 1..slice.length}
                      IN  /\ addresses = {ItemSize * (n - 1) : n \in Selected(range, length)}
                          /\ slice.length = Cardinality(addresses)
                          /\ slice.length > 1 => slice.stride = ItemSize * range.step
                          /\ range.step = 1 /\ slice.length > 0 /\ FitsLength(literal, length)
                               => LiteralSlice(literal, length) = slice
    BY DEF SlicesAgree
  <2>1. range \in AnyRange /\ range.step # 0 /\ literal \in Literal /\ range = RangeOf(literal)
    BY DEF IInv, TypeOK, Seeing
  <2> QED BY <2>1, SliceAgrees
<1> QED BY <1>1, Invariance, PTL
=============================================================================
