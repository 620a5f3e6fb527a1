-------------------------------- MODULE Ranges --------------------------------
(***************************************************************************)
(* Ranges (first..last by step) of 64 bit integers: how a literal becomes  *)
(* a range, the loop over a range, its length, membership                  *)
(* (compile/ranges.c, loops.c), and the slice of an array that a range     *)
(* cuts out (libsss/utils.c; compile/arrays.c for literals without step).  *)
(* The widths of the integers are constants, so that TLC can check small   *)
(* ones.                                                                   *)
(***************************************************************************)
EXTENDS Integers, Sequences, FiniteSets

CONSTANTS
  IntMax,     \* the greatest integer of 64 bits: first, step, last, the items
  LengthMax,  \* the greatest integer of 32 bits: lengths, the bounds of a slice literal
  StrideMax,  \* the greatest integer of 16 bits: the stride of an array, in bytes
  ItemSize,   \* of the arrays that are cut, in bytes
  MaxLength,  \* bound: of the arrays that are cut
  Omitted     \* a part of a literal that is left out

ASSUME RangesAssumption ==
  /\ IntMax \in Nat \ {0} /\ LengthMax \in 1..IntMax /\ StrideMax \in 1..LengthMax
  /\ ItemSize \in 1..StrideMax /\ MaxLength \in 0..LengthMax - 1
  /\ Omitted \notin Int

VARIABLES
  literal,  \* the parts of the range literal
  range,    \* the range, once it is made
  pc,       \* where the program is
  x,        \* the variable of the loop over the range
  visited   \* history: the values that the body of the loop saw, in order

vars == <<literal, range, pc, x, visited>>

IntMin == -IntMax - 1
StrideMin == -StrideMax - 1
LengthMin == -LengthMax - 1
Int64 == IntMin..IntMax
Int32 == LengthMin..LengthMax

(* A sum or difference of two integers keeps its low 64 bits. *)
Wrap(n) ==
  IF n > IntMax THEN n - (IntMax - IntMin + 1)
  ELSE IF n < IntMin THEN n + (IntMax - IntMin + 1)
  ELSE n

(* Division and remainder of C, which truncate; C leaves open what the     *)
(* least integer by -1 gives.                                              *)
Abs(n) == IF n < 0 THEN -n ELSE n
Quotient(a, b) ==
  LET q == Abs(a) \div Abs(b) IN IF (a < 0) = (b < 0) THEN q ELSE -q
Remainder(a, b) == a - b * Quotient(a, b)

-----------------------------------------------------------------------------
Part == Int64 \cup {Omitted}
Literal == [first : Part, step : Part, last : Part]

Init ==
  /\ literal \in Literal
  /\ range = [first |-> 0, step |-> 1, last |-> 0]
  /\ pc = "literal" /\ x = 0 /\ visited = <<>>

Or(part, default) == IF part = Omitted THEN default ELSE part

(* compile_range: open ends are the ends of the integers; a step of 0 fails. *)
RangeOf(l) == [first |-> Or(l.first, IntMin), step |-> Or(l.step, 1), last |-> Or(l.last, IntMax)]

Make ==
  /\ pc = "literal"
  /\ range' = RangeOf(literal)
  /\ pc' = IF range'.step = 0 THEN "failed" ELSE "made"
  /\ UNCHANGED <<literal, x, visited>>

IsEmpty ==
  \/ range.step > 0 /\ range.first > range.last
  \/ range.step < 0 /\ range.first < range.last

Enter ==
  /\ pc = "made"
  /\ IF IsEmpty THEN pc' = "done" /\ UNCHANGED <<x, visited>>
     ELSE pc' = "body" /\ x' = range.first /\ visited' = <<range.first>>
  /\ UNCHANGED <<literal, range>>

(* Bug: the sum is not guarded. *)
BugUnguarded ==
  \/ range.step > 0 /\ Wrap(x + range.step) <= range.last
  \/ range.step < 0 /\ Wrap(x + range.step) >= range.last

(* The next step neither overflows nor goes past `last'. *)
CanContinue ==
  \/ /\ range.step > 0 /\ x <= Wrap(IntMax - range.step)
     /\ Wrap(x + range.step) <= range.last
  \/ /\ range.step < 0 /\ x >= Wrap(IntMin - range.step)
     /\ Wrap(x + range.step) >= range.last

NextItem ==
  /\ pc = "body"
  /\ IF CanContinue
     THEN x' = Wrap(x + range.step) /\ visited' = Append(visited, x') /\ UNCHANGED pc
     ELSE pc' = "done" /\ UNCHANGED <<x, visited>>
  /\ UNCHANGED <<literal, range>>

(* The body stops the loop. *)
Stop ==
  /\ pc = "body" /\ pc' = "stopped"
  /\ UNCHANGED <<literal, range, x, visited>>

(* The end of the program that is modelled. *)
Ended == pc \in {"done", "stopped", "failed"} /\ UNCHANGED vars

Next == Make \/ Enter \/ NextItem \/ Stop \/ Ended

Spec == Init /\ [][Next]_vars

-----------------------------------------------------------------------------
(* range_len, range_contains *)

NotNegative(n) == IF n < 0 THEN 0 ELSE n

(* Bug: the first value is not counted. *)
BugRangeLen(r) == NotNegative(Quotient(Wrap(r.last - r.first), r.step))

RangeLen(r) == NotNegative(Wrap(Quotient(Wrap(r.last - r.first), r.step) + 1))

RangeContains(r, n) ==
  /\ IF r.step >= 0 THEN r.first <= n /\ n <= r.last ELSE r.last <= n /\ n <= r.first
  /\ Remainder(n, r.step) = Remainder(r.first, r.step)

-----------------------------------------------------------------------------
(* range_slice for an array of a length, whose items lie one behind the    *)
(* other.  A slice is the offset of its first item, its length, and its    *)
(* stride, in bytes.                                                       *)

Clamped(step) ==
  IF step > StrideMax THEN StrideMax ELSE IF step < StrideMin THEN StrideMin ELSE step

(* The range with its open ends where the array ends. *)
Resolved(r, length) ==
  LET s == Clamped(r.step)
      low == 1
      high == length
  IN  [step |-> s,
       first |-> IF r.first # IntMin THEN r.first ELSE IF s < 0 THEN high ELSE low,
       last |-> IF r.last # IntMax THEN r.last ELSE IF s < 0 THEN low ELSE high]

(* Bug: a backward range that begins behind the array begins at its end. *)
BugAligned(r, length) ==
  IF r.step < 0 THEN IF r.first > length THEN length ELSE r.first
  ELSE IF r.first < 1 THEN Remainder(r.first, r.step) + r.step ELSE r.first

(* A first value outside of the array moves into it in whole steps. *)
Aligned(r, length) ==
  IF r.step < 0
  THEN LET near == IF r.first > length
                   THEN length - Remainder(length, -r.step) + Remainder(r.first, -r.step)
                   ELSE r.first
       IN  IF near > length THEN near + r.step ELSE near
  ELSE IF r.first < 1 THEN Remainder(r.first, r.step) + r.step ELSE r.first

(* The low 16 bits. *)
ShortStride(n) == ((n - StrideMin) % (StrideMax - StrideMin + 1)) + StrideMin

Lesser(m, n) == IF m < n THEN m ELSE n

(* The length is capped by what fits into the whole array, wherever the    *)
(* slice begins.                                                           *)
RangeSlice(r, length) ==
  LET q == Resolved(r, length)
      first == Aligned(q, length)
      len == Quotient(Wrap(q.last - first), q.step) + 1
  IN  IF first \notin 1..length THEN [offset |-> 0, length |-> 0, stride |-> 1]
      ELSE [offset |-> ItemSize * (first - 1),
            length |-> Lesser(NotNegative(len), length \div Abs(q.step) + 1),
            stride |-> ShortStride(ItemSize * q.step)]

(* The low 32 bits. *)
Cast32(n) == ((n - LengthMin) % (LengthMax - LengthMin + 1)) + LengthMin

(* array_slice for a literal range without step, or with a step that is    *)
(* written as 1: its bounds are cast to 32 bits, and so is what is         *)
(* computed from them.  An offset behind the end of the slice gives a      *)
(* negative length.                                                        *)
LiteralSlice(l, length) ==
  LET offset == IF l.first = Omitted THEN 0 ELSE NotNegative(Cast32(Cast32(l.first) - 1))
      last == IF l.last = Omitted THEN length ELSE Lesser(length, Cast32(l.last))
  IN  [offset |-> Cast32(ItemSize * offset), length |-> Cast32(last - offset), stride |-> ItemSize]

-----------------------------------------------------------------------------
(* What a range means. *)

Between(r, n) == IF r.step > 0 THEN r.first <= n /\ n <= r.last
                               ELSE r.last <= n /\ n <= r.first
Members(r) == {n \in Int64 : Between(r, n) /\ (n - r.first) % Abs(r.step) = 0}

(* The items of an array that a range selects. *)
Selected(r, length) == Members(Resolved(r, length)) \cap 1..length

AnyRange == [first : Int64, step : Int64, last : Int64]
TypeOK ==
  /\ literal \in Literal /\ range \in AnyRange /\ x \in Int64 /\ visited \in Seq(Int64)
  /\ pc \in {"literal", "made", "failed", "body", "done", "stopped"}
  /\ pc \notin {"literal", "failed"} => range.step # 0

(* The body sees first, first + step, and so on, nothing that is not       *)
(* between first and last, and, unless it stops, all of them: also where   *)
(* last, or a step beyond it, is no integer of 64 bits any more.  As the   *)
(* values move towards last by at least one, every loop ends.              *)
LoopVisits ==
  /\ \A i \in DOMAIN visited : Between(range, visited[i])
  /\ visited # <<>> => visited[1] = range.first
  /\ \A i \in DOMAIN visited : i > 1 => visited[i] = visited[i - 1] + range.step
  /\ pc = "done" =>
       ~Between(range, IF visited = <<>> THEN range.first
                       ELSE visited[Len(visited)] + range.step)

(* Length and membership agree with the values that a loop visits.  Not    *)
(* so, in the code, for the length of an empty range with a step, and for  *)
(* members of another sign than `first'.  The remainder of the least       *)
(* integer by -1 overflows, and nothing is said of it.                     *)
MembersAgree ==
  pc = "made" =>
    /\ /\ range.last - range.first \in Int64 /\ Cardinality(Members(range)) <= IntMax
       /\ Members(range) # {} \/ Abs(range.step) = 1
       => RangeLen(range) = Cardinality(Members(range))
    /\ \A n \in Int64 :
         n * range.first > 0 /\ ~(range.step = -1 /\ IntMin \in {n, range.first}) =>
         (RangeContains(range, n) <=> n \in Members(range))

(* The ranges that the code cuts rightly: the last value is an item, the   *)
(* stride fits, and an empty range is empty by less than a step.           *)
CutsWell(r, length) ==
  /\ ItemSize * r.step \in StrideMin..StrideMax
  /\ Resolved(r, length).last \in 1..length
  /\ Selected(r, length) # {} \/ Abs(r.step) = 1

(* The literals whose bounds, less one, and whose items, in bytes, fit     *)
(* into 32 bits.  Of others, such as a[-4294967290..3], the code keeps the *)
(* low bits and cuts elsewhere, or overflows.                              *)
FitsLength(l, length) ==
  /\ l.first # Omitted => l.first \in Int32 \ {LengthMin}
  /\ l.last # Omitted => l.last \in Int32
  /\ ItemSize * (length - 1) <= LengthMax

(* A slice has the items that the range selects, at their addresses; a     *)
(* literal without step is cut in the same way if its bounds fit.          *)
SlicesAgree ==
  pc = "made" =>
    \A length \in 0..MaxLength : CutsWell(range, length) =>
      LET slice == RangeSlice(range, length)
          addresses == {slice.offset + (i - 1) * slice.stride : i \in 1..slice.length}
      IN  /\ addresses = {ItemSize * (n - 1) : n \in Selected(range, length)}
          /\ slice.length = Cardinality(addresses)
          /\ slice.length > 1 => slice.stride = ItemSize * range.step
          /\ range.step = 1 /\ slice.length > 0 /\ FitsLength(literal, length)
               => LiteralSlice(literal, length) = slice
=============================================================================
