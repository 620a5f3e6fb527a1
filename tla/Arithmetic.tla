----------------------------- MODULE Arithmetic -----------------------------
(***************************************************************************)
(* Arithmetic on numbers, truth values, flags, and on the arrays and       *)
(* structs of them (compile/math.c), with the type that is inferred for it *)
(* (typecheck.c, get_math_type).                                           *)
(*                                                                         *)
(* A value is a number, a truth value, a set of flags (of a union without  *)
(* data), or the sequence of the items of an array or the fields of a      *)
(* struct.  A type may be a name for another one; those are seen through.  *)
(* The bitwise operations of integers are left out.                        *)
(***************************************************************************)
EXTENDS Types

Lesser(m, n) == IF m < n THEN m ELSE n
Without(t) == WithUnits(t, "")
Bools == {"and", "or", "xor"}
IsStruct(t) == t.tag = "struct"
IsArray(t) == t.tag = "array"

-----------------------------------------------------------------------------
(* The units of a product or quotient; "other" is for all that are neither *)
(* those of an operand nor none.                                           *)
UnitsOfResult(op, u, v) ==
  CASE op \in {"add", "subtract"} \cup Bools -> IF u = v THEN u ELSE "mismatch"
    [] op \in {"multiply", "divide"} /\ v = "" -> u
    [] op = "multiply" /\ v # "" /\ u = "" -> v
    [] op = "divide" /\ v # "" /\ u = v -> ""
    [] OTHER -> "other"

(* The type of an operation on two numbers.  A name stays for a product    *)
(* with a number that has less precision.                                  *)
NumberType(op, l, r) ==
  CASE l.tag = "variant" /\ r.tag = "variant" -> Err
    [] l.tag = "variant" /\ r.tag # "variant" /\ op \in {"multiply", "divide"}
         /\ Precision(l, r) \in {"equal", "more"} -> l
    [] r.tag = "variant" /\ l.tag # "variant" /\ op = "multiply"
         /\ Precision(r, l) \in {"equal", "more"} -> r
    [] OTHER -> OrType(l, r)

(* get_math_type.  Percents of an array or a struct are what it is of.     *)
MathType(op, l, r) ==
  LET units == UnitsOfResult(op, UnitsOf(l), UnitsOf(r))
      whole(t) == IsStruct(Base(t)) \/ IsArray(Base(t))
      with(t) == IF t = Err THEN Err ELSE WithUnits(t, units)
      scaled(t) == WithUnits(t, IF units = "%" THEN "" ELSE units)
  IN  CASE units = "mismatch" -> Err
        [] units # "mismatch" /\ Same(Without(l), Without(r)) -> with(l)
        [] OTHER ->
             CASE units = "mismatch" -> Err
               [] IsNumeric(l) /\ IsNumeric(r) -> with(NumberType(op, l, r))
               [] IsNumeric(l) /\ whole(r) -> scaled(r)
               [] IsNumeric(r) /\ whole(l) -> scaled(l)
               [] l.tag = "bool" /\ whole(r) /\ op \in Bools -> r
               [] r.tag = "bool" /\ whole(l) /\ op \in Bools -> l
               [] OTHER -> Err

-----------------------------------------------------------------------------
(* Numbers are cast to a type by what its bits can hold. *)
Cast(t, n) ==
  IF t.tag # "int" THEN n
  ELSE LET low == IF t.unsigned THEN 0 ELSE -(2 ^ (t.bits - 1))
       IN  low + ((n - low) % (2 ^ t.bits))

Quotient(m, n) ==
  LET abs(x) == IF x < 0 THEN -x ELSE x
      q == abs(m) \div abs(n)
  IN  IF (m < 0) = (n < 0) THEN q ELSE -q

(* One operation on what is not made of parts. *)
Operate(op, t, l, r) ==
  CASE t.tag = "bool" -> (CASE op = "and" -> l /\ r [] op = "or" -> l \/ r [] op = "xor" -> l # r)
    [] t.tag = "union" -> (CASE op \in {"add", "or"} -> l \cup r
                             [] op = "subtract" -> l \ r
                             [] op = "and" -> l \cap r
                             [] op = "xor" -> (l \ r) \cup (r \ l))
    [] OTHER -> Cast(t, CASE op = "add" -> l + r
                          [] op = "subtract" -> l - r
                          [] op = "multiply" -> l * r
                          [] op = "divide" -> Quotient(l, r))

(* Bug: the type that can be promoted to the other. *)
BugMeeting(l, r) ==
  CASE CanPromote(Without(l), Without(r)) -> l
    [] ~CanPromote(Without(l), Without(r)) /\ CanPromote(Without(r), Without(l)) -> r
    [] OTHER -> Err

(* The type in which two numbers meet: that of the one that the other can  *)
(* be promoted to.                                                         *)
Meeting(l, r) ==
  CASE CanPromote(Without(l), Without(r)) -> r
    [] ~CanPromote(Without(l), Without(r)) /\ CanPromote(Without(r), Without(l)) -> l
    [] OTHER -> Err

IsFlags(t) == t.tag = "union" /\ \A i \in DOMAIN t.members : t.members[i].fields = <<>>

RECURSIVE BuiltType(_, _, _), Build(_, _, _, _, _)

(* The items that both arrays have. *)
Common(l, r) == Lesser(Len(l), Len(r))

(* math_binop_rec, at compile time: the type of what is built. *)
BuiltType(op, lhs, rhs) ==
  LET l == Base(lhs)
      r == Base(rhs)
      item(t) == IF IsArray(t) THEN t.item ELSE t
      struct == IF IsStruct(l) THEN l ELSE r
      field(t, i) == IF IsStruct(t) THEN t.fields[i] ELSE t
      built(i) == BuiltType(op, field(l, i), field(r, i))
  IN  CASE l.tag = "pointer" \/ r.tag = "pointer" -> Err
        [] IsArray(l) \/ IsArray(r) ->
             LET t == MathType(op, l, r)
                 i == BuiltType(op, item(l), item(r))
             IN  IF t = Err \/ i = Err \/ ~IsArray(t) THEN Err
                 ELSE IF Machine(i) = Machine(t.item) THEN t ELSE Err
        [] ~IsArray(l) /\ ~IsArray(r) /\ (IsStruct(l) \/ IsStruct(r)) ->
             IF IsStruct(l) /\ IsStruct(r) /\ ~Same(Without(l), Without(r)) THEN Err
             ELSE IF \A i \in DOMAIN struct.fields :
                       /\ built(i) # Err
                       /\ IsNumeric(struct.fields[i]) \/ Machine(built(i)) = Machine(struct.fields[i])
                  THEN struct ELSE Err
        [] l.tag = "union" /\ Same(l, r) -> IF IsFlags(l) /\ op \notin {"multiply", "divide"} THEN l ELSE Err
        [] l.tag = "bool" /\ r.tag = "bool" -> IF op \in Bools THEN l ELSE Err
        [] IsNumeric(l) /\ IsNumeric(r) -> IF op \in Bools THEN Err ELSE Meeting(l, r)
        [] OTHER -> Err

(* math_binop_rec, at run time.  The field of a struct is cast to its type. *)
Build(op, lhs, x, rhs, y) ==
  LET l == Base(lhs)
      r == Base(rhs)
      struct == IF IsStruct(l) THEN l ELSE r
      field(t, i) == IF IsStruct(t) THEN t.fields[i] ELSE t
      part(t, v, i) == IF IsStruct(t) THEN v[i] ELSE v
      built(i) == Build(op, field(l, i), part(l, x, i), field(r, i), part(r, y, i))
      m == Meeting(l, r)
  IN  CASE IsArray(l) /\ IsArray(r) -> [i \in 1..Common(x, y) |-> Build(op, l.item, x[i], r.item, y[i])]
        [] IsArray(l) /\ ~IsArray(r) -> [i \in DOMAIN x |-> Build(op, l.item, x[i], r, y)]
        [] ~IsArray(l) /\ IsArray(r) -> [i \in DOMAIN y |-> Build(op, l, x, r.item, y[i])]
        [] ~IsArray(l) /\ ~IsArray(r) /\ (IsStruct(l) \/ IsStruct(r)) ->
             [i \in DOMAIN struct.fields |->
                IF IsNumeric(struct.fields[i]) THEN Cast(Base(struct.fields[i]), built(i)) ELSE built(i)]
        [] l.tag \in {"bool", "union"} /\ r.tag = l.tag -> Operate(op, l, x, y)
        [] OTHER -> Operate(op, m, Cast(m, x), Cast(m, y))

-----------------------------------------------------------------------------
RECURSIVE Updatable(_, _, _), Update(_, _, _, _, _)

(* math_update_rec, at compile time: whether there is code for it. *)
Updatable(op, lhs, rhs) ==
  LET l == Base(lhs)
      r == Base(rhs)
  IN  /\ {l.tag, r.tag} \cap {"pointer"} = {}
      /\ op \in {"multiply", "divide"} => UnitsOf(r) = ""
      /\ op \in {"add", "subtract"} => UnitsOf(l) = UnitsOf(r)
      /\ CASE IsArray(l) -> Updatable(op, l.item, IF IsArray(r) THEN r.item ELSE r)
           [] IsStruct(l) /\ IsStruct(r) ->
                /\ Same(Without(l), Without(r))
                /\ \A i \in DOMAIN l.fields : Updatable(op, l.fields[i], l.fields[i])
           [] IsStruct(l) /\ ~IsStruct(r) ->
                \A i \in DOMAIN l.fields : Updatable(op, WithUnits(l.fields[i], UnitsOf(l)), r)
           [] IsNumeric(l) /\ IsNumeric(r) -> CanPromote(Without(r), Without(l)) /\ op \notin Bools
           [] l.tag = "bool" /\ r.tag = "bool" -> op \in Bools
           [] OTHER -> FALSE

(* math_update_rec, at run time: what the left side becomes.  What the     *)
(* right side has no item for stays as it is.                              *)
Update(op, lhs, x, rhs, y) ==
  LET l == Base(lhs)
      r == Base(rhs)
  IN  CASE IsArray(l) /\ IsArray(r) ->
             [i \in DOMAIN x |-> IF i <= Common(x, y) THEN Update(op, l.item, x[i], r.item, y[i]) ELSE x[i]]
        [] IsArray(l) /\ ~IsArray(r) -> [i \in DOMAIN x |-> Update(op, l.item, x[i], r, y)]
        [] IsStruct(l) /\ IsStruct(r) ->
             [i \in DOMAIN l.fields |-> Update(op, l.fields[i], x[i], l.fields[i], y[i])]
        [] IsStruct(l) /\ ~IsStruct(r) -> [i \in DOMAIN l.fields |-> Update(op, l.fields[i], x[i], r, y)]
        [] OTHER -> Operate(op, l, x, IF IsNumeric(l) THEN Cast(l, y) ELSE y)

-----------------------------------------------------------------------------
(* Where the numbers of a value are, and the one at a place: what is not   *)
(* made of parts is at every place.                                        *)
Parted(t) == IsArray(Base(t)) \/ IsStruct(Base(t))
PartType(t, i) == IF IsArray(Base(t)) THEN Base(t).item ELSE Base(t).fields[i]
RECURSIVE Places(_, _), At(_, _, _), TypeAt(_, _)
Places(t, v) ==
  IF Parted(t) THEN UNION {{<<i>> \o p : p \in Places(PartType(t, i), v[i])} : i \in DOMAIN v} ELSE {<<>>}
At(t, v, place) ==
  IF Parted(t) /\ place # <<>> THEN At(PartType(t, Head(place)), v[Head(place)], Tail(place)) ELSE v
TypeAt(t, place) ==
  IF Parted(t) /\ place # <<>> THEN TypeAt(PartType(t, Head(place)), Tail(place)) ELSE t

(* The places that both have: a number has every one. *)
Shared(l, x, r, y) ==
  CASE ~Parted(r) -> Places(l, x)
    [] Parted(r) /\ ~Parted(l) -> Places(r, y)
    [] OTHER -> Places(l, x) \cap Places(r, y)

(* What is built has the type that was inferred for it, at the places of   *)
(* both sides, and at each of them the result of one operation, in a type  *)
(* that both numbers fit.                                                  *)
BuildsEachPlace(op, l, x, r, y) ==
  LET t == MathType(op, l, r)
      v == Build(op, l, x, r, y)
  IN  t # Err /\ BuiltType(op, l, r) # Err =>
        /\ Machine(BuiltType(op, l, r)) = Machine(t)
        /\ Places(t, v) = Shared(l, x, r, y)
        /\ \A p \in Places(t, v) :
             LET a == At(l, x, p)
                 b == At(r, y, p)
                 at == Base(TypeAt(t, p))
                 wide == OrType(Without(Base(TypeAt(l, p))), Without(Base(TypeAt(r, p))))
             IN  At(t, v, p) = IF IsNumeric(at) THEN Cast(at, Operate(op, wide, a, b)) ELSE Operate(op, at, a, b)

(* An update leaves at every place what the operation gives there, and     *)
(* keeps what has no place on the right.                                   *)
UpdatesAsItBuilds(op, l, x, r, y) ==
  Updatable(op, l, r) /\ MathType(op, l, r) # Err /\ BuiltType(op, l, r) # Err =>
    LET u == Update(op, l, x, r, y)
        t == MathType(op, l, r)
        v == Build(op, l, x, r, y)
    IN  /\ Places(l, u) = Places(l, x)
        /\ Machine(l) = Machine(t)
        /\ \A p \in Places(l, x) : At(l, u, p) = IF p \in Places(t, v) THEN At(t, v, p) ELSE At(l, x, p)
=============================================================================
