-------------------------------- MODULE Types --------------------------------
(***************************************************************************)
(* The types of SSS and the questions that the compiler asks of them       *)
(* (types.c).  A type is a record:                                         *)
(*   [tag |-> "bool"], "char", "cchar", "memory", "void", "abort", "range" *)
(*   [tag |-> "int", bits, unsigned, units], [tag |-> "num", bits, units]  *)
(*   [tag |-> "array", item], [tag |-> "table", key, value]                *)
(*   [tag |-> "pointer", to, optional, stack, readonly]                    *)
(*   [tag |-> "struct", names, fields, units], [tag |-> "union", members]  *)
(*   [tag |-> "function", args, ret], [tag |-> "generator", generated]     *)
(*   [tag |-> "variant", name, units], a type that the program gives a     *)
(*     name, and the units that its definition has been given since        *)
(* where fields, members and args are sequences of types; a member without *)
(* data is a struct without fields.  Units are names, "" for none.         *)
(***************************************************************************)
EXTENDS Integers, Sequences, FiniteSets

CONSTANT Definitions  \* the types that have names, by their names

Err == [tag |-> "none"]  \* NULL, or a compiler error

IntType(bits, unsigned, units) == [tag |-> "int", bits |-> bits, unsigned |-> unsigned, units |-> units]
NumType(bits, units) == [tag |-> "num", bits |-> bits, units |-> units]
Simple(tag) == [tag |-> tag]
Array(item) == [tag |-> "array", item |-> item]
Pointer(to, optional, stack) ==
  [tag |-> "pointer", to |-> to, optional |-> optional, stack |-> stack, readonly |-> FALSE]
Generator(t) == [tag |-> "generator", generated |-> t]

Range(s) == {s[i] : i \in DOMAIN s}

-----------------------------------------------------------------------------
RECURSIVE Base(_), Printed(_), UnitsOf(_), WithUnits(_, _)

(* base_variant *)
Base(t) == IF t.tag = "variant" THEN WithUnits(Base(Definitions[t.name]), t.units) ELSE t

(* Two types are the same if they are printed the same: the sigil of a     *)
(* pointer to the stack does not say whether it is optional, and a name is *)
(* printed without units.                                                  *)
Printed(t) ==
  CASE t.tag = "pointer" -> [t EXCEPT !.to = Printed(@), !.optional = @ /\ ~t.stack]
    [] t.tag = "array" -> [t EXCEPT !.item = Printed(@)]
    [] t.tag = "table" -> [t EXCEPT !.key = Printed(@), !.value = Printed(@)]
    [] t.tag = "generator" -> [t EXCEPT !.generated = Printed(@)]
    [] t.tag = "struct" -> [t EXCEPT !.fields = [i \in DOMAIN t.fields |-> Printed(t.fields[i])]]
    [] t.tag = "union" -> [t EXCEPT !.members = [i \in DOMAIN t.members |-> Printed(t.members[i])]]
    [] t.tag = "function" -> [t EXCEPT !.args = [i \in DOMAIN t.args |-> Printed(t.args[i])], !.ret = Printed(@)]
    [] t.tag = "variant" -> [t EXCEPT !.units = ""]
    [] OTHER -> t

(* type_eq *)
Same(a, b) == Printed(a) = Printed(b)

(* type_is_a: @T is a ?T and a &T. *)
IsA(t, req) ==
  \/ Same(t, req)
  \/ /\ t.tag = "pointer" /\ req.tag = "pointer" /\ Same(t.to, req.to)
     /\ ~t.stack /\ (req.optional \/ (~t.optional /\ req.stack))

NonOptional(t) ==
  IF t.tag = "pointer" /\ t.optional THEN Pointer(t.to, FALSE, FALSE) ELSE t

(* type_units, with_units *)
UnitsOf(t) ==
  CASE t.tag \in {"int", "num", "struct", "variant"} -> t.units
    [] t.tag = "pointer" -> UnitsOf(t.to)
    [] t.tag = "array" -> UnitsOf(t.item)
    [] OTHER -> ""

WithUnits(t, units) ==
  CASE t.tag \in {"int", "num", "struct", "variant"} -> [t EXCEPT !.units = units]
    [] t.tag = "pointer" -> Pointer(WithUnits(t.to, units), t.optional, FALSE)
    [] t.tag = "array" -> [t EXCEPT !.item = WithUnits(@, units)]
    [] OTHER -> t

(* The type in the machine (sss_type_to_gcc): names, units, and how a       *)
(* pointer may be used are forgotten, though not inside of an array.       *)
RECURSIVE Machine(_)
Machine(t) ==
  CASE t.tag = "variant" -> Machine(Definitions[t.name])
    [] t.tag = "pointer" -> [tag |-> "pointer", to |-> Machine(t.to)]
    [] OTHER -> Printed(WithUnits(t, ""))

IsNumeric(t) == Base(t).tag \in {"int", "num"}
IsIntegral(t) == Base(t).tag \in {"int", "char", "cchar"}

-----------------------------------------------------------------------------
(* type_min_magnitude and type_max_magnitude: classes for the least and    *)
(* the greatest number of a type, 0 the class of zero.                     *)
Magnitude(t) ==
  LET b == Base(t)
      k == CASE b.tag \in {"int", "num"} -> CHOOSE k \in 1..4 : b.bits = 2 ^ (k + 2)
             [] OTHER -> 0
  IN  CASE b.tag = "bool" -> [least |-> 0, greatest |-> 1]
        [] b.tag \in {"char", "cchar"} -> [least |-> 0, greatest |-> 2]
        [] b.tag = "int" -> [least |-> IF b.unsigned THEN 0 ELSE k,
                             greatest |-> 2 * k + (IF b.unsigned THEN 2 ELSE 1)]
        [] b.tag = "num" -> [least |-> k + 2, greatest |-> k + 8]
        [] OTHER -> [least |-> -1, greatest |-> -1]

(* Bug: only the greatest numbers are compared. *)
BugPrecision(a, b) ==
  LET x == Magnitude(a)
      y == Magnitude(b)
  IN  CASE x.least < 0 \/ y.least < 0 -> "incomparable"
        [] x.least >= 0 /\ y.least >= 0 /\ x.greatest = y.greatest -> "equal"
        [] x.least >= 0 /\ y.least >= 0 /\ x.greatest < y.greatest -> "less"
        [] OTHER -> "more"

(* compare_precision *)
Precision(a, b) ==
  LET x == Magnitude(a)
      y == Magnitude(b)
  IN  IF x.least < 0 \/ y.least < 0 THEN "incomparable"
      ELSE IF x = y THEN "equal"
      ELSE IF x.least <= y.least /\ x.greatest <= y.greatest THEN "less"
      ELSE IF x.least >= y.least /\ x.greatest >= y.greatest THEN "more"
      ELSE "incomparable"

(* type_or_type: a type that the values of both have. *)
RECURSIVE OrType(_, _)
OrType(a, b) ==
  LET numbers == {a.tag, b.tag} \subseteq {"int", "num"}
      order == Precision(a, b)
  IN  CASE a = Err -> b
        [] a # Err /\ b = Err -> a
        [] a # Err /\ b # Err /\ IsA(b, a) -> a
        [] a # Err /\ b # Err /\ ~IsA(b, a) /\ IsA(a, b) -> b
        [] OTHER ->
             IF a.tag = "abort" THEN NonOptional(b)
             ELSE IF b.tag = "abort" THEN NonOptional(a)
             ELSE IF a.tag = "generator" THEN Generator(OrType(a.generated, b))
             ELSE IF b.tag = "generator" THEN Generator(OrType(a, b.generated))
             ELSE IF numbers /\ order \in {"equal", "more"} THEN a
             ELSE IF numbers /\ order = "less" THEN b
             ELSE IF numbers /\ a.tag = "int" /\ b.tag = "int" /\ a.bits < 64
                  THEN IntType(2 * a.bits, FALSE, "")
             ELSE Err

-----------------------------------------------------------------------------
Str == Array(Simple("char"))
CString == Pointer(Simple("cchar"), FALSE, FALSE)

(* can_promote: where a value of the one type can be used as the other. *)
RECURSIVE CanPromote(_, _)
PromotesPointer(a, n) ==
  /\ n.to.tag = "memory" \/ Same(a.to, n.to)
  /\ a.stack => n.stack
  /\ a.optional => n.optional
  /\ a.readonly => n.readonly
CanPromote(actual, needed) ==
  LET base == Base(needed)
  IN  IF Same(actual, needed) THEN TRUE
      ELSE IF UnitsOf(actual) # UnitsOf(needed) THEN FALSE
      ELSE IF IsNumeric(actual) /\ IsNumeric(needed) THEN Precision(actual, needed) \in {"equal", "less"}
      ELSE IF actual.tag = "pointer" /\ needed.tag = "pointer" THEN PromotesPointer(actual, needed)
      ELSE \/ Same(actual, CString) /\ Same(needed, Str)
           \/ Same(actual, Str) /\ Same(needed, CString)
           \/ /\ actual.tag = "struct" /\ base.tag = "struct"
              /\ DOMAIN actual.fields = DOMAIN base.fields
              /\ \A i \in DOMAIN base.fields : CanPromote(actual.fields[i], base.fields[i])

-----------------------------------------------------------------------------
RECURSIVE IsOrderable(_), HasHeapMemory(_), HasStackMemory(_), CanLeaveUninitialized(_)

IsOrderable(t) ==
  CASE t.tag = "array" -> IsOrderable(t.item)
    [] t.tag \in {"pointer", "function", "table"} -> FALSE
    [] t.tag = "struct" -> \A i \in DOMAIN t.fields : IsOrderable(t.fields[i])
    [] t.tag = "union" -> \A i \in DOMAIN t.members : IsOrderable(t.members[i])
    [] OTHER -> TRUE

(* Whether the collector has to look for pointers in memory of this type.  *)
(* A type with a name is taken to have none.                               *)
HasHeapMemory(t) ==
  CASE t.tag \in {"array", "table", "pointer"} -> TRUE
    [] t.tag = "generator" -> HasHeapMemory(t.generated)
    [] t.tag = "struct" -> \E i \in DOMAIN t.fields : HasHeapMemory(t.fields[i])
    [] t.tag = "union" -> \E i \in DOMAIN t.members : HasHeapMemory(t.members[i])
    [] OTHER -> FALSE

HasStackMemory(t) ==
  CASE t.tag = "pointer" -> t.stack
    [] t.tag = "generator" -> HasStackMemory(t.generated)
    [] OTHER -> FALSE

CanLeaveUninitialized(t) ==
  CASE t.tag = "pointer" -> t.optional
    [] t.tag \in {"array", "int", "num", "char", "cchar", "bool", "range"} -> TRUE
    [] t.tag = "struct" -> \A i \in DOMAIN t.fields : CanLeaveUninitialized(t.fields[i])
    [] t.tag = "union" -> \A i \in DOMAIN t.members : CanLeaveUninitialized(t.members[i])
    [] OTHER -> FALSE

(* The types right inside of a type. *)
Parts(t) ==
  CASE t.tag = "array" -> <<t.item>>
    [] t.tag = "table" -> <<t.key, t.value>>
    [] t.tag = "pointer" -> <<t.to>>
    [] t.tag = "generator" -> <<t.generated>>
    [] t.tag = "struct" -> t.fields
    [] t.tag = "union" -> t.members
    [] t.tag = "variant" -> <<Definitions[t.name]>>
    [] OTHER -> <<>>

(* _can_have_cycles: the names that were seen so far are kept from one     *)
(* part to the next.  The result is [found, seen].                         *)
RECURSIVE LookForCycles(_, _)
LookForCycles(t, seen) ==
  LET parts == Parts(t)
      names == IF t.tag = "variant" THEN seen \cup {t.name} ELSE seen
      upto[i \in 0..Len(parts)] ==
        IF i = 0 THEN [found |-> FALSE, seen |-> names]
        ELSE IF upto[i - 1].found THEN upto[i - 1]
        ELSE LookForCycles(parts[i], upto[i - 1].seen)
  IN  IF t.tag = "variant" /\ t.name \in seen THEN [found |-> TRUE, seen |-> seen]
      ELSE upto[Len(parts)]
CanHaveCycles(t) == LookForCycles(t, {}).found

-----------------------------------------------------------------------------
(* The numbers of a type, between -2^least and 2^greatest, -1 for none.    *)
Numbers(t) ==
  CASE t.tag = "int" -> IF t.unsigned THEN [least |-> -1, greatest |-> t.bits]
                        ELSE [least |-> t.bits - 1, greatest |-> t.bits - 1]
    [] t.tag = "num" -> LET m == IF t.bits = 32 THEN 128 ELSE 1024 IN [least |-> m, greatest |-> m]

(* Every value of the one type is a value of the other, with its units.    *)
RECURSIVE Includes(_, _)
Includes(big, small) ==
  LET b == Base(big)
      s == Base(small)
  IN  CASE IsNumeric(s) ->
             /\ IsNumeric(b) /\ b.units = s.units
             /\ Numbers(s).least <= Numbers(b).least /\ Numbers(s).greatest <= Numbers(b).greatest
        [] s.tag = "pointer" ->
             /\ b.tag = "pointer" /\ (b.to.tag = "memory" \/ Same(b.to, s.to))
             /\ (s.optional => b.optional) /\ (s.stack => b.stack) /\ (s.readonly => b.readonly)
        [] s.tag = "struct" ->
             /\ b.tag = "struct" /\ DOMAIN s.fields = DOMAIN b.fields /\ s.units = b.units
             /\ \A i \in DOMAIN s.fields : Includes(b.fields[i], s.fields[i])
        [] s.tag = "abort" -> TRUE
        [] OTHER -> Same(b, s)

(* All names that are inside of a type. *)
RECURSIVE NamesIn(_, _)
NamesIn(t, seen) ==
  LET parts == Range(Parts(t))
  IN  IF t.tag # "variant" THEN UNION {NamesIn(p, seen) : p \in parts}
      ELSE IF t.name \in seen THEN {}
      ELSE {t.name} \cup UNION {NamesIn(p, seen \cup {t.name}) : p \in parts}
Recursive(name) == name \in UNION {NamesIn(p, {}) : p \in Range(Parts([tag |-> "variant", name |-> name]))}

(* What is printed alike but is not the same: units that a name was given, *)
(* and an optional pointer to the stack.                                   *)
RECURSIVE Ambiguous(_)
Ambiguous(t) ==
  \/ t.tag = "variant" /\ t.units # UnitsOf(Definitions[t.name])
  \/ t.tag = "pointer" /\ t.stack /\ t.optional
  \/ t.tag # "variant" /\ \E p \in Range(Parts(t)) : Ambiguous(p)

IsText(t) == Same(t, Str) \/ Same(t, CString)

(* A value that is promoted is a value of the type that was needed.        *)
PromotionKeepsValues(a, n) ==
  CanPromote(a, n) /\ ~(IsText(a) /\ IsText(n)) => Includes(n, a)

(* What may be either of two types has a type with the values of both: for *)
(* pointers, unless the other does not come to a value or only one of them *)
(* is read-only, and for numbers of which one has the range of the other.  *)
OrTypeKeepsValues(a, b) ==
  LET t == OrType(a, b)
      abort == [tag |-> "abort"] \in {a, b}
  IN  \/ t = Err
      \/ abort /\ t.tag = "pointer"
      \/ ~abort /\ UnitsOf(a) # UnitsOf(b)
      \/ a.tag = "pointer" /\ b.tag = "pointer" /\ a.readonly # b.readonly
      \/ IsNumeric(a) /\ Precision(a, b) = "incomparable"
      \/ Includes(t, a) /\ Includes(t, b)

(* A type that reaches itself is printed and compared with care.           *)
FindsCycles(t) == (\E name \in NamesIn(t, {}) : Recursive(name)) => CanHaveCycles(t)

Sensible(a, b) ==
  /\ ~Ambiguous(a) /\ ~Ambiguous(b) => PromotionKeepsValues(a, b) /\ OrTypeKeepsValues(a, b)
  /\ FindsCycles(a)
=============================================================================
