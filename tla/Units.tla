-------------------------------- MODULE Units --------------------------------
(***************************************************************************)
(* Units of measure (units.c).  A name is a number, in the order in which  *)
(* strcmp has the names.  A string is a sequence of tokens                 *)
(*   [is |-> "name", name, power], [is |-> "slash"], [is |-> "one"]        *)
(* and a unit a sequence of components [name, power], in canonical order.  *)
(***************************************************************************)
EXTENDS Integers, Sequences, FiniteSets, Question

Magnitude(n) == IF n < 0 THEN -n ELSE n
(* Division in C. *)
Quotient(m, n) == LET q == Magnitude(m) \div Magnitude(n) IN IF (m < 0) = (n < 0) THEN q ELSE -q

(* The sum of a sequence of numbers. *)
Total(numbers) ==
  LET upto[i \in 0..Len(numbers)] == IF i = 0 THEN 0 ELSE upto[i - 1] + numbers[i]
  IN  upto[Len(numbers)]

Named(components) == {components[i].name : i \in DOMAIN components}
(* The power that a name has in all components together. *)
Power(components, name) ==
  Total([i \in DOMAIN components |-> IF components[i].name = name THEN components[i].power ELSE 0])

(* cmp_component_exponents *)
Before(c, d) == c.power > d.power \/ (c.power = d.power /\ c.name < d.name)

InOrder(S) ==
  CHOOSE s \in [1..Cardinality(S) -> S] : \A i, j \in DOMAIN s : i < j => Before(s[i], s[j])

(* make_unit: every name once, and none with the power zero. *)
Merged(components) ==
  {c \in {[name |-> n, power |-> Power(components, n)] : n \in Named(components)} : c.power # 0}
MakeUnit(components) == InOrder(Merged(components))

(* unit_from_string: all that is after a slash is below it; what is not a  *)
(* name counts for nothing.                                                *)
Nothing == [name |-> 0, power |-> 0]
Below(text, i) == \E j \in 1..i : text[j].is = "slash"
Component(text, i) ==
  IF text[i].is # "name" THEN Nothing
  ELSE [name |-> text[i].name, power |-> IF Below(text, i) THEN -text[i].power ELSE text[i].power]
Components(text) == [i \in DOMAIN text |-> Component(text, i)]
ReadUnit(text) == MakeUnit(Components(text))

(* unit_to_string: the slash is before the first that is below it. *)
Token(c) == [is |-> "name", name |-> c.name, power |-> Magnitude(c.power)]
Slash == <<[is |-> "slash"]>>
One == <<[is |-> "one"]>>
UnitString(unit) ==
  LET tokens == [i \in DOMAIN unit |-> Token(unit[i])]
      above == Cardinality({i \in DOMAIN unit : \A j \in 1..i : unit[j].power > 0})
  IN  IF above = Len(unit) THEN tokens
      ELSE (IF above = 0 THEN One ELSE SubSeq(tokens, 1, above))
             \o Slash \o SubSeq(tokens, above + 1, Len(unit))

Times(a, b) == MakeUnit(a \o b)                                      \* unit_mul
Inverted(a) == [i \in DOMAIN a |-> [a[i] EXCEPT !.power = -@]]
Over(a, b) == MakeUnit(a \o Inverted(b))                             \* unit_div

-----------------------------------------------------------------------------
(* unit_derive.  A conversion is [derived, base], with `derived' as many   *)
(* times the ratio in terms of `base'.  What becomes of the number is how  *)
(* often it is multiplied by the ratio of each conversion.                 *)

(* How often all of a derived unit is in a unit: at most Limit times.      *)
Limit == 999
Contained(unit, derived) ==
  LET part(c) == Quotient(Power(unit, c.name), c.power)
      least[d \in 0..Len(derived)] ==
        IF d = 0 THEN Limit
        ELSE IF least[d - 1] = 0 \/ part(derived[d]) = 0 THEN 0
        ELSE IF Magnitude(part(derived[d])) < Magnitude(least[d - 1]) THEN part(derived[d])
        ELSE least[d - 1]
  IN  least[Len(derived)]

(* Bug: a unit below the slash is converted as one above it. *)
BugFactor(exponent, base, derived) == Over(base, derived)
Factor(exponent, base, derived) == IF exponent > 0 THEN Over(base, derived) ELSE Over(derived, base)

Repeated(unit, factor, n) ==
  LET times[i \in 0..n] == IF i = 0 THEN unit ELSE Times(times[i - 1], factor)
  IN  times[n]

(* One round of the loop. *)
Convert(was, conversion) ==
  LET derived == ReadUnit(conversion.derived)
      exponent == Contained(was.unit, derived)
      factor == Factor(exponent, ReadUnit(conversion.base), derived)
  IN  [unit |-> Repeated(was.unit, factor, Magnitude(exponent)), ratios |-> Append(was.ratios, exponent)]

Rounds(text, conversions) ==
  LET round[i \in 0..Len(conversions)] ==
        IF i = 0 THEN [unit |-> ReadUnit(text), ratios |-> <<>>]
        ELSE Convert(round[i - 1], conversions[i])
  IN  round

Derive(text, conversions) ==
  LET last == Rounds(text, conversions)[Len(conversions)]
  IN  [text |-> UnitString(last.unit), ratios |-> last.ratios]

-----------------------------------------------------------------------------
(* A string is canonical: it is read as what was written, and two strings  *)
(* are the same exactly if every name has the same power in both; products *)
(* and quotients add and subtract the powers.                              *)
PowersOf(text, names) == [n \in names |-> Power(ReadUnit(text), n)]
Canonical(a, b, names) ==
  LET x == ReadUnit(a)
      y == ReadUnit(b)
  IN  /\ ReadUnit(UnitString(x)) = x
      /\ (UnitString(x) = UnitString(y)) = (PowersOf(a, names) = PowersOf(b, names))
      /\ \A n \in names : /\ Power(Times(x, y), n) = Power(x, n) + Power(y, n)
                          /\ Power(Over(x, y), n) = Power(x, n) - Power(y, n)

(* What is derived is the same quantity: for each time that the number is  *)
(* multiplied by a ratio, that conversion is made once.  If the bases of a *)
(* conversion were defined before it, no name that has one is left, unless *)
(* it had a power beyond Limit.                                            *)
Gain(conversion, n) == Power(ReadUnit(conversion.base), n) - Power(ReadUnit(conversion.derived), n)
SameQuantity(text, conversions, names) ==
  LET d == Derive(text, conversions)
  IN  \A n \in names :
        Power(ReadUnit(d.text), n) =
          Power(ReadUnit(text), n) + Total([i \in DOMAIN conversions |-> d.ratios[i] * Gain(conversions[i], n)])

Ordered(conversions) ==
  \A i \in DOMAIN conversions :
    /\ Len(conversions[i].derived) = 1
    /\ conversions[i].derived[1].is = "name" /\ conversions[i].derived[1].power = 1
    /\ \A j \in 1..i : Power(ReadUnit(conversions[i].base), conversions[j].derived[1].name) = 0
NoneLeft(text, conversions) ==
  LET d == Derive(text, conversions)
  IN  Ordered(conversions) /\ (\A i \in DOMAIN conversions : d.ratios[i] # Limit) =>
        \A i \in DOMAIN conversions : conversions[i].derived[1].name \notin Named(ReadUnit(d.text))

-----------------------------------------------------------------------------
(* A question about the units of some names: what their product is, or what *)
(* is derived from one.                                                     *)
Tokens(names) == [is : {"name"}, name : names, power : Int] \cup [is : {"slash", "one"}]
Texts(names) == Seq(Tokens(names))
Questions(names) ==
  [kind : {"units"}, names : {names}, a : Texts(names), b : Texts(names)]
    \cup [kind : {"derive"}, names : {names}, a : Texts(names),
          conversions : Seq([derived : Texts(names), base : Texts(names)])]

(* Strings of units are canonical, and a conversion keeps the quantity. *)
UnitsAgree ==
  [][/\ input.kind = "units" => Canonical(input.a, input.b, input.names)
     /\ input.kind = "derive" => /\ SameQuantity(input.a, input.conversions, input.names)
                                 /\ NoneLeft(input.a, input.conversions)]_<<input, answered>>
=============================================================================
