-------------------------------- MODULE Match --------------------------------
(***************************************************************************)
(* Pattern matches: which clause of an `if ... matches' runs for a value   *)
(* (compile/match.c), and the check of the type checker that one always    *)
(* runs (get_missing_pattern).                                             *)
(*                                                                         *)
(* A type is a record with a field `tag'.  A pointer has the type that it  *)
(* points `to', a struct a sequence of fields [name, type, default], where *)
(* a default may be None, and a tagged union a sequence of members [name,  *)
(* type], whose type may be None.  Patterns are                            *)
(*   [tag |-> "wildcard", name]     ?name, or else, where name is ""       *)
(*   [tag |-> "pointer", to]        @pattern                               *)
(*   [tag |-> "struct", members]    {pattern, name=pattern}                *)
(*   [tag |-> "call", fn, members]  member(pattern, ...)                   *)
(*   [tag |-> "member", name]       a member, whatever it holds            *)
(*   [tag |-> "value", value]       a value to compare with                *)
(* where a member of a pattern is [name, pattern], name "" if by position. *)
(* A value is [bit], [number], [to] or Null, [fields], or [member, data].  *)
(***************************************************************************)
EXTENDS Naturals, Sequences, FiniteSets, Question

CONSTANTS Types, Values, Patterns,  \* bound: those of a program
          Depth                     \* how deep a type is nested

None == [tag |-> "none"]
Null == [tag |-> "null"]
No == [bit |-> FALSE]
Yes == [bit |-> TRUE]

(* The pattern for what a member of a union holds. *)
AsStruct(p) == [tag |-> "struct", members |-> p.members]

(* The parts of types, values and patterns are such things again. *)
PartsOfType(t) ==
  CASE t.tag = "pointer" -> {t.to}
    [] t.tag = "struct" -> {t.fields[k].type : k \in DOMAIN t.fields}
    [] t.tag = "union" -> {t.members[i].type : i \in DOMAIN t.members} \ {None}
    [] OTHER -> {}
PartsOfPattern(p) ==
  CASE p.tag = "pointer" -> {p.to}
    [] p.tag = "struct" -> {p.members[i].pattern : i \in DOMAIN p.members}
    [] p.tag = "call" -> {AsStruct(p)}
    [] OTHER -> {}
PartsOfValue(v) ==
  (IF "to" \in DOMAIN v THEN {v.to} ELSE {})
    \cup (IF "fields" \in DOMAIN v THEN {v.fields[k] : k \in DOMAIN v.fields} ELSE {})
    \cup (IF "data" \in DOMAIN v THEN {v.data} \ {None} ELSE {})
Defaults(t) ==
  IF t.tag = "struct" THEN {t.fields[k].default : k \in DOMAIN t.fields} \ {None} ELSE {}

ASSUME MatchAssumption ==
  /\ Depth \in [Types -> Nat]
  /\ \A t \in Types : /\ Defaults(t) \subseteq Patterns
                      /\ \A u \in PartsOfType(t) : u \in Types /\ Depth[u] < Depth[t]
  /\ \A p \in Patterns : p # None /\ PartsOfPattern(p) \subseteq Patterns
  /\ \A v \in Values : PartsOfValue(v) \subseteq Values

-----------------------------------------------------------------------------
(* bind_arguments: what every field of a struct is matched with.  Members  *)
(* with a name take their places, the others the places that are left, in  *)
(* order, and a field that has no member its default, if it has one.       *)
Names(fields) == [k \in DOMAIN fields |-> fields[k].name]
Place(members, names, i) ==
  LET byName == {members[j].name : j \in DOMAIN members} \ {""}
      left == SelectSeq([k \in DOMAIN names |-> k], LAMBDA k : names[k] \notin byName)
  IN  IF members[i].name = "" THEN left[Cardinality({j \in 1..i : members[j].name = ""})]
      ELSE CHOOSE k \in DOMAIN names : names[k] = members[i].name
Given(members, fields, k) ==
  LET given == {i \in DOMAIN members : Place(members, Names(fields), i) = k}
  IN  IF given = {} THEN None ELSE members[CHOOSE i \in given : TRUE].pattern
Bound(members, fields, k) ==
  LET given == Given(members, fields, k)
  IN  IF given = None THEN fields[k].default ELSE given

MemberNames(t) == {t.members[i].name : i \in DOMAIN t.members}
MemberType(t, name) == t.members[CHOOSE i \in DOMAIN t.members : t.members[i].name = name].type
HoldsSome(t, name) == t.tag = "union" /\ name \in MemberNames(t) /\ MemberType(t, name) # None

(* The errors of perform_conditional_match: a pattern for something else,  *)
(* or for what a member holds that holds nothing.                          *)
Fits[t \in Types] ==
  [p \in Patterns |->
     CASE p.tag = "pointer" -> t.tag = "pointer" /\ Fits[t.to][p.to]
       [] p.tag = "struct" ->
            /\ t.tag = "struct"
            /\ \A k \in DOMAIN t.fields :
                 LET q == Bound(p.members, t.fields, k)
                 IN  q # None => Fits[t.fields[k].type][q]
       [] p.tag = "call" -> HoldsSome(t, p.fn) /\ Fits[MemberType(t, p.fn)][AsStruct(p)]
       [] OTHER -> TRUE]

(* perform_conditional_match: a value of type t goes on in match_block. *)
Matches[t \in Types] ==
  [value \in Values |-> [p \in Patterns |->
     /\ p.tag = "value" => value = p.value
     /\ p.tag = "member" => value.member = p.name
     /\ p.tag = "pointer" => t.tag = "pointer" /\ value # Null /\ Matches[t.to][value.to][p.to]
     /\ p.tag = "struct" =>
          /\ t.tag = "struct"
          /\ \A k \in DOMAIN t.fields :
               LET q == Bound(p.members, t.fields, k)
               IN  q # None => Matches[t.fields[k].type][value.fields[k]][q]
     /\ p.tag = "call" =>
          /\ HoldsSome(t, p.fn)
          /\ value.member = p.fn /\ Matches[MemberType(t, p.fn)][value.data][AsStruct(p)]]]

-----------------------------------------------------------------------------
(* Bug: some pattern for the null value is not asked for. *)
BugNullHandled(t, patterns) == TRUE
NullHandled(t, patterns) == t.optional => \E p \in patterns : p.tag = "value" /\ p.value = Null

(* The patterns for what a member holds. *)
Handlers(patterns, name) == {AsStruct(p) : p \in {q \in patterns : q.tag = "call" /\ q.fn = name}}

(* get_missing_pattern: whether it has something to complain about.  A     *)
(* struct is covered by one pattern all of whose members are; fields that  *)
(* the pattern does not name count as covered.  Numbers and everything     *)
(* else are only covered by a wildcard.                                    *)
Missing[t \in Types] ==
  [patterns \in SUBSET Patterns |->
     /\ \A p \in patterns : p.tag # "wildcard"
     /\ t.tag = "union" =>
          \E i \in DOMAIN t.members :
            LET m == t.members[i]
                handlers == Handlers(patterns, m.name)
            IN  /\ \A p \in patterns : ~(p.tag = "member" /\ p.name = m.name)
                /\ handlers = {} \/ (m.type # None /\ Missing[m.type][handlers])
     /\ t.tag = "pointer" =>
          \/ ~NullHandled(t, patterns)
          \/ Missing[t.to][{p.to : p \in {q \in patterns : q.tag = "pointer"}}]
     /\ t.tag = "bool" => \E b \in {Yes, No} : \A p \in patterns : ~(p.tag = "value" /\ p.value = b)
     /\ t.tag = "struct" =>
          \A p \in patterns : p.tag = "struct" =>
            \E k \in DOMAIN t.fields :
              LET q == Given(p.members, t.fields, k)
              IN  q # None /\ Missing[t.fields[k].type][{q}]]

-----------------------------------------------------------------------------
(* Which values a type has. *)
IsA[t \in Types] ==
  [value \in Values |->
     /\ t.tag = "number" => "number" \in DOMAIN value
     /\ t.tag = "bool" => value \in {Yes, No}
     /\ t.tag = "pointer" => \/ t.optional /\ value = Null
                             \/ "to" \in DOMAIN value /\ IsA[t.to][value.to]
     /\ t.tag = "struct" =>
          /\ "fields" \in DOMAIN value /\ DOMAIN value.fields = DOMAIN t.fields
          /\ \A k \in DOMAIN t.fields : IsA[t.fields[k].type][value.fields[k]]
     /\ t.tag = "union" =>
          /\ {"member", "data"} \subseteq DOMAIN value /\ value.member \in MemberNames(t)
          /\ IF MemberType(t, value.member) = None THEN value.data = None
             ELSE value.data # None /\ IsA[MemberType(t, value.member)][value.data]]

(* A pattern that names no field that has a default leaves it to its       *)
(* default, which get_missing_pattern does not see.                        *)
TakesDefault[t \in Types] ==
  [p \in Patterns |->
     CASE p.tag = "pointer" -> t.tag = "pointer" /\ TakesDefault[t.to][p.to]
       [] p.tag = "struct" ->
            /\ t.tag = "struct"
            /\ \E k \in DOMAIN t.fields :
                 LET q == Given(p.members, t.fields, k)
                 IN  \/ q = None /\ t.fields[k].default # None
                     \/ q # None /\ TakesDefault[t.fields[k].type][q]
       [] p.tag = "call" -> HoldsSome(t, p.fn) /\ TakesDefault[MemberType(t, p.fn)][AsStruct(p)]
       [] OTHER -> FALSE]

(* When the type checker finds no pattern missing, one of the clauses runs *)
(* for every value, so that an `if' that is used for its value has one.    *)
(* (Not so when a pattern leaves out a field that has a default.)          *)
Exhaustive(t, patterns) ==
  ~Missing[t][patterns] /\ (\A p \in patterns : Fits[t][p] /\ ~TakesDefault[t][p]) =>
    \A value \in Values : IsA[t][value] => \E p \in patterns : Matches[t][value][p]

(* Some clause runs for every value. *)
PatternsExhaustive ==
  [][input.kind = "match" => Exhaustive(input.type, input.patterns)]_<<input, answered>>
=============================================================================
