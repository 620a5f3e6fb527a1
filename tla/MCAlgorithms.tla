---------------------------- MODULE MCAlgorithms ----------------------------
(* The parts of the system that compute a result from their input alone,   *)
(* each checked for every input of a small set. The one step of a          *)
(* behaviour is the computation; the properties are about that step.       *)
(* Its variables, an input and whether it was answered, are those of Question. *)
EXTENDS Units, Match, FiniteSetsExt

vars == <<input, answered>>

-----------------------------------------------------------------------------
(* Pattern matches: types and, for each, patterns and values. *)
Bool == [tag |-> "bool"]
Number == [tag |-> "number"]
Field(name, type, default) == [name |-> name, type |-> type, default |-> default]
Pair == [tag |-> "struct", fields |-> <<Field("a", Bool, None), Field("b", Bool, None)>>]
HalfPair == [Pair EXCEPT !.fields[2].default = [tag |-> "value", value |-> Yes]]
PointersTo(t) == [tag : {"pointer"}, to : {t}, optional : BOOLEAN]
OneField == [tag |-> "struct", fields |-> <<Field("a", [tag |-> "pointer", to |-> Bool, optional |-> TRUE], None)>>]
Union == [tag |-> "union", members |-> <<[name |-> "nothing", type |-> None],
                                         [name |-> "one", type |-> OneField], [name |-> "two", type |-> Pair]>>]
MatchedTypes == {Bool, Number, Pair, HalfPair, Union} \cup PointersTo(Bool) \cup PointersTo(Pair)
MCTypes == MatchedTypes \cup {OneField}

RECURSIVE DepthOf(_), PatternsFor(_), ValuesFor(_)
DepthOf(t) == 1 + (IF PartsOfType(t) = {} THEN 0 ELSE Max({DepthOf(u) : u \in PartsOfType(t)}))
MCDepth == [t \in MCTypes |-> DepthOf(t)]

(* At most two members, by position, by name, or the first by name only. *)
MemberLists(fields) ==
  LET some(name, k) == [name : {name}, pattern : PatternsFor(fields[k].type)]
      n == Len(fields)
  IN  {<<>>} \cup {<<x>> : x \in some("", 1) \cup some(fields[n].name, n)}
        \cup {<<x, y>> : x \in IF n = 2 THEN some("", 1) ELSE {}, y \in some("", n)}
        \cup {<<x, y>> : x \in IF n = 2 THEN some("b", 2) ELSE {}, y \in some("", 1)}
PatternsFor(t) ==
  {[tag |-> "wildcard", name |-> "x"]} \cup
  CASE t.tag = "bool" -> [tag : {"value"}, value : {No, Yes}]
    [] t.tag = "number" -> [tag : {"value"}, value : [number : {0, 1}]]
    [] t.tag = "pointer" -> [tag : {"pointer"}, to : PatternsFor(t.to)] \cup [tag : {"value"}, value : {Null}]
    [] t.tag = "struct" -> [tag : {"struct"}, members : MemberLists(t.fields)]
    [] t.tag = "union" ->
         [tag : {"member"}, name : {"nothing", "one"}]
           \cup [tag : {"call"}, fn : {"one"}, members : {l \in MemberLists(OneField.fields) : l # <<>> /\ l[1].name = ""}]
           \cup [tag : {"call"}, fn : {"two"}, members : {l \in MemberLists(Pair.fields) : Len(l) = 2 /\ l[1].name = ""}]
MCPatterns == UNION {PatternsFor(t) : t \in MCTypes}

ValuesFor(t) ==
  CASE t.tag = "bool" -> {No, Yes}
    [] t.tag = "number" -> [number : 0..2]
    [] t.tag = "pointer" -> [to : ValuesFor(t.to)] \cup (IF t.optional THEN {Null} ELSE {})
    [] t.tag = "struct" ->
         [fields : {f \in [DOMAIN t.fields -> UNION {ValuesFor(t.fields[k].type) : k \in DOMAIN t.fields}] :
                      \A k \in DOMAIN f : f[k] \in ValuesFor(t.fields[k].type)}]
    [] t.tag = "union" ->
         UNION {[member : {m.name}, data : IF m.type = None THEN {None} ELSE ValuesFor(m.type)] :
                  m \in {t.members[i] : i \in DOMAIN t.members}}
MCValues == UNION {ValuesFor(t) : t \in MCTypes}

Upto(n, all) ==
  LET sets[k \in 0..n] == IF k = 0 THEN {{}} ELSE {s \cup {x} : s \in sets[k - 1], x \in all}
  IN  UNION {sets[k] : k \in 0..n}
Matched ==
  UNION {[kind : {"match"}, type : {t}, patterns : Upto(IF t = Union THEN 4 ELSE 3, PatternsFor(t))] :
           t \in MatchedTypes}

-----------------------------------------------------------------------------
(* Types: numbers, pointers, names, and structs of two of them. *)
Ints == [tag : {"int"}, bits : {8, 16, 32, 64}, unsigned : BOOLEAN, units : {"", "m"}]
Nums == [tag : {"num"}, bits : {32, 64}, units : {"", "m"}]
Int64 == [tag |-> "int", bits |-> 64, unsigned |-> FALSE, units |-> ""]
Struct(fields) == [tag |-> "struct", names |-> <<>>, fields |-> fields, units |-> ""]
Name(name) == [tag |-> "variant", name |-> name, units |-> ""]
PointerTo(t) == [tag : {"pointer"}, to : {t}, optional : BOOLEAN, stack : BOOLEAN, readonly : BOOLEAN]
Optional(t) == [tag |-> "pointer", to |-> t, optional |-> TRUE, stack |-> FALSE, readonly |-> FALSE]
NamedTypes ==
  [Length |-> [tag |-> "num", bits |-> 64, units |-> "m"],
   Count |-> [Int64 EXCEPT !.bits = 16],
   Point |-> Struct(<<Int64, Int64>>),
   Node |-> Struct(<<Int64, Optional(Name("Node"))>>),
   Tree |-> [tag |-> "union", members |-> <<Struct(<<>>), Struct(<<Name("Branch")>>)>>],
   Branch |-> [tag |-> "array", item |-> Name("Tree")],
   Row |-> [tag |-> "array", item |-> Int64]]
Typing == INSTANCE Typecheck WITH Definitions <- NamedTypes

TypeNames == [tag : {"variant"}, name : DOMAIN NamedTypes, units : {"", "m"}]
Plain == {Bool, Int64, [Int64 EXCEPT !.bits = 8], [Int64 EXCEPT !.unsigned = TRUE], Name("Point"), Optional(Bool)}
SomeTypes ==
  Ints \cup Nums \cup TypeNames \cup Plain
    \cup UNION {PointerTo(t) : t \in {Bool, Int64, Name("Node"), [tag |-> "memory"], [tag |-> "cchar"]}}
    \cup {Struct(<<t, u>>) : t, u \in Plain}
    \cup {[tag |-> "array", item |-> t] : t \in {Int64, [tag |-> "char"], Name("Tree")}}
    \cup {[tag |-> "table", key |-> Bool, value |-> Name("Node")], [tag |-> "abort"]}
Typed == [kind : {"types"}, one : SomeTypes, other : SomeTypes]

(* Promotion and common types keep every value, and cycles are found. *)
TypesAgree == [][input.kind = "types" => Typing!Sensible(input.one, input.other)]_vars

-----------------------------------------------------------------------------
(* Expressions over four variables, a new name, and the types of pointers. *)
Ptr(t, optional) == [Optional(t) EXCEPT !.optional = optional]
Env == [b |-> Bool, p |-> Ptr(Bool, FALSE), q |-> Optional(Bool), r |-> Ptr(Optional(Bool), FALSE)]
Var(name) == [op |-> "var", name |-> name]
Of(op, x) == [op |-> op, of |-> x]
Two(op, x, y) == [op |-> op, lhs |-> x, rhs |-> y]
If(yes, no) == [op |-> "if", yes |-> yes, no |-> no]
MatchExpr(of, name, yes, no) == [op |-> "matches", of |-> of, name |-> name, yes |-> yes, no |-> no]
Do(body, no, labelled) == [op |-> "do", body |-> body, no |-> no, labelled |-> labelled]
Declare(name, x) == [op |-> "declare", name |-> name, of |-> x]
Assign(name, x) == [op |-> "assign", name |-> name, of |-> x]

Leaves ==
  {Var(n) : n \in DOMAIN Env} \cup [op : {"nil"}, to : {Bool}] \cup [op : {"ref"}, name : {"b", "q"}]
    \cup [op : {"skip", "fail"}]
Elses == {<<>>} \cup {<<x>> : x \in Leaves}

Simple ==
  {Of(op, x) : op \in {"alloc", "deref", "not"}, x \in Leaves}
    \cup {Two(op, x, y) : op \in {"and", "or"}, x \in Leaves, y \in Leaves}
    \cup {If(<<x>>, no) : x \in Leaves, no \in Elses}
    \cup {Do(<<x>>, no, labelled) : x \in Leaves, no \in Elses, labelled \in BOOLEAN}

(* One operation of which one part is one of `some'. *)
Around(some) ==
  LET alone == {<<x>> : x \in some}
      leaves == {<<y>> : y \in Leaves}
      used == {<<Var("y")>>, <<Var("q")>>, <<Of("deref", Var("y"))>>, <<[op |-> "fail"]>>}
      before == {<<x, Var(n)>> : x \in some, n \in {"b", "q", "p"}}
      declared == {<<Declare(n, x), Var(m)>> : n \in {"y", "q"}, x \in some, m \in {"y", "q"}}
      assigned == {<<Assign(n, x), Var(n)>> : n \in DOMAIN Env, x \in some}
  IN  UNION {[op : {"alloc", "deref", "not"}, of : some],
             [op : {"and", "or"}, lhs : some, rhs : Leaves],
             [op : {"and", "or"}, lhs : Leaves, rhs : some],
             [op : {"if"}, yes : alone, no : leaves],
             [op : {"if"}, yes : leaves, no : alone],
             [op : {"matches"}, of : some, name : {"y", "q"}, yes : used, no : Elses],
             [op : {"do"}, body : alone \cup before, no : {<<>>, <<Var("b")>>, <<Var("p")>>}, labelled : {FALSE}],
             [op : {"do"}, body : declared \cup assigned, no : {<<>>}, labelled : {FALSE}]}
Expressions == Around(Leaves \cup Simple)

(* A value is one of the type that the compiler gave it. *)
ValuesFit == [][input.kind = "typecheck" => Typing!SoundUnlessOdd(Env, input.of)]_vars

-----------------------------------------------------------------------------
(* Arithmetic, on numbers of few bits. *)
Numeric == INSTANCE Arithmetic WITH Definitions <- NamedTypes

Int8 == [Int64 EXCEPT !.bits = 8]
Num64 == [tag |-> "num", bits |-> 64, units |-> ""]
Flags == [tag |-> "union", members |-> <<Struct(<<>>), Struct(<<>>)>>]
ListOf(t) == [tag |-> "array", item |-> t]
Scalars ==
  {Int8, [Int8 EXCEPT !.bits = 16], [Int8 EXCEPT !.unsigned = TRUE], Num64, [Num64 EXCEPT !.units = "m"],
   [Num64 EXCEPT !.units = "%"], Name("Count"), [Name("Length") EXCEPT !.units = "m"], Bool, Flags}
Wholes ==
  {Struct(<<Int8, Num64>>), Struct(<<Num64>>), [Struct(<<Num64>>) EXCEPT !.units = "m"], Struct(<<Bool>>)}
    \cup {ListOf(t) : t \in Scalars}
    \cup {ListOf(Struct(<<Int8, Num64>>)), ListOf(ListOf(Num64)), Struct(<<ListOf(Num64), Num64>>)}

RECURSIVE SomeValues(_)
SomeValues(t) ==
  CASE t.tag = "bool" -> BOOLEAN
    [] t.tag = "union" -> {{1}, {2}, {1, 2}}
    [] t.tag = "array" ->
         LET x == CHOOSE v \in SomeValues(t.item) : TRUE
             y == CHOOSE v \in SomeValues(t.item) : v # x
         IN  {<<>>, <<y>>, <<x, y>>}
    [] t.tag = "struct" ->
         IF Len(t.fields) = 1 THEN {<<v>> : v \in SomeValues(t.fields[1])}
         ELSE SomeValues(t.fields[1]) \X SomeValues(t.fields[2])
    [] t.tag = "int" /\ t.bits = 8 -> IF t.unsigned THEN {2, 200} ELSE {-128, 3, 100}
    [] OTHER -> {-200, 3, 300}
Calculated ==
  \E t, u \in Scalars \cup Wholes, op \in {"add", "subtract", "multiply", "divide", "and", "or", "xor"} :
    \E x \in SomeValues(t), y \in SomeValues(u) :
      input = [kind |-> "math", op |-> op, l |-> t, x |-> x, r |-> u, y |-> y]

(* Arithmetic goes by places, and an update agrees with it. *)
MathAgrees ==
  [][input.kind = "math" =>
       /\ Numeric!BuildsEachPlace(input.op, input.l, input.x, input.r, input.y)
       /\ Numeric!UpdatesAsItBuilds(input.op, input.l, input.x, input.r, input.y)]_vars

-----------------------------------------------------------------------------
(* Units of three names, with up to two conversions. Strings of units are  *)
(* canonical, and a conversion keeps the quantity: UnitsAgree of Units.    *)
Piece(name, power) == [is |-> "name", name |-> name, power |-> power]
Pieces == {Piece(n, p) : n \in 1..3, p \in {-1, 1, 2}} \cup {[is |-> "slash"]}
Strings(n) == UNION {[1..m -> Pieces] : m \in 0..n}
Conversions ==
  [derived : {<<Piece(1, 1)>>, <<Piece(2, 1)>>, <<Piece(1, 1), Piece(2, 1)>>},
   base : {<<Piece(2, 1)>>, <<Piece(3, 1)>>, <<Piece(2, 2)>>, <<Piece(2, 1), [is |-> "slash"], Piece(3, 1)>>}]
Products ==
  [kind : {"units"}, names : {1..3}, a : Strings(3), b : Strings(1)]
    \cup [kind : {"units"}, names : {1..3}, a : Strings(2), b : Strings(2)]
Derivations ==
  [kind : {"derive"}, names : {1..3}, a : Strings(2), conversions : UNION {[1..n -> Conversions] : n \in 0..2}]

-----------------------------------------------------------------------------
(* Values to compare and hash; what is at one place is the same. *)
Contents == INSTANCE ValueSemantics WITH Definitions <- NamedTypes

Leaf(n, rep, nan) == [n |-> n, rep |-> rep, nan |-> nan]
TableOf(k, v) == [tag |-> "table", key |-> k, value |-> v]
Few(s) == LET x == CHOOSE v \in s : TRUE IN {x, CHOOSE v \in s : v # x}
RECURSIVE Objects(_, _)
Objects(type, side) ==
  LET t == Contents!Base(type)
      few(u, k) == Few(Objects(u, k))
      place(contents) == [side |-> side, contents |-> contents]
      first == CHOOSE v \in few(t.item, 0) : TRUE
      upto2(s) == {<<>>} \cup {<<x>> : x \in s} \cup {<<x, y>> : x \in s, y \in s}
      tables(k) ==
        {[at |-> place(s), entries |-> s, fallback |-> <<>>, default |-> <<>>] :
           s \in {r \in upto2([key : few(t.key, k), value : few(t.value, k)]) :
                    Len(r) = 2 => ~Contents!SameContents(t.key, r[1].key, r[2].key)}}
  IN  CASE t.tag = "bool" -> {Leaf(0, 0, FALSE), Leaf(1, 0, FALSE)}
        [] t.tag = "num" -> {Leaf(0, 0, FALSE), Leaf(0, 1, FALSE), Leaf(1, 0, FALSE), Leaf(0, 2, TRUE)}
        [] t.tag \in {"int", "pointer"} -> {Leaf(n, 0, FALSE) : n \in 1..3}
        [] t.tag = "array" -> [at : {[side |-> 0, contents |-> <<>>]}, items : {<<first>>, <<first, first>>}]
                                \cup {[at |-> place(s), items |-> s] : s \in upto2(few(t.item, side))}
        [] t.tag = "struct" ->
             IF Len(t.fields) = 1 THEN {[fields |-> <<v>>] : v \in Objects(t.fields[1], side)}
             ELSE {[fields |-> <<v, w>>] : v \in few(t.fields[1], side), w \in Objects(t.fields[2], side)}
        [] t.tag = "union" -> {[member |-> 1, data |-> <<>>]}
                                \cup {[member |-> 2, data |-> <<v>>] : v \in Objects(t.members[2], side)}
        [] t.tag = "table" ->
             tables(side)
               \cup {[h EXCEPT !.default = <<v>>] : h \in tables(side), v \in few(t.value, side)}
               \cup {[h EXCEPT !.fallback = <<f>>] : h \in tables(side), f \in {CHOOSE g \in tables(0) : Len(g.entries) = 1}}
Comparable ==
  {Int64, Num64, Bool, ListOf(Int64), ListOf(Num64), ListOf(ListOf(Int64)), Struct(<<Int64, Num64>>),
   Struct(<<Int64, ListOf(Int64)>>), Struct(<<Struct(<<ListOf(Int64)>>)>>), Struct(<<Name("Row")>>), Name("Row"),
   [tag |-> "union", members |-> <<Struct(<<>>), Struct(<<Int64, ListOf(Bool)>>)>>],
   TableOf(Int64, Bool), TableOf(ListOf(Int64), Int64), Struct(<<TableOf(Int64, Int64)>>)}
Compared == UNION {[kind : {"values"}, type : {t}, a : Objects(t, 1), b : Objects(t, 2)] : t \in Comparable}

(* The promises about values hold. *)
PromisesKept == [][input.kind = "values" => Contents!Promises(input.type, input.a, input.b)]_vars

-----------------------------------------------------------------------------
(* Programs of three files; x is a variable, h a function, and g is global. *)
Files == INSTANCE Modules WITH Globals <- {"g"}

Use(of, as) == [op |-> "use", of |-> of, as |-> as]
Declaration(name) == [op |-> "declare", name |-> name]
Read(in, name) == [op |-> "read", in |-> in, name |-> name]
Def(name, in) == [op |-> "def", name |-> name, reads |-> Read(in, "x")]
Main == {Use(2, ""), Use(2, "m"), Use(3, ""), Declaration("x"), Read("", "x"), Read("m", "x"), [op |-> "call", in |-> "m", name |-> "h"]}
Library == {Use(1, ""), Use(3, ""), Use(3, "m"), Declaration("x"), Read("", "x"), Def("h", "")}
Other == {<<Declaration("x")>>, <<Use(2, ""), Declaration("x")>>, <<Use(1, "m"), Declaration("g")>>}
Programs == (UNION {[1..n -> Main] : n \in 1..3}) \X (UNION {[1..n -> Library] : n \in 0..2}) \X Other

(* Files are loaded once, and their names are the ones meant. *)
FilesLoad ==
  [][input.kind = "program" =>
       /\ Files!LoadsOnce(input.files) /\ Files!NamesMeanOne(input.files) /\ Files!ReadsAreReady(input.files)]_vars

-----------------------------------------------------------------------------
(* Programs as they are written: operators in all orders, and statements   *)
(* of which one part has a statement in it, before another one.            *)
Source == INSTANCE Layout

Absent == Source!None
N1 == Source!Number("1")
N2 == Source!Number("2")
Operators == {"*", "+", "and", "or"}
Binary(op, x, y) == [op |-> op, lhs |-> x, rhs |-> y]
Unary(op, x) == [op |-> op, value |-> x]
Ranges(some) ==
  [op : {".."}, first : some \cup {Absent}, last : some \cup {Absent}, step : some \cup {Absent}]
Combined(xs, ys) == {Binary(op, x, y) : op \in Operators, x \in xs, y \in ys}
Level1 == {N1, Unary("@", N1), Unary("not", N1), Source!RangeOf(N1, Absent, Absent), Source!RangeOf(N1, N2, N2)}
Level2 == Combined({N1}, Level1) \cup Combined(Level1, {N1}) \cup {Unary(op, x) : op \in {"@", "not"}, x \in Level1}

(* Statements in parentheses: exits with and without a condition, and loops. *)
If2(subject, p1, b1, p2, b2) == Source!If(subject, <<Source!Clause(p1, b1), Source!Clause(p2, b2)>>)
Returns == {Source!Return(x) : x \in {Absent, N1, Unary("not", N1), Binary("or", N1, N2)}}
Fails == {Source!Fail(x) : x \in {Absent, N1, Unary("@", N1), Binary("or", N1, N2)}}
Guarded(x) == {If2(N1, Source!Yes, x, Source!No, Source!Pass), If2(N1, N2, Source!Pass, Source!Wildcard, x)}
Bracketed ==
  {Source!Exit("skip", "l"), Source!While(N1, N2, Absent), Source!While(Source!Return(N1), N2, Absent)}
    \cup Returns \cup Fails \cup UNION {Guarded(x) : x \in {Source!Return(Absent)} \cup Fails}
Enclosing(some) ==
  Combined(some, {N1}) \cup Combined({N1}, some) \cup {Unary(op, x) : op \in {"@", "not"}, x \in some}
    \cup {Source!Return(x) : x \in some} \cup {Source!Fail(x) : x \in some}
Trees ==
  Combined(Level2, Level2 \cup {N1}) \cup Combined({N1}, Level2)
    \cup Enclosing(Bracketed \cup Enclosing(Bracketed))
    \cup UNION {{x, Unary(op, x), Binary("+", x, N1), Binary("or", N1, x)} :
                 x \in Ranges({N1} \cup Combined({N1}, {N1, Unary("not", N1)})), op \in {"@", "not"}}

Parts(some) == {Source!Block(s) : s \in some}
Suffixed(x, other) ==
  {x} \cup {If2(N1, Source!Yes, x, Source!No, other), If2(N1, Source!No, x, Source!Yes, other),
            If2(N1, N2, x, Source!Wildcard, other), If2(N1, N2, other, Source!Wildcard, x)}
Stops == UNION {Suffixed(Source!Exit(op, target), Source!Pass) : op \in {"stop", "skip"}, target \in {"", "for", "l"}}
Suffixes(some) ==
  UNION {{Source!While(N1, y, Absent), Source!For("i", N1, Absent, y, Absent, Absent)} :
            y \in UNION {Suffixed(x, Source!Exit("skip", "")) : x \in some}}
Shorts ==
  {N1, Source!Return(N1), Source!Fail(N1)} \cup UNION {Guarded(x) : x \in {Source!Return(Absent), Source!Fail(N1)}}
    \cup Stops \cup Suffixes({N1, Source!While(N1, N2, Absent)})

(* A statement with a part that is one of `some', and others of `rest'. *)
Statements(some, rest) ==
  LET maybe(s) == s \cup {Absent}
      two == {<<b, c>> : b \in some, c \in maybe(rest)} \cup {<<b, c>> : b \in rest, c \in some}
      If1(b, c) == IF c = Absent THEN Source!If(N1, <<Source!Clause(Source!Yes, b)>>) ELSE If2(N1, Source!Yes, b, Source!Wildcard, c)
      clauses(b, c) ==
        {Source!If(N1, <<Source!Clause(N1, b)>>), If2(N1, N1, b, N2, b), If2(N1, N1, b, Source!Wildcard, c),
         Source!If(N1, <<Source!Clause(N1, c), Source!Clause(N2, b), Source!Clause(Source!Wildcard, c)>>)}
      whole(b, c) ==
        {If1(b, c), Source!While(N1, b, c), [op |-> "repeat", body |-> b, between |-> c],
         [op |-> "do", label |-> "", body |-> b, empty |-> c], [op |-> "do", label |-> "l", body |-> b, empty |-> c],
         Source!For("i", N1, Absent, b, c, Absent), Source!For("i", N1, Absent, b, Absent, c)}
      alone(b) ==
        {If2(N1, Source!Yes, Source!Pass, Source!Wildcard, b), If2(N1, N2, Source!Pass, Source!Wildcard, b),
         [op |-> "defer", body |-> b], [op |-> "with", expr |-> N1, cleanup |-> Absent, body |-> b],
         [op |-> "with", expr |-> N1, cleanup |-> N2, body |-> b]}
      loops(b, c) ==
        {Source!For("i", N1, b, c, Absent, Absent), Source!For("i", N1, Absent, c, b, c), Source!For("i", N1, b, Source!Block(<<>>), c, Absent),
         Source!For("i", N1, c, b, c, c), Source!For("i", N1, c, c, c, b)}
  IN  UNION {alone(b) : b \in some} \cup UNION {whole(x[1], x[2]) : x \in two}
        \cup UNION {clauses(b, c) \cup loops(b, c) : b \in some, c \in rest}

Layouts == {l \in [inline : BOOLEAN, own : BOOLEAN, words : BOOLEAN, negated : BOOLEAN] : l.words => l.negated}
Under == [inline |-> FALSE, own |-> TRUE, words |-> FALSE, negated |-> FALSE]
Beside == [inline |-> TRUE, own |-> FALSE, words |-> TRUE, negated |-> FALSE]
Mixed == [inline |-> TRUE, own |-> TRUE, words |-> FALSE, negated |-> FALSE]
Inside == Statements(Parts({<<N1>>}), Parts({<<N2>>}))
Written ==
  [kind : {"text"}, of : {<<x>> : x \in Trees}, layout : {<<Under>>}]
    \cup [kind : {"text"}, of : {<<x, N1>> : x \in Statements(Parts({<<s>> : s \in Shorts}), Parts({<<N2>>}))},
          layout : {<<l>> : l \in Layouts}]
    \cup [kind : {"text"},
          of : {<<x, y>> : x \in Statements(Parts({<<s>> : s \in Inside} \cup {<<s, N2>> : s \in Inside}), Parts({<<N2>>})),
                           y \in {N1, Source!While(N1, Source!Block(<<N2>>), Absent)}},
          layout : {<<Under, Beside>>, <<Beside, Under>>, <<Mixed, Mixed>>}]

(* What is written is what the parser reads. *)
ReadsBack == [][input.kind = "text" => Source!ReadsBack(input.of, input.layout)]_vars

-----------------------------------------------------------------------------
(* Every kind of input. *)
Init == /\ answered = FALSE
        /\ \/ input \in Products
           \/ input \in Derivations
           \/ input \in Compared
           \/ Calculated
           \/ input \in Typed
           \/ input \in Written
           \/ input \in [kind : {"program"}, files : Programs]
           \/ input \in [kind : {"typecheck"}, of : Expressions]
           \/ input \in Matched
Next == Answer
Spec == Init /\ [][Next]_vars
=============================================================================
