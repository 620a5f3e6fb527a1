------------------------------ MODULE Typecheck ------------------------------
(***************************************************************************)
(* The type that the compiler infers for an expression (typecheck.c,       *)
(* get_type), what code generation refuses (compile/expr.c), and the       *)
(* values that the generated code has: a value of type @T is never null,   *)
(* whatever became of the ?T it was made from.                             *)
(*                                                                         *)
(* Expressions are records with a field `op'; a body is a sequence of      *)
(* them, and an `else' that is not there is <<>>.  The condition of an     *)
(* `if' is unknown; `matches' is an `if' with the pattern @name.  `and'    *)
(* and `or' are those of truth values and pointers.                        *)
(***************************************************************************)
EXTENDS Types

Bool == Simple("bool")
Void == Simple("void")
Abort == Simple("abort")

Generate(t) == IF t = Void THEN t ELSE Generator(t)
Bind(env, name, x) == [n \in DOMAIN env \cup {name} |-> IF n = name THEN x ELSE env[n]]
NoValue(t) == t.tag \in {"void", "abort"}

-----------------------------------------------------------------------------
RECURSIVE TypeOf(_, _), BlockType(_, _)

(* Block: only declarations bind names, and what they bind is not seen by  *)
(* the type of a last statement that has none.                             *)
BlockType(env, body) ==
  LET s == Head(body)
  IN  IF body = <<>> \/ body[Len(body)].op \in {"declare", "assign"} THEN Void
      ELSE IF Len(body) = 1 THEN TypeOf(env, s)
      ELSE BlockType(IF s.op = "declare" THEN Bind(env, s.name, TypeOf(env, s.of)) ELSE env, Tail(body))

(* bind_match_patterns, for @name: a name that is known is not bound. *)
PatternEnv(env, t, name) ==
  IF t.tag # "pointer" \/ name \in DOMAIN env THEN env ELSE Bind(env, name, t.to)

Joined(l, r, optional) ==
  [Pointer(l.to, optional, FALSE) EXCEPT !.readonly = l.readonly \/ (r.tag = "pointer" /\ r.readonly)]

(* get_math_type, for operands of which one is no pointer: what pointers   *)
(* point to decides.  Code generation refuses a truth value with a pointer *)
(* to one; arithmetic is not modelled here.                                *)
RECURSIVE Pointed(_)
Pointed(t) == IF t.tag = "pointer" THEN Pointed(t.to) ELSE t
MathType(l, r) ==
  IF (l.tag # "pointer" \/ r.tag # "pointer") /\ Same(Pointed(l), Pointed(r)) THEN Pointed(l) ELSE Err

(* Bug: what either side may lack is never lacking. *)
BugAndType(l, r) ==
  CASE r = Abort -> l
    [] l = Bool /\ r = Bool -> l
    [] l.tag = "pointer" /\ r.tag = "pointer" /\ Same(l.to, r.to) ->
         Joined(l, r, l.optional /\ r.optional)
    [] OTHER -> MathType(l, r)

(* And: the right side where there is a left one. *)
AndType(l, r) ==
  CASE r = Abort -> l
    [] l = Bool /\ r = Bool -> l
    [] l.tag = "pointer" /\ r.tag = "pointer" /\ Same(l.to, r.to) ->
         Joined(l, r, l.optional \/ r.optional)
    [] OTHER -> MathType(l, r)

(* Or: the left side, or the right one where there is none. *)
OrElseType(l, r) ==
  CASE l = Bool /\ r \in {Bool, Abort} -> l
    [] l.tag = "pointer" /\ r = Abort -> Joined(l, r, FALSE)
    [] l.tag = "pointer" /\ r.tag = "pointer" /\ Same(l.to, r.to) ->
         Joined(l, r, l.optional /\ r.optional)
    [] OTHER -> IF l.tag = "pointer" THEN Err ELSE MathType(l, r)

(* If: what all clauses can be; without an `else' where one may be needed, *)
(* perhaps nothing.                                                        *)
Clauses(yes, no, hasElse, covered) ==
  IF yes = Err \/ (hasElse /\ no = Err) THEN Err
  ELSE IF hasElse THEN OrType(yes, no)
  ELSE IF covered \/ yes.tag = "generator" THEN yes ELSE Generator(yes)

(* get_type *)
TypeOf(env, e) ==
  CASE e.op = "bool" -> Bool
    [] e.op = "var" -> IF e.name \in DOMAIN env THEN env[e.name] ELSE Err
    [] e.op = "nil" -> Pointer(e.to, TRUE, FALSE)
    [] e.op = "alloc" -> LET t == TypeOf(env, e.of)
                         IN  IF t = Err \/ HasStackMemory(t) THEN Err ELSE Pointer(t, FALSE, FALSE)
    [] e.op = "ref" -> IF e.name \in DOMAIN env THEN Pointer(env[e.name], FALSE, TRUE) ELSE Err
    [] e.op = "deref" -> LET t == TypeOf(env, e.of)
                         IN  IF t.tag = "pointer" /\ ~t.optional THEN t.to ELSE Err
    [] e.op = "not" -> LET t == TypeOf(env, e.of)
                       IN  IF t = Bool \/ (t.tag = "pointer" /\ t.optional) THEN Bool ELSE Err
    [] e.op = "and" -> AndType(TypeOf(env, e.lhs), TypeOf(env, e.rhs))
    [] e.op = "or" -> OrElseType(TypeOf(env, e.lhs), TypeOf(env, e.rhs))
    [] e.op = "if" -> Clauses(BlockType(env, e.yes), BlockType(env, e.no), e.no # <<>>, FALSE)
    [] e.op = "matches" ->
         LET t == TypeOf(env, e.of)
         IN  IF t.tag # "pointer" THEN Err
             ELSE Clauses(BlockType(PatternEnv(env, t, e.name), e.yes), BlockType(env, e.no),
                          e.no # <<>>, ~t.optional)
    [] e.op = "do" -> LET t == BlockType(env, e.body)
                          u == BlockType(env, e.no)
                      IN  IF t = Err \/ u = Err THEN Err
                          ELSE IF e.no # <<>> THEN OrType(t, u)
                          ELSE IF e.labelled THEN Generate(t) ELSE t
    [] e.op \in {"declare", "assign"} -> Void
    [] e.op \in {"skip", "fail"} -> Abort

-----------------------------------------------------------------------------
(* Code generation: whether the compiler goes on.  `inDo' is whether there *)
(* is a `do' for skip to leave.                                            *)
RECURSIVE Accepts(_, _, _), AcceptsBlock(_, _, _)

(* compile_statement refuses to drop a value. *)
Droppable(t) == NoValue(IF t.tag = "generator" THEN t.generated ELSE t)

AcceptsBlock(env, inDo, body) ==
  LET s == Head(body)
      t == TypeOf(env, s)
  IN  IF body = <<>> THEN TRUE
      ELSE /\ Accepts(env, inDo, s)
           /\ Len(body) > 1 => Droppable(t) /\ t # Abort
           /\ AcceptsBlock(IF s.op = "declare" THEN Bind(env, s.name, TypeOf(env, s.of)) ELSE env,
                           inDo, Tail(body))

(* A value that a clause leaves in the variable for the result. *)
Fits(t, result) == NoValue(result) \/ result.tag = "generator" \/ NoValue(t) \/ Machine(t) = Machine(result)

Accepts(env, inDo, e) ==
  LET t == TypeOf(env, e)
      part(x) == Accepts(env, inDo, x) /\ TypeOf(env, x) # Err
  IN  /\ t # Err
      /\ CASE e.op \in {"bool", "var", "nil", "ref", "fail"} -> TRUE
           [] e.op \in {"deref", "not"} -> part(e.of)
           [] e.op = "alloc" -> part(e.of) /\ t.to.tag \notin {"void", "abort", "generator"}
           [] e.op \in {"and", "or"} ->
                /\ part(e.lhs) /\ part(e.rhs)
                /\ TypeOf(env, e.lhs).tag \notin {"void", "abort", "generator"}
                /\ Machine(TypeOf(env, e.lhs)) = Machine(t) /\ Fits(TypeOf(env, e.rhs), t)
           [] e.op = "if" ->
                /\ AcceptsBlock(env, inDo, e.yes) /\ AcceptsBlock(env, inDo, e.no)
                /\ Fits(BlockType(env, e.yes), t) /\ Fits(BlockType(env, e.no), t)
           [] e.op = "matches" ->
                LET s == TypeOf(env, e.of)
                    inner == Bind(env, e.name, s.to)
                IN  /\ part(e.of) /\ ~s.stack
                    /\ AcceptsBlock(inner, inDo, e.yes) /\ AcceptsBlock(env, inDo, e.no)
                    /\ Fits(BlockType(inner, e.yes), t) /\ Fits(BlockType(env, e.no), t)
           [] e.op = "do" ->
                /\ AcceptsBlock(env, TRUE, e.body) /\ AcceptsBlock(env, FALSE, e.no)
                /\ t.tag # "generator"
                /\ Fits(BlockType(env, e.body), t) /\ Fits(BlockType(env, e.no), t)
           [] e.op = "declare" -> part(e.of) /\ TypeOf(env, e.of).tag \notin {"void", "abort", "generator"}
           [] e.op = "assign" ->
                /\ part(e.of) /\ TypeOf(env, e.of).tag # "generator"
                /\ e.name \in DOMAIN env /\ CanPromote(TypeOf(env, e.of), env[e.name])
           [] e.op = "skip" -> inDo

-----------------------------------------------------------------------------
(* What the code does.  A value is [at, of, name]: what a pointer to the   *)
(* heap points to is in `of', and for one to the stack there is a name.    *)
(* Names have their types and values.                                      *)
Value(at) == [at |-> at, of |-> <<>>, name |-> ""]
Heap(v) == [at |-> "heap", of |-> <<v>>, name |-> ""]
Nothing == Value("nothing")
Garbage == Value("garbage")  \* a variable that nothing was assigned to
IsTrue(v) == v.at \notin {"false", "null"}

On(value, store) == [kind |-> "on", value |-> value, store |-> store]
Exits(kind, store) == [kind |-> kind, value |-> Nothing, store |-> store]
TypesIn(store) == [n \in DOMAIN store |-> store[n].type]

(* The names of an inner scope go out of sight; what they hid comes back. *)
Out(o, outer, names) ==
  [o EXCEPT !.store = [n \in DOMAIN @ |-> IF n \in names \cap DOMAIN outer THEN outer[n] ELSE @[n]]]
Declared(body) == {s.name : s \in {x \in Range(body) : x.op = "declare"}}

RECURSIVE Run(_, _), Statements(_, _)
Statements(store, body) ==
  IF body = <<>> THEN {On(Nothing, store)}
  ELSE IF Len(body) = 1 THEN Run(store, body[1])
  ELSE UNION {IF o.kind = "on" THEN Statements(o.store, Tail(body)) ELSE {o} : o \in Run(store, body[1])}
Body(store, body) == {Out(o, store, Declared(body)) : o \in Statements(store, body)}

(* A result variable is only assigned a value of the body if there is one, *)
(* and that of the `else' of a `do' if there is one of its body, too.      *)
Unassigned(o) == [o EXCEPT !.value = Garbage]

Outcomes(store, e, o) ==
  CASE e.op = "alloc" -> {[o EXCEPT !.value = Heap(o.value)]}
    [] e.op = "deref" -> {[o EXCEPT !.value = CASE @.at = "heap" -> @.of[1]
                                                [] @.at = "stack" -> o.store[@.name].value
                                                [] OTHER -> Garbage]}
    [] e.op = "not" -> {[o EXCEPT !.value = Value(IF IsTrue(@) THEN "false" ELSE "true")]}
    [] e.op \in {"and", "or"} ->
         IF IsTrue(o.value) # (e.op = "and") THEN {o}
         ELSE IF TypeOf(TypesIn(store), e.rhs) = Abort  \* run for what it does
         THEN {IF r.kind = "on" THEN [r EXCEPT !.value = o.value] ELSE r : r \in Run(o.store, e.rhs)}
         ELSE Run(o.store, e.rhs)
    [] e.op = "declare" ->
         {On(Nothing, Bind(o.store, e.name, [type |-> TypeOf(TypesIn(store), e.of), value |-> o.value]))}
    [] e.op = "assign" -> {On(Nothing, [o.store EXCEPT ![e.name].value = o.value])}
    [] e.op = "matches" ->
         LET t == TypeOf(TypesIn(store), e.of)
         IN  IF o.value.at = "heap"
             THEN {Out(r, o.store, {e.name}) :
                     r \in Body(Bind(o.store, e.name, [type |-> t.to, value |-> o.value.of[1]]), e.yes)}
             ELSE Body(o.store, e.no)

Run(store, e) ==
  CASE e.op = "bool" -> {On(Value(at), store) : at \in {"true", "false"}}
    [] e.op = "var" -> {On(store[e.name].value, store)}
    [] e.op = "nil" -> {On(Value("null"), store)}
    [] e.op = "ref" -> {On([Value("stack") EXCEPT !.name = e.name], store)}
    [] e.op \in {"skip", "fail"} -> {Exits(e.op, store)}
    [] e.op = "if" -> Body(store, e.yes) \cup Body(store, e.no)
    [] e.op = "do" ->
         LET t == BlockType(TypesIn(store), e.body)
             otherwise(s) == IF e.no = <<>> THEN {On(Garbage, s)}
                             ELSE {IF o.kind = "on" /\ NoValue(t) THEN Unassigned(o) ELSE o : o \in Body(s, e.no)}
         IN  UNION {IF o.kind = "skip" THEN otherwise(o.store) ELSE {o} : o \in Body(store, e.body)}
    [] OTHER ->
         UNION {IF o.kind = "on" THEN Outcomes(store, e, o) ELSE {o} :
                  o \in Run(store, IF e.op \in {"and", "or"} THEN e.lhs ELSE e.of)}

-----------------------------------------------------------------------------
RECURSIVE Holds(_, _, _), ValuesOf(_)

(* A value is one of the type; nothing is asked of a type without values. *)
Holds(store, t, v) ==
  CASE t.tag = "bool" -> v.at \in {"true", "false"}
    [] t.tag = "int" -> v.at = "int"
    [] t.tag = "pointer" -> CASE v.at = "null" -> t.optional
                              [] v.at = "stack" -> t.stack /\ Holds(store, t.to, store[v.name].value)
                              [] v.at = "heap" -> Holds(store, t.to, v.of[1])
                              [] OTHER -> FALSE
    [] OTHER -> TRUE

(* The values of the variables that an expression finds. *)
ValuesOf(t) ==
  CASE t.tag = "bool" -> {Value("true"), Value("false")}
    [] t.tag = "int" -> {Value("int")}
    [] t.tag = "pointer" -> {Heap(v) : v \in ValuesOf(t.to)}
                              \cup (IF t.optional THEN {Value("null")} ELSE {})
Stores(env) ==
  {[n \in DOMAIN env |-> [type |-> env[n], value |-> v[n]]] :
     v \in {f \in [DOMAIN env -> UNION {ValuesOf(env[n]) : n \in DOMAIN env}] :
              \A n \in DOMAIN env : f[n] \in ValuesOf(env[n])}}

(* The expressions that the compiler gets wrong, by what is odd in them: a *)
(* clause that only leaves, before one that may be null; references to the *)
(* stack with `and' and `or'; a `do' that may be left without a value, or  *)
(* that is taken to leave for good; a pattern that hides a name.           *)
RECURSIVE Odd(_, _)
OddBody(env, body) ==
  LET envs[i \in 1..Len(body)] ==
        IF i = 1 THEN env
        ELSE IF body[i - 1].op = "declare"
             THEN Bind(envs[i - 1], body[i - 1].name, TypeOf(envs[i - 1], body[i - 1].of))
             ELSE envs[i - 1]
  IN  \E i \in DOMAIN body : Odd(envs[i], body[i])
Odd(env, e) ==
  LET mayBeNull(t) == t.tag = "pointer" /\ t.optional
      ofTwo(t, u) == (t = Abort /\ mayBeNull(u)) \/ (u = Abort /\ mayBeNull(t))
      inside == IF e.op = "matches" THEN Bind(env, e.name, TypeOf(env, e.of).to) ELSE env
  IN  CASE e.op \in {"alloc", "deref", "not", "declare", "assign"} -> Odd(env, e.of)
        [] e.op \in {"and", "or"} ->
             \/ Odd(env, e.lhs) \/ Odd(env, e.rhs)
             \/ HasStackMemory(TypeOf(env, e.lhs)) \/ HasStackMemory(TypeOf(env, e.rhs))
        [] e.op = "if" -> \/ OddBody(env, e.yes) \/ OddBody(env, e.no)
                          \/ ofTwo(BlockType(env, e.yes), BlockType(env, e.no))
        [] e.op = "matches" ->
             \/ e.name \in DOMAIN env \/ Odd(env, e.of)
             \/ OddBody(inside, e.yes) \/ OddBody(env, e.no)
             \/ ofTwo(BlockType(inside, e.yes), BlockType(env, e.no))
        [] e.op = "do" ->
             LET t == BlockType(env, e.body)
             IN  \/ OddBody(env, e.body) \/ OddBody(env, e.no)
                 \/ t # Void /\ e.no = <<>>
                 \/ NoValue(t) /\ e.no # <<>>
                 \/ ofTwo(t, BlockType(env, e.no))
        [] OTHER -> FALSE

(* What an expression that is compiled comes to is a value of the type     *)
(* that it was given, and so is what it leaves in every variable: never    *)
(* null where the type says that it is not, never a variable that was not  *)
(* assigned, never memory of the stack for memory of the heap.             *)
Sound(env, e) ==
  LET t == TypeOf(env, e)
  IN  Accepts(env, FALSE, e) =>
        \A store \in Stores(env) : \A o \in Run(store, e) :
          /\ o.kind = "on" => Holds(o.store, t, o.value)
          /\ \A n \in DOMAIN o.store : Holds(o.store, o.store[n].type, o.store[n].value)

SoundUnlessOdd(env, e) == Accepts(env, FALSE, e) /\ ~Odd(env, e) => Sound(env, e)
=============================================================================
