------------------------------- MODULE Modules -------------------------------
(***************************************************************************)
(* Files that use each other (compile/blocks.c, compile/program.c): how a  *)
(* file is compiled once, what its names mean, and how the program loads   *)
(* it.  A program is a sequence of files, the first one the main program;  *)
(* a file is a sequence of statements:                                     *)
(*   [op "use", of, as]     use file, or  as := use file  (as "": no name) *)
(*   [op "declare", name]   name := value                                  *)
(*   [op "read", in, name]  a use of a variable, as name or in.name        *)
(*   [op "def", name, reads]  a function that reads the variable           *)
(*   [op "call", in, name]  its call                                       *)
(***************************************************************************)
EXTENDS Naturals, Sequences, SequencesExt

CONSTANT Globals  \* the names that are known everywhere

(* What a name is bound to (binding_t). *)
NotFound == [is |-> "none"]
Variable(file, at) == [is |-> "var", file |-> file, at |-> at]
Func(file, at) == [is |-> "func", file |-> file, at |-> at]
Module(file) == [is |-> "module", file |-> file]
Global == Variable(0, 0)

(* The compiler: the names of each file that it has begun, in that order,  *)
(* what their statements do, and whether it has met no error.              *)
Fresh == [ns |-> [f \in {} |-> <<>>], code |-> [f \in {} |-> <<>>], ok |-> TRUE]
With(map, key, x) == [k \in DOMAIN map \cup {key} |-> IF k = key THEN x ELSE map[k]]
Bind(st, f, name, binding) == [st EXCEPT !.ns[f] = With(@, name, binding)]
Emit(st, f, code) == [st EXCEPT !.code[f] = Append(@, code)]
Failed(st) == [st EXCEPT !.ok = FALSE]

(* get_from_namespace *)
Within(names, name) == IF name \in DOMAIN names THEN names[name] ELSE NotFound

(* get_binding: what is not a name of the file is a global one. *)
Look(names, name) ==
  IF name \in DOMAIN names THEN names[name] ELSE IF name \in Globals THEN Global ELSE NotFound

(* A field of a module is looked up in its file, with no other to fall     *)
(* back to.                                                                *)
Meaning(st, f, s) ==
  LET m == Within(st.ns[f], s.in)
  IN  IF s.in = "" THEN Look(st.ns[f], s.name)
      ELSE IF m.is = "module" THEN Within(st.ns[m.file], s.name) ELSE NotFound

(* `use' without a name: all names of the file but those of functions,     *)
(* and none that is there already.                                         *)
BugImport(st, f, of) ==
  LET new == {n \in DOMAIN st.ns[of] : st.ns[of][n].is # "func"} \ DOMAIN st.ns[f]
  IN  [st EXCEPT !.ns[f] = [n \in DOMAIN @ \cup new |-> IF n \in new THEN st.ns[of][n] ELSE @[n]]]
Import(st, f, of) ==
  LET new == {n \in DOMAIN st.ns[of] : st.ns[of][n].is # "func"}
  IN  IF new \cap (DOMAIN st.ns[f] \cup Globals) # {} THEN Failed(st)
      ELSE [st EXCEPT !.ns[f] = [n \in DOMAIN @ \cup new |-> IF n \in new THEN st.ns[of][n] ELSE @[n]]]

RECURSIVE Prepare(_, _, _)

(* populate_uses *)
Use(st, files, f, s) ==
  LET used == Prepare(st, files, s.of)
  IN  IF s.as = "" THEN Import(used, f, s.of) ELSE Bind(used, f, s.as, Module(s.of))

(* compile_statement *)
Statement(st, f, i, s) ==
  CASE s.op = "use" -> LET loads == Emit(st, f, [does |-> "load", file |-> s.of])
                       IN  IF s.as = "" THEN loads ELSE Bind(loads, f, s.as, Module(s.of))
    [] s.op = "declare" -> Emit(Bind(st, f, s.name, Variable(f, i)), f, [does |-> "init", what |-> Variable(f, i)])
    [] s.op = "read" -> LET v == Meaning(st, f, s)
                        IN  IF v.is = "var" THEN Emit(st, f, [does |-> "read", what |-> v]) ELSE Failed(st)
    [] s.op = "call" -> LET fn == Meaning(st, f, s)
                        IN  IF fn.is = "func" THEN Emit(st, f, [does |-> "call", what |-> fn]) ELSE Failed(st)
    [] s.op = "def" -> Emit(st, f, [does |-> "nothing"])

(* prepare_use: a file that was begun before, even if it is not done, is   *)
(* not compiled again.  The files that it uses come first, then its        *)
(* functions are known, and then its statements are compiled one by one.   *)
Prepare(st, files, f) ==
  LET begun == [st EXCEPT !.ns = With(@, f, [n \in {} |-> NotFound]), !.code = With(@, f, <<>>)]
      at == [i \in DOMAIN files[f] |-> i]
      uses == FoldLeft(LAMBDA c, s : IF s.op = "use" THEN Use(c, files, f, s) ELSE c, begun, files[f])
      defs == FoldLeft(LAMBDA c, i : IF files[f][i].op = "def" THEN Bind(c, f, files[f][i].name, Func(f, i)) ELSE c, uses, at)
  IN  IF f \in DOMAIN st.ns THEN st
      ELSE FoldLeft(LAMBDA c, i : Statement(c, f, i, files[f][i]), defs, at)

(* compile_file: the main program, then the bodies of functions, for which *)
(* file_scope puts the global names before those of the file.              *)
InFunction(st, f, s) == IF s.in = "" /\ s.name \in Globals THEN Global ELSE Meaning(st, f, s)
Compile(files) ==
  LET st == Prepare(Fresh, files, 1)
      resolved == \A f \in DOMAIN st.ns : \A i \in DOMAIN files[f] :
                    files[f][i].op = "def" => InFunction(st, f, files[f][i].reads).is = "var"
  IN  [st EXCEPT !.ok = @ /\ resolved]

-----------------------------------------------------------------------------
(* The program runs: which files are loaded, what happened, in order.      *)
RECURSIVE Load(_, _, _, _)
Step(run, files, st, f, i) ==
  LET c == st.code[f][i]
      noted == [run EXCEPT !.trace = Append(@, [file |-> f, at |-> i])]
      sees(v) == [noted EXCEPT !.reads = Append(@, [file |-> f, at |-> i, what |-> v, ready |-> v \in run.ready])]
  IN  CASE c.does = "load" -> Load(noted, files, st, c.file)
        [] c.does = "init" -> [noted EXCEPT !.ready = @ \cup {c.what}]
        [] c.does = "read" -> sees(c.what)
        [] c.does = "call" -> sees(InFunction(st, c.what.file, files[c.what.file][c.what.at].reads))
        [] c.does = "nothing" -> noted

(* load_module: the statements run at the first call, which is noted       *)
(* before the first of them.                                               *)
Load(run, files, st, f) ==
  IF f \in run.loaded THEN run
  ELSE FoldLeft(LAMBDA r, i : Step(r, files, st, f, i), [run EXCEPT !.loaded = @ \cup {f}],
                [i \in DOMAIN files[f] |-> i])
Run(files, st) == Load([loaded |-> {}, ready |-> {Global}, trace |-> <<>>, reads |-> <<>>], files, st, 1)

-----------------------------------------------------------------------------
Used(files, f) == {files[f][i].of : i \in {j \in DOMAIN files[f] : files[f][j].op = "use"}}
RECURSIVE Reached(_, _)
Reached(files, some) ==
  LET more == some \cup UNION {Used(files, f) : f \in some}
  IN  IF more = some THEN some ELSE Reached(files, more)
Acyclic(files) == \A f \in DOMAIN files : f \notin Reached(files, Used(files, f))

(* What a file offers, and what a name means in it before its statement i: *)
(* its own last declaration, or else what a file offers that it uses.      *)
Own(files, f, i, name) == {j \in 1..i - 1 : files[f][j].op = "declare" /\ files[f][j].name = name}
RECURSIVE Offers(_, _, _, _)
Offers(files, f, i, name) ==
  LET own == Own(files, f, i, name)
      bare == {files[f][j].of : j \in {k \in DOMAIN files[f] : files[f][k].op = "use" /\ files[f][k].as = ""}}
  IN  IF own # {} THEN {Variable(f, CHOOSE j \in own : \A k \in own : k <= j)}
      ELSE UNION {Offers(files, g, Len(files[g]) + 1, name) : g \in bare}

(* Every file that is used, in a circle or by many, runs once, from its    *)
(* first statement to its last.                                            *)
LoadsOnce(files) ==
  LET st == Compile(files)
      r == Run(files, st)
  IN  st.ok =>
        /\ r.loaded = Reached(files, {1})
        /\ \A f \in r.loaded : SelectSeq(r.trace, LAMBDA e : e.file = f) = [i \in DOMAIN files[f] |-> [file |-> f, at |-> i]]

(* A name means one variable, where files do not use each other in a       *)
(* circle: the nearest declaration above or in the files used.             *)
NamesMeanOne(files) ==
  LET st == Compile(files)
  IN  st.ok /\ Acyclic(files) =>
        \A f \in DOMAIN st.ns : \A i \in DOMAIN files[f] :
          LET s == files[f][i]
          IN  s.op = "read" /\ s.in = "" =>
                Offers(files, f, i, s.name) = IF st.code[f][i].what = Global THEN {} ELSE {st.code[f][i].what}

(* Where, besides, files are used before anything else, no statement reads *)
(* a variable that its declaration has not given a value yet; nor does a   *)
(* function of another file.                                               *)
UsesFirst(file) == \A i, j \in DOMAIN file : file[i].op = "use" /\ j < i => file[j].op = "use"
ReadsAreReady(files) ==
  LET st == Compile(files)
  IN  st.ok /\ Acyclic(files) /\ (\A f \in DOMAIN files : UsesFirst(files[f])) =>
        \A e \in {Run(files, st).reads[i] : i \in DOMAIN Run(files, st).reads} :
          \/ e.ready
          \/ st.code[e.file][e.at].does = "call" /\ st.code[e.file][e.at].what.file = e.file
=============================================================================
