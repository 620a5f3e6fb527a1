------------------------------- MODULE Control -------------------------------
(***************************************************************************)
(* The compiler's translation of control flow into basic blocks with jumps *)
(* (compile/blocks.c, compile/loops.c, and the statements of              *)
(* compile/expr.c), and a run of what it emits, next to what the program   *)
(* means.  The programs are the statements of Meaning.                     *)
(***************************************************************************)
EXTENDS Meaning, SequencesExt, FiniteSets

CONSTANT Programs  \* bound: the bodies of functions that are compiled

-----------------------------------------------------------------------------
(* A basic block does its effects and ends in a jump, a condition or the   *)
(* end of the function; `open' blocks have no end yet.  The compiler keeps *)
(* the blocks, the current one (0: the code cannot be reached), the chain  *)
(* env->deferred, the latest first, and whether it has met an error.       *)
Open == [does |-> <<>>, op |-> "open", arg |-> "", to |-> <<>>]
Fresh == [code |-> <<Open>>, block |-> 1, deferred |-> <<>>, ok |-> TRUE]

Does(st, event) == [st EXCEPT !.code[st.block].does = Append(@, event)]
Ends(st, op, arg, to) ==
  [st EXCEPT !.code[st.block].op = op, !.code[st.block].arg = arg, !.code[st.block].to = to,
             !.block = 0]
Jump(st, to) == IF st.block = 0 THEN st ELSE Ends(st, "jump", "", <<to>>)
Branch(st, choice, yes, no) == Ends(st, "choice", choice, <<yes, no>>)

(* New blocks are numbered from Newest(st) + 1 on. *)
Blocks(st, n) == [st EXCEPT !.code = @ \o [i \in 1..n |-> Open]]
Newest(st) == Len(st.code)
At(st, block) == [st EXCEPT !.block = block]

Failed(st) == [st EXCEPT !.ok = FALSE]
(* The scope of a copied environment ends: its deferred code is forgotten. *)
Leave(st, outer) == [st EXCEPT !.deferred = outer.deferred]

(* The deferred code is compiled in place, from the head of the chain to   *)
(* `stop', or to the end of the chain when `stop' is not on it, and is     *)
(* taken off the chain of this environment.                                *)
InsertDefers(st, stop) ==
  LET d == st.deferred
      n == CHOOSE i \in 0..Len(d) :
             /\ i = Len(d) \/ SubSeq(d, i + 1, Len(d)) = stop
             /\ \A j \in 0..i - 1 : SubSeq(d, j + 1, Len(d)) # stop
  IN  IF st.block = 0 THEN st
      ELSE [st EXCEPT !.code[st.block].does = @ \o SubSeq(d, 1, n),
                      !.deferred = SubSeq(d, n + 1, Len(d))]

-----------------------------------------------------------------------------
(* The loops around a statement, the innermost first (env->loop_label):    *)
(* names, where `skip' and `stop' go (0: nowhere), the chain outside.      *)
Label(names, skip, stop, deferred) ==
  [names |-> names, skip |-> skip, stop |-> stop, deferred |-> deferred]

(* Bug: only the defers of the innermost loop run. *)
BugExit(st, labels, s) ==
  LET dest(l) == IF s.op = "skip" THEN l.skip ELSE l.stop
      found == {i \in DOMAIN labels : IF s.target = "" THEN i = 1
                                      ELSE s.target \in labels[i].names /\ dest(labels[i]) # 0}
      label == labels[CHOOSE i \in found : \A j \in found : i <= j]
  IN  IF found = {} \/ dest(label) = 0 THEN Failed(st)
      ELSE Jump(InsertDefers(st, labels[1].deferred), dest(label))

(* Skip, Stop: to the innermost loop, or to the innermost of that name     *)
(* that has such a label; the deferred code up to that loop's runs first.  *)
Exit(st, labels, s) ==
  LET dest(l) == IF s.op = "skip" THEN l.skip ELSE l.stop
      found == {i \in DOMAIN labels : IF s.target = "" THEN i = 1
                                      ELSE s.target \in labels[i].names /\ dest(labels[i]) # 0}
      label == labels[CHOOSE i \in found : \A j \in found : i <= j]
  IN  IF found = {} \/ dest(label) = 0 THEN Failed(st)
      ELSE Jump(InsertDefers(st, label.deferred), dest(label))

(* The value, then everything deferred in the function, on a copy of the   *)
(* environment: the chain of the block is not taken down.                  *)
Return(st, s) == Leave(Ends(InsertDefers(Does(st, s.arg), <<>>), "return", "", <<>>), st)

(* A failure ends the process.  Nothing deferred runs. *)
Fail(st, s) == Ends(st, "fail", s.arg, <<>>)

(* The type of a statement is Abort: it hands over to no statement after.  *)
RECURSIVE Aborts(_)
Aborts(s) ==
  CASE s.op \in {"return", "fail", "skip", "stop"} -> TRUE
    [] s.op = "block" \/ s.op = "with" -> s.body # <<>> /\ Aborts(s.body[Len(s.body)])
    [] s.op = "if" -> /\ s.yes # <<>> /\ Aborts(s.yes[Len(s.yes)])
                      /\ s.no # <<>> /\ Aborts(s.no[Len(s.no)])
    [] OTHER -> FALSE

-----------------------------------------------------------------------------
RECURSIVE Statements(_, _, _), Emit(_, _, _)

(* _compile_block: a statement behind an exit is an error; the end of the  *)
(* block, when it is reached, runs what the block deferred.                *)
Block(st, labels, statements) ==
  LET end == Statements(st, labels, statements)
  IN  IF end.block = 0 THEN end ELSE InsertDefers(end, st.deferred)

Statements(st, labels, rest) ==
  IF rest = <<>> THEN st
  ELSE IF st.block = 0 THEN Failed(st)
  ELSE LET now == Emit(st, labels, Head(rest))
       IN  IF now.ok THEN Statements(now, labels, Tail(rest)) ELSE now

(* A part of a loop in a block of its own, and where it goes from there.   *)
Part(st, labels, block, statements, next) ==
  IF statements = <<>> THEN st
  ELSE Jump(Block(At(st, block), labels, statements), next)

(* compile_for_loop.  The parts share one environment, and so the chain    *)
(* that a part leaves behind when its end is not reached.                  *)
For(st, labels, s) ==
  LET n == Newest(st)
      first == IF s.first = <<>> THEN n + 2 ELSE n + 1
      body == n + 2
      between == IF s.between = <<>> THEN n + 2 ELSE n + 3
      empty == IF s.empty = <<>> THEN n + 6 ELSE n + 4
      next == n + 5
      end == n + 6
      inner == <<Label(NamesOf(s), next, end, st.deferred)>> \o labels
      entry == Branch(Blocks(st, 6), s.arg, first, empty)
      nexts == Branch(At(entry, next), s.arg, between, end)
      one == Part(nexts, inner, first, s.first, next)
      two == Part(one, inner, body, s.body, next)
      three == Part(two, inner, between, s.between, body)
      four == Part(three, inner, empty, s.empty, end)
  IN  At(Leave(four, st), end)

(* compile_while_loop, for `while' and `repeat'.  `skip' goes to the top,  *)
(* where the condition is asked; the `between' part is only passed by a    *)
(* body that has come to its end.                                          *)
While(st, labels, s) ==
  LET top == Newest(st) + 1
      body == Newest(st) + 2
      end == Newest(st) + 3
      between == Newest(st) + 4
      inner == <<Label({s.op}, top, end, st.deferred)>> \o labels
      ask(c, to) == IF s.op = "repeat" THEN Jump(c, to) ELSE Branch(c, s.arg, to, end)
      head == ask(At(Jump(Blocks(st, 4), top), top), body)
      done == Block(At(head, body), inner, s.body)
      again == IF s.between = <<>> THEN Jump(done, top)
               ELSE IF done.block = 0 THEN done ELSE ask(done, between)
  IN  At(Leave(Part(again, inner, between, s.between, body), st), end)

(* Bug: without `else' the block for `skip' and `stop' is not left. *)
BugDo(st, labels, s) ==
  LET other == Newest(st) + 1
      end == Newest(st) + 2
      label == Label(NamesOf(s), other, other, st.deferred)
      body == Jump(Block(Blocks(st, 2), <<label>> \o labels, s.body), end)
      rest == At(body, other)
  IN  At(Leave(IF s.empty = <<>> THEN Jump(rest, other)
               ELSE Jump(Block(rest, <<[label EXCEPT !.skip = 0]>> \o labels, s.empty), end), st), end)

(* `skip' and `stop' of a `do' both go to its `else' part.  There `skip'   *)
(* finds no label; `stop' goes to the beginning of that part.              *)
Do(st, labels, s) ==
  LET other == Newest(st) + 1
      end == Newest(st) + 2
      label == Label(NamesOf(s), other, other, st.deferred)
      body == Jump(Block(Blocks(st, 2), <<label>> \o labels, s.body), end)
      rest == At(body, other)
  IN  At(Leave(Jump(IF s.empty = <<>> THEN rest
                    ELSE Block(rest, <<[label EXCEPT !.skip = 0]>> \o labels, s.empty), end), st), end)

(* If: each pattern leads to its block, in an environment of its own.      *)
(* Without `else' the patterns may all fail.                               *)
If(st, labels, s) ==
  LET yes == Newest(st) + 1
      no == Newest(st) + 2
      done == Newest(st) + 3
      after == IF Aborts(s) THEN 0 ELSE done
      branch == Branch(Blocks(st, 3), s.arg, yes, no)
      one == Jump(Block(At(branch, yes), labels, s.yes), done)
      two == Jump(Block(At(Leave(one, st), no), labels, s.no), done)
  IN  At(Leave(two, st), after)

(* Or, with an exit on its right.  The exit takes its defers off the chain *)
(* of the statement's environment, unless that is a copy: where a value is *)
(* assigned or is an argument of a call (env->should_mark_cow).            *)
OrElse(st, labels, s) ==
  LET falsey == Newest(st) + 1
      done == Newest(st) + 2
      branch == Branch(Blocks(st, 2), s.arg, done, falsey)
      exit == Jump(Emit(At(branch, falsey), labels, s.rhs), done)
  IN  At(IF s.copied THEN Leave(exit, st) ELSE exit, done)

(* Compiles one statement. *)
Emit(st, labels, s) ==
  CASE s.op = "event" -> Does(st, s.arg)
    [] s.op = "defer" -> [st EXCEPT !.deferred = <<s.arg>> \o @]
    [] s.op = "block" -> Leave(Block(st, labels, s.body), st)
    [] s.op = "with" -> Leave(Block(st, labels, <<[op |-> "event", arg |-> s.open],
                                                  [op |-> "defer", arg |-> s.close],
                                                  [op |-> "block", body |-> s.body]>>), st)
    [] s.op \in {"skip", "stop"} -> Exit(st, labels, s)
    [] s.op = "return" -> Return(st, s)
    [] s.op = "fail" -> Fail(st, s)
    [] s.op = "if" -> If(st, labels, s)
    [] s.op = "or" -> OrElse(st, labels, s)
    [] s.op = "for" -> For(st, labels, s)
    [] s.op \in {"while", "repeat"} -> While(st, labels, s)
    [] s.op = "do" -> Do(st, labels, s)

(* compile_function: the body is a block; its open end returns. *)
Function(program) ==
  LET st == Block(Fresh, <<>>, program)
  IN  IF st.ok /\ st.block # 0 THEN Ends(st, "return", "", <<>>) ELSE st

-----------------------------------------------------------------------------
VARIABLES
  code,   \* the blocks of the function that is compiled
  block,  \* the one that runs, and how many of its effects are done
  done,
  run     \* what is left of the program, by its meaning

vars == <<code, block, done, run>>

Init ==
  \E program \in Programs :
    LET st == Function(program)
    IN  /\ st.ok
        /\ code = st.code /\ block = 1 /\ done = 0
        /\ run = Start(program)

Here == code[block]

(* What the code does next; a jump cannot be seen. *)
Sees ==
  IF done < Len(Here.does) THEN [op |-> "event", arg |-> Here.does[done + 1]]
  ELSE [op |-> IF Here.op = "return" THEN "end" ELSE Here.op, arg |-> Here.arg]

Goto(to) == block' = to /\ done' = 0 /\ UNCHANGED code

(* The steps that cannot be seen, those of the code first. *)
Follow == Sees.op = "jump" /\ Goto(Here.to[1]) /\ UNCHANGED run
Arrange ==
  /\ Sees.op # "jump" /\ Silent(run)
  /\ run' = Unseen(run) /\ UNCHANGED <<code, block, done>>

(* The code and the program go on together, as long as they agree. *)
Both == Sees.op # "jump" /\ ~Silent(run)

Effect ==
  /\ Both /\ Sees.op = "event" /\ Sees = Wants(run)
  /\ done' = done + 1 /\ run' = After(run, TRUE)
  /\ UNCHANGED <<code, block>>

Choose ==
  /\ Both /\ Sees.op = "choice" /\ Sees = Wants(run)
  /\ \/ Goto(Here.to[1]) /\ run' = After(run, TRUE)
     \/ Goto(Here.to[2]) /\ run' = After(run, FALSE)

Next == Follow \/ Arrange \/ Effect \/ Choose

Spec == Init /\ [][Next]_vars

(* The machine runs on. *)
FairSpec == Spec /\ WF_vars(Next)

-----------------------------------------------------------------------------
(* Whatever the conditions turn out to be, the code has the effects that   *)
(* the program means, in that order, and asks the same conditions; above   *)
(* all, on every way out of a block what is deferred in it, and in the     *)
(* blocks that are left with it, runs once, the last one first, and        *)
(* nothing else does; and no block is reached that has no end.             *)
Agree == Both => Sees = Wants(run)

(* At the end of a block, and on the way out of it, what is deferred in it *)
(* runs before anything else.                                              *)
CleansUp == Both /\ Cleaning(run) => Sees = Wants(run)

(* Control comes back from the jumps: the blocks that are only jumped      *)
(* through make no circle that the program does not make.                  *)
JumpsEnd == []<>Both
=============================================================================
