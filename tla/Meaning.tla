------------------------------- MODULE Meaning -------------------------------
(***************************************************************************)
(* What the statements of SSS that change the flow of control mean: loops  *)
(* with their `first', `between' and `else' parts, blocks, `do',           *)
(* conditions, `skip', `stop', `return', `fail', `defer' and `with'.  A    *)
(* statement runs on a stack of frames, innermost first, and nothing is    *)
(* compiled: this is what the code made by Control is compared with.       *)
(*                                                                         *)
(* A statement is a record with a field `op'.  `event' stands for one that *)
(* only has an effect; conditions are choices, known by a name; a part     *)
(* that a loop does not have is <<>>.                                      *)
(***************************************************************************)
EXTENDS Naturals, Sequences

Loops == {"for", "while", "repeat", "do"}

(* The names by which `skip' and `stop' can refer to a loop. *)
NamesOf(s) == CASE s.op = "for" -> {"for", s.var}
                [] s.op = "do" -> {s.var}
                [] OTHER -> {s.op}

(* A frame is a block, with what is left of it and its deferred events,    *)
(* the last one first, or a loop and where it is.                          *)
BlockFrame(statements) == [kind |-> "block", rest |-> statements, defers |-> <<>>]
LoopFrame(s) == [kind |-> "loop", loop |-> s, phase |-> "start"]

(* A running program: its frames, and the exit it is taking, if any: it    *)
(* leaves frames until `to' of them remain.                                *)
NoExit == [op |-> "none", to |-> 0]
Start(program) == [frames |-> <<BlockFrame(program)>>, exit |-> NoExit]

Top(r) == Head(r.frames)
Pop(r) == [r EXCEPT !.frames = Tail(@)]
Push(r, frame) == [r EXCEPT !.frames = <<frame>> \o @]
Enter(r, phase, part) == Push([r EXCEPT !.frames[1].phase = phase], BlockFrame(part))

(* How many frames remain above which the loop of that name is the top. *)
Target(r, name) ==
  LET n == Len(r.frames)
      named == {i \in 1..n : /\ r.frames[i].kind = "loop"
                             /\ name = "" \/ name \in NamesOf(r.frames[i].loop)}
  IN  n + 1 - (CHOOSE i \in named : \A j \in named : i <= j)

(* A loop goes on, with the answer to its condition.  The first run is the *)
(* one of `first' where there is one, and of `else' where there is none.   *)
Turn(r, yes) ==
  LET s == Top(r).loop
      phase == Top(r).phase
  IN  CASE phase = "start" /\ yes ->
             Enter(r, "next", IF s.first = <<>> THEN s.body ELSE s.first)
        [] phase = "start" /\ ~yes /\ s.empty # <<>> -> Enter(r, "end", s.empty)
        [] phase = "next" /\ yes /\ s.between # <<>> -> Enter(r, "body", s.between)
        [] phase = "body" \/ (phase = "next" /\ yes /\ s.between = <<>>) ->
             Enter(r, "next", s.body)
        [] OTHER -> Pop(r)

(* `skip' or `stop' has come to its loop.  A `do' is left for its `else'   *)
(* part, and from there for good; a `while' starts afresh, without its     *)
(* `between' part.                                                         *)
Arrive(r) ==
  LET s == Top(r).loop
      back == [r EXCEPT !.exit = NoExit]
  IN  CASE s.op = "do" /\ Top(r).phase # "end" /\ s.empty # <<>> -> Enter(back, "end", s.empty)
        [] s.op # "do" /\ r.exit.op = "skip" ->
             [back EXCEPT !.frames[1].phase = IF s.op = "for" THEN "next" ELSE "start"]
        [] OTHER -> Pop(back)

(* Steps nobody sees: the loop that has no condition, the end of a part    *)
(* with nothing deferred, leaving, and the statements that only arrange.   *)
Silent(r) ==
  /\ r.frames # <<>>
  /\ LET top == Top(r)
     IN  CASE top.kind = "loop" ->
                \/ r.exit # NoExit
                \/ top.loop.op \in {"repeat", "do"}
                \/ top.phase \in {"body", "end"}
           [] r.exit # NoExit \/ top.rest = <<>> -> top.defers = <<>>
           [] OTHER -> Head(top.rest).op \notin {"event", "if", "or", "fail", "return"}

Statement(r, s) ==
  LET next == [r EXCEPT !.frames[1].rest = Tail(@)]
  IN  CASE s.op = "defer" -> [next EXCEPT !.frames[1].defers = <<s.arg>> \o @]
        [] s.op = "block" -> Push(next, BlockFrame(s.body))
        [] s.op = "with" ->
             Push(next, BlockFrame(<<[op |-> "event", arg |-> s.open],
                                     [op |-> "defer", arg |-> s.close],
                                     [op |-> "block", body |-> s.body]>>))
        [] s.op \in {"skip", "stop"} -> [r EXCEPT !.exit = [op |-> s.op, to |-> Target(r, s.target)]]
        [] s.op \in Loops -> Push(next, LoopFrame(s))

Unseen(r) ==
  LET top == Top(r)
  IN  CASE r.exit # NoExit /\ Len(r.frames) = r.exit.to -> Arrive(r)
        [] r.exit # NoExit /\ Len(r.frames) # r.exit.to -> Pop(r)
        [] r.exit = NoExit /\ top.kind = "loop" ->
             Turn(r, top.loop.op = "repeat" \/ top.phase = "start")
        [] r.exit = NoExit /\ top.kind = "block" ->
             IF top.rest = <<>> THEN Pop(r) ELSE Statement(r, Head(top.rest))

(* Next runs what is deferred in the block that ends or is left. *)
Cleaning(r) ==
  /\ r.frames # <<>> /\ Top(r).kind = "block" /\ Top(r).defers # <<>>
  /\ r.exit # NoExit \/ Top(r).rest = <<>>

(* What a program does next that can be seen: an effect, a choice, its end. *)
Wants(r) ==
  IF r.frames = <<>> THEN [op |-> "end", arg |-> ""]
  ELSE LET top == Top(r)
       IN  CASE top.kind = "loop" -> [op |-> "choice", arg |-> top.loop.arg]
             [] r.exit # NoExit \/ top.rest = <<>> -> [op |-> "event", arg |-> Head(top.defers)]
             [] OTHER -> LET s == Head(top.rest)
                         IN  [op |-> CASE s.op \in {"if", "or"} -> "choice"
                                       [] s.op \in {"event", "return"} -> "event"
                                       [] s.op = "fail" -> "fail",
                              arg |-> s.arg]

(* The program after that, with the answer when it was a choice. *)
After(r, yes) ==
  LET top == Top(r)
      s == Head(top.rest)
      next == [r EXCEPT !.frames[1].rest = Tail(@)]
  IN  CASE top.kind = "loop" -> Turn(r, yes)
        [] top.kind = "block" /\ (r.exit # NoExit \/ top.rest = <<>>) ->
             [r EXCEPT !.frames[1].defers = Tail(@)]
        [] OTHER ->
             CASE s.op = "event" -> next
               [] s.op = "return" -> [r EXCEPT !.exit = [op |-> "return", to |-> 0]]
               [] s.op = "if" -> Push(next, BlockFrame(IF yes THEN s.yes ELSE s.no))
               [] s.op = "or" -> IF yes THEN next ELSE Push(next, BlockFrame(<<s.rhs>>))
=============================================================================
