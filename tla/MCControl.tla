------------------------------ MODULE MCControl ------------------------------
(* Functions for Control: a loop of every kind, with a construct of every  *)
(* kind in one of its parts, from which every exit is taken.               *)
EXTENDS Control

Event(arg) == [op |-> "event", arg |-> arg]
Defer(arg) == [op |-> "defer", arg |-> arg]
If2(c, yes, no) == [op |-> "if", arg |-> c, yes |-> yes, no |-> no]
OrExit(exit, copied) == [op |-> "or", arg |-> "null?", rhs |-> exit, copied |-> copied]

ForLoop(var, first, body, between, empty) ==
  [op |-> "for", arg |-> var, var |-> var, first |-> first, body |-> body,
   between |-> between, empty |-> empty]
WhileLoop(op, body, between) ==
  [op |-> op, arg |-> op, first |-> <<>>, body |-> body, between |-> between, empty |-> <<>>]
DoBlock(body, empty) ==
  [op |-> "do", arg |-> "", var |-> "label", first |-> <<>>, body |-> body,
   between |-> <<>>, empty |-> empty]

Maybe(part) == {<<>>, <<Event(part)>>}

(* The exits; those that no loop around them answers to are refused by the *)
(* compiler, and their functions not run.                                  *)
Leaves == [op : {"skip", "stop"}, target : {"", "for", "x", "while", "repeat", "label"}]
Exits == Leaves \cup {[op |-> "return", arg |-> "value"], [op |-> "fail", arg |-> "message"]}

(* An or-exit with something deferred before it.  A `skip' or `stop' that  *)
(* is compiled without a copied environment is not among these: it takes   *)
(* the defers off the list, see LosingPrograms.                            *)
OrExits(exit) ==
  {OrExit(exit, copied) : copied \in IF exit.op \in {"skip", "stop"} THEN {TRUE} ELSE BOOLEAN}

(* Constructs that take an exit, perhaps. *)
Taking(exit) ==
  {If2("c", <<exit>>, <<>>),
   If2("c", <<Event("no")>>, <<Defer("branch"), exit>>),
   [op |-> "with", open |-> "open", close |-> "close", body |-> <<If2("c", <<exit>>, <<>>)>>]}
    \cup OrExits(exit)
    \cup {[op |-> "block", body |-> <<Defer("block"), or, Event("last")>>] : or \in OrExits(exit)}

InnerLoops(exit) ==
  LET body == <<Defer("inner"), If2("c", <<exit>>, <<>>), Event("body")>>
  IN  {ForLoop("y", <<>>, body, b, <<>>) : b \in Maybe("inner between")}
        \cup {WhileLoop(op, body, <<>>) : op \in {"while", "repeat"}}
        \cup {DoBlock(body, e) : e \in Maybe("inner else")}

(* A part of the outer loop, with something deferred in it; or without, and *)
(* then the exit may take the defers off the environment of its statement. *)
Parts ==
  {<<Defer("part"), s, Event("rest")>> :
     s \in UNION {Taking(exit) \cup InnerLoops(exit) : exit \in Exits}}
    \cup {<<OrExit(exit, FALSE), Defer("late"), Event("rest")>> : exit \in Exits}

Around(part) ==
  LET body == <<Event("body")>>
  IN  {ForLoop("x", f, part, b, e) : f \in Maybe("first"), b \in Maybe("between"), e \in Maybe("else")}
        \cup {ForLoop("x", part, body, b, <<>>) : b \in Maybe("between")}
        \cup {ForLoop("x", f, body, part, <<>>) : f \in Maybe("first")}
        \cup {WhileLoop(op, part, b) : op \in {"while", "repeat"}, b \in Maybe("between")}
        \cup {WhileLoop(op, body, part) : op \in {"while", "repeat"}}
        \cup {ForLoop("x", <<>>, body, <<>>, part)}
        \cup {DoBlock(part, e) : e \in Maybe("else")}

(* Exits from the `else' part of a `do' that do not name it. *)
InElse ==
  LET skip == [op |-> "skip", target |-> "label"]
      exits == Exits \ [op : {"stop"}, target : {"", "label"}]
  IN  {DoBlock(<<Defer("body"), OrExit(skip, TRUE), Event("got")>>, <<Defer("part"), s, Event("rest")>>) :
         s \in UNION {Taking(exit) : exit \in exits}}

In(loop) == <<Defer("outside"), loop, Event("end")>>

SomePrograms == {In(loop) : loop \in UNION {Around(part) : part \in Parts} \cup InElse}
                  \cup {In(WhileLoop("while", <<Defer("around"), loop, Event("next")>>, <<>>)) : loop \in InElse}

(* `v := p or skip' or `v := p or stop' behind a defer: where the program  *)
(* goes on, the code has forgotten what was deferred.                      *)
LosingPrograms ==
  {In(loop) : loop \in UNION {Around(<<Defer("part"), OrExit(exit, FALSE), Event("rest")>>) : exit \in Leaves}}
=============================================================================
