------------------------------- MODULE Layout -------------------------------
(***************************************************************************)
(* How a program is written down so that it shows its structure: operators *)
(* are left-associative and parentheses are where they must be, `not' goes *)
(* as far as it can; a part of a statement is indented below it, with its  *)
(* keyword as far to the left as the statement, or short parts are on the  *)
(* line of their keyword.  It is what the parser is compared with.  A      *)
(* layout chooses where there is a choice:                                 *)
(*   inline  short parts are on the line of their keyword                  *)
(*   own     keywords of later parts are on a line of their own            *)
(*   words   optional words are written                                    *)
(*   negated `unless' where it says the same                               *)
(***************************************************************************)
EXTENDS Parser

(* How loosely an expression holds together; `1..' is no term, `..1' is.   *)
IsOpen(e) == e.op = ".." /\ (e.first = None \/ e.last = None)
Level(e) ==
  CASE e.op = ".." -> IF e.step # None THEN Tightness["by"]
                      ELSE IF ~IsOpen(e) THEN Tightness[".."] ELSE IF e.first = None THEN 0 ELSE 1
    [] e.op \in DOMAIN Tightness \ {".."} -> Tightness[e.op]
    [] OTHER -> 0

(* The words of an expression, which is the last one or has others after;  *)
(* those of an operand in parentheses where it would not be one, and those *)
(* of a statement always.                                                  *)
IsStatement(e) == e.op \in {"if", "for", "while", "skip", "stop", "return", "fail"}
RECURSIVE Words(_, _), Short(_)
Inner(e, most, last) ==
  IF Level(e) <= most /\ (e.op = "not" => last) THEN Words(e, last) ELSE <<"(">> \o Words(e, TRUE) \o <<")">>
Words(e, last) ==
  CASE e.op = "number" -> <<e.word>>
    [] IsStatement(e) -> <<"(">> \o Short(e) \o <<")">>
    [] e.op = "@" -> <<"@">> \o Inner(e.value, 0, last)
    [] e.op = "not" -> <<"not">> \o Words(e.value, last)
    [] e.op = ".." ->
         IF e.step # None THEN Words([e EXCEPT !.step = None], FALSE) \o <<"by">> \o Inner(e.step, Tightness["by"] - 1, last)
         ELSE (IF e.first = None THEN <<>> ELSE Inner(e.first, IF IsOpen(e) THEN 0 ELSE Level(e), FALSE)) \o <<"..">>
                \o (IF e.last = None THEN <<>> ELSE Inner(e.last, IF IsOpen(e) THEN 0 ELSE Level(e) - 1, last))
    [] OTHER -> Inner(e.lhs, Level(e), FALSE) \o <<e.op>> \o Inner(e.rhs, Level(e) - 1, last)

(* A statement that has no block, on one line, with suffixes. *)
IsShort(s) ==
  CASE s.op \in {"for", "while"} -> s.body.op # "block"
    [] s.op = "if" -> \A i \in DOMAIN s.clauses : s.clauses[i].body.op # "block"
    [] OTHER -> s.op \notin {"repeat", "do", "defer", "with"}
Expression(e) == Words(e, TRUE)

(* [statement] if or unless [subject] [matches [pattern]] *)
Condition(s, body) ==
  LET c == s.clauses
      unless == c[1].pattern = No \/ (c[1].pattern # Yes /\ c[1].body # body)
  IN  <<IF unless THEN "unless" ELSE "if">> \o Expression(s.subject)
        \o (IF c[1].pattern \in {Yes, No} THEN <<>> ELSE <<"matches">> \o Expression(c[1].pattern))
Subject(s, other) == IF s.clauses[1].body = other THEN s.clauses[2].body ELSE s.clauses[1].body
Looped(body, loop) ==
  IF body.op = "if" /\ \E i \in DOMAIN body.clauses : body.clauses[i].body = Exit("skip", "")
  THEN LET s == Subject(body, Exit("skip", "")) IN Short(s) \o loop \o Condition(body, s)
  ELSE Short(body) \o loop
Short(s) ==
  CASE s.op \in {"skip", "stop"} -> IF s.target = "" THEN <<s.op>> ELSE <<s.op, s.target>>
    [] s.op = "return" -> <<"return">> \o (IF s.value = None THEN <<>> ELSE Expression(s.value))
    [] s.op = "fail" -> <<"fail">> \o (IF s.message = None THEN <<>> ELSE Inner(s.message, 0, TRUE))
    [] s.op = "if" -> LET body == Subject(s, Pass) IN Short(body) \o Condition(s, body)
    [] s.op = "for" -> Looped(s.body, <<"for", s.var, "in">> \o Expression(s.iter))
    [] s.op = "while" -> Looped(s.body, <<"while">> \o Expression(s.condition))
    [] OTHER -> Expression(s)

-----------------------------------------------------------------------------
(* Text is a sequence of lines. *)
Line(n, words) == [indent |-> n, words |-> words]
Glue(text, more) ==
  Front(text) \o <<[Last(text) EXCEPT !.words = @ \o more[1].words]>> \o Tail(more)
Word(text, word, written) == IF written THEN Glue(text, <<Line(0, <<word>>)>>) ELSE text

(* The statements of a part, and a part with its keyword; `ls' has the     *)
(* layout of a statement and of those in it.                               *)
RECURSIVE Written(_, _, _)
Deeper(ls) == IF Len(ls) = 1 THEN ls ELSE Tail(ls)
Body(text, n, b, ls) ==
  LET lines(s) == Written(s, n + 1, Deeper(ls))
      statements == b.statements
      short == \A i \in DOMAIN statements : IsShort(statements[i])
      words == [i \in DOMAIN statements |-> (IF i = 1 THEN <<>> ELSE <<";">>) \o Short(statements[i])]
  IN  IF statements # <<>> /\ short /\ ls[1].inline THEN Glue(text, <<Line(n, FlattenSeq(words))>>)
      ELSE text \o FlattenSeq([i \in DOMAIN statements |-> lines(statements[i])])
Keyword(text, n, word, ls) ==
  IF ls[1].own \/ Len(text) > 1 THEN Append(text, Line(n, <<word>>)) ELSE Word(text, word, TRUE)
Part(text, n, word, b, ls) == IF b = None THEN text ELSE Body(Keyword(text, n, word, ls), n, b, ls)

(* `else' with one `if' goes on with it. *)
Else(text, n, b, ls) ==
  LET chained == b.op = "block" /\ Len(b.statements) = 1 /\ b.statements[1].op = "if" /\ ~IsShort(b.statements[1])
  IN  IF chained /\ ls[1].inline THEN Glue(Keyword(text, n, "else", ls), Written(b.statements[1], n, Deeper(ls)))
      ELSE Part(text, n, "else", b, ls)

Clauses(text, n, clauses, ls) ==
  LET patterns(i) == {j \in 1..i : \A k \in j..i : clauses[k].body = clauses[i].body /\ clauses[k].pattern # Wildcard}
      first(i) == CHOOSE j \in patterns(i) : \A k \in patterns(i) : j <= k
      clause(t, i) ==
        LET shown == FlattenSeq([j \in 1..(i + 1 - first(i)) |->
                       (IF j = 1 THEN <<>> ELSE <<";">>) \o Expression(clauses[first(i) + j - 1].pattern)])
            start == IF first(i) = 1 THEN Word(t, "matches", TRUE) ELSE Keyword(t, n, "matches", ls)
        IN  Body(Word(Glue(start, <<Line(0, shown)>>), "then", ls[1].words), n, clauses[i].body, ls)
      done(i) == i < Len(clauses) /\ clauses[i + 1].body = clauses[i].body
  IN  FoldLeft(LAMBDA t, i : IF clauses[i].pattern = Wildcard THEN Else(t, n, clauses[i].body, ls)
                             ELSE IF done(i) THEN t ELSE clause(t, i),
               text, [i \in DOMAIN clauses |-> i])

WrittenIf(s, n, ls) ==
  LET c == s.clauses
      start(words) == Word(<<Line(n, words)>>, "then", ls[1].words)
      matches == IF c[1].pattern = Yes THEN <<>> ELSE <<"matches">> \o Expression(c[1].pattern)
      two == Len(c) = 2 /\ c[2].pattern = Wildcard
      unless == Body(start(<<"unless">> \o Expression(s.subject) \o matches), n, c[2].body, ls)
      yes == Body(start(<<"if">> \o Expression(s.subject)), n, c[1].body, ls)
  IN  CASE two /\ c[1].body = Pass -> unless
        [] two /\ c[1].body # Pass /\ ls[1].negated /\ ~ls[1].own /\ Len(unless) = 1 -> Part(unless, n, "else", c[1].body, ls)
        [] OTHER ->
             IF c[1].pattern # Yes THEN Clauses(<<Line(n, <<"if">> \o Expression(s.subject))>>, n, c, ls)
             ELSE IF Len(c) = 1 THEN yes ELSE Else(yes, n, c[2].body, ls)

(* The body of a loop with a `first' part comes after `then'. *)
WrittenFor(s, n, ls) ==
  LET start == <<Line(n, <<"for", s.var, "in">> \o Expression(s.iter))>>
      first == Body(Word(start, "first", TRUE), n, s.first, ls)
      body == IF s.first = None THEN Body(Word(start, "do", ls[1].words), n, s.body, ls)
              ELSE IF s.body.statements = <<>> THEN first ELSE Part(first, n, "then", s.body, ls)
  IN  Part(Part(body, n, "between", s.between, ls), n, "else", s.empty, ls)

Written(s, n, ls) ==
  LET start(words) == <<Line(n, words)>>
  IN  CASE IsShort(s) -> start(Short(s))
        [] s.op = "if" /\ ~IsShort(s) -> WrittenIf(s, n, ls)
        [] s.op = "for" /\ ~IsShort(s) -> WrittenFor(s, n, ls)
        [] s.op = "while" /\ ~IsShort(s) ->
             Part(Body(start(<<"while">> \o Expression(s.condition)), n, s.body, ls), n, "between", s.between, ls)
        [] s.op = "repeat" -> Part(Body(start(<<"repeat">>), n, s.body, ls), n, "between", s.between, ls)
        [] s.op = "do" -> Part(Body(start(IF s.label = "" THEN <<"do">> ELSE <<"do", s.label>>), n, s.body, ls), n, "else", s.empty, ls)
        [] s.op = "defer" -> Body(start(<<"defer">>), n, s.body, ls)
        [] s.op = "with" ->
             LET then == IF s.cleanup = None THEN <<>> ELSE <<"then">> \o Short(s.cleanup)
                 below == [ls EXCEPT ![1].inline = @ /\ s.cleanup = None]
             IN  Body(start(<<"with">> \o Expression(s.expr) \o then), n, s.body, below)

(* The file that the parser reads. *)
File(text) ==
  LET words(i) == [j \in DOMAIN text[i].words |-> [word |-> text[i].words[j], line |-> i]]
      end == Len(text) + 1
  IN  [tokens |-> FlattenSeq([i \in DOMAIN text |-> words(i)]) \o <<[word |-> "", line |-> end]>>,
       indents |-> [i \in 1..end |-> IF i = end THEN 0 ELSE text[i].indent]]

(* A statement that ends in a `repeat' without its last part: the parser   *)
(* takes a loop on the next line for its suffix.                           *)
RECURSIVE EndsInRepeat(_)
EndsInRepeat(s) ==
  LET parts == CASE s.op = "for" -> <<s.body, s.between, s.empty>>
                 [] s.op = "if" -> [i \in DOMAIN s.clauses |-> s.clauses[i].body]
                 [] s.op = "do" -> <<s.body, s.empty>>
                 [] s.op \in {"while", "repeat"} -> <<s.body, s.between>>
                 [] OTHER -> <<s.body>>
      statements == Last(SelectSeq(parts, LAMBDA b : b # None)).statements
  IN  /\ ~IsShort(s)
      /\ (s.op = "repeat" /\ s.between = None) \/ (statements # <<>> /\ EndsInRepeat(Last(statements)))
TakesNext(s, next) == next.op \in {"for", "while"} /\ ~IsShort(next) /\ EndsInRepeat(s)

(* What is written is what is read. *)
ReadsBack(statements, ls) ==
  (\A i \in 1..Len(statements) - 1 : ~TakesNext(statements[i], statements[i + 1])) =>
    ParseFile(File(FlattenSeq([i \in DOMAIN statements |-> Written(statements[i], 0, ls)]))) = Block(statements)
=============================================================================
