------------------------------- MODULE Parser -------------------------------
(***************************************************************************)
(* The parser (parse.c): operators by how tightly they bind, blocks by     *)
(* their indentation or on one line, and the parts of statements that      *)
(* belong together.  A file is                                             *)
(*   [tokens, indents]  its words [word, line], and how far each line is   *)
(*                      indented; the last token is the empty word,        *)
(* and a position [at, line, ok] is before a token, on a line, which is    *)
(* that of the token only after white space was passed, and says whether   *)
(* everything before it was understood.  Numbers stand for all terms whose *)
(* syntax is their own, and names only occur where a statement has one.    *)
(***************************************************************************)
EXTENDS Naturals, Sequences, SequencesExt

Numbers == {"1", "2"}
IdNames == {"i", "l"}

None == [op |-> "none"]
Number(word) == [op |-> "number", word |-> word]
RangeOf(first, last, step) == [op |-> "..", first |-> first, last |-> last, step |-> step]
Block(statements) == [op |-> "block", statements |-> statements]
Yes == [op |-> "yes"]
No == [op |-> "no"]
Wildcard == [op |-> "?"]
Pass == [op |-> "pass"]
Exit(op, target) == [op |-> op, target |-> target]
Return(value) == [op |-> "return", value |-> value]
Fail(message) == [op |-> "fail", message |-> message]
Clause(pattern, body) == [pattern |-> pattern, body |-> body]
If(subject, clauses) == [op |-> "if", subject |-> subject, clauses |-> clauses]
While(condition, body, between) == [op |-> "while", condition |-> condition, body |-> body, between |-> between]
For(var, iter, first, body, between, empty) ==
  [op |-> "for", var |-> var, iter |-> iter, first |-> first, body |-> body, between |-> between, empty |-> empty]

-----------------------------------------------------------------------------
(* Where the parser is, and what it sees there, on the same line. *)
Indent(f, p) == f.indents[p.line]
Whitespace(f, p) == [p EXCEPT !.line = f.tokens[p.at].line]
Sees(f, p, word) == f.tokens[p.at] = [word |-> word, line |-> p.line]
SeesOneOf(f, p, words) == \E w \in words : Sees(f, p, w)
Skip(p) == [p EXCEPT !.at = @ + 1]
SkipOptional(f, p, word) == IF Sees(f, p, word) THEN Skip(p) ELSE p

(* What a parser returns; where something is expected it is an error that  *)
(* it is not there.                                                        *)
Result(ast, p) == [ast |-> ast, p |-> p]
Expect(r) == IF r.ast = None THEN Result(None, [r.p EXCEPT !.ok = FALSE]) ELSE r
ExpectWord(f, p, word) == IF Sees(f, p, word) THEN Skip(p) ELSE [p EXCEPT !.ok = FALSE]
ExpectId(f, p) ==
  IF SeesOneOf(f, p, IdNames) THEN Result(f.tokens[p.at].word, Skip(p)) ELSE Result("", [p EXCEPT !.ok = FALSE])

-----------------------------------------------------------------------------
(* op_tightness *)
Tightness ==
  [op \in {"^", "*", "+", "<<", "_min_", "..", "by", "<", "in", "==", "and", "or"} |->
     CASE op = "^" -> 1 [] op = "*" -> 2 [] op = "+" -> 3 [] op = "<<" -> 4 [] op = "_min_" -> 5 [] op = ".." -> 6
       [] op = "by" -> 7 [] op = "<" -> 8 [] op = "in" -> 9 [] op = "==" -> 10 [] op \in {"and", "or"} -> 11]

(* Of the operators that bind tightest the first one is next. *)
Tightest(ops) ==
  CHOOSE i \in DOMAIN ops : \A j \in DOMAIN ops :
    Tightness[ops[i]] < Tightness[ops[j]] \/ (Tightness[ops[i]] = Tightness[ops[j]] /\ i <= j)

(* `by' only goes with a range. *)
Merge(op, lhs, rhs) ==
  CASE op = "by" -> IF lhs.op = ".." THEN [lhs EXCEPT !.step = rhs] ELSE None
    [] op = ".." -> RangeOf(lhs, rhs, None)
    [] OTHER -> [op |-> op, lhs |-> lhs, rhs |-> rhs]

RECURSIVE Bind(_, _)
Bind(terms, ops) ==
  IF ops = <<>> THEN terms[1]
  ELSE LET i == Tightest(ops)
           merged == Merge(ops[i], terms[i], terms[i + 1])
       IN  IF merged = None THEN None
           ELSE Bind([RemoveAt(terms, i + 1) EXCEPT ![i] = merged], RemoveAt(ops, i))

RECURSIVE ParseTerm(_, _), ParseTerms(_, _, _, _), ParseExtended(_, _), ParseStatement(_, _), ParseStatements(_, _, _, _), ParseInline(_, _, _)

(* parse_expr: terms with operators between, where a range may lack its    *)
(* end, and then is one term with the term before it.                      *)
ParseTerms(f, p, terms, ops) ==
  LET op == f.tokens[p.at].word
      after == Skip(p)
      rhs == ParseTerm(f, IF op = ".." THEN after ELSE Whitespace(f, after))
  IN  IF ~SeesOneOf(f, p, DOMAIN Tightness) THEN Result(Bind(terms, ops), p)
      ELSE IF rhs.ast # None THEN ParseTerms(f, rhs.p, Append(terms, rhs.ast), Append(ops, op))
      ELSE IF op = ".." THEN ParseTerms(f, after, [terms EXCEPT ![Len(terms)] = RangeOf(@, None, None)], ops)
      ELSE Result(Bind(terms, ops), p)
ParseExpr(f, p) ==
  LET r == ParseTerm(f, p)
      whole == ParseTerms(f, r.p, <<r.ast>>, <<>>)
  IN  IF r.ast = None THEN r ELSE IF whole.ast = None THEN Expect(whole) ELSE whole

(* optional_suffix_condition *)
SuffixCondition(f, ast, p, other) ==
  LET unless == Sees(f, p, "unless")
      subject == Expect(ParseExpr(f, Skip(p)))
      pattern == Expect(ParseExpr(f, Skip(subject.p)))
      both == IF unless THEN <<other, ast>> ELSE <<ast, other>>
  IN  CASE ~SeesOneOf(f, p, {"if", "unless"}) -> Result(ast, p)
        [] SeesOneOf(f, p, {"if", "unless"}) /\ Sees(f, subject.p, "matches") ->
             Result(If(subject.ast, <<Clause(pattern.ast, both[1]), Clause(Wildcard, both[2])>>), pattern.p)
        [] OTHER ->
             Result(If(subject.ast, <<Clause(IF unless THEN No ELSE Yes, ast), Clause(IF unless THEN Yes ELSE No, other)>>),
                    subject.p)

(* parse_skip, parse_stop: the target may be a keyword that begins a loop. *)
ParseExit(f, p) ==
  LET op == f.tokens[p.at].word
      named == SeesOneOf(f, Skip(p), {"for", "while", "repeat"} \cup IdNames)
  IN  IF named THEN SuffixCondition(f, Exit(op, f.tokens[p.at + 1].word), Skip(Skip(p)), Pass)
      ELSE SuffixCondition(f, Exit(op, ""), Skip(p), Pass)

(* parse_return, parse_fail: a value may have operators, a message none,   *)
(* and a condition goes with a return that has no value.                   *)
ParseReturn(f, p) ==
  LET value == ParseExpr(f, Skip(p))
  IN  IF value.ast = None THEN SuffixCondition(f, Return(None), Skip(p), Pass) ELSE Result(Return(value.ast), value.p)
ParseFail(f, p) ==
  LET message == ParseTerm(f, Skip(p))
  IN  SuffixCondition(f, Fail(message.ast), IF message.ast = None THEN Skip(p) ELSE message.p, Pass)

(* parse_term: `@' takes a term, but `not' all that follows it, and        *)
(* parentheses what a statement could be that binds nothing.               *)
ParseTerm(f, p) ==
  LET prefix(op, r) == IF r.ast = None THEN Result(None, p) ELSE Result([op |-> op, value |-> r.ast], r.p)
      inner == ParseExpr(f, Whitespace(f, Skip(p)))
      whole == ParseExtended(f, Whitespace(f, Skip(p)))
      last == ParseTerm(f, Skip(p))
  IN  CASE SeesOneOf(f, p, Numbers) -> Result(Number(f.tokens[p.at].word), Skip(p))
        [] Sees(f, p, "(") -> IF whole.ast = None THEN Result(None, p)
                              ELSE Result(whole.ast, ExpectWord(f, whole.p, ")"))
        [] Sees(f, p, "@") -> prefix("@", ParseTerm(f, Whitespace(f, Skip(p))))
        [] Sees(f, p, "not") -> prefix("not", inner)
        [] Sees(f, p, "..") -> Result(RangeOf(None, last.ast, None), last.p)
        [] SeesOneOf(f, p, {"skip", "stop"}) -> ParseExit(f, p)
        [] Sees(f, p, "return") -> ParseReturn(f, p)
        [] Sees(f, p, "fail") -> ParseFail(f, p)
        [] OTHER -> Result(None, p)

-----------------------------------------------------------------------------
(* parse_opt_indented_block: a block begins on a line that is indented     *)
(* more, or else goes on where it is.                                      *)
ParseBlock(f, p) == ParseStatements(f, p, Indent(f, p), <<>>)
ParseBody(f, p) ==
  LET next == Whitespace(f, p)
  IN  IF next.line # p.line /\ Indent(f, next) > Indent(f, p) THEN ParseBlock(f, next) ELSE ParseInline(f, p, <<>>)

(* A part of a statement that is on the same line or one as far indented. *)
BugParsePart(f, p, n, word) ==
  LET q == Whitespace(f, p) IN IF Sees(f, q, word) THEN ParseBody(f, Skip(q)) ELSE Result(None, p)
ParsePart(f, p, n, word) ==
  LET q == Whitespace(f, p)
  IN  IF Indent(f, q) = n /\ Sees(f, q, word) THEN ParseBody(f, Skip(q)) ELSE Result(None, p)

(* parse_if; `unless' finds its `else' on the line of its end only. *)
ParseUnless(f, p) ==
  LET subject == Expect(ParseExpr(f, Skip(p)))
      matched == Sees(f, subject.p, "matches")
      pattern == IF matched THEN Expect(ParseExpr(f, Skip(subject.p))) ELSE Result(Yes, subject.p)
      body == ParseBody(f, SkipOptional(f, pattern.p, "then"))
      no == IF Indent(f, body.p) = Indent(f, p) /\ Sees(f, body.p, "else") THEN ParseBody(f, Skip(body.p))
            ELSE Result(Pass, body.p)
  IN  Result(If(subject.ast, <<Clause(pattern.ast, no.ast), Clause(Wildcard, body.ast)>>), no.p)

RECURSIVE ParsePatterns(_, _, _), ParseClauses(_, _, _, _)
ParsePatterns(f, p, patterns) ==
  LET r == Expect(ParseExpr(f, p))
      more == Append(patterns, r.ast)
  IN  IF Sees(f, r.p, ";") THEN ParsePatterns(f, Skip(r.p), more) ELSE Result(more, r.p)
ParseClauses(f, p, n, clauses) ==
  LET q == Whitespace(f, p)
      otherwise == ParsePart(f, p, n, "else")
      patterns == ParsePatterns(f, Skip(q), <<>>)
      body == ParseBody(f, SkipOptional(f, patterns.p, "then"))
  IN  CASE otherwise.ast # None -> Result(Append(clauses, Clause(Wildcard, otherwise.ast)), otherwise.p)
        [] otherwise.ast = None /\ Indent(f, q) = n /\ Sees(f, q, "matches") ->
             ParseClauses(f, body.p, n, clauses \o [i \in DOMAIN patterns.ast |-> Clause(patterns.ast[i], body.ast)])
        [] OTHER -> Result(clauses, p)
ParseIf(f, p) ==
  LET subject == Expect(ParseExpr(f, Skip(p)))
      body == ParseBody(f, SkipOptional(f, subject.p, "then"))
      otherwise == ParsePart(f, body.p, Indent(f, p), "else")
      yes == Clause(Yes, body.ast)
      clauses == ParseClauses(f, subject.p, Indent(f, p), <<>>)
  IN  IF Sees(f, subject.p, "matches") THEN Result(If(subject.ast, clauses.ast), clauses.p)
      ELSE IF otherwise.ast = None THEN Result(If(subject.ast, <<yes>>), body.p)
      ELSE Result(If(subject.ast, <<yes, Clause(Wildcard, otherwise.ast)>>), otherwise.p)

(* parse_for *)
ParseFor(f, p) ==
  LET var == ExpectId(f, Skip(p))
      iter == Expect(ParseExpr(f, ExpectWord(f, var.p, "in")))
      first == IF Sees(f, iter.p, "first") THEN ParseBody(f, Skip(iter.p)) ELSE Result(None, iter.p)
      start == IF first.ast = None THEN iter.p ELSE Whitespace(f, first.p)
      body == ParseBody(f, IF Indent(f, start) = Indent(f, p)
                           THEN SkipOptional(f, start, IF first.ast = None THEN "do" ELSE "then") ELSE start)
      between == ParsePart(f, body.p, Indent(f, p), "between")
      empty == ParsePart(f, between.p, Indent(f, p), "else")
  IN  Result(For(var.ast, iter.ast, first.ast, body.ast, between.ast, empty.ast), empty.p)

(* parse_suffix_for, parse_suffix_while *)
SuffixFor(f, body, p) ==
  LET var == ExpectId(f, Skip(p))
      iter == Expect(ParseExpr(f, ExpectWord(f, var.p, "in")))
      whole == SuffixCondition(f, body, iter.p, Exit("skip", ""))
  IN  Result(For(var.ast, iter.ast, None, whole.ast, None, None), whole.p)
SuffixWhile(f, body, p) ==
  LET condition == Expect(ParseExpr(f, Skip(p)))
      whole == SuffixCondition(f, body, condition.p, Exit("skip", ""))
  IN  Result(While(condition.ast, whole.ast, None), whole.p)

(* parse_while tries to pass `do' where a space is, so that a `do' is the  *)
(* first statement of its body.  After parse_repeat the white space has    *)
(* been passed.                                                            *)
ParseWhile(f, p) ==
  LET condition == Expect(ParseExpr(f, Skip(p)))
      body == ParseBody(f, condition.p)
      between == ParsePart(f, body.p, Indent(f, p), "between")
  IN  Result(While(condition.ast, body.ast, between.ast), between.p)
ParseRepeat(f, p) ==
  LET body == ParseBody(f, Skip(p))
      between == ParsePart(f, body.p, Indent(f, p), "between")
  IN  Result([op |-> "repeat", body |-> body.ast, between |-> between.ast],
             IF between.ast = None THEN Whitespace(f, body.p) ELSE between.p)

ParseDo(f, p) ==
  LET label == IF SeesOneOf(f, Skip(p), IdNames) THEN ExpectId(f, Skip(p)) ELSE Result("", Skip(p))
      body == ParseBody(f, label.p)
      otherwise == ParsePart(f, body.p, Indent(f, p), "else")
  IN  Result([op |-> "do", label |-> label.ast, body |-> body.ast, empty |-> otherwise.ast], otherwise.p)
ParseDefer(f, p) ==
  LET body == ParseBody(f, Skip(p)) IN Result([op |-> "defer", body |-> body.ast], body.p)
ParseWith(f, p) ==
  LET expr == Expect(ParseExpr(f, Skip(p)))
      cleanup == IF Sees(f, expr.p, "then") THEN Expect(ParseStatement(f, Skip(expr.p))) ELSE Result(None, expr.p)
      body == ParseBody(f, cleanup.p)
  IN  Result([op |-> "with", expr |-> expr.ast, cleanup |-> cleanup.ast, body |-> body.ast], body.p)

-----------------------------------------------------------------------------
(* parse_extended_expr: an expression takes every `for' and `while' that   *)
(* follows; in parse_statement every statement does.                       *)
RECURSIVE ParseSuffixes(_, _)
ParseSuffixes(f, r) ==
  IF Sees(f, r.p, "for") THEN ParseSuffixes(f, SuffixFor(f, r.ast, r.p))
  ELSE IF Sees(f, r.p, "while") THEN ParseSuffixes(f, SuffixWhile(f, r.ast, r.p)) ELSE r
ParseExtended(f, p) ==
  CASE Sees(f, p, "for") -> ParseFor(f, p)
    [] Sees(f, p, "while") -> ParseWhile(f, p)
    [] Sees(f, p, "if") -> ParseIf(f, p)
    [] Sees(f, p, "unless") -> ParseUnless(f, p)
    [] Sees(f, p, "repeat") -> ParseRepeat(f, p)
    [] Sees(f, p, "do") -> ParseDo(f, p)
    [] Sees(f, p, "defer") -> ParseDefer(f, p)
    [] Sees(f, p, "with") -> ParseWith(f, p)
    [] OTHER -> LET r == ParseExpr(f, p) IN IF r.ast = None THEN r ELSE ParseSuffixes(f, r)
ParseStatement(f, p) == LET r == ParseExtended(f, p) IN IF r.ast = None THEN r ELSE ParseSuffixes(f, r)

(* parse_block: statements until a line that is not indented as the first. *)
ParseStatements(f, p, n, statements) ==
  LET r == ParseStatement(f, p)
      all == Append(statements, r.ast)
      next == Whitespace(f, r.p)
  IN  CASE Sees(f, p, "") -> Result(Block(statements), p)
        [] ~Sees(f, p, "") /\ r.ast = None ->
             Result(Block(statements), [p EXCEPT !.ok = @ /\ f.tokens[p.at].line # p.line])
        [] OTHER -> IF Indent(f, next) = n THEN ParseStatements(f, next, n, all) ELSE Result(Block(all), r.p)

(* parse_inline_block *)
ParseInline(f, p, statements) ==
  LET r == ParseStatement(f, p)
      all == Append(statements, r.ast)
  IN  IF r.ast = None THEN Result(Block(statements), p)
      ELSE IF Sees(f, r.p, ";") THEN ParseInline(f, Skip(r.p), all) ELSE Result(Block(all), r.p)

(* parse_file: nothing may remain. *)
ParseFile(f) ==
  LET r == ParseBlock(f, [at |-> 1, line |-> 1, ok |-> TRUE])
  IN  IF r.p.ok /\ f.tokens[r.p.at].word = "" THEN r.ast ELSE None
=============================================================================
