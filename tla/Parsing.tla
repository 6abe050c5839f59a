------------------------------- MODULE Parsing ------------------------------
(***************************************************************************)
(* Text: the matchers and searches of the exercises, the expressions of    *)
(* eval_14 and the Boolean expressions of 03-parsing.                      *)
(***************************************************************************)
EXTENDS Naturals, Sequences, FiniteSetsExt, SequencesExt, Integers

(***************************************************************************)
(* The text matchers of exercises/01, 02, 04, 05 and 17.  A string is a    *)
(* sequence of characters, a pointer into it the suffix it points to, and  *)
(* nullptr an empty result.                                                *)
(***************************************************************************)

CONSTANT CharsetCap      \* sizeof(charset) in the bracket matchers, 256

From(s, i) == SubSeq(s, i, Len(s))

\* ctype.h, on the characters used here
isdigit(c) == c \in {"0", "7"}
isalpha(c) == c \in {"a", "b", "w", "d", "s", "x"}
isalnum(c) == isdigit(c) \/ isalpha(c)
isspace(c) == c = " "
isxdigit(c) == isdigit(c) \/ c \in {"a", "b", "d"}
-----------------------------------------------------------------------------
\* 01_pointer_traversal.c: positions, 0 for nullptr
count_digits(text) == Len(SelectSeq(text, isdigit))
count_alpha(text) == Len(SelectSeq(text, isalpha))
Digits(text) == {i \in 1..Len(text) : isdigit(text[i])}
find_first_digit(text) == IF Digits(text) = {} THEN 0 ELSE Min(Digits(text))
find_last_digit(text) == IF Digits(text) = {} THEN 0 ELSE Max(Digits(text))

\* The loop runs while the characters agree, and *s may be the terminator
\* of text while *prefix is not.
match_prefix(text, prefix) ==
  LET stop[k \in 0..Len(prefix)] ==
        IF k < Len(prefix) /\ k < Len(text) /\ text[k + 1] = prefix[k + 1] THEN stop[k + 1] ELSE k
  IN  stop[0] = Len(prefix)

\* Mutant: the scan goes on after the first match.
find_substring_last(text, pattern) ==
  LET hits == {i \in 1..Len(text) : match_prefix(From(text, i), pattern)}
  IN  IF pattern = <<>> THEN 1 ELSE IF hits = {} THEN 0 ELSE Max(hits)

find_substring(text, pattern) ==
  LET hits == {i \in 1..Len(text) : match_prefix(From(text, i), pattern)}
  IN  IF pattern = <<>> THEN 1 ELSE IF hits = {} THEN 0 ELSE Min(hits)
-----------------------------------------------------------------------------
\* 02_anchored_matching.c: only the first token of the pattern is compared.
is_word_char(c) == isalnum(c) \/ c = "_"

match_here(text, pattern) ==
  IF pattern = <<>> THEN TRUE
  ELSE IF text = <<>> THEN FALSE
  ELSE IF Len(pattern) > 1 /\ pattern[1] = "\\" /\ pattern[2] = "w" THEN is_word_char(text[1])
  ELSE text[1] = pattern[1]

find_pattern(text, pattern) == \E i \in 1..Len(text) : match_here(From(text, i), pattern)
-----------------------------------------------------------------------------
\* 04_enum_state_machine.c
Escapes == [d |-> "DIGIT", w |-> "WORD", s |-> "WHITESPACE", x |-> "HEX_DIGIT"]

classify_token(p) ==
  IF p = <<>> THEN "INVALID"
  ELSE IF p[1] = "\\" THEN IF Len(p) = 2 /\ p[2] \in DOMAIN Escapes THEN Escapes[p[2]] ELSE "INVALID"
  ELSE IF Len(p) = 1 THEN "LITERAL" ELSE "INVALID"

\* Mutant: the underscore is forgotten.
test_char_alnum(c, kind) ==
  CASE kind = "DIGIT" -> isdigit(c)      [] kind = "WORD" -> isalnum(c)
    [] kind = "WHITESPACE" -> isspace(c) [] kind = "HEX_DIGIT" -> isxdigit(c) [] OTHER -> FALSE

test_char(c, kind) ==
  CASE kind = "DIGIT" -> isdigit(c)      [] kind = "WORD" -> isalnum(c) \/ c = "_"
    [] kind = "WHITESPACE" -> isspace(c) [] kind = "HEX_DIGIT" -> isxdigit(c) [] OTHER -> FALSE

match_string(line, p) ==
  LET kind == classify_token(p) IN
  IF kind = "INVALID" THEN "SYNTAX_ERROR"
  ELSE IF \E i \in 1..Len(line) : IF kind = "LITERAL" THEN line[i] = p[1] ELSE test_char(line[i], kind)
  THEN "FOUND" ELSE "NOT_FOUND"
-----------------------------------------------------------------------------
\* 05_char_group_slicing.c: the characters between [ or [^ and ], or the
\* mark NoGroup
NoGroup == <<"[">>

\* Mutant: the ^ of a negated group is part of it.
get_group_bounds_caret(p) ==
  LET ends == {i \in 2..Len(p) : p[i] = "]"}
  IN  IF p = <<>> \/ p[1] # "[" \/ ends = {} THEN NoGroup ELSE SubSeq(p, 2, Min(ends) - 1)

get_group_bounds(p) ==
  LET start == IF Len(p) > 1 /\ p[2] = "^" THEN 3 ELSE 2
      ends == {i \in start..Len(p) : p[i] = "]"}
  IN  IF p = <<>> \/ p[1] # "[" \/ ends = {} THEN NoGroup ELSE SubSeq(p, start, Min(ends) - 1)

slice_to_buffer(group) == IF Len(group) >= CharsetCap THEN NoGroup ELSE group

Charset(p) == LET g == get_group_bounds(p) IN IF g = NoGroup THEN g ELSE slice_to_buffer(g)

strpbrk(text, set) == \E i \in 1..Len(text) : text[i] \in ToSet(set)
strcspn(text, set) == LET hits == {i \in 1..Len(text) : text[i] \in ToSet(set)}
                      IN  IF hits = {} THEN Len(text) ELSE Min(hits) - 1

match_pos_bracket_grp(line, p) == Charset(p) # NoGroup /\ line # <<>> /\ strpbrk(line, Charset(p))
match_neg_bracket_grp(line, p) == Charset(p) # NoGroup /\ line # <<>> /\ strcspn(line, Charset(p)) > 0
-----------------------------------------------------------------------------
\* 17_recursion_patterns.c: each call is on the suffix from i
rec_strlen(s) == LET f[i \in 1..(Len(s) + 1)] == IF i > Len(s) THEN 0 ELSE f[i + 1] + 1 IN f[1]

rec_count_char(s, target) ==
  LET f[i \in 1..(Len(s) + 1)] ==
        IF i > Len(s) THEN 0 ELSE (IF s[i] = target THEN 1 ELSE 0) + f[i + 1]
  IN  f[1]

rec_contains(s, target) ==
  LET f[i \in 1..(Len(s) + 1)] == IF i > Len(s) THEN FALSE ELSE s[i] = target \/ f[i + 1]
  IN  f[1]

rec_starts_with(prefix, text) ==
  LET f[k \in 1..(Len(prefix) + 1)] ==
        IF k > Len(prefix) THEN TRUE
        ELSE IF k <= Len(text) /\ prefix[k] = text[k] THEN f[k + 1] ELSE FALSE
  IN  f[1]

rec_match_one_or_more(target, rest, text) ==
  LET f[i \in 1..(Len(text) + 1)] ==
        IF i > Len(text) \/ text[i] # target THEN FALSE
        ELSE f[i + 1] \/ rec_starts_with(rest, From(text, i + 1))
  IN  f[1]
-----------------------------------------------------------------------------
\* The separately written matchers agree where they answer the same
\* question: find_pattern with match_string on one-token patterns, the
\* recursive prefix test with the loop, the recursive counts with the
\* scans, and a search for a one-character group with both.
MatchersAgree(text, p) ==
  /\ classify_token(p) \in {"LITERAL", "WORD"} => (find_pattern(text, p) <=> match_string(text, p) = "FOUND")
  /\ rec_starts_with(p, text) <=> match_prefix(text, p)
  /\ rec_strlen(text) = Len(text)
  /\ \A c \in ToSet(text) \cup ToSet(p) :
       /\ rec_contains(text, c) <=> rec_count_char(text, c) > 0
       /\ rec_contains(text, c) <=> find_substring(text, <<c>>) > 0
       /\ c \notin {"[", "]", "^"} => (match_pos_bracket_grp(text, <<"[", c, "]">>) <=> rec_contains(text, c))
  /\ count_digits(text) > 0 <=> match_string(text, <<"\\", "d">>) = "FOUND"
  /\ count_digits(text) + count_alpha(text) > 0 \/ rec_contains(text, "_") <=> match_string(text, <<"\\", "w">>) = "FOUND"
  /\ find_first_digit(text) <= find_last_digit(text)

\* find_substring returns the first occurrence: everything before it has
\* none.  rec_match_one_or_more is the regular expression target+ rest,
\* also where rest begins with the target, so that the greedy branch must
\* give characters back.
SearchesExact(text, p) ==
  /\ LET at == find_substring(text, p) IN
     /\ at > 0 => IsPrefix(p, From(text, at))
     /\ \A i \in 1..Len(text) : IsPrefix(p, From(text, i)) => at > 0 /\ at <= i
  /\ \A c \in ToSet(text) : rec_match_one_or_more(c, p, text) <=>
       \E k \in 1..Len(text) : (\A i \in 1..k : text[i] = c) /\ IsPrefix(p, From(text, k + 1))

\* A negated group looks at the first character only: it matches exactly
\* when that one is not in the group.  A positive group matches when any
\* character is.  Both give up when the group does not fit the buffer.
GroupsExact(text, group) ==
  LET fits == Len(group) < CharsetCap /\ text # <<>> IN
  "]" \notin ToSet(group) /\ (group = <<>> \/ group[1] # "^") =>
    /\ match_neg_bracket_grp(text, <<"[", "^">> \o group \o <<"]">>) <=> fits /\ text[1] \notin ToSet(group)
    /\ match_pos_bracket_grp(text, <<"[">> \o group \o <<"]">>) <=>
         fits /\ ToSet(text) \cap ToSet(group) # {}

-----------------------------------------------------------------------------
(***************************************************************************)
(* The expression package eval_14: Parse, Format, Check and Eval.          *)
(*                                                                         *)
(* A token is a pair <<kind, text>>: <<"num", 1>>, <<"id", "x">>, or an    *)
(* operator or punctuation <<"op", "+">>.  What scanner.Scanner returns at *)
(* the end of the input is Eof.  An Expr is <<"literal", n>>, <<"Var", v>>,*)
(* <<"unary", op, x>>, <<"binary", op, x, y>> or <<"call", fn, args>>.     *)
(* The float64 values are left out: Eval is modelled by whether it panics. *)
(***************************************************************************)

Eof == <<"eof", "">>
Op(c) == <<"op", c>>
Tok(lex, i) == IF i <= Len(lex) THEN lex[i] ELSE Eof

\* What a parse function leaves: the expression and the lookahead's index;
\* a lexPanic is index 0.
Parsed(e, i) == [e |-> e, i |-> i]
lexPanic == Parsed(<<"nil">>, 0)

\* Mutant: all operators have the same precedence.
precedenceFlat(tok) == IF tok \in {Op("*"), Op("/"), Op("+"), Op("-")} THEN 1 ELSE 0

precedence(tok) == CASE tok \in {Op("*"), Op("/")} -> 2 [] tok \in {Op("+"), Op("-")} -> 1 [] OTHER -> 0

RECURSIVE parseBinary(_, _, _), parseUnary(_, _), Climb(_, _, _, _), parseArgs(_, _, _)

Expect(p, lex, c) == IF p.i > 0 /\ Tok(lex, p.i) = Op(c) THEN Parsed(p.e, p.i + 1) ELSE lexPanic

parseExpr(lex, i) == parseBinary(lex, i, 1)

\* The arguments of a call, from the one at i
parseArgs(lex, i, args) ==
  LET p == parseExpr(lex, i)
      more == Append(args, p.e) IN
  CASE p.i = 0 -> lexPanic
    [] p.i > 0 /\ Tok(lex, p.i) = Op(",") -> parseArgs(lex, p.i + 1, more)
    [] OTHER -> Expect(Parsed(more, p.i), lex, ")")

parsePrimary(lex, i) ==
  LET t == Tok(lex, i) IN
  CASE t[1] = "id" /\ Tok(lex, i + 1) # Op("(") -> Parsed(<<"Var", t[2]>>, i + 1)
    [] t[1] = "id" /\ Tok(lex, i + 1) = Op("(") ->
         LET a == IF Tok(lex, i + 2) = Op(")") THEN Parsed(<<>>, i + 3) ELSE parseArgs(lex, i + 2, <<>>)
         IN  IF a.i = 0 THEN lexPanic ELSE Parsed(<<"call", t[2], a.e>>, a.i)
    [] t[1] = "num" -> Parsed(<<"literal", t[2]>>, i + 1)
    [] t = Op("(") -> Expect(parseExpr(lex, i + 1), lex, ")")
    [] OTHER -> lexPanic

parseUnary(lex, i) ==
  IF Tok(lex, i) \notin {Op("+"), Op("-")} THEN parsePrimary(lex, i)
  ELSE LET p == parseUnary(lex, i + 1) IN
       IF p.i = 0 THEN lexPanic ELSE Parsed(<<"unary", lex[i][2], p.e>>, p.i)

\* The two loops of parseBinary, at precedence prec with lhs parsed
Climb(lex, lhs, prec, prec1) ==
  CASE lhs.i = 0 \/ prec < prec1 -> lhs
    [] lhs.i > 0 /\ prec >= prec1 /\ precedence(Tok(lex, lhs.i)) # prec -> Climb(lex, lhs, prec - 1, prec1)
    [] OTHER -> LET rhs == parseBinary(lex, lhs.i + 1, prec + 1) IN
                IF rhs.i = 0 THEN lexPanic
                ELSE Climb(lex, Parsed(<<"binary", lex[lhs.i][2], lhs.e, rhs.e>>, rhs.i), prec, prec1)

parseBinary(lex, i, prec1) ==
  LET lhs == parseUnary(lex, i) IN
  IF lhs.i = 0 THEN lexPanic ELSE Climb(lex, lhs, precedence(Tok(lex, lhs.i)), prec1)

Parse(input) ==
  LET p == parseExpr(input, 1) IN
  IF p.i = 0 \/ Tok(input, p.i) # Eof THEN <<"nil">> ELSE p.e

-----------------------------------------------------------------------------
RECURSIVE write(_)

\* Mutant: the parentheses of a binary expression are left out.
writeBinaryBare(e) == write(e[3]) \o <<Op(e[2])>> \o write(e[4])

writeBinary(e) == <<Op("(")>> \o write(e[3]) \o <<Op(e[2])>> \o write(e[4]) \o <<Op(")")>>

write(e) ==
  CASE e[1] = "literal" -> <<<<"num", e[2]>>>>
    [] e[1] = "Var" -> <<<<"id", e[2]>>>>
    [] e[1] = "unary" -> <<Op("("), Op(e[2])>> \o write(e[3]) \o <<Op(")")>>
    [] e[1] = "binary" -> writeBinary(e)
    [] e[1] = "call" ->
         <<<<"id", e[2]>>, Op("(")>>
           \o FlattenSeq([k \in 1..Len(e[3]) |-> (IF k > 1 THEN <<Op(",")>> ELSE <<>>) \o write(e[3][k])])
           \o <<Op(")")>>

numParams == ("pow" :> 2) @@ ("sin" :> 1) @@ ("sqrt" :> 1)

\* Check, as whether it returns nil; Evaluates, as whether Eval returns.
\* Eval of "pow" reads args[0] and args[1], of the others args[0].
RECURSIVE Check(_), Evaluates(_), Vars(_)

\* Mutant: the arity of a call is not compared.
ArityAny(e) == e[2] \in DOMAIN numParams

Arity(e) == e[2] \in DOMAIN numParams /\ Len(e[3]) = numParams[e[2]]

Check(e) ==
  CASE e[1] \in {"literal", "Var"} -> TRUE
    [] e[1] = "unary" -> e[2] \in {"+", "-"} /\ Check(e[3])
    [] e[1] = "binary" -> e[2] \in {"+", "-", "*", "/"} /\ Check(e[3]) /\ Check(e[4])
    [] e[1] = "call" -> Arity(e) /\ \A k \in 1..Len(e[3]) : Check(e[3][k])

\* The variables a Check that returns nil adds to its set
Vars(e) ==
  CASE e[1] = "literal" -> {}
    [] e[1] = "Var" -> {e[2]}
    [] e[1] = "unary" -> Vars(e[3])
    [] e[1] = "binary" -> Vars(e[3]) \cup Vars(e[4])
    [] e[1] = "call" -> UNION {Vars(e[3][k]) : k \in 1..Len(e[3])}

Evaluates(e) ==
  CASE e[1] \in {"literal", "Var"} -> TRUE
    [] e[1] = "unary" -> e[2] \in {"+", "-"} /\ Evaluates(e[3])
    [] e[1] = "binary" -> e[2] \in {"+", "-", "*", "/"} /\ Evaluates(e[3]) /\ Evaluates(e[4])
    [] e[1] = "call" -> /\ e[2] \in DOMAIN numParams
                        /\ Len(e[3]) >= numParams[e[2]]
                        /\ \A k \in 1..numParams[e[2]] : Evaluates(e[3][k])
-----------------------------------------------------------------------------
\* The tree of a sequence of operands joined by binary operators, by
\* definition: it splits at its last + or -, and without one at its last
\* operator.
RECURSIVE Joined(_)
Joined(s) ==
  LET ops == {k \in 1..Len(s) : precedence(s[k]) > 0}
      low == {k \in ops : s[k] \in {Op("+"), Op("-")}}
      at == CHOOSE k \in (IF low # {} THEN low ELSE ops) : \A j \in (IF low # {} THEN low ELSE ops) : j <= k
  IN  IF ops = {} THEN Parse(s)
      ELSE <<"binary", s[at][2], Joined(SubSeq(s, 1, at - 1)), Joined(SubSeq(s, at + 1, Len(s)))>>

\* Format undoes Parse: what is printed for an expression that was parsed
\* reads back as the same expression, however many of the parentheses of
\* the input were redundant.
FormatRoundTrips(lex) == LET e == Parse(lex) IN e # <<"nil">> => Parse(write(e)) = e

\* An expression that passed Check evaluates without a panic, and Check
\* has collected exactly the variables that occur in the input.
CheckedEvaluates(lex) ==
  LET e == Parse(lex) IN
  e # <<"nil">> /\ Check(e) =>
    /\ Evaluates(e)
    /\ Vars(e) = {lex[k][2] : k \in {j \in 1..Len(lex) : lex[j][1] = "id" /\ Tok(lex, j + 1) # Op("(")}}

\* parseBinary gives * and / precedence over + and - and groups equals to
\* the left.
PrecedenceRight(lex) ==
  (Len(lex) % 2 = 1 /\ \A k \in 1..Len(lex) : IF k % 2 = 1 THEN lex[k][1] \in {"num", "id"} ELSE precedence(lex[k]) > 0)
    => Parse(lex) = Joined(lex)

-----------------------------------------------------------------------------
(***************************************************************************)
(* The scanner and the parser of the Boolean expression language.  A source*)
(* is a sequence of one-character strings; a parse that panics gives the   *)
(* tree Panic.                                                             *)
(***************************************************************************)

isDigit(c) == c \in {"0", "1"}
isAlpha(c) == c \in {"A", "N", "D", "O", "R", "T", "x", "_"}
isAlphaNumeric(c) == isAlpha(c) \/ isDigit(c)
keywords(text) ==
  CASE text = <<"A", "N", "D">> -> "And" [] text = <<"O", "R">> -> "Or" [] text = <<"N", "O", "T">> -> "Not" [] OTHER -> "Term"

New(source) == [src |-> source, tokens |-> <<>>, start |-> 0, curr |-> 0, line |-> 1, HadError |-> FALSE]
isAtEnd(s) == s.curr >= Len(s.src)
peek(s) == IF isAtEnd(s) THEN "nul" ELSE s.src[s.curr + 1]
advance(s) == [s EXCEPT !.curr = @ + 1]
addToken(s, typ) ==
  [s EXCEPT !.tokens = Append(@, [Typ |-> typ, Lexeme |-> SubSeq(s.src, s.start + 1, s.curr), Line |-> s.line])]
\* Mutant: a keyword ends a token wherever it is met.
RECURSIVE termEager(_)
termEager(s) ==
  LET typ == keywords(SubSeq(s.src, s.start + 1, s.curr))
  IN IF typ = "Term" /\ isAlphaNumeric(peek(s)) THEN termEager(advance(s)) ELSE addToken(s, typ)
RECURSIVE term(_)
term(s) == IF isAlphaNumeric(peek(s)) THEN term(advance(s)) ELSE addToken(s, keywords(SubSeq(s.src, s.start + 1, s.curr)))
\* A character that begins no token is reported and left out.
scanToken(s) ==
  LET c == peek(s)
      next == advance(s)
  IN IF c \in {" ", "\r", "\t"} THEN next
     ELSE IF c = "\n" THEN [next EXCEPT !.line = @ + 1]
     ELSE IF isAlpha(c) THEN term(next)
     ELSE [next EXCEPT !.HadError = TRUE]
RECURSIVE ScanTokens(_)
ScanTokens(s) ==
  IF isAtEnd(s) THEN [s EXCEPT !.tokens = Append(@, [Typ |-> "Eof", Lexeme |-> <<>>, Line |-> s.line])]
  ELSE ScanTokens(scanToken([s EXCEPT !.start = s.curr]))
-----------------------------------------------------------------------------
Panic == <<"panic">>
\* p is [tokens, current]; a rule gives the tree and the parser behind it.
check(p, typ) == p.tokens[p.current + 1].Typ # "Eof" /\ p.tokens[p.current + 1].Typ = typ
match(p, types) == \E typ \in types : check(p, typ)
next(p) == [p EXCEPT !.current = @ + 1]
previous(p) == p.tokens[p.current].Typ
RECURSIVE unary(_)
unary(p) ==
  IF match(p, {"Not"})
  THEN LET rhs == unary(next(p)) IN IF rhs[1] = Panic THEN rhs ELSE <<<<"Not", rhs[1]>>, rhs[2]>>
  ELSE IF match(p, {"Term"}) THEN <<<<"Term">>, next(p)>> ELSE <<Panic, p>>
RECURSIVE binary(_)
\* Mutant: the right-hand side is a whole expression.
RhsWhole(p) == binary(p)
Rhs(p) == unary(p)
RECURSIVE MoreOf(_, _)
MoreOf(expr, p) ==
  IF ~match(p, {"And", "Or"}) THEN <<expr, p>>
  ELSE LET rhs == Rhs(next(p))
       IN IF rhs[1] = Panic THEN rhs ELSE MoreOf(<<previous(next(p)), expr, rhs[1]>>, rhs[2])
binary(p) == LET lhs == unary(p) IN IF lhs[1] = Panic THEN lhs ELSE MoreOf(lhs[1], lhs[2])
expression(tokens) == binary([tokens |-> tokens, current |-> 0])
-----------------------------------------------------------------------------
\* The tokens are the longest runs of letters and digits that do not begin
\* with a digit, in order, each with the line it stands on; every other
\* character that is not blank is reported, and nothing else.
TokensExact(source) ==
  LET s == ScanTokens(New(source))
      n == Len(source)
      \* A digit outside a token is refused alone, and the run goes on behind it.
      inToken(i) == \E j \in 1..i : isAlpha(source[j]) /\ \A k \in j..i : isAlphaNumeric(source[k])
      begins(i) == isAlpha(source[i]) /\ (i = 1 \/ ~inToken(i - 1))
      starts == SetToSortSeq({i \in 1..n : begins(i)}, <)
      end(i) == CHOOSE j \in i..n : inToken(j) /\ (j = n \/ ~inToken(j + 1)) /\ \A k \in i..j : inToken(k)
      lineOf(i) == 1 + Len(SelectSeq(SubSeq(source, 1, i), LAMBDA c : c = "\n"))
  IN /\ Len(s.tokens) = Len(starts) + 1 /\ s.tokens[Len(s.tokens)].Line = lineOf(n)
     /\ \A k \in DOMAIN starts :
          s.tokens[k] = [Typ |-> keywords(SubSeq(source, starts[k], end(starts[k]))),
                         Lexeme |-> SubSeq(source, starts[k], end(starts[k])), Line |-> lineOf(starts[k])]
     /\ s.HadError <=> \E i \in 1..n : ~inToken(i) /\ source[i] \notin {" ", "\r", "\t", "\n"}

RECURSIVE Yield(_)
Yield(t) == CASE t[1] = "Term" -> <<"Term">> [] t[1] = "Not" -> <<"Not">> \o Yield(t[2]) [] OTHER -> Yield(t[2]) \o <<t[1]>> \o Yield(t[3])
RECURSIVE LeftDeep(_)
LeftDeep(t) == CASE t[1] = "Term" -> TRUE [] t[1] = "Not" -> t[2][1] \in {"Not", "Term"} /\ LeftDeep(t[2])
                 [] OTHER -> t[3][1] \in {"Not", "Term"} /\ LeftDeep(t[2]) /\ LeftDeep(t[3])

\* A parse that does not panic gives a tree whose leaves are exactly the tokens
\* it used, that groups AND and OR alike from the left and binds NOT tighter
\* than both, and it stops only where no operator follows; a parse panics only
\* where a term is missing.  (What follows a complete expression is ignored.)
ParseShape(source) ==
  LET tokens == ScanTokens(New(source)).tokens
      typ(i) == tokens[i].Typ
      r == expression(tokens)
      used == r[2].current
  IN IF r[1] = Panic
     THEN /\ typ(used + 1) \notin {"Term", "Not"}
          /\ used = 0 \/ typ(used) \in {"And", "Or", "Not"}
     ELSE /\ Yield(r[1]) = [i \in 1..used |-> typ(i)]
          /\ LeftDeep(r[1]) /\ typ(used + 1) \notin {"And", "Or"}
=============================================================================
