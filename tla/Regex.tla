------------------------------- MODULE Regex -------------------------------
(***************************************************************************)
(* Regular expressions as trees: their text and what they match, from the  *)
(* table of syntax in README.rst and not from the compiler.  The only      *)
(* exception is `.`, which the virtual machine keeps from newlines.        *)
(***************************************************************************)
EXTENDS Compiler

RLit(c)    == <<"lit", c>>
RAny       == <<"any">>
RSol       == <<"sol">>
REol       == <<"eol">>
RClass(S)  == <<"class", S>>
RNclass(S) == <<"nclass", S>>
REmpty     == <<"empty">>         \* only as an alternative
RCat(r, s) == <<"cat", r, s>>
RAlt(r, s) == <<"alt", r, s>>
ROp(r, op) == <<"op", r, op>>     \* op is the token of the operator

LitToken(c, inClass) == IF c \in Special(inClass) THEN TEsc(c) ELSE TLit(c)
RangeToken(c, d) ==
  LET escapes(e) == IF e \in Special(TRUE) \cup isreserved THEN 1 ELSE 0
  IN  [TRange(c, d) EXCEPT !.w = 3 + escapes(c) + escapes(d), !.at = escapes(c)]

(* a class is given by one character or by a range, the highest first *)
SetTokens(S) ==
  IF Cardinality(S) = 1 THEN <<LitToken(CHOOSE c \in S : TRUE, TRUE)>>
  ELSE <<RangeToken(CHOOSE c \in S : \A d \in S : d <= c,
                    CHOOSE c \in S : \A d \in S : c <= d)>>

Group(tokens) == <<Tok("lparen")>> \o tokens \o <<Tok("rparen")>>

(* The tokens of a tree, with parentheses where the syntax needs them *)
RECURSIVE Unparse(_)
Unparse(r) ==
  LET atomic(q) == q[1] \notin {"cat", "alt", "op"}
      part(q) == IF q[1] = "alt" THEN Group(Unparse(q)) ELSE Unparse(q)
  IN  CASE r[1] = "lit"    -> <<LitToken(r[2], FALSE)>>
        [] r[1] = "any"    -> <<Tok("any")>>
        [] r[1] = "sol"    -> <<Tok("sol")>>
        [] r[1] = "eol"    -> <<Tok("eol")>>
        [] r[1] = "class"  ->
             <<Tok("charc_open")>> \o SetTokens(r[2]) \o <<Tok("charc_close")>>
        [] r[1] = "nclass" ->
             <<Tok("charc_open"), TLit(SOL_SYM)>> \o SetTokens(r[2])
               \o <<Tok("charc_close")>>
        [] r[1] = "empty"  -> <<>>
        [] r[1] = "cat"    -> part(r[2]) \o part(r[3])
        [] r[1] = "alt"    -> Unparse(r[2]) \o <<Tok("alt")>> \o Unparse(r[3])
        [] r[1] = "op"     ->
             (IF atomic(r[2]) THEN Unparse(r[2]) ELSE Group(Unparse(r[2])))
               \o <<r[3]>>

(* How often an operator lets its operand match: at least, and at most,    *)
(* where no string of n characters tells n + lo times from any more        *)
Bounds(op, n) ==
  CASE op.k = "one"     -> <<1, n + 1>>
    [] op.k = "zero"    -> <<0, n + 1>>
    [] op.k = "onezero" -> <<0, 1>>
    [] op.d = REP_NO_FIELD    -> <<op.c, op.c>>
    [] op.d = REP_FIELD_EMPTY -> <<op.c, op.c + n + 1>>
    [] op.c = REP_FIELD_EMPTY -> <<0, op.d>>
    [] op.c <= op.d           -> <<op.c, op.d>>
    [] OTHER                  -> <<op.d, op.c>>

(* The positions of w where a match of r from position s may end *)
RECURSIVE Ends(_, _, _, _)
Ends(r, w, multiline, s) ==
  LET one(fits) == IF s < Len(w) /\ fits THEN {s + 1} ELSE {}
      at == w[s + 1]
      from(q, S) == UNION {Ends(q, w, multiline, e) : e \in S}
  IN  CASE r[1] = "lit"    -> one(at = r[2])
        [] r[1] = "any"    -> one(at # NL)
        [] r[1] = "class"  -> one(at \in r[2])
        [] r[1] = "nclass" -> one(at \notin r[2])
        [] r[1] = "sol"    -> IF s = 0 \/ (multiline /\ w[s] = NL) THEN {s} ELSE {}
        [] r[1] = "eol"    ->
             IF s = Len(w) \/ (at = NL /\ (multiline \/ s + 1 = Len(w)))
             THEN {s} ELSE {}
        [] r[1] = "empty"  -> {s}
        [] r[1] = "cat"    -> from(r[3], Ends(r[2], w, multiline, s))
        [] r[1] = "alt"    ->
             Ends(r[2], w, multiline, s) \cup Ends(r[3], w, multiline, s)
        [] r[1] = "op"     ->
             LET b == Bounds(r[3], Len(w))
                 times[n \in 0..b[2]] ==
                   IF n = 0 THEN {s} ELSE from(r[2], times[n - 1])
             IN  UNION {times[n] : n \in b[1]..b[2]}
=============================================================================
