----------------------------- MODULE MCCompiler -----------------------------
(***************************************************************************)
(* Instances of Compiler for TLC: every sequence of tokens that lex can    *)
(* produce, up to a length, over a few tokens.                             *)
(***************************************************************************)
EXTENDS Compiler

lit == TLit(97)
newline == TLit(NL)
caret == TLit(SOL_SYM)

(* groups and operators *)
GroupTokens ==
  {lit, Tok("lparen"), Tok("rparen"), Tok("zero"), Tok("alt"),
   TRep(1, 2), TRep(0, REP_NO_FIELD)}
(* classes among them *)
ClassTokens ==
  {lit, caret, Tok("charc_open"), Tok("charc_close"), TRange(98, 97),
   Tok("lparen"), Tok("rparen"), Tok("one")}
(* the other tokens and a lexical error *)
OtherTokens ==
  {newline, Tok("any"), Tok("sol"), Tok("eol"), Tok("onezero"), Tok("alt"),
   TRep(REP_FIELD_EMPTY, 2), Tok("ETRAIL")}

UpTo(n, S) == UNION {[1..k -> S] : k \in 0..n}

FirstCall ==
  {e \in UpTo(5, GroupTokens) \cup UpTo(4, ClassTokens) \cup UpTo(3, OtherTokens) :
     Lexable(e)}
    \cup {<<lit, Tok("alt"), lit, Tok("alt"), lit, Tok("alt"), lit>>}
(* a later call starts from the static variables an earlier one left *)
SecondCall ==
  {<<lit>>, <<lit, Tok("zero")>>, <<newline, Tok("any"), lit, lit>>,
   <<Tok("charc_open"), lit, Tok("charc_close"), lit, Tok("alt"), lit>>}

(* the instances that contradict README.rst *)
DocExpressions == <<UpTo(4, {lit, Tok("lparen"), Tok("rparen"), TRep(0, REP_NO_FIELD)})>>
DocExpressions_class ==
  LET all == {e \in UpTo(3, ClassTokens) : Lexable(e)} IN <<all, all>>
=============================================================================
