-------------------------------- MODULE Lex --------------------------------
(***************************************************************************)
(* lex.c: the text of an expression is cut into tokens.  A call of `lex`   *)
(* reads one token from an offset of the text; `literal` is set inside a   *)
(* character class, where only an escape, a range and the closing bracket  *)
(* mean anything.  A token carries what stage1 reads of its text: the      *)
(* character of a literal, the bounds of a range, the numbers of a         *)
(* repetition.  A lexical error is a token named for its code.             *)
(*                                                                         *)
(* Offsets count from 0.  As in Vm, a definition with a suffix is a        *)
(* plausible mistake in the definition below it that nothing else uses.    *)
(***************************************************************************)
EXTENDS RxvmInst

PRINTABLE_LOW == 32
PRINTABLE_HIGH == 126
WS_LOW == 7
WS_HIGH == 13
isprintable(c) == c \in PRINTABLE_LOW..PRINTABLE_HIGH \/ c \in WS_LOW..WS_HIGH
Digits == 48..57    \* isdigit

CHARC_OPEN_SYM == 91
CHARC_CLOSE_SYM == 93
REP_OPEN_SYM == 123
REP_CLOSE_SYM == 125
RANGE_SEP_SYM == 45
SOL_SYM == 94
DEREF_SYM == 92
COMMA == 44
isreserved == {CHARC_OPEN_SYM, CHARC_CLOSE_SYM}

(* the symbols that are a token by themselves outside a class *)
Symbol == [c \in {125, 40, 41, 43, 63, 42, 46, 94, 36, 124} |->
  CASE c = 125 -> "BADREP" [] c = 40 -> "lparen"  [] c = 41 -> "rparen"
    [] c = 43  -> "one"    [] c = 63 -> "onezero" [] c = 42 -> "zero"
    [] c = 46  -> "any"    [] c = 94 -> "sol"     [] c = 36 -> "eol"
    [] c = 124 -> "alt"]

LexErrors == {"BADREP", "EREP", "ERANGE", "ECOMMA", "EDIGIT", "MREP", "ETRAIL", "EINVAL"}

Kinds ==
  {"literal", "char_range", "rep", "charc_open", "charc_close"}
    \cup {Symbol[c] : c \in DOMAIN Symbol} \cup LexErrors

(* Tokens; w is the length of their text, at the offset of lp1 in it: 1    *)
(* behind the escape that a literal or a range begins with.                *)
REP_NO_FIELD == -1
REP_FIELD_EMPTY == -2
Tok(k)        == [k |-> k, c |-> 0, d |-> 0, w |-> 1, at |-> 0]
TLit(c)       == [Tok("literal") EXCEPT !.c = c]
TEsc(c)       == [TLit(c) EXCEPT !.w = 2, !.at = 1]
TRange(c, d)  == [Tok("char_range") EXCEPT !.c = c, !.d = d, !.w = 3]
TRep(n, m)    == [Tok("rep") EXCEPT !.c = n, !.d = m,
                    !.w = 5 - (IF n < 0 THEN 1 ELSE 0)
                            - (IF m = REP_NO_FIELD THEN 2 ELSE IF m < 0 THEN 1 ELSE 0)]

-----------------------------------------------------------------------------
(* One call of lex, for a token from offset i of the text s on *)

At(s, i) == IF i < Len(s) THEN s[i + 1] ELSE EndChar

(* a token that ends before offset `next` *)
Ends_at(tok, i, next) == [tok EXCEPT !.w = next - i]
Error(err) == Tok(err)

(* expand_char_range: the bounds are read by their place behind lp1 = j *)
RangeBound_unescaped(s, j) == At(s, j + 2)
RangeBound(s, j) ==
  IF At(s, j + 2) = DEREF_SYM THEN At(s, j + 3) ELSE At(s, j + 2)

(* STATE_RANGE.  INVALIDSYM, where the text ends, is EINVAL to stage1.     *)
LexRange(s, i, j) ==
  LET escaped == At(s, j + 2) = DEREF_SYM
      k == IF escaped THEN j + 3 ELSE j + 2
      c == At(s, k)
  IN  IF At(s, j + 2) = EndChar THEN Error("EINVAL")
      ELSE IF escaped /\ c = EndChar THEN Error("ETRAIL")
      ELSE IF isprintable(c) /\ (escaped \/ c \notin isreserved)
      THEN Ends_at([TRange(At(s, j), RangeBound(s, j)) EXCEPT !.at = j - i], i, k + 1)
      ELSE Error("ERANGE")

(* STATE_LITERAL, at the character j *)
LexLiteral(s, i, j, literal) ==
  IF literal /\ At(s, j) = RANGE_SEP_SYM /\ At(s, j - 1) # DEREF_SYM
  THEN Error("ERANGE")
  ELSE IF literal /\ At(s, j + 1) = RANGE_SEP_SYM THEN LexRange(s, i, j)
  ELSE Ends_at([TLit(At(s, j)) EXCEPT !.at = j - i], i, j + 1)

(* parse_rep, of the text between the braces; the int of the code is wide  *)
(* enough for the numbers here                                             *)
Number(digits) ==
  LET val[i \in 0..Len(digits)] ==
        IF i = 0 THEN 0 ELSE 10 * val[i - 1] + digits[i] - 48
  IN  IF digits = <<>> THEN REP_NO_FIELD ELSE val[Len(digits)]
parse_rep(field) ==
  LET commas == {i \in DOMAIN field : field[i] = COMMA}
      comma == CHOOSE i \in commas : TRUE
      n == Number(SubSeq(field, 1, comma - 1))
      m == Number(SubSeq(field, comma + 1, Len(field)))
      orEmpty(val) == IF val = REP_NO_FIELD THEN REP_FIELD_EMPTY ELSE val
  IN  IF commas = {} THEN TRep(Number(field), REP_NO_FIELD)
      ELSE TRep(orEmpty(n), orEmpty(m))

(* STATE_REP, up to the first character k that may not follow *)
LexRep(s, i) ==
  LET comma(k) == \E j \in (i + 1)..(k - 1) : At(s, j) = COMMA
      stop(k) == At(s, k) \notin Digits \cup {COMMA} \/ (At(s, k) = COMMA /\ comma(k))
      k == CHOOSE n \in (i + 1)..Len(s) :
             stop(n) /\ \A j \in (i + 1)..(n - 1) : ~stop(j)
      field == SubSeq(s, i + 2, k)
  IN  CASE At(s, k) = REP_CLOSE_SYM ->
             IF At(s, k - 1) \in Digits \/ At(s, i + 1) \in Digits
             THEN Ends_at(parse_rep(field), i, k + 1) ELSE Error("MREP")
        [] At(s, k) = COMMA -> Error("ECOMMA")
        [] At(s, k) = EndChar -> Error("EREP")
        [] OTHER -> Error("EDIGIT")

(* STATE_START *)
lex(s, i, literal) ==
  LET c == At(s, i)
  IN  CASE c = DEREF_SYM ->
             IF At(s, i + 1) = EndChar THEN Error("ETRAIL")
             ELSE LexLiteral(s, i, i + 1, literal)
        [] c = CHARC_CLOSE_SYM -> Tok("charc_close")
        [] ~literal /\ c = CHARC_OPEN_SYM -> Tok("charc_open")
        [] ~literal /\ c = REP_OPEN_SYM -> LexRep(s, i)
        [] ~literal /\ c \in DOMAIN Symbol -> Tok(Symbol[c])
        [] c \notin {DEREF_SYM, CHARC_CLOSE_SYM} /\ ~isprintable(c) -> Error("EINVAL")
        [] OTHER -> LexLiteral(s, i, i, literal)

(* whether a class is open after a token *)
LiteralAfter(tok, literal) ==
  \/ tok.k = "charc_open"
  \/ literal /\ tok.k # "charc_close"

(* All tokens of a text; nothing is read after an error *)
Lexed(s) ==
  LET from[p \in (0..Len(s)) \X BOOLEAN] ==
        LET tok == lex(s, p[1], p[2])
        IN  IF p[1] = Len(s) THEN <<>>
            ELSE IF tok.k \in LexErrors THEN <<tok>>
            ELSE <<tok>> \o from[<<p[1] + tok.w, LiteralAfter(tok, p[2])>>]
  IN  from[<<0, FALSE>>]

-----------------------------------------------------------------------------
(* The syntax of tokens (README.rst).  A special character without an      *)
(* escape is no literal, in a class only the first three are special, and  *)
(* only there ranges are found; an error is the last token.  A dash behind *)
(* a range that ends in an escaped backslash passes for an escaped one.    *)
Special(inClass) ==
  {DEREF_SYM, CHARC_CLOSE_SYM} \cup
    (IF inClass THEN {RANGE_SEP_SYM}
     ELSE {CHARC_OPEN_SYM, REP_OPEN_SYM} \cup DOMAIN Symbol)
InClass(e, i) ==
  \E j \in 1..(i - 1) :
    e[j].k = "charc_open" /\ \A m \in (j + 1)..(i - 1) : e[m].k # "charc_close"
Lexable(e) ==
  \A i \in DOMAIN e :
    /\ InClass(e, i) => e[i].k \in {"literal", "char_range", "charc_close"} \cup LexErrors
    /\ ~InClass(e, i) => e[i].k # "char_range"
    /\ e[i].k = "literal" =>
         \/ e[i].at = 1
         \/ e[i].c \notin Special(InClass(e, i))
         \/ e[i].c = RANGE_SEP_SYM /\ i > 1 /\ e[i - 1].d = DEREF_SYM
    /\ e[i].k \in LexErrors => i = Len(e)

(* The text of a token that is no error *)
Escaped(c, escape) == IF escape THEN <<DEREF_SYM, c>> ELSE <<c>>
Decimal[n \in Nat] ==
  IF n < 10 THEN <<48 + n>> ELSE Append(Decimal[n \div 10], 48 + (n % 10))
Field(n) == IF n < 0 THEN <<>> ELSE Decimal[n]
Spelled(tok) ==
  CASE tok.k = "literal" -> Escaped(tok.c, tok.at = 1)
    [] tok.k = "char_range" ->
         Escaped(tok.c, tok.at = 1) \o <<RANGE_SEP_SYM>>
           \o Escaped(tok.d, tok.w - tok.at > 3)
    [] tok.k = "rep" ->
         <<REP_OPEN_SYM>> \o Field(tok.c)
           \o (IF tok.d = REP_NO_FIELD THEN <<>> ELSE <<COMMA>> \o Field(tok.d))
           \o <<REP_CLOSE_SYM>>
    [] tok.k = "charc_open" -> <<CHARC_OPEN_SYM>>
    [] tok.k = "charc_close" -> <<CHARC_CLOSE_SYM>>
    [] OTHER -> <<CHOOSE c \in DOMAIN Symbol : Symbol[c] = tok.k>>
Text(tokens) ==
  LET upTo[i \in 0..Len(tokens)] ==
        IF i = 0 THEN <<>> ELSE upTo[i - 1] \o Spelled(tokens[i])
  IN  upTo[Len(tokens)]
=============================================================================
