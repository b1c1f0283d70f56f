------------------------------ MODULE Compiler ------------------------------
(***************************************************************************)
(* rxvm_compile: stage1 (stage1.c) reads an expression token by token and  *)
(* builds instructions on a set of stacks (vmcode.c), stage2 (stage2.c)    *)
(* makes the program of them.  One action per kind of token in each of the *)
(* two states of stage1, one for the end of the expression.                *)
(*                                                                         *)
(* A stack of instructions is kept in program order: the head of the C     *)
(* list is the last element, the tail the first.  Addresses in it are      *)
(* relative until stage2.  Memory is always found.                         *)
(*                                                                         *)
(* As in Vm, a definition with a suffix is a plausible mistake in the      *)
(* definition below it that nothing else uses.                             *)
(***************************************************************************)
EXTENDS FiniteSets, Lex, Lfix

CONSTANT
  Expressions   \* Expressions[i] is the set of the expressions, as token
                \* sequences of Lex, that the i-th call of rxvm_compile may be given
MaxCalls == Len(Expressions)

(* What lex makes of a text: a literal is a character, no class runs over  *)
(* the null character from a negative one to a positive one, a repetition  *)
(* has a number, and where the character of a token is in its text.        *)
RepBounds(c, d) ==
  /\ c \in Nat \cup {REP_FIELD_EMPTY}
  /\ d \in Nat \cup {REP_FIELD_EMPTY, REP_NO_FIELD}
  /\ c \in Nat \/ d \in Nat
Token == [k : Kinds, c : Int, d : Int, w : Nat, at : Nat]
LexToken ==
  {tk \in Token :
     /\ tk.k = "literal" => tk.c \in Char
     /\ tk.k = "char_range" => (tk.c..tk.d) \cup (tk.d..tk.c) \subseteq Char
     /\ tk.k = "rep" => RepBounds(tk.c, tk.d)
     /\ tk.at < tk.w}
ASSUME ExpressionsAssumption ==
  /\ Expressions \in Seq(SUBSET Seq(LexToken))
  /\ MaxCalls > 0

ISOP == {"one", "zero", "onezero", "alt", "rep"}

VARIABLES
  source,       \* the expression
  rest,         \* the tokens of it not read yet
  cx,           \* context_t of stage1
  state,        \* "backlog", "start", "charc", "stage2" or "returned"
  outcome,      \* what rxvm_compile returned: "ok", "simple", an error
  exe,          \* the program made, if one is
  newline_seen, alt_seen, is_nchar, lfix,    \* static variables
  span,         \* lfix0 and lfixn of the compiled expression
  calls         \* number of calls begun

vars == <<source, rest, cx, state, outcome, exe, newline_seen, alt_seen,
          is_nchar, lfix, span, calls>>
callVars == <<source, calls>>
resultVars == <<outcome, exe, span>>

-----------------------------------------------------------------------------
(* Stacks and the context.  Stack 0 is prog; stack i of parens is 1 for    *)
(* the base and Len(parens) for the innermost group.  `operand` points at  *)
(* an element of a stack.                                                  *)

create_stack == [code |-> <<>>, dangling_alt |-> 0, dsize |-> 0]

context_init ==
  [prog |-> create_stack, parens |-> <<create_stack>>, target |-> 0, buf |-> 1,
   operand |-> [stack |-> 0, at |-> 0], strb |-> {}, at |-> 0,
   lasttok |-> "none", depth |-> 0, chained |-> 0]

Stack(c, i) == IF i = 0 THEN c.prog ELSE c.parens[i]
Put(c, i, s) ==
  IF i = 0 THEN [c EXCEPT !.prog = s] ELSE [c EXCEPT !.parens[i] = s]
Code(c, i) == Stack(c, i).code
AddHead(c, i, code) ==
  Put(c, i, [Stack(c, i) EXCEPT !.code = @ \o code])
stack_cat(c, i, j) == AddHead(c, i, Code(c, j))
stack_reset(c, i) == Put(c, i, [Stack(c, i) EXCEPT !.code = <<>>])

Groups(c) == Len(c.parens)
PopGroup_keepBuf(c) == [c EXCEPT !.parens = SubSeq(@, 1, Len(@) - 1)]
PopGroup(c) == [c EXCEPT !.parens = SubSeq(@, 1, Len(@) - 1), !.buf = 1]

(* add an instruction that the next operator may be applied to *)
AddOperand(c, i, inst) ==
  [AddHead(c, i, <<inst>>) EXCEPT
     !.operand = [stack |-> i, at |-> Len(Code(c, i)) + 1]]

(* set the jump that ends the last alternative but one *)
attach_dangling_alt(c) ==
  LET s == Stack(c, c.target)
  IN  IF s.dangling_alt = 0 THEN c
      ELSE Put(c, c.target,
               [s EXCEPT !.code[s.dangling_alt].x = Len(s.code) - s.dsize + 1,
                         !.dangling_alt = 0])

-----------------------------------------------------------------------------
(* Code for an operator applied to `code` (vmcode.c) *)

Copies(code, n) ==
  [i \in 1..(n * Len(code)) |-> code[((i - 1) % Len(code)) + 1]]

(* n copies, each behind a branch past all that follow it *)
Optional_oneFurther(code, n) ==
  LET unit == Len(code) + 1
  IN  [i \in 1..(n * unit) |->
         LET j == (i - 1) \div unit
             k == (i - 1) % unit
         IN  IF k = 0 THEN IBranch(1, unit * (n - j) + 1) ELSE code[k]]

Optional(code, n) ==
  LET unit == Len(code) + 1
  IN  [i \in 1..(n * unit) |->
         LET j == (i - 1) \div unit
             k == (i - 1) % unit
         IN  IF k = 0 THEN IBranch(1, unit * (n - j)) ELSE code[k]]

code_one(code) == code \o <<IBranch(-Len(code), 1)>>
code_zero(code) ==
  <<IBranch(1, Len(code) + 2)>> \o code \o <<IBranch(-Len(code), 1)>>
code_onezero(code) == <<IBranch(1, Len(code) + 1)>> \o code
code_rep_n(code, n) == Copies(code, n)
code_rep_less(code, m) == Optional(code, m)
code_rep_more(code, n) == Copies(code, n) \o <<IBranch(-Len(code), 1)>>
code_rep_range_asGiven(code, n, m) ==
  Copies(code, n) \o (IF n < m THEN Optional(code, m - n) ELSE <<>>)
code_rep_range(code, n, m) ==
  LET lo == IF n < m THEN n ELSE m
      hi == IF n < m THEN m ELSE n
  IN  IF n = m THEN code_rep_n(code, n)
      ELSE Copies(code, lo) \o Optional(code, hi - lo)

(* a repetition of at most or exactly 0 is refused *)
BadRep(tok) ==
  \/ tok.d = 0 /\ tok.c \in {0, REP_FIELD_EMPTY}
  \/ tok.c = 0 /\ tok.d = REP_NO_FIELD

OpCode(tok, code) ==
  CASE tok.k = "one" -> code_one(code)
    [] tok.k = "zero" -> code_zero(code)
    [] tok.k = "onezero" -> code_onezero(code)
    [] tok.k = "rep" ->
         CASE tok.c >= 0 /\ tok.d >= 0 -> code_rep_range(code, tok.c, tok.d)
           [] tok.c > 0 /\ tok.d = REP_FIELD_EMPTY -> code_rep_more(code, tok.c)
           [] tok.c = REP_FIELD_EMPTY -> code_rep_less(code, tok.d)
           [] tok.d = REP_NO_FIELD -> code_rep_n(code, tok.c)
           [] OTHER -> code_zero(code)

(* the operators that may drop the last literal of a run: not {0,m} *)
Optionally(tok) ==
  \/ tok.k \in {"zero", "onezero"}
  \/ tok.k = "rep" /\ tok.c = REP_FIELD_EMPTY
  \/ tok.k = "rep" /\ tok.c = 0 /\ tok.d = REP_FIELD_EMPTY

(* code_alt: all of the target becomes the first alternative of a branch *)
code_alt(c) ==
  LET chains == [c EXCEPT !.chained =
                   IF Stack(c, c.target).dsize # 0 THEN 1 ELSE @]
      attached == attach_dangling_alt(chains)
      s == Stack(attached, c.target)
      code == <<IBranch(1, Len(s.code) + 2)>> \o s.code \o <<IJmp(0)>>
  IN  Put(attached, c.target,
          [code |-> code, dangling_alt |-> Len(code), dsize |-> Len(code)])

-----------------------------------------------------------------------------
(* A call begins *)

InitCall ==
  /\ rest = source
  /\ cx = context_init
  /\ state = "backlog"
  /\ outcome = "none" /\ exe = <<>> /\ span = <<0, 0>>
  /\ newline_seen = FALSE /\ alt_seen = FALSE
  /\ is_nchar = FALSE /\ lfix = lfix_static
  /\ calls = 1

Init == source \in Expressions[1] /\ InitCall

NextCall ==
  /\ state = "returned"
  /\ calls < MaxCalls
  /\ source' \in Expressions[calls + 1] /\ rest' = source'
  /\ cx' = context_init
  /\ state' = "backlog"
  /\ outcome' = "none" /\ exe' = <<>> /\ span' = <<0, 0>>
  /\ newline_seen' = FALSE /\ alt_seen' = FALSE
  /\ calls' = calls + 1
  /\ UNCHANGED <<is_nchar, lfix>>

(* The n literals the expression begins with are read before anything is   *)
(* built.  Newlines are at these offsets.                                  *)
Lead(n) ==
  /\ state = "backlog"
  /\ \A i \in 1..n : source[i].k = "literal"
  /\ n < Len(source) => source[n + 1].k # "literal"
Offset(e, n) ==
  LET upTo[i \in 0..n] == IF i = 0 THEN 0 ELSE upTo[i - 1] + e[i].w
  IN  upTo[n]
Newlines(n) == {i \in 0..(n - 1) : source[i + 1].c = NL}
First(S) == CHOOSE i \in S : \A j \in S : i <= j

(* nothing but literals: the text itself is what is matched; where the     *)
(* first newline is, check_simple_for_lfix counts out every backslash      *)
SimpleExpression ==
  LET n == Len(source)
      fixed == IF Newlines(n) = {} THEN n ELSE First(Newlines(n))
      backslashes == {i \in 1..fixed : source[i].c = DEREF_SYM}
  IN  /\ Lead(n)
      /\ lfix' = lfix_zero(lfix)
      /\ newline_seen' = (Newlines(n) # {})
      /\ span' = <<0, unsigned(fixed - 1 - Cardinality(backslashes))>>
      /\ outcome' = "simple"
      /\ state' = "returned"
      /\ UNCHANGED <<callVars, rest, cx, exe, alt_seen, is_nchar>>

(* compile_simple_backlog; a newline at offset 1 is not noticed *)
Backlog ==
  \E n \in 0..(Len(source) - 1) :
    LET seen == Newlines(n) \ {1}
        lits == [i \in 1..n |-> IChar(source[i].c)]
    IN  /\ Lead(n)
        /\ rest' = SubSeq(source, n + 1, Len(source))
        /\ cx' = [AddHead(cx, 1, lits) EXCEPT
                    !.operand = [stack |-> 1, at |-> n], !.at = Offset(source, n)]
        /\ lfix' = IF n = 0 THEN lfix_zero(lfix)
                   ELSE set_ltempn(lfix_zero(lfix),
                                   (IF seen = {} THEN n ELSE First(seen)) - 1)
        /\ newline_seen' = (Newlines(n) # {})
        /\ state' = "start"
        /\ UNCHANGED <<callVars, resultVars, alt_seen, is_nchar>>

-----------------------------------------------------------------------------
(* Outside a character class *)

tok == Head(rest)
Reads(s, kinds) == state = s /\ rest # <<>> /\ tok.k \in kinds

Took(c) ==
  /\ rest' = Tail(rest)
  /\ cx' = [c EXCEPT !.lasttok = tok.k, !.at = @ + tok.w]

Fail(err) ==
  /\ outcome' = err
  /\ state' = "returned"
  /\ UNCHANGED <<callVars, rest, cx, exe, span, is_nchar>>

(* the group just closed, if no operator follows it, joins the target *)
Flushed_keepGroup(c) ==
  IF c.lasttok = "rparen" /\ Code(c, c.buf) # <<>>
  THEN [stack_cat(c, c.target, c.buf) EXCEPT !.buf = 1]
  ELSE c

Flushed(c) ==
  IF c.lasttok = "rparen" /\ Code(c, c.buf) # <<>>
  THEN PopGroup(stack_cat(c, c.target, c.buf))
  ELSE c

Literal ==
  LET c == Flushed(cx)
  IN  /\ Reads("start", {"literal"})
      /\ Took(AddOperand(c, c.buf, IChar(tok.c)))
      /\ newline_seen' = (newline_seen \/ tok.c = NL)
      /\ lfix' = IF ~newline_seen' /\ cx.depth = 0
                 THEN lfix_continue(lfix, cx.at + tok.at) ELSE lfix
      /\ UNCHANGED <<callVars, resultVars, state, alt_seen, is_nchar>>

Single(kind, inst) ==
  LET c == Flushed(cx)
  IN  /\ Reads("start", {kind})
      /\ Took(AddOperand(c, c.buf, inst))
      /\ lfix' = lfix_stop(lfix)
      /\ UNCHANGED <<callVars, resultVars, state, newline_seen, alt_seen, is_nchar>>

AnyChar == Single("any", IAny)
StartAnchor == Single("sol", ISol)
EndAnchor == Single("eol", IEol)

OpenClass ==
  /\ Reads("start", {"charc_open"})
  /\ Took([Flushed(cx) EXCEPT !.strb = {}])
  /\ state' = "charc"
  /\ lfix' = lfix_stop(lfix)
  /\ UNCHANGED <<callVars, resultVars, newline_seen, alt_seen, is_nchar>>

StrayClassClose ==
  /\ Reads("start", {"charc_close"})
  /\ Fail("BADCLASS")
  /\ lfix' = lfix_stop(lfix)
  /\ UNCHANGED <<newline_seen, alt_seen>>

(* what is in the base goes before the group *)
OpenGroup ==
  LET c == Flushed(cx)
      d == stack_reset(stack_cat(c, c.target, 1), 1)
  IN  /\ Reads("start", {"lparen"})
      /\ Took([d EXCEPT !.parens = Append(@, create_stack),
                        !.target = Groups(d) + 1,
                        !.depth = unsigned(@ + 1)])
      /\ lfix' = lfix_stop(lfix)
      /\ UNCHANGED <<callVars, resultVars, state, newline_seen, alt_seen, is_nchar>>

CloseGroup ==
  LET c == Flushed(cx)
      d == stack_reset(attach_dangling_alt(stack_cat(c, c.target, 1)), 1)
      g == Groups(d)
  IN  /\ Reads("start", {"rparen"})
      /\ Groups(c) > 1
      /\ Took([d EXCEPT !.operand = [stack |-> g, at |-> 1],
                        !.buf = g,
                        !.target = IF g = 2 THEN 0 ELSE g - 1,
                        !.depth = unsigned(@ - 1)])
      /\ lfix' = lfix_stop(lfix)
      /\ UNCHANGED <<callVars, resultVars, state, newline_seen, alt_seen, is_nchar>>

StrayGroupClose ==
  /\ Reads("start", {"rparen"})
  /\ Groups(Flushed(cx)) = 1
  /\ Fail("BADPAREN")
  /\ lfix' = lfix_stop(lfix)
  /\ UNCHANGED <<newline_seen, alt_seen>>

-----------------------------------------------------------------------------
(* process_op *)

Buffered == Code(cx, cx.buf)
OperandHeld ==
  cx.operand.stack = cx.buf /\ cx.operand.at \in 1..Len(Buffered)
Prefix == SubSeq(Buffered, 1, cx.operand.at - 1)
Operand == SubSeq(Buffered, cx.operand.at, Len(Buffered))

(* the buffer is emptied, and dropped if it was a group *)
Consumed(c) ==
  LET d == stack_reset(c, c.buf)
  IN  IF c.lasttok = "rparen" THEN PopGroup(d) ELSE [d EXCEPT !.buf = 1]

Operator ==
  /\ Reads("start", ISOP \ {"alt"})
  /\ Buffered # <<>> /\ OperandHeld
  /\ ~(tok.k = "rep" /\ BadRep(tok))
  /\ Took(Consumed(AddHead(cx, cx.target, Prefix \o OpCode(tok, Operand))))
  /\ lfix' = lfix_stop(IF Optionally(tok) THEN lfix_dec(lfix) ELSE lfix)
  /\ UNCHANGED <<callVars, resultVars, state, newline_seen, alt_seen, is_nchar>>

Alternation ==
  /\ Reads("start", {"alt"})
  /\ Buffered = <<>> \/ OperandHeld
  /\ Took(Consumed(code_alt(AddHead(cx, cx.target, Buffered))))
  /\ alt_seen' = (alt_seen \/ cx.depth = 0)
  /\ lfix' = lfix_stop(lfix)
  /\ UNCHANGED <<callVars, resultVars, state, newline_seen, is_nchar>>

(* an operator with nothing to apply it to, or repeated 0 times *)
BadOperator ==
  /\ Reads("start", ISOP)
  /\ \/ Buffered = <<>> /\ tok.k # "alt"
     \/ /\ Buffered # <<>> /\ OperandHeld
        /\ tok.k = "rep" /\ BadRep(tok)
        /\ Prefix = <<>>
  /\ Fail("BADOP")
  /\ UNCHANGED <<newline_seen, alt_seen, lfix>>

(* The walk over the buffer for the operand runs off its end, or the error *)
(* of a bad repetition leaves instructions in the buffer and the target    *)
(* and stage1_err_cleanup frees them twice: from here C promises nothing.  *)
UndefinedOperator ==
  /\ Reads("start", ISOP)
  /\ Buffered # <<>>
  /\ \/ ~OperandHeld
     \/ tok.k = "rep" /\ BadRep(tok) /\ Prefix # <<>>
  /\ Fail("undefined")
  /\ UNCHANGED <<newline_seen, alt_seen, lfix>>

-----------------------------------------------------------------------------
(* Inside a character class (stage1_charc_state) *)

(* a caret negates the class, wherever in it it stands *)
ClassLiteral ==
  /\ Reads("charc", {"literal"})
  /\ \/ /\ tok.c = SOL_SYM /\ ~is_nchar
        /\ is_nchar' = TRUE
        /\ Took(cx)
     \/ /\ tok.c # SOL_SYM \/ is_nchar
        /\ is_nchar' = is_nchar
        /\ Took([cx EXCEPT !.strb = @ \cup {tok.c}])
  /\ newline_seen' = (newline_seen \/ tok.c = NL)
  /\ UNCHANGED <<callVars, resultVars, state, alt_seen, lfix>>

(* expand_char_range takes the bounds in either order *)
ClassRange_unread ==
  /\ Reads("charc", {"char_range"})
  /\ cx' = [cx EXCEPT !.strb = @ \cup (tok.c..tok.d) \cup (tok.d..tok.c)]
  /\ newline_seen' = (newline_seen \/ tok.c = NL)
  /\ UNCHANGED <<callVars, resultVars, rest, state, alt_seen, is_nchar, lfix>>

ClassRange ==
  /\ Reads("charc", {"char_range"})
  /\ Took([cx EXCEPT !.strb = @ \cup (tok.c..tok.d) \cup (tok.d..tok.c)])
  /\ newline_seen' = (newline_seen \/ tok.c = NL)
  /\ UNCHANGED <<callVars, resultVars, state, alt_seen, is_nchar, lfix>>

(* code_ccs: a class without characters makes no instruction *)
CloseClass ==
  /\ Reads("charc", {"charc_close"})
  /\ Took(IF cx.strb = {} THEN cx
          ELSE AddOperand(cx, 1, IF is_nchar THEN INclass(cx.strb)
                                 ELSE IClass(cx.strb)))
  /\ is_nchar' = FALSE
  /\ state' = "start"
  /\ UNCHANGED <<callVars, resultVars, newline_seen, alt_seen, lfix>>

LexicalError ==
  /\ state \in {"start", "charc"}
  /\ rest # <<>> /\ tok.k \in LexErrors
  /\ Fail(tok.k)
  /\ UNCHANGED <<newline_seen, alt_seen, lfix>>

-----------------------------------------------------------------------------
(* The end of the expression *)

Ended ==
  IF cx.lasttok = "rparen" /\ Buffered # <<>>
  THEN PopGroup(stack_cat(cx, 0, cx.buf))
  ELSE cx

OpenAtEnd ==
  /\ state \in {"start", "charc"}
  /\ rest = <<>>
  /\ state = "charc" \/ Groups(Ended) # 1
  /\ Fail(IF state = "charc" THEN "ECLASS" ELSE "EPAREN")
  /\ UNCHANGED <<newline_seen, alt_seen, lfix>>

End ==
  /\ state = "start"
  /\ rest = <<>>
  /\ Groups(Ended) = 1
  /\ cx' = AddHead(attach_dangling_alt(stack_cat(Ended, 0, 1)), 0, <<IMatch>>)
  /\ lfix' = lfix_stop(lfix)
  /\ span' = IF alt_seen THEN <<0, 0>> ELSE <<lfix'.lfix0, lfix'.lfixn>>
  /\ state' = "stage2"
  /\ UNCHANGED <<callVars, rest, outcome, exe, newline_seen, alt_seen, is_nchar>>

(* stage2: addresses become absolute *)
Relocated(code) ==
  [i \in 0..(Len(code) - 1) |->
     LET inst == code[i + 1]
     IN  CASE inst.op = "branch" -> [inst EXCEPT !.x = @ + i, !.y = @ + i]
           [] inst.op = "jmp" -> [inst EXCEPT !.x = @ + i]
           [] OTHER -> inst]

(* optimise_chains: a jump to a jump goes where the last one of the chain  *)
(* goes; every jump is forward                                             *)
ChainEnd(p) ==
  LET goes[i \in DOMAIN p] ==
        IF p[i].op = "jmp" /\ p[i].x > i THEN goes[p[i].x] ELSE i
  IN  goes
optimise_chains_once(p) ==
  [i \in DOMAIN p |->
     IF p[i].op = "jmp" /\ p[p[i].x].op = "jmp"
     THEN [p[i] EXCEPT !.x = p[p[i].x].x] ELSE p[i]]
optimise_chains(p) ==
  [i \in DOMAIN p |->
     IF p[i].op = "jmp" THEN [p[i] EXCEPT !.x = ChainEnd(p)[i]] ELSE p[i]]

Stage2 ==
  LET p == Relocated(cx.prog.code)
  IN  /\ state = "stage2"
      /\ exe' = IF cx.chained = 1 THEN optimise_chains(p) ELSE p
      /\ outcome' = "ok"
      /\ state' = "returned"
      /\ UNCHANGED <<callVars, rest, cx, newline_seen, alt_seen, is_nchar,
                     lfix, span>>

Idle ==
  /\ state = "returned"
  /\ calls = MaxCalls
  /\ UNCHANGED vars

Next ==
  \/ SimpleExpression \/ Backlog
  \/ Literal \/ AnyChar \/ StartAnchor \/ EndAnchor
  \/ OpenClass \/ StrayClassClose \/ OpenGroup \/ CloseGroup \/ StrayGroupClose
  \/ Operator \/ Alternation \/ BadOperator \/ UndefinedOperator
  \/ ClassLiteral \/ ClassRange \/ CloseClass
  \/ LexicalError \/ OpenAtEnd \/ End \/ Stage2
  \/ NextCall \/ Idle

(* a compilation is not left unfinished *)
Spec == Init /\ [][Next]_vars /\ WF_vars(Next)

-----------------------------------------------------------------------------
(* Every variable holds a value of its type: buf and target are stacks     *)
(* that exist, the operand is in or just above one that exists or did.     *)
TypeOK ==
  /\ calls \in 1..MaxCalls
  /\ source \in Expressions[calls]
  /\ state \in {"backlog", "start", "charc", "stage2", "returned"}
  /\ cx.target \in 0..Groups(cx) /\ cx.target # 1
  /\ cx.buf \in 1..Groups(cx)
  /\ \A i \in 0..Groups(cx) :
       LET s == Stack(cx, i)
       IN  /\ \A j \in 1..Len(s.code) : s.code[j] \in Inst
           /\ s.dangling_alt \in 0..Len(s.code)
           /\ s.dangling_alt # 0 => s.code[s.dangling_alt].op = "jmp"
  /\ lfix \in LfixType
  /\ is_nchar \in BOOLEAN

(* Whatever the tokens, the program of a compilation that succeeds is one  *)
(* vm_execute and rxvm_gen may be given: control never leaves it, and only *)
(* the first address of a branch leads back.                               *)
CompiledWellFormed == outcome = "ok" => WellFormed(exe) /\ LoopsByBranch(exe)

(* A jump of a program that stage2 optimised never lands on a jump.        *)
ChainsShort ==
  outcome = "ok" /\ cx.chained = 1 =>
    \A i \in DOMAIN exe : exe[i].op = "jmp" => exe[exe[i].x].op # "jmp"

(* The verdict on parentheses: an expression whose groups all hold         *)
(* something compiles only if they are balanced, is refused as             *)
(* unterminated only if one is open and for a stray one only if it is.     *)
Read == SubSeq(source, 1, Len(source) - Len(rest))
CountOf(tokens, kind) ==
  Cardinality({i \in DOMAIN tokens : tokens[i].k = kind})
HasEmptyGroup ==
  \E i, j \in DOMAIN source :
    /\ i < j /\ source[i].k = "lparen" /\ source[j].k = "rparen"
    /\ \A m \in (i + 1)..(j - 1) :
         source[m].k \in {"charc_open", "charc_close"} \/ source[m].c = SOL_SYM
ParenVerdict ==
  state = "returned" /\ ~HasEmptyGroup =>
    LET open == CountOf(Read, "lparen") - CountOf(Read, "rparen")
    IN  /\ outcome = "ok" => open = 0
        /\ outcome = "EPAREN" => open > 0
        /\ outcome = "BADPAREN" => open = 0 /\ tok.k = "rparen"

(* The fixed text a file search looks for is a run of literals that every  *)
(* match has to hold: outside of groups and classes, none of it made       *)
(* optional by an operator behind it, and no alternative to it.  Where     *)
(* lfix.c miscounts, at a newline in front and with {0,m}, is left out.    *)
Unclosed(n) ==
  CountOf(SubSeq(source, 1, n), "lparen") - CountOf(SubSeq(source, 1, n), "rparen")
MayVanish(t) ==
  \/ t.k \in {"zero", "onezero"}
  \/ t.k = "rep" /\ (t.c \in {0, REP_FIELD_EMPTY} \/ t.d = 0)
Countable ==
  /\ Offset(source, Len(source)) < UIntSize
  /\ \A m \in DOMAIN source :
       /\ m = 1 /\ source[m].k = "literal" => source[m].c # NL
       /\ source[m].k = "rep" =>
            ~(source[m].c = 0 /\ source[m].d > 0) /\ ~(source[m].c > 0 /\ source[m].d = 0)
FixedIsLiteral ==
  outcome = "ok" /\ span[1] # span[2] /\ Countable =>
    /\ \E i, j \in DOMAIN source :
         /\ span[1] \in {Offset(source, i - 1), Offset(source, i - 1) + source[i].at}
         /\ i < j /\ span[2] = span[1] + (j - i)
         /\ \A m \in i..j :
              source[m].k = "literal" /\ ~InClass(source, m) /\ Unclosed(m) = 0
         /\ j < Len(source) => ~MayVanish(source[j + 1])
    /\ \A m \in DOMAIN source : source[m].k = "alt" => Unclosed(m) # 0

(* Every compilation returns. *)
CompileReturns == <>[](state = "returned")

(* "negative number if an error occured" (README.rst), and not a crash *)
ReturnsDefined == outcome # "undefined"

(* "[^ ] matches a single character not inside the brackets" (README.rst): *)
(* a class without a caret is not negated.                                 *)
NegatedByCaret ==
  state = "charc" /\ is_nchar => \E i \in DOMAIN Read : Read[i].c = SOL_SYM
=============================================================================
