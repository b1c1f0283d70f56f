--------------------------------- MODULE Gen ---------------------------------
(***************************************************************************)
(* rxvm_gen (randinput.c): a random walk through a compiled program that   *)
(* writes a string on its way.  rand() is a free choice wherever every     *)
(* value of the range it is reduced to is possible.                        *)
(*                                                                         *)
(* As in Vm, a definition with a suffix is a plausible mistake in the      *)
(* definition below it that nothing else uses.                             *)
(***************************************************************************)
EXTENDS RxvmInst, StrBuf, FiniteSetsExt

CONSTANTS
  Calls,                          \* what is generated from, and how
  PRINTABLE_LOW, PRINTABLE_HIGH,  \* the visible characters
  WS_LOW, WS_HIGH                 \* the blank ones

DEREF_SYM == 92

(* the text of an expression of literals without its escapes *)
Escapes(s) ==  \* the offsets a backslash escapes the next character from
  LET at[i \in 0..Len(s)] ==
        IF i = 0 THEN {}
        ELSE IF s[i] = DEREF_SYM /\ (i - 1) \notin at[i - 1]
             THEN at[i - 1] \cup {i} ELSE at[i - 1]
  IN  at[Len(s)]
Unescaped(s) ==
  LET kept[i \in 0..Len(s)] ==
        IF i = 0 THEN <<>>
        ELSE IF i \in Escapes(s) THEN kept[i - 1] ELSE Append(kept[i - 1], s[i])
  IN  kept[Len(s)]

(* A program is one that rxvm_compile makes (CompiledWellFormed of         *)
(* Compiler).  simple is empty where it is a null pointer; otherwise prog, *)
(* which is then never read, stands for its literals.                      *)
ASSUME CallsAssumption ==
  \A c \in Calls :
    /\ WellFormed(c.prog) /\ LoopsByBranch(c.prog)
    /\ c.simple \in Seq(Char)
    /\ c.simple # <<>> => c.prog = Chain(Unescaped(c.simple))
    /\ c.generosity \in 0..255 /\ c.whitespace \in 0..255 /\ c.limit \in Nat
ASSUME RangesAssumption ==
  /\ {PRINTABLE_LOW, PRINTABLE_HIGH, WS_LOW, WS_HIGH} \subseteq Char
  /\ PRINTABLE_LOW..PRINTABLE_HIGH \subseteq Char \ {NL}
  /\ WS_LOW..WS_HIGH \subseteq Char
  /\ PRINTABLE_LOW <= PRINTABLE_HIGH /\ WS_LOW <= WS_HIGH

VARIABLES
  cfg, prog,   \* the call, its program
  ip,          \* the instruction the walk stands at
  len,         \* cfg->len, or Unset
  result       \* "none" before strb_init, "walk", "null" or "string"

vars == <<cfg, prog, buf, space, ip, len, result>>
callVars == <<cfg, prog>>
retVars == <<len, result>>

Unset == -1
PCs == DOMAIN prog
inst == prog[ip]

Init ==
  /\ cfg \in Calls /\ prog = cfg.prog
  /\ buf = <<>> /\ space = 0
  /\ ip = 0 /\ len = Unset /\ result = "none"

(* rand_range(0, 100) < prob, and not *)
May(prob) == prob > 0
MayNot(prob) == prob <= 100

-----------------------------------------------------------------------------
(* an expression of literals *)
GenSimple ==
  /\ result = "none" /\ cfg.simple # <<>>
  /\ \/ /\ buf' = Append(Unescaped(cfg.simple), EndChar)
        /\ space' = Len(cfg.simple) + 1
        /\ len' = Len(cfg.simple) + 1 - Cardinality(Escapes(cfg.simple))
        /\ result' = "string"
     \/ /\ result' = "null"
        /\ UNCHANGED <<strbVars, len>>
  /\ UNCHANGED <<callVars, ip>>

-----------------------------------------------------------------------------
(* the walk through the program *)

Begin ==
  /\ result = "none" /\ cfg.simple = <<>>
  /\ \/ strb_init /\ result' = "walk"
     \/ UNCHANGED strbVars /\ result' = "null"
  /\ UNCHANGED <<callVars, ip, len>>

At(ops) == result = "walk" /\ inst.op \in ops

(* a character is written, and the walk is one instruction further *)
Write(c) ==
  /\ Addc(c)
  /\ ip' = ip + 1
  /\ UNCHANGED <<callVars, retVars>>

Pass == ip' = ip + 1 /\ UNCHANGED <<callVars, strbVars, retVars>>

GenChar == At({"char"}) /\ Write(inst.c)

(* a blank character, but a space for a newline, or a visible one *)
GenAny ==
  /\ At({"any"})
  /\ \/ /\ May(cfg.whitespace)
        /\ \E c \in WS_LOW..WS_HIGH : Write(IF c = NL THEN 32 ELSE c)
     \/ /\ MayNot(cfg.whitespace)
        /\ \E c \in PRINTABLE_LOW..PRINTABLE_HIGH : Write(c)

GenSol_waits ==
  /\ At({"sol"})
  /\ buf # <<>> /\ buf[Len(buf)] # NL
  /\ Write(NL)
GenSol ==
  /\ At({"sol"})
  /\ IF buf # <<>> /\ buf[Len(buf)] # NL THEN Write(NL) ELSE Pass

(* a newline, unless the program goes on with one *)
GenEol ==
  /\ At({"eol"})
  /\ IF prog[ip + 1] # IChar(NL) THEN Write(NL) ELSE Pass

GenClass == At({"class"}) /\ \E c \in inst.ccs : Write(c)

(* the first character from a random one on that the class does not hold,  *)
(* around the end of the range once; 0 if the class holds them all         *)
find_nchar_noWrap(ccs, first) ==
  LET outside == {c \in first..PRINTABLE_HIGH : c \notin ccs}
  IN  IF outside = {} THEN PRINTABLE_LOW ELSE CHOOSE c \in outside : TRUE
find_nchar(ccs, first) ==
  LET outside(low) == {c \in low..PRINTABLE_HIGH : c \notin ccs}
  IN  IF outside(first) # {} THEN Min(outside(first))
      ELSE IF outside(PRINTABLE_LOW) # {} THEN Min(outside(PRINTABLE_LOW))
      ELSE EndChar

GenNclass ==
  /\ At({"nclass"})
  /\ \E c \in PRINTABLE_LOW..PRINTABLE_HIGH : Write(find_nchar(inst.ccs, c))

Targets_noLimit ==
  (IF May(cfg.generosity) THEN {inst.x} ELSE {})
    \cup (IF MayNot(cfg.generosity) THEN {inst.y} ELSE {})
Targets ==
  LET val == IF Len(buf) >= cfg.limit THEN 0 ELSE cfg.generosity
  IN  (IF May(val) THEN {inst.x} ELSE {}) \cup (IF MayNot(val) THEN {inst.y} ELSE {})

GenBranch ==
  /\ At({"branch"})
  /\ ip' \in Targets
  /\ UNCHANGED <<callVars, strbVars, retVars>>

GenJmp_relative ==
  /\ At({"jmp"})
  /\ ip' = ip + inst.x
  /\ UNCHANGED <<callVars, strbVars, retVars>>

GenJmp ==
  /\ At({"jmp"})
  /\ ip' = inst.x
  /\ UNCHANGED <<callVars, strbVars, retVars>>

GenFinish ==
  /\ At({"match"})
  /\ Addc(EndChar)
  /\ len' = Len(buf')
  /\ result' = "string"
  /\ UNCHANGED <<callVars, ip>>

(* the string cannot grow for want of memory *)
Adds == \/ At({"char", "any", "class", "nclass", "match"})
        \/ At({"sol"}) /\ buf # <<>> /\ buf[Len(buf)] # NL
        \/ At({"eol"}) /\ prog[ip + 1] # IChar(NL)
GenNoMemory ==
  /\ Adds /\ AddcFails
  /\ result' = "null"
  /\ UNCHANGED <<callVars, ip, len>>

Returned == result \in {"null", "string"} /\ UNCHANGED vars

Next ==
  \/ GenSimple \/ Begin \/ GenChar \/ GenAny \/ GenSol \/ GenEol
  \/ GenClass \/ GenNclass \/ GenBranch \/ GenJmp \/ GenFinish
  \/ GenNoMemory \/ Returned

(* A choice is random: a branch that is met again and again, and whose     *)
(* choice may go either way, is not for ever decided the same way.         *)
Leave(i) == ip = i /\ GenBranch /\ ip' = prog[i].y
Addresses == UNION {DOMAIN c.prog : c \in Calls}
Spec ==
  /\ Init /\ [][Next]_vars
  /\ WF_vars(Next)
  /\ \A i \in Addresses : SF_vars(Leave(i))

-----------------------------------------------------------------------------
(* Every variable holds a value of its type. *)
TypeOK ==
  /\ cfg \in Calls /\ ip \in PCs
  /\ buf \in Seq(Char \cup {EndChar}) /\ space \in Nat
  /\ len \in {Unset} \cup Nat
  /\ result \in {"none", "walk", "null", "string"}

(* The string builder writes nothing past its allocation, whatever the     *)
(* program writes and however the terminator falls on a block.             *)
StrbWithinSpace == WithinSpace

(* "when the generated string reaches a size of limit, then generosity is  *)
(* effectively set to 0" (README.rst): each instruction adds at most one   *)
(* character after that, for the walk is past every loop.                  *)
SizeBounded ==
  result = "walk" => Len(buf) <= cfg.limit + ip

(* A C string ends at its first null character. *)
CString(b) ==
  LET ends == {i \in DOMAIN b : b[i] = EndChar}
  IN  SubSeq(b, 1, (CHOOSE i \in ends : \A j \in ends : i <= j) - 1)
string == CString(buf)
Matcher(p, w) ==
  INSTANCE Nfa WITH prog <- p, input <- w,
                    mode <- [multiline |-> TRUE, icase |-> FALSE]
Matches == Matcher(prog, string)!Accepts(0, Len(string))

(* A program whose anchors need no character of their own: an eol has a    *)
(* newline behind it, and each way to a sol comes from the start or from a *)
(* newline and writes nothing since.  T holds the places on these ways.    *)
Onward(p, i) ==
  CASE p[i].op = "branch" -> {p[i].x, p[i].y}
    [] p[i].op = "jmp" -> {p[i].x}
    [] OTHER -> {i + 1}
LineStarts(p, T) ==
  \A i \in DOMAIN p : Onward(p, i) \cap T # {} =>
    p[i] = IChar(NL) \/ (i \in T /\ p[i].op \notin OpConsume)
AnchorsHeld(p) ==
  /\ \A i \in DOMAIN p : p[i].op = "eol" => p[i + 1] = IChar(NL)
  /\ \E T \in SUBSET DOMAIN p :
       LineStarts(p, T) /\ \A i \in DOMAIN p : p[i].op = "sol" => i \in T
(* ... and that can write what it asks for *)
CharsHeld(p) ==
  \A i \in DOMAIN p :
    /\ p[i].op = "char" => p[i].c # EndChar
    /\ p[i].op = "nclass" => ~(PRINTABLE_LOW..PRINTABLE_HIGH \subseteq p[i].ccs)

(* A string that is returned for such a program is one the program accepts *)
(* as a whole with RXVM_MULTILINE, whatever the walk chose and however     *)
(* often it went around its loops.                                         *)
GeneratedMatches ==
  result = "string" /\ AnchorsHeld(prog) /\ CharsHeld(prog) => Matches

(* Every call returns: no expression keeps the walk in its loops. *)
GenReturns == <>(result \in {"null", "string"})

(* What README.rst says of a string that is returned: it "matches the      *)
(* compiled expression", and "len will contain the number of characters in *)
(* the generated string (excluding the terminating null-character)".  The  *)
(* string of a$ fails both.                                               *)
LenExcludesNull == len = Len(string)
GeneratedAsDocumented == result = "string" => Matches /\ LenExcludesNull
=============================================================================
