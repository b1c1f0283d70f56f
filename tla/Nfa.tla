-------------------------------- MODULE Nfa --------------------------------
(***************************************************************************)
(* A compiled program read as a nondeterministic automaton over an input:  *)
(* branches, jumps and anchors are moves that read nothing, the other      *)
(* instructions take one character.  Position k is the place before the    *)
(* (k+1)-th character.                                                     *)
(***************************************************************************)
EXTENDS RxvmInst

VARIABLES
  prog,   \* the program
  input,  \* the input string
  mode    \* the flags of the call

PCs == DOMAIN prog
MatchAddrs == {p \in PCs : prog[p].op = "match"}

CharAt(k) == IF k < Len(input) THEN input[k + 1] ELSE EndChar

AtSol(k) == k = 0 \/ (mode.multiline /\ input[k] = NL)
AtEol(k) == CharAt(k) = EndChar \/ (mode.multiline /\ CharAt(k) = NL)

(* where a thread at instruction p moves at position k, reading nothing *)
Moves(p, k) ==
  CASE prog[p].op = "branch" -> {prog[p].x, prog[p].y}
    [] prog[p].op = "jmp" -> {prog[p].x}
    [] prog[p].op = "sol" -> IF AtSol(k) THEN {p + 1} ELSE {}
    [] prog[p].op = "eol" -> IF AtEol(k) THEN {p + 1} ELSE {}
    [] OTHER -> {}

(* does instruction p take character c *)
Takes(p, c) ==
  CASE prog[p].op = "char" -> char_match(mode.icase, c, prog[p].c)
    [] prog[p].op = "any" -> c # NL
    [] prog[p].op = "class" -> ccs_match(mode.icase, prog[p].ccs, c)
    [] prog[p].op = "nclass" -> ~ccs_match(mode.icase, prog[p].ccs, c)
    [] OTHER -> FALSE

ClosedAt(T, k) == \A p \in T : Moves(p, k) \subseteq T

(* every instruction reached from S at position k: the least closed set *)
ClosureAt(k) ==
  [S \in SUBSET PCs |->
     LET closed == {T \in SUBSET PCs : S \subseteq T /\ ClosedAt(T, k)}
     IN  {p \in PCs : \A T \in closed : p \in T}]

Closure(S, k) == ClosureAt(k)[S]

(* where the threads of S stand after reading the character at position k *)
Delta(S, k) == {p + 1 : p \in {q \in S : Takes(q, CharAt(k))}}

(* the instructions an attempt from position s can stand at, by position *)
Standing(s) ==
  LET at[e \in s..Len(input)] ==
        IF e = s THEN Closure({0}, e) ELSE Closure(Delta(at[e - 1], e - 1), e)
  IN  at

(* the program accepts the characters between positions s and e *)
Accepts(s, e) == Standing(s)[e] \cap MatchAddrs # {}
AcceptsNone(s) == \A e \in s..Len(input) : ~Accepts(s, e)

(* an attempt from s is still alive behind the character at position k *)
Survives(s, k) ==
  IF k < Len(input) THEN Delta(Standing(s)[k], k) # {} ELSE Standing(s)[k] # {}

(* An attempt from an earlier position is alive at o, though it matches    *)
(* nothing in the end: a search does not start at o then.                  *)
HiddenStart(o) == \E s \in 0..(o - 1) : AcceptsNone(s) /\ Survives(s, o)
=============================================================================
