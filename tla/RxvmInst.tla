------------------------------ MODULE RxvmInst ------------------------------
(***************************************************************************)
(* The instructions of the regex virtual machine (rxvm_common.h), the      *)
(* character comparison of vm.h and the programs a virtual machine may be  *)
(* handed.  A character is a C `char` on a machine where it is signed, an  *)
(* integer in -128..127; 0 ends a string.                                  *)
(***************************************************************************)
EXTENDS Integers, Sequences

NL == 10
EndChar == 0
Char == (-128..127) \ {EndChar}

OpConsume == {"char", "any", "class", "nclass"}
OpAnchor  == {"sol", "eol"}
Op == OpConsume \cup OpAnchor \cup {"branch", "jmp", "match"}

(* struct inst; the string of a character class is the set of its characters *)
Inst == [op : Op, c : Char \cup {EndChar}, ccs : SUBSET Char, x : Int, y : Int]

Blank == [op |-> "match", c |-> 0, ccs |-> {}, x |-> 0, y |-> 0]

IChar(c)      == [Blank EXCEPT !.op = "char", !.c = c]
IAny          == [Blank EXCEPT !.op = "any"]
IClass(s)     == [Blank EXCEPT !.op = "class", !.ccs = s]
INclass(s)    == [Blank EXCEPT !.op = "nclass", !.ccs = s]
ISol          == [Blank EXCEPT !.op = "sol"]
IEol          == [Blank EXCEPT !.op = "eol"]
IBranch(x, y) == [Blank EXCEPT !.op = "branch", !.x = x, !.y = y]
IJmp(x)       == [Blank EXCEPT !.op = "jmp", !.x = x]
IMatch        == Blank

(* the program of a text: its characters, one after the other *)
Chain(s) == [i \in 0..Len(s) |-> IF i < Len(s) THEN IChar(s[i + 1]) ELSE IMatch]

(***************************************************************************)
(* A program is a function from instruction addresses.  In one that is     *)
(* well formed, control never leaves the table: a jump lands inside it and *)
(* only a match may be the last instruction.                               *)
(***************************************************************************)
WellFormed(p) ==
  \E n \in {i + 1 : i \in DOMAIN p} :
    /\ p \in [0..(n-1) -> Inst]
    /\ \A i \in 0..(n-1) :
         /\ p[i].op \in OpConsume \cup OpAnchor => i + 1 < n
         /\ p[i].op \in {"branch", "jmp"} => p[i].x \in 0..(n-1)
         /\ p[i].op = "branch" => p[i].y \in 0..(n-1)

(* A program loops only through the first address of a branch: rxvm_gen    *)
(* leaves a loop by the second.  No class is empty.                        *)
LoopsByBranch(p) ==
  \A i \in DOMAIN p :
    /\ p[i].op = "branch" => p[i].y > i
    /\ p[i].op = "jmp" => p[i].x > i
    /\ p[i].op \in {"class", "nclass"} => p[i].ccs # {}

(***************************************************************************)
(* The macros tolower and char_match.  udiff is an int, so the comparison  *)
(* in tolower is signed: every character up to 'Z' moves, letter or not.   *)
(***************************************************************************)
udiff == 25
tolower(x) == IF x - 65 <= udiff THEN x + 32 ELSE x
char_match(icase, a, b) == IF icase THEN tolower(a) = tolower(b) ELSE a = b

(* ccs_match: some character of the class compares equal *)
ccs_match(icase, ccs, c) == \E d \in ccs : char_match(icase, d, c)
=============================================================================
