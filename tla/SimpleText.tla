----------------------------- MODULE SimpleText -----------------------------
(***************************************************************************)
(* The text of an expression without operators, which rxvm_compile copies  *)
(* into `simple` with its escapes, and the program it stands for.          *)
(***************************************************************************)
EXTENDS RxvmInst

Esc == 92

(* The characters a text stands for: an escape character stands for none,  *)
(* the one after it for itself.  Reading gives, for each beginning of the  *)
(* text, its characters and whether it ends in the middle of an escape.    *)
NothingRead == [esc |-> FALSE, lits |-> <<>>]

Passed(acc, c) ==
  IF c = Esc /\ ~acc.esc
  THEN [esc |-> TRUE, lits |-> acc.lits]
  ELSE [esc |-> FALSE, lits |-> Append(acc.lits, c)]

Reading(text) ==
  LET acc[n \in 0..Len(text)] ==
        IF n = 0 THEN NothingRead ELSE Passed(acc[n - 1], text[n])
  IN  acc

Literals(text) == Reading(text)[Len(text)].lits

(* the lexer refuses an expression that ends in the middle of an escape *)
WholeText(text) == text \in Seq(Char) /\ ~Reading(text)[Len(text)].esc

(* The program a text stands for; only the properties look at it. *)
Program(text) == Chain(Literals(text))
=============================================================================
