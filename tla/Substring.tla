------------------------------ MODULE Substring ------------------------------
(***************************************************************************)
(* What a search for a fixed string promises, with no buffer and no skip   *)
(* table: places of the file are ruled out from the left until one is left *)
(* where the string occurs, or none.  Bmh implements this.                 *)
(***************************************************************************)
EXTENDS RxvmInst

VARIABLES
  input,    \* the file
  pattern,  \* the string
  icase,    \* is case ignored
  answer,   \* "open", "found" or "none"
  from,     \* while open: the first place not ruled out
  place     \* when found: where the string begins and what follows it

vars == <<input, pattern, icase, answer, from, place>>
callVars == <<input, icase>>

Nowhere == <<0, 0>>

Fits(fold, i) ==
  /\ i + Len(pattern) <= Len(input)
  /\ \A k \in 1..Len(pattern) : char_match(fold, input[i + k], pattern[k])

(* Places where the string may be reported, and where it may not be missed: *)
(* the second does not fold case, for the skip table does not.              *)
MayReport(i) == Fits(icase, i)
MustReport(i) == Fits(FALSE, i)

Init == answer = "none" /\ from = 0 /\ place = Nowhere

Begin ==
  /\ answer = "none" /\ answer' = "open"
  /\ from' \in 0..Len(input)
  /\ UNCHANGED <<callVars, place>>

RuleOut ==
  /\ answer = "open"
  /\ from' > from
  /\ \A i \in from..(from' - 1) : ~MustReport(i)
  /\ UNCHANGED <<callVars, pattern, answer, place>>

Report ==
  /\ answer = "open" /\ answer' = "found"
  /\ MayReport(from)
  /\ from' = 0
  /\ place' = <<from, from + Len(pattern)>>
  /\ UNCHANGED <<callVars, pattern>>

Exhaust ==
  /\ answer = "open" /\ answer' = "none"
  /\ \A i \in from..Len(input) : ~MustReport(i)
  /\ from' = 0
  /\ UNCHANGED <<callVars, pattern, place>>

(* the caller has taken the place that was found *)
Close ==
  /\ answer = "found" /\ answer' = "none"
  /\ place' = Nowhere
  /\ UNCHANGED <<callVars, pattern, from>>

Next == Begin \/ RuleOut \/ Report \/ Exhaust \/ Close

Spec == Init /\ [][Next]_vars
=============================================================================
