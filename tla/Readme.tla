------------------------------- MODULE Readme -------------------------------
(***************************************************************************)
(* What README.rst says of a search, where the code does otherwise.  The   *)
(* property is stated from its wording; the run that checks it finds the   *)
(* call that contradicts it.                                               *)
(***************************************************************************)
EXTENDS Api

(* "Searches the string starting at input for a pattern that matches [...] *)
(* until a match is found or until the string's null termination           *)
(* character is reached": a search says no only if nothing matches.        *)
SearchFindsMatch ==
  ret = 0 /\ mode.search =>
    \A s \in 0..Len(input) : \A e \in s..Len(input) : ~Accepts(s, e)
=============================================================================
