------------------------------ MODULE NfaScan ------------------------------
(***************************************************************************)
(* What vm_execute promises, with no thread lists: a scan of the input     *)
(* that carries the SET of instructions the program can stand at.  An      *)
(* attempt starts at an origin; it remembers the last position where the   *)
(* program could match, and is abandoned for a later origin when no        *)
(* instruction survives.  VmScan shows that Vm implements this.            *)
(***************************************************************************)
EXTENDS Nfa

VARIABLES
  origin,   \* number of characters before the current attempt
  pos,      \* number of characters consumed
  threads,  \* the instructions the program can stand at, at pos
  best,     \* the position the last match found ends at, or NoMatch
  done

vars == <<prog, input, mode, origin, pos, threads, best, done>>

NoMatch == -1

-----------------------------------------------------------------------------
Init ==
  /\ origin = 0
  /\ pos = 0
  /\ threads = Closure({0}, 0)
  /\ best = NoMatch
  /\ done = FALSE

CanMatch == threads \cap MatchAddrs # {}
Recorded == CanMatch => best = pos

(* the input is used up or no instruction survives the next character *)
Over == pos = Len(input) \/ Delta(threads, pos) = {}

(* the program can match here: a nongreedy call is content with that, a    *)
(* greedy one is when the match cannot grow                                *)
Accept ==
  /\ ~done
  /\ CanMatch
  /\ best' = pos
  /\ \/ done' = TRUE /\ (mode.nongreedy \/ Over)
     \/ done' = FALSE /\ ~mode.nongreedy
  /\ UNCHANGED <<prog, input, mode, origin, pos, threads>>

Advance ==
  /\ ~done
  /\ Recorded
  /\ pos < Len(input)
  /\ Delta(threads, pos) # {}
  /\ pos' = pos + 1
  /\ threads' = Closure(Delta(threads, pos), pos + 1)
  /\ UNCHANGED <<prog, input, mode, origin, best, done>>

(* the input is used up, or the attempt is dead and nothing is left to try *)
Finish ==
  /\ ~done
  /\ Recorded
  /\ \/ pos = Len(input)
     \/ /\ Delta(threads, pos) = {}
        /\ ~mode.search \/ best # NoMatch
  /\ done' = TRUE
  /\ UNCHANGED <<prog, input, mode, origin, pos, threads, best>>

(* A search whose attempt is dead starts again at the character that none  *)
(* survived, or at the next one if the attempt had only just begun.        *)
Retry ==
  /\ ~done
  /\ Recorded
  /\ pos < Len(input)
  /\ Delta(threads, pos) = {}
  /\ mode.search /\ best = NoMatch
  /\ origin' = IF pos = origin THEN pos + 1 ELSE pos
  /\ pos' = origin'
  /\ threads' = Closure({0}, origin')
  /\ UNCHANGED <<prog, input, mode, best, done>>

Next == Accept \/ Advance \/ Finish \/ Retry

Spec == Init /\ [][Next]_vars
=============================================================================
