------------------------------- MODULE VmScan -------------------------------
(***************************************************************************)
(* vm_execute keeps the promise of NfaScan, and what it reports is right   *)
(* for the automaton of the program.                                       *)
(***************************************************************************)
EXTENDS Vm

N == INSTANCE Nfa

(* characters the attempt has consumed: at skip_readchar the current       *)
(* character is read but not consumed                                      *)
Pos == IF pc = "read" THEN chars ELSE chars - 1

(* a half-run list stands for everything its threads will add *)
Threads == N!Closure({cp[i] : i \in 1..Len(cp)}, Pos)

Scan ==
  INSTANCE NfaScan WITH
    origin <- matchStart,
    pos <- Pos,
    threads <- Threads,
    best <- matchEnd - 1,
    done <- pc = "done"

(* The thread lists simulate the automaton: every step of the virtual      *)
(* machine is a step of the set of instructions, or changes nothing there. *)
ImplementsScan == Scan!Spec

(* Whether the program accepts exactly the characters from s up to e *)
Accepts(s, e) == N!Accepts(s, e)
Found == matchEnd # 0

(* What a call reports is accepted by the program, from the reported start *)
(* to the reported end.                                                    *)
ReportIsMatch ==
  pc = "done" /\ Found => Accepts(matchStart, matchEnd - 1)

(* A greedy report is the longest match from its start, a nongreedy one    *)
(* the shortest.                                                           *)
ReportIsExtreme ==
  pc = "done" /\ Found =>
    \A e \in matchStart..Len(input) :
      Accepts(matchStart, e) =>
        IF mode.nongreedy THEN matchEnd - 1 <= e ELSE e <= matchEnd - 1

(* An attempt is given up, by a restart or by returning without a match,   *)
(* only if no match starts where the attempt did.                          *)
AbandonsOnlyHopeless ==
  [][ \/ matchStart' # matchStart
      \/ pc' = "done" /\ matchEnd' = 0
      => \A e \in matchStart..Len(input) : ~Accepts(matchStart, e) ]_vars
=============================================================================
