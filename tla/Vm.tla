--------------------------------- MODULE Vm ---------------------------------
(***************************************************************************)
(* vm_execute (vm.c): the regex virtual machine, one action per case of    *)
(* its instruction switch and one per way it can leave the loop over the   *)
(* threads of an input character.  A call is the one rxvm_match or         *)
(* rxvm_search makes: it reads a string from its first character.          *)
(*                                                                         *)
(* The thread lists cp and np are sequences of instruction addresses, the  *)
(* lookup tables the sets of addresses whose entry is 1.  All four share   *)
(* one allocation sized for two lists of `size` threads (vm_init).         *)
(*                                                                         *)
(* A definition whose name has a suffix, as in Swap_staleTable, is a       *)
(* plausible mistake in the definition below it.  No other definition uses *)
(* it; it is kept to show which property notices that mistake.             *)
(***************************************************************************)
EXTENDS RxvmInst, FiniteSets

CONSTANTS
  Programs,  \* the compiled programs a call may be given
  Inputs     \* the input strings, without their terminating 0

ASSUME ProgramsAssumption == \A p \in Programs : WellFormed(p)
ASSUME InputsAssumption == Inputs \subseteq Seq(Char)

VARIABLES
  prog, input, mode,      \* the arguments of the call
  chars,                  \* number of input characters processed
  matchStart, matchEnd,   \* limits of the match, matchEnd = 0 for none
  cp, cpLookup,           \* threads for the current character
  np, npLookup,           \* threads for the next character
  C, lastinput,           \* current and previous character
  t,                      \* threads of cp already run
  pc                      \* "read": at getchar; "run": at skip_readchar

callVars == <<prog, input, mode>>
textVars == <<chars, C, lastinput>>
matchVars == <<matchStart, matchEnd>>
currVars == <<cp, cpLookup>>
nextVars == <<np, npLookup>>
vars == <<callVars, textVars, matchVars, currVars, nextVars, t, pc>>

(* the flags rxvm_match and rxvm_search set in threads_t *)
MatchModes ==
  [search : {FALSE}, icase : BOOLEAN, nongreedy : {FALSE}, multiline : {TRUE}]
SearchModes ==
  [search : {TRUE}, icase : BOOLEAN, nongreedy : BOOLEAN, multiline : BOOLEAN]
Modes == MatchModes \cup SearchModes

PCs == DOMAIN prog

-----------------------------------------------------------------------------
(* Helpers of vm.c *)

(* add_thread: a thread already in the lookup table is not listed again *)
Listed_always(list, lookup, val) == Append(list, val)
Listed(list, lookup, val) ==
  IF val \in lookup THEN list ELSE Append(list, val)

add_thread_curr(val) ==
  /\ cp' = Listed(cp, cpLookup, val)
  /\ cpLookup' = cpLookup \cup {val}

add_thread_next(val) ==
  /\ np' = Listed(np, npLookup, val)
  /\ npLookup' = npLookup \cup {val}

is_sol_anyline == chars = 1 \/ lastinput = NL
is_sol == chars = 1 \/ (mode.multiline /\ lastinput = NL)
is_eol == C = EndChar \/ (mode.multiline /\ C = NL)

(* getchar_str: the next character of the input, or its terminating 0 *)
getchar == IF chars < Len(input) THEN input[chars + 1] ELSE EndChar

-----------------------------------------------------------------------------
(* Entry: the tables are cleared and the first thread starts at 0 *)
Init ==
  /\ prog \in Programs
  /\ input \in Inputs
  /\ mode \in Modes
  /\ chars = 0 /\ C = 0 /\ lastinput = 0
  /\ matchStart = 0 /\ matchEnd = 0
  /\ cp = <<0>> /\ cpLookup = {0}
  /\ np = <<>> /\ npLookup = {}
  /\ t = 0
  /\ pc = "read"

ReadChar_lateSave ==
  /\ pc = "read"
  /\ C' = getchar
  /\ lastinput' = C'
  /\ chars' = chars + 1
  /\ t' = 0
  /\ pc' = "run"
  /\ UNCHANGED <<callVars, matchVars, currVars, nextVars>>

(* the character read is c; the caller's callback finds it *)
ReadAs(c) ==
  /\ pc = "read"
  /\ lastinput' = C
  /\ C' = c
  /\ chars' = chars + 1
  /\ t' = 0
  /\ pc' = "run"
  /\ UNCHANGED <<callVars, matchVars, currVars, nextVars>>

ReadChar == ReadAs(getchar)

-----------------------------------------------------------------------------
(* The switch: thread t runs the instruction at address ii *)

ii == cp[t + 1]
inst == prog[ii]

Running(ops) ==
  /\ pc = "run"
  /\ t < Len(cp)
  /\ inst.op \in ops

(* CHAR, ANY, CLASS and NCLASS: if the character fits, on to the next one *)
Consume(op, fits) ==
  /\ Running({op})
  /\ \/ fits /\ add_thread_next(ii + 1)
     \/ ~fits /\ UNCHANGED nextVars
  /\ t' = t + 1
  /\ UNCHANGED <<callVars, textVars, matchVars, currVars, pc>>

RunChar   == Consume("char", char_match(mode.icase, C, inst.c))
RunAny    == Consume("any", C # NL)
RunClass  == Consume("class", ccs_match(mode.icase, inst.ccs, C))
RunNclass == Consume("nclass", ~ccs_match(mode.icase, inst.ccs, C))

(* SOL and EOL: if the anchor holds, on to the next instruction *)
Anchor(op, holds) ==
  /\ Running({op})
  /\ \/ holds /\ add_thread_curr(ii + 1)
     \/ ~holds /\ UNCHANGED currVars
  /\ t' = t + 1
  /\ UNCHANGED <<callVars, textVars, matchVars, nextVars, pc>>

RunSol == Anchor("sol", is_sol)
RunEol == Anchor("eol", is_eol)

RunBranch_firstOnly ==
  /\ Running({"branch"})
  /\ add_thread_curr(inst.x)
  /\ t' = t + 1
  /\ UNCHANGED <<callVars, textVars, matchVars, nextVars, pc>>

RunBranch ==
  /\ Running({"branch"})
  /\ cp' = Listed(Listed(cp, cpLookup, inst.x), cpLookup \cup {inst.x}, inst.y)
  /\ cpLookup' = cpLookup \cup {inst.x, inst.y}
  /\ t' = t + 1
  /\ UNCHANGED <<callVars, textVars, matchVars, nextVars, pc>>

RunJmp ==
  /\ Running({"jmp"})
  /\ add_thread_curr(inst.x)
  /\ t' = t + 1
  /\ UNCHANGED <<callVars, textVars, matchVars, nextVars, pc>>

(* MATCH: a nongreedy call returns at once *)
RunMatch_keepFirst ==
  /\ Running({"match"})
  /\ matchEnd' = IF matchEnd = 0 THEN chars ELSE matchEnd
  /\ \/ mode.nongreedy /\ pc' = "done" /\ t' = t
     \/ ~mode.nongreedy /\ pc' = "run" /\ t' = t + 1
  /\ UNCHANGED <<callVars, textVars, matchStart, currVars, nextVars>>

RunMatch ==
  /\ Running({"match"})
  /\ matchEnd' = chars
  /\ \/ mode.nongreedy /\ pc' = "done" /\ t' = t
     \/ ~mode.nongreedy /\ pc' = "run" /\ t' = t + 1
  /\ UNCHANGED <<callVars, textVars, matchStart, currVars, nextVars>>

-----------------------------------------------------------------------------
(* All threads of this character have run *)

RanAll ==
  /\ pc = "run"
  /\ t = Len(cp)

EndOfInput ==
  /\ RanAll
  /\ C = EndChar
  /\ pc' = "done"
  /\ UNCHANGED <<callVars, textVars, matchVars, currVars, nextVars, t>>

(* no thread is left for the next character *)
Dead_pastEnd ==
  /\ RanAll
  /\ np = <<>>

Dead ==
  /\ RanAll
  /\ C # EndChar
  /\ np = <<>>

GiveUp ==
  /\ Dead
  /\ ~mode.search \/ matchEnd # 0
  /\ pc' = "done"
  /\ UNCHANGED <<callVars, textVars, matchVars, currVars, nextVars, t>>

(* a search starts again: at this character, or at the next one if this   *)
(* character is where the attempt began.  The entries of the lookup table  *)
(* that cp names are cleared one by one.                                   *)
Restart_inPlace ==
  /\ Dead
  /\ mode.search /\ matchEnd = 0
  /\ cp' = <<0>>
  /\ cpLookup' = (cpLookup \ {cp[i] : i \in 1..Len(cp)}) \cup {0}
  /\ matchStart' = chars - 1
  /\ t' = 0
  /\ pc' = "run"
  /\ UNCHANGED <<callVars, textVars, matchEnd, nextVars>>

Restart_nextChar ==
  /\ Dead
  /\ mode.search /\ matchEnd = 0
  /\ cp' = <<0>>
  /\ cpLookup' = (cpLookup \ {cp[i] : i \in 1..Len(cp)}) \cup {0}
  /\ matchStart' = chars
  /\ pc' = "read"
  /\ UNCHANGED <<callVars, textVars, matchEnd, nextVars, t>>

Restart ==
  /\ Dead
  /\ mode.search /\ matchEnd = 0
  /\ cp' = <<0>>
  /\ cpLookup' = (cpLookup \ {cp[i] : i \in 1..Len(cp)}) \cup {0}
  /\ \/ /\ chars - 1 # matchStart
        /\ matchStart' = chars - 1
        /\ t' = 0
        /\ pc' = "run"
     \/ /\ chars - 1 = matchStart
        /\ matchStart' = chars
        /\ t' = t
        /\ pc' = "read"
  /\ UNCHANGED <<callVars, textVars, matchEnd, nextVars>>

(* the two lists and their lookup tables change places *)
Swap_staleTable ==
  /\ RanAll
  /\ C # EndChar
  /\ np # <<>>
  /\ cp' = np /\ cpLookup' = npLookup
  /\ np' = <<>> /\ npLookup' = cpLookup
  /\ pc' = "read"
  /\ UNCHANGED <<callVars, textVars, matchVars, t>>

Swap ==
  /\ RanAll
  /\ C # EndChar
  /\ np # <<>>
  /\ cp' = np /\ cpLookup' = npLookup
  /\ np' = <<>> /\ npLookup' = {}
  /\ pc' = "read"
  /\ UNCHANGED <<callVars, textVars, matchVars, t>>

(* vm_execute has returned *)
Returned ==
  /\ pc = "done"
  /\ UNCHANGED vars

(* all of vm_execute but its call of getchar *)
Execute ==
  \/ RunChar \/ RunAny \/ RunClass \/ RunNclass
  \/ RunSol \/ RunEol \/ RunBranch \/ RunJmp \/ RunMatch
  \/ EndOfInput \/ GiveUp \/ Restart \/ Swap

Next == ReadChar \/ Execute \/ Returned

(* the caller waits for vm_execute: a step that can be taken is taken *)
Spec == Init /\ [][Next]_vars /\ WF_vars(Next)

-----------------------------------------------------------------------------
(* Every variable holds a value of its C type; addresses are in the table. *)
TypeOK ==
  /\ prog \in Programs /\ input \in Inputs /\ mode \in Modes
  /\ chars \in 0..(Len(input) + 1)
  /\ matchStart \in 0..Len(input) /\ matchEnd \in 0..(Len(input) + 1)
  /\ C \in Char \cup {EndChar} /\ lastinput \in Char \cup {EndChar}
  /\ cp \in Seq(PCs) /\ np \in Seq(PCs)
  /\ cpLookup \subseteq PCs /\ npLookup \subseteq PCs
  /\ t \in Nat
  /\ pc \in {"read", "run", "done"}

Unique(list) == \A i, j \in 1..Len(list) : list[i] = list[j] => i = j
Lists(list, lookup) == lookup = {list[i] : i \in 1..Len(list)}

(* add_thread never lists an instruction twice and the lookup tables never *)
(* go stale, through the swap and the entry-by-entry clearing of a restart.*)
ThreadLists ==
  /\ Unique(cp) /\ Lists(cp, cpLookup)
  /\ Unique(np) /\ Lists(np, npLookup)

(* Hence neither list outgrows its part of the table vm_init allocated:    *)
(* `size` threads each, with no bounds check in add_thread.                *)
TablesHold == Len(cp) <= Cardinality(PCs) /\ Len(np) <= Cardinality(PCs)

(* An anchor looks at the right characters: C and lastinput are the        *)
(* current and the previous character of the input also after a search has *)
(* started again in the middle of it.                                      *)
PeeksRight ==
  LET at(k) == IF k \in 1..Len(input) THEN input[k] ELSE EndChar
  IN  /\ C = at(chars)
      /\ pc = "run" => lastinput = at(chars - 1)

(* The call only moves forward: behind a dead attempt it returns or begins *)
(* one that starts strictly later, so no attempt is tried again; no        *)
(* attempt follows a match, and a match only grows.                        *)
MovesForward ==
  [][ /\ matchStart' >= matchStart
      /\ RanAll /\ np = <<>> /\ pc' # "done" => matchStart' > matchStart
      /\ matchEnd # 0 => matchStart' = matchStart /\ matchEnd' >= matchEnd
      /\ chars' >= chars ]_vars

(* Whatever loops the program has, vm_execute returns. *)
Terminates == <>(pc = "done")
=============================================================================
