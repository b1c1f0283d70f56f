-------------------------------- MODULE Api --------------------------------
(***************************************************************************)
(* One call of rxvm_match or rxvm_search (rxvm.c).  An expression compiles *)
(* either to a program, run by vm_execute, or, when it has no operators,   *)
(* to a copy of its text in `simple`, run by simple_match.  Both engines   *)
(* leave their findings in the same threads_t, from which the call makes   *)
(* its result.                                                             *)
(***************************************************************************)
EXTENDS VmScan, SimpleText

CONSTANTS
  Simples   \* the texts of expressions without operators a call may be given

VARIABLES
  engine,      \* "vm" or "simple"
  simple,      \* the text, when the engine is "simple"
  si,          \* characters of the text already passed
  ret,         \* what the call returned, or Unset while it runs
  start, end   \* the pointers rxvm_search sets, as offsets, or Null

simpleVars == <<engine, simple, si>>
resultVars == <<ret, start, end>>
apiVars == <<vars, simpleVars, resultVars>>

Null == -2    \* below every offset a pointer can have
Unset == -3

ASSUME SimplesAssumption == \A s \in Simples : WholeText(s)

-----------------------------------------------------------------------------
ApiInit ==
  /\ engine \in {"vm", "simple"}
  /\ \/ engine = "vm" /\ prog \in Programs /\ simple = <<>>
     \/ engine = "simple" /\ simple \in Simples /\ prog = Program(simple)
  /\ input \in Inputs
  /\ mode \in Modes
  /\ chars = 0 /\ C = 0 /\ lastinput = 0
  /\ matchStart = 0 /\ matchEnd = 0
  /\ cp = <<0>> /\ cpLookup = {0}
  /\ np = <<>> /\ npLookup = {}
  /\ t = 0 /\ si = 0
  /\ pc = "read"
  /\ ret = Unset /\ start = Unset /\ end = Unset

VmStep ==
  /\ engine = "vm" /\ pc # "done"
  /\ Next
  /\ UNCHANGED <<simpleVars, resultVars>>

-----------------------------------------------------------------------------
(* simple_match *)

unusedVars == <<callVars, lastinput, currVars, nextVars, t, engine, simple,
                resultVars>>

(* the whole text has been passed *)
SimpleMatched ==
  /\ engine = "simple" /\ pc = "read"
  /\ si = Len(simple)
  /\ matchEnd' = chars + 1
  /\ pc' = "done"
  /\ UNCHANGED <<unusedVars, chars, C, matchStart, si>>

(* an escape character in the text is skipped *)
SimpleRead_pastEnd ==
  /\ engine = "simple" /\ pc = "read"
  /\ si < Len(simple)
  /\ C' = getchar
  /\ chars' = chars + 1
  /\ pc' = "run"
  /\ si' = IF simple[si + 1] = Esc THEN si + 1 ELSE si
  /\ UNCHANGED <<unusedVars, matchVars>>

SimpleRead ==
  /\ engine = "simple" /\ pc = "read"
  /\ si < Len(simple)
  /\ C' = getchar
  /\ chars' = chars + 1
  /\ \/ C' = EndChar /\ pc' = "done" /\ si' = si
     \/ /\ C' # EndChar
        /\ pc' = "run"
        /\ si' = IF simple[si + 1] = Esc THEN si + 1 ELSE si
  /\ UNCHANGED <<unusedVars, matchVars>>

Comparing ==
  /\ engine = "simple" /\ pc = "run"

Fits == char_match(mode.icase, simple[si + 1], C)

SimpleFits ==
  /\ Comparing
  /\ Fits
  /\ si' = si + 1
  /\ pc' = "read"
  /\ UNCHANGED <<unusedVars, chars, C, matchVars>>

SimpleFails ==
  /\ Comparing
  /\ ~Fits /\ ~mode.search
  /\ pc' = "done"
  /\ UNCHANGED <<unusedVars, chars, C, matchVars, si>>

(* a search starts again: at this character, or at the next one if this   *)
(* character was compared with the beginning of the text                   *)
SimpleRestart_nextChar ==
  /\ Comparing
  /\ ~Fits /\ mode.search
  /\ matchStart' = chars
  /\ si' = 0
  /\ pc' = IF si = 0 THEN "read" ELSE "run"
  /\ UNCHANGED <<unusedVars, chars, C, matchEnd>>

SimpleRestart_inPlace ==
  /\ Comparing
  /\ ~Fits /\ mode.search
  /\ matchStart' = chars - 1
  /\ si' = 0
  /\ UNCHANGED <<unusedVars, chars, C, matchEnd, pc>>

SimpleRestart ==
  /\ Comparing
  /\ ~Fits /\ mode.search
  /\ \/ /\ si # 0
        /\ si' = 0
        /\ matchStart' = chars - 1
        /\ pc' = "run"
     \/ /\ si = 0
        /\ si' = 0
        /\ matchStart' = chars
        /\ pc' = "read"
  /\ UNCHANGED <<unusedVars, chars, C, matchEnd>>

-----------------------------------------------------------------------------
(* The result, once the engine has returned *)

Finished == pc = "done" /\ ret = Unset

(* vm_execute returns 0 only from the end of the input *)
LeftEarly == engine = "vm" /\ C # EndChar

(* the two pointers of rxvm_search are to the first and last characters;  *)
(* match_end is one more than the number of characters up to its end       *)
SearchResult_endPastLast ==
  /\ Finished /\ mode.search
  /\ \/ /\ matchEnd = 0
        /\ ret' = 0 /\ start' = Null /\ end' = Null
     \/ /\ matchEnd # 0
        /\ ret' = 1 /\ start' = matchStart /\ end' = matchEnd - 1
  /\ UNCHANGED <<vars, simpleVars>>

SearchResult ==
  /\ Finished /\ mode.search
  /\ \/ /\ matchEnd = 0
        /\ ret' = 0 /\ start' = Null /\ end' = Null
     \/ /\ matchEnd # 0
        /\ ret' = 1 /\ start' = matchStart /\ end' = matchEnd - 2
  /\ UNCHANGED <<vars, simpleVars>>

(* rxvm_match wants the match to end where the input does *)
MatchResult_anyEnd ==
  /\ Finished /\ ~mode.search
  /\ ret' = IF ~LeftEarly /\ matchEnd # 0 THEN 1 ELSE 0
  /\ UNCHANGED <<vars, simpleVars, start, end>>

MatchResult ==
  /\ Finished /\ ~mode.search
  /\ ret' = IF ~LeftEarly /\ matchEnd # 0 /\ matchEnd - 1 = Len(input)
            THEN 1 ELSE 0
  /\ UNCHANGED <<vars, simpleVars, start, end>>

CallReturned ==
  /\ ret # Unset
  /\ UNCHANGED apiVars

ApiNext ==
  \/ VmStep
  \/ SimpleMatched \/ SimpleRead \/ SimpleFits \/ SimpleFails \/ SimpleRestart
  \/ SearchResult \/ MatchResult
  \/ CallReturned

(* the caller waits for the call: a step that can be taken is taken *)
ApiSpec == ApiInit /\ [][ApiNext]_apiVars /\ WF_apiVars(ApiNext)

-----------------------------------------------------------------------------
(* Every variable holds a value of its type; simple_match reads neither    *)
(* past the end of its text nor past the terminating 0 of the input.       *)
ApiTypeOK ==
  /\ engine = "vm" => TypeOK
  /\ simple \in Simples \cup {<<>>}
  /\ si \in 0..Len(simple)
  /\ engine = "simple" /\ pc = "run" => si < Len(simple)
  /\ chars \in 0..(Len(input) + 1)
  /\ ret \in {Unset, 0, 1}
  /\ start \in 0..Len(input) \cup {Unset, Null}
  /\ end \in -1..(Len(input) - 1) \cup {Unset, Null}

(* rxvm_match says yes exactly when the expression accepts the whole      *)
(* input, whichever engine ran.                                            *)
MatchExact ==
  ret # Unset /\ ~mode.search => (ret = 1 <=> Accepts(0, Len(input)))

(* When rxvm_search says yes, its two pointers delimit characters that the *)
(* expression accepts; when it says no, they are null.                     *)
SearchSound ==
  ret # Unset /\ mode.search =>
    IF ret = 1
    THEN end < Len(input) /\ start \in 0..(end + 1) /\ Accepts(start, end + 1)
    ELSE start = Null /\ end = Null

(* A search passes a match only if an attempt that matches nothing runs    *)
(* over its start: the start of no other match is skipped, neither before  *)
(* the match reported nor when the answer is no.                           *)
MissesOnlyHidden ==
  ret # Unset /\ mode.search =>
    \A o \in 0..Len(input) :
      ret = 0 \/ o < start => N!AcceptsNone(o) \/ N!HiddenStart(o)

(* simple_match keeps the very promise of vm_execute: it scans like the   *)
(* program its text stands for, one attempt after the other.  A text is    *)
(* its own position: `si` counts the literals passed.                      *)
ApiPos ==
  IF pc = "read" \/ (engine = "simple" /\ matchEnd # 0)
  THEN chars ELSE chars - 1
ApiThreads ==
  IF engine = "vm" THEN Threads
  ELSE {Len(Reading(simple)[si].lits)}

ApiScan ==
  INSTANCE NfaScan WITH
    origin <- matchStart,
    pos <- ApiPos,
    threads <- ApiThreads,
    best <- matchEnd - 1,
    done <- pc = "done"

EnginesImplementScan == ApiScan!Spec

(* Every call returns. *)
CallReturns == <>(ret # Unset)
=============================================================================
