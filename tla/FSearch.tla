------------------------------- MODULE FSearch -------------------------------
(***************************************************************************)
(* One call of rxvm_fsearch (rxvm.c): a search in a file, from its current *)
(* position.  An expression without operators is searched for by bmh       *)
(* alone.  One with a fixed substring is handled by bmh_partial: bmh finds *)
(* the substring, vm_execute runs from the start of its line, and bmh goes *)
(* on behind the substring if it fails.  Any other goes to vm_execute.     *)
(* The virtual machine reads the file through fbuf (getchar_file), which   *)
(* lies on the stack of the call and is not initialised.                   *)
(*                                                                         *)
(* `input` is the file; EndChar stands for EOF, which is not in it.        *)
(***************************************************************************)
EXTENDS VmScan, SimpleText, FiniteSetsExt

CONSTANTS
  Calls,      \* families of calls: a compiled expression, and the files,
              \* positions in them and flags it is searched for with
  Garbage,    \* what uninitialised memory may hold
  BUFSIZE, FBUF_SIZE, LBUF_SIZE   \* sizes of bmhbuf, fbuf and buf

ASSUME SizesAssumption ==
  {BUFSIZE, FBUF_SIZE, LBUF_SIZE} \subseteq Nat \ {0}

VARIABLES
  compiled, start, \* the expression, the position the call begins at
  fp,              \* the position in the file
  pattern, badchar, bmhbuf, pos, end, skiplen, scan,   \* of Bmh
  fbuf, bufpos,    \* the buffer of getchar_file, characters taken of it
  boundary,        \* last_match_end of bmh_partial
  reset,           \* where bmh goes on if vm_execute fails
  runs,            \* how often vm_execute was started: 0, 1 or 2 for more
  ret, match_size  \* what the call returned, or Unset

B == INSTANCE Bmh

(* A compiled expression: simple and lfix are empty where the code has a   *)
(* null pointer, and bmhbuf has room for them.  simple has its escapes; it *)
(* is the text its program stands for.  Only an escape lets a character    *)
(* through the lexer that is not printable: bmh_init would write outside   *)
(* its table for it.                                                       *)
PatternChar == {c \in Char : B!isprintable(c)}
CompiledWell(e) ==
  /\ WellFormed(e.prog)
  /\ e.simple # <<>> => WholeText(e.simple) /\ e.prog = Program(e.simple)
  /\ \A s \in {e.simple, e.lfix} : s \in Seq(PatternChar) /\ Len(s) <= BUFSIZE

(* The byte 255 is EOF to the code, a 0 stands for the real one here.      *)
FileChar == Char \ {-1}
ASSUME CallsAssumption ==
  \A c \in Calls :
    /\ CompiledWell(c.compiled)
    /\ c.files \subseteq Seq(FileChar)
    /\ c.starts \subseteq Nat /\ c.modes \subseteq SearchModes

vmVars == vars
bmhVars == <<pattern, badchar, bmhbuf, pos, end, skiplen, scan>>
lineVars == <<fbuf, bufpos, boundary, reset, runs>>
retVars == <<ret, match_size>>
argVars == <<compiled, start>>
fsVars == <<vmVars, argVars, fp, bmhVars, lineVars, retVars>>

Unset == -3
Uninit == 256    \* a byte of fbuf nothing was written to

-----------------------------------------------------------------------------
FsInit ==
  /\ \E c \in Calls :
       /\ compiled = c.compiled /\ prog = c.compiled.prog
       /\ input \in c.files /\ mode \in c.modes
       /\ start \in c.starts /\ start <= Len(input)
  /\ fp = start
  /\ chars = 0 /\ C = 0 /\ lastinput = 0 /\ matchStart = 0 /\ matchEnd = 0
  /\ cp = <<>> /\ cpLookup = {} /\ np = <<>> /\ npLookup = {} /\ t = 0
  /\ pattern = <<>> /\ badchar = <<>> /\ end = 0 /\ pos = 0 /\ skiplen = 0
  /\ bmhbuf = [i \in 0..(BUFSIZE - 1) |-> 0] /\ scan = "off"
  /\ fbuf = [i \in 0..(FBUF_SIZE - 1) |-> Uninit] /\ bufpos = FBUF_SIZE
  /\ boundary = 0 /\ reset = 0 /\ runs = 0
  /\ ret = Unset /\ match_size = Unset
  /\ pc = "entry"

(* vm_execute is entered with the file at position f *)
EnterVm(f) ==
  /\ chars' = f /\ matchStart' = f
  /\ C' = 0 /\ t' = 0
  /\ cp' = <<0>> /\ cpLookup' = {0}
  /\ np' = <<>> /\ npLookup' = {}
  /\ pc' = "read"
  /\ runs' = Min({runs + 1, 2})
  /\ UNCHANGED <<callVars, argVars, lastinput, retVars>>

EnterBmh(pat) ==
  /\ pc = "entry"
  /\ B!Pattern(pat)
  /\ B!Begin(pat, fp)
  /\ pc' = "bmh"
  /\ boundary' = fp
  /\ UNCHANGED <<callVars, textVars, matchVars, currVars, nextVars, t, argVars,
                 fbuf, bufpos, reset, runs, retVars>>

SimpleSearch == compiled.simple # <<>> /\ EnterBmh(compiled.simple)
PartialSearch == compiled.simple = <<>> /\ compiled.lfix # <<>> /\ EnterBmh(compiled.lfix)

VmSearch ==
  /\ pc = "entry"
  /\ compiled.simple = <<>> /\ compiled.lfix = <<>>
  /\ EnterVm(fp)
  /\ UNCHANGED <<matchEnd, fp, bmhVars, fbuf, bufpos, boundary, reset>>

BmhStep ==
  /\ pc = "bmh"
  /\ B!Step
  /\ UNCHANGED <<prog, textVars, currVars, nextVars, t, pc, argVars, lineVars,
                 retVars>>

-----------------------------------------------------------------------------
(* bmh_partial *)

(* seek_to_start_of_line: reads backwards in chunks, as far as the limit,  *)
(* and stops at the first newline of the first chunk that holds one        *)
LineStart_here(f, limit) == f
LineStart_afterNewline(f, limit) ==
  LET newlines == {i \in limit..(f - 1) : input[i + 1] = NL}
  IN  IF f <= limit THEN f
      ELSE IF newlines # {} THEN Max(newlines) + 1 ELSE limit
LineStart(f, limit) ==
  LET newlines == {i \in limit..(f - 1) : input[i + 1] = NL}
      chunk(i) == (f - 1 - i) \div LBUF_SIZE
      nearest == {i \in newlines : \A j \in newlines : chunk(i) <= chunk(j)}
  IN  Min(IF newlines = {} THEN {f, limit} ELSE nearest)

(* the fixed substring is found: run the virtual machine on its line *)
RunOnLine ==
  /\ pc = "bmh" /\ scan = "found"
  /\ compiled.simple = <<>>
  /\ reset' = matchEnd - 1
  /\ fp' = LineStart(matchStart, boundary)
  /\ boundary' = matchEnd
  /\ matchEnd' = 0
  /\ scan' = "off"
  /\ EnterVm(fp')
  /\ UNCHANGED <<pattern, badchar, bmhbuf, pos, end, skiplen, fbuf, bufpos>>

(* getchar_file; what it reads of uninitialised memory is any value *)
Refilled_noEof ==
  LET num == Min({FBUF_SIZE, Len(input) - fp})
  IN  [fp |-> fp + num,
       buf |-> [i \in 0..(FBUF_SIZE - 1) |->
                  IF i < num THEN input[fp + i + 1] ELSE fbuf[i]]]

Refilled ==
  LET num == Min({FBUF_SIZE, Len(input) - fp})
  IN  [fp |-> fp + num,
       buf |-> [i \in 0..(FBUF_SIZE - 1) |->
                  IF i < num THEN input[fp + i + 1]
                  ELSE IF i = num THEN EndChar ELSE fbuf[i]]]

ReadFile ==
  /\ LET r == IF bufpos = FBUF_SIZE THEN Refilled ELSE [fp |-> fp, buf |-> fbuf]
         at == bufpos % FBUF_SIZE
     IN  \E c \in IF r.buf[at] = Uninit THEN Garbage ELSE {r.buf[at]} :
           /\ ReadAs(c)
           /\ fp' = r.fp
           /\ fbuf' = [r.buf EXCEPT ![at] = c]
           /\ bufpos' = at + 1
  /\ UNCHANGED <<argVars, bmhVars, boundary, reset, runs, retVars>>

VmStep ==
  /\ pc = "run"
  /\ Execute
  /\ UNCHANGED <<argVars, fp, bmhVars, lineVars, retVars>>

(* no match on the line or after it: bmh goes on behind the substring *)
GoOn_atSubstring ==
  /\ pc = "done" /\ matchEnd = 0 /\ pattern # <<>>
  /\ B!Begin(pattern, reset - Len(pattern))
  /\ pc' = "bmh"
  /\ UNCHANGED <<callVars, textVars, matchVars, currVars, nextVars, t, argVars,
                 pattern, badchar, lineVars, retVars>>

GoOn ==
  /\ pc = "done" /\ matchEnd = 0 /\ pattern # <<>>
  /\ B!Begin(pattern, reset)
  /\ pc' = "bmh"
  /\ UNCHANGED <<callVars, textVars, matchVars, currVars, nextVars, t, argVars,
                 pattern, badchar, lineVars, retVars>>

-----------------------------------------------------------------------------
Over ==
  \/ pc = "bmh" /\ scan = "found" /\ compiled.simple # <<>>
  \/ pc = "bmh" /\ scan = "none"
  \/ pc = "done" /\ (matchEnd # 0 \/ pattern = <<>>)

(* seek_to_start_of_match *)
Return_sizeToLast ==
  /\ Over
  /\ \/ /\ matchEnd # 0
        /\ match_size' = matchEnd - matchStart - 2
        /\ fp' = matchStart
        /\ ret' = 1
     \/ /\ matchEnd = 0
        /\ ret' = 0
        /\ UNCHANGED <<fp, match_size>>
  /\ pc' = "returned"
  /\ scan' = "off"
  /\ UNCHANGED <<callVars, textVars, matchVars, currVars, nextVars, t, argVars,
                 pattern, badchar, bmhbuf, pos, end, skiplen, lineVars>>

Return ==
  /\ Over
  /\ \/ /\ matchEnd # 0
        /\ match_size' = matchEnd - matchStart - 1
        /\ fp' = matchStart
        /\ ret' = 1
     \/ /\ matchEnd = 0
        /\ ret' = 0
        /\ UNCHANGED <<fp, match_size>>
  /\ pc' = "returned"
  /\ scan' = "off"
  /\ UNCHANGED <<callVars, textVars, matchVars, currVars, nextVars, t, argVars,
                 pattern, badchar, bmhbuf, pos, end, skiplen, lineVars>>

FsReturned == pc = "returned" /\ UNCHANGED fsVars

FsNext ==
  \/ SimpleSearch \/ PartialSearch \/ VmSearch \/ BmhStep \/ RunOnLine
  \/ ReadFile \/ VmStep \/ GoOn \/ Return \/ FsReturned

(* the caller waits for the call: a step that can be taken is taken *)
FsSpec == FsInit /\ [][FsNext]_fsVars /\ WF_fsVars(FsNext)
-----------------------------------------------------------------------------
(* Every variable holds a value of its type: indices are in their buffers, *)
(* positions in the file and a size is not negative.  Only a second run of *)
(* vm_execute, which reads what the first one left in fbuf, may report     *)
(* places behind the end of the file.                                      *)
FsTypeOK ==
  /\ fp \in IF ret = 1 /\ runs = 2 THEN Nat ELSE 0..Len(input)
  /\ reset \in 0..Len(input)
  /\ boundary \in 0..(Len(input) + 1)
  /\ bufpos \in 0..FBUF_SIZE /\ pos \in 0..(BUFSIZE - 1)
  /\ skiplen \in 0..BUFSIZE
  /\ cp \in Seq(PCs) /\ np \in Seq(PCs) /\ t \in Nat
  /\ ret \in {Unset, 0, 1}
  /\ match_size \in {Unset} \cup IF runs = 2 THEN Nat ELSE 0..(Len(input) - fp)

(* The buffer of bmh is a window on the file, through every refill.        *)
BufferIsWindow == B!BufferIsWindow

(* bmh never moves past an occurrence of what it looks for and reports     *)
(* nothing else, also when bmh_partial makes it go on behind a failure.    *)
ScanFindsFirst == B!Search!Spec

(* What a search passes though the program accepts it, and why.  bmh looks *)
(* for the fixed text as it is spelled, be case ignored or not: its skip   *)
(* table does not fold it.                                                 *)
FixedText == IF compiled.simple # <<>> THEN compiled.simple ELSE compiled.lfix
Spelled(s, e) ==
  {i \in s..(e - Len(FixedText)) :
     \A k \in 1..Len(FixedText) : input[i + k] = FixedText[k]}
OtherCase(s, e) == mode.icase /\ FixedText # <<>> /\ Spelled(s, e) = {}

(* vm_execute runs from the newline before the first fixed substring: it   *)
(* does not see what begins on an earlier line                             *)
EarlierLine(s) ==
  LET places == Spelled(start, Len(input))
  IN  /\ compiled.simple = <<>> /\ compiled.lfix # <<>> /\ places # {}
      /\ \E i \in (s + 1)..(Len(input) - 1) :
           input[i + 1] = NL /\ \A j \in places : i < j

(* nor which character comes before the place where it starts              *)
AnchorUnseen(s) ==
  /\ s # 0 /\ (s = start \/ (s < Len(input) /\ input[s + 1] = NL))
  /\ \E i \in DOMAIN prog : prog[i].op = "sol"

(* an attempt that matches nothing in the end was alive there              *)
HiddenPlace(o) ==
  /\ compiled.simple = <<>>
  /\ \E s \in start..(o - 1) :
       ~EarlierLine(s) /\ N!AcceptsNone(s) /\ N!Survives(s, o)

(* a text is searched for with its escapes                                 *)
EscapedText == compiled.simple # <<>> /\ prog # Chain(compiled.simple)

MayPass(s, e) ==
  \/ OtherCase(s, e) \/ EarlierLine(s) \/ AnchorUnseen(s) \/ HiddenPlace(s)
  \/ EscapedText

(* of the matches that begin before n, no others are passed                *)
PassesOnly(n) ==
  \A s \in start..(n - 1) : \A e \in s..Len(input) :
    Accepts(s, e) => MayPass(s, e)

(* A report from bmh alone or from the first run of vm_execute is right:   *)
(* the file is left at a match, which has the reported size and lies in    *)
(* the file, through the refills of both buffers.  The runs after the      *)
(* first read what it left in fbuf; a text with escapes is found where its *)
(* backslashes are.                                                        *)
ReportMatches ==
  ret = 1 /\ runs <= 1 /\ ~EscapedText =>
    fp + match_size <= Len(input) /\ Accepts(fp, fp + match_size)

(* Such a report passes no match for another reason than the ones above:   *)
(* neither the skips of bmh nor the backward search for the start of the   *)
(* line lose one that begins on the line of the fixed text or behind it.   *)
ReportIsFirst == ret = 1 /\ runs <= 1 => PassesOnly(fp)

(* "no match" leaves the file at its end, and what it passed it passed for *)
(* one of these reasons: no refill and no later run hides more.            *)
MissIsRight == ret = 0 => fp = Len(input) /\ PassesOnly(Len(input) + 1)

(* Every call returns. *)
FsReturns == <>(ret # Unset)

(* "If a match is found, the file pointer fp is re-positioned to the first *)
(* character of the match" (README.rst): the file holds a match there.     *)
ReportInFile ==
  ret = 1 => fp + match_size <= Len(input) /\ Accepts(fp, fp + match_size)

(* "Searches the file ... for a pattern that matches the compiled regular  *)
(* expresssion, from the current file position until EOF" (README.rst): it *)
(* is not said to miss one.                                                *)
FsearchFindsMatch ==
  ret = 0 => \A s \in start..Len(input) : \A e \in s..Len(input) : ~Accepts(s, e)
=============================================================================
