---------------------------- MODULE FSearchProofs ----------------------------
(***************************************************************************)
(* What a search in a file keeps true for every file, every buffer size    *)
(* and every expression the compiler may hand it: the buffer of bmh is a   *)
(* window on the file, bmh keeps the promise of Substring, a text is found *)
(* where it first occurs, and what bmh alone or the first run of           *)
(* vm_execute reports is a match.                                          *)
(***************************************************************************)
EXTENDS FSearch, Induction, VmScanProofs

-----------------------------------------------------------------------------
(* The inductive invariant.                                                *)

ArgsWell ==
  /\ CompiledWell(compiled) /\ prog = compiled.prog
  /\ input \in Seq(FileChar) /\ mode \in SearchModes

(* bmh runs in its own phase, and only with a pattern whose table is right *)
Phases ==
  /\ pc \in {"entry", "bmh", "read", "run", "done", "returned"}
  /\ scan \in {"off", "skip", "compare", "found", "none"}
  /\ pc = "bmh" <=> scan # "off"
  /\ pc = "bmh" => pattern # <<>>
  /\ pc = "entry" => fp \in 0..Len(input)
  /\ reset \in 0..Len(input)

Patterned(pat) == pat \in Seq(PatternChar) /\ Len(pat) \in 1..BUFSIZE
PatternWell ==
  pattern # <<>> => Patterned(pattern) /\ badchar = B!bmh_table(pattern)

Searching == scan \in {"skip", "compare", "none"}

(* the buffer holds the characters of the file up to f, and EOF after them *)
Window(buf, e, f) ==
  /\ f \in 0..Len(input) /\ e \in 0..BUFSIZE /\ e <= f
  /\ e < BUFSIZE => f = Len(input)
  /\ \A i \in 0..(BUFSIZE - 1) :
       buf[i] = IF i < e THEN input[f - e + i + 1] ELSE EndChar

(* the next window ends in the buffer or is what a refill makes room for   *)
InBuffer ==
  /\ Searching => Window(bmhbuf, end, fp) /\ pos \in 0..(BUFSIZE - 1)
  /\ scan = "skip" =>
       /\ skiplen \in 0..Len(pattern) /\ pos + skiplen >= Len(pattern) - 1
       /\ end # 0 => pos < end
       /\ end = 0 => pos = 0 /\ skiplen = Len(pattern) - 1
  /\ scan = "compare" => pos < end /\ pos >= Len(pattern) - 1

FoundPlace ==
  scan = "found" =>
    /\ matchStart \in 0..(Len(input) - Len(pattern))
    /\ matchEnd = matchStart + Len(pattern) + 1

BmhInv == ArgsWell /\ Phases /\ PatternWell /\ InBuffer /\ FoundPlace

-----------------------------------------------------------------------------
(* Operators *)

LEMMA MinOfTwo ==
  ASSUME NEW x \in Int, NEW y \in Int
  PROVE  Min({x, y}) = IF x <= y THEN x ELSE y
  <1> DEFINE m == IF x <= y THEN x ELSE y
  <1>1. m \in {x, y} /\ \A z \in {x, y} : m <= z
    OBVIOUS
  <1>2. \A n \in {x, y} : (\A z \in {x, y} : n <= z) => n = m
    OBVIOUS
  <1> HIDE DEF m
  <1>3. Min({x, y}) = m
    BY <1>1, <1>2 DEF Min
  <1>4. QED
    BY <1>3 DEF m

LEMMA BmhMinOfTwo ==
  ASSUME NEW x \in Int, NEW y \in Int
  PROVE  B!Min({x, y}) = IF x <= y THEN x ELSE y
  <1>1. B!Min({x, y}) = Min({x, y})
    BY DEF B!Min, Min
  <1>2. QED
    BY <1>1, MinOfTwo

(* a bounded set of naturals has a greatest element *)
LEMMA GreatestOf ==
  ASSUME NEW T, NEW n \in Nat, T \subseteq 1..n, T # {}
  PROVE  B!Max(T) \in T /\ \A z \in T : z <= B!Max(T)
  <1> DEFINE D == {d \in Nat : n - d \in T}
  <1>1. D # {}
    <2>1. PICK z \in T : TRUE
      OBVIOUS
    <2>2. z \in 1..n
      BY <2>1
    <2>3. n - z \in Nat /\ n - (n - z) = z
      BY <2>2
    <2>4. QED
      BY <2>3
  <1>2. PICK d \in D : \A m \in D : d <= m
    BY <1>1, LeastNatural
  <1>3. ASSUME NEW z \in T PROVE n - d >= z
    <2>1. z \in 1..n
      OBVIOUS
    <2>2. n - z \in Nat /\ n - (n - z) = z
      BY <2>1
    <2>3. n - z \in D
      BY <2>2
    <2>4. d <= n - z /\ d \in Nat
      BY <1>2, <2>3
    <2>5. QED
      BY <2>1, <2>4
  <1>4. \E m \in T : \A z \in T : m >= z
    BY <1>2, <1>3
  <1>5. B!Max(T) \in T /\ \A z \in T : B!Max(T) >= z
    <2> HIDE DEF D
    <2>1. QED
      BY <1>4 DEF B!Max
  <1>6. QED
    BY <1>5

(* fill keeps the buffer a window on the file and loses nothing: what      *)
(* stays in the buffer is what lies before the place that was read to.     *)
LEMMA FillWindow ==
  ASSUME ArgsWell, NEW buf, NEW e, NEW f \in 0..Len(input),
         NEW b \in 0..(BUFSIZE - 1),
         b # 0 => Window(buf, e, f) /\ b <= e
  PROVE  LET r == B!fill(buf, e, f, b)
         IN  /\ Window(r.buf, r.end, r.fp)
             /\ r.fp - r.end = f - b
  <1> DEFINE r == B!fill(buf, e, f, b)
             rsize == B!Min({BUFSIZE - b, Len(input) - f})
  <1>1. BUFSIZE \in Nat /\ BUFSIZE > 0 /\ Len(input) \in Nat /\ b \in Nat
    BY SizesAssumption DEF ArgsWell
  <1>2. rsize = IF BUFSIZE - b <= Len(input) - f
                THEN BUFSIZE - b ELSE Len(input) - f
    BY <1>1, BmhMinOfTwo
  <1>3. /\ r.fp = f + rsize /\ r.end = b + rsize
        /\ r.buf = [i \in 0..(BUFSIZE - 1) |->
                     IF i < b THEN buf[e - b + i]
                     ELSE IF i < b + rsize THEN input[f + i - b + 1]
                     ELSE EndChar]
    BY DEF B!fill, B!EndChar, EndChar
  <1> HIDE DEF r, rsize
  <1>4. /\ r.fp \in 0..Len(input) /\ r.end \in 0..BUFSIZE
        /\ r.end < BUFSIZE => r.fp = Len(input)
        /\ r.fp - r.end = f - b
    BY <1>1, <1>2, <1>3
  <1>5. r.end <= r.fp /\ (b # 0 => b <= f)
    <2>1. b # 0 => b <= f
      BY <1>1 DEF Window
    <2>2. b <= f
      BY <1>1, <2>1
    <2>3. QED
      BY <1>1, <1>4, <2>1, <2>2
  <1>6. ASSUME NEW i \in 0..(BUFSIZE - 1)
        PROVE  r.buf[i] = IF i < r.end THEN input[r.fp - r.end + i + 1] ELSE EndChar
    <2>1. CASE i < b
      <3> DEFINE k == e - b + i
      <3>1. /\ k \in 0..(BUFSIZE - 1) /\ k < e /\ i < r.end
            /\ f - e + k + 1 = r.fp - r.end + i + 1
        <4>1. b # 0 /\ b <= e /\ e \in 0..BUFSIZE /\ rsize \in Nat
          BY <1>1, <1>2, <2>1 DEF Window
        <4>2. k \in 0..(BUFSIZE - 1) /\ k < e
          BY <1>1, <2>1, <4>1
        <4>3. i < r.end /\ f - e + k + 1 = r.fp - r.end + i + 1
          BY <1>1, <1>3, <1>4, <2>1, <4>1
        <4>4. QED
          BY <4>2, <4>3
      <3>2. r.buf[i] = buf[k]
        BY <1>3, <2>1
      <3> HIDE DEF k
      <3>3. b # 0 /\ \A j \in 0..(BUFSIZE - 1) :
                       buf[j] = IF j < e THEN input[f - e + j + 1] ELSE EndChar
        BY <1>1, <2>1 DEF Window
      <3>4. buf[k] = input[f - e + k + 1]
        BY <3>1, <3>3
      <3>5. QED
        BY <3>1, <3>2, <3>4
    <2>2. CASE ~(i < b)
      <3>1. f + i - b + 1 = r.fp - r.end + i + 1
        BY <1>1, <1>4
      <3>2. QED
        BY <1>3, <2>2, <3>1
    <2>3. QED
      BY <2>1, <2>2
  <1>7. Window(r.buf, r.end, r.fp)
    BY <1>4, <1>5, <1>6 DEF Window
  <1>8. QED
    BY <1>4, <1>7 DEF r

-----------------------------------------------------------------------------
(* Every step keeps the invariant. *)

LEMMA InitBmh == FsInit => BmhInv
  <1> SUFFICES ASSUME FsInit PROVE BmhInv
    OBVIOUS
  <1>1. PICK c \in Calls :
          /\ compiled = c.compiled /\ prog = c.compiled.prog
          /\ input \in c.files /\ mode \in c.modes
          /\ start \in c.starts /\ start <= Len(input)
    BY DEF FsInit
  <1>2. ArgsWell /\ fp \in 0..Len(input) /\ 0 \in 0..Len(input)
    BY <1>1, CallsAssumption DEF ArgsWell, FsInit
  <1>3. QED
    BY <1>2 DEF FsInit, BmhInv, Phases, PatternWell, Searching, InBuffer,
       FoundPlace

(* bmh_init and bmh_reset *)
LEMMA BeginWell ==
  ASSUME BmhInv, NEW pat, Patterned(pat), NEW f \in 0..Len(input),
         B!Begin(pat, f), B!Pattern(pat), UNCHANGED <<callVars, argVars,
         reset>>,
         pc' = "bmh"
  PROVE  BmhInv' /\ fp' - end' = f /\ skiplen' = Len(pat) - 1 /\ pos' = 0
         /\ scan' = "skip"
  <1> DEFINE r == B!fill(bmhbuf, end, f, 0)
  <1>1. /\ bmhbuf' = r.buf /\ end' = r.end /\ fp' = r.fp
        /\ pos' = 0 /\ skiplen' = Len(pat) - 1 /\ scan' = "skip"
    BY DEF B!Begin, B!Filled
  <1>2. ArgsWell /\ ArgsWell' /\ input' = input
    BY DEF BmhInv, ArgsWell, callVars, argVars
  <1>3. Window(r.buf, r.end, r.fp) /\ r.fp - r.end = f
    <2>1. 0 \in 0..(BUFSIZE - 1) /\ f - 0 = f
      BY SizesAssumption
    <2>2. QED
      BY <1>2, <2>1, FillWindow
  <1> HIDE DEF r
  <1>4. Window(bmhbuf, end, fp)'
    BY <1>1, <1>2, <1>3 DEF Window
  <1>5. pattern' = pat /\ badchar' = B!bmh_table(pat) /\ Len(pat) \in 1..BUFSIZE
    BY DEF B!Pattern, Patterned
  <1>6. pattern' # <<>> /\ PatternWell'
    BY <1>5 DEF PatternWell, Patterned
  <1>7. Phases'
    BY <1>1, <1>2, <1>6 DEF BmhInv, Phases
  <1>8. InBuffer' /\ FoundPlace'
    BY <1>1, <1>4, <1>5, SizesAssumption DEF InBuffer, FoundPlace, Searching,
       Window
  <1>9. QED
    BY <1>1, <1>2, <1>3, <1>6, <1>7, <1>8 DEF BmhInv

(* the pattern of a call *)
LEMMA CompiledPattern ==
  ASSUME ArgsWell
  PROVE  \A s \in {compiled.simple, compiled.lfix} : s # <<>> => Patterned(s)
  BY DEF ArgsWell, CompiledWell, Patterned

LEMMA EnterBmhWell ==
  ASSUME BmhInv, SimpleSearch \/ PartialSearch
  PROVE  BmhInv' /\ fp' - end' = fp /\ skiplen' = Len(pattern') - 1 /\ pos' = 0
         /\ scan' = "skip" /\ UNCHANGED <<input, mode>>
  <1>1. PICK pat \in {compiled.simple, compiled.lfix} :
          pat # <<>> /\ EnterBmh(pat)
    BY DEF SimpleSearch, PartialSearch
  <1>2. Patterned(pat)
    BY <1>1, CompiledPattern DEF BmhInv
  <1>3. /\ fp \in 0..Len(input) /\ B!Begin(pat, fp) /\ B!Pattern(pat)
        /\ pc' = "bmh" /\ UNCHANGED <<callVars, argVars, reset>>
    BY <1>1 DEF EnterBmh, BmhInv, Phases
  <1>4. pattern' = pat /\ UNCHANGED <<input, mode>>
    BY <1>3 DEF B!Pattern, callVars
  <1>5. QED
    BY <1>2, <1>3, <1>4, BeginWell

LEMMA GoOnWell ==
  ASSUME BmhInv, GoOn
  PROVE  BmhInv' /\ fp' - end' = reset /\ skiplen' = Len(pattern') - 1 /\ pos' = 0
         /\ scan' = "skip" /\ UNCHANGED <<input, mode>>
  <1>1. /\ reset \in 0..Len(input) /\ B!Begin(pattern, reset) /\ pattern # <<>>
        /\ pc' = "bmh" /\ UNCHANGED <<callVars, argVars, reset, pattern, badchar>>
    BY DEF GoOn, BmhInv, Phases, lineVars
  <1>2. Patterned(pattern) /\ B!Pattern(pattern)
    BY <1>1 DEF BmhInv, PatternWell, B!Pattern
  <1>3. UNCHANGED <<input, mode>>
    BY <1>1 DEF callVars
  <1>4. QED
    BY <1>1, <1>2, <1>3, BeginWell

(* vm_execute touches neither the buffer of bmh nor the arguments *)
LEMMA ExecuteFrame ==
  ASSUME Execute
  PROVE  /\ UNCHANGED callVars
         /\ pc = "run" /\ pc' \in {"read", "run", "done"}
  <1>1. CASE RunChar \/ RunAny \/ RunClass \/ RunNclass
    BY <1>1 DEF RunChar, RunAny, RunClass, RunNclass, Consume, Running
  <1>2. CASE RunSol \/ RunEol
    BY <1>2 DEF RunSol, RunEol, Anchor, Running
  <1>3. CASE RunBranch \/ RunJmp \/ RunMatch
    BY <1>3 DEF RunBranch, RunJmp, RunMatch, Running
  <1>4. CASE EndOfInput \/ GiveUp \/ Restart \/ Swap
    BY <1>4 DEF EndOfInput, GiveUp, Restart, Swap, RanAll, Dead
  <1>5. QED
    BY <1>1, <1>2, <1>3, <1>4 DEF Execute

(* a step with bmh not running before or after it *)
LEMMA OffWell ==
  ASSUME BmhInv, UNCHANGED <<callVars, argVars, pattern, badchar>>,
         scan' = "off", pc' \in {"read", "run", "done", "returned"},
         reset' \in 0..Len(input)
  PROVE  BmhInv'
  BY DEF BmhInv, ArgsWell, Phases, PatternWell, InBuffer, Searching,
     FoundPlace,
         callVars, argVars

LEMMA VmPhaseWell ==
  ASSUME BmhInv, VmSearch \/ ReadFile \/ VmStep \/ Return
  PROVE  BmhInv' /\ scan' = "off" /\ UNCHANGED <<input, mode, pattern>>
  <1>1. /\ UNCHANGED <<callVars, argVars, pattern, badchar>>
        /\ scan' = "off" /\ pc' \in {"read", "run", "done", "returned"}
        /\ reset' = reset
    <2>1. CASE VmSearch
      BY <2>1 DEF VmSearch, EnterVm, bmhVars, BmhInv, Phases
    <2>2. CASE ReadFile
      <3>1. PICK c : ReadAs(c)
        BY <2>2 DEF ReadFile
      <3>2. QED
        BY <2>2, <3>1 DEF ReadFile, ReadAs, bmhVars, BmhInv, Phases
    <2>3. CASE VmStep
      BY <2>3, ExecuteFrame DEF VmStep, bmhVars, lineVars, BmhInv, Phases
    <2>4. CASE Return
      BY <2>4 DEF Return, lineVars
    <2>5. QED
      BY <2>1, <2>2, <2>3, <2>4
  <1>2. reset' \in 0..Len(input)
    BY <1>1 DEF BmhInv, Phases
  <1>3. QED
    BY <1>1, <1>2, OffWell DEF callVars

LEMMA RunOnLineWell ==
  ASSUME BmhInv, RunOnLine
  PROVE  BmhInv' /\ scan' = "off" /\ UNCHANGED <<input, mode, pattern>>
  <1>1. /\ UNCHANGED <<callVars, argVars, pattern, badchar>>
        /\ scan' = "off" /\ pc' = "read" /\ reset' = matchEnd - 1
    BY DEF RunOnLine, EnterVm
  <1>2. reset' \in 0..Len(input)
    <2>1. /\ matchStart \in 0..(Len(input) - Len(pattern))
          /\ matchEnd = matchStart + Len(pattern) + 1
          /\ Len(pattern) \in Nat /\ Len(input) \in Nat
      BY DEF RunOnLine, BmhInv, FoundPlace, Phases, PatternWell, Patterned,
         ArgsWell
    <2>2. QED
      BY <1>1, <2>1
  <1>3. QED
    BY <1>1, <1>2, OffWell DEF callVars

-----------------------------------------------------------------------------
(* The steps of bmh.  Place is where the window begins in the file. *)

Place == fp - end + pos - Len(pattern) + 1

OccursAt(fold, i) ==
  /\ i + Len(pattern) <= Len(input)
  /\ \A k \in 1..Len(pattern) : char_match(fold, input[i + k], pattern[k])

LEMMA ExactOccurs ==
  ASSUME NEW fold \in BOOLEAN, NEW i, OccursAt(FALSE, i)
  PROVE  OccursAt(fold, i)
  BY DEF OccursAt, char_match

(* What a step of bmh leaves alone, and what holds around it *)
LEMMA BmhFrame ==
  ASSUME BmhInv, BmhStep
  PROVE  /\ UNCHANGED <<callVars, argVars, reset, pattern, badchar, pc>>
         /\ ArgsWell' /\ PatternWell' /\ pc = "bmh"
         /\ Patterned(pattern) /\ badchar = B!bmh_table(pattern)
         /\ Len(pattern) \in 1..BUFSIZE /\ Len(input) \in Nat /\ BUFSIZE \in Nat
         /\ mode.icase \in BOOLEAN
  <1>1. /\ UNCHANGED <<callVars, argVars, reset, pc>> /\ pc = "bmh"
        /\ UNCHANGED <<pattern, badchar>>
    BY DEF BmhStep, B!Step, B!Skip, B!Mismatch, B!Occurrence, lineVars,
       callVars,
           B!fileVars, B!patVars, argVars
  <1>2. Patterned(pattern) /\ badchar = B!bmh_table(pattern)
    BY <1>1 DEF BmhInv, Phases, PatternWell
  <1>3. ArgsWell' /\ PatternWell'
    BY <1>1 DEF BmhInv, ArgsWell, PatternWell, callVars, argVars
  <1>4. mode.icase \in BOOLEAN
    BY DEF BmhInv, ArgsWell, SearchModes
  <1>5. QED
    BY <1>1, <1>2, <1>3, <1>4, SizesAssumption DEF Patterned, BmhInv, ArgsWell

(* Skip: the window moves by skiplen, also when it takes a refill, or it   *)
(* has left the file.                                                      *)
LEMMA SkipWell ==
  ASSUME BmhInv, BmhStep, B!Skip
  PROVE  /\ InBuffer' /\ scan' \in {"compare", "none"}
         /\ Place' = Place + skiplen /\ Place + skiplen \in 0..Len(input)
         /\ scan' = "none" => /\ Place + skiplen + Len(pattern) > Len(input)
                              /\ fp' = Len(input)
         /\ UNCHANGED <<skiplen, matchStart, matchEnd>>
  <1> DEFINE plen == Len(pattern)
             total == pos + skiplen
             b == plen - (total - (end - 1))
             r == B!fill(bmhbuf, end, fp, b)
  <1>1. /\ UNCHANGED <<input, pattern, skiplen, matchStart, matchEnd>>
        /\ plen \in 1..BUFSIZE /\ Len(input) \in Nat /\ BUFSIZE \in Nat
    BY BmhFrame DEF callVars, B!Skip, B!matchVars
  <1>2. /\ Window(bmhbuf, end, fp) /\ pos \in 0..(BUFSIZE - 1)
        /\ skiplen \in 0..plen /\ total >= plen - 1
        /\ end # 0 => pos < end
        /\ end = 0 => pos = 0 /\ skiplen = plen - 1
        /\ end \in 0..BUFSIZE /\ fp \in 0..Len(input) /\ end <= fp
    BY DEF B!Skip, BmhInv, InBuffer, Searching, Window
  <1>3. \/ /\ end # 0 /\ total > end - 1
           /\ bmhbuf' = r.buf /\ end' = r.end /\ fp' = r.fp /\ pos' = plen - 1
        \/ /\ ~(end # 0 /\ total > end - 1)
           /\ pos' = total /\ UNCHANGED <<bmhbuf, end, fp>>
    BY DEF B!Skip, B!PastEnd, B!endix, B!pendix, B!plen, B!Filled
  <1>4. scan' = IF bmhbuf'[pos'] = EndChar THEN "none" ELSE "compare"
    BY DEF B!Skip, B!EndChar, EndChar
  <1> HIDE DEF r
  <1>5. /\ Window(bmhbuf', end', fp') /\ pos' \in 0..(BUFSIZE - 1)
        /\ fp' - end' + pos' = fp - end + total /\ pos' >= plen - 1
    <2>1. CASE end # 0 /\ total > end - 1
      <3>1. b \in 0..(BUFSIZE - 1) /\ b <= end
        BY <1>1, <1>2, <2>1
      <3>2. Window(r.buf, r.end, r.fp) /\ r.fp - r.end = fp - b
        <4> HIDE DEF b
        <4>1. QED
          BY <1>2, <3>1, FillWindow DEF r, BmhInv
      <3>3. bmhbuf' = r.buf /\ end' = r.end /\ fp' = r.fp /\ pos' = plen - 1
        BY <1>3, <2>1
      <3>4. r.fp \in Int /\ r.end \in Int
        BY <3>2 DEF Window
      <3>5. fp' - end' + pos' = fp - end + total
        BY <1>1, <1>2, <3>2, <3>3, <3>4
      <3>6. QED
        BY <1>1, <3>2, <3>3, <3>5
    <2>2. CASE ~(end # 0 /\ total > end - 1)
      <3>1. pos' = total /\ UNCHANGED <<bmhbuf, end, fp>>
        BY <1>3, <2>2
      <3>2. total \in 0..(BUFSIZE - 1)
        BY <1>1, <1>2, <2>2
      <3>3. QED
        BY <1>2, <3>1, <3>2
    <2>3. QED
      BY <2>1, <2>2
  (* names of their own for the new values, for the provers *)
  <1>6. PICK buf, e, f, q :
          buf = bmhbuf' /\ e = end' /\ f = fp' /\ q = pos'
    OBVIOUS
  <1>7. /\ Window(buf, e, f) /\ q \in 0..(BUFSIZE - 1)
        /\ f - e + q = fp - end + total /\ q >= plen - 1
        /\ scan' = IF buf[q] = EndChar THEN "none" ELSE "compare"
    BY <1>4, <1>5, <1>6
  <1>8. /\ e \in 0..BUFSIZE /\ f \in 0..Len(input) /\ e <= f
        /\ e < BUFSIZE => f = Len(input)
        /\ buf[q] = IF q < e THEN input[f - e + q + 1] ELSE EndChar
    BY <1>7 DEF Window
  <1>9. scan' = IF q < e THEN "compare" ELSE "none"
    <2>1. ASSUME q < e PROVE input[f - e + q + 1] # EndChar
      <3>1. f - e + q + 1 \in 1..Len(input)
        BY <1>1, <1>7, <1>8, <2>1
      <3>2. QED
        BY <3>1 DEF BmhInv, ArgsWell, FileChar, Char
    <2>2. QED
      BY <1>7, <1>8, <2>1
  <1>10. InBuffer'
    <2>1. Window(bmhbuf, end, fp)'
      BY <1>1, <1>5 DEF Window
    <2>2. QED
      BY <1>1, <1>6, <1>7, <1>9, <2>1 DEF InBuffer
  <1>11. /\ fp \in Int /\ end \in Int /\ pos \in Int /\ skiplen \in Int
         /\ plen \in Int /\ f \in Int /\ e \in Int /\ q \in Int
    BY <1>1, <1>2, <1>7, <1>8
  <1>12. Place' = Place + skiplen
    <2>1. Place' = f - e + q - plen + 1
      BY <1>1, <1>6 DEF Place
    <2>2. QED
      BY <1>7, <1>11, <2>1 DEF Place
  <1>13. Place + skiplen \in 0..Len(input)
    BY <1>1, <1>2 DEF Place
  <1>14. scan' = "none" => /\ Place + skiplen + Len(pattern) > Len(input)
                           /\ fp' = Len(input)
    <2>1. Place + skiplen + plen = f - e + q + 1
      BY <1>7, <1>11 DEF Place
    <2>2. q >= e => f = Len(input)
      BY <1>1, <1>7, <1>8, <1>11
    <2>3. scan' = "none" => q >= e
      BY <1>9, <1>11
    <2>4. scan' = "none" => fp' = Len(input)
      BY <1>6, <2>2, <2>3
    <2>5. scan' = "none" => Place + skiplen + Len(pattern) > Len(input)
      BY <1>1, <1>11, <2>1, <2>2, <2>3
    <2>6. QED
      BY <2>4, <2>5
  <1>15. QED
    BY <1>1, <1>9, <1>10, <1>12, <1>13, <1>14

(* the window that is compared *)
LEMMA ComparedWindow ==
  ASSUME BmhInv, BmhStep, scan = "compare"
  PROVE  /\ Place \in Nat /\ Place + Len(pattern) <= Len(input)
         /\ pos \in 0..(BUFSIZE - 1) /\ bmhbuf[pos] = input[Place + Len(pattern)]
         /\ B!Fits <=> OccursAt(mode.icase, Place)
  <1> DEFINE plen == Len(pattern)
  <1>1. plen \in 1..BUFSIZE /\ Len(input) \in Nat /\ BUFSIZE \in Nat
    BY BmhFrame
  <1>2. /\ \A i \in 0..(BUFSIZE - 1) :
            bmhbuf[i] = IF i < end THEN input[fp - end + i + 1] ELSE EndChar
        /\ end \in 0..BUFSIZE /\ fp \in 0..Len(input) /\ end <= fp
        /\ pos \in 0..(BUFSIZE - 1) /\ pos < end /\ pos >= plen - 1
    BY DEF BmhInv, InBuffer, Searching, Window
  <1>3. /\ Place \in Nat /\ Place + plen <= Len(input)
        /\ fp - end + pos + 1 = Place + plen
    BY <1>1, <1>2 DEF Place
  <1>4. bmhbuf[pos] = input[Place + plen]
    BY <1>2, <1>3
  <1>5. ASSUME NEW i \in 0..(plen - 1)
        PROVE  bmhbuf[pos - (plen - 1) + i] = input[Place + (i + 1)]
    <2> DEFINE j == pos - (plen - 1) + i
    <2>1. j \in 0..(BUFSIZE - 1) /\ j < end /\ fp - end + j + 1 = Place + (i + 1)
      BY <1>1, <1>2 DEF Place
    <2> HIDE DEF j
    <2>2. bmhbuf[j] = input[Place + (i + 1)]
      BY <1>2, <2>1
    <2>3. QED
      BY <2>2 DEF j
  <1>6. B!Fits <=> \A i \in 0..(plen - 1) :
                     char_match(mode.icase, input[Place + (i + 1)],
                     pattern[i + 1])
    BY <1>5 DEF B!Fits, B!pendix, B!plen, B!char_match, char_match, B!tolower,
                tolower, B!udiff, udiff
  <1>7. (\A i \in 0..(plen - 1) :
           char_match(mode.icase, input[Place + (i + 1)], pattern[i + 1]))
        <=> \A k \in 1..plen : char_match(mode.icase, input[Place + k],
        pattern[k])
    <2>1. ASSUME NEW k \in 1..plen PROVE k - 1 \in 0..(plen - 1) /\ (k - 1) + 1 = k
      BY <1>1
    <2>2. ASSUME NEW i \in 0..(plen - 1) PROVE i + 1 \in 1..plen
      BY <1>1
    <2>3. ASSUME NEW k \in 1..plen,
                 \A i \in 0..(plen - 1) :
                   char_match(mode.icase, input[Place + (i + 1)],
                   pattern[i + 1])
          PROVE  char_match(mode.icase, input[Place + k], pattern[k])
      <3>1. PICK i \in 0..(plen - 1) : i + 1 = k
        BY <2>1
      <3>2. QED
        BY <2>3, <3>1
    <2>4. QED
      BY <2>2, <2>3
  <1>8. QED
    BY <1>2, <1>3, <1>4, <1>6, <1>7 DEF OccursAt

(* A step of the table never passes an occurrence: a place it would pass   *)
(* holds the last character of the window further left in the pattern.     *)
LEMMA TableRulesOut ==
  ASSUME BmhInv, BmhStep, scan = "compare",
         NEW s, s = IF B!isprintable(bmhbuf[pos])
                    THEN badchar[bmhbuf[pos]] ELSE Len(pattern)
  PROVE  /\ s \in 0..Len(pattern)
         /\ \A i \in (Place + 1)..(Place + s - 1) : ~OccursAt(FALSE, i)
  <1> DEFINE plen == Len(pattern)
             c == bmhbuf[pos]
             at == {k \in 1..(plen - 1) : pattern[k] = c}
  <1>1. /\ plen \in 1..BUFSIZE /\ Len(input) \in Nat /\ BUFSIZE \in Nat
        /\ Patterned(pattern) /\ badchar = B!bmh_table(pattern)
    BY BmhFrame
  <1>2. /\ Place \in Nat /\ Place + plen <= Len(input)
        /\ c = input[Place + plen]
    BY ComparedWindow
  <1>3. c \in Char /\ \A k \in 1..plen : B!isprintable(pattern[k])
    BY <1>1, <1>2 DEF BmhInv, ArgsWell, FileChar, Patterned, PatternChar
  <1>4. B!isprintable(c) =>
          s = IF at = {} THEN IF c = 126 THEN 0 ELSE plen ELSE plen - B!Max(at)
    <2> SUFFICES ASSUME B!isprintable(c)
                 PROVE  s = IF at = {} THEN IF c = 126 THEN 0 ELSE plen
                            ELSE plen - B!Max(at)
      OBVIOUS
    <2>1. c \in B!WS_LOW..B!PRINTABLE_HIGH
      BY DEF B!isprintable, B!PRINTABLE_LOW, B!PRINTABLE_HIGH, B!WS_LOW,
         B!WS_HIGH
    <2>2. B!bmh_table(pattern)[c] =
            IF at = {} THEN IF c = B!PRINTABLE_HIGH THEN 0 ELSE plen
            ELSE plen - B!Max(at)
      <3> HIDE DEF plen, c
      <3>1. QED
        BY <2>1 DEF B!bmh_table, plen
    <2>3. s = badchar[c]
      OBVIOUS
    <2>4. QED
      BY <1>1, <2>2, <2>3 DEF B!PRINTABLE_HIGH
  <1>5. at # {} => B!Max(at) \in 1..(plen - 1) /\ \A k \in at : k <= B!Max(at)
    <2>1. plen - 1 \in Nat /\ at \subseteq 1..(plen - 1)
      BY <1>1
    <2> HIDE DEF at
    <2>2. at # {} => B!Max(at) \in at /\ \A k \in at : k <= B!Max(at)
      BY <2>1, GreatestOf
    <2>3. QED
      BY <2>1, <2>2
  <1>6. s \in 0..plen
    <2> HIDE DEF at
    <2>1. QED
      BY <1>1, <1>4, <1>5
  <1>7. ASSUME NEW i \in (Place + 1)..(Place + s - 1), OccursAt(FALSE, i)
        PROVE  FALSE
    <2> DEFINE k == Place + plen - i
    <2>1. k \in 1..(plen - 1) /\ i + k = Place + plen /\ plen - k < s
      BY <1>1, <1>2, <1>6, <1>7
    <2> HIDE DEF k
    <2>2. pattern[k] = c
      BY <1>2, <1>7, <2>1 DEF OccursAt, char_match
    <2>3. k \in at /\ B!isprintable(c)
      BY <1>3, <2>1, <2>2
    <2> HIDE DEF at
    <2>4. k <= B!Max(at) /\ s = plen - B!Max(at) /\ B!Max(at) \in 1..(plen - 1)
      BY <1>4, <1>5, <2>3
    <2>5. QED
      BY <1>1, <2>1, <2>4
  <1>8. QED
    BY <1>6, <1>7

LEMMA MismatchWell ==
  ASSUME BmhInv, BmhStep, B!Mismatch
  PROVE  /\ InBuffer' /\ scan = "compare" /\ scan' = "skip"
         /\ Place' = Place /\ Place + skiplen' \in Nat /\ skiplen' \in Nat
         /\ \A i \in Place..(Place + skiplen' - 1) : ~OccursAt(FALSE, i)
         /\ UNCHANGED <<matchStart, matchEnd>>
  <1>1. /\ scan = "compare" /\ scan' = "skip" /\ ~B!Fits
        /\ skiplen' = IF B!isprintable(bmhbuf[pos])
                      THEN badchar[bmhbuf[pos]] ELSE Len(pattern)
        /\ UNCHANGED <<input, mode, fp, bmhbuf, pos, end, matchStart, matchEnd>>
    BY DEF B!Mismatch, B!fileVars, B!bufVars, B!matchVars, B!plen
  <1>2. pattern' = pattern /\ mode.icase \in BOOLEAN /\ Len(pattern) \in 1..BUFSIZE
    BY BmhFrame
  <1>3. PICK s : s = skiplen'
    OBVIOUS
  <1>4. /\ s \in 0..Len(pattern)
        /\ \A i \in (Place + 1)..(Place + s - 1) : ~OccursAt(FALSE, i)
    BY <1>1, <1>3, TableRulesOut
  <1>5. ~OccursAt(FALSE, Place) /\ Place \in Nat
    BY <1>1, <1>2, ComparedWindow, ExactOccurs
  <1>6. \A i \in Place..(Place + s - 1) : ~OccursAt(FALSE, i)
    <2> SUFFICES ASSUME NEW i \in Place..(Place + s - 1), i # Place
                 PROVE  i \in (Place + 1)..(Place + s - 1)
      BY <1>4, <1>5
    <2>1. s \in Int
      BY <1>4
    <2>2. QED
      BY <1>5, <2>1
  <1>7. InBuffer'
    <2>1. /\ Window(bmhbuf, end, fp) /\ pos \in 0..(BUFSIZE - 1)
          /\ pos < end /\ pos >= Len(pattern) - 1
      BY <1>1 DEF BmhInv, InBuffer, Searching
    <2>2. Window(bmhbuf, end, fp)'
      BY <1>1, <2>1 DEF Window
    <2>3. /\ s \in 0..Len(pattern) /\ pos + s >= Len(pattern) - 1
          /\ end # 0
      BY <1>2, <1>4, <2>1 DEF Window
    <2>4. QED
      BY <1>1, <1>2, <1>3, <2>1, <2>2, <2>3 DEF InBuffer
  <1>8. Place' = Place
    BY <1>1, <1>2 DEF Place
  <1>9. Place + s \in Nat /\ s \in Nat
    BY <1>2, <1>4, <1>5
  <1>10. QED
    BY <1>1, <1>3, <1>6, <1>7, <1>8, <1>9

LEMMA OccurrenceWell ==
  ASSUME BmhInv, BmhStep, B!Occurrence
  PROVE  /\ InBuffer' /\ FoundPlace' /\ scan = "compare" /\ scan' = "found"
         /\ OccursAt(mode.icase, Place)
         /\ matchStart' = Place /\ matchEnd' - 1 = Place + Len(pattern)
  <1>1. /\ scan = "compare" /\ scan' = "found" /\ B!Fits
        /\ matchStart' = fp - 1 - (Len(pattern) - 1) - (end - 1 - pos)
        /\ matchEnd' = fp + 1 - (end - 1 - pos)
        /\ UNCHANGED <<input, mode, fp, bmhbuf, pos, end>>
    BY DEF B!Occurrence, B!fileVars, B!bufVars, B!plen, B!pendix, B!endix
  <1>2. /\ pattern' = pattern /\ Len(pattern) \in 1..BUFSIZE /\ BUFSIZE \in Nat
        /\ Len(input) \in Nat
    BY BmhFrame
  <1>3. /\ Place \in Nat /\ Place + Len(pattern) <= Len(input)
        /\ OccursAt(mode.icase, Place)
    BY <1>1, ComparedWindow
  <1>4. fp \in Int /\ end \in Int /\ pos \in Int
    BY <1>1 DEF BmhInv, InBuffer, Searching, Window
  <1>5. matchStart' = Place /\ matchEnd' = Place + Len(pattern) + 1
    BY <1>1, <1>2, <1>4 DEF Place
  <1>6. FoundPlace'
    <2>1. Place \in 0..(Len(input) - Len(pattern))
      BY <1>2, <1>3
    <2>2. QED
      BY <1>1, <1>2, <1>5, <2>1 DEF FoundPlace
  <1>7. InBuffer'
    BY <1>1 DEF InBuffer, Searching
  <1>8. matchEnd' - 1 = Place + Len(pattern)
    BY <1>2, <1>3, <1>5
  <1>9. QED
    BY <1>1, <1>3, <1>5, <1>6, <1>7, <1>8

LEMMA BmhStepWell == BmhInv /\ BmhStep => BmhInv'
  <1> SUFFICES ASSUME BmhInv, BmhStep PROVE BmhInv'
    OBVIOUS
  <1>1. /\ ArgsWell' /\ PatternWell' /\ pc' = "bmh" /\ pattern' # <<>>
        /\ reset' \in 0..Len(input')
    BY BmhFrame DEF BmhInv, Phases, callVars
  <1>2. /\ InBuffer' /\ FoundPlace'
        /\ scan' \in {"skip", "compare", "found", "none"}
    <2>1. CASE B!Skip
      BY <2>1, SkipWell DEF FoundPlace
    <2>2. CASE B!Mismatch
      BY <2>2, MismatchWell DEF FoundPlace
    <2>3. CASE B!Occurrence
      BY <2>3, OccurrenceWell
    <2>4. QED
      BY <2>1, <2>2, <2>3 DEF BmhStep, B!Step
  <1>3. Phases'
    BY <1>1, <1>2 DEF Phases
  <1>4. QED
    BY <1>1, <1>2, <1>3 DEF BmhInv

LEMMA BmhUnchanged == BmhInv /\ UNCHANGED fsVars => BmhInv'
  BY DEF BmhInv, ArgsWell, Phases, PatternWell, InBuffer, Searching, Window,
         FoundPlace, fsVars, vmVars, vars, callVars, textVars, matchVars,
         currVars,
         nextVars, argVars, bmhVars, lineVars, retVars

LEMMA StepBmh == BmhInv /\ [FsNext]_fsVars => BmhInv'
  <1> SUFFICES ASSUME BmhInv, [FsNext]_fsVars PROVE BmhInv'
    OBVIOUS
  <1>1. CASE SimpleSearch \/ PartialSearch
    BY <1>1, EnterBmhWell
  <1>2. CASE VmSearch \/ ReadFile \/ VmStep \/ Return
    BY <1>2, VmPhaseWell
  <1>3. CASE BmhStep
    BY <1>3, BmhStepWell
  <1>4. CASE RunOnLine
    BY <1>4, RunOnLineWell
  <1>5. CASE GoOn
    BY <1>5, GoOnWell
  <1>6. CASE FsReturned \/ UNCHANGED fsVars
    BY <1>6, BmhUnchanged DEF FsReturned
  <1>7. QED
    BY <1>1, <1>2, <1>3, <1>4, <1>5, <1>6 DEF FsNext

LEMMA BmhInvariance == FsSpec => []BmhInv
  BY InitBmh, StepBmh, PTL DEF FsSpec

-----------------------------------------------------------------------------
(* Substring, as bmh implements it *)

LEMMA SameOccurs ==
  \A fold \in BOOLEAN, i \in Int : B!Search!Fits(fold, i) <=> OccursAt(fold, i)
  BY DEF B!Search!Fits, OccursAt, B!Search!char_match, char_match,
         B!Search!tolower, tolower, B!Search!udiff, udiff

ViewRight ==
  BmhInv /\ scan \in {"skip", "compare"} => B!WindowStart = Place

LEMMA WindowPlace == ViewRight
  <1> SUFFICES ASSUME BmhInv, scan \in {"skip", "compare"}
               PROVE  B!WindowStart = Place
    BY DEF ViewRight
  <1>1. fp \in Int /\ end \in Int /\ pos \in Int /\ Len(pattern) \in Int
    BY DEF BmhInv, InBuffer, Searching, Window, Phases, PatternWell, Patterned
  <1>2. QED
    BY <1>1 DEF Place, B!WindowStart, B!pendix, B!plen

LEMMA WindowPlaceNext == ViewRight'
  BY WindowPlace, PTL

LEMMA InitSearch == FsInit => B!Search!Init
  BY DEF FsInit, B!Search!Init, B!Search!Nowhere

(* The call of bmh_reset begins a search. *)
LEMMA BeginSearch ==
  ASSUME BmhInv, BmhInv', scan = "off", scan' = "skip", UNCHANGED <<input, mode>>,
         NEW f \in 0..Len(input), fp' - end' = f,
         skiplen' = Len(pattern') - 1, pos' = 0
  PROVE  B!Search!Begin
  <1>1. PICK p : p = Len(pattern')
    OBVIOUS
  <1>2. p \in Nat
    BY <1>1 DEF BmhInv, Phases, PatternWell, Patterned
  <1>3. (B!WindowStart)' = f + 0 - p + 1
    BY <1>1, WindowPlaceNext DEF ViewRight, Place
  <1>4. (B!WindowStart)' + skiplen' = f
    BY <1>1, <1>2, <1>3
  <1>5. QED
    BY <1>4 DEF B!Search!Begin, B!Search!callVars

LEMMA SkipSearch ==
  ASSUME BmhInv, BmhInv', BmhStep, B!Skip
  PROVE  B!Search!Exhaust \/ UNCHANGED B!Search!vars
  <1>1. /\ scan = "skip" /\ scan' \in {"compare", "none"}
        /\ Place' = Place + skiplen /\ Place + skiplen \in 0..Len(input)
        /\ scan' = "none" => Place + skiplen + Len(pattern) > Len(input)
        /\ UNCHANGED <<input, mode, pattern>>
        /\ Len(pattern) \in Nat /\ Len(input) \in Nat
    BY SkipWell, BmhFrame DEF B!Skip, callVars
  <1>2. B!WindowStart = Place
    BY <1>1, WindowPlace DEF ViewRight
  <1>3. CASE scan' = "compare"
    <2>1. (B!WindowStart)' = B!WindowStart + skiplen
      BY <1>1, <1>2, <1>3, WindowPlaceNext DEF ViewRight
    <2>2. UNCHANGED B!Search!vars
      BY <1>1, <1>3, <2>1 DEF B!Search!vars
    <2>3. QED
      BY <2>2
  <1>4. CASE scan' = "none"
    <2>1. ASSUME NEW i \in (Place + skiplen)..Len(input)
          PROVE  ~B!Search!MustReport(i)
      <3>1. PICK w \in Int : w = Place + skiplen
        BY <1>1
      <3>2. w + Len(pattern) > Len(input) /\ i \in w..Len(input)
        BY <1>1, <1>4, <3>1
      <3>3. i \in Int /\ ~(i + Len(pattern) <= Len(input))
        BY <1>1, <3>2
      <3>4. ~OccursAt(FALSE, i)
        BY <3>3 DEF OccursAt
      <3>5. QED
        BY <3>3, <3>4, SameOccurs DEF B!Search!MustReport
    <2>2. QED
      BY <1>1, <1>2, <1>4, <2>1 DEF B!Search!Exhaust, B!Search!callVars
  <1>5. QED
    BY <1>1, <1>3, <1>4

LEMMA MismatchSearch ==
  ASSUME BmhInv, BmhInv', BmhStep, B!Mismatch
  PROVE  B!Search!RuleOut \/ UNCHANGED B!Search!vars
  <1>1. /\ scan = "compare" /\ scan' = "skip" /\ Place' = Place
        /\ UNCHANGED <<input, mode, pattern>>
    BY MismatchWell, BmhFrame DEF callVars
  <1>2. PICK w \in Nat, s \in Nat :
          /\ w = Place /\ s = skiplen'
          /\ \A i \in Place..(Place + skiplen' - 1) : ~OccursAt(FALSE, i)
    BY <1>1, MismatchWell, ComparedWindow
  <1>3. B!WindowStart = w /\ (B!WindowStart)' = w
    BY <1>1, <1>2, WindowPlace, WindowPlaceNext DEF ViewRight
  <1>4. (B!WindowStart)' + skiplen' = w + s
    BY <1>2, <1>3
  <1>5. CASE s = 0
    <2>1. w + s = w
      BY <1>5
    <2>2. QED
      BY <1>1, <1>3, <1>4, <2>1 DEF B!Search!vars
  <1>6. CASE s # 0
    <2>1. w + s > w
      BY <1>6
    <2>2. ASSUME NEW i \in w..(w + s - 1)
          PROVE  ~B!Search!MustReport(i)
      <3>1. ~OccursAt(FALSE, i)
        BY <1>2
      <3>2. i \in Int
        OBVIOUS
      <3>3. QED
        BY <3>1, <3>2, SameOccurs DEF B!Search!MustReport
    <2>3. QED
      <3> DEFINE z == w + s
      <3>1. z > w /\ \A i \in w..(z - 1) : ~B!Search!MustReport(i)
        BY <2>1, <2>2
      <3>2. (B!WindowStart)' + skiplen' = z
        BY <1>4
      <3> HIDE DEF z
      <3>3. QED
        BY <1>1, <1>3, <3>1, <3>2 DEF B!Search!RuleOut, B!Search!callVars
  <1>7. QED
    BY <1>5, <1>6

LEMMA OccurrenceSearch ==
  ASSUME BmhInv, BmhStep, B!Occurrence
  PROVE  B!Search!Report
  <1>1. /\ scan = "compare" /\ scan' = "found"
        /\ OccursAt(mode.icase, Place)
        /\ matchStart' = Place /\ matchEnd' - 1 = Place + Len(pattern)
        /\ UNCHANGED <<input, mode, pattern>> /\ mode.icase \in BOOLEAN
    BY OccurrenceWell, BmhFrame DEF callVars
  <1>2. B!WindowStart = Place /\ Place \in Int
    BY <1>1, WindowPlace, ComparedWindow DEF ViewRight
  <1>3. B!Search!MayReport(Place)
    BY <1>1, <1>2, SameOccurs DEF B!Search!MayReport
  <1>4. QED
    BY <1>1, <1>2, <1>3 DEF B!Search!Report, B!Search!callVars

LEMMA StepSearch == BmhInv /\ BmhInv' /\ [FsNext]_fsVars => [B!Search!Next]_(B!Search!vars)
  <1> SUFFICES ASSUME BmhInv, BmhInv', [FsNext]_fsVars
               PROVE  [B!Search!Next]_(B!Search!vars)
    OBVIOUS
  <1>1. CASE SimpleSearch \/ PartialSearch
    <2>1. scan = "off" /\ fp \in 0..Len(input)
      BY <1>1 DEF SimpleSearch, PartialSearch, EnterBmh, BmhInv, Phases
    <2>2. B!Search!Begin
      BY <1>1, <2>1, EnterBmhWell, BeginSearch
    <2>3. QED
      BY <2>2 DEF B!Search!Next
  <1>2. CASE GoOn
    <2>1. scan = "off" /\ reset \in 0..Len(input)
      BY <1>2 DEF GoOn, BmhInv, Phases
    <2>2. B!Search!Begin
      BY <1>2, <2>1, GoOnWell, BeginSearch
    <2>3. QED
      BY <2>2 DEF B!Search!Next
  <1>3. CASE BmhStep
    BY <1>3, SkipSearch, MismatchSearch, OccurrenceSearch
       DEF BmhStep, B!Step, B!Search!Next
  <1>4. CASE RunOnLine \/ VmSearch \/ ReadFile \/ VmStep \/ Return
    <2>1. /\ scan' = "off" /\ scan \in {"off", "found", "none"}
          /\ UNCHANGED <<input, mode, pattern>>
      BY <1>4, RunOnLineWell, VmPhaseWell, ExecuteFrame
         DEF RunOnLine, VmSearch, ReadFile, ReadAs, VmStep, Return, Over,
         BmhInv,
             Phases
    <2>2. CASE scan = "found"
      BY <2>1, <2>2 DEF B!Search!Next, B!Search!Close, B!Search!callVars,
                        B!Search!Nowhere
    <2>3. CASE scan # "found"
      BY <2>1, <2>3 DEF B!Search!vars
    <2>4. QED
      BY <2>2, <2>3
  <1>5. CASE FsReturned \/ UNCHANGED fsVars
    BY <1>5 DEF FsReturned, fsVars, vmVars, vars, bmhVars, callVars, matchVars,
                B!Search!vars, B!WindowStart, B!pendix, B!plen
  <1>6. QED
    BY <1>1, <1>2, <1>3, <1>4, <1>5 DEF FsNext

-----------------------------------------------------------------------------
(* vm_execute on the file.  The first run reads the file in order: what is *)
(* left in fbuf is what the file holds from `chars` on.                    *)

ThreadShape == cp \in Seq(PCs) /\ np \in Seq(PCs) /\ t \in Nat

MatchShape ==
  /\ chars \in Nat /\ matchStart \in Nat /\ matchEnd \in Nat
  /\ pc = "entry" \/ Searching => matchEnd = 0
  /\ pc = "read" => matchStart <= chars
  /\ pc = "run" => matchStart < chars
  /\ pc \in {"read", "run", "done"} =>
       matchEnd = 0 \/ (matchStart < matchEnd /\ matchEnd <= chars)

Ahead(f, buf, n, at) ==
  /\ n <= f
  /\ \/ n + (FBUF_SIZE - at) = f
     \/ (n + (FBUF_SIZE - at) > f /\ f = Len(input))
  /\ \A i \in at..(FBUF_SIZE - 1) :
       /\ n + (i - at) < f => buf[i] = input[n + (i - at) + 1]
       /\ n + (i - at) = f => buf[i] = EndChar

FirstRun ==
  /\ runs \in 0..2
  /\ pc = "entry" => runs = 0
  /\ pc \in {"read", "run", "done"} => runs # 0
  /\ runs = 0 => bufpos = FBUF_SIZE
  /\ (runs = 1 /\ pc \in {"read", "run", "done"}) => chars <= Len(input) + 1
  /\ runs = 1 /\ (pc = "read" \/ (pc = "run" /\ C # EndChar)) =>
       Ahead(fp, fbuf, chars, bufpos)

Places ==
  /\ pc # "returned" => fp \in 0..Len(input)
  /\ boundary \in 0..(Len(input) + 1)
  /\ bufpos \in 0..FBUF_SIZE /\ pos \in 0..(BUFSIZE - 1)
  /\ skiplen \in 0..BUFSIZE

Outcome ==
  /\ pc # "returned" => ret = Unset /\ match_size = Unset
  /\ pc = "returned" => ret \in {0, 1}
  /\ pc = "returned" => fp \in (IF ret = 1 /\ runs = 2 THEN Nat ELSE 0..Len(input))
  /\ match_size \in {Unset} \cup IF runs = 2 THEN Nat ELSE 0..(Len(input) - fp)

FileInv == BmhInv /\ ThreadShape /\ MatchShape /\ FirstRun /\ Places /\ Outcome

(* The line is looked for between the limit and the place. *)
LEMMA LineStartBounds ==
  ASSUME NEW f \in Nat, NEW limit \in Nat
  PROVE  LineStart(f, limit) \in 0..f
  <1> DEFINE newlines == {i \in limit..(f - 1) : input[i + 1] = NL}
             chunk(i) == (f - 1 - i) \div LBUF_SIZE
             nearest == {i \in newlines : \A j \in newlines : chunk(i) <= chunk(j)}
  <1>1. LineStart(f, limit) = Min(IF newlines = {} THEN {f, limit} ELSE nearest)
    BY DEF LineStart
  <1>2. CASE newlines = {}
    <2>1. Min({f, limit}) \in 0..f
      BY MinOfTwo
    <2> HIDE DEF newlines, nearest
    <2>2. QED
      BY <1>1, <1>2, <2>1
  <1>3. CASE newlines # {}
    <2>1. newlines \subseteq 0..(f - 1)
      OBVIOUS
    <2>2. \A i \in newlines : chunk(i) \in Nat
      <3>1. LBUF_SIZE \in Nat /\ LBUF_SIZE > 0
        BY SizesAssumption
      <3>2. ASSUME NEW i \in newlines PROVE chunk(i) \in Nat
        <4>1. f - 1 - i \in Nat
          BY <2>1
        <4>2. QED
          BY <3>1, <4>1
      <3>3. QED
        BY <3>2
    <2> HIDE DEF newlines, chunk
    <2>3. PICK n \in {chunk(i) : i \in newlines} :
            \A m \in {chunk(i) : i \in newlines} : n <= m
      <3>1. {chunk(i) : i \in newlines} \in SUBSET Nat
        BY <2>2
      <3>2. {chunk(i) : i \in newlines} # {}
        BY <1>3
      <3>3. QED
        BY <3>1, <3>2, LeastNatural
    <2>4. PICK k \in newlines : n = chunk(k)
      BY <2>3
    <2>5. k \in nearest /\ nearest \subseteq 0..(f - 1)
      BY <2>1, <2>3, <2>4
    <2> HIDE DEF nearest
    <2>6. nearest # {} /\ nearest \in SUBSET Nat
      BY <2>5
    <2>7. PICK i \in nearest : \A j \in nearest : i <= j
      BY <2>6, LeastNatural
    <2>8. Min(nearest) \in nearest
      BY <2>7 DEF Min
    <2>9. LineStart(f, limit) \in 0..(f - 1)
      BY <1>1, <1>3, <2>5, <2>8
    <2>10. QED
      BY <2>9
  <1>4. QED
    BY <1>2, <1>3

LEMMA InitFile == FsInit => FileInv
  <1> SUFFICES ASSUME FsInit PROVE FileInv
    OBVIOUS
  <1>1. BmhInv /\ fp \in 0..Len(input) /\ Len(input) \in Nat
    BY InitBmh DEF FsInit, BmhInv, Phases, ArgsWell
  <1>2. FBUF_SIZE \in Nat \ {0} /\ BUFSIZE \in Nat \ {0}
    BY SizesAssumption
  <1>3. <<>> \in Seq(PCs)
    OBVIOUS
  <1>4. QED
    BY <1>1, <1>2, <1>3 DEF FsInit, FileInv, ThreadShape, MatchShape, FirstRun,
                            Places, Outcome, Unset, Searching

-----------------------------------------------------------------------------
(* The thread lists name instructions, whatever is read. *)

LEMMA ListedType ==
  ASSUME NEW S, NEW list \in Seq(S), NEW lookup, NEW val \in S
  PROVE  Listed(list, lookup, val) \in Seq(S)
  BY DEF Listed

LEMMA ExecuteFile ==
  ASSUME FileInv, VmStep
  PROVE  /\ ThreadShape' /\ MatchShape'
         /\ UNCHANGED <<input, chars, C>> /\ pc = "run"
         /\ pc' \in {"run", "read", "done"} /\ (pc' = "read" => C # EndChar)
  <1>1. /\ UNCHANGED callVars /\ pc = "run" /\ Execute
        /\ pc' \in {"read", "run", "done"} /\ PCs' = PCs /\ ~Searching'
    BY ExecuteFrame, VmPhaseWell DEF VmStep, callVars, PCs, FileInv, Searching
  <1>2. /\ cp \in Seq(PCs) /\ np \in Seq(PCs) /\ t \in Nat /\ WellFormed(prog)
        /\ chars \in Nat /\ matchStart \in Nat /\ matchEnd \in Nat
        /\ matchStart < chars
        /\ matchEnd = 0 \/ (matchStart < matchEnd /\ matchEnd <= chars)
    BY <1>1 DEF FileInv, ThreadShape, MatchShape, BmhInv, ArgsWell,
       CompiledWell
  <1>3. t < Len(cp) =>
          /\ ii \in PCs
          /\ inst.op \in OpConsume \cup OpAnchor => ii + 1 \in PCs
          /\ inst.op \in {"branch", "jmp"} => inst.x \in PCs
          /\ inst.op = "branch" => inst.y \in PCs
    <2> SUFFICES ASSUME t < Len(cp) PROVE
          /\ ii \in PCs
          /\ inst.op \in OpConsume \cup OpAnchor => ii + 1 \in PCs
          /\ inst.op \in {"branch", "jmp"} => inst.x \in PCs
          /\ inst.op = "branch" => inst.y \in PCs
      OBVIOUS
    <2>1. ii \in PCs
      BY <1>2 DEF ii
    <2>2. QED
      BY <1>2, <2>1, StaysInside DEF inst, PCs
  <1>4. CASE RunChar \/ RunAny \/ RunClass \/ RunNclass
    <2>1. /\ Running({"char", "any", "class", "nclass"})
          /\ np' = np \/ np' = Listed(np, npLookup, ii + 1)
          /\ t' = t + 1 /\ UNCHANGED <<callVars, textVars, matchVars, currVars, pc>>
      BY <1>4 DEF RunChar, RunAny, RunClass, RunNclass, Consume,
         add_thread_next,
                  nextVars, Running
    <2>2. np' \in Seq(PCs)
      BY <1>2, <1>3, <2>1, ListedType DEF Running, OpConsume
    <2>3. QED
      BY <1>1, <1>2, <2>1, <2>2 DEF ThreadShape, MatchShape, callVars,
         textVars,
                                    matchVars, currVars
  <1>5. CASE RunSol \/ RunEol
    <2>1. /\ Running({"sol", "eol"})
          /\ cp' = cp \/ cp' = Listed(cp, cpLookup, ii + 1)
          /\ t' = t + 1 /\ UNCHANGED <<callVars, textVars, matchVars, nextVars, pc>>
      BY <1>5 DEF RunSol, RunEol, Anchor, add_thread_curr, currVars, Running
    <2>2. cp' \in Seq(PCs)
      BY <1>2, <1>3, <2>1, ListedType DEF Running, OpAnchor
    <2>3. QED
      BY <1>1, <1>2, <2>1, <2>2 DEF ThreadShape, MatchShape, callVars,
         textVars,
                                    matchVars, nextVars
  <1>6. CASE RunBranch
    <2>1. /\ Running({"branch"})
          /\ cp' = Listed(Listed(cp, cpLookup, inst.x), cpLookup \cup {inst.x}, inst.y)
          /\ t' = t + 1 /\ UNCHANGED <<callVars, textVars, matchVars, nextVars, pc>>
      BY <1>6 DEF RunBranch
    <2>2. inst.x \in PCs /\ inst.y \in PCs
      BY <1>3, <2>1 DEF Running
    <2>3. Listed(cp, cpLookup, inst.x) \in Seq(PCs)
      BY <1>2, <2>2, ListedType
    <2>4. cp' \in Seq(PCs)
      BY <2>1, <2>2, <2>3, ListedType
    <2>5. QED
      BY <1>1, <1>2, <2>1, <2>4 DEF ThreadShape, MatchShape, callVars,
         textVars,
                                    matchVars, nextVars
  <1>7. CASE RunJmp
    <2>1. /\ Running({"jmp"}) /\ cp' = Listed(cp, cpLookup, inst.x)
          /\ t' = t + 1 /\ UNCHANGED <<callVars, textVars, matchVars, nextVars, pc>>
      BY <1>7 DEF RunJmp, add_thread_curr
    <2>2. cp' \in Seq(PCs)
      BY <1>2, <1>3, <2>1, ListedType DEF Running
    <2>3. QED
      BY <1>1, <1>2, <2>1, <2>2 DEF ThreadShape, MatchShape, callVars,
         textVars,
                                    matchVars, nextVars
  <1>8. CASE RunMatch
    <2>1. /\ matchEnd' = chars /\ t' \in {t, t + 1} /\ pc' \in {"run", "done"}
          /\ UNCHANGED <<callVars, textVars, matchStart, currVars, nextVars>>
      BY <1>8 DEF RunMatch
    <2>2. QED
      BY <1>1, <1>2, <2>1 DEF ThreadShape, MatchShape, callVars, textVars,
                              currVars, nextVars
  <1>9. CASE EndOfInput \/ GiveUp
    BY <1>1, <1>2, <1>9 DEF EndOfInput, GiveUp, ThreadShape, MatchShape,
       callVars,
         textVars, matchVars, currVars, nextVars
  <1>10. CASE Restart
    <2>1. <<0>> \in Seq(PCs)
      BY <1>2, StartsInside DEF PCs
    <2>2. /\ cp' = <<0>> /\ C # EndChar /\ matchEnd = 0 /\ t' \in {0, t}
          /\ \/ matchStart' = chars - 1 /\ pc' = "run"
             \/ matchStart' = chars /\ pc' = "read"
          /\ UNCHANGED <<callVars, textVars, matchEnd, nextVars>>
      BY <1>10 DEF Restart, Dead
    <2>3. QED
      BY <1>1, <1>2, <2>1, <2>2 DEF ThreadShape, MatchShape, callVars,
         textVars,
                                    nextVars
  <1>11. CASE Swap
    <2>1. /\ cp' = np /\ np' = <<>> /\ C # EndChar /\ pc' = "read"
          /\ UNCHANGED <<callVars, textVars, matchVars, t>>
      BY <1>11 DEF Swap
    <2>2. QED
      BY <1>1, <1>2, <2>1 DEF ThreadShape, MatchShape, callVars, textVars,
         matchVars
  <1>12. QED
    BY <1>1, <1>4, <1>5, <1>6, <1>7, <1>8, <1>9, <1>10, <1>11 DEF Execute

(* getchar_file: the first run reads the next character of the file *)
LEMMA ReadFileWell ==
  ASSUME FileInv, ReadFile
  PROVE  /\ FirstRun' /\ Places' /\ UNCHANGED <<input, runs>>
         /\ chars' = chars + 1 /\ pc' = "run" /\ pc = "read"
         /\ runs = 1 => C' = N!CharAt(chars)
  <1> DEFINE num == IF FBUF_SIZE <= Len(input) - fp THEN FBUF_SIZE ELSE Len(input) - fp
             full == bufpos = FBUF_SIZE
             r == IF full THEN Refilled ELSE [fp |-> fp, buf |-> fbuf]
             at == bufpos % FBUF_SIZE
  <1>1. PICK c \in IF r.buf[at] = Uninit THEN Garbage ELSE {r.buf[at]} :
          /\ ReadAs(c) /\ fp' = r.fp /\ fbuf' = [r.buf EXCEPT ![at] = c]
          /\ bufpos' = at + 1 /\ UNCHANGED <<bmhVars, boundary, runs>>
    BY DEF ReadFile
  <1>2. /\ C' = c /\ chars' = chars + 1 /\ pc' = "run" /\ pc = "read"
        /\ UNCHANGED <<input, pos, skiplen, boundary, runs>>
    BY <1>1 DEF ReadAs, callVars, bmhVars
  <1>3. /\ fp \in 0..Len(input) /\ Len(input) \in Nat /\ chars \in Nat
        /\ bufpos \in 0..FBUF_SIZE /\ FBUF_SIZE \in Nat /\ FBUF_SIZE > 0
        /\ \A i \in 1..Len(input) : input[i] \in FileChar
    BY <1>2, SizesAssumption DEF FileInv, Places, MatchShape, BmhInv, ArgsWell
  <1>4. at = IF full THEN 0 ELSE bufpos
    BY <1>3
  <1>5. full => /\ r.fp = fp + num
                /\ r.buf = [i \in 0..(FBUF_SIZE - 1) |->
                              IF i < num THEN input[fp + i + 1]
                              ELSE IF i = num THEN EndChar ELSE fbuf[i]]
    <2>1. Min({FBUF_SIZE, Len(input) - fp}) = num
      BY <1>3, MinOfTwo
    <2>2. QED
      BY <2>1 DEF Refilled
  <1>6. ~full => r.fp = fp /\ r.buf = fbuf
    OBVIOUS
  <1>7. num \in 0..FBUF_SIZE /\ (num < FBUF_SIZE => fp + num = Len(input))
        /\ fp + num \in 0..Len(input)
    BY <1>3
  <1> HIDE DEF r, num, at
  <1>8. r.fp \in 0..Len(input) /\ at \in 0..(FBUF_SIZE - 1)
    BY <1>3, <1>4, <1>5, <1>6, <1>7
  <1>9. Places'
    <2>1. bufpos' \in 0..FBUF_SIZE /\ fp' \in 0..Len(input)
      BY <1>1, <1>3, <1>8
    <2>2. QED
      BY <1>2, <2>1 DEF Places, FileInv
  <1>10. ASSUME runs = 1
         PROVE  /\ chars + 1 <= Len(input) + 1 /\ c = N!CharAt(chars)
                /\ c # EndChar => Ahead(fp', fbuf', chars + 1, bufpos')
    <2>1. Ahead(fp, fbuf, chars, bufpos)
      BY <1>2, <1>10 DEF FileInv, FirstRun
    <2>2. CASE full
      <3>1. chars = fp
        BY <1>3, <2>1, <2>2 DEF Ahead
      <3>2. r.buf[0] = IF num = 0 THEN EndChar ELSE input[fp + 1]
        BY <1>3, <1>5, <1>7, <2>2
      <3>3. num # 0 => input[fp + 1] \in FileChar
        BY <1>3, <1>7
      <3>4. c = r.buf[0] /\ at = 0
        BY <1>1, <1>4, <2>2, <3>2, <3>3 DEF Uninit, EndChar, FileChar, Char
      <3>5. ASSUME c # EndChar PROVE Ahead(fp', fbuf', chars + 1, bufpos')
        <4>1. num # 0 /\ fp' = fp + num /\ bufpos' = 1
          BY <1>1, <1>5, <2>2, <3>2, <3>4, <3>5
        <4>2. ASSUME NEW i \in 1..(FBUF_SIZE - 1)
              PROVE  /\ chars + 1 + (i - 1) < fp + num =>
                          fbuf'[i] = input[chars + 1 + (i - 1) + 1]
                     /\ chars + 1 + (i - 1) = fp + num => fbuf'[i] = EndChar
          <5>1. i \in 0..(FBUF_SIZE - 1) /\ i # 0 /\ chars + 1 + (i - 1) = fp + i
            BY <1>3, <3>1
          <5>2. fbuf'[i] = r.buf[i]
            BY <1>1, <1>5, <2>2, <3>4, <5>1
          <5>3. r.buf[i] = IF i < num THEN input[fp + i + 1]
                           ELSE IF i = num THEN EndChar ELSE fbuf[i]
            BY <1>5, <2>2, <5>1
          <5>4. /\ fp + i < fp + num => i < num
                /\ fp + i = fp + num => i = num
            BY <1>3, <1>7, <5>1
          <5>5. QED
            BY <1>7, <5>1, <5>2, <5>3, <5>4
        <4>3. /\ chars + 1 <= fp + num
              /\ \/ chars + 1 + (FBUF_SIZE - 1) = fp + num
                 \/ (chars + 1 + (FBUF_SIZE - 1) > fp + num /\ fp + num = Len(input))
          BY <1>3, <1>7, <3>1, <4>1
        <4>4. QED
          BY <1>2, <4>1, <4>2, <4>3 DEF Ahead
      <3>6. c = N!CharAt(chars)
        <4>1. num = 0 <=> ~(fp < Len(input))
          BY <1>3, <1>7 DEF num
        <4>2. QED
          BY <3>1, <3>2, <3>4, <4>1 DEF N!CharAt, N!EndChar, EndChar
      <3>7. QED
        BY <1>3, <3>1, <3>5, <3>6
    <2>3. CASE ~full
      <3>1. /\ bufpos \in 0..(FBUF_SIZE - 1) /\ at = bufpos
            /\ chars + (bufpos - bufpos) = chars
        BY <1>3, <1>4, <2>3
      <3>2. /\ chars <= fp
            /\ chars < fp => fbuf[bufpos] = input[chars + 1]
            /\ chars = fp => fbuf[bufpos] = EndChar
            /\ chars + (FBUF_SIZE - bufpos) = fp
               \/ (chars + (FBUF_SIZE - bufpos) > fp /\ fp = Len(input))
        <4>1. bufpos \in bufpos..(FBUF_SIZE - 1)
          BY <3>1
        <4>2. QED
          BY <2>1, <3>1, <4>1 DEF Ahead
      <3>3. chars < fp => input[chars + 1] \in FileChar
        BY <1>3
      <3>4. c = fbuf[bufpos] /\ fp' = fp /\ bufpos' = bufpos + 1
            /\ fbuf' = [fbuf EXCEPT ![bufpos] = c]
        <4>1. chars < fp \/ chars = fp
          BY <1>3, <3>2
        <4>2. fbuf[bufpos] # Uninit
          <5>1. Uninit \notin FileChar /\ Uninit # EndChar
            BY DEF Uninit, EndChar, FileChar, Char
          <5>2. fbuf[bufpos] \in FileChar \/ fbuf[bufpos] = EndChar
            BY <3>2, <3>3, <4>1
          <5>3. QED
            BY <5>1, <5>2
        <4>3. r.buf = fbuf /\ r.fp = fp /\ at = bufpos
          BY <1>6, <2>3, <3>1
        <4>4. QED
          BY <1>1, <4>2, <4>3
      <3>5. ASSUME c # EndChar PROVE Ahead(fp', fbuf', chars + 1, bufpos')
        <4>1. /\ chars < fp /\ fp' = fp /\ bufpos' = bufpos + 1
              /\ fbuf' = [fbuf EXCEPT ![bufpos] = c]
          <5>1. chars # fp
            BY <3>2, <3>4, <3>5
          <5>2. chars < fp
            BY <1>3, <3>2, <5>1
          <5>3. QED
            BY <3>4, <5>2
        <4>2. ASSUME NEW i \in (bufpos + 1)..(FBUF_SIZE - 1)
              PROVE  /\ chars + 1 + (i - (bufpos + 1)) < fp =>
                          fbuf'[i] = input[chars + 1 + (i - (bufpos + 1)) + 1]
                     /\ chars + 1 + (i - (bufpos + 1)) = fp => fbuf'[i] = EndChar
          <5>1. /\ i \in bufpos..(FBUF_SIZE - 1) /\ i # bufpos
                /\ chars + 1 + (i - (bufpos + 1)) = chars + (i - bufpos)
            BY <1>3, <3>1
          <5>2. fbuf'[i] = fbuf[i]
            BY <4>1, <5>1
          <5>3. /\ chars + (i - bufpos) < fp => fbuf[i] = input[chars + (i - bufpos) + 1]
                /\ chars + (i - bufpos) = fp => fbuf[i] = EndChar
            BY <2>1, <5>1 DEF Ahead
          <5>4. QED
            BY <5>1, <5>2, <5>3
        <4>3. /\ chars + 1 <= fp
              /\ \/ chars + 1 + (FBUF_SIZE - (bufpos + 1)) = fp
                 \/ (chars + 1 + (FBUF_SIZE - (bufpos + 1)) > fp /\ fp = Len(input))
          BY <1>3, <3>1, <3>2, <4>1
        <4>4. QED
          BY <1>2, <4>1, <4>2, <4>3 DEF Ahead
      <3>6. c = N!CharAt(chars)
        <4>1. \/ chars < fp /\ chars < Len(input)
              \/ chars = fp /\ fp = Len(input)
          <5>1. bufpos \in Nat /\ bufpos < FBUF_SIZE /\ FBUF_SIZE \in Nat
            BY <1>3, <3>1
          <5>2. chars + (FBUF_SIZE - bufpos) = fp => chars < fp
            BY <1>3, <5>1
          <5>3. chars + (FBUF_SIZE - bufpos) = fp \/ fp = Len(input)
            BY <3>2
          <5>4. chars <= fp /\ fp <= Len(input)
            BY <1>3, <3>2
          <5>5. QED
            BY <1>3, <5>2, <5>3, <5>4
        <4>2. QED
          BY <1>3, <3>2, <3>4, <4>1 DEF N!CharAt, N!EndChar, EndChar
      <3>7. QED
        BY <1>3, <3>2, <3>5, <3>6
    <2>4. QED
      BY <2>2, <2>3
  <1>11. FirstRun'
    <2>1. runs \in 0..2 /\ runs # 0
      BY <1>2 DEF FileInv, FirstRun
    <2>2. PICK n : n = chars + 1
      OBVIOUS
    <2>3. /\ chars' = n /\ UNCHANGED <<input, runs>> /\ pc' = "run" /\ C' = c
      BY <1>2, <2>2
    <2>4. runs = 1 => /\ n <= Len(input) + 1
                      /\ c # EndChar => Ahead(fp', fbuf', n, bufpos')
      BY <1>10, <2>2
    <2>5. (Ahead(fp, fbuf, chars, bufpos))' <=> Ahead(fp', fbuf', n, bufpos')
      BY <2>3 DEF Ahead
    <2>6. QED
      BY <2>1, <2>3, <2>4, <2>5 DEF FirstRun
  <1>12. runs = 1 => C' = N!CharAt(chars)
    BY <1>2, <1>10
  <1>13. QED
    BY <1>2, <1>9, <1>11, <1>12

-----------------------------------------------------------------------------
(* Every step of the call keeps it. *)

ScanPlaces ==
  BmhInv /\ Searching =>
    /\ fp \in 0..Len(input) /\ pos \in 0..(BUFSIZE - 1)
    /\ scan = "skip" => skiplen \in 0..BUFSIZE

LEMMA ScanPlaced == ScanPlaces
  <1> SUFFICES ASSUME BmhInv, Searching
               PROVE  /\ fp \in 0..Len(input) /\ pos \in 0..(BUFSIZE - 1)
                      /\ scan = "skip" => skiplen \in 0..BUFSIZE
    BY DEF ScanPlaces
  <1>1. Len(pattern) \in 1..BUFSIZE /\ BUFSIZE \in Nat
    BY SizesAssumption DEF BmhInv, Searching, Phases, PatternWell, Patterned
  <1>2. QED
    BY <1>1 DEF BmhInv, InBuffer, Window

LEMMA ScanPlacedNext == ScanPlaces'
  BY ScanPlaced, PTL

LEMMA EnterBmhFile ==
  ASSUME FileInv, SimpleSearch \/ PartialSearch \/ GoOn
  PROVE  FileInv'
  <1>1. BmhInv' /\ scan' = "skip" /\ UNCHANGED input
    BY EnterBmhWell, GoOnWell DEF FileInv
  <1>2. /\ fp' \in 0..Len(input) /\ pos' \in 0..(BUFSIZE - 1)
        /\ skiplen' \in 0..BUFSIZE
    BY <1>1, ScanPlacedNext DEF ScanPlaces, Searching
  <1>3. /\ UNCHANGED <<prog, chars, matchStart, matchEnd, cp, np, t, bufpos, runs, ret,
                       match_size>>
        /\ boundary' \in {boundary, fp} /\ (boundary' = fp => fp \in 0..Len(input))
        /\ pc' = "bmh" /\ pc # "returned" /\ matchEnd = 0
    <2>1. CASE SimpleSearch \/ PartialSearch
      BY <2>1 DEF SimpleSearch, PartialSearch, EnterBmh, callVars, textVars,
         matchVars,
                  currVars, nextVars, retVars, FileInv, Places, MatchShape
    <2>2. CASE GoOn
      BY <2>2 DEF GoOn, callVars, textVars, matchVars, currVars, nextVars,
         lineVars,
                  retVars, FileInv, Places
    <2>3. QED
      BY <2>1, <2>2
  <1>4. ThreadShape' /\ MatchShape'
    BY <1>1, <1>3 DEF FileInv, ThreadShape, MatchShape, PCs
  <1>5. FirstRun'
    BY <1>3 DEF FileInv, FirstRun
  <1>6. Places'
    <2>1. boundary' \in 0..(Len(input) + 1)
      BY <1>3 DEF FileInv, Places, BmhInv, ArgsWell
    <2>2. QED
      BY <1>1, <1>2, <1>3, <2>1 DEF FileInv, Places
  <1>7. Outcome'
    BY <1>3 DEF FileInv, Outcome
  <1>8. QED
    BY <1>1, <1>4, <1>5, <1>6, <1>7 DEF FileInv

LEMMA BmhStepFile == FileInv /\ BmhStep => FileInv'
  <1> SUFFICES ASSUME FileInv, BmhStep PROVE FileInv'
    OBVIOUS
  <1>1. BmhInv /\ BmhInv' /\ UNCHANGED <<callVars, pattern, pc>> /\ pc = "bmh"
    BY BmhFrame, BmhStepWell DEF FileInv
  <1>2. /\ UNCHANGED <<prog, input, chars, cp, np, t, bufpos, runs, ret, match_size,
                       boundary>>
    BY <1>1 DEF BmhStep, callVars, textVars, currVars, nextVars, lineVars,
       retVars
  <1>3. /\ fp' \in 0..Len(input) /\ pos' \in 0..(BUFSIZE - 1)
        /\ skiplen' \in 0..BUFSIZE
        /\ matchStart' \in Nat /\ matchEnd' \in Nat /\ (Searching' => matchEnd' = 0)
    <2>1. /\ fp \in 0..Len(input) /\ pos \in 0..(BUFSIZE - 1) /\ skiplen \in 0..BUFSIZE
          /\ matchStart \in Nat /\ matchEnd \in Nat /\ (Searching => matchEnd = 0)
      BY <1>1 DEF FileInv, Places, MatchShape
    <2>2. CASE B!Skip
      <3>1. /\ Searching /\ Searching' /\ UNCHANGED skiplen
            /\ UNCHANGED <<matchStart, matchEnd>>
        BY <1>1, <2>2, SkipWell DEF B!Skip, Searching
      <3>2. QED
        BY <1>1, <1>2, <2>1, <3>1, ScanPlacedNext DEF ScanPlaces
    <2>3. CASE B!Mismatch
      <3>1. /\ Searching /\ Searching' /\ scan' = "skip"
            /\ UNCHANGED <<matchStart, matchEnd>>
        BY <1>1, <2>3, MismatchWell DEF Searching
      <3>2. QED
        BY <1>1, <1>2, <2>1, <3>1, ScanPlacedNext DEF ScanPlaces
    <2>4. CASE B!Occurrence
      <3>1. /\ scan' = "found" /\ FoundPlace' /\ UNCHANGED <<fp, pos, skiplen>>
        BY <1>1, <2>4, OccurrenceWell DEF B!Occurrence, B!bufVars
      <3>2. Len(pattern) \in Nat /\ Len(input) \in Nat
        BY <1>1, BmhFrame
      <3>3. PICK m : m = matchStart'
        OBVIOUS
      <3>4. m \in 0..(Len(input) - Len(pattern)) /\ matchEnd' = m + Len(pattern) + 1
        BY <1>1, <1>2, <3>1, <3>3 DEF FoundPlace
      <3>5. m \in Nat /\ m + Len(pattern) + 1 \in Nat
        BY <3>2, <3>4
      <3>6. QED
        BY <2>1, <3>1, <3>3, <3>4, <3>5 DEF Searching
    <2>5. QED
      BY <2>2, <2>3, <2>4 DEF BmhStep, B!Step
  <1>4. ThreadShape' /\ MatchShape'
    BY <1>1, <1>2, <1>3 DEF FileInv, ThreadShape, MatchShape, PCs
  <1>5. FirstRun'
    BY <1>1, <1>2 DEF FileInv, FirstRun
  <1>6. Places'
    BY <1>1, <1>2, <1>3 DEF FileInv, Places
  <1>7. Outcome'
    BY <1>1, <1>2 DEF FileInv, Outcome
  <1>8. QED
    BY <1>1, <1>4, <1>5, <1>6, <1>7 DEF FileInv

LEMMA EnterVmFile ==
  ASSUME FileInv, RunOnLine \/ VmSearch
  PROVE  FileInv'
  <1>1. BmhInv' /\ BmhInv /\ scan' = "off"
    BY RunOnLineWell, VmPhaseWell DEF FileInv
  <1>2. /\ fp' \in 0..Len(input) /\ boundary' \in 0..(Len(input) + 1)
        /\ EnterVm(fp') /\ matchEnd' = 0
        /\ UNCHANGED <<pos, skiplen, fbuf, bufpos>> /\ pc # "returned"
    <2>1. CASE RunOnLine
      <3>1. /\ fp' = LineStart(matchStart, boundary) /\ boundary' = matchEnd
            /\ EnterVm(fp') /\ matchEnd' = 0
            /\ UNCHANGED <<pos, skiplen, fbuf, bufpos>> /\ pc = "bmh" /\ scan = "found"
        BY <2>1 DEF RunOnLine
      <3>2. /\ matchStart \in 0..(Len(input) - Len(pattern))
            /\ matchEnd = matchStart + Len(pattern) + 1
            /\ Len(pattern) \in Nat /\ Len(input) \in Nat /\ boundary \in Nat
        BY <1>1, <3>1 DEF BmhInv, FoundPlace, Phases, PatternWell, Patterned,
           ArgsWell,
                          FileInv, Places
      <3>3. /\ matchStart \in Nat /\ matchStart <= Len(input)
            /\ matchEnd \in 0..(Len(input) + 1)
        BY <3>2
      <3>4. LineStart(matchStart, boundary) \in 0..matchStart
        BY <3>2, <3>3, LineStartBounds
      <3>5. LineStart(matchStart, boundary) \in 0..Len(input)
        BY <3>2, <3>3, <3>4
      <3>6. QED
        BY <3>1, <3>3, <3>5
    <2>2. CASE VmSearch
      BY <2>2 DEF VmSearch, bmhVars, FileInv, Places, MatchShape, EnterVm
    <2>3. QED
      BY <2>1, <2>2
  <1>3. /\ chars' = fp' /\ matchStart' = fp' /\ cp' = <<0>> /\ np' = <<>> /\ t' = 0
        /\ pc' = "read" /\ runs' = Min({runs + 1, 2})
        /\ UNCHANGED <<prog, input, ret, match_size>>
    BY <1>2 DEF EnterVm, callVars, retVars
  <1>4. /\ runs \in 0..2 /\ (runs = 0 => bufpos = FBUF_SIZE) /\ FBUF_SIZE \in Nat
        /\ bufpos \in 0..FBUF_SIZE /\ Len(input) \in Nat
    BY <1>1, SizesAssumption DEF FileInv, FirstRun, Places, BmhInv, ArgsWell
  <1>5. runs' = IF runs + 1 <= 2 THEN runs + 1 ELSE 2
    BY <1>3, <1>4, MinOfTwo
  <1>6. ThreadShape'
    <2>1. WellFormed(prog)
      BY <1>1 DEF BmhInv, ArgsWell, CompiledWell
    <2>2. 0 \in PCs
      BY <2>1, StartsInside DEF PCs
    <2>3. <<0>> \in Seq(PCs) /\ <<>> \in Seq(PCs) /\ PCs' = PCs
      BY <1>3, <2>2 DEF PCs
    <2>4. QED
      BY <1>3, <2>3 DEF ThreadShape
  <1>7. MatchShape'
    BY <1>1, <1>2, <1>3 DEF MatchShape, Searching
  <1>8. FirstRun'
    <2>1. PICK f \in 0..Len(input) : f = fp'
      BY <1>2
    <2>2. bufpos = FBUF_SIZE => Ahead(f, fbuf, f, bufpos)
      <3> SUFFICES ASSUME bufpos = FBUF_SIZE PROVE Ahead(f, fbuf, f, FBUF_SIZE)
        OBVIOUS
      <3>1. /\ f <= f /\ f + (FBUF_SIZE - FBUF_SIZE) = f
            /\ \A i \in FBUF_SIZE..(FBUF_SIZE - 1) : FALSE
        BY <1>4
      <3>2. QED
        BY <3>1 DEF Ahead
    <2>3. (Ahead(fp, fbuf, chars, bufpos))' <=> Ahead(f, fbuf, f, bufpos)
      BY <1>2, <1>3, <2>1 DEF Ahead
    <2>4. f <= Len(input) + 1
      BY <1>4, <2>1
    <2>5. runs' \in 1..2 /\ (runs' = 1 => bufpos = FBUF_SIZE)
      BY <1>4, <1>5
    <2>6. runs' \in 0..2 /\ runs' # 0
      BY <2>5
    <2>7. QED
      BY <1>2, <1>3, <2>1, <2>2, <2>3, <2>4, <2>5, <2>6 DEF FirstRun
  <1>9. Places'
    BY <1>2, <1>3 DEF FileInv, Places
  <1>10. Outcome'
    BY <1>2, <1>3 DEF FileInv, Outcome
  <1>11. QED
    BY <1>1, <1>6, <1>7, <1>8, <1>9, <1>10 DEF FileInv

LEMMA ReadFileKeeps == FileInv /\ ReadFile => FileInv'
  <1> SUFFICES ASSUME FileInv, ReadFile PROVE FileInv'
    OBVIOUS
  <1>1. BmhInv' /\ scan' = "off"
    BY VmPhaseWell DEF FileInv
  <1>2. /\ FirstRun' /\ Places' /\ UNCHANGED <<input, runs>>
        /\ chars' = chars + 1 /\ pc' = "run" /\ pc = "read"
    BY ReadFileWell
  <1>3. /\ UNCHANGED <<prog, matchStart, matchEnd, cp, np, ret, match_size>> /\ t' = 0
    BY DEF ReadFile, ReadAs, callVars, matchVars, currVars, nextVars, retVars
  <1>4. ThreadShape'
    BY <1>3 DEF FileInv, ThreadShape, PCs
  <1>5. MatchShape'
    <2>1. /\ chars \in Nat /\ matchStart \in Nat /\ matchEnd \in Nat
          /\ matchStart <= chars
          /\ matchEnd = 0 \/ (matchStart < matchEnd /\ matchEnd <= chars)
      BY <1>2 DEF FileInv, MatchShape
    <2>2. QED
      BY <1>1, <1>2, <1>3, <2>1 DEF MatchShape, Searching
  <1>6. Outcome'
    BY <1>2, <1>3 DEF FileInv, Outcome, Places
  <1>7. QED
    BY <1>1, <1>2, <1>4, <1>5, <1>6 DEF FileInv

LEMMA VmStepFile == FileInv /\ VmStep => FileInv'
  <1> SUFFICES ASSUME FileInv, VmStep PROVE FileInv'
    OBVIOUS
  <1>1. BmhInv'
    BY VmPhaseWell DEF FileInv
  <1>2. /\ ThreadShape' /\ MatchShape'
        /\ UNCHANGED <<input, chars, C>> /\ pc = "run"
        /\ pc' \in {"run", "read", "done"} /\ (pc' = "read" => C # EndChar)
    BY ExecuteFile
  <1>3. UNCHANGED <<fp, fbuf, bufpos, boundary, runs, pos, skiplen, ret, match_size>>
    BY DEF VmStep, bmhVars, lineVars, retVars
  <1>4. FirstRun'
    <2>1. (Ahead(fp, fbuf, chars, bufpos))' <=> Ahead(fp, fbuf, chars, bufpos)
      BY <1>2, <1>3 DEF Ahead
    <2>2. QED
      BY <1>2, <1>3, <2>1 DEF FileInv, FirstRun
  <1>5. Places' /\ Outcome'
    BY <1>2, <1>3 DEF FileInv, Places, Outcome
  <1>6. QED
    BY <1>1, <1>2, <1>4, <1>5 DEF FileInv

(* The size of a match is not negative, and the match lies in the file if  *)
(* the first run or bmh found it.                                          *)
LEMMA ReturnFile == FileInv /\ Return => FileInv'
  <1> SUFFICES ASSUME FileInv, Return PROVE FileInv'
    OBVIOUS
  <1>1. BmhInv' /\ BmhInv /\ scan' = "off"
    BY VmPhaseWell DEF FileInv
  <1>2. /\ pc' = "returned" /\ Over
        /\ UNCHANGED <<prog, input, chars, matchStart, matchEnd, cp, np, t, bufpos, runs,
                       boundary, pos, skiplen>>
        /\ pc \in {"bmh", "done"}
    BY DEF Return, Over, callVars, textVars, matchVars, currVars, nextVars,
       lineVars
  <1>3. ThreadShape' /\ MatchShape' /\ FirstRun' /\ Places'
    <2>1. ThreadShape' /\ MatchShape'
      BY <1>1, <1>2 DEF FileInv, ThreadShape, MatchShape, PCs, Searching
    <2>2. FirstRun' /\ Places'
      BY <1>2 DEF FileInv, FirstRun, Places
    <2>3. QED
      BY <2>1, <2>2
  <1>4. /\ matchStart \in Nat /\ matchEnd \in Nat /\ Len(input) \in Nat
        /\ ret = Unset /\ match_size = Unset /\ fp \in 0..Len(input)
    BY <1>1, <1>2 DEF FileInv, MatchShape, Outcome, Places, BmhInv, ArgsWell
  <1>5. CASE matchEnd = 0
    <2>1. ret' = 0 /\ UNCHANGED <<fp, match_size>>
      BY <1>5 DEF Return
    <2>2. Outcome'
      BY <1>2, <1>4, <2>1 DEF Outcome
    <2>3. QED
      BY <1>1, <1>3, <2>2 DEF FileInv
  <1>6. CASE matchEnd # 0
    <2>1. /\ ret' = 1 /\ fp' = matchStart /\ match_size' = matchEnd - matchStart - 1
      BY <1>6 DEF Return
    <2>2. /\ matchStart < matchEnd
          /\ runs = 2 \/ matchEnd <= Len(input) + 1
      <3>1. CASE pc = "done"
        <4>1. /\ matchStart < matchEnd /\ matchEnd <= chars /\ chars \in Nat
              /\ runs \in {1, 2} /\ (runs = 1 => chars <= Len(input) + 1)
          BY <1>6, <3>1 DEF FileInv, MatchShape, FirstRun
        <4>2. QED
          BY <1>4, <4>1
      <3>2. CASE pc = "bmh"
        <4>1. scan = "found"
          BY <1>1, <1>6, <3>2 DEF FileInv, MatchShape, BmhInv, Phases,
             Searching
        <4>2. /\ matchStart \in 0..(Len(input) - Len(pattern))
              /\ matchEnd = matchStart + Len(pattern) + 1
              /\ Len(pattern) \in Nat
          BY <1>1, <4>1 DEF BmhInv, FoundPlace, Phases, PatternWell, Patterned
        <4>3. QED
          BY <1>4, <4>2
      <3>3. QED
        BY <1>2, <3>1, <3>2
    <2>3. /\ matchEnd - matchStart - 1 \in Nat
          /\ runs = 2 \/ (/\ matchStart \in 0..Len(input)
                          /\ matchEnd - matchStart - 1 \in 0..(Len(input) - matchStart))
      BY <1>4, <2>2
    <2>4. Outcome'
      BY <1>2, <1>4, <2>1, <2>3 DEF Outcome
    <2>5. QED
      BY <1>1, <1>3, <2>4 DEF FileInv
  <1>7. QED
    BY <1>5, <1>6

LEMMA FileUnchanged == FileInv /\ UNCHANGED fsVars => FileInv'
  <1> SUFFICES ASSUME FileInv, UNCHANGED fsVars PROVE FileInv'
    OBVIOUS
  <1>1. BmhInv'
    BY BmhUnchanged DEF FileInv
  <1>2. ThreadShape' /\ MatchShape'
    BY DEF FileInv, ThreadShape, MatchShape, Searching, PCs, fsVars, vmVars,
       vars,
           callVars, textVars, matchVars, currVars, nextVars, bmhVars
  <1>3. FirstRun' /\ Places' /\ Outcome'
    BY DEF FileInv, FirstRun, Places, Outcome, Ahead, fsVars, vmVars, vars,
       callVars,
           textVars, bmhVars, lineVars, retVars
  <1>4. QED
    BY <1>1, <1>2, <1>3 DEF FileInv

LEMMA StepFile == FileInv /\ [FsNext]_fsVars => FileInv'
  BY EnterBmhFile, BmhStepFile, EnterVmFile, ReadFileKeeps, VmStepFile,
     ReturnFile,
     FileUnchanged DEF FsNext, FsReturned

LEMMA FileInvariance == FsSpec => []FileInv
  BY InitFile, StepFile, PTL DEF FsSpec

(* Indices stay in their buffers, positions in the file and a size is not  *)
(* negative: what the first run of vm_execute reports lies in the file.    *)
THEOREM FsTypeCorrect == FsSpec => []FsTypeOK
  <1>1. FileInv => FsTypeOK
    <2> SUFFICES ASSUME FileInv PROVE FsTypeOK
      OBVIOUS
    <2>1. reset \in 0..Len(input) /\ pc \in {"entry", "bmh", "read", "run",
    "done", "returned"}
      BY DEF FileInv, BmhInv, Phases
    <2>2. fp \in IF ret = 1 /\ runs = 2 THEN Nat ELSE 0..Len(input)
      BY DEF FileInv, Places, Outcome, Unset
    <2>3. QED
      BY <2>1, <2>2 DEF FileInv, ThreadShape, Places, Outcome, FsTypeOK
  <1>2. QED
    BY <1>1, FileInvariance, PTL

-----------------------------------------------------------------------------
(* The buffer of bmh is a window on the file through every refill.         *)
THEOREM BmhBufferIsWindow == FsSpec => []BufferIsWindow
  <1>1. BmhInv => BufferIsWindow
    <2> SUFFICES ASSUME BmhInv, scan # "off", scan # "found"
                 PROVE  BufferIsWindow
      BY DEF BufferIsWindow, B!BufferIsWindow
    <2>1. /\ Window(bmhbuf, end, fp) /\ pos \in 0..(BUFSIZE - 1)
          /\ scan = "compare" => pos < end /\ pos >= Len(pattern) - 1
          /\ Len(pattern) \in Nat
      BY DEF BmhInv, InBuffer, Searching, Phases, PatternWell, Patterned
    <2>2. QED
      BY <2>1 DEF BufferIsWindow, B!BufferIsWindow, Window, B!EndChar, EndChar,
                  B!pendix, B!plen
  <1>2. QED
    BY <1>1, BmhInvariance, PTL

(* bmh never moves past an occurrence of the string and reports nothing    *)
(* else, whatever the skips, the refills and the calls of bmh_partial.     *)
THEOREM BmhFindsFirst == FsSpec => ScanFindsFirst
  BY InitSearch, StepSearch, BmhInvariance, PTL
     DEF FsSpec, ScanFindsFirst, B!Search!Spec

-----------------------------------------------------------------------------
(* What a call reports.  The automaton of the program of a text accepts    *)
(* the places where the text occurs.                                       *)

LEMMA FileCall ==
  ASSUME ArgsWell
  PROVE  Known!Call
  <1>1. WellFormed(prog) /\ Len(input) \in Nat
    BY DEF ArgsWell, CompiledWell
  <1>2. Known!WellFormed(prog)
    BY <1>1 DEF WellFormed, Inst, OpConsume, OpAnchor, Op, Char, EndChar,
         Known!WellFormed, Known!Inst, Known!OpConsume, Known!OpAnchor,
         Known!Op, Known!Char, Known!EndChar
  <1>3. QED
    BY <1>1, <1>2 DEF ArgsWell, SearchModes, Known!Call

LEMMA TextAccepted ==
  ASSUME ArgsWell, compiled.simple # <<>>, ~EscapedText,
         pattern = compiled.simple, NEW s \in Nat, NEW e \in s..Len(input)
  PROVE  Accepts(s, e) <=> e = s + Len(pattern) /\ OccursAt(mode.icase, s)
  <1>1. PICK u : u = pattern
    OBVIOUS
  <1>2. u \in Seq(Char) /\ Len(u) \in Nat /\ Len(input) \in Nat
    BY <1>1 DEF ArgsWell, CompiledWell, PatternChar
  <1>3. prog = Known!Chain(u)
    BY <1>1 DEF EscapedText, Chain, IChar, IMatch, Blank,
                Known!Chain, Known!IChar, Known!IMatch, Known!Blank
  <1>4. u \in Seq(Known!Char)
    BY <1>2 DEF Char, EndChar, Known!Char, Known!EndChar
  <1>5. \A i, p, q : Known!char_match(i, p, q) = char_match(i, p, q)
    BY DEF char_match, tolower, udiff, Known!char_match, Known!tolower,
           Known!udiff
  <1>6. Accepts(s, e) <=>
          /\ e = s + Len(u)
          /\ \A k \in 1..Len(u) : char_match(mode.icase, input[s + k], u[k])
    <2>1. Known!Accepts(s, e) <=>
            /\ e = s + Len(u)
            /\ \A k \in 1..Len(u) : Known!char_match(mode.icase, input[s + k], u[k])
      BY <1>3, <1>4, FileCall, Known!ChainAccepts
    <2>2. QED
      BY <1>5, <2>1, SameAcceptance
  <1>7. e = s + Len(u) => s + Len(u) <= Len(input)
    BY <1>2
  <1>8. QED
    BY <1>1, <1>6, <1>7 DEF OccursAt

(* The search for a text: no occurrence begins between the start of the    *)
(* search and the window, and what is found or returned follows from that. *)
NoneBefore(n) == \A i \in start..(n - 1) : ~OccursAt(FALSE, i)

TextSearch ==
  compiled.simple # <<>> =>
    /\ start \in 0..Len(input)
    /\ pc \in {"entry", "bmh", "returned"} /\ runs = 0
    /\ pc = "entry" => fp = start
    /\ pc # "entry" => pattern = compiled.simple
    /\ scan = "skip" => NoneBefore(Place + skiplen)
    /\ scan = "compare" => NoneBefore(Place)
    /\ scan = "found" => NoneBefore(matchStart) /\ OccursAt(mode.icase, matchStart)
    /\ scan = "none" => NoneBefore(Len(input) + 1) /\ fp = Len(input)
    /\ ret = 1 => NoneBefore(fp) /\ OccursAt(mode.icase, fp)
                  /\ match_size = Len(pattern)
    /\ ret = 0 => NoneBefore(Len(input) + 1) /\ fp = Len(input)

LEMMA InitText == FsInit => TextSearch
  <1> SUFFICES ASSUME FsInit PROVE TextSearch
    OBVIOUS
  <1>1. PICK c \in Calls :
          input \in c.files /\ start \in c.starts /\ start <= Len(input)
    BY DEF FsInit
  <1>2. start \in Nat /\ Len(input) \in Nat
    BY <1>1, CallsAssumption
  <1>3. start \in 0..Len(input)
    BY <1>1, <1>2
  <1>4. QED
    BY <1>3 DEF FsInit, TextSearch, Unset

LEMMA NoneFixed ==
  ASSUME UNCHANGED <<input, pattern, start>>
  PROVE  /\ \A n : NoneBefore(n)' = NoneBefore(n)
         /\ \A fold, i : OccursAt(fold, i)' = OccursAt(fold, i)
  BY DEF NoneBefore, OccursAt

LEMMA EnterText ==
  ASSUME FileInv, TextSearch, SimpleSearch
  PROVE  TextSearch'
  <1>1. /\ fp' - end' = fp /\ skiplen' = Len(pattern') - 1 /\ pos' = 0
        /\ scan' = "skip" /\ UNCHANGED <<input, mode>>
    BY EnterBmhWell DEF FileInv
  <1>2. /\ pattern' = compiled.simple /\ pc = "entry" /\ pc' = "bmh"
        /\ UNCHANGED <<compiled, start, runs, ret, match_size>>
        /\ compiled.simple # <<>> /\ ret = Unset
    BY DEF SimpleSearch, EnterBmh, B!Pattern, argVars, retVars, FileInv, Outcome
  <1>3. fp = start /\ start \in 0..Len(input) /\ Len(input) \in Nat /\ runs = 0
    BY <1>2 DEF TextSearch, FileInv, BmhInv, ArgsWell
  <1>4. PICK n \in Nat : n = Len(pattern')
    BY <1>2 DEF FileInv, BmhInv, ArgsWell, CompiledWell
  <1>5. Place' + skiplen' = start
    <2>1. Place' = fp - n + 1
      BY <1>1, <1>3, <1>4 DEF Place
    <2>2. QED
      BY <1>1, <1>3, <1>4, <2>1
  <1>6. \A i \in start..(start - 1) : FALSE
    BY <1>3
  <1>7. (NoneBefore(Place + skiplen))'
    BY <1>2, <1>5, <1>6 DEF NoneBefore
  <1>8. QED
    BY <1>1, <1>2, <1>3, <1>7 DEF TextSearch, Unset

LEMMA BmhStepText ==
  ASSUME FileInv, TextSearch, BmhStep
  PROVE  TextSearch'
  <1> SUFFICES ASSUME compiled.simple # <<>>
               PROVE  TextSearch'
    BY BmhFrame DEF TextSearch, FileInv, argVars
  <1>1. /\ BmhInv /\ pc = "bmh" /\ ret = Unset
        /\ UNCHANGED <<input, mode, pattern, compiled, start, pc, runs, ret, match_size>>
        /\ Len(pattern) \in Nat /\ Len(input) \in Nat
    BY BmhFrame DEF FileInv, Outcome, BmhStep, callVars, argVars, lineVars, retVars
  <1>2. /\ start \in 0..Len(input) /\ runs = 0 /\ pattern = compiled.simple
        /\ start \in Nat
    BY <1>1 DEF TextSearch
  <1>3. ASSUME /\ scan' = "skip" => NoneBefore(Place' + skiplen')
               /\ scan' = "compare" => NoneBefore(Place')
               /\ scan' = "found" => /\ NoneBefore(matchStart')
                                     /\ OccursAt(mode.icase, matchStart')
               /\ scan' = "none" => NoneBefore(Len(input) + 1) /\ fp' = Len(input)
        PROVE  TextSearch'
    <2>1. PICK w, m : w = Place' + skiplen' /\ m = matchStart'
      OBVIOUS
    <2>2. PICK p : p = Place'
      OBVIOUS
    <2>3. /\ \A n : NoneBefore(n)' = NoneBefore(n)
          /\ \A fold, i : OccursAt(fold, i)' = OccursAt(fold, i)
      BY <1>1, NoneFixed
    <2>4. /\ (NoneBefore(Place + skiplen))' = NoneBefore(w)
          /\ (NoneBefore(Place))' = NoneBefore(p)
          /\ (NoneBefore(matchStart))' = NoneBefore(m)
          /\ (OccursAt(mode.icase, matchStart))' = OccursAt(mode.icase, m)
          /\ (NoneBefore(Len(input) + 1))' = NoneBefore(Len(input) + 1)
      BY <1>1, <2>1, <2>2 DEF NoneBefore, OccursAt
    <2>5. QED
      BY <1>1, <1>2, <1>3, <2>1, <2>2, <2>4 DEF TextSearch, Unset
  <1>4. CASE B!Skip
    <2>1. /\ scan = "skip" /\ scan' \in {"compare", "none"}
          /\ Place' = Place + skiplen /\ Place + skiplen \in 0..Len(input)
          /\ scan' = "none" => /\ Place + skiplen + Len(pattern) > Len(input)
                               /\ fp' = Len(input)
          /\ NoneBefore(Place + skiplen)
      BY <1>1, <1>4, SkipWell DEF B!Skip, TextSearch
    <2>2. PICK w \in Nat : w = Place + skiplen /\ w <= Len(input)
      BY <1>1, <2>1
    <2>3. PICK n \in Nat : n = Len(input) + 1
      BY <1>1
    <2>4. ASSUME scan' = "none" PROVE NoneBefore(n)
      <3>1. SUFFICES ASSUME NEW i \in start..(n - 1) PROVE ~OccursAt(FALSE, i)
        BY DEF NoneBefore
      <3>2. i \in Nat
        BY <1>2
      <3>3. CASE i < w
        <4>1. i \in start..(w - 1)
          BY <1>2, <3>2, <3>3
        <4>2. QED
          BY <2>1, <2>2, <4>1 DEF NoneBefore
      <3>4. CASE ~(i < w)
        <4>1. w + Len(pattern) > Len(input)
          BY <2>1, <2>2, <2>4
        <4>2. ~(i + Len(pattern) <= Len(input))
          BY <1>1, <3>2, <3>4, <4>1
        <4>3. QED
          BY <4>2 DEF OccursAt
      <3>5. QED
        BY <3>3, <3>4
    <2>5. scan' = "compare" => NoneBefore(Place')
      BY <2>1
    <2>6. scan' # "skip" /\ scan' # "found" /\ (scan' = "none" => fp' = Len(input))
      BY <2>1
    <2>7. scan' = "none" => NoneBefore(Len(input) + 1)
      BY <2>3, <2>4
    <2>8. QED
      BY <1>3, <2>5, <2>6, <2>7
  <1>5. CASE B!Mismatch
    <2>1. /\ scan = "compare" /\ scan' = "skip" /\ Place' = Place
          /\ \A i \in Place..(Place + skiplen' - 1) : ~OccursAt(FALSE, i)
          /\ NoneBefore(Place)
      BY <1>1, <1>5, MismatchWell DEF TextSearch
    <2>2. PICK w, d : w = Place /\ d = skiplen'
      OBVIOUS
    <2>3. w \in Nat /\ d \in Nat
      BY <1>1, <1>5, <2>1, <2>2, MismatchWell, ComparedWindow
    <2> DEFINE n == w + d
    <2>4. NoneBefore(n)
      <3>1. SUFFICES ASSUME NEW i \in start..(n - 1) PROVE ~OccursAt(FALSE, i)
        BY DEF NoneBefore
      <3>2. i \in start..(w - 1) \/ i \in w..(w + d - 1)
        BY <1>2, <2>3
      <3>3. QED
        BY <2>1, <2>2, <3>2 DEF NoneBefore
    <2> HIDE DEF n
    <2>5. NoneBefore(Place' + skiplen')
      BY <2>1, <2>2, <2>4 DEF n
    <2>6. QED
      BY <1>3, <2>1, <2>5
  <1>6. CASE B!Occurrence
    <2>1. /\ scan = "compare" /\ scan' = "found" /\ OccursAt(mode.icase, Place)
          /\ matchStart' = Place /\ NoneBefore(Place)
      BY <1>1, <1>6, OccurrenceWell DEF TextSearch
    <2>2. QED
      BY <1>3, <2>1
  <1>7. QED
    BY <1>4, <1>5, <1>6 DEF BmhStep, B!Step

LEMMA ReturnText ==
  ASSUME FileInv, TextSearch, Return, compiled.simple # <<>>
  PROVE  TextSearch'
  <1>1. /\ pc = "bmh" /\ scan \in {"found", "none"} /\ scan' = "off"
        /\ pc' = "returned" /\ runs' = 0 /\ pattern = compiled.simple
        /\ start \in 0..Len(input)
        /\ UNCHANGED <<input, mode, pattern, compiled, start>>
    BY DEF Return, Over, TextSearch, callVars, argVars, lineVars
  <1>2. /\ (scan = "none" => matchEnd = 0) /\ ret = Unset
        /\ Len(pattern) \in Nat /\ Len(input) \in Nat
    BY <1>1 DEF FileInv, MatchShape, Outcome, Searching, BmhInv, Phases,
                PatternWell, Patterned, ArgsWell
  <1>3. scan = "found" => /\ matchStart \in Nat
                          /\ matchEnd = matchStart + Len(pattern) + 1
    BY DEF FileInv, BmhInv, FoundPlace
  <1>4. /\ \A n : NoneBefore(n)' = NoneBefore(n)
        /\ \A fold, i : OccursAt(fold, i)' = OccursAt(fold, i)
    BY <1>1, NoneFixed
  <1>5. CASE scan = "found"
    <2>1. matchEnd # 0 /\ matchEnd - matchStart - 1 = Len(pattern)
      BY <1>2, <1>3, <1>5
    <2>2. /\ ret' = 1 /\ fp' = matchStart /\ match_size' = Len(pattern)
      BY <2>1 DEF Return
    <2>3. NoneBefore(matchStart) /\ OccursAt(mode.icase, matchStart)
      BY <1>5 DEF TextSearch
    <2>4. (NoneBefore(fp))' /\ (OccursAt(mode.icase, fp))'
      <3>1. PICK m : m = matchStart
        OBVIOUS
      <3>2. (NoneBefore(fp))' = NoneBefore(m)
        BY <1>1, <2>2, <3>1 DEF NoneBefore, OccursAt
      <3>3. (OccursAt(mode.icase, fp))' = OccursAt(mode.icase, m)
        BY <1>1, <2>2, <3>1 DEF OccursAt
      <3>4. QED
        BY <2>3, <3>1, <3>2, <3>3
    <2>5. QED
      BY <1>1, <2>2, <2>4 DEF TextSearch
  <1>6. CASE scan = "none"
    <2>1. ret' = 0 /\ fp' = fp
      BY <1>2, <1>6 DEF Return
    <2>2. NoneBefore(Len(input) + 1) /\ fp = Len(input)
      BY <1>6 DEF TextSearch
    <2>3. (NoneBefore(Len(input) + 1))'
      BY <1>1, <2>2 DEF NoneBefore, OccursAt
    <2>4. QED
      BY <1>1, <2>1, <2>2, <2>3 DEF TextSearch
  <1>7. QED
    BY <1>1, <1>5, <1>6

LEMMA StepText == FileInv /\ TextSearch /\ [FsNext]_fsVars => TextSearch'
  <1> SUFFICES ASSUME FileInv, TextSearch, [FsNext]_fsVars PROVE TextSearch'
    OBVIOUS
  <1>1. CASE BmhStep
    BY <1>1, BmhStepText
  <1>2. CASE FsReturned \/ UNCHANGED fsVars
    BY <1>2 DEF FsReturned, fsVars, vmVars, vars, callVars, matchVars, bmhVars,
       argVars, lineVars, retVars, TextSearch, NoneBefore, OccursAt, Place
  <1>3. CASE compiled.simple = <<>>
    <2>1. UNCHANGED compiled \/ BmhStep
      <3>1. UNCHANGED argVars \/ BmhStep
        BY DEF FsNext, SimpleSearch, PartialSearch, EnterBmh, VmSearch, EnterVm,
               RunOnLine, ReadFile, VmStep, GoOn, Return, FsReturned, fsVars
      <3>2. QED
        BY <3>1 DEF argVars
    <2>2. QED
      BY <1>1, <1>3, <2>1 DEF TextSearch
  <1>4. CASE compiled.simple # <<>>
    <2>1. pc \in {"entry", "bmh", "returned"}
      BY <1>4 DEF TextSearch
    <2>2. ~PartialSearch /\ ~VmSearch /\ ~RunOnLine /\ ~ReadFile /\ ~VmStep /\ ~GoOn
      BY <1>4, <2>1 DEF PartialSearch, VmSearch, RunOnLine, ReadFile, ReadAs,
         VmStep, GoOn
    <2>3. QED
      BY <1>1, <1>2, <1>4, <2>2, EnterText, ReturnText DEF FsNext
  <1>5. QED
    BY <1>3, <1>4

(* A match that bmh passes is of a text with escapes, or is spelled in     *)
(* another case.                                                           *)
LEMMA PassedText ==
  ASSUME FileInv, TextSearch, compiled.simple # <<>>, ret # Unset,
         NEW n \in Int, NoneBefore(n), ~EscapedText,
         NEW s \in start..(n - 1), NEW e \in s..Len(input), Accepts(s, e)
  PROVE  OtherCase(s, e)
  <1>1. /\ ArgsWell /\ Len(input) \in Nat /\ start \in Nat
        /\ pattern = compiled.simple /\ Len(pattern) \in Nat
    BY DEF FileInv, BmhInv, ArgsWell, CompiledWell, Phases, Outcome, TextSearch
  <1>2. s \in Nat
    BY <1>1
  <1>3. e = s + Len(pattern) /\ OccursAt(mode.icase, s)
    BY <1>1, <1>2, TextAccepted
  <1>4. ~OccursAt(FALSE, s)
    BY DEF NoneBefore
  <1>5. mode.icase
    <2>1. mode.icase \in BOOLEAN
      BY <1>1 DEF ArgsWell, SearchModes
    <2>2. QED
      BY <1>3, <1>4, <2>1
  <1>6. FixedText = pattern /\ FixedText # <<>>
    BY <1>1 DEF FixedText
  <1>7. Spelled(s, e) = {}
    <2>1. SUFFICES ASSUME NEW i \in s..(e - Len(pattern)),
                          \A k \in 1..Len(pattern) : input[i + k] = pattern[k]
                   PROVE  FALSE
      BY <1>6 DEF Spelled
    <2>2. i = s
      BY <1>1, <1>2, <1>3
    <2>3. s + Len(pattern) <= Len(input)
      BY <1>1, <1>2, <1>3
    <2>4. QED
      BY <1>4, <2>1, <2>2, <2>3 DEF OccursAt, char_match
  <1>8. QED
    BY <1>5, <1>6, <1>7 DEF OtherCase

LEMMA TextAnswer ==
  ASSUME FileInv, TextSearch, compiled.simple # <<>>
  PROVE  /\ ReportMatches /\ ReportIsFirst /\ MissIsRight
         /\ ~mode.icase /\ ~EscapedText => FsearchFindsMatch
  <1>1. /\ ArgsWell /\ Len(input) \in Nat /\ Len(pattern) \in Nat
        /\ start \in Nat
    BY DEF FileInv, BmhInv, ArgsWell, Phases, PatternWell, Patterned, TextSearch
  <1>2. ret # Unset => pattern = compiled.simple
    BY DEF TextSearch, FileInv, Outcome
  <1>3. ASSUME ret # Unset, NEW n \in Int, NoneBefore(n)
        PROVE  PassesOnly(n)
    <2>1. SUFFICES ASSUME NEW s \in start..(n - 1), NEW e \in s..Len(input),
                          Accepts(s, e), ~EscapedText
                   PROVE  OtherCase(s, e)
      BY DEF PassesOnly, MayPass
    <2>2. QED
      BY <1>3, <2>1, PassedText
  <1>4. ASSUME ret = 1
        PROVE  ReportMatches /\ ReportIsFirst
    <2>1. NoneBefore(fp) /\ OccursAt(mode.icase, fp) /\ match_size = Len(pattern)
      BY <1>4 DEF TextSearch
    <2>2. fp \in 0..Len(input) /\ ret # Unset
      BY <1>4 DEF FileInv, Outcome, TextSearch, Unset
    <2>3. fp \in Nat /\ fp + Len(pattern) \in fp..Len(input)
      BY <1>1, <2>1, <2>2 DEF OccursAt
    <2>4. ~EscapedText => Accepts(fp, fp + Len(pattern))
      BY <1>1, <1>2, <2>1, <2>2, <2>3, TextAccepted
    <2>5. PassesOnly(fp)
      BY <1>3, <2>1, <2>2
    <2>6. fp + match_size <= Len(input)
      BY <1>1, <2>1, <2>3
    <2>7. QED
      BY <2>1, <2>4, <2>5, <2>6 DEF ReportMatches, ReportIsFirst
  <1>5. ASSUME ret = 0
        PROVE  MissIsRight
    <2>1. NoneBefore(Len(input) + 1) /\ fp = Len(input) /\ ret # Unset
      BY <1>5 DEF TextSearch, Unset
    <2>2. Len(input) + 1 \in Int
      BY <1>1
    <2>3. QED
      BY <1>3, <2>1, <2>2 DEF MissIsRight
  <1>6. ASSUME ret = 0, ~mode.icase, ~EscapedText
        PROVE  FsearchFindsMatch
    <2>1. NoneBefore(Len(input) + 1) /\ ret # Unset
      BY <1>6 DEF TextSearch, Unset
    <2>2. ASSUME NEW s \in start..Len(input), NEW e \in s..Len(input), Accepts(s, e)
          PROVE  FALSE
      <3>1. Len(input) + 1 \in Int /\ s \in start..(Len(input) + 1 - 1)
        BY <1>1
      <3>2. OtherCase(s, e)
        BY <1>6, <2>1, <2>2, <3>1, PassedText
      <3>3. QED
        BY <1>6, <3>2 DEF OtherCase
    <2>3. QED
      BY <2>2 DEF FsearchFindsMatch
  <1>7. QED
    BY <1>4, <1>5, <1>6
       DEF ReportMatches, ReportIsFirst, MissIsRight, FsearchFindsMatch

LEMMA TextInvariance == FsSpec => []TextSearch
  BY InitText, StepText, FileInvariance, PTL DEF FsSpec

(* A search for a text passes no place where the text stands as it is      *)
(* spelled, whatever the skips of bmh and its refills: where case is not   *)
(* ignored and the text has no escape it reports the first match, and says *)
(* "no match" only if the rest of the file holds none.  Where case is      *)
(* ignored it may pass what is spelled otherwise; a text with escapes it   *)
(* looks for with its backslashes.                                         *)
THEOREM TextsFoundFirst ==
  FsSpec => [](compiled.simple # <<>> =>
                 /\ ReportMatches /\ ReportIsFirst /\ MissIsRight
                 /\ ~mode.icase /\ ~EscapedText => FsearchFindsMatch)
  <1>1. FileInv /\ TextSearch =>
          (compiled.simple # <<>> =>
             /\ ReportMatches /\ ReportIsFirst /\ MissIsRight
             /\ ~mode.icase /\ ~EscapedText => FsearchFindsMatch)
    BY TextAnswer
  <1>2. QED
    BY <1>1, FileInvariance, TextInvariance, PTL

-----------------------------------------------------------------------------
(* The first run of vm_execute on the file: its threads stand where the    *)
(* automaton of the program can stand.                                     *)

LEMMA SameStanding ==
  /\ \A s : Known!Standing(s) = N!Standing(s)
  /\ \A S, k : Known!ClosedAt(S, k) = N!ClosedAt(S, k)
  /\ \A S, k : Known!Closure(S, k) = N!Closure(S, k)
  /\ \A S, k : Known!Delta(S, k) = N!Delta(S, k)
  /\ Known!PCs = PCs
  BY DEF
    Known!Standing, Known!PCs, Known!Closure, Known!ClosureAt,
    Known!ClosedAt, Known!Delta, Known!Moves, Known!Takes, Known!AtSol,
    Known!AtEol, Known!CharAt, Known!EndChar, Known!NL, Known!char_match,
    Known!ccs_match, Known!tolower, Known!udiff,
    N!Standing, N!PCs, N!Closure, N!ClosureAt, N!ClosedAt, N!Delta, N!Moves,
    N!Takes, N!AtSol, N!AtEol, N!CharAt, N!EndChar, N!NL, N!char_match,
    N!ccs_match, N!tolower, N!udiff, PCs

LEMMA StandingFixed ==
  ASSUME UNCHANGED callVars
  PROVE  /\ \A s : N!Standing(s)' = N!Standing(s)
         /\ \A s, e : Accepts(s, e)' = Accepts(s, e)
  <1>1. \A s : N!Standing(s)' = N!Standing(s)
    BY ClosureFixed DEF N!Standing, callVars
  <1>2. N!MatchAddrs' = N!MatchAddrs
    BY DEF N!MatchAddrs, N!PCs, callVars
  <1>3. QED
    BY <1>1, <1>2 DEF Accepts, N!Accepts

(* Where the automaton stands after a start, a move and a character, and   *)
(* that it accepts where it stands at a match.                             *)
LEMMA StandsAt ==
  ASSUME ArgsWell, NEW s \in Nat, NEW e \in s..Len(input)
  PROVE  /\ e = s => 0 \in N!Standing(s)[e]
         /\ \A p \in N!Standing(s)[e] :
              /\ N!Moves(p, e) \subseteq N!Standing(s)[e]
              /\ p \in PCs
              /\ prog[p].op = "match" => Accepts(s, e)
         /\ e < Len(input) =>
              N!Delta(N!Standing(s)[e], e) \subseteq N!Standing(s)[e + 1]
  <1>1. Known!Call /\ WellFormed(prog) /\ Len(input) \in Nat
    BY FileCall DEF ArgsWell, CompiledWell
  <1>2. N!Standing(s)[e] \in SUBSET PCs
    BY <1>1, SameStanding, Known!StandingUnfolds
  <1>3. \A p \in N!Standing(s)[e] : N!Moves(p, e) \subseteq N!Standing(s)[e]
    BY <1>1, SameStanding, Known!StandingClosed DEF N!ClosedAt
  <1>4. e = s => 0 \in N!Standing(s)[e]
    <2> SUFFICES ASSUME e = s PROVE 0 \in N!Standing(s)[e]
      OBVIOUS
    <2>1. N!Standing(s)[e] = N!Closure({0}, s)
      BY <1>1, SameStanding, Known!StandingUnfolds
    <2>2. {0} \in SUBSET PCs
      BY <1>1, StartsInside DEF PCs
    <2>3. QED
      BY <2>1, <2>2, ClosureAdds
  <1>5. ASSUME e < Len(input)
        PROVE  N!Delta(N!Standing(s)[e], e) \subseteq N!Standing(s)[e + 1]
    <2>1. e \in s..(Len(input) - 1) /\ e + 1 \in s..Len(input)
      BY <1>1, <1>5
    <2>2. /\ N!Standing(s)[e + 1] = N!Closure(N!Delta(N!Standing(s)[e], e), e + 1)
          /\ N!Standing(s)[e + 1] \in SUBSET PCs
      BY <1>1, <2>1, SameStanding, Known!StandingUnfolds
    <2>3. N!Delta(N!Standing(s)[e], e) \in SUBSET PCs
      BY <1>1, <1>2, SameStanding, Known!DeltaType
    <2>4. QED
      BY <2>2, <2>3, ClosureAdds
  <1>6. ASSUME NEW p \in N!Standing(s)[e], prog[p].op = "match"
        PROVE  Accepts(s, e)
    BY <1>2, <1>6 DEF Accepts, N!Accepts, N!MatchAddrs, N!PCs, PCs
  <1>7. QED
    BY <1>2, <1>3, <1>4, <1>5, <1>6

(* What the first run reports is a match, and its lists hold nothing the   *)
(* automaton does not reach.                                               *)
MatchSound ==
  matchEnd # 0 =>
    /\ matchEnd - 1 \in matchStart..Len(input)
    /\ Accepts(matchStart, matchEnd - 1)

NewlineSeen(c, k) == c = NL => k # 0 /\ input[k] = NL

ReadSound ==
  /\ chars <= Len(input) /\ np = <<>>
  /\ Elems(cp) \subseteq N!Standing(matchStart)[chars]
  /\ NewlineSeen(C, chars)

ListsAt(s, k) ==
  /\ k <= Len(input) /\ C = N!CharAt(k)
  /\ NewlineSeen(lastinput, k)
  /\ Elems(cp) \subseteq N!Standing(s)[k]
  /\ Elems(np) \subseteq N!Delta(N!Standing(s)[k], k)

RunSound ==
  runs = 1 =>
    /\ pc \in {"read", "run", "done"} => MatchSound
    /\ pc = "read" => ReadSound
    /\ pc = "run" => ListsAt(matchStart, chars - 1)

LEMMA ListedAdds ==
  ASSUME NEW S, NEW list \in Seq(S), NEW lookup, NEW val
  PROVE  Elems(Listed(list, lookup, val)) \subseteq Elems(list) \cup {val}
  <1>1. \A i \in 1..Len(Append(list, val)) :
          Append(list, val)[i] \in Elems(list) \cup {val}
    BY DEF Elems
  <1>2. Elems(Append(list, val)) \subseteq Elems(list) \cup {val}
    BY <1>1 DEF Elems
  <1>3. QED
    BY <1>2 DEF Listed

(* While a list is run, the anchors and the characters are judged as the   *)
(* automaton judges them.                                                  *)
LEMMA FirstRunView ==
  ASSUME FileInv, runs = 1, pc = "run", t < Len(cp),
         NEW k, k = chars - 1, ListsAt(matchStart, k)
  PROVE  LET here == N!Standing(matchStart)[k]
         IN  /\ ii \in here
             /\ inst.op = "branch" => inst.x \in here /\ inst.y \in here
             /\ inst.op = "jmp" => inst.x \in here
             /\ inst.op = "sol" /\ is_sol => ii + 1 \in here
             /\ inst.op = "eol" /\ is_eol => ii + 1 \in here
             /\ inst.op = "match" => Accepts(matchStart, k)
             /\ \/ inst.op = "char" /\ char_match(mode.icase, C, inst.c)
                \/ inst.op = "any" /\ C # NL
                \/ inst.op = "class" /\ ccs_match(mode.icase, inst.ccs, C)
                \/ inst.op = "nclass" /\ ~ccs_match(mode.icase, inst.ccs, C)
                => ii + 1 \in N!Delta(here, k)
  <1> DEFINE here == N!Standing(matchStart)[k]
  <1>1. /\ matchStart \in Nat /\ k \in matchStart..Len(input) /\ chars \in Nat
        /\ Len(input) \in Nat /\ t \in Nat /\ cp \in Seq(PCs) /\ ArgsWell
    BY DEF FileInv, MatchShape, ThreadShape, ListsAt, BmhInv, ArgsWell
  <1>2. ii \in here
    BY <1>1 DEF ListsAt, ii, Elems
  <1>3. /\ \A p \in here : N!Moves(p, k) \subseteq here
        /\ \A p \in here : prog[p].op = "match" => Accepts(matchStart, k)
    BY <1>1, StandsAt
  <1>4. N!CharAt(k) = C
    BY DEF ListsAt
  <1>5. is_sol => N!AtSol(k)
    <2>1. chars = 1 => k = 0
      BY <1>1
    <2>2. QED
      BY <2>1 DEF is_sol, N!AtSol, ListsAt, NewlineSeen, N!NL, NL
  <1>6. is_eol => N!AtEol(k)
    BY <1>4 DEF is_eol, N!AtEol, N!NL, NL, N!EndChar, EndChar
  <1>7. /\ inst.op = "branch" => N!Moves(ii, k) = {inst.x, inst.y}
        /\ inst.op = "jmp" => N!Moves(ii, k) = {inst.x}
        /\ inst.op = "sol" /\ is_sol => N!Moves(ii, k) = {ii + 1}
        /\ inst.op = "eol" /\ is_eol => N!Moves(ii, k) = {ii + 1}
    BY <1>5, <1>6 DEF N!Moves, inst
  <1>8. \A i, p, q : N!char_match(i, p, q) = char_match(i, p, q)
    BY DEF N!char_match, char_match, N!tolower, tolower, N!udiff, udiff
  <1>9. \A i, s, q : N!ccs_match(i, s, q) = ccs_match(i, s, q)
    BY <1>8 DEF N!ccs_match, ccs_match
  <1>10. \/ inst.op = "char" /\ char_match(mode.icase, C, inst.c)
         \/ inst.op = "any" /\ C # NL
         \/ inst.op = "class" /\ ccs_match(mode.icase, inst.ccs, C)
         \/ inst.op = "nclass" /\ ~ccs_match(mode.icase, inst.ccs, C)
         => N!Takes(ii, C)
    BY <1>8, <1>9 DEF N!Takes, inst, N!NL, NL
  <1>11. N!Takes(ii, C) => ii + 1 \in N!Delta(here, k)
    BY <1>2, <1>4 DEF N!Delta
  <1> HIDE DEF here
  <1>12. /\ inst.op = "branch" => inst.x \in here /\ inst.y \in here
         /\ inst.op = "jmp" => inst.x \in here
         /\ inst.op = "sol" /\ is_sol => ii + 1 \in here
         /\ inst.op = "eol" /\ is_eol => ii + 1 \in here
    BY <1>2, <1>3, <1>7
  <1>13. inst.op = "match" => Accepts(matchStart, k)
    BY <1>2, <1>3 DEF inst
  <1>14. QED
    BY <1>2, <1>10, <1>11, <1>12, <1>13 DEF here

(* The next run of a thread list: what changes is the lists and the match. *)
LEMMA ListsNext ==
  ASSUME FileInv, RunSound, runs = 1, pc = "run", UNCHANGED <<callVars, textVars>>,
         matchStart' = matchStart,
         pc' \in {"run", "done"},
         NEW k, k = chars - 1,
         Elems(cp') \subseteq N!Standing(matchStart)[k],
         Elems(np') \subseteq N!Delta(N!Standing(matchStart)[k], k),
         matchEnd' # matchEnd => matchEnd' = chars /\ Accepts(matchStart, k)
  PROVE  RunSound'
  <1>1. /\ matchStart \in Nat /\ k \in matchStart..Len(input) /\ chars \in Nat
        /\ Len(input) \in Nat
    BY DEF FileInv, MatchShape, RunSound, ListsAt, BmhInv, ArgsWell
  <1>2. /\ \A s : N!Standing(s)' = N!Standing(s)
        /\ \A s, e : Accepts(s, e)' = Accepts(s, e)
        /\ \A S, i : N!Delta(S, i)' = N!Delta(S, i)
        /\ \A i : N!CharAt(i)' = N!CharAt(i)
    BY StandingFixed, ClosureFixed, AutomatonFixed
  <1>3. MatchSound'
    <2>1. MatchSound /\ UNCHANGED <<input, chars>>
      BY DEF RunSound, callVars, textVars
    <2>2. PICK m, n : m = matchStart /\ n = matchEnd'
      OBVIOUS
    <2>3. n # 0 => n - 1 \in m..Len(input) /\ Accepts(m, n - 1)
      BY <1>1, <2>1, <2>2 DEF MatchSound
    <2>4. (Accepts(matchStart, matchEnd - 1))' = Accepts(m, n - 1)
      BY <2>2, StandingFixed
         DEF Accepts, N!Accepts, callVars, N!MatchAddrs, N!PCs
    <2>5. QED
      BY <2>1, <2>2, <2>3, <2>4 DEF MatchSound
  <1>4. (ListsAt(matchStart, chars - 1))'
    <2>1. ListsAt(matchStart, k) /\ UNCHANGED <<input, C, lastinput>>
      BY DEF RunSound, callVars, textVars
    <2>2. (ListsAt(matchStart, chars - 1))' <=>
            /\ k <= Len(input) /\ C = N!CharAt(k)
            /\ NewlineSeen(lastinput, k)
            /\ Elems(cp') \subseteq N!Standing(matchStart)[k]
            /\ Elems(np') \subseteq N!Delta(N!Standing(matchStart)[k], k)
      BY <1>2, <2>1 DEF ListsAt, NewlineSeen, Elems, textVars
    <2>3. QED
      BY <2>1, <2>2 DEF ListsAt
  <1>5. QED
    BY <1>3, <1>4 DEF RunSound

(* A search starts again: at the character that is current, or, the same   *)
(* one, at the next.                                                       *)
LEMMA RestartSound ==
  ASSUME FileInv, RunSound, runs = 1, UNCHANGED runs, Restart
  PROVE  RunSound'
  <1>1. /\ pc = "run" /\ C # EndChar /\ np = <<>> /\ matchEnd' = 0
        /\ UNCHANGED <<callVars, textVars, matchEnd, np>> /\ cp' = <<0>>
        /\ \/ matchStart' = chars - 1 /\ pc' = "run"
           \/ matchStart' = chars /\ pc' = "read"
    BY DEF Restart, Dead, RanAll, nextVars
  <1>2. PICK k : k = chars - 1
    OBVIOUS
  <1>3. /\ ListsAt(matchStart, k) /\ Len(input) \in Nat /\ chars \in Nat
        /\ k \in Nat /\ chars = k + 1 /\ ArgsWell
    BY <1>1, <1>2 DEF RunSound, FileInv, MatchShape, BmhInv, ArgsWell
  <1>4. k < Len(input) /\ C = input[k + 1]
    BY <1>1, <1>3 DEF ListsAt, N!CharAt, N!EndChar, EndChar
  <1>5. Elems(<<0>>) = {0} /\ Elems(<<>>) = {}
    BY DEF Elems
  <1>6. 0 \in N!Standing(k)[k] /\ 0 \in N!Standing(k + 1)[k + 1]
    <2>1. k \in k..Len(input) /\ k + 1 \in (k + 1)..Len(input) /\ k + 1 \in Nat
      BY <1>3, <1>4
    <2>2. QED
      BY <1>3, <2>1, StandsAt
  <1>7. /\ \A s : N!Standing(s)' = N!Standing(s)
        /\ \A S, i : N!Delta(S, i)' = N!Delta(S, i)
        /\ \A i : N!CharAt(i)' = N!CharAt(i)
        /\ UNCHANGED <<input, chars, C, lastinput>>
    BY <1>1, StandingFixed, ClosureFixed, AutomatonFixed DEF callVars, textVars
  <1>8. CASE matchStart' = chars - 1 /\ pc' = "run"
    <2>1. (ListsAt(matchStart, chars - 1))' <=>
            /\ k <= Len(input) /\ C = N!CharAt(k)
            /\ NewlineSeen(lastinput, k)
            /\ Elems(cp') \subseteq N!Standing(k)[k]
            /\ Elems(np') \subseteq N!Delta(N!Standing(k)[k], k)
      BY <1>2, <1>7, <1>8 DEF ListsAt, NewlineSeen, Elems
    <2>2. (ListsAt(matchStart, chars - 1))'
      BY <1>1, <1>3, <1>5, <1>6, <2>1 DEF ListsAt
    <2>3. QED
      BY <1>1, <1>8, <2>2 DEF RunSound, MatchSound
  <1>9. CASE matchStart' = chars /\ pc' = "read"
    <2>1. ReadSound' <=>
            /\ k + 1 <= Len(input) /\ np' = <<>>
            /\ Elems(cp') \subseteq N!Standing(k + 1)[k + 1]
            /\ NewlineSeen(C, k + 1)
      BY <1>3, <1>7, <1>9 DEF ReadSound, NewlineSeen, Elems
    <2>2. k + 1 <= Len(input) /\ NewlineSeen(C, k + 1)
      BY <1>3, <1>4 DEF NewlineSeen
    <2>3. ReadSound'
      BY <1>1, <1>5, <1>6, <2>1, <2>2
    <2>4. QED
      BY <1>1, <1>9, <2>3 DEF RunSound, MatchSound
  <1>10. QED
    BY <1>1, <1>8, <1>9

(* The two lists change places behind the character that was read. *)
LEMMA SwapSound ==
  ASSUME FileInv, RunSound, runs = 1, UNCHANGED runs, Swap
  PROVE  RunSound'
  <1>1. /\ pc = "run" /\ C # EndChar /\ cp' = np /\ np' = <<>> /\ pc' = "read"
        /\ UNCHANGED <<callVars, textVars, matchStart, matchEnd>>
    BY DEF Swap, RanAll, matchVars
  <1>2. PICK k : k = chars - 1
    OBVIOUS
  <1>3. /\ ListsAt(matchStart, k) /\ Len(input) \in Nat /\ chars \in Nat
        /\ matchStart \in Nat /\ k \in matchStart..Len(input) /\ chars = k + 1
        /\ ArgsWell /\ MatchSound
    BY <1>1, <1>2 DEF RunSound, ListsAt, FileInv, MatchShape, BmhInv, ArgsWell
  <1>4. k < Len(input) /\ C = input[k + 1]
    BY <1>1, <1>3 DEF ListsAt, N!CharAt, N!EndChar, EndChar
  <1>5. Elems(np) \subseteq N!Standing(matchStart)[k + 1]
    <2>1. N!Delta(N!Standing(matchStart)[k], k) \subseteq N!Standing(matchStart)[k + 1]
      BY <1>3, <1>4, StandsAt
    <2>2. QED
      BY <1>3, <2>1 DEF ListsAt
  <1>6. /\ \A s : N!Standing(s)' = N!Standing(s)
        /\ UNCHANGED <<input, chars, C>>
    BY <1>1, StandingFixed DEF callVars, textVars
  <1>7. ReadSound'
    <2>1. ReadSound' <=>
            /\ k + 1 <= Len(input) /\ np' = <<>>
            /\ Elems(cp') \subseteq N!Standing(matchStart)[k + 1]
            /\ NewlineSeen(C, k + 1)
      BY <1>1, <1>3, <1>6 DEF ReadSound, NewlineSeen, Elems
    <2>2. k + 1 <= Len(input) /\ NewlineSeen(C, k + 1)
      BY <1>3, <1>4 DEF NewlineSeen
    <2>3. QED
      BY <1>1, <1>5, <2>1, <2>2
  <1>8. MatchSound'
    <2>1. (Accepts(matchStart, matchEnd - 1))' = Accepts(matchStart, matchEnd - 1)
      BY <1>1, StandingFixed
         DEF Accepts, N!Accepts, callVars, N!MatchAddrs, N!PCs
    <2>2. QED
      BY <1>1, <1>3, <1>6, <2>1 DEF MatchSound
  <1>9. QED
    BY <1>1, <1>7, <1>8 DEF RunSound

LEMMA VmStepSound ==
  ASSUME FileInv, RunSound, VmStep
  PROVE  RunSound'
  <1>1. /\ UNCHANGED callVars /\ pc = "run" /\ Execute /\ UNCHANGED <<runs, chars, C>>
        /\ pc' \in {"read", "run", "done"} /\ FileInv'
    BY ExecuteFrame, ExecuteFile, VmStepFile DEF VmStep, lineVars
  <1> SUFFICES ASSUME runs = 1 PROVE RunSound'
    BY <1>1 DEF RunSound
  <1> DEFINE here == N!Standing(matchStart)[chars - 1]
  <1>2. /\ ListsAt(matchStart, chars - 1) /\ MatchSound
        /\ Elems(cp) \subseteq here /\ Elems(np) \subseteq N!Delta(here, chars - 1)
    BY <1>1 DEF RunSound, ListsAt
  <1>3. /\ cp \in Seq(PCs) /\ np \in Seq(PCs) /\ t \in Nat /\ chars \in Nat
        /\ matchStart \in Nat /\ matchStart < chars /\ Len(input) \in Nat
        /\ chars - 1 <= Len(input) /\ ArgsWell
    BY <1>1, <1>2 DEF FileInv, ThreadShape, MatchShape, ListsAt, BmhInv, ArgsWell
  <1>4. chars - 1 \in matchStart..Len(input)
    BY <1>3
  <1>5. t < Len(cp) =>
          /\ ii \in here
          /\ inst.op = "branch" => inst.x \in here /\ inst.y \in here
          /\ inst.op = "jmp" => inst.x \in here
          /\ inst.op = "sol" /\ is_sol => ii + 1 \in here
          /\ inst.op = "eol" /\ is_eol => ii + 1 \in here
          /\ inst.op = "match" => Accepts(matchStart, chars - 1)
          /\ \/ inst.op = "char" /\ char_match(mode.icase, C, inst.c)
             \/ inst.op = "any" /\ C # NL
             \/ inst.op = "class" /\ ccs_match(mode.icase, inst.ccs, C)
             \/ inst.op = "nclass" /\ ~ccs_match(mode.icase, inst.ccs, C)
             => ii + 1 \in N!Delta(here, chars - 1)
    BY <1>1, <1>2, FirstRunView
  <1> HIDE DEF here
  <1>6. ASSUME UNCHANGED <<callVars, textVars>>, matchStart' = matchStart,
               pc' \in {"run", "done"},
               Elems(cp') \subseteq here,
               Elems(np') \subseteq N!Delta(here, chars - 1),
               matchEnd' # matchEnd =>
                 matchEnd' = chars /\ Accepts(matchStart, chars - 1)
        PROVE  RunSound'
    BY <1>1, <1>6, ListsNext DEF here
  <1>7. CASE RunChar \/ RunAny \/ RunClass \/ RunNclass
    <2>1. /\ t < Len(cp) /\ pc' = "run"
          /\ UNCHANGED <<callVars, textVars, matchStart, matchEnd, cp>>
          /\ \/ np' = np
             \/ /\ np' = Listed(np, npLookup, ii + 1)
                /\ \/ inst.op = "char" /\ char_match(mode.icase, C, inst.c)
                   \/ inst.op = "any" /\ C # NL
                   \/ inst.op = "class" /\ ccs_match(mode.icase, inst.ccs, C)
                   \/ inst.op = "nclass" /\ ~ccs_match(mode.icase, inst.ccs, C)
      BY <1>1, <1>7 DEF RunChar, RunAny, RunClass, RunNclass, Consume, Running,
                        add_thread_next, nextVars, matchVars, currVars
    <2>2. \/ np' = np
          \/ /\ Elems(np') \subseteq Elems(np) \cup {ii + 1}
             /\ ii + 1 \in N!Delta(here, chars - 1)
      BY <1>3, <1>5, <2>1, ListedAdds
    <2>3. Elems(np') \subseteq N!Delta(here, chars - 1) /\ Elems(cp') \subseteq here
      BY <1>2, <2>1, <2>2
    <2>4. QED
      BY <1>6, <2>1, <2>3
  <1>8. CASE RunSol \/ RunEol
    <2>1. /\ t < Len(cp) /\ pc' = "run"
          /\ UNCHANGED <<callVars, textVars, matchStart, matchEnd, np>>
          /\ \/ cp' = cp
             \/ /\ cp' = Listed(cp, cpLookup, ii + 1)
                /\ \/ inst.op = "sol" /\ is_sol
                   \/ inst.op = "eol" /\ is_eol
      BY <1>1, <1>8 DEF RunSol, RunEol, Anchor, Running, add_thread_curr,
                        nextVars, matchVars, currVars
    <2>2. \/ cp' = cp
          \/ Elems(cp') \subseteq Elems(cp) \cup {ii + 1} /\ ii + 1 \in here
      BY <1>3, <1>5, <2>1, ListedAdds
    <2>3. Elems(np') \subseteq N!Delta(here, chars - 1) /\ Elems(cp') \subseteq here
      BY <1>2, <2>1, <2>2
    <2>4. QED
      BY <1>6, <2>1, <2>3
  <1>9. CASE RunBranch
    <2>1. /\ t < Len(cp) /\ pc' = "run" /\ inst.op = "branch"
          /\ UNCHANGED <<callVars, textVars, matchStart, matchEnd, np>>
          /\ cp' = Listed(Listed(cp, cpLookup, inst.x), cpLookup \cup {inst.x}, inst.y)
      BY <1>1, <1>9 DEF RunBranch, Running, nextVars, matchVars
    <2>2. Listed(cp, cpLookup, inst.x) \in Seq(PCs)
      <3>1. inst.x \in PCs
        BY <1>3, <1>4, <1>5, <2>1, StandsAt DEF here
      <3>2. QED
        BY <1>3, <3>1, ListedType
    <2>3. /\ Elems(Listed(cp, cpLookup, inst.x)) \subseteq Elems(cp) \cup {inst.x}
          /\ Elems(cp') \subseteq Elems(Listed(cp, cpLookup, inst.x)) \cup {inst.y}
          /\ inst.x \in here /\ inst.y \in here
      BY <1>3, <1>5, <2>1, <2>2, ListedAdds
    <2>4. Elems(np') \subseteq N!Delta(here, chars - 1) /\ Elems(cp') \subseteq here
      BY <1>2, <2>1, <2>3
    <2>5. QED
      BY <1>6, <2>1, <2>4
  <1>10. CASE RunJmp
    <2>1. /\ t < Len(cp) /\ pc' = "run" /\ inst.op = "jmp"
          /\ UNCHANGED <<callVars, textVars, matchStart, matchEnd, np>>
          /\ cp' = Listed(cp, cpLookup, inst.x)
      BY <1>1, <1>10 DEF RunJmp, Running, add_thread_curr, nextVars, matchVars
    <2>2. Elems(cp') \subseteq Elems(cp) \cup {inst.x} /\ inst.x \in here
      BY <1>3, <1>5, <2>1, ListedAdds
    <2>3. Elems(np') \subseteq N!Delta(here, chars - 1) /\ Elems(cp') \subseteq here
      BY <1>2, <2>1, <2>2
    <2>4. QED
      BY <1>6, <2>1, <2>3
  <1>11. CASE RunMatch \/ EndOfInput \/ GiveUp
    <2>1. /\ pc' \in {"run", "done"}
          /\ UNCHANGED <<callVars, textVars, matchStart, cp, np>>
          /\ matchEnd' # matchEnd =>
               matchEnd' = chars /\ t < Len(cp) /\ inst.op = "match"
      BY <1>11 DEF RunMatch, EndOfInput, GiveUp, Running, matchVars, currVars, nextVars
    <2>2. matchEnd' # matchEnd => matchEnd' = chars /\ Accepts(matchStart, chars - 1)
      BY <1>5, <2>1
    <2>3. QED
      BY <1>2, <1>6, <2>1, <2>2
  <1>12. CASE Restart
    BY <1>1, <1>2, <1>3, <1>12, RestartSound
  <1>13. CASE Swap
    BY <1>1, <1>2, <1>3, <1>13, SwapSound
  <1>14. QED
    BY <1>1, <1>7, <1>8, <1>9, <1>10, <1>11, <1>12, <1>13 DEF Execute

LEMMA EnterVmSound ==
  ASSUME FileInv, FileInv', RunOnLine \/ VmSearch
  PROVE  RunSound'
  <1>1. /\ EnterVm(fp') /\ matchEnd' = 0 /\ fp' \in 0..Len(input)
        /\ UNCHANGED <<callVars, input>> /\ pc' = "read"
    <2>1. EnterVm(fp') /\ matchEnd' = 0
      BY DEF RunOnLine, VmSearch, FileInv, MatchShape
    <2>2. UNCHANGED callVars /\ pc' = "read"
      BY <2>1 DEF EnterVm
    <2>3. fp' \in 0..Len(input')
      BY <2>2 DEF FileInv, Places
    <2>4. QED
      BY <2>1, <2>2, <2>3 DEF callVars
  <1>2. PICK f \in 0..Len(input) : f = fp'
    BY <1>1
  <1>3. /\ matchStart' = f /\ chars' = f /\ C' = 0 /\ cp' = <<0>> /\ np' = <<>>
    BY <1>1, <1>2 DEF EnterVm
  <1>4. ArgsWell /\ Len(input) \in Nat /\ f \in Nat /\ f \in f..Len(input)
    BY <1>2 DEF FileInv, BmhInv, ArgsWell
  <1>5. 0 \in N!Standing(f)[f]
    BY <1>4, StandsAt
  <1>6. \A s : N!Standing(s)' = N!Standing(s)
    BY <1>1, StandingFixed
  <1>7. Elems(<<0>>) = {0}
    BY DEF Elems
  <1>8. ReadSound'
    <2>1. ReadSound' <=>
            /\ f <= Len(input) /\ np' = <<>>
            /\ Elems(cp') \subseteq N!Standing(f)[f]
            /\ NewlineSeen(C, chars)'
      BY <1>1, <1>3, <1>6 DEF ReadSound, Elems
    <2>2. NewlineSeen(C, chars)'
      BY <1>3 DEF NewlineSeen, NL
    <2>3. QED
      BY <1>3, <1>4, <1>5, <1>7, <2>1, <2>2
  <1>9. QED
    BY <1>1, <1>8 DEF RunSound, MatchSound

LEMMA ReadFileSound ==
  ASSUME FileInv, RunSound, ReadFile
  PROVE  RunSound'
  <1>1. /\ UNCHANGED <<callVars, input, runs>> /\ chars' = chars + 1
        /\ pc' = "run" /\ pc = "read" /\ lastinput' = C
        /\ UNCHANGED <<matchStart, matchEnd, cp, np>>
        /\ runs = 1 => C' = N!CharAt(chars)
    BY ReadFileWell DEF ReadFile, ReadAs, matchVars, currVars, nextVars
  <1> SUFFICES ASSUME runs = 1 PROVE RunSound'
    BY <1>1 DEF RunSound
  <1>2. ReadSound /\ MatchSound
    BY <1>1 DEF RunSound
  <1>3. PICK k : k = chars
    OBVIOUS
  <1>4. k \in Nat /\ chars' - 1 = k
    BY <1>1, <1>3 DEF FileInv, MatchShape
  <1>5. /\ \A s : N!Standing(s)' = N!Standing(s)
        /\ \A S, i : N!Delta(S, i)' = N!Delta(S, i)
        /\ \A i : N!CharAt(i)' = N!CharAt(i)
    BY <1>1, StandingFixed, ClosureFixed, AutomatonFixed
  <1>6. (ListsAt(matchStart, chars - 1))'
    <2>1. (ListsAt(matchStart, chars - 1))' <=>
            /\ k <= Len(input) /\ C' = N!CharAt(k)
            /\ NewlineSeen(C, k)
            /\ Elems(cp) \subseteq N!Standing(matchStart)[k]
            /\ Elems(np) \subseteq N!Delta(N!Standing(matchStart)[k], k)
      BY <1>1, <1>4, <1>5 DEF ListsAt, NewlineSeen, Elems
    <2>2. np = <<>> /\ Elems(<<>>) = {}
      BY <1>2 DEF ReadSound, Elems
    <2>3. QED
      BY <1>1, <1>2, <1>3, <2>1, <2>2 DEF ReadSound
  <1>7. MatchSound'
    <2>1. (Accepts(matchStart, matchEnd - 1))' = Accepts(matchStart, matchEnd - 1)
      BY <1>1, StandingFixed
         DEF Accepts, N!Accepts, callVars, N!MatchAddrs, N!PCs
    <2>2. QED
      BY <1>1, <1>2, <2>1 DEF MatchSound
  <1>8. QED
    BY <1>1, <1>6, <1>7 DEF RunSound

LEMMA RunUnchanged ==
  ASSUME RunSound, UNCHANGED fsVars
  PROVE  RunSound'
  BY StandingFixed, ClosureFixed, AutomatonFixed
     DEF RunSound, MatchSound, ReadSound, ListsAt, NewlineSeen, Elems, fsVars, vmVars,
         vars, callVars, textVars, matchVars, currVars, nextVars, lineVars

LEMMA StepRun ==
  FileInv /\ FileInv' /\ RunSound /\ [FsNext]_fsVars => RunSound'
  <1> SUFFICES ASSUME FileInv, FileInv', RunSound, [FsNext]_fsVars PROVE RunSound'
    OBVIOUS
  <1>1. CASE RunOnLine \/ VmSearch
    BY <1>1, EnterVmSound
  <1>2. CASE ReadFile
    BY <1>2, ReadFileSound
  <1>3. CASE VmStep
    BY <1>3, VmStepSound
  <1>4. CASE SimpleSearch \/ PartialSearch \/ GoOn \/ BmhStep \/ Return
    <2>1. pc' \in {"bmh", "returned"}
      BY <1>4 DEF SimpleSearch, PartialSearch, EnterBmh, GoOn, BmhStep, Return
    <2>2. QED
      BY <2>1 DEF RunSound
  <1>5. CASE FsReturned \/ UNCHANGED fsVars
    BY <1>5, RunUnchanged DEF FsReturned
  <1>6. QED
    BY <1>1, <1>2, <1>3, <1>4, <1>5 DEF FsNext

LEMMA RunInvariance == FsSpec => []RunSound
  <1>1. FsInit => RunSound
    BY DEF FsInit, RunSound
  <1>2. QED
    BY <1>1, StepRun, FileInvariance, PTL DEF FsSpec

(* The report of a program that is no text comes from the first run. *)
RunReport == compiled.simple = <<>> => ReportMatches

LEMMA StepReport ==
  FileInv /\ FileInv' /\ RunSound /\ RunReport /\ [FsNext]_fsVars => RunReport'
  <1> SUFFICES ASSUME FileInv, FileInv', RunSound, RunReport, [FsNext]_fsVars,
                      (compiled.simple = <<>>)', ret' = 1, runs' <= 1
               PROVE  (fp + match_size <= Len(input) /\ Accepts(fp, fp + match_size))'
    BY DEF RunReport, ReportMatches
  <1>1. pc' = "returned"
    BY DEF FileInv, Outcome, Unset
  <1>2. CASE FsReturned \/ UNCHANGED fsVars
    <2>1. UNCHANGED <<callVars, compiled, ret, runs, fp, match_size, input>>
      BY <1>2 DEF FsReturned, fsVars, vmVars, vars, argVars, lineVars, retVars, callVars
    <2>2. fp + match_size <= Len(input) /\ Accepts(fp, fp + match_size)
      BY <2>1 DEF RunReport, ReportMatches, EscapedText
    <2>3. (Accepts(fp, fp + match_size))' = Accepts(fp, fp + match_size)
      BY <2>1, StandingFixed
         DEF Accepts, N!Accepts, callVars, N!MatchAddrs, N!PCs
    <2>4. QED
      BY <2>1, <2>2, <2>3
  <1>3. CASE Return
    <2>1. /\ UNCHANGED <<callVars, input, runs, compiled>> /\ compiled.simple = <<>>
          /\ runs <= 1 /\ Over
          /\ fp' = matchStart /\ match_size' = matchEnd - matchStart - 1
          /\ matchEnd # 0
      BY <1>3 DEF Return, lineVars, argVars, callVars
    <2>2. pc = "done" /\ runs = 1 /\ MatchSound
      <3>1. pc = "done"
        BY <2>1 DEF Over, FileInv, MatchShape, Searching
      <3>2. runs \in 0..2 /\ runs # 0
        BY <3>1 DEF FileInv, FirstRun
      <3>3. runs = 1
        BY <2>1, <3>2
      <3>4. QED
        BY <3>1, <3>3 DEF RunSound
    <2>3. PICK m, n : m = matchStart /\ n = matchEnd
      OBVIOUS
    <2>4. /\ m \in Nat /\ n \in Nat /\ Len(input) \in Nat
          /\ n - 1 \in m..Len(input) /\ Accepts(m, n - 1)
      BY <2>1, <2>2, <2>3 DEF MatchSound, FileInv, MatchShape, BmhInv, ArgsWell
    <2>5. fp' + match_size' = n - 1 /\ n - 1 <= Len(input)
      BY <2>1, <2>3, <2>4
    <2>6. (Accepts(fp, fp + match_size))' = Accepts(m, n - 1)
      BY <2>1, <2>3, <2>5, StandingFixed
         DEF Accepts, N!Accepts, callVars, N!MatchAddrs, N!PCs
    <2>7. QED
      BY <2>1, <2>4, <2>5, <2>6
  <1>4. CASE SimpleSearch \/ PartialSearch \/ GoOn \/ BmhStep \/ RunOnLine \/ VmSearch
             \/ ReadFile \/ VmStep
    <2>1. pc' # "returned"
      BY <1>4, ExecuteFrame DEF SimpleSearch, PartialSearch, EnterBmh, GoOn, BmhStep,
         RunOnLine, VmSearch, EnterVm, ReadFile, ReadAs, VmStep, FileInv, BmhInv
    <2>2. QED
      BY <1>1, <2>1
  <1>5. QED
    BY <1>2, <1>3, <1>4 DEF FsNext

(* What bmh alone or the first run of vm_execute reports is a match of the *)
(* expression, with its size, and lies in the file, through the refills of *)
(* bmhbuf and of fbuf.                                                     *)
THEOREM FirstReportMatches == FsSpec => []ReportMatches
  <1>1. FsInit => RunReport
    BY DEF FsInit, RunReport, ReportMatches, Unset
  <1>2. FsSpec => []RunReport
    BY <1>1, StepReport, RunInvariance, FileInvariance, PTL DEF FsSpec
  <1>3. FileInv /\ TextSearch /\ RunReport => ReportMatches
    BY TextAnswer DEF RunReport
  <1>4. QED
    BY <1>2, <1>3, FileInvariance, TextInvariance, PTL
=============================================================================
