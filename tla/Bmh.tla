--------------------------------- MODULE Bmh ---------------------------------
(***************************************************************************)
(* bmh.c: the Boyer-Moore-Horspool search for a fixed string in a file,    *)
(* through a buffer of BUFSIZE bytes.  A step of the search moves the      *)
(* window by `skiplen` (skip), reading more of the file when it leaves the *)
(* buffer (fill), and another compares it with the pattern.                *)
(*                                                                         *)
(* bmhbuf and pattern are indexed from 0 and 1.  EndChar stands for EOF.   *)
(* As in Vm, a definition with a suffix is a plausible mistake in the      *)
(* definition below it that nothing else uses.                             *)
(***************************************************************************)
EXTENDS RxvmInst, FiniteSetsExt

CONSTANT BUFSIZE   \* of bmhbuf; the patterns are not longer

VARIABLES
  input, mode,            \* the file, the flags of the search
  fp,                     \* the position in the file
  pattern, badchar,       \* what is searched for, and its skip table
  bmhbuf, pos, end,       \* the buffer, the end of the window, of the data
  skiplen,                \* how far the window moves next
  scan,                   \* "off", "skip", "compare", "found" or "none"
  matchStart, matchEnd    \* of threads_t

fileVars == <<input, mode>>
bufVars == <<fp, bmhbuf, pos, end>>
patVars == <<pattern, badchar>>
matchVars == <<matchStart, matchEnd>>

PRINTABLE_LOW == 32
PRINTABLE_HIGH == 126
WS_LOW == 7
WS_HIGH == 13
isprintable(c) == c \in PRINTABLE_LOW..PRINTABLE_HIGH \/ c \in WS_LOW..WS_HIGH

plen == Len(pattern)
pendix == plen - 1
endix == end - 1

-----------------------------------------------------------------------------
(* fill: the last `backup` bytes move to the front, the file fills the     *)
(* rest, and EOF what the file does not                                    *)
fill_dropped(buf, e, f, backup) ==
  LET rsize == Min({BUFSIZE - backup, Len(input) - f})
  IN  [fp |-> f + rsize, end |-> backup + rsize,
       buf |-> [i \in 0..(BUFSIZE - 1) |->
                  IF i < backup THEN buf[i]
                  ELSE IF i < backup + rsize THEN input[f + i - backup + 1]
                  ELSE EndChar]]

fill(buf, e, f, backup) ==
  LET rsize == Min({BUFSIZE - backup, Len(input) - f})
  IN  [fp |-> f + rsize, end |-> backup + rsize,
       buf |-> [i \in 0..(BUFSIZE - 1) |->
                  IF i < backup THEN buf[e - backup + i]
                  ELSE IF i < backup + rsize THEN input[f + i - backup + 1]
                  ELSE EndChar]]

Filled(r) == bmhbuf' = r.buf /\ end' = r.end /\ fp' = r.fp

(* bmh_init: how far a window whose last character is c may move.  The     *)
(* table has no entry for the last printable character: its place is the   *)
(* memory after the table, 0 unless the pattern wrote there.               *)
bmh_table_first(pat) ==
  [c \in WS_LOW..PRINTABLE_HIGH |->
     LET at == {i \in 1..(Len(pat) - 1) : pat[i] = c}
     IN  IF at = {} THEN IF c = PRINTABLE_HIGH THEN 0 ELSE Len(pat)
         ELSE Len(pat) - Min(at)]

bmh_table(pat) ==
  [c \in WS_LOW..PRINTABLE_HIGH |->
     LET at == {i \in 1..(Len(pat) - 1) : pat[i] = c}
     IN  IF at = {} THEN IF c = PRINTABLE_HIGH THEN 0 ELSE Len(pat)
         ELSE Len(pat) - Max(at)]

(* bmh_init *)
Pattern(pat) == pattern' = pat /\ badchar' = bmh_table(pat)

(* bmh_reset at file position f, and the entry of bmh *)
Begin(pat, f) ==
  /\ Filled(fill(bmhbuf, end, f, 0))
  /\ pos' = 0
  /\ skiplen' = Len(pat) - 1
  /\ scan' = "skip"

-----------------------------------------------------------------------------
(* endix is unsigned: nothing is past the end of an empty buffer *)
PastEnd(total) == end # 0 /\ total > endix

Skip ==
  /\ scan = "skip"
  /\ LET total == pos + skiplen
     IN  \/ /\ PastEnd(total)
            /\ Filled(fill(bmhbuf, end, fp, plen - (total - endix)))
            /\ pos' = pendix
         \/ /\ ~PastEnd(total)
            /\ pos' = total
            /\ UNCHANGED <<bmhbuf, end, fp>>
  /\ scan' = IF bmhbuf'[pos'] = EndChar THEN "none" ELSE "compare"
  /\ UNCHANGED <<fileVars, patVars, skiplen, matchVars>>

Fits ==
  \A i \in 0..pendix :
    char_match(mode.icase, bmhbuf[pos - pendix + i], pattern[i + 1])

Mismatch ==
  /\ scan = "compare" /\ ~Fits
  /\ skiplen' = IF isprintable(bmhbuf[pos]) THEN badchar[bmhbuf[pos]] ELSE plen
  /\ scan' = "skip"
  /\ UNCHANGED <<fileVars, bufVars, patVars, matchVars>>

Occurrence ==
  /\ scan = "compare" /\ Fits
  /\ matchStart' = fp - 1 - pendix - (endix - pos)
  /\ matchEnd' = fp + 1 - (endix - pos)
  /\ scan' = "found"
  /\ UNCHANGED <<fileVars, bufVars, patVars, skiplen>>

Step == Skip \/ Mismatch \/ Occurrence

-----------------------------------------------------------------------------
(* The buffer is a window on the file: it holds the bytes that end at the  *)
(* position in the file, through every refill, and then EOF.  Nothing is   *)
(* read outside of it.                                                     *)
BufferIsWindow ==
  scan # "off" /\ scan # "found" =>
    /\ end \in 0..BUFSIZE /\ pos \in 0..(BUFSIZE - 1)
    /\ \A i \in 0..(BUFSIZE - 1) :
         bmhbuf[i] = IF i < end THEN input[fp - end + i + 1] ELSE EndChar
    /\ scan = "compare" => pos - pendix >= 0 /\ pos < end

(* The search keeps the promise of Substring: a window never moves past an *)
(* occurrence, and what is reported is one, whatever the skips and refills. *)
WindowStart == fp - end + pos - pendix
Search ==
  INSTANCE Substring WITH
    icase <- mode.icase,
    answer <- CASE scan \in {"skip", "compare"} -> "open"
                [] scan = "found" -> "found"
                [] OTHER -> "none",
    from <- CASE scan = "skip" -> WindowStart + skiplen
              [] scan = "compare" -> WindowStart
              [] OTHER -> 0,
    place <- IF scan = "found" THEN <<matchStart, matchEnd - 1>> ELSE <<0, 0>>
=============================================================================
