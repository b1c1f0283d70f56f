# A verification project for librxvm

`librxvm` is a regular-expression library in C. An expression is compiled to a
program for a small virtual machine that runs all alternatives in step with the
input. This directory holds TLA+ modules translated from the C source
(`src/librxvm`), TLC configurations that check them on small instances, and
proofs that TLAPS checks for every instance.

`PROJECT.json` maps every definition that stands for code to its lines, lists the
runs, the mutants that show which mistake each property notices, the findings,
the hazards and the theorems.

## 1. The system

### Components

| Component | State | Operations |
|---|---|---|
| **Lexer** (`lex.c`) | `lp1`, `lpn`, `newline_seen`, `literal` (all static) | `lex`: next token or a lexical error; `lex_init` |
| **Stage 1** (`stage1.c`, `vmcode.c`, `stack.c`) | `context_t`: the program, a stack of group buffers, the target, the buffer and operand the next operator applies to; statics `is_nchar`, `alt_seen` | one case per token in each of two states (outside and inside `[ ]`), code generators per operator |
| **Stage 2** (`stage2.c`) | the program table | relocation, optimisation of chains of jumps |
| **Longest fixed substring** (`lfix.c`, `lfix_to_str.c`) | five statics: the open run, the longest one | start/continue, stop, shorten; copy the text of the run |
| **Virtual machine** (`vm.c`) | two thread lists with lookup tables in one allocation, limits of the match, current and last character | `vm_execute`: instruction switch, swap, restart |
| **Match and search calls** (`rxvm.c`) | `threads_t` | `rxvm_match`, `rxvm_search`, `simple_match` |
| **Boyer-Moore-Horspool search** (`bmh.c`) | skip table, buffer, window in it (all static) | `bmh_init`, `bmh_reset`, `bmh`: next occurrence of a string in a file |
| **File search** (`rxvm.c`) | `fbuf`, `bufpos`, `fpos` (static), `threads_t`, the file position | `rxvm_fsearch`: `bmh` alone, `bmh_partial` (`bmh` for the fixed substring, the virtual machine from the start of its line), or the virtual machine alone |
| **Generator** (`randinput.c`) | instruction pointer, string builder | `rxvm_gen`: random walk through the program |
| **String builder** (`string_builder.c`) | bytes, size, allocation | `strb_init`, `strb_addc` |
| Printing, Python binding, examples, tests | | |

### How they interact

`rxvm_compile` calls stage 1, which pulls tokens from the lexer and tells lfix
about literals and operators, then stage 2; it leaves an `rxvm_t` with a program,
or, for an expression without operators, a copy of its text. `rxvm_match` and
`rxvm_search` run `vm_execute` on the program or `simple_match` on the text, with
a callback that yields the next character. `rxvm_fsearch` narrows the file to a line with the
fixed substring and runs the same virtual machine on it, with a callback that
reads the file through a buffer. `rxvm_gen` walks through the program and writes with
the string builder. Everything is sequential; what couples the parts are shared `rxvm_t` and `threads_t` records,
the static variables that outlive a call, and positions counted in different units.

### What is hard

* **The virtual machine** interleaves threads: the order in which they are
  listed, the lookup tables that change places with the lists, and the restart of
  a search in the middle of a character decide what is matched. *Correct* means:
  no table overflows, the lists are exact, a report is a match of the automaton
  and the longest (or shortest) one, every call returns.
* **The calls** translate positions by one or two, and `simple_match` does the
  work of the virtual machine with a pointer into raw text. *Correct* means: the same answer as the automaton.
* **The compiler** patches jumps late, moves instructions among lists
  that own them, and keeps statics across calls. *Correct* means: the program
  never loses control, accepts the language of the expression, and every token
  sequence gets an answer.
* **The lexer** decides from the character before or after whether something is
  escaped, and stage 1 reads the text again behind it. *Correct* means: no character is
  lost or read twice, and stage 1 sees the bounds the lexer saw.
* **lfix** must only report literals that every match holds, or the file search
  skips matches.
* **The file search** keeps three positions in the file and two buffers. *Correct* means:
  the buffer is a window on the file, no skip passes an occurrence, the virtual machine
  starts early enough on the line, a report is in the file, the call returns.
* **The generator** loops at random. *Correct* means: what it writes matches, the limit
  bounds it, it returns.

Nothing runs concurrently and nothing is persisted, so there are no hazards of
crash recovery, delivery or locking.

## 2. Modules

| Module | What it holds |
|---|---|
| `RxvmInst` | instructions as `setop.c` makes them, well-formed programs, character comparison |
| `Vm` | `vm_execute`, one action per instruction and per way out of the loop over the threads |
| `Nfa` | a program read as a nondeterministic automaton: moves, closure, acceptance |
| `NfaScan` | **abstract specification** of an engine: a scan that carries a *set* of instructions |
| `VmScan` | `Vm` and the refinement mapping to `NfaScan`; what a report must satisfy |
| `Induction` | induction over the naturals, with sets in place of predicates; functions defined step by step |
| `VmProofs` | theorems about `Vm` |
| `NfaScanProofs` | theorems about `NfaScan`: what a scan knows of its automaton |
| `VmScanProofs` | the refinement of `NfaScan` by `Vm`, and what `Vm` inherits by it |
| `SimpleText` | the text of an expression without operators: its escapes, the program it stands for |
| `Api` | `rxvm_match` and `rxvm_search` with both engines (composes `Vm` with `simple_match`) |
| `ApiProofs` | theorems about `Api`: both engines, and the answers of the calls |
| `Readme` | statements of README.rst about calls that the code contradicts |
| `Lfix` | the five statics of `lfix.c` and its functions on them |
| `Compiler` | `rxvm_compile` from tokens: stage 1 with its stacks and code generators, stage 2 |
| `CompilerProofs` | theorems about `Compiler` |
| `Lex` | `lex.c` as a function of the text, with `parse_rep` and the second reading of a range in `stage1.c`; **reference**: the syntax of tokens and their text |
| `Regex` | **reference**: expressions as trees, their text, and what they match |
| `CompilerLang` | composes `Lex`, `Compiler` and `lfix_to_str` from the text of an expression on, against `Regex` |
| `Substring` | **abstract specification** of a search for a string: places are ruled out from the left |
| `Bmh` | `bmh.c`: buffer, refills, skip table, search loop; its refinement mapping to `Substring` |
| `FSearch` | `rxvm_fsearch`: composes `Bmh` and `Vm` through `bmh_partial` and `getchar_file` |
| `FSearchProofs` | theorems about `Bmh` and `FSearch` |
| `StrBuf` | the string builder |
| `Gen` | `rxvm_gen` over `StrBuf` |
| `GenProofs` | theorems about `Gen` |
| `MCVm`, `MCApi`, `MCCompiler`, `MCCompilerLang`, `MCFSearch`, `MCGen` | instances for TLC |

### How state and actions correspond to the code

**Vm.** `cp`, `np` are the lists as sequences of addresses; the lookup tables are
the sets of addresses marked 1. `pc` says whether control is at `getchar`, in the
loop over the threads (`skip_readchar`), or returned. `t` threads of the list have run. The first entry of
`cp` is thread 0, as `Init` leaves it. `Restart` models both ways the search goes
on; the list entries it clears in the table are cleared one by one, as in the code,
so that an entry left behind would stay behind. Characters are their codes.

**Api.** `engine` tells which field of `rxvm_t` is set. `simple_match` shares the
variables of `threads_t` with the machine: `chars`, `matchStart`, `matchEnd`, `C`. The
pointers are offsets, null is -2, one below an empty match at offset 0.

**Lex.** `lex(s, i, literal)` is one call of `lex` with the pointer at offset `i` of
the text `s`. In the place of `lp1` and `lpn` a token carries what stage 1 reads there: the
character of a literal, the bounds of a range as `expand_char_range` reads them behind `lp1`,
the numbers of a repetition; its raw width, and the offset of `lp1` in it (1
behind an escape). `Lexed` calls `lex` as stage 1 does, up to the first error.

**Compiler.** An expression is the sequence of tokens the lexer yields. A stack
of the code is kept in program order. `parens` is the stack of group buffers,
its first element the base; `target`, `buf` and `operand` are indices in
place of pointers, so that a pointer to a freed or foreign list is an index that does
not exist or belongs to another stack. Copying a stack from an item
and linking its items elsewhere become concatenations. Where the C code walks off a
list or frees an instruction twice, the call ends with outcome `"undefined"`.
Classes are sets of characters. `compile` gives token sequences directly too, so that
ill-formed ones are all met; `Lexable` keeps those the lexer cannot
yield out, and `LexRight` shows that it keeps no other out. `CompilerLang` starts from the text.

**Lfix** counts in offsets of the text. Its `unsigned int` wraps at 2^16 (`UIntSize`) in place of
2^32: only differences of offsets in one expression, and the result of taking 1 or 2
from 0, are ever compared. A position wraps where a static is assigned, so its
statics are in range whatever the tokens.

**Bmh.** A step of `bmh` is `Skip` (`skip`, and `fill` when the window leaves the data)
or a comparison of the whole window, `Mismatch` or `Occurrence`. The table has no entry
for the tilde, `ASIZE` is one too small; what the code reads for it is the padding behind the
table, which holds 0 unless `bmh_init` writes there, and the model gives it that value.

**FSearch.** `pc` is where control is: `"entry"`, `"bmh"`, in `vm_execute` (`"read"`, `"run"`, `"done"`),
`"returned"`. `ReadFile` is the call of `getchar_file`, an instance of `Vm!ReadAs`; every
other step of `vm_execute` is `Vm!Execute`. `boundary` is `last_match_end`. `fbuf` lies on
the C stack of the call: a byte nothing was written to is `Uninit`, and reading one yields any value of `Garbage`.
`runs` only counts, up to two, how often `vm_execute` was started; properties use it, no guard does.

**Gen.** The walk stands at `ip`. `rand()` is a free choice among the values each
range allows: `choice(p)` may succeed if `p > 0` and fail if `p <= 100`. `result` and `len`
are what the caller gets; allocation may fail at every block.

Definitions with a suffix (`Swap_staleTable`) are plausible mistakes in the
definition that follows them. Nothing uses them; they are the mutants.

## 3. Runs

| Run | Instance | Shows |
|---|---|---|
| `vm` | 14 programs, inputs up to 3 characters over a, b, newline and up to 4 over a, b, all flags | types, exact thread lists, no overflow, anchors see the right characters, each attempt starts later than the dead one before it; refinement of `NfaScan`; a report is an accepted match and extreme; attempts are abandoned only if hopeless; termination |
| `api` | 4 programs and 5 texts, inputs up to 5 | `rxvm_match` exact, `rxvm_search` sound, a search passes only hidden matches, `simple_match` keeps the promise of `NfaScan`, calls return |
| `compile` | about 1100 trees, some 22,000 other texts; all token sequences up to 5 (groups and operators), 4 (classes), 3 (the rest); then a second call | tokens follow the syntax; the program of a text accepts what its tree matches, from every position, both modes (`$` before a final newline excepted); fixed literals occur in every match; compiled programs are well formed, chains of jumps are gone, the verdict on parentheses, the fixed text is a run of literals nothing makes optional, every call returns |
| `fsearch` | 7 texts and 10 programs, files up to 6 characters, from several positions, with and without folding, buffers of 4, 3 and 2 bytes | `bmh` keeps the promise of `Substring` on a buffer that is a window on the file; what `bmh` alone or the first run of the machine reports is a match of its size; a report and a miss pass a match only for one of five reasons; every call returns |
| `gen` | 9 programs, 3 texts, 4 settings | generated strings match, the limit bounds them, nothing past the allocation, every call returns |

**Why the bounds are enough.** The programs of `MCVm` are the ones the compiler makes
of expressions chosen for nested loops, loops through anchors, alternatives of
different length, and a prefix that repeats (`aa+b`), so that lists of several
threads, double listing, restarts in the middle and at the first character and swaps all
happen; every program but `a.*b|b` has a loop or a
match within three characters, and a search restarts within four. The texts of
`MCCompilerLang` are all of up to four characters over eleven that mean something to the
lexer, longer ones inside a class and between braces: an escape before
and after each bound of a range, twice in a row, before the end. Trees
of `MCCompilerLang` nest every operator in every other, alternatives up to four
deep, in groups and outside. Five tokens hold a group with an operator after it
or an alternative chain; a longer chain is added by hand. A second call needs only a few
expressions since only two statics reach it.

`fsearch` shrinks `BUFSIZE` to 4, `FBUF_SIZE` to 3 and `LBUF_SIZE` to 2. Every file longer
than that is refilled, a string lies across every boundary, a line starts more than a chunk
before the substring, and the file ends at and off a boundary. One text repeats its beginning at its end, one
nowhere, one starts with a character twice; one holds the tilde, one the bell next to bytes above 127, two an
escape. Of the programs, `[^x]+ab` and `[^x]{3}ab` match newlines in front of the fixed substring, `aab+` has a
failed attempt that hides a match, `^ab` is searched for from inside the file, and some searches fold case. The tilde
is only in a text that has it before its end (`doc_fsearch_returns`).

A file search passes matches that it should find, in five ways. `ReportIsFirst` and `MissIsRight` name them (`MayPass`)
and say that there is no other:

* `OtherCase`: the fixed text occurs in the match, but spelled in the other case. The skip table does not fold
  (instance `DocCalls_icase`).
* `EarlierLine`: the match begins before a newline that comes before the first fixed substring, and
  `vm_execute` starts at that newline at the earliest (run `doc_fsearch_finds`).
* `AnchorUnseen`: the program has a `^` and the match begins at the place of entry or at a newline, where the virtual machine does not
  know the character before (`DocCalls_anchor`).
* `HiddenPlace`: an attempt that matches nothing was alive at its start (as in `doc_search_finds`).
* `EscapedText`: an expression without operators is searched for with its backslashes (`DocCalls_escape`).

Each is needed: without any one of them TLC finds `ReportIsFirst` or `MissIsRight` violated on this instance.
`ReportMatches` and `ReportIsFirst` speak of `bmh` alone and of the first run of `vm_execute` in a call:
`doc_fsearch_report` shows what a later one does. `ReportMatches` excepts texts with escapes, which are found where their
backslashes are.

`gen` has visible characters a to c and blanks 9 to 11, with the newline among them, and blocks of two bytes, so that the
terminator falls on and off a block boundary. The programs loop through loops, anchors and nothing; generosity
goes from 0 to 100, and whitespace to 101, where it always succeeds.

**Fairness.** Weak fairness of the whole next-state relation: the caller of
a C function waits for it, so a step that can be taken is taken. Nothing else is
scheduled. The machine and the calls stutter when they have returned. `Gen` has strong
fairness of leaving each branch by its second address besides: the choice is
drawn from 0 to 100 and compared with a value of at most 100, so it fails with
a probability that is not 0, and a branch that is met for ever is left. For a generosity above 100, which
README.rst excludes, the action is not enabled below the limit and nothing is assumed.

### Contradictions found

Each is a run that must fail, with the statement quoted in the finding.

| Run | The code | What is said of it |
|---|---|---|
| `doc_search_finds` | a search for `aab+` in `aaab` finds nothing: a failed attempt is followed by one at the character that killed it | a search ends at a match or the end of the string |
| `doc_compile_returns` | two literals and `{0}` free an instruction twice | a negative number is returned |
| `doc_class_caret` | a class is negated because an earlier compilation failed inside `[^` | a class is negated by its caret |
| `doc_fsearch_report` | a second run of `vm_execute` in a file search reads what the first one left in the buffer: a report where nothing matches | the file is left at the first character of the match |
| `doc_fsearch_returns` | the skip of a window that ends in a tilde is 0: a search for `ab` stays there | the file is searched to its end, 0 if nothing matches |
| `doc_fsearch_finds` | `[^x]{3}ab` is not found in `zz`, newline, `ab`: the virtual machine starts at the newline | the file is searched from its position to its end |
| `doc_gen` | `a$` generates a newline behind the a, which no call accepts, and `len` is 3: it counts the null character | the string matches the expression; `len` excludes the null character |

`FsearchFindsMatch`, the property of `doc_fsearch_finds`, is violated in three more ways. Give `Calls` in
`MCFSearch_finds.cfg` one of these definitions of `MCFSearch` to see them:

* `DocCalls_icase`: `ab` is not found in `aAB` with `RXVM_ICASE` (README.rst:559), because the skip table does not
  fold case (`bmh.c:79`).
* `DocCalls_escape`: an escaped star is not found where there is a star (README.rst:181-183), because the text is
  searched for with its escapes (`rxvm.c:413`).
* `DocCalls_anchor`: `^ab` is not found from a position behind a newline with `RXVM_MULTILINE` (README.rst:576-577),
  because `is_sol` (`vm.c:32`) does not know the character before the place where `vm_execute` starts.

And a line that is not the one of the fixed substring does not only hide a match: `[^x]+ab` in `z`, newline, `zab` is
reported at 1 in place of 0, in the first run of `vm_execute` (`rxvm.c:283-289`, `357`).

`Regex` is written from the table of syntax in README.rst, `$` included; only its `.` follows the virtual machine, which
keeps it from newlines. README.rst:153-156 says that `$` by default also matches before a newline that ends the input;
`is_eol` (`vm.c:41`) heeds such a newline only with `RXVM_MULTILINE`. So `LanguageRight` excepts, in `FinalNewlineAnchored`,
expressions with a `$` on strings that end in a newline, without that flag. Without the exception it is violated,
by `a$` on an a and a newline.

Two more are known: simple search for `\*a` may report the backslash of the input (`rxvm.c:135`), and folding moves
every code up to Z, so `;` matches `[` (`vm.h:6`). The hazards of `PROJECT.json` say what else no property covers.

`AbandonsOnlyHopeless` and `doc_search_finds` belong together: an attempt is given
up only when nothing starts where it did, but starts between it and the next
attempt, which begins at the character that killed it (`Retry`), are never tried. `MissesOnlyHidden` says how far this
goes: a search passes a match only if an attempt that matches nothing was alive at its start (`HiddenStart`).

## 4. Proofs

What is proved holds for every value of the constants that satisfies the named
assumptions; TLC evaluates these on the instances of section 3.

| Module | Assumptions, and why the code justifies them |
|---|---|
| `Vm` | programs are well formed (`ProgramsAssumption`): that is what the compiler makes, `CompiledIsWellFormed`; inputs are finite sequences of characters (`InputsAssumption`) |
| `Api` | besides, a text does not end inside an escape (`SimplesAssumption`): the lexer refuses it (`RXVM_ETRAIL`) |
| `FSearch` | the buffers have a size (`SizesAssumption`); programs are well formed, fixed texts fit `bmhbuf` and hold printable characters (an escape lets others through the lexer, and `bmh_init` would write beside its table for them), the program of an expression without operators is the chain of its characters, escapes dropped (`WholeText`, `Program`), files hold no byte 255 (`CallsAssumption`) |
| `Gen` | programs are well formed and loop only through the first address of a branch (`CallsAssumption`, again `CompiledIsWellFormed`), that of a text is the chain of its characters; ranges of characters (`RangesAssumption`); a block size of 1 or more (`BlockAssumption`) |
| `Compiler` | expressions are sequences of tokens as the lexer makes them (`ExpressionsAssumption`): `LexYieldsTokens`, for texts of seven-bit characters |

### The compiler: `CompilerProofs`

`CompiledIsWellFormed`: whatever the tokens, and however many calls came before, what
`rxvm_compile` returns is a program that control never leaves and that loops only through
the first address of a branch. The other modules assume this of
their programs. `ChainsAreShort`: no jump of it lands on a jump. `CompilerTypeCorrect`: indices of
stacks name stacks that exist.

That the final program is well formed says nothing of the half-built one, so the
invariant is about relative addresses:

* `Fits`: an instruction leads to a place of its own code or just behind it, and
  only the first address of a branch leads back. Code that fits may be placed anywhere
  (`ConcatFits`) and copied any number of times (`CopiesFit`, by induction: `{n,m}`).
* `StackFits`: every instruction of a stack fits but the one jump `dangling_alt` remembers.
* `Shape`: the base holds neither jumps nor branches, and the buffer and the groups above the target
  have no jump to be set. So nothing is moved away from under a jump that is set later.
* `Last`: behind a `)` the buffer is that group and the operand all of it; otherwise the
  buffer is without jumps and branches, so an operator may cut off its last instruction.
* `Finished`: what stage 1 leaves to stage 2 fits, with a match behind it.

`ParenthesesJudged`: outside empty groups `rxvm_compile` succeeds only with every group closed,
answers `RXVM_EPAREN` only with one open and `RXVM_BADPAREN` only at a `)` that closes nothing. `stage1`
counts no parentheses for this; it looks at its stacks, and a group without code is dropped
early. So `Balanced` (`CompilerBalance`) counts over the tokens read: they are a prefix of the
expression (`Placed`), there is a stack for each group it leaves open (`Level`), one more
behind a `)` (`JustClosed`), and the innermost holds code unless only empty classes and anchors
came since its `(` (`Filled`, `Bare`), which is what an empty group is.

`FixedTextIsLiteral`: the span `rxvm_fsearch` gets to look for covers literals outside of groups and
classes, starts at the text of one or behind its backslash, ends before any literal an operator makes optional, and has
no alternative beside it. lfix.c learns of tokens one call at a time and never sees the expression, so `Runs`
(`RunsHold`) relates its statics to the prefix that was read: `Between` says what the offset, the
depth and the flags of `stage1` stand for (the depth is unsigned and a stray `)` would wrap it:
`UnclosedBounds`), `Fixed` that the stored run is one whose last literal stays, `Counted` that the open run ends
at the last literal read, or earlier once a newline stopped the count, or is the leading one that
`compile_simple_backlog` set without opening it. The last literal of an open run may still be made optional by the next token: then
`lfix_dec` leaves it out (`DecFixed`), and otherwise the run may be stored as it is (`OpenFixed`).
`Countable` excepts what lfix.c miscounts: an expression that begins with a newline, `{0,m}` and
`{n,0}`; and it bounds the text by the range of an `unsigned int`.

TLC checked the three invariants on the token sequences of `compile` (81,273 states) before they were
proved. Stage 2 is proved by induction from the end of the program: jumps lead forward, so `ChainEnd`
is defined for a jump once it is for every place behind it.

`LexYieldsTokens`: every text of characters 1 to 127 is cut into tokens of `LexToken`, well formed or not. What is to be shown is that a
range has a printable bound at its end (`RangeRead`), that a repetition has a number at one end at
least, whatever lies between its braces (`RepRead`, `RepParsed`), and that no token reaches
past the text (`LexAdvances`), so that `Lexed` is defined (`LexFunction`, by induction from the end of the text). The numbers are
those an `int` holds (`stage1.c:125`).

### The virtual machine: `VmProofs`, `NfaScanProofs`, `VmScanProofs`

* `Invariance`: `Spec => []Inv`. `Inv` is `TypeOK /\ Between /\ PeeksRight /\
  ThreadLists`. `TypeOK` alone is not inductive: that an address added is in the table follows
  from `WellFormed`, but `Between` is needed for where the counters stand to one another
  (`t` within the list, `matchStart < matchEnd <= chars`), and `PeeksRight` for a restart to stay inside
  the input: it happens only when the current character is one of it. One lemma per
  action; `AddThread` says once what `add_thread` keeps.
* `TypeCorrect`, `ThreadListsExact`, `AnchorsPeekRight`, `OnlyForward` follow from
  `Inv` (`OnlyForward`: behind a dead attempt the next one starts strictly later, which needs `matchStart < chars` of `Between`); `NoTableOverflow` by a pigeonhole lemma (`UniqueFits`): a list
  without repetition over the table is no longer than the table. This is what stands
  in for the bounds check `add_thread` does not make.
* `VmImplementsScan`: `Spec => ImplementsScan`. The simulation `Sim` says of a half-run list that the
  threads already run have made their moves, that the next list is exactly what the automaton
  reaches from them, and that a match among them is recorded. Every instruction then
  keeps the closure of the list (a stutter), a match is `Accept`, a swap `Advance`, a
  restart `Retry`, a return `Finish` or `Accept`.
* `ScanKnows`: the invariant `Known` of a scan. Its threads are all that the automaton can stand at since
  the origin of the attempt, the best match recorded is accepted, and no match behind the scan is
  forgotten. `DeadEnd` shows by induction over the input that a scan without threads has
  nothing ahead of it. `ScanGivesUpHopeless`: an attempt is abandoned only
  if the automaton accepts nothing from its origin.
* `ScanMissesHidden`: `Skips` adds that the scan always stands somewhere, and so has survived every character since its
  origin (`AliveSoFar`, the reverse of `DeadEnd`); a start it passes is hidden by it (`AttemptHides`).
* `ReportsMatch`, `ReportsExtreme`, `HopelessAbandoned` carry these over to the virtual machine by the
  refinement. `ReportsExtreme` is about the starts that are tried; `doc_search_finds` shows
  one that is not.

### The calls: `ApiProofs`

* `ApiInvariance`: `ApiSpec => []ApiInv`, with one part for each engine (the invariant and the simulation of `Vm`, or
  `SimpleInv`: `simple_match` stands inside its text and its input) and `ResultInv`, which ties
  what the call returns to the positions of the engine. `ApiTypeCorrect` follows.
* `ScanInv` adds, for the text, that `simple_match` is a scan of the chain of `char` instructions
  the text stands for: the scan stands at the instruction of the literals read so far
  (`Track`). How many literals a prefix of the text holds is learnt by induction over it
  (`ReadingUnfolds`, `ReadingGrows`).
* `MatchIsExact`: `rxvm_match` says yes exactly when the automaton accepts the whole input, whichever
  engine runs, whatever the text. `SearchIsSound` (the pointers delimit a match), `SearchMissesHidden` (only hidden matches are
  passed) and `EnginesScan` (both engines refine `NfaScan`) have the hypothesis `NoLeadingEscape`. It is necessary: after a mismatch the
  search goes back to the start of its text, but behind the step over an escape, so a
  leading backslash is itself compared with the input (`rxvm.c:135`).

### The file search: `FSearchProofs`

* `BmhInv` is proved for every buffer size, file and text: the arguments and the control fit
  together, the skip table is that of the text (`PatternWell`), the buffer is a window on the file
  (`InBuffer`), an occurrence found is one (`FoundPlace`). `FillWindow` says that a refill keeps the part of the
  buffer the window needs; `TableRulesOut` that a skip passes no occurrence. `BmhBufferIsWindow` and
  `BmhFindsFirst`, the refinement of `Substring`, follow. The tilde, whose entry of the table
  is not there, is part of it: a skip of 0 rules nothing out.
* `FileInv` adds `vm_execute`: in its first run what is left in `fbuf` is what the file holds behind the
  characters read (`FirstRun`), so the report lies in the file. `FsTypeCorrect` follows. An
  earlier `FsTypeOK` claimed the report in the file for every run; the proof failed in `ReadFile`, and a buffer of
  12 bytes gave TLC the counterexample: a later run reads what the first one left. The
  property now says what is true, and `doc_fsearch_report` shows the rest.
* `TextsFoundFirst`: for a text, `ReportMatches`, `ReportIsFirst` and `MissIsRight` hold of every file, mode and buffer
  size. Where case is not ignored and the text has no escape this leaves no match that may be passed, and the theorem
  says so: `FsearchFindsMatch` holds, what README.rst promises. With `RXVM_ICASE` occurrences in another spelling may be
  passed (`DocCalls_icase`), and a text with escapes is admitted by the assumptions but excepted by the properties
  (`DocCalls_escape`). The invariant `TextSearch` says that no place where the text is spelled lies between the
  start of the search and the window (`NoneBefore`), by what `BmhFindsFirst` says of each skip; `ChainAccepts`, an
  induction over the text, makes the places where it occurs those where its automaton accepts.
* `FirstReportMatches`: `ReportMatches` for every program, however `bmh_partial` came to its line. `vm_execute` reads
  through `fbuf` here, so it is no instance of `VmImplementsScan`: the invariant `RunSound` says that in the first run
  every thread stands where the automaton can stand (`StandsAt`) and that `fbuf` yields the
  characters of the file (`FirstRunView`, from `FirstRun`). A later run is outside it, as `doc_fsearch_report` shows.

### The generator: `GenProofs`

`Inv` adds to the bound (`Walked`) where the walk stands (`InProgram`) and that the allocation holds the string
(`Grown`). `MoveKeeps` says that a step without output keeps the bound if it leads forward or the
limit is not reached, which is what `LoopsByBranch` gives `BranchKeeps`. `GeneratedBounded`,
`StringWithinSpace` and `GenTypeCorrect` follow. The copy of a text drops its escapes;
`UnescapedLength` finds its length by induction over the text, so that `StringWithinSpace` and
`ReportsItsLength` hold for texts too; the length it speaks of has the terminating null character (`doc_gen`).

`GeneratedAccepted`: the string is accepted from its first to its last character. The invariant
`Following` says that what is written takes the automaton to where the walk stands
(`OnPath`). The automaton looks ahead at an eol and the walk does not, so this is said of every
string that continues what is written, and of those with a newline next where the program has one.
`AtLineStart` says that in a set of places closed under the ways to a sol a line has just
begun. Both need `AnchorsHeld`, under which no anchor writes a newline of its own:
one that does writes what the program then does not read (`doc_gen`). `CharsHeld` keeps out
the class of every visible character. Both are hypotheses of `GeneratedMatches`, and
`MCGen` has TLC check that all its programs satisfy them.

### What is only model-checked

* Liveness (`Terminates`, `CallReturns`, `CompileReturns`, `FsReturns`, `GenReturns`): out of reach
  of the prover.
* `LexRight`, `LanguageRight`, `FixedOccurs` compare with `Lex`'s reference and `Regex`, whose definitions are
  recursive over trees and texts.
* `ReportIsFirst` and `MissIsRight` for programs that are no text: which matches a search with a fixed substring or with
  the virtual machine alone passes, and that there are no other reasons than those of `MayPass`.

## 5. Not modelled

* Want of memory in the compiler and the calls (`RXVM_EMEM`) and null arguments, which return at once;
  errors of `fseek`, `ftell` and `fread` (`RXVM_IOERR`), likewise. `rxvm_free` frees what `rxvm_compile` allocated.
* `strb_adds` and `strb_addu`: no code of the library calls them, only a test program.
* `rxvm_print` and `rxvm_print_err` format. The Python binding and the example programs convert
  arguments around one call each.
* `FixedOccurs` is checked of trees without newlines, without `{0,m}` and without an escaped
  backslash. For these the code keeps a literal that a match need not hold (`stage1.c:455`,
  `stage1.c:70`, `lfix_to_str.c:15`), and `rxvm_fsearch` misses matches of them.
* Characters are bytes the lexer prints; a byte of 127 in a range (`stage1.c:353`) and of 255 in a file
  (`rxvm.c:322`) are outside the models, as are a range from a byte above 127, a
  negative `char`, up over the null character, and numbers of a repetition that overflow an `int` (`stage1.c:125`), a
  fixed text longer than the buffer (`bmh.c:55`) or with an unprintable character behind an escape (`bmh.c:113`), and the empty expression in a file search (`bmh.c:112`).

## 6. Plan

What is left are proofs, in order of importance:

1. `ReportIsFirst` and `MissIsRight` for programs that are no text, first with one run of `vm_execute`.
