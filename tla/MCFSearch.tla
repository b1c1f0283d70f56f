------------------------------ MODULE MCFSearch ------------------------------
(***************************************************************************)
(* Instances of FSearch for TLC, with buffers of a few bytes.  The         *)
(* programs are what rxvm_compile makes of the expressions in the comments *)
(* and the fixed substrings the ones it finds.                             *)
(***************************************************************************)
EXTENDS FSearch

a == 97
b == 98
c == 99
x == 120
z == 122
tilde == 126
bell == 7
high == -61
star == 42

Prog(s) == [i \in 0..(Len(s) - 1) |-> s[i + 1]]
Simple(s) == [prog |-> Program(s), simple |-> s, lfix |-> <<>>]
Full(s, f) == [prog |-> Prog(s), simple |-> <<>>, lfix |-> f]

ABs   == Full(<<IChar(a), IChar(b), IBranch(1, 3), IMatch>>, <<a, b>>)  \* ab+
XAB   == Full(<<IBranch(1, 3), IClass({a, b}), IBranch(1, 3), IChar(a),
                IChar(b), IMatch>>, <<a, b>>)                      \* [ab]*ab
ABEol == Full(<<IChar(a), IChar(b), IEol, IMatch>>, <<a, b>>)      \* ab$
SolAB == Full(<<ISol, IChar(a), IChar(b), IMatch>>, <<a, b>>)      \* ^ab
ABAny == Full(<<IChar(a), IChar(b), IAny, IMatch>>, <<a, b>>)      \* ab.
NoXAB == Full(<<INclass({x}), IBranch(0, 2), IChar(a), IChar(b), IMatch>>,
              <<a, b>>)                                            \* [^x]+ab
NoX3AB == Full(<<INclass({x}), INclass({x}), INclass({x}), IChar(a), IChar(b),
                 IMatch>>, <<a, b>>)                               \* [^x]{3}ab
AABs  == Full(<<IChar(a), IChar(a), IChar(b), IBranch(2, 4), IMatch>>,
              <<a, a, b>>)                                         \* aab+
As    == Full(<<IBranch(1, 3), IChar(a), IBranch(1, 3), IMatch>>, <<>>) \* a*
AEol  == Full(<<IChar(a), IEol, IMatch>>, <<>>)                    \* a$

Strings(n, S) == UNION {[1..k -> S] : k \in 0..n}
Flags(icase, nongreedy, multiline) ==
  [search |-> TRUE, icase |-> icase, nongreedy |-> nongreedy, multiline |-> multiline]
Plain == Flags(FALSE, FALSE, TRUE)

CallsOf(exps, files, starts, modes) ==
  {[compiled |-> e, files |-> files, starts |-> starts, modes |-> modes] : e \in exps}

MCCalls ==
  CallsOf({Simple(<<a, b>>), Simple(<<a, b, a>>), Simple(<<a, a, b>>)},
          Strings(6, {a, b, c}), {0, 1}, {Plain})
  \cup CallsOf({Simple(<<a, b>>)}, Strings(5, {a, b, a - 32, b - 32}), {0},
               {Flags(TRUE, FALSE, TRUE)})
  \cup CallsOf({Simple(<<tilde, a, tilde>>)}, Strings(5, {a, tilde}), {0}, {Plain})
  \cup CallsOf({Simple(<<bell, a>>)}, Strings(4, {a, bell, high}), {0}, {Plain})
  \cup CallsOf({Simple(<<Esc, star>>), Simple(<<a, Esc, star>>)},
               Strings(5, {a, Esc, star}), {0}, {Plain})
  \cup CallsOf({ABs, XAB, ABEol, ABAny, NoXAB, NoX3AB, AABs, As, AEol},
               Strings(5, {a, b, NL}), {0, 2}, {Plain, Flags(FALSE, TRUE, FALSE)})
  \cup CallsOf({SolAB}, Strings(5, {a, b, NL}), {0, 1, 2}, {Plain})
  \cup CallsOf({ABs, NoXAB}, Strings(4, {a, b, a - 32, b - 32, NL}), {0},
               {Flags(TRUE, FALSE, TRUE)})

(* the instances that contradict README.rst *)
DocCalls_stale ==
  CallsOf({ABAny}, Strings(7, {a, b, NL}), {0}, {Plain})
DocCalls_tilde == CallsOf({Simple(<<a, b>>)}, Strings(3, {a, b, tilde}), {0}, {Plain})
DocCalls_finds == CallsOf({NoX3AB}, {<<z, z, NL, a, b>>}, {0}, {Plain})
(* FsearchFindsMatch is violated on each of these for a reason of its own. *)
DocCalls_icase ==
  CallsOf({Simple(<<a, b>>)}, {<<a, a - 32, b - 32>>}, {0}, {Flags(TRUE, FALSE, TRUE)})
DocCalls_escape == CallsOf({Simple(<<Esc, star>>)}, Strings(2, {a, star}), {0}, {Plain})
DocCalls_anchor == CallsOf({SolAB}, {<<b, NL, a, b>>}, 0..4, {Plain})
=============================================================================
