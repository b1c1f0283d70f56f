------------------------------- MODULE MCApi -------------------------------
(***************************************************************************)
(* Instances of Api for TLC: both engines, over the letters a and b, the   *)
(* newline and, in the texts, an escaped star.                             *)
(***************************************************************************)
EXTENDS Readme

a == 97
b == 98
star == 42

Prog(s) == [i \in 0..(Len(s) - 1) |-> s[i + 1]]

P1 == Prog(<<IBranch(1, 3), IChar(a), IBranch(1, 3), IMatch>>)      \* a*
P2 == Prog(<<IChar(a), IBranch(0, 2), IChar(b), IMatch>>)           \* a+b
P3 == Prog(<<ISol, IBranch(2, 4), IChar(a), IBranch(2, 4), IEol,
             IMatch>>)                                              \* ^a*$

P4 == Prog(<<IClass({a, b}), IChar(a), IChar(b), IMatch>>)         \* [ab]ab

MCPrograms == {P1, P2, P3, P4}

(* the empty text, a, aab, abab and a\*, whose escape is not at its beginning *)
MCSimples == {<<>>, <<a>>, <<a, a, b>>, <<a, b, a, b>>, <<a, Esc, star>>}

(* the instance that contradicts README.rst *)
DocProgram_search == {Prog(<<IChar(a), IChar(a), IChar(b), IBranch(2, 4),
                             IMatch>>)}                             \* aab+
NoSimples == {}

Strings(n, S) == UNION {[1..k -> S] : k \in 0..n}
DocInputs == Strings(4, {a, b, NL})
MCInputs == Strings(3, {a, b, star, NL}) \cup Strings(5, {a, b})
=============================================================================
