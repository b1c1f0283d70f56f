-------------------------------- MODULE MCVm --------------------------------
(***************************************************************************)
(* Instances of Vm and VmScan for TLC.  The programs are what rxvm_compile *)
(* makes of the expressions in the comments.                               *)
(***************************************************************************)
EXTENDS VmScan

a == 97
b == 98

Prog(s) == [i \in 0..(Len(s) - 1) |-> s[i + 1]]

P1  == Prog(<<IBranch(1, 3), IChar(a), IBranch(1, 3), IMatch>>)      \* a*
P2  == Prog(<<IChar(a), IChar(a), IBranch(1, 3), IChar(b), IMatch>>) \* aa+b
P3  == Prog(<<IBranch(1, 3), IChar(a), IJmp(5), IChar(a), IChar(b),
              IBranch(6, 7), IChar(b), IMatch>>)                     \* (a|ab)b?
P4  == Prog(<<ISol, IBranch(2, 4), IChar(a), IBranch(2, 4), IEol,
              IMatch>>)                                              \* ^a*$
P5  == Prog(<<IBranch(1, 3), IChar(a), IJmp(5), ISol, IChar(b),
              IBranch(0, 6), IMatch>>)                               \* (a|^b)+
P6  == Prog(<<IClass({a, b}), IBranch(0, 2), IChar(b), IMatch>>)     \* [ab]+b
P7  == Prog(<<INclass({a}), IBranch(2, 4), IChar(b), IBranch(2, 4),
              IMatch>>)                                              \* [^a]b*
P8  == Prog(<<IBranch(1, 5), IBranch(2, 4), IChar(a), IBranch(2, 4),
              IBranch(1, 5), IMatch>>)                               \* (a*)*
P9  == Prog(<<IBranch(1, 4), ISol, IChar(a), IBranch(1, 4), IChar(b),
              IMatch>>)                                              \* (^a)*b
P10 == Prog(<<IChar(a), IEol, IBranch(0, 3), IBranch(4, 5), IChar(b),
              IMatch>>)                                              \* (a$)+b?
P11 == Prog(<<IBranch(1, 3), ISol, IJmp(4), IChar(a), IBranch(0, 5),
              IMatch>>)                                              \* (^|a)+
P12 == Prog(<<IBranch(1, 7), IChar(a), IBranch(3, 5), IAny, IBranch(3, 5),
              IChar(b), IJmp(8), IChar(b), IMatch>>)                 \* a.*b|b
P13 == Prog(<<IBranch(1, 3), IAny, IBranch(1, 3), IEol, IMatch>>)    \* .*$
P14 == Prog(<<IBranch(1, 3), IChar(a), IJmp(5), IChar(a), IChar(b),
              IMatch>>)                                              \* a|ab

MCPrograms ==
  {P1, P2, P3, P4, P5, P6, P7, P8, P9, P10, P11, P12, P13, P14}

Strings(n, S) == UNION {[1..k -> S] : k \in 0..n}
MCInputs == Strings(3, {a, b, NL}) \cup Strings(4, {a, b})
=============================================================================
