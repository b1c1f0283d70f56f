------------------------------- MODULE MCGen -------------------------------
(***************************************************************************)
(* Instances of Gen for TLC.  The programs are what rxvm_compile makes of  *)
(* the expressions in the comments.  In those of MCCalls an anchor stands  *)
(* where a newline, an end of the string or another anchor must follow or  *)
(* precede it.  The visible characters are a, b and c.                     *)
(***************************************************************************)
EXTENDS Gen

a == 97
b == 98
c == 99

Prog(s) == [i \in 0..(Len(s) - 1) |-> s[i + 1]]

Programs ==
  {Prog(<<IBranch(1, 3), IChar(a), IBranch(1, 3), IMatch>>),           \* a*
   Prog(<<IBranch(1, 5), IBranch(2, 4), IChar(a), IBranch(2, 4),
          IBranch(1, 5), IMatch>>),                                    \* (a*)*
   Prog(<<IBranch(1, 3), IChar(a), IJmp(5), IAny, IChar(b),
          IBranch(0, 6), IMatch>>),                                    \* (a|.b)+
   Prog(<<ISol, IClass({a, b}), IBranch(1, 3), IMatch>>),              \* ^[ab]+
   Prog(<<IBranch(1, 3), ISol, IJmp(5), IChar(a), IChar(NL), IBranch(0, 6),
          IChar(b), IMatch>>),                                         \* (^|a\n)+b
   Prog(<<INclass({a, b}), IBranch(0, 2), INclass({a, c}), IMatch>>),  \* [^ab]+[^ac]
   Prog(<<IChar(a), IEol, IChar(NL), ISol, IChar(b), IBranch(0, 6), IMatch>>),
                                                                       \* (a$\n^b)+
   Prog(<<IBranch(1, 5), IChar(a), IEol, IChar(NL), IBranch(1, 5), IAny,
          IMatch>>),                                                   \* (a$\n)*.
   Prog(<<IBranch(1, 3), ISol, IBranch(1, 3), IChar(a), IMatch>>)}     \* (^)*a

Configs == {<<0, 0, 3>>, <<50, 10, 0>>, <<50, 100, 3>>, <<100, 101, 5>>}

CallOf(p, s, g) ==
  [prog |-> p, simple |-> s, generosity |-> g[1], whitespace |-> g[2], limit |-> g[3]]
SimpleCall(raw, text) == CallOf(Chain(text), raw, <<50, 10, 3>>)

MCCalls ==
  {CallOf(p, <<>>, g) : p \in Programs, g \in Configs}
    \cup {SimpleCall(<<a, b>>, <<a, b>>),                              \* ab
          SimpleCall(<<a, 92, 42>>, <<a, 42>>),                        \* a\*
          SimpleCall(<<92, 92, 92, 92, a>>, <<92, 92, a>>)}            \* \\\\a

(* GeneratedMatches speaks of all of them *)
ASSUME InstancesHeld == \A k \in MCCalls : AnchorsHeld(k.prog) /\ CharsHeld(k.prog)

(* The instance that contradicts README.rst, a$: one walk, one string, so  *)
(* its last state shows what becomes of each half of the statement.        *)
DocCalls == {CallOf(Prog(<<IChar(a), IEol, IMatch>>), <<>>, <<50, 10, 3>>)}
=============================================================================
