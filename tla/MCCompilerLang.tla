--------------------------- MODULE MCCompilerLang ---------------------------
(***************************************************************************)
(* Instances of CompilerLang for TLC.                                      *)
(***************************************************************************)
EXTENDS CompilerLang, MCCompiler

a == 97
b == 98

Ops == {Tok("one"), Tok("zero"), Tok("onezero")}
Reps == {TRep(2, REP_NO_FIELD), TRep(2, REP_FIELD_EMPTY), TRep(0, REP_FIELD_EMPTY),
         TRep(REP_FIELD_EMPTY, 2), TRep(1, 3), TRep(3, 1), TRep(2, 2)}
Atoms == {RLit(a), RLit(b)}
Others == {RSol, REol, RAny, RClass({a, b}), RNclass({a})}

Operated(S, ops) == {ROp(r, op) : r \in S, op \in ops}
Catenated(S, T) == {RCat(r, s) : r \in S, s \in T}
Alternated(S, T) == {RAlt(r, s) : r \in S, s \in T}

Level1 ==
  Operated(Atoms \cup Others, Ops) \cup Operated(Atoms, Reps)
    \cup Catenated(Atoms, Atoms \cup Others) \cup Catenated(Others, Atoms)
    \cup Alternated(Atoms \cup {REmpty}, Atoms \cup {RSol})
    \cup Alternated(Atoms, {REmpty})
Pairs == Catenated(Atoms, Atoms) \cup Alternated(Atoms, Atoms)
Level2 ==
  Operated(Level1, Ops) \cup Operated(Pairs, Reps)
    \cup Catenated(Level1, {RLit(b)}) \cup Catenated({RLit(a)}, Level1)
    \cup Alternated(Level1, {RLit(b)}) \cup Alternated({RLit(a)}, Level1)
Chains ==  \* of three and four alternatives, in groups and out of them
  LET three == Alternated(Alternated(Atoms, Catenated(Atoms, Atoms)), Atoms)
  IN  three \cup Alternated(three, {RLit(a)})
        \cup Operated(three, Ops) \cup Catenated(three, {RLit(b)})
        \cup Catenated({RCat(RLit(a), RLit(b))}, Operated(three, {Tok("zero")}))
Nested ==  \* groups within groups, under operators
  Operated(Catenated({RLit(a)}, Operated(Pairs, Ops)), Ops \cup {TRep(1, 2)})
    \cup Alternated(Operated(Pairs, Ops), Operated(Pairs, {Tok("zero")}))
    \cup Operated(Alternated(Operated(Pairs, {Tok("one")}), {RLit(b), REmpty}), Ops)

Escapes ==  \* among literals, before an operator, in a class
  LET star == RLit(42)
      pairs == Catenated({RLit(a), star}, {RLit(a), star})
      bracket == {RClass({93}), RNclass({45}), RClass(92..93), RNclass(44..45), RClass(91..93)}
  IN  Operated({star}, Ops \cup Reps) \cup Catenated(pairs, Operated({RLit(a), star}, Ops))
        \cup Catenated(Operated({star}, Ops), pairs) \cup Catenated(pairs, {RAny, REol})
        \cup Catenated(Catenated({star}, {RAny}), pairs)
        \cup bracket \cup Catenated({star}, Operated(bracket, Ops))

MCRegexes ==
  Atoms \cup Others \cup Level1 \cup Level2 \cup Chains \cup Nested \cup Escapes

Strings(n, S) == UNION {[1..k -> S] : k \in 0..n}
MCInputs ==
  Strings(3, {a, b}) \cup Strings(4, {a, 42}) \cup Strings(2, {42, 45, 92, 93})
    \cup {<<NL>>, <<a, NL>>, <<NL, a>>, <<a, NL, b>>}

(* every short text of symbols, and inside a class longer ones *)
Symbols == {a, 92, 91, 93, 123, 125, 44, 49, 45, 94, NL, 1}
MCLexTexts ==
  Strings(4, Symbols \ {125}) \cup Strings(3, Symbols)
    \cup {<<91>> \o s : s \in Strings(6, {a, 92, 93, 45})}
    \cup {<<a, 123>> \o s : s \in Strings(5, {49, 44, 125})}
    \cup {<<c, 43>> : c \in DOMAIN Symbol}

(* lists of tokens, ill-formed ones included, and later calls *)
LexedTexts == {Lexed(s) : s \in MCLexTexts \cup {TreeText(r) : r \in MCRegexes}}
MCExpressions == <<FirstCall \cup LexedTexts, SecondCall>>
=============================================================================
