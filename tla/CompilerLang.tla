---------------------------- MODULE CompilerLang ----------------------------
(***************************************************************************)
(* A compilation from the text of an expression on: lex and the compiler.  *)
(* Of the text of a tree the program, read as an automaton, is compared    *)
(* with the tree on every string of Inputs; any other text is cut into     *)
(* tokens and compiled too.  So are lists of tokens without a text, as the *)
(* first expression and as those of later calls.                           *)
(***************************************************************************)
EXTENDS Regex
LOCAL INSTANCE SequencesExt

CONSTANTS
  Regexes,  \* the trees
  Texts,    \* other texts
  Lists,    \* other lists of tokens
  Inputs    \* the strings

TreeText(r) == Text(Unparse(r))
ASSUME FirstExpressions ==
  Expressions[1] =
    Lists \cup {Lexed(TreeText(r)) : r \in Regexes} \cup {Lexed(s) : s \in Texts}

VARIABLES
  regex,   \* the tree, or NoTree for another text, NoText for a list of tokens
  text     \* the text of the expression

NoTree == <<"none">>
NoText == <<"tokens">>
IsTree == regex \notin {NoTree, NoText}
langVars == <<vars, regex, text>>

LangInit ==
  /\ \/ regex \in Regexes /\ text = TreeText(regex) /\ source = Lexed(text)
     \/ regex = NoTree /\ text \in Texts /\ source = Lexed(text)
     \/ regex = NoText /\ text = <<>> /\ source \in Lists
  /\ InitCall

LangNext ==
  /\ Next
  /\ \/ calls' = calls /\ UNCHANGED <<regex, text>>
     \/ calls' # calls /\ regex' = NoText /\ text' = <<>>

LangSpec == LangInit /\ [][LangNext]_langVars /\ WF_langVars(LangNext)

-----------------------------------------------------------------------------
A(w, m) ==
  INSTANCE Nfa WITH prog <- exe, input <- w,
                    mode <- [multiline |-> m, icase |-> FALSE]

(* no path without repetition is longer than the program *)
Closed(w, m, S, k) ==
  LET n == Cardinality(DOMAIN exe)
      reached[i \in 0..n] ==
        IF i = 0 THEN S
        ELSE LET T == reached[i - 1]
             IN  T \cup UNION {A(w, m)!Moves(p, k) : p \in T}
  IN  reached[n]

(* the positions of w where the program may match, from position s *)
ProgramEnds(w, m, s) ==
  LET at[e \in s..Len(w)] ==
        IF e = s THEN Closed(w, m, {0}, e)
        ELSE Closed(w, m, A(w, m)!Delta(at[e - 1], e - 1), e)
  IN  {e \in s..Len(w) : \E p \in at[e] : exe[p].op = "match"}

Matches(w, m) ==
  \A s \in 0..Len(w) : ProgramEnds(w, m, s) = Ends(regex, w, m, s)

(* an end anchor, and a final newline that is_eol does not heed            *)
FinalNewlineAnchored(w, m) ==
  /\ ~m /\ w # <<>> /\ w[Len(w)] = NL
  /\ \E i \in DOMAIN source : source[i].k = "eol"

(* Every tree compiles, and its program matches from every position of     *)
(* every string exactly what the tree matches.  Excepted are expressions   *)
(* with a `$`, without RXVM_MULTILINE, on strings with a final newline.    *)
LanguageRight ==
  state = "returned" /\ IsTree =>
    /\ outcome \in {"ok", "simple"}
    /\ outcome = "ok" =>
         \A w \in Inputs, m \in BOOLEAN : FinalNewlineAnchored(w, m) \/ Matches(w, m)

(* The tokens are the ones the syntax of README.rst has for the text: no   *)
(* character is lost or read twice, an escape always makes a literal, and  *)
(* stage1 reads the bounds of a range where they are.                      *)
LexRight ==
  LET errors == {i \in DOMAIN source : source[i].k \in LexErrors}
      spelled == Text(SelectSeq(source, LAMBDA tk : tk.k \notin LexErrors))
  IN  regex # NoText =>
      /\ Lexable(source)
      /\ IF errors = {} THEN text = spelled ELSE IsStrictPrefix(spelled, text)

(* The fixed literals rxvm_fsearch looks for first are in every match: a   *)
(* line where they do not occur cannot hold one.  It is checked of trees   *)
(* without newlines and without {0,m}, which stage1 counts as fixed.       *)
Fixed == lfix_to_str(text, span[1], span[2])
OccursIn(v, w, s, e) == \E i \in s..(e - Len(v)) : SubSeq(w, i + 1, i + Len(v)) = v
FixedOccurs ==
  outcome = "ok" /\ IsTree /\ span[2] > span[1] =>
    \A w \in Inputs : \A s \in 0..Len(w) :
      \A e \in Ends(regex, w, FALSE, s) : OccursIn(Fixed, w, s, e)
=============================================================================
