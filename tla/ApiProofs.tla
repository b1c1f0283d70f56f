------------------------------ MODULE ApiProofs ------------------------------
(***************************************************************************)
(* A call answers right whichever engine runs: rxvm_match says yes exactly *)
(* when the expression accepts the whole input, the pointers rxvm_search   *)
(* sets delimit a match, and simple_match scans as the virtual machine     *)
(* would scan with the program its text stands for.  For every set of      *)
(* programs, texts and inputs.                                             *)
(***************************************************************************)
EXTENDS Api, VmScanProofs, Induction

-----------------------------------------------------------------------------
(* Reading a text, one character at a time *)

Readings == [esc : BOOLEAN, lits : Seq(Char)]

ReadOne(text) ==
  [n \in 1..Len(text) |-> [r \in Readings |-> Passed(r, text[n])]]

LEMMA ReadingUnfolds ==
  ASSUME NEW text \in Seq(Char)
  PROVE  /\ Reading(text) \in [0..Len(text) -> Readings]
         /\ Reading(text)[0] = NothingRead
         /\ \A n \in 0..(Len(text) - 1) :
              Reading(text)[n + 1] = Passed(Reading(text)[n], text[n + 1])
  <1> DEFINE Equation(acc) ==
        acc = [n \in 0..Len(text) |->
                 IF n = 0 THEN NothingRead ELSE Passed(acc[n - 1], text[n])]
  <1>1. NothingRead \in Readings
    BY DEF NothingRead, Readings
  <1>2. /\ Len(text) \in Nat /\ \A n \in 1..Len(text) : text[n] \in Char
        /\ 0 \in Int /\ Len(text) \in Int
    OBVIOUS
  <1>3. ASSUME NEW r \in Readings, NEW c \in Char
        PROVE  Passed(r, c) \in Readings
    BY DEF Passed, Readings
  <1>4. ReadOne(text) \in [(0 + 1)..Len(text) -> [Readings -> Readings]]
    <2>1. ASSUME NEW n \in 1..Len(text)
          PROVE  [r \in Readings |-> Passed(r,
          text[n])] \in [Readings -> Readings]
      BY <1>2, <1>3
    <2>2. QED
      BY <2>1 DEF ReadOne
  <1>5. PICK f \in [0..Len(text) -> Readings] :
          Stepwise(f, 0, Len(text), NothingRead, ReadOne(text))
    BY <1>1, <1>2, <1>4, StepwiseExists
  <1>6. Equation(f)
    <2>1. ASSUME NEW n \in 0..Len(text)
          PROVE  f[n] = IF n = 0 THEN NothingRead ELSE Passed(f[n - 1],
          text[n])
      <3>1. n # 0 => n \in 1..Len(text) /\ f[n - 1] \in Readings
        BY <1>2
      <3>2. QED
        BY <1>5, <3>1 DEF Stepwise, ReadOne
    <2>2. QED
      BY <2>1
  <1>7. Reading(text) = CHOOSE acc : Equation(acc)
    BY DEF Reading
  <1>8. Equation(Reading(text))
    <2> HIDE DEF Equation
    <2>1. QED
      BY <1>6, <1>7
  <1> DEFINE Typed == {n \in 0..Len(text) : Reading(text)[n] \in Readings}
  <1>9. Reading(text)[0] = NothingRead
    BY <1>2, <1>8
  <1>10. \A n \in 0..(Len(text) - 1) :
           Reading(text)[n + 1] = Passed(Reading(text)[n], text[n + 1])
    BY <1>2, <1>8
  <1>11. 0..Len(text) \subseteq Typed
    <2>1. 0 \in Typed
      BY <1>1, <1>2, <1>9
    <2>2. ASSUME NEW n \in 0..(Len(text) - 1), n \in Typed
          PROVE  n + 1 \in Typed
      BY <1>2, <1>3, <1>10, <2>2
    <2> HIDE DEF Typed
    <2>3. QED
      BY <1>2, <2>1, <2>2, IntervalInduction
  <1>12. Reading(text) = [n \in 0..Len(text) |-> Reading(text)[n]]
    BY <1>8
  <1>13. QED
    BY <1>9, <1>10, <1>11, <1>12

(* The characters of a beginning stay the first ones. *)
LEMMA ReadingGrows ==
  ASSUME NEW text \in Seq(Char), NEW m \in 0..Len(text)
  PROVE  \A n \in m..Len(text) :
           /\ Len(Reading(text)[m].lits) <= Len(Reading(text)[n].lits)
           /\ \A i \in 1..Len(Reading(text)[m].lits) :
                Reading(text)[n].lits[i] = Reading(text)[m].lits[i]
  <1> DEFINE lits(n) == Reading(text)[n].lits
             Grown == {n \in m..Len(text) :
                         /\ Len(lits(m)) <= Len(lits(n))
                         /\ \A i \in 1..Len(lits(m)) : lits(n)[i] = lits(m)[i]}
  <1>1. /\ Len(text) \in Int /\ m \in Int
        /\ \A n \in 0..Len(text) : lits(n) \in Seq(Char)
    BY ReadingUnfolds DEF Readings
  <1>2. m \in Grown
    BY <1>1
  <1>3. ASSUME NEW n \in m..(Len(text) - 1), n \in Grown
        PROVE  n + 1 \in Grown
    <2>1. n \in 0..Len(text) /\ n + 1 \in m..Len(text)
      BY <1>1
    <2>2. lits(n + 1) = lits(n) \/ lits(n + 1) = Append(lits(n), text[n + 1])
      BY <2>1, ReadingUnfolds DEF Passed
    <2>3. /\ lits(m) \in Seq(Char) /\ lits(n) \in Seq(Char)
          /\ text[n + 1] \in Char
      BY <1>1, <2>1
    <2> HIDE DEF lits
    <2>4. /\ Len(lits(n)) <= Len(lits(n + 1))
          /\ \A i \in 1..Len(lits(n)) : lits(n + 1)[i] = lits(n)[i]
      BY <2>2, <2>3
    <2>5. Len(lits(m)) \in Nat /\ Len(lits(n)) \in Nat /\ Len(lits(n + 1)) \in Nat
      BY <2>2, <2>3
    <2>6. QED
      BY <1>3, <2>1, <2>4, <2>5
  <1>4. m..Len(text) \subseteq Grown
    <2> HIDE DEF Grown
    <2>1. QED
      BY <1>1, <1>2, <1>3, IntervalInduction
  <1>5. QED
    BY <1>4

(* The program a text stands for is one the virtual machine could run. *)
LEMMA ProgramShape ==
  ASSUME NEW s \in Simples
  PROVE  /\ s \in Seq(Char) /\ Literals(s) \in Seq(Char)
         /\ DOMAIN Program(s) = 0..Len(Literals(s))
         /\ Program(s)[Len(Literals(s))] = IMatch
         /\ \A q \in 0..(Len(Literals(s)) - 1) :
              Program(s)[q] = IChar(Literals(s)[q + 1])
         /\ WellFormed(Program(s))
  <1>1. s \in Seq(Char) /\ Literals(s) \in Seq(Char)
    BY SimplesAssumption, ReadingUnfolds DEF WholeText, Literals, Readings
  <1> DEFINE last == Len(Literals(s))
  <1>2. last \in Nat /\ DOMAIN Program(s) = 0..last
    BY <1>1 DEF Program, Chain
  <1>3. \A q \in 0..last :
          Program(s)[q] = IF q < last THEN IChar(Literals(s)[q + 1]) ELSE IMatch
    BY <1>1 DEF Program, Chain
  <1>4. ASSUME NEW c \in Char
        PROVE  IChar(c) \in Inst /\ IChar(c).op = "char"
    <2>1. Blank \in Inst
      BY DEF Blank, Inst, Op, EndChar
    <2>2. IChar(c) \in Inst
      BY <2>1 DEF IChar, Inst, Op, OpConsume
    <2>3. QED
      BY <2>2 DEF IChar, Blank
  <1>5. IMatch \in Inst /\ IMatch.op = "match"
    BY DEF IMatch, Inst, Blank, Op, EndChar
  <1>6. ASSUME NEW q \in 0..last
        PROVE  /\ Program(s)[q] \in Inst
               /\ Program(s)[q].op = IF q < last THEN "char" ELSE "match"
    <2>1. CASE q < last
      <3>1. Literals(s)[q + 1] \in Char
        BY <1>1, <2>1
      <3>2. QED
        BY <1>3, <1>4, <2>1, <3>1
    <2>2. CASE ~(q < last)
      BY <1>3, <1>5, <2>2
    <2>3. QED
      BY <2>1, <2>2
  <1>7. Program(s) \in [0..last -> Inst]
    BY <1>2, <1>6 DEF Program, Chain
  <1>8. WellFormed(Program(s))
    <2> HIDE DEF last
    <2>1. last \in DOMAIN Program(s) /\ (last + 1) - 1 = last
      BY <1>2
    <2>2. ASSUME NEW q \in 0..((last + 1) - 1)
          PROVE  /\ Program(s)[q].op \in OpConsume \cup OpAnchor => q + 1 < last + 1
                 /\ Program(s)[q].op \notin {"branch", "jmp"}
                 /\ Program(s)[q].op # "branch"
      <3>1. q \in 0..last /\ (~(q < last) => q = last)
        BY <1>2
      <3>2. CASE q < last
        BY <1>2, <1>6, <3>1, <3>2
      <3>3. CASE ~(q < last)
        BY <1>6, <3>1, <3>3 DEF OpConsume, OpAnchor
      <3>4. QED
        BY <3>2, <3>3
    <2>3. Program(s) \in [0..((last + 1) - 1) -> Inst]
      BY <1>7, <2>1
    <2>4. QED
      BY <2>1, <2>2, <2>3 DEF WellFormed
  <1>9. QED
    BY <1>1, <1>2, <1>3, <1>8

(* Between two literals at most one escape character is skipped.           *)
LEMMA NextLiteral ==
  ASSUME NEW s \in Simples, NEW n \in 0..(Len(s) - 1), ~Reading(s)[n].esc,
         NEW m, m = IF s[n + 1] = Esc THEN n + 1 ELSE n
  PROVE  /\ m \in 0..(Len(s) - 1)
         /\ Reading(s)[m].lits = Reading(s)[n].lits
         /\ Reading(s)[m + 1]
              = [esc |-> FALSE, lits |-> Append(Reading(s)[n].lits, s[m + 1])]
  <1>1. s \in Seq(Char) /\ ~Reading(s)[Len(s)].esc
    BY SimplesAssumption DEF WholeText
  <1>2. /\ Len(s) \in Nat
        /\ \A k \in 0..(Len(s) - 1) :
             Reading(s)[k + 1] = Passed(Reading(s)[k], s[k + 1])
    BY <1>1, ReadingUnfolds
  <1>3. CASE s[n + 1] = Esc
    <2>1. Reading(s)[n + 1] = [esc |-> TRUE, lits |-> Reading(s)[n].lits]
      BY <1>2, <1>3 DEF Passed
    <2>2. n + 1 # Len(s)
      BY <1>1, <2>1
    <2>3. n + 1 \in 0..(Len(s) - 1) /\ m = n + 1
      BY <1>2, <1>3, <2>2
    <2>4. Reading(s)[m + 1] = Passed(Reading(s)[m], s[m + 1])
      BY <1>2, <2>3
    <2>5. Reading(s)[m].esc /\ Reading(s)[m].lits = Reading(s)[n].lits
      BY <2>1, <2>3
    <2>6. QED
      BY <2>3, <2>4, <2>5 DEF Passed
  <1>4. CASE s[n + 1] # Esc
    <2>1. m = n /\ Reading(s)[n + 1] = Passed(Reading(s)[n], s[n + 1])
      BY <1>2, <1>4
    <2>2. QED
      BY <1>4, <2>1 DEF Passed
  <1>5. QED
    BY <1>3, <1>4

(* The literal at a place of the text is an instruction of its program.    *)
LEMMA LiteralAt ==
  ASSUME NEW s \in Simples, NEW m \in 0..(Len(s) - 1),
         Reading(s)[m + 1].lits = Append(Reading(s)[m].lits, s[m + 1])
  PROVE  LET q == Len(Reading(s)[m].lits)
         IN  /\ q \in 0..(Len(Literals(s)) - 1)
             /\ Len(Reading(s)[m + 1].lits) = q + 1
             /\ Program(s)[q] = IChar(s[m + 1])
  <1> DEFINE q == Len(Reading(s)[m].lits)
  <1>1. s \in Seq(Char) /\ Len(s) \in Nat
    BY SimplesAssumption DEF WholeText
  <1>2. Reading(s)[m].lits \in Seq(Char) /\ s[m + 1] \in Char
    <2>1. Reading(s) \in [0..Len(s) -> Readings]
      BY <1>1, ReadingUnfolds
    <2>2. m \in 0..Len(s) /\ m + 1 \in 1..Len(s)
      BY <1>1
    <2>3. QED
      BY <1>1, <2>1, <2>2 DEF Readings
  <1>3. /\ q \in Nat /\ Len(Reading(s)[m + 1].lits) = q + 1
        /\ Reading(s)[m + 1].lits[q + 1] = s[m + 1]
    BY <1>2
  <1>4. /\ q + 1 <= Len(Literals(s))
        /\ Literals(s)[q + 1] = s[m + 1]
    <2>1. m + 1 \in 0..Len(s) /\ Len(s) \in (m + 1)..Len(s)
      BY <1>1
    <2> HIDE DEF q
    <2>2. q + 1 \in 1..Len(Reading(s)[m + 1].lits)
      BY <1>3
    <2>3. QED
      BY <1>1, <1>3, <2>1, <2>2, ReadingGrows DEF Literals
  <1>5. Len(Literals(s)) \in Nat
    BY ProgramShape
  <1>6. q \in 0..(Len(Literals(s)) - 1)
    BY <1>3, <1>4, <1>5
  <1>7. QED
    BY <1>3, <1>4, <1>6, ProgramShape

-----------------------------------------------------------------------------
(* simple_match inside its bounds.  It never skips an escape character it   *)
(* has compared: where it goes on reading, either no escape is open or it   *)
(* passed nothing but escape characters and some other one is still ahead.  *)
Steady(n) ==
  \/ ~Reading(simple)[n].esc
  \/ /\ \A i \in 1..n : simple[i] = Esc
     /\ \E j \in (n + 1)..Len(simple) : simple[j] # Esc

SimpleInv ==
  /\ simple \in Simples /\ prog = Program(simple)
  /\ input \in Inputs /\ mode \in Modes
  /\ pc \in {"read", "run", "done"}
  /\ si \in 0..Len(simple)
  /\ matchStart \in 0..Len(input)
  /\ chars \in 0..(Len(input) + 1)
  /\ pc # "done" => matchEnd = 0 /\ chars <= Len(input)
  /\ pc = "done" =>
       \/ matchEnd = 0
       \/ matchEnd = chars + 1 /\ chars <= Len(input)
  /\ pc = "read" => matchStart <= chars /\ Steady(si)
  /\ pc = "run" =>
       /\ matchStart < chars /\ C = input[chars]
       /\ si < Len(simple)
       /\ \/ Steady(si + 1)
          \/ si = 0 /\ ~Fits

LEMMA SteadyNext ==
  ASSUME NEW s \in Simples, s = simple, NEW n \in 0..(Len(s) - 1), Steady(n),
         NEW m, m = IF s[n + 1] = Esc THEN n + 1 ELSE n
  PROVE  m \in 0..(Len(s) - 1) /\ Steady(m + 1)
  <1>1. s \in Seq(Char) /\ Len(s) \in Nat
    BY SimplesAssumption DEF WholeText
  <1>2. \A k \in 0..(Len(s) - 1) :
          Reading(s)[k + 1] = Passed(Reading(s)[k], s[k + 1])
    BY <1>1, ReadingUnfolds
  <1>3. CASE ~Reading(s)[n].esc
    <2>1. /\ m \in 0..(Len(s) - 1)
          /\ Reading(s)[m + 1]
               = [esc |-> FALSE, lits |-> Append(Reading(s)[n].lits, s[m + 1])]
      BY <1>3, NextLiteral
    <2>2. QED
      BY <2>1 DEF Steady
  <1>4. CASE Reading(s)[n].esc
    <2>1. PICK j \in (n + 1)..Len(s) : s[j] # Esc
      BY <1>4 DEF Steady
    <2>2. Reading(s)[n + 1] = [esc |-> FALSE,
                               lits |-> Append(Reading(s)[n].lits, s[n + 1])]
      BY <1>2, <1>4 DEF Passed
    <2>3. CASE s[n + 1] # Esc
      BY <1>1, <2>2, <2>3 DEF Steady
    <2>4. CASE s[n + 1] = Esc
      <3>1. m = n + 1 /\ m + 1 \in 1..Len(s) /\ m \in 0..(Len(s) - 1)
            /\ j \in (m + 1)..Len(s)
        BY <1>1, <2>1, <2>4
      <3>2. \A i \in 1..m : s[i] = Esc
        BY <1>4, <2>4, <3>1 DEF Steady
      <3>3. CASE s[m + 1] = Esc
        <4>1. \A i \in 1..(m + 1) : s[i] = Esc
          BY <3>1, <3>2, <3>3
        <4>2. j \in ((m + 1) + 1)..Len(s)
          BY <2>1, <3>1, <3>3
        <4>3. QED
          BY <2>1, <3>1, <4>1, <4>2 DEF Steady
      <3>4. CASE s[m + 1] # Esc
        <4>1. Reading(s)[m + 1] = Passed(Reading(s)[m], s[m + 1])
          BY <1>2, <3>1
        <4>2. ~Reading(s)[m + 1].esc
          BY <3>4, <4>1 DEF Passed
        <4>3. QED
          BY <3>1, <4>2 DEF Steady
      <3>5. QED
        BY <3>3, <3>4
    <2>5. QED
      BY <2>3, <2>4
  <1>5. QED
    BY <1>3, <1>4

(* What the call is about, and the input read so far. *)
LEMMA InputRead ==
  ASSUME SimpleInv
  PROVE  /\ simple \in Seq(Char) /\ Len(simple) \in Nat
         /\ input \in Seq(Char) /\ Len(input) \in Nat
         /\ chars \in Nat /\ matchStart \in Nat /\ si \in Nat
  BY SimplesAssumption, InputsAssumption DEF WholeText, SimpleInv

LEMMA MatchedInv ==
  ASSUME SimpleInv, SimpleMatched
  PROVE  SimpleInv'
  BY InputRead DEF SimpleInv, SimpleMatched, unusedVars, callVars

LEMMA ReadInv ==
  ASSUME SimpleInv, SimpleRead
  PROVE  SimpleInv'
  <1>1. /\ pc = "read" /\ si < Len(simple) /\ chars' = chars + 1
        /\ UNCHANGED <<prog, input, mode, simple, matchStart, matchEnd>>
        /\ C' = getchar
    BY DEF SimpleRead, unusedVars, callVars, matchVars
  <1>2. chars <= Len(input) /\ matchStart <= chars /\ matchEnd = 0 /\ Steady(si)
    BY <1>1 DEF SimpleInv
  <1>3. CASE C' = EndChar /\ pc' = "done" /\ si' = si
    BY <1>1, <1>2, <1>3, InputRead DEF SimpleInv
  <1>4. CASE /\ C' # EndChar /\ pc' = "run"
             /\ si' = IF simple[si + 1] = Esc THEN si + 1 ELSE si
    <2>1. chars < Len(input) /\ C' = input[chars + 1]
      BY <1>1, <1>4 DEF getchar
    <2>2. simple \in Simples /\ si \in 0..(Len(simple) - 1)
      BY <1>1, InputRead DEF SimpleInv
    <2>3. si' \in 0..(Len(simple) - 1) /\ Steady(si' + 1)
      BY <1>2, <1>4, <2>2, SteadyNext
    <2>4. Steady(si' + 1) = (Steady(si + 1))'
      BY <1>1 DEF Steady
    <2>5. QED
      BY <1>1, <1>2, <1>4, <2>1, <2>3, <2>4, InputRead DEF SimpleInv
  <1>5. QED
    BY <1>3, <1>4 DEF SimpleRead

LEMMA FitsInv ==
  ASSUME SimpleInv, SimpleFits
  PROVE  SimpleInv'
  <1>1. /\ pc = "run" /\ pc' = "read" /\ si' = si + 1 /\ Fits
        /\ UNCHANGED <<prog, input, mode, simple, matchStart, matchEnd, chars, C>>
    BY DEF SimpleFits, Comparing, unusedVars, callVars, matchVars
  <1>2. Steady(si + 1)
    BY <1>1 DEF SimpleInv
  <1>3. Steady(si + 1) = (Steady(si))'
    BY <1>1 DEF Steady
  <1>4. QED
    BY <1>1, <1>2, <1>3, InputRead DEF SimpleInv

LEMMA FailsInv ==
  ASSUME SimpleInv, SimpleFails
  PROVE  SimpleInv'
  BY InputRead DEF SimpleInv, SimpleFails, Comparing, unusedVars, callVars,
    matchVars

LEMMA RestartsInv ==
  ASSUME SimpleInv, SimpleRestart
  PROVE  SimpleInv'
  <1>1. /\ pc = "run" /\ ~Fits /\ si' = 0
        /\ UNCHANGED <<prog, input, mode, simple, matchEnd, chars, C>>
        /\ \/ si # 0 /\ matchStart' = chars - 1 /\ pc' = "run"
           \/ si = 0 /\ matchStart' = chars /\ pc' = "read"
    BY DEF SimpleRestart, Comparing, unusedVars, callVars
  <1>2. /\ simple \in Seq(Char) /\ Len(simple) \in Nat /\ si < Len(simple)
        /\ Len(input) \in Nat /\ chars \in 1..Len(input) /\ si \in Nat
    BY <1>1, InputRead DEF SimpleInv
  <1>3. CASE pc' = "read"
    <2>1. ~Reading(simple)[0].esc
      BY <1>2, ReadingUnfolds DEF NothingRead
    <2>2. (Steady(si))'
      BY <1>1, <2>1 DEF Steady
    <2>3. QED
      BY <1>1, <1>2, <1>3, <2>2 DEF SimpleInv
  <1>4. CASE pc' = "run"
    <2>1. si # 0
      BY <1>1, <1>4
    <2>2. \/ Steady(1)
          \/ ~char_match(mode.icase, simple[1], C)
      <3>1. CASE simple[1] # Esc
        <4>1. Reading(simple)[0 + 1] = Passed(NothingRead, simple[0 + 1])
          BY <1>2, ReadingUnfolds
        <4>2. ~Reading(simple)[1].esc
          BY <3>1, <4>1 DEF Passed
        <4>3. QED
          BY <4>2 DEF Steady
      <3>2. CASE \A j \in 1..Len(simple) : simple[j] = Esc
        <4>1. simple[si + 1] = simple[1]
          BY <1>2, <3>2
        <4>2. QED
          BY <1>1, <4>1 DEF Fits
      <3>3. CASE simple[1] = Esc /\ \E j \in 1..Len(simple) : simple[j] # Esc
        <4>1. \E j \in (1 + 1)..Len(simple) : simple[j] # Esc
          BY <1>2, <3>3
        <4>2. \A i \in 1..1 : simple[i] = Esc
          BY <3>3
        <4>3. QED
          BY <4>1, <4>2 DEF Steady
      <3>4. QED
        BY <3>1, <3>2, <3>3
    <2>3. (Steady(si + 1))' = Steady(1)
      BY <1>1 DEF Steady
    <2>4. Fits' = char_match(mode.icase, simple[1], C)
      BY <1>1 DEF Fits, char_match, tolower
    <2>5. QED
      BY <1>1, <1>2, <1>4, <2>1, <2>2, <2>3, <2>4 DEF SimpleInv
  <1>5. QED
    BY <1>1, <1>3, <1>4

-----------------------------------------------------------------------------
(* Both engines, and what the call makes of their findings *)

EngineInv ==
  /\ engine \in {"vm", "simple"}
  /\ engine = "vm" => Inv /\ Sim /\ simple = <<>> /\ si = 0
  /\ engine = "simple" => SimpleInv

ResultInv ==
  /\ ret \in {Unset, 0, 1}
  /\ ret # Unset => pc = "done"
  /\ ret = Unset \/ ~mode.search => start = Unset /\ end = Unset
  /\ ret # Unset /\ mode.search =>
       IF matchEnd = 0
       THEN ret = 0 /\ start = Null /\ end = Null
       ELSE ret = 1 /\ start = matchStart /\ end = matchEnd - 2
  /\ ret # Unset /\ ~mode.search =>
       (ret = 1 <=> ~LeftEarly /\ matchEnd # 0 /\ matchEnd - 1 = Len(input))

ApiInv == EngineInv /\ ResultInv

LEMMA InitApi == ApiInit => ApiInv
  <1> SUFFICES ASSUME ApiInit PROVE ApiInv
    OBVIOUS
  <1>1. ResultInv
    BY DEF ApiInit, ResultInv
  <1>2. CASE engine = "vm"
    <2>1. Init /\ simple = <<>> /\ si = 0
      BY <1>2 DEF ApiInit, Init
    <2>2. QED
      BY <1>1, <1>2, <2>1, InitInv, InitScan DEF ApiInv, EngineInv
  <1>3. CASE engine = "simple"
    <2>1. /\ simple \in Simples /\ prog = Program(simple) /\ simple \in Seq(Char)
          /\ input \in Inputs /\ Len(input) \in Nat /\ mode \in Modes
          /\ pc = "read" /\ si = 0 /\ chars = 0 /\ matchStart = 0 /\ matchEnd = 0
      BY <1>3, SimplesAssumption, InputsAssumption DEF WholeText, ApiInit
    <2>2. Steady(si)
      BY <2>1, ReadingUnfolds DEF Steady, NothingRead
    <2>3. SimpleInv
      BY <2>1, <2>2 DEF SimpleInv
    <2>4. QED
      BY <1>1, <1>3, <2>3 DEF ApiInv, EngineInv
  <1>4. QED
    BY <1>2, <1>3 DEF ApiInit

SimpleStep ==
  SimpleMatched \/ SimpleRead \/ SimpleFits \/ SimpleFails \/ SimpleRestart

ResultStep == SearchResult \/ MatchResult

LEMMA SimpleStepInv ==
  ASSUME ApiInv, SimpleStep
  PROVE  /\ ApiInv' /\ SimpleInv /\ ret = Unset
         /\ UNCHANGED <<engine, prog, input, mode, simple, ret>>
  <1>1. /\ engine = "simple" /\ pc # "done"
        /\ UNCHANGED <<engine, prog, input, mode, simple, ret, start, end>>
    BY DEF SimpleStep, SimpleMatched, SimpleRead, SimpleFits, SimpleFails,
      SimpleRestart, Comparing, unusedVars, callVars, resultVars
  <1>2. SimpleInv'
    BY <1>1, MatchedInv, ReadInv, FitsInv, FailsInv, RestartsInv
    DEF ApiInv, EngineInv, SimpleStep
  <1>3. ret = Unset
    BY <1>1 DEF ApiInv, ResultInv
  <1>4. ResultInv'
    BY <1>1, <1>3 DEF ApiInv, ResultInv
  <1>5. QED
    BY <1>1, <1>2, <1>3, <1>4 DEF ApiInv, EngineInv

LEMMA VmStepInv ==
  ASSUME ApiInv, VmStep
  PROVE  /\ ApiInv' /\ Inv /\ Inv' /\ Sim /\ [Scan!Next]_Scan!vars
         /\ UNCHANGED <<engine, prog, input, mode, simple, ret>>
  <1>1. /\ engine = "vm" /\ pc # "done" /\ Next /\ Inv /\ Sim
        /\ UNCHANGED <<engine, simple, si, ret, start, end>>
    BY DEF VmStep, ApiInv, EngineInv, simpleVars, resultVars
  <1>2. UNCHANGED <<prog, input, mode>>
    BY <1>1 DEF Next, Execute, Returned, ReadChar, ReadAs, RunChar, RunAny,
       RunClass,
      RunNclass, Consume, RunSol, RunEol, Anchor, RunBranch, RunJmp, RunMatch,
      EndOfInput, GiveUp, Restart, Swap, callVars, vars
  <1>3. Inv'
    BY <1>1, StepInv
  <1>4. Sim' /\ [Scan!Next]_Scan!vars
    BY <1>1, <1>3, StepScan
  <1>5. ret = Unset
    BY <1>1 DEF ApiInv, ResultInv
  <1>6. ResultInv'
    BY <1>1, <1>5 DEF ApiInv, ResultInv
  <1>7. QED
    BY <1>1, <1>2, <1>3, <1>4, <1>6 DEF ApiInv, EngineInv

(* Nothing of the engines changes: their invariants are kept. *)
LEMMA EngineKept ==
  ASSUME EngineInv, UNCHANGED <<vars, simpleVars>>
  PROVE  EngineInv'
  <1>1. /\ UNCHANGED vars /\ UNCHANGED <<prog, input, mode, chars, C, pc>>
        /\ UNCHANGED <<matchStart, matchEnd, engine, simple, si>>
    BY DEF vars, simpleVars, callVars, textVars, matchVars
  <1>2. CASE engine = "vm"
    BY <1>1, <1>2, StepInv, StepScan DEF EngineInv
  <1>3. CASE engine = "simple"
    <2>1. SimpleInv
      BY <1>3 DEF EngineInv
    <2>2. /\ (Steady(si))' = Steady(si) /\ (Steady(si + 1))' = Steady(si + 1)
          /\ Fits' = Fits
      BY <1>1 DEF Steady, Fits, char_match, tolower
    <2>3. SimpleInv'
      BY <1>1, <2>1, <2>2 DEF SimpleInv
    <2>4. QED
      BY <1>1, <1>3, <2>3 DEF EngineInv
  <1>4. QED
    BY <1>2, <1>3 DEF EngineInv

LEMMA ResultStepInv ==
  ASSUME ApiInv, ResultStep
  PROVE  ApiInv'
  <1>1. UNCHANGED <<vars, simpleVars>> /\ pc = "done" /\ ret = Unset
    BY DEF ResultStep, SearchResult, MatchResult, Finished
  <1>2. UNCHANGED <<input, mode, C, pc, matchStart, matchEnd, engine>>
    BY <1>1 DEF vars, simpleVars, callVars, textVars, matchVars
  <1>3. EngineInv'
    BY <1>1, EngineKept DEF ApiInv
  <1>4. ResultInv'
    <2>1. CASE SearchResult
      BY <1>1, <1>2, <2>1 DEF SearchResult, ResultInv, Unset
    <2>2. CASE MatchResult
      BY <1>1, <1>2, <2>2
      DEF MatchResult, ResultInv, ApiInv, Unset, LeftEarly, Finished
    <2>3. QED
      BY <2>1, <2>2 DEF ResultStep
  <1>5. QED
    BY <1>3, <1>4 DEF ApiInv

LEMMA IdleInv ==
  ASSUME ApiInv, UNCHANGED apiVars
  PROVE  ApiInv'
  <1>1. UNCHANGED <<vars, simpleVars, ret, start, end>>
    BY DEF apiVars, resultVars
  <1>2. UNCHANGED <<input, mode, C, pc, matchStart, matchEnd, engine>>
    BY <1>1 DEF vars, simpleVars, callVars, textVars, matchVars
  <1>3. QED
    BY <1>1, <1>2, EngineKept DEF ApiInv, ResultInv, LeftEarly

LEMMA StepApi ==
  ASSUME ApiInv, [ApiNext]_apiVars
  PROVE  /\ ApiInv'
         /\ VmStep \/ SimpleStep \/ ResultStep \/ UNCHANGED apiVars
  BY SimpleStepInv, VmStepInv, ResultStepInv, IdleInv
  DEF ApiNext, SimpleStep, ResultStep, CallReturned

THEOREM ApiInvariance == ApiSpec => []ApiInv
  <1>1. ApiInit => ApiInv
    BY InitApi
  <1>2. ApiInv /\ [ApiNext]_apiVars => ApiInv'
    BY StepApi
  <1>3. QED
    BY <1>1, <1>2, PTL DEF ApiSpec

(* simple_match reads neither past the end of its text nor past the        *)
(* terminating 0 of the input, also where a restart has it compare an      *)
(* escape character, and the pointers a search sets lie inside the input.  *)
THEOREM ApiTypeCorrect == ApiSpec => []ApiTypeOK
  <1>1. ApiInv => ApiTypeOK
    <2> SUFFICES ASSUME ApiInv PROVE ApiTypeOK
      OBVIOUS
    <2>1. Len(input) \in Nat
      BY InputsAssumption DEF ApiInv, EngineInv, Inv, TypeOK, SimpleInv
    <2>2. /\ chars \in 0..(Len(input) + 1) /\ matchStart \in 0..Len(input)
          /\ matchEnd \in 0..(Len(input) + 1)
      BY <2>1 DEF ApiInv, EngineInv, Inv, TypeOK, SimpleInv
    <2>3. /\ start \in 0..Len(input) \cup {Unset, Null}
          /\ end \in -1..(Len(input) - 1) \cup {Unset, Null}
      BY <2>1, <2>2 DEF ApiInv, ResultInv
    <2>4. QED
      BY <2>2, <2>3
      DEF ApiTypeOK, ApiInv, EngineInv, ResultInv, Inv, SimpleInv
  <1>2. QED
    BY <1>1, ApiInvariance, PTL

-----------------------------------------------------------------------------
(* Both engines implement the scan by sets of instructions *)

ApiKnown ==
  INSTANCE NfaScanProofs WITH
    origin <- matchStart,
    pos <- ApiPos,
    threads <- ApiThreads,
    best <- matchEnd - 1,
    done <- pc = "done"

(* There is one automaton, by whatever instance it is named.               *)
LEMMA ApiSameAcceptance ==
  /\ \A s, e : ApiKnown!Accepts(s, e) = Accepts(s, e)
  /\ ApiKnown!MatchAddrs = Scan!MatchAddrs
  /\ \A S, k : ApiKnown!Closure(S, k) = Scan!Closure(S, k)
  /\ \A S, k : ApiKnown!Delta(S, k) = Scan!Delta(S, k)
  /\ ApiKnown!MatchAddrs = ApiScan!MatchAddrs
  /\ \A S, k : ApiKnown!Closure(S, k) = ApiScan!Closure(S, k)
  /\ \A S, k : ApiKnown!Delta(S, k) = ApiScan!Delta(S, k)
  BY DEF Accepts,
    ApiKnown!Accepts, ApiKnown!Standing, ApiKnown!MatchAddrs, ApiKnown!PCs,
    ApiKnown!Closure,
    ApiKnown!ClosureAt, ApiKnown!ClosedAt, ApiKnown!Delta, ApiKnown!Moves,
    ApiKnown!Takes,
    ApiKnown!AtSol, ApiKnown!AtEol, ApiKnown!CharAt, ApiKnown!EndChar,
    ApiKnown!NL,
    ApiKnown!char_match, ApiKnown!ccs_match, ApiKnown!tolower, ApiKnown!udiff,
    N!Accepts, N!Standing, N!MatchAddrs, N!PCs, N!Closure,
    N!ClosureAt, N!ClosedAt, N!Delta, N!Moves, N!Takes,
    N!AtSol, N!AtEol, N!CharAt, N!EndChar, N!NL,
    N!char_match, N!ccs_match, N!tolower, N!udiff,
    Scan!MatchAddrs, Scan!PCs, Scan!Closure,
    Scan!ClosureAt, Scan!ClosedAt, Scan!Delta, Scan!Moves, Scan!Takes,
    Scan!AtSol, Scan!AtEol, Scan!CharAt, Scan!EndChar, Scan!NL,
    Scan!char_match, Scan!ccs_match, Scan!tolower, Scan!udiff,
    ApiScan!MatchAddrs, ApiScan!PCs, ApiScan!Closure,
    ApiScan!ClosureAt, ApiScan!ClosedAt, ApiScan!Delta, ApiScan!Moves,
    ApiScan!Takes, ApiScan!AtSol, ApiScan!AtEol, ApiScan!CharAt,
    ApiScan!EndChar, ApiScan!NL, ApiScan!char_match, ApiScan!ccs_match,
    ApiScan!tolower, ApiScan!udiff

(* A step of the virtual machine is a step of the call's scan.             *)
LEMMA VmStepScans ==
  ASSUME engine = "vm", engine' = "vm", [Scan!Next]_Scan!vars
  PROVE  [ApiKnown!Next]_ApiKnown!vars
  <1>1. /\ ApiPos = Pos /\ ApiPos' = Pos'
        /\ ApiThreads = Threads /\ ApiThreads' = Threads'
    BY DEF ApiPos, Pos, ApiThreads
  <1>2. /\ Scan!CanMatch = ApiKnown!CanMatch /\ Scan!Recorded = ApiKnown!Recorded
        /\ Scan!Over = ApiKnown!Over /\ Scan!NoMatch = ApiKnown!NoMatch
    BY <1>1, ApiSameAcceptance
    DEF Scan!CanMatch, Scan!Recorded, Scan!Over, Scan!NoMatch,
        ApiKnown!CanMatch, ApiKnown!Recorded, ApiKnown!Over, ApiKnown!NoMatch
  <1>3. CASE Scan!Accept
    BY <1>1, <1>2, <1>3 DEF Scan!Accept, ApiKnown!Accept, ApiKnown!Next
  <1>4. CASE Scan!Advance
    BY <1>1, <1>2, <1>4, ApiSameAcceptance DEF Scan!Advance, ApiKnown!Advance,
       ApiKnown!Next
  <1>5. CASE Scan!Finish
    BY <1>1, <1>2, <1>5, ApiSameAcceptance DEF Scan!Finish, ApiKnown!Finish,
       ApiKnown!Next
  <1>6. CASE Scan!Retry
    BY <1>1, <1>2, <1>6, ApiSameAcceptance DEF Scan!Retry, ApiKnown!Retry,
       ApiKnown!Next
  <1>7. CASE UNCHANGED Scan!vars
    BY <1>1, <1>7 DEF Scan!vars, ApiKnown!vars
  <1>8. QED
    BY <1>3, <1>4, <1>5, <1>6, <1>7 DEF Scan!Next

(* The program of a text is a chain: the scan stands at one instruction.   *)
LEMMA ChainOp ==
  ASSUME NEW s \in Simples, prog = Program(s),
         NEW q \in 0..Len(Literals(s))
  PROVE  /\ q \in ApiKnown!PCs
         /\ prog[q].op = IF q = Len(Literals(s)) THEN "match" ELSE "char"
         /\ q \in ApiKnown!MatchAddrs <=> q = Len(Literals(s))
  <1>1. /\ Len(Literals(s)) \in Nat /\ ApiKnown!PCs = 0..Len(Literals(s))
        /\ q \in ApiKnown!PCs
    BY ProgramShape DEF ApiKnown!PCs
  <1>2. prog[q].op = IF q = Len(Literals(s)) THEN "match" ELSE "char"
    <2>1. CASE q = Len(Literals(s))
      BY <2>1, ProgramShape DEF IMatch, Blank
    <2>2. CASE q # Len(Literals(s))
      <3>1. q \in 0..(Len(Literals(s)) - 1)
        BY <1>1, <2>2
      <3>2. prog[q] = IChar(Literals(s)[q + 1])
        BY <3>1, ProgramShape
      <3>3. QED
        BY <2>2, <3>2 DEF IChar, Blank
    <2>3. QED
      BY <2>1, <2>2
  <1>3. QED
    BY <1>1, <1>2 DEF ApiKnown!MatchAddrs

LEMMA ChainClosure ==
  ASSUME NEW s \in Simples, prog = Program(s), NEW k,
         NEW q \in 0..Len(Literals(s))
  PROVE  ApiKnown!Closure({q}, k) = {q}
  <1>1. ApiKnown!Moves(q, k) = {}
    BY ChainOp DEF ApiKnown!Moves
  <1>2. {q} \in SUBSET ApiKnown!PCs /\ ApiKnown!ClosedAt({q}, k)
    BY <1>1, ChainOp DEF ApiKnown!ClosedAt
  <1>3. QED
    BY <1>2 DEF ApiKnown!Closure, ApiKnown!ClosureAt

LEMMA CharDelta ==
  ASSUME NEW q, NEW k, NEW c, prog[q] = IChar(c)
  PROVE  ApiKnown!Delta({q}, k)
           = IF char_match(mode.icase, c, N!CharAt(k)) THEN {q + 1} ELSE {}
  <1>1. prog[q].op = "char" /\ prog[q].c = c
    BY DEF IChar, Blank
  <1>2. ApiKnown!Takes(q, ApiKnown!CharAt(k)) = char_match(mode.icase, c, N!CharAt(k))
    BY <1>1 DEF ApiKnown!Takes, ApiKnown!char_match, char_match,
       ApiKnown!tolower,
      tolower, ApiKnown!udiff, udiff, ApiKnown!CharAt, N!CharAt,
      ApiKnown!EndChar, N!EndChar
  <1>3. QED
    BY <1>2 DEF ApiKnown!Delta

(* While simple_match runs, the literals it has passed are the characters  *)
(* the attempt has consumed.  A search whose text begins with an escape     *)
(* character is left out: after a restart it compares the escape itself.    *)
Straight ==
  engine = "simple" /\ mode.search => simple = <<>> \/ simple[1] # Esc

At(n) == Len(Reading(simple)[n].lits)

Track ==
  engine = "simple" =>
    /\ pc = "read" => ~Reading(simple)[si].esc
    /\ pc = "run" =>
         Reading(simple)[si + 1]
           = [esc |-> FALSE,
              lits |-> Append(Reading(simple)[si].lits, simple[si + 1])]
    /\ matchEnd = 0 => At(si) = ApiPos - matchStart

(* What the scan sees of simple_match *)
LEMMA SimpleView ==
  ASSUME SimpleInv, engine = "simple"
  PROVE  /\ At(si) \in 0..Len(Literals(simple))
         /\ ApiThreads = {At(si)}
         /\ prog = Program(simple)
         /\ At(0) = 0
  <1>1. /\ simple \in Simples /\ simple \in Seq(Char) /\ Len(simple) \in Nat
        /\ si \in 0..Len(simple) /\ Len(simple) \in si..Len(simple)
        /\ prog = Program(simple)
    BY SimplesAssumption DEF WholeText, SimpleInv
  <1>2. /\ Reading(simple)[si].lits \in Seq(Char)
        /\ Reading(simple)[0] = NothingRead
    <2>1. /\ Reading(simple) \in [0..Len(simple) -> Readings]
          /\ Reading(simple)[0] = NothingRead
      BY <1>1, ReadingUnfolds
    <2>2. QED
      BY <1>1, <2>1 DEF Readings
  <1>3. At(si) <= Len(Literals(simple)) /\ Len(Literals(simple)) \in Nat
    <2>1. Len(Reading(simple)[si].lits)
            <= Len(Reading(simple)[Len(simple)].lits)
      BY <1>1, ReadingGrows
    <2>2. QED
      BY <1>1, <2>1, ProgramShape DEF At, Literals
  <1>4. QED
    BY <1>1, <1>2, <1>3 DEF At, ApiThreads, NothingRead

LEMMA ComparingView ==
  ASSUME SimpleInv, Track, engine = "simple", pc = "run"
  PROVE  /\ At(si + 1) = At(si) + 1 /\ At(si + 1) \in 0..Len(Literals(simple))
         /\ ApiPos = chars - 1 /\ ApiPos \in 0..(Len(input) - 1)
         /\ ApiKnown!Delta(ApiThreads, ApiPos)
              = IF Fits THEN {At(si) + 1} ELSE {}
         /\ ApiKnown!Recorded
  <1>1. /\ simple \in Simples /\ si \in 0..(Len(simple) - 1) /\ matchEnd = 0
        /\ C = input[chars] /\ chars \in 1..Len(input) /\ Len(input) \in Nat
    BY InputRead DEF SimpleInv
  <1>2. /\ At(si) \in 0..(Len(Literals(simple)) - 1)
        /\ At(si + 1) = At(si) + 1
        /\ prog[At(si)] = IChar(simple[si + 1])
    <2>1. Reading(simple)[si + 1].lits
            = Append(Reading(simple)[si].lits, simple[si + 1])
      BY DEF Track
    <2>2. prog = Program(simple)
      BY DEF SimpleInv
    <2>3. QED
      BY <1>1, <2>1, <2>2, LiteralAt DEF At
  <1>3. Len(Literals(simple)) \in Nat
    BY <1>1, ProgramShape
  <1>4. ApiPos = chars - 1
    BY <1>1 DEF ApiPos
  <1>5. N!CharAt(ApiPos) = C
    BY <1>1, <1>4 DEF N!CharAt
  <1>6. /\ ApiThreads = {At(si)} /\ prog = Program(simple)
        /\ At(si) \in 0..Len(Literals(simple))
    BY SimpleView
  <1>7. ApiKnown!Delta(ApiThreads, ApiPos) = IF Fits THEN {At(si) + 1} ELSE {}
    BY <1>2, <1>5, <1>6, CharDelta DEF Fits
  <1>8. At(si) \notin ApiKnown!MatchAddrs
    BY <1>1, <1>2, <1>3, <1>6, ChainOp
  <1>9. ApiKnown!Recorded
    BY <1>6, <1>8 DEF ApiKnown!Recorded, ApiKnown!CanMatch
  <1>10. QED
    BY <1>1, <1>2, <1>3, <1>4, <1>7, <1>9

(* passing the whole text is a match ... *)
LEMMA MatchedScans ==
  ASSUME SimpleInv, Track, SimpleMatched
  PROVE  Track' /\ ApiKnown!Next
  <1>1. /\ engine = "simple" /\ pc = "read" /\ si = Len(simple)
        /\ matchEnd' = chars + 1 /\ pc' = "done"
        /\ UNCHANGED <<engine, prog, input, mode, simple, si, chars, matchStart>>
    BY DEF SimpleMatched, unusedVars, callVars
  <1>2. chars \in Nat /\ simple \in Simples
    BY InputRead DEF SimpleInv
  <1>3. ApiPos = chars /\ ApiPos' = chars
    BY <1>1, <1>2 DEF ApiPos
  <1>4. /\ ApiThreads = {At(si)} /\ ApiThreads' = ApiThreads
        /\ At(si) = Len(Literals(simple)) /\ prog = Program(simple)
        /\ At(si) \in 0..Len(Literals(simple))
    BY <1>1, SimpleView DEF At, Literals, ApiThreads
  <1>5. At(si) \in ApiKnown!MatchAddrs /\ ApiKnown!Delta(ApiThreads, ApiPos) = {}
    BY <1>2, <1>4, ChainOp DEF ApiKnown!Delta, ApiKnown!Takes
  <1>6. ApiKnown!Accept
    <2>1. ApiKnown!CanMatch /\ ApiKnown!Over
      BY <1>4, <1>5 DEF ApiKnown!CanMatch, ApiKnown!Over
    <2>2. (matchEnd - 1)' = ApiPos /\ (pc = "done")' = TRUE /\ ~(pc = "done")
      BY <1>1, <1>2, <1>3
    <2>3. QED
      BY <1>1, <1>3, <1>4, <2>1, <2>2 DEF ApiKnown!Accept
  <1>7. Track'
    BY <1>1, <1>2 DEF Track
  <1>8. QED
    BY <1>6, <1>7 DEF ApiKnown!Next

(* ... reading a character changes nothing the scan sees, unless it is the *)
(* end of the input ...                                                    *)
LEMMA ReadScans ==
  ASSUME SimpleInv, Track, SimpleRead
  PROVE  Track' /\ [ApiKnown!Next]_ApiKnown!vars
  <1>1. /\ engine = "simple" /\ pc = "read" /\ si < Len(simple)
        /\ C' = getchar /\ chars' = chars + 1
        /\ UNCHANGED <<engine, prog, input, mode, simple, matchStart, matchEnd>>
    BY DEF SimpleRead, unusedVars, callVars, matchVars
  <1>2. /\ simple \in Simples /\ matchEnd = 0 /\ chars \in 0..Len(input)
        /\ input \in Seq(Char) /\ Len(input) \in Nat /\ matchStart \in Nat
        /\ si \in 0..(Len(simple) - 1)
    BY <1>1, InputRead DEF SimpleInv
  <1> DEFINE m == IF simple[si + 1] = Esc THEN si + 1 ELSE si
  <1>3. /\ m \in 0..(Len(simple) - 1)
        /\ Reading(simple)[m].lits = Reading(simple)[si].lits
        /\ Reading(simple)[m + 1]
             = [esc |-> FALSE, lits |-> Append(Reading(simple)[si].lits,
             simple[m + 1])]
    BY <1>1, <1>2, NextLiteral DEF Track
  <1>4. /\ ApiPos = chars /\ At(si) = chars - matchStart
        /\ ApiThreads = {At(si)} /\ prog = Program(simple)
    BY <1>1, <1>2, SimpleView DEF ApiPos, Track
  <1>5. CASE C' = EndChar /\ pc' = "done" /\ si' = si
    <2>1. chars = Len(input)
      BY <1>1, <1>2, <1>5 DEF getchar, Char
    <2>2. ApiPos' = chars /\ ApiThreads' = ApiThreads /\ At(si)' = At(si)
      BY <1>1, <1>2, <1>5 DEF ApiPos, ApiThreads, At
    <2>3. At(si) \notin ApiKnown!MatchAddrs
      <3>1. At(si) \in 0..(Len(Literals(simple)) - 1)
        <4>1. /\ Reading(simple)[m + 1].lits
                   = Append(Reading(simple)[m].lits, simple[m + 1])
              /\ At(si) = At(m)
          BY <1>3 DEF At
        <4> HIDE DEF m
        <4>2. QED
          BY <1>2, <1>3, <4>1, LiteralAt DEF At
      <3>2. Len(Literals(simple)) \in Nat
        BY <1>2, ProgramShape
      <3>3. QED
        BY <1>2, <1>4, <3>1, <3>2, ChainOp
    <2>4. ApiKnown!Finish
      BY <1>1, <1>4, <1>5, <2>1, <2>2, <2>3
      DEF ApiKnown!Finish, ApiKnown!Recorded, ApiKnown!CanMatch
    <2>5. Track'
      BY <1>1, <1>2, <1>4, <1>5, <2>2 DEF Track
    <2>6. QED
      BY <2>4, <2>5 DEF ApiKnown!Next
  <1>6. CASE C' # EndChar /\ pc' = "run" /\ si' = m
    <2>1. ApiPos' = chars
      BY <1>1, <1>2, <1>6 DEF ApiPos
    <2>2. ApiThreads' = ApiThreads /\ At(si)' = At(si)
      BY <1>1, <1>3, <1>6 DEF ApiThreads, At
    <2>3. UNCHANGED ApiKnown!vars
      BY <1>1, <1>4, <1>6, <2>1, <2>2 DEF ApiKnown!vars
    <2>4. Reading(simple)[m + 1]
            = [esc |-> FALSE, lits |-> Append(Reading(simple)[m].lits,
            simple[m + 1])]
      BY <1>3
    <2>5. Track'
      <3> HIDE DEF m
      <3>1. QED
        BY <1>1, <1>4, <1>6, <2>1, <2>2, <2>4 DEF Track
    <2>6. QED
      BY <2>3, <2>5
  <1>7. QED
    BY <1>5, <1>6 DEF SimpleRead

(* ... a character that fits is consumed, ... *)
LEMMA FitsScans ==
  ASSUME SimpleInv, Track, SimpleFits
  PROVE  Track' /\ ApiKnown!Next
  <1>1. /\ engine = "simple" /\ pc = "run" /\ Fits /\ si' = si + 1 /\ pc' = "read"
        /\ UNCHANGED <<engine, prog, input, mode, simple, chars, matchStart, matchEnd>>
    BY DEF SimpleFits, Comparing, unusedVars, callVars, matchVars
  <1>2. /\ matchEnd = 0 /\ chars \in Nat /\ simple \in Simples
        /\ matchStart \in Nat /\ Len(input) \in Nat
    BY <1>1, InputRead DEF SimpleInv
  <1>3. ApiPos' = chars
    BY <1>1 DEF ApiPos
  <1>4. /\ ApiThreads' = {At(si + 1)} /\ At(si)' = At(si + 1)
    BY <1>1 DEF ApiThreads, At
  <1>5. /\ At(si + 1) = At(si) + 1 /\ At(si + 1) \in 0..Len(Literals(simple))
        /\ ApiPos = chars - 1 /\ ApiPos \in 0..(Len(input) - 1)
        /\ ApiKnown!Delta(ApiThreads, ApiPos) = {At(si + 1)}
        /\ ApiKnown!Recorded
    BY <1>1, ComparingView
  <1>6. ApiKnown!Closure({At(si + 1)}, ApiPos + 1) = {At(si + 1)}
    <2>1. prog = Program(simple)
      BY <1>1, SimpleView
    <2> DEFINE q == At(si + 1)
    <2>2. q \in 0..Len(Literals(simple))
      BY <1>5
    <2> HIDE DEF q
    <2>3. ApiKnown!Closure({q}, ApiPos + 1) = {q}
      BY <1>2, <2>1, <2>2, ChainClosure
    <2>4. QED
      BY <2>3 DEF q
  <1>7. ApiKnown!Advance
    <2>1. /\ ~(pc = "done") /\ (pc = "done")' = (pc = "done")
          /\ (matchEnd - 1)' = matchEnd - 1
          /\ UNCHANGED <<prog, input, mode, matchStart>>
      BY <1>1
    <2>2. /\ ApiPos < Len(input) /\ ApiPos' = ApiPos + 1
          /\ ApiKnown!Recorded /\ ApiKnown!Delta(ApiThreads, ApiPos) # {}
      BY <1>2, <1>3, <1>5
    <2>3. ApiThreads' = ApiKnown!Closure(ApiKnown!Delta(ApiThreads, ApiPos),
    ApiPos + 1)
      BY <1>4, <1>5, <1>6
    <2>4. QED
      BY <2>1, <2>2, <2>3 DEF ApiKnown!Advance
  <1>8. Track'
    <2>1. At(si) = ApiPos - matchStart
      BY <1>1, <1>2 DEF Track
    <2>2. At(si)' = ApiPos' - matchStart
      BY <1>2, <1>3, <1>4, <1>5, <2>1
    <2>3. (~Reading(simple)[si].esc)'
      BY <1>1 DEF Track
    <2>4. QED
      BY <1>1, <2>2, <2>3 DEF Track
  <1>9. QED
    BY <1>7, <1>8 DEF ApiKnown!Next

(* ... one that does not fit ends the attempt of rxvm_match ... *)
LEMMA FailsScans ==
  ASSUME SimpleInv, Track, SimpleFails
  PROVE  Track' /\ ApiKnown!Next
  <1>1. /\ engine = "simple" /\ pc = "run" /\ ~Fits /\ ~mode.search /\ pc' = "done"
        /\ UNCHANGED <<engine, prog, input, mode, simple, si, chars, matchStart,
                       matchEnd>>
    BY DEF SimpleFails, Comparing, unusedVars, callVars, matchVars
  <1>2. matchEnd = 0
    BY <1>1 DEF SimpleInv
  <1>3. ApiPos' = ApiPos /\ ApiThreads' = ApiThreads /\ At(si)' = At(si)
    BY <1>1, <1>2 DEF ApiPos, ApiThreads, At
  <1>4. ApiKnown!Recorded /\ ApiKnown!Delta(ApiThreads, ApiPos) = {}
    BY <1>1, ComparingView
  <1>5. ApiKnown!Finish
    BY <1>1, <1>3, <1>4 DEF ApiKnown!Finish
  <1>6. Track'
    BY <1>1, <1>2, <1>3 DEF Track
  <1>7. QED
    BY <1>5, <1>6 DEF ApiKnown!Next

(* ... and has a search start again, later than this attempt did. *)
LEMMA RestartScans ==
  ASSUME SimpleInv, Straight, Track, SimpleRestart
  PROVE  Track' /\ ApiKnown!Next
  <1>1. /\ engine = "simple" /\ pc = "run" /\ ~Fits /\ mode.search /\ si' = 0
        /\ UNCHANGED <<engine, prog, input, mode, simple, chars, matchEnd>>
        /\ \/ si # 0 /\ matchStart' = chars - 1 /\ pc' = "run"
           \/ si = 0 /\ matchStart' = chars /\ pc' = "read"
    BY DEF SimpleRestart, Comparing, unusedVars, callVars
  <1>2. /\ matchEnd = 0 /\ chars \in Nat /\ simple \in Simples /\ simple \in Seq(Char)
        /\ matchStart \in Nat /\ Len(input) \in Nat /\ matchStart < chars
        /\ si < Len(simple) /\ si \in Nat /\ Len(simple) \in Nat
    BY <1>1, InputRead DEF SimpleInv
  <1>3. /\ ApiPos = chars - 1 /\ ApiPos \in 0..(Len(input) - 1)
        /\ ApiKnown!Delta(ApiThreads, ApiPos) = {} /\ ApiKnown!Recorded
    BY <1>1, ComparingView
  <1>4. simple[1] # Esc
    BY <1>1, <1>2 DEF Straight
  <1>5. Reading(simple)[0] = NothingRead
        /\ Reading(simple)[0 + 1] = Passed(NothingRead, simple[0 + 1])
    BY <1>2, ReadingUnfolds
  <1>6. Reading(simple)[1] = [esc |-> FALSE, lits |-> Append(<<>>, simple[1])]
    BY <1>4, <1>5 DEF Passed, NothingRead
  <1>7. si # 0 => matchStart < chars - 1
    <2> SUFFICES ASSUME si # 0 PROVE At(si) >= 1
      BY <1>1, <1>2, <1>3 DEF Track
    <2>1. Len(Reading(simple)[1].lits) = 1
      BY <1>2, <1>6
    <2>2. 1 \in 0..Len(simple) /\ si \in 1..Len(simple)
      BY <1>2
    <2>3. At(si) >= Len(Reading(simple)[1].lits)
      BY <1>2, <2>2, ReadingGrows, SimpleView DEF At
    <2>4. QED
      BY <2>1, <2>3
  <1>8. ApiPos' = matchStart'
    BY <1>1, <1>2 DEF ApiPos
  <1>9. ApiThreads' = {0} /\ At(si)' = 0
    <2>1. At(0) = 0
      BY <1>1, SimpleView
    <2>2. ApiThreads' = {At(0)} /\ At(si)' = At(0)
      BY <1>1 DEF ApiThreads, At
    <2>3. QED
      BY <2>1, <2>2
  <1>10. ApiKnown!Closure({0}, matchStart') = {0}
    BY <1>2, ProgramShape, ChainClosure DEF SimpleInv
  <1>11. matchStart' = IF ApiPos = matchStart THEN ApiPos + 1 ELSE ApiPos
    <2>1. si = 0 => ApiPos = matchStart
      BY <1>1, <1>2, <1>3, SimpleView DEF Track
    <2>2. QED
      BY <1>1, <1>2, <1>3, <1>7, <2>1
  <1>12. ApiKnown!Retry
    BY <1>1, <1>2, <1>3, <1>8, <1>9, <1>10, <1>11 DEF ApiKnown!Retry,
       ApiKnown!NoMatch
  <1>13. Track'
    <2>1. CASE pc' = "run"
      BY <1>1, <1>2, <1>5, <1>6, <1>8, <1>9, <2>1 DEF Track, NothingRead
    <2>2. CASE pc' = "read"
      BY <1>1, <1>2, <1>5, <1>8, <1>9, <2>2 DEF Track, NothingRead
    <2>3. QED
      BY <1>1, <2>1, <2>2
  <1>14. QED
    BY <1>12, <1>13 DEF ApiKnown!Next

-----------------------------------------------------------------------------
(* The call as a whole *)

LEMMA CallIsCall == ApiInv => ApiKnown!Call
  <1> SUFFICES ASSUME ApiInv PROVE ApiKnown!Call
    OBVIOUS
  <1>1. WellFormed(prog)
    BY ProgramsAssumption, ProgramShape
    DEF ApiInv, EngineInv, Inv, TypeOK, SimpleInv
  <1>2. ApiKnown!WellFormed(prog)
    BY <1>1 DEF WellFormed, ApiKnown!WellFormed, ApiKnown!Inst, Inst,
       OpConsume,
      ApiKnown!OpConsume, OpAnchor, ApiKnown!OpAnchor, Op, ApiKnown!Op, Char,
      ApiKnown!Char,
      EndChar, ApiKnown!EndChar
  <1>3. input \in Inputs /\ mode \in Modes
    BY DEF ApiInv, EngineInv, Inv, TypeOK, SimpleInv
  <1>4. Len(input) \in Nat
    BY <1>3, InputsAssumption
  <1>5. mode.nongreedy \in BOOLEAN
    BY <1>3 DEF Modes, MatchModes, SearchModes
  <1>6. QED
    BY <1>2, <1>4, <1>5 DEF ApiKnown!Call

LEMMA InitScans == ApiInit => Track /\ ApiKnown!Init
  <1> SUFFICES ASSUME ApiInit PROVE Track /\ ApiKnown!Init
    OBVIOUS
  <1>1. /\ pc = "read" /\ chars = 0 /\ matchStart = 0 /\ matchEnd = 0 /\ si = 0
        /\ engine \in {"vm", "simple"} /\ ApiInv
    BY InitApi DEF ApiInit
  <1>2. ApiPos = 0
    BY <1>1 DEF ApiPos
  <1>3. CASE engine = "vm"
    <2>1. Init
      BY <1>3 DEF ApiInit, Init
    <2>2. Threads = Scan!Closure({0}, 0)
      BY <2>1, InitScan DEF Scan!Init
    <2>3. ApiThreads = ApiKnown!Closure({0}, 0)
      BY <1>3, <2>2, ApiSameAcceptance DEF ApiThreads
    <2>4. QED
      BY <1>1, <1>2, <1>3, <2>3 DEF Track, ApiKnown!Init, ApiKnown!NoMatch
  <1>4. CASE engine = "simple"
    <2>1. SimpleInv /\ simple \in Simples /\ simple \in Seq(Char)
      BY <1>1, <1>4, SimplesAssumption DEF WholeText, ApiInv, EngineInv, SimpleInv
    <2>2. /\ ApiThreads = {0} /\ prog = Program(simple) /\ At(si) = 0
          /\ 0 \in 0..Len(Literals(simple))
      BY <1>1, <1>4, <2>1, SimpleView
    <2>3. ApiKnown!Closure({0}, 0) = {0}
      BY <2>1, <2>2, ChainClosure
    <2>4. ~Reading(simple)[0].esc
      BY <2>1, ReadingUnfolds DEF NothingRead
    <2>5. QED
      BY <1>1, <1>2, <2>2, <2>3, <2>4 DEF Track, ApiKnown!Init,
         ApiKnown!NoMatch
  <1>5. QED
    BY <1>1, <1>3, <1>4

LEMMA StepScans ==
  ASSUME ApiInv, Straight, Track, [ApiNext]_apiVars
  PROVE  Track' /\ [ApiKnown!Next]_ApiKnown!vars
  <1>1. CASE VmStep
    <2>1. engine = "vm" /\ engine' = "vm" /\ [Scan!Next]_Scan!vars
      BY <1>1, VmStepInv DEF VmStep
    <2>2. QED
      BY <2>1, VmStepScans DEF Track
  <1>2. CASE SimpleStep
    BY <1>2, SimpleStepInv, MatchedScans, ReadScans, FitsScans, FailsScans,
      RestartScans DEF SimpleStep
  <1>3. ASSUME UNCHANGED <<vars, simpleVars>>
        PROVE  Track' /\ UNCHANGED ApiKnown!vars
    <2>1. /\ UNCHANGED <<callVars, prog, input, mode, chars, pc, cp>>
          /\ UNCHANGED <<matchStart, matchEnd, engine, simple, si>>
      BY <1>3 DEF vars, simpleVars, callVars, textVars, matchVars, currVars
    <2>2. ApiPos' = ApiPos /\ Pos' = Pos
      BY <2>1 DEF ApiPos, Pos
    <2>3. Threads' = Threads
      BY <2>1, <2>2, ClosureFixed DEF Threads
    <2>4. ApiThreads' = ApiThreads
      BY <2>1, <2>3 DEF ApiThreads
    <2>5. Track' = Track
      BY <2>1, <2>2 DEF Track, At
    <2>6. QED
      BY <2>1, <2>2, <2>4, <2>5 DEF ApiKnown!vars
  <1>4. CASE ResultStep
    BY <1>3, <1>4 DEF ResultStep, SearchResult, MatchResult
  <1>5. CASE UNCHANGED apiVars
    BY <1>3, <1>5 DEF apiVars
  <1>6. QED
    BY <1>1, <1>2, <1>4, <1>5, StepApi

(* What a call knows, unless it searches for a text that begins with an    *)
(* escape character.                                                       *)
ScanInv ==
  Straight =>
    /\ Track /\ ApiKnown!Known /\ ApiKnown!Skips
    /\ ~mode.search => matchStart = 0

LEMMA ScanInvariance == ApiSpec => []ScanInv
  <1>1. ApiInit => ScanInv
    <2> SUFFICES ASSUME ApiInit PROVE ScanInv
      OBVIOUS
    <2>1. Track /\ ApiKnown!Init /\ ApiKnown!Call
      BY InitScans, InitApi, CallIsCall
    <2>2. matchStart = 0
      BY DEF ApiInit
    <2>3. QED
      BY <2>1, <2>2, ApiKnown!InitKnown, ApiKnown!InitSkips DEF ScanInv
  <1>2. ApiInv /\ ScanInv /\ [ApiNext]_apiVars => ScanInv'
    <2> SUFFICES ASSUME ApiInv, ScanInv, [ApiNext]_apiVars, Straight'
                 PROVE  (/\ Track /\ ApiKnown!Known /\ ApiKnown!Skips
                         /\ ~mode.search => matchStart = 0)'
      BY DEF ScanInv
    <2>1. UNCHANGED <<engine, mode, simple>>
      BY StepApi, VmStepInv, SimpleStepInv
      DEF ResultStep, SearchResult, MatchResult, apiVars, vars, callVars,
      simpleVars
    <2>2. Straight
      BY <2>1 DEF Straight
    <2>3. Track' /\ [ApiKnown!Next]_ApiKnown!vars
      BY <2>2, StepScans DEF ScanInv
    <2>4. ApiKnown!Known' /\ ApiKnown!Skips'
      BY <2>2, <2>3, ApiKnown!StepKnown, ApiKnown!StepSkips DEF ScanInv
    <2>5. ~mode.search => matchStart' = matchStart
      BY <2>3 DEF ApiKnown!Next, ApiKnown!Accept, ApiKnown!Advance,
         ApiKnown!Finish, ApiKnown!Retry,
        ApiKnown!vars
    <2>6. QED
      BY <2>1, <2>2, <2>3, <2>4, <2>5 DEF ScanInv
  <1>3. QED
    BY <1>1, <1>2, ApiInvariance, PTL DEF ApiSpec

(* rxvm_match says yes exactly when the expression accepts the whole       *)
(* input, whichever engine ran.                                            *)
THEOREM MatchIsExact == ApiSpec => []MatchExact
  <1>1. ApiInv /\ ScanInv => MatchExact
    <2> SUFFICES ASSUME ApiInv, ScanInv, ret # Unset, ~mode.search
                 PROVE  ret = 1 <=> Accepts(0, Len(input))
      BY DEF MatchExact
    <2>1. ApiKnown!Known /\ matchStart = 0 /\ pc = "done"
      BY DEF ScanInv, Straight, ApiInv, ResultInv
    <2>2. input \in Inputs /\ mode \in Modes /\ matchEnd \in Nat
      BY DEF ApiInv, EngineInv, Inv, TypeOK, SimpleInv
    <2>3. Len(input) \in Nat /\ ~mode.nongreedy
      <3>1. CASE mode \in SearchModes
        BY <3>1 DEF SearchModes
      <3>2. CASE mode \in MatchModes
        <4>1. mode.nongreedy = FALSE
          BY <3>2 DEF MatchModes
        <4>2. QED
          BY <2>2, <4>1, InputsAssumption
      <3>3. QED
        BY <2>2, <3>1, <3>2 DEF Modes
    <2>4. ret = 1 => Accepts(0, Len(input))
      BY <2>1, <2>2, <2>3, ApiSameAcceptance
      DEF ApiInv, ResultInv, ApiKnown!Known, ApiKnown!NoMatch
    <2>5. ASSUME Accepts(0, Len(input))
          PROVE  matchEnd # 0 /\ matchEnd - 1 = Len(input)
      <3>1. ApiKnown!Settled /\ Len(input) \in matchStart..Len(input)
        BY <2>1, <2>3 DEF ApiKnown!Known
      <3>2. /\ matchEnd - 1 # ApiKnown!NoMatch /\ Len(input) <= matchEnd - 1
        BY <2>1, <2>3, <2>5, <3>1, ApiSameAcceptance DEF ApiKnown!Settled
      <3>3. matchEnd - 1 \in matchStart..ApiPos /\ ApiPos \in matchStart..Len(input)
        BY <2>1, <3>2 DEF ApiKnown!Known
      <3>4. QED
        BY <2>1, <2>2, <2>3, <3>2, <3>3 DEF ApiKnown!NoMatch
    <2>6. matchEnd - 1 = Len(input) => ~LeftEarly
      <3> SUFFICES ASSUME matchEnd - 1 = Len(input), engine = "vm"
                   PROVE  C = EndChar
        BY DEF LeftEarly
      <3>1. Inv
        BY DEF ApiInv, EngineInv
      <3>2. chars = Len(input) + 1
        BY <2>2, <2>3, <3>1 DEF Inv, TypeOK, Between
      <3>3. QED
        BY <2>3, <3>1, <3>2 DEF Inv, PeeksRight
    <2>7. QED
      BY <2>4, <2>5, <2>6 DEF ApiInv, ResultInv
  <1>2. QED
    BY <1>1, ApiInvariance, ScanInvariance, PTL

(* An expression that begins with an escape is not searched for in the     *)
(* calls the next two theorems are about: simple_match would compare the   *)
(* escape character itself after a restart (rxvm.c:135).                   *)
NoLeadingEscape == \A s \in Simples : s = <<>> \/ s[1] # Esc

LEMMA AllStraight == NoLeadingEscape /\ ApiInv => Straight
  BY DEF NoLeadingEscape, ApiInv, EngineInv, SimpleInv, Straight

(* The pointers rxvm_search sets delimit a match of the expression.        *)
THEOREM SearchIsSound ==
  ASSUME NoLeadingEscape
  PROVE  ApiSpec => []SearchSound
  <1>1. ApiInv /\ ScanInv => SearchSound
    <2> SUFFICES ASSUME ApiInv, ScanInv, ret # Unset, mode.search
                 PROVE  IF ret = 1
                        THEN /\ end < Len(input) /\ start \in 0..(end + 1)
                             /\ Accepts(start, end + 1)
                        ELSE start = Null /\ end = Null
      BY DEF SearchSound
    <2>1. ApiKnown!Known
      BY AllStraight DEF ScanInv
    <2>2. Len(input) \in Nat /\ matchEnd \in Nat /\ matchStart \in Nat
      BY InputsAssumption DEF ApiInv, EngineInv, Inv, TypeOK, SimpleInv
    <2>3. CASE matchEnd = 0
      BY <2>3 DEF ApiInv, ResultInv
    <2>4. CASE matchEnd # 0
      <3>1. ret = 1 /\ start = matchStart /\ end = matchEnd - 2
        BY <2>4 DEF ApiInv, ResultInv
      <3>2. /\ matchEnd - 1 \in matchStart..ApiPos /\ ApiPos \in matchStart..Len(input)
            /\ Accepts(matchStart, matchEnd - 1)
        BY <2>1, <2>2, <2>4, ApiSameAcceptance DEF ApiKnown!Known,
           ApiKnown!NoMatch
      <3>3. end + 1 = matchEnd - 1
        BY <2>2, <3>1
      <3>4. QED
        BY <2>2, <3>1, <3>2, <3>3
    <2>5. QED
      BY <2>3, <2>4
  <1>2. QED
    BY <1>1, ApiInvariance, ScanInvariance, PTL

LEMMA SameHidden ==
  /\ \A s : ApiKnown!AcceptsNone(s) = N!AcceptsNone(s)
  /\ \A o : ApiKnown!HiddenStart(o) = N!HiddenStart(o)
  <1>1. \A s, e : ApiKnown!Accepts(s, e) = N!Accepts(s, e)
    BY ApiSameAcceptance DEF Accepts
  <1>2. \A s, k : ApiKnown!Survives(s, k) = N!Survives(s, k)
    BY DEF ApiKnown!Survives, N!Survives,
       ApiKnown!Standing, ApiKnown!PCs, ApiKnown!Closure, ApiKnown!ClosureAt,
       ApiKnown!ClosedAt, ApiKnown!Delta, ApiKnown!Moves, ApiKnown!Takes,
       ApiKnown!AtSol, ApiKnown!AtEol, ApiKnown!CharAt, ApiKnown!EndChar,
       ApiKnown!NL, ApiKnown!char_match, ApiKnown!ccs_match, ApiKnown!tolower,
       ApiKnown!udiff,
       N!Standing, N!PCs, N!Closure, N!ClosureAt, N!ClosedAt, N!Delta,
       N!Moves, N!Takes, N!AtSol, N!AtEol, N!CharAt, N!EndChar, N!NL,
       N!char_match, N!ccs_match, N!tolower, N!udiff
  <1>3. \A s : ApiKnown!AcceptsNone(s) = N!AcceptsNone(s)
    BY <1>1 DEF ApiKnown!AcceptsNone, N!AcceptsNone
  <1>4. QED
    BY <1>2, <1>3 DEF ApiKnown!HiddenStart, N!HiddenStart

(* A search passes a match only if an attempt that matches nothing runs    *)
(* over its start, whichever engine searches.                              *)
THEOREM SearchMissesHidden ==
  ASSUME NoLeadingEscape
  PROVE  ApiSpec => []MissesOnlyHidden
  <1>1. ApiInv /\ ScanInv => MissesOnlyHidden
    <2> SUFFICES ASSUME ApiInv, ScanInv, ret # Unset, mode.search,
                        NEW o \in 0..Len(input), ret = 0 \/ o < start
                 PROVE  N!AcceptsNone(o) \/ N!HiddenStart(o)
      BY DEF MissesOnlyHidden
    <2>1. ApiKnown!Skips /\ pc = "done"
      BY AllStraight DEF ScanInv, ApiInv, ResultInv
    <2>2. ApiKnown!MissesHidden
      BY <2>1 DEF ApiKnown!Skips
    <2>3. matchEnd - 1 = ApiKnown!NoMatch \/ o < matchStart
      <3>1. CASE matchEnd = 0
        BY <3>1 DEF ApiKnown!NoMatch
      <3>2. CASE matchEnd # 0
        <4>1. ret = 1 /\ start = matchStart
          BY <3>2 DEF ApiInv, ResultInv
        <4>2. QED
          BY <4>1
      <3>3. QED
        BY <3>1, <3>2
    <2>4. ApiKnown!AcceptsNone(o) \/ ApiKnown!HiddenStart(o)
      BY <2>2, <2>3 DEF ApiKnown!MissesHidden, ApiKnown!Skippable
    <2>5. QED
      BY <2>4, SameHidden
  <1>2. QED
    BY <1>1, ApiInvariance, ScanInvariance, PTL

(* Both engines, the one that runs a program and the one that compares a   *)
(* text, implement the same scan by sets of instructions.                  *)
THEOREM EnginesScan ==
  ASSUME NoLeadingEscape
  PROVE  ApiSpec => EnginesImplementScan
  <1>1. ApiKnown!Init => ApiScan!Init
    BY ApiSameAcceptance DEF ApiKnown!Init, ApiScan!Init, ApiKnown!NoMatch,
       ApiScan!NoMatch
  <1>2. [ApiKnown!Next]_ApiKnown!vars => [ApiScan!Next]_ApiScan!vars
    <2>1. /\ ApiKnown!CanMatch = ApiScan!CanMatch /\ ApiKnown!Recorded = ApiScan!Recorded
          /\ ApiKnown!Over = ApiScan!Over /\ ApiKnown!NoMatch = ApiScan!NoMatch
      BY ApiSameAcceptance
      DEF ApiKnown!CanMatch, ApiKnown!Recorded, ApiKnown!Over,
      ApiKnown!NoMatch,
          ApiScan!CanMatch, ApiScan!Recorded, ApiScan!Over, ApiScan!NoMatch
    <2>2. ApiKnown!Accept => ApiScan!Accept
      BY <2>1 DEF ApiKnown!Accept, ApiScan!Accept
    <2>3. ApiKnown!Advance => ApiScan!Advance
      BY <2>1, ApiSameAcceptance DEF ApiKnown!Advance, ApiScan!Advance
    <2>4. ApiKnown!Finish => ApiScan!Finish
      BY <2>1, ApiSameAcceptance DEF ApiKnown!Finish, ApiScan!Finish
    <2>5. ApiKnown!Retry => ApiScan!Retry
      BY <2>1, ApiSameAcceptance DEF ApiKnown!Retry, ApiScan!Retry
    <2>6. QED
      BY <2>2, <2>3, <2>4, <2>5
      DEF ApiKnown!Next, ApiScan!Next, ApiKnown!vars, ApiScan!vars
  <1>3. ApiInit => ApiScan!Init
    BY <1>1, InitScans
  <1>4. ApiInv /\ ScanInv /\ [ApiNext]_apiVars
          => [ApiScan!Next]_ApiScan!vars
    BY <1>2, AllStraight, StepScans DEF ScanInv
  <1>5. QED
    BY <1>3, <1>4, ApiInvariance, ScanInvariance, PTL
    DEF ApiSpec, EnginesImplementScan, ApiScan!Spec
=============================================================================
