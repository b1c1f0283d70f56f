---------------------------- MODULE NfaScanProofs ----------------------------
(***************************************************************************)
(* What a scan by sets of instructions reports is right for the automaton, *)
(* for every well-formed program and every input.  Whatever implements     *)
(* NfaScan inherits these theorems.                                        *)
(***************************************************************************)
EXTENDS NfaScan, Induction

(* the arguments of the call *)
Call ==
  /\ WellFormed(prog)
  /\ Len(input) \in Nat
  /\ mode.nongreedy \in BOOLEAN

-----------------------------------------------------------------------------
(* The automaton never leaves the program. *)
LEMMA ProgramInside ==
  ASSUME Call
  PROVE  /\ 0 \in PCs
         /\ \A p \in PCs : \A c : Takes(p, c) => p + 1 \in PCs
  <1>1. PICK n \in {j + 1 : j \in DOMAIN prog} :
          /\ prog \in [0..(n-1) -> Inst]
          /\ \A j \in 0..(n-1) :
               prog[j].op \in OpConsume \cup OpAnchor => j + 1 < n
    BY DEF Call, WellFormed
  <1>2. DOMAIN prog = 0..(n-1)
    BY <1>1
  <1>3. PICK j \in DOMAIN prog : n = j + 1
    BY <1>1
  <1>4. n \in Nat /\ n > 0
    BY <1>2, <1>3
  <1>5. ASSUME NEW p \in PCs, NEW c, Takes(p, c)
        PROVE  p + 1 \in PCs
    <2>1. prog[p].op \in OpConsume
      BY <1>5 DEF Takes, OpConsume
    <2>2. QED
      BY <1>1, <1>2, <1>4, <2>1 DEF PCs
  <1>6. QED
    BY <1>2, <1>4, <1>5 DEF PCs

LEMMA MovesInside ==
  ASSUME Call, NEW p \in PCs, NEW k
  PROVE  Moves(p, k) \subseteq PCs
  <1>1. PICK n \in {j + 1 : j \in DOMAIN prog} :
          /\ prog \in [0..(n-1) -> Inst]
          /\ \A j \in 0..(n-1) :
               /\ prog[j].op \in OpConsume \cup OpAnchor => j + 1 < n
               /\ prog[j].op \in {"branch", "jmp"} => prog[j].x \in 0..(n-1)
               /\ prog[j].op = "branch" => prog[j].y \in 0..(n-1)
    BY DEF Call, WellFormed
  <1>2. DOMAIN prog = 0..(n-1) /\ p \in 0..(n-1)
    BY <1>1 DEF PCs
  <1>3. n \in Nat
    BY <1>1, <1>2
  <1>4. prog[p].op \in OpAnchor => p + 1 \in 0..(n-1)
    BY <1>1, <1>2, <1>3
  <1>5. QED
    BY <1>1, <1>2, <1>4 DEF PCs, Moves, OpAnchor

LEMMA ClosureType ==
  ASSUME NEW S \in SUBSET PCs, NEW k
  PROVE  Closure(S, k) \in SUBSET PCs
  BY DEF Closure, ClosureAt, PCs

LEMMA DeltaType ==
  ASSUME Call, NEW S \in SUBSET PCs, NEW k
  PROVE  Delta(S, k) \in SUBSET PCs
  BY ProgramInside DEF Delta

(* An attempt that stands nowhere stays nowhere. *)
LEMMA NothingReached ==
  ASSUME NEW k
  PROVE  Closure({}, k) = {} /\ Delta({}, k) = {}
  <1>1. {} \in SUBSET PCs /\ ClosedAt({}, k)
    BY DEF ClosedAt
  <1>2. Closure({}, k) = {}
    BY <1>1 DEF Closure, ClosureAt
  <1>3. QED
    BY <1>2 DEF Delta

-----------------------------------------------------------------------------
(* The recursion in Standing is well founded, so that its equation holds.  *)
OneStep(s) ==
  [e \in (s + 1)..Len(input) |->
     [S \in SUBSET PCs |-> Closure(Delta(S, e - 1), e)]]

LEMMA StandingUnfolds ==
  ASSUME Call, NEW s \in Nat
  PROVE  /\ \A e \in s..Len(input) : Standing(s)[e] \in SUBSET PCs
         /\ s <= Len(input) => Standing(s)[s] = Closure({0}, s)
         /\ \A e \in s..(Len(input) - 1) :
              Standing(s)[e + 1] = Closure(Delta(Standing(s)[e], e), e + 1)
  <1> DEFINE Equation(at) ==
        at = [e \in s..Len(input) |->
                IF e = s THEN Closure({0}, e)
                ELSE Closure(Delta(at[e - 1], e - 1), e)]
  <1>1. Len(input) \in Int /\ s \in Int /\ Closure({0}, s) \in SUBSET PCs
    BY ProgramInside, ClosureType DEF Call
  <1>2. OneStep(s) \in [(s + 1)..Len(input) -> [SUBSET PCs -> SUBSET PCs]]
    BY ClosureType, DeltaType DEF OneStep
  <1>3. PICK f \in [s..Len(input) -> SUBSET PCs] :
          Stepwise(f, s, Len(input), Closure({0}, s), OneStep(s))
    BY <1>1, <1>2, StepwiseExists
  <1>4. Equation(f)
    <2>1. ASSUME NEW e \in s..Len(input)
          PROVE  f[e] = IF e = s THEN Closure({0}, e)
                        ELSE Closure(Delta(f[e - 1], e - 1), e)
      <3>1. e # s => e \in (s + 1)..Len(input) /\ f[e - 1] \in SUBSET PCs
        BY <1>1
      <3>2. QED
        BY <1>3, <3>1 DEF Stepwise, OneStep
    <2>2. QED
      BY <2>1
  <1>5. Standing(s) = CHOOSE at : Equation(at)
    BY DEF Standing
  <1>6. Equation(Standing(s))
    <2> HIDE DEF Equation
    <2>1. QED
      BY <1>4, <1>5
  <1> DEFINE Typed == {e \in s..Len(input) : Standing(s)[e] \in SUBSET PCs}
  <1>7. \A e \in s..(Len(input) - 1) :
          Standing(s)[e + 1] = Closure(Delta(Standing(s)[e], e), e + 1)
    BY <1>1, <1>6
  <1>8. s <= Len(input) => Standing(s)[s] = Closure({0}, s)
    BY <1>1, <1>6
  <1>9. s..Len(input) \subseteq Typed
    <2>1. s <= Len(input) => s \in Typed
      BY <1>1, <1>8
    <2>2. ASSUME NEW e \in s..(Len(input) - 1), e \in Typed
          PROVE  e + 1 \in Typed
      <3>1. Closure(Delta(Standing(s)[e], e), e + 1) \in SUBSET PCs
        BY <2>2, ClosureType, DeltaType
      <3>2. QED
        BY <1>1, <1>7, <3>1
    <2> HIDE DEF Typed
    <2>3. QED
      BY <1>1, <2>1, <2>2, IntervalInduction
  <1>10. QED
    BY <1>7, <1>8, <1>9

(* Where an attempt stands, every move that reads nothing has been made.   *)
LEMMA StandingClosed ==
  ASSUME Call, NEW s \in Nat, NEW e \in s..Len(input)
  PROVE  ClosedAt(Standing(s)[e], e)
  <1> DEFINE Grows(S) == Closure(S, e)
  <1>1. ASSUME NEW p \in PCs PROVE Moves(p, e) \subseteq PCs
    BY <1>1, MovesInside
  <1>2. ASSUME NEW S \in SUBSET PCs PROVE ClosedAt(Grows(S), e)
    <2> DEFINE closed == {T \in SUBSET PCs : S \subseteq T /\ ClosedAt(T, e)}
    <2>1. Grows(S) = {p \in PCs : \A T \in closed : p \in T}
      BY DEF Closure, ClosureAt
    <2>2. SUFFICES ASSUME NEW p \in Grows(S), NEW q \in Moves(p, e)
                   PROVE  q \in Grows(S)
      BY DEF ClosedAt
    <2>3. q \in PCs
      BY <1>1, <2>1
    <2>4. ASSUME NEW T \in closed PROVE q \in T
      BY <2>1 DEF ClosedAt
    <2> HIDE DEF closed, Grows
    <2>5. QED
      BY <2>1, <2>3, <2>4
  <1>3. CASE e = s
    <2>1. Standing(s)[e] = Closure({0}, e)
      BY <1>3, StandingUnfolds
    <2>2. QED
      BY <1>2, <2>1, ProgramInside
  <1>4. CASE e # s
    <2>1. /\ Len(input) \in Nat /\ e - 1 \in s..(Len(input) - 1) /\ (e - 1) + 1 = e
          /\ e - 1 \in s..Len(input)
      BY <1>4 DEF Call
    <2>2. PICK d : d = e - 1
      OBVIOUS
    <2>3. Standing(s)[d + 1] = Closure(Delta(Standing(s)[d], d), d + 1)
      BY <2>1, <2>2, StandingUnfolds
    <2>4. Delta(Standing(s)[d], d) \in SUBSET PCs
      BY <2>1, <2>2, StandingUnfolds, DeltaType
    <2>5. QED
      BY <1>2, <2>1, <2>2, <2>3, <2>4
  <1>5. QED
    BY <1>3, <1>4

(* Of the positions an attempt can end at, the program of a text accepts   *)
(* the one behind the text, if that is what the input holds.               *)
LEMMA ChainAccepts ==
  ASSUME Call, NEW u \in Seq(Char), prog = Chain(u),
         NEW s \in Nat, NEW e \in s..Len(input)
  PROVE  Accepts(s, e) <=>
           /\ e = s + Len(u)
           /\ \A k \in 1..Len(u) : char_match(mode.icase, input[s + k], u[k])
  <1> DEFINE Held(q) ==
               q <= Len(u) /\ \A k \in 1..q : char_match(mode.icase, input[s + k], u[k])
             at(q) == IF Held(q) THEN {q} ELSE {}
             Right == {i \in s..Len(input) : Standing(s)[i] = at(i - s)}
  <1>1. /\ Len(input) \in Nat /\ Len(u) \in Nat /\ PCs = 0..Len(u)
        /\ \A q \in 0..Len(u) :
             prog[q] = IF q < Len(u) THEN IChar(u[q + 1]) ELSE IMatch
    BY DEF Call, PCs, Chain
  <1>2. ASSUME NEW q \in 0..Len(u)
        PROVE  /\ prog[q].op = IF q < Len(u) THEN "char" ELSE "match"
               /\ q < Len(u) => prog[q].c = u[q + 1]
    <2>1. CASE q < Len(u)
      BY <1>1, <2>1 DEF IChar, Blank
    <2>2. CASE ~(q < Len(u))
      BY <1>1, <2>2 DEF IMatch, Blank
    <2>3. QED
      BY <2>1, <2>2
  <1>3. ASSUME NEW S \in SUBSET PCs, NEW k
        PROVE  Closure(S, k) = S
    <2>1. \A p \in PCs : Moves(p, k) = {}
      BY <1>1, <1>2 DEF Moves
    <2>2. ClosedAt(S, k)
      BY <2>1 DEF ClosedAt
    <2>3. QED
      BY <2>2 DEF Closure, ClosureAt
  <1>4. ASSUME NEW i \in Nat
        PROVE  at(i) \in SUBSET PCs
    BY <1>1
  <1>5. ASSUME NEW i \in s..(Len(input) - 1)
        PROVE  Delta(at(i - s), i) = at(i + 1 - s)
    <2>1. PICK q \in Nat : q = i - s /\ q + 1 = i + 1 - s /\ i + 1 = s + (q + 1)
      BY <1>1
    <2>2. CharAt(i) = input[s + (q + 1)]
      BY <1>1, <2>1 DEF CharAt
    <2>3. q <= Len(u) =>
            (Takes(q, CharAt(i)) <=>
               q < Len(u) /\ char_match(mode.icase, input[s + (q + 1)], u[q + 1]))
      <3>1. CASE q < Len(u)
        <4>1. prog[q].op = "char" /\ prog[q].c = u[q + 1]
          BY <1>1, <1>2, <3>1
        <4>2. Takes(q, CharAt(i)) = char_match(mode.icase, CharAt(i), prog[q].c)
          BY <4>1 DEF Takes
        <4>3. QED
          BY <2>2, <3>1, <4>1, <4>2
      <3>2. CASE q = Len(u)
        <4>1. prog[q].op = "match"
          BY <1>1, <1>2, <3>2
        <4>2. ~Takes(q, CharAt(i))
          BY <4>1 DEF Takes
        <4>3. QED
          BY <1>1, <3>2, <4>2
      <3>3. QED
        BY <1>1, <2>1, <3>1, <3>2
    <2>4. Held(q + 1) <=>
            Held(q) /\ q < Len(u) /\ char_match(mode.icase, input[s + (q + 1)], u[q + 1])
      <3>1. \A k \in 1..(q + 1) : k \in 1..q \/ k = q + 1
        BY <2>1
      <3>2. 1..q \subseteq 1..(q + 1) /\ q + 1 \in 1..(q + 1)
        BY <2>1
      <3>3. (q + 1 <= Len(u) <=> q < Len(u)) /\ (q < Len(u) => q <= Len(u))
        BY <1>1
      <3> DEFINE Fits(k) == char_match(mode.icase, input[s + k], u[k])
      <3>4. (\A k \in 1..(q + 1) : Fits(k)) <=> (\A k \in 1..q : Fits(k)) /\ Fits(q + 1)
        <4> HIDE DEF Fits
        <4>1. QED
          BY <3>1, <3>2
      <3>5. QED
        BY <3>3, <3>4
    <2>5. Held(q) => q <= Len(u)
      OBVIOUS
    <2> HIDE DEF Held
    <2>6. Delta(at(q), i) = at(q + 1)
      BY <2>3, <2>4, <2>5 DEF Delta
    <2>7. QED
      BY <2>1, <2>6
  <1>6. s \in Right
    <2>1. s <= Len(input) /\ s \in s..Len(input) /\ s - s = 0
      BY <1>1
    <2>2. Held(0)
      BY <1>1
    <2>3. Standing(s)[s] = Closure({0}, s)
      BY <2>1, StandingUnfolds
    <2>4. {0} \in SUBSET PCs
      BY <1>1
    <2> HIDE DEF Held
    <2>5. QED
      BY <1>3, <2>1, <2>2, <2>3, <2>4
  <1>7. ASSUME NEW i \in s..(Len(input) - 1), i \in Right
        PROVE  i + 1 \in Right
    <2>1. i - s \in Nat /\ i + 1 - s \in Nat /\ i + 1 \in s..Len(input)
      BY <1>1
    <2>2. Standing(s)[i + 1] = Closure(Delta(Standing(s)[i], i), i + 1)
      BY StandingUnfolds
    <2>3. Standing(s)[i] = at(i - s)
      BY <1>7
    <2>4. at(i + 1 - s) \in SUBSET PCs
      BY <1>4, <2>1
    <2> HIDE DEF at
    <2>5. QED
      BY <1>3, <1>5, <2>1, <2>2, <2>3, <2>4
  <1>8. Standing(s)[e] = at(e - s)
    <2>1. s..Len(input) \subseteq Right
      <3> HIDE DEF Right
      <3>1. s \in Int /\ Len(input) \in Int
        BY <1>1
      <3>2. QED
        BY <1>6, <1>7, <3>1, IntervalInduction
    <2>2. QED
      BY <2>1
  <1>9. PICK q \in Nat : q = e - s /\ (q = Len(u) <=> e = s + Len(u))
    BY <1>1
  <1>10. Held(q) => (q \in MatchAddrs <=> q = Len(u))
    <2> SUFFICES ASSUME q <= Len(u) PROVE q \in MatchAddrs <=> q = Len(u)
      OBVIOUS
    <2>1. q \in PCs /\ q \in 0..Len(u)
      BY <1>1
    <2>2. QED
      BY <1>1, <1>2, <2>1 DEF MatchAddrs
  <1>11. Accepts(s, e) <=> Held(q) /\ q = Len(u)
    <2> HIDE DEF Held
    <2>1. QED
      BY <1>8, <1>9, <1>10 DEF Accepts
  <1>12. QED
    BY <1>1, <1>9, <1>11

(* Once no instruction survives a character, nothing is accepted after it. *)
LEMMA DeadEnd ==
  ASSUME Call, NEW s \in Nat, NEW k \in s..(Len(input) - 1),
         Delta(Standing(s)[k], k) = {}
  PROVE  \A e \in (k + 1)..Len(input) :
           Standing(s)[e] = {} /\ ~Accepts(s, e)
  <1> DEFINE Dead == {e \in s..Len(input) : Standing(s)[e] = {}}
  <1>1. Len(input) \in Int /\ k + 1 \in Int /\ s \in Int
    BY DEF Call
  <1>2. \A e \in s..(Len(input) - 1) :
          Delta(Standing(s)[e], e) = {} => e + 1 \in Dead
    <2>1. \A e \in s..(Len(input) - 1) :
            Standing(s)[e + 1] = Closure(Delta(Standing(s)[e], e), e + 1)
      BY StandingUnfolds
    <2>2. \A e \in s..(Len(input) - 1) : e + 1 \in s..Len(input)
      BY <1>1
    <2>3. QED
      BY <2>1, <2>2, NothingReached
  <1>3. k + 1 \in Dead
    BY <1>2
  <1>4. ASSUME NEW e \in (k + 1)..(Len(input) - 1), e \in Dead
        PROVE  e + 1 \in Dead
    <2>1. e \in s..(Len(input) - 1)
      BY <1>1
    <2>2. Delta(Standing(s)[e], e) = {}
      BY <1>4, NothingReached
    <2> HIDE DEF Dead
    <2>3. QED
      BY <1>2, <2>1, <2>2
  <1>5. (k + 1)..Len(input) \subseteq Dead
    <2> HIDE DEF Dead
    <2>1. QED
      BY <1>1, <1>3, <1>4, IntervalInduction
  <1>6. QED
    BY <1>5 DEF Accepts

-----------------------------------------------------------------------------
(* What the scan knows: it carries the very set of instructions the        *)
(* automaton stands at, what it remembers is accepted, and it forgot no    *)
(* position on the way.  `Settled` is what it knows in the end.            *)
Settled ==
  \A e \in origin..Len(input) :
    Accepts(origin, e) =>
      /\ best # NoMatch
      /\ IF mode.nongreedy THEN best <= e ELSE e <= best

Known ==
  /\ Call
  /\ origin \in 0..Len(input) /\ pos \in origin..Len(input)
  /\ threads = Standing(origin)[pos]
  /\ best # NoMatch =>
       /\ best \in origin..pos /\ Accepts(origin, best)
       /\ mode.nongreedy => done /\ best = pos
  /\ \A e \in origin..(pos - 1) :
       Accepts(origin, e) => best # NoMatch /\ e <= best /\ ~mode.nongreedy
  /\ done => Settled

LEMMA CallFixed ==
  ASSUME Call, UNCHANGED <<prog, input, mode>>
  PROVE  /\ Call'
         /\ \A s : Standing(s)' = Standing(s)
         /\ \A s, e : Accepts(s, e)' = Accepts(s, e)
  BY DEF Call, Accepts, MatchAddrs, PCs, Standing, Closure, ClosureAt, Delta,
    ClosedAt, Moves, Takes, AtSol, AtEol, CharAt

(* When an attempt cannot go on, what is known of its past is all. *)
LEMMA NothingAhead ==
  ASSUME Known, Over, Recorded
  PROVE  \A e \in origin..Len(input) :
           Accepts(origin, e) => best # NoMatch /\ e <= best
  <1> SUFFICES ASSUME NEW e \in origin..Len(input), Accepts(origin, e)
               PROVE  best # NoMatch /\ e <= best
    OBVIOUS
  <1>1. /\ Len(input) \in Nat /\ origin \in Nat /\ pos \in Nat /\ e \in Nat
        /\ origin <= pos /\ pos <= Len(input)
    BY DEF Known, Call
  <1>2. CASE e < pos
    <2>1. e \in origin..(pos - 1)
      BY <1>1, <1>2
    <2>2. QED
      BY <2>1 DEF Known
  <1>3. CASE e = pos
    BY <1>1, <1>3 DEF Known, Accepts, Recorded, CanMatch, NoMatch
  <1>4. CASE e > pos
    <2>1. pos \in origin..(Len(input) - 1) /\ e \in (pos + 1)..Len(input)
      BY <1>1, <1>4
    <2>2. Delta(Standing(origin)[pos], pos) = {}
      BY <2>1, <1>1 DEF Over, Known
    <2>3. QED
      BY <1>1, <2>1, <2>2, DeadEnd DEF Known
  <1>5. QED
    BY <1>1, <1>2, <1>3, <1>4

LEMMA InitKnown == Init /\ Call => Known
  <1> SUFFICES ASSUME Init, Call
               PROVE  Known
    OBVIOUS
  <1>1. origin = 0 /\ pos = 0 /\ best = NoMatch /\ done = FALSE
        /\ threads = Closure({0}, 0) /\ Len(input) \in Nat
    BY DEF Init, Call
  <1>2. threads = Standing(0)[0]
    BY <1>1, StandingUnfolds
  <1>3. QED
    BY <1>1, <1>2 DEF Known

LEMMA AcceptKnown ==
  ASSUME Known, Accept
  PROVE  Known'
  <1>1. /\ ~done /\ CanMatch /\ best' = pos
        /\ UNCHANGED <<prog, input, mode, origin, pos, threads>>
        /\ done' => mode.nongreedy \/ Over
    BY DEF Accept
  <1>2. /\ Len(input) \in Nat /\ origin \in Nat /\ pos \in Nat
        /\ origin <= pos /\ pos <= Len(input) /\ mode.nongreedy \in BOOLEAN
    BY DEF Known, Call
  <1>3. Call' /\ \A s, e : Accepts(s, e)' = Accepts(s, e)
    BY <1>1, CallFixed DEF Known
  <1>4. threads' = (Standing(origin)[pos])'
    BY <1>1, CallFixed DEF Known
  <1>5. Accepts(origin, pos)
    BY <1>1 DEF Known, Accepts, CanMatch
  <1>6. best' # NoMatch /\ best' \in origin..pos
    BY <1>1, <1>2 DEF NoMatch
  <1>7. mode.nongreedy => done'
    BY <1>1 DEF Accept
  <1>8. \A e \in origin..(pos - 1) :
          Accepts(origin, e) => e <= pos /\ ~mode.nongreedy
    BY <1>1, <1>2 DEF Known
  <1>9. ASSUME done', NEW e \in origin..Len(input), Accepts(origin, e)
        PROVE  IF mode.nongreedy THEN pos <= e ELSE e <= pos
    <2>1. CASE mode.nongreedy
      BY <1>2, <1>8, <1>9, <2>1
    <2>2. CASE ~mode.nongreedy
      <3>1. Over
        BY <1>1, <1>9, <2>2
      <3>2. CASE e <= pos
        BY <2>2, <3>2
      <3>3. CASE e > pos
        <4>1. pos \in origin..(Len(input) - 1) /\ e \in (pos + 1)..Len(input)
          BY <1>2, <3>3
        <4>2. Delta(Standing(origin)[pos], pos) = {}
          BY <3>1, <4>1, <1>2 DEF Over, Known
        <4>3. QED
          BY <1>2, <1>9, <4>1, <4>2, DeadEnd DEF Known
      <3>4. QED
        BY <1>2, <3>2, <3>3
    <2>3. QED
      BY <1>2, <2>1, <2>2
  <1>10. done' => Settled'
    BY <1>1, <1>3, <1>6, <1>9 DEF Settled
  <1>11. QED
    BY <1>1, <1>2, <1>3, <1>4, <1>5, <1>6, <1>7, <1>8, <1>10 DEF Known

LEMMA AdvanceKnown ==
  ASSUME Known, Advance
  PROVE  Known'
  <1>1. /\ ~done /\ Recorded /\ pos < Len(input) /\ pos' = pos + 1
        /\ threads' = Closure(Delta(threads, pos), pos + 1)
        /\ UNCHANGED <<prog, input, mode, origin, best, done>>
    BY DEF Advance
  <1>2. /\ Len(input) \in Nat /\ origin \in Nat /\ pos \in Nat
        /\ origin <= pos /\ mode.nongreedy \in BOOLEAN
    BY DEF Known, Call
  <1>3. Call' /\ \A s, e : Accepts(s, e)' = Accepts(s, e)
    BY <1>1, CallFixed DEF Known
  <1>4. threads' = (Standing(origin)[pos])'
    <2>1. pos \in origin..(Len(input) - 1)
      BY <1>1, <1>2
    <2>2. threads' = Standing(origin)[pos + 1]
      BY <1>1, <1>2, <2>1, StandingUnfolds DEF Known
    <2>3. QED
      BY <1>1, <2>2, CallFixed DEF Known
  <1>5. ASSUME NEW e \in origin..pos, Accepts(origin, e)
        PROVE  best # NoMatch /\ e <= best /\ ~mode.nongreedy
    <2>1. CASE e = pos
      <3>1. best = pos
        BY <1>1, <1>5, <2>1 DEF Known, Accepts, Recorded, CanMatch
      <3>2. best # NoMatch
        BY <1>2, <3>1 DEF NoMatch
      <3>3. QED
        BY <1>1, <1>2, <2>1, <3>1, <3>2 DEF Known
    <2>2. CASE e # pos
      <3>1. e \in origin..(pos - 1)
        BY <1>2, <2>2
      <3>2. QED
        BY <1>5, <3>1 DEF Known
    <2>3. QED
      BY <2>1, <2>2
  <1>6. best # NoMatch =>
          best \in origin..pos' /\ Accepts(origin, best) /\ ~mode.nongreedy
    BY <1>1, <1>2 DEF Known
  <1>7. (pos' - 1) = pos /\ pos' \in origin..Len(input)
    BY <1>1, <1>2
  <1>8. QED
    BY <1>1, <1>2, <1>3, <1>4, <1>5, <1>6, <1>7 DEF Known

LEMMA FinishKnown ==
  ASSUME Known, Finish
  PROVE  Known'
  <1>1. /\ ~done /\ Recorded /\ Over /\ done' = TRUE
        /\ UNCHANGED <<prog, input, mode, origin, pos, threads, best>>
    BY DEF Finish, Over
  <1>2. /\ Call' /\ \A s, e : Accepts(s, e)' = Accepts(s, e)
        /\ threads' = (Standing(origin)[pos])'
    BY <1>1, CallFixed DEF Known
  <1>3. best # NoMatch => ~mode.nongreedy
    BY <1>1 DEF Known
  <1>4. Settled'
    BY <1>1, <1>2, <1>3, NothingAhead DEF Settled
  <1>5. QED
    BY <1>1, <1>2, <1>3, <1>4 DEF Known

LEMMA RetryKnown ==
  ASSUME Known, Retry
  PROVE  Known' /\ \A e \in origin..Len(input) : ~Accepts(origin, e)
  <1>1. /\ ~done /\ Recorded /\ pos < Len(input) /\ best = NoMatch /\ Over
        /\ UNCHANGED <<prog, input, mode, best, done>>
    BY DEF Retry, Over
  <1>2. PICK o : /\ o = IF pos = origin THEN pos + 1 ELSE pos
                 /\ origin' = o /\ pos' = o /\ threads' = Closure({0}, o)
    BY DEF Retry
  <1>3. /\ Len(input) \in Nat /\ origin \in Nat /\ pos \in Nat
        /\ o \in 0..Len(input) /\ o \in Nat
    BY <1>1, <1>2 DEF Known, Call
  <1>4. Call' /\ threads' = (Standing(origin)[pos])'
    BY <1>1, <1>2, <1>3, CallFixed, StandingUnfolds DEF Known
  <1>5. o..(o - 1) = {}
    BY <1>3
  <1>6. QED
    BY <1>1, <1>2, <1>3, <1>4, <1>5, NothingAhead DEF Known

(* An attempt is given up, for a later one or for good, only if no match   *)
(* starts where it did.                                                    *)
GivesUpHopeless ==
  \/ origin' # origin
  \/ done' /\ best' = NoMatch
  => \A e \in origin..Len(input) : ~Accepts(origin, e)

LEMMA StepKnown ==
  ASSUME Known, [Next]_vars
  PROVE  Known' /\ GivesUpHopeless
  <1>1. CASE Accept
    <2>1. origin' = origin /\ best' # NoMatch
      BY <1>1 DEF Accept, Known, Call, NoMatch
    <2>2. QED
      BY <1>1, <2>1, AcceptKnown DEF GivesUpHopeless
  <1>2. CASE Advance
    <2>1. origin' = origin /\ ~done'
      BY <1>2 DEF Advance
    <2>2. QED
      BY <1>2, <2>1, AdvanceKnown DEF GivesUpHopeless
  <1>3. CASE Finish
    <2>1. UNCHANGED <<prog, input, mode, origin, best>> /\ done'
      BY <1>3 DEF Finish
    <2>2. Known' /\ \A s, e : Accepts(s, e)' = Accepts(s, e)
      BY <1>3, <2>1, FinishKnown, CallFixed DEF Known
    <2>3. best' = NoMatch => \A e \in origin..Len(input) : ~Accepts(origin, e)
      BY <2>1, <2>2 DEF Known, Settled
    <2>4. QED
      BY <2>1, <2>2, <2>3 DEF GivesUpHopeless
  <1>4. CASE Retry
    BY <1>4, RetryKnown DEF GivesUpHopeless
  <1>5. CASE UNCHANGED vars
    <2>1. UNCHANGED <<prog, input, mode, origin, pos, threads, best, done>>
      BY <1>5 DEF vars
    <2>2. /\ Call' /\ \A s, e : Accepts(s, e)' = Accepts(s, e)
          /\ threads' = (Standing(origin)[pos])'
      BY <2>1, CallFixed DEF Known
    <2>3. Settled' = Settled
      BY <2>1, <2>2 DEF Settled
    <2>4. Known'
      BY <2>1, <2>2, <2>3 DEF Known
    <2>5. GivesUpHopeless
      BY <2>1 DEF GivesUpHopeless, Known, Settled
    <2>6. QED
      BY <2>4, <2>5
  <1>6. QED
    BY <1>1, <1>2, <1>3, <1>4, <1>5 DEF Next

(* A scan knows where the automaton stands and forgets no match, whatever  *)
(* the program and the input.                                              *)
THEOREM ScanKnows == Call /\ Spec => []Known
  <1>1. Init /\ Call => Known
    BY InitKnown
  <1>2. Known /\ [Next]_vars => Known'
    BY StepKnown
  <1>3. QED
    BY <1>1, <1>2, PTL DEF Spec

(* A scan abandons an attempt only if the automaton accepts nothing from   *)
(* where it began.                                                         *)
THEOREM ScanGivesUpHopeless == Call /\ Spec => [][GivesUpHopeless]_vars
  <1>1. Known /\ [Next]_vars => GivesUpHopeless
    BY StepKnown
  <1>2. QED
    BY <1>1, ScanKnows, PTL DEF Spec

-----------------------------------------------------------------------------
(* The starts a search skips.  An attempt is alive until it is given up,   *)
(* so it runs over every start up to the next attempt.                     *)
Skippable(o) == AcceptsNone(o) \/ HiddenStart(o)

MissesHidden ==
  \A o \in 0..Len(input) : best = NoMatch \/ o < origin => Skippable(o)

Skips ==
  /\ threads # {}
  /\ \A o \in 0..(origin - 1) : Skippable(o)
  /\ done /\ mode.search => MissesHidden

LEMMA SkippableFixed ==
  ASSUME Call, UNCHANGED <<prog, input, mode>>
  PROVE  \A o : Skippable(o)' = Skippable(o)
  <1>1. \A s, e : Accepts(s, e)' = Accepts(s, e)
    BY CallFixed
  <1>2. \A s : AcceptsNone(s)' = AcceptsNone(s)
    BY <1>1 DEF AcceptsNone
  <1>3. \A s, k : Survives(s, k)' = Survives(s, k)
    <2>1. \A s : Standing(s)' = Standing(s)
      BY CallFixed
    <2>2. \A S, k : Delta(S, k)' = Delta(S, k)
      BY DEF Delta, Takes, CharAt
    <2>3. QED
      BY <2>1, <2>2 DEF Survives
  <1>4. QED
    BY <1>2, <1>3 DEF Skippable, HiddenStart

LEMMA ClosureHolds ==
  ASSUME NEW S \in SUBSET PCs, NEW k
  PROVE  S \subseteq Closure(S, k)
  BY DEF Closure, ClosureAt

(* An attempt that stands somewhere has survived every character so far. *)
LEMMA AliveSoFar ==
  ASSUME Call, NEW s \in Nat, NEW k \in s..Len(input), Standing(s)[k] # {}
  PROVE  \A e \in s..(k - 1) : Survives(s, e)
  <1> SUFFICES ASSUME NEW e \in s..(k - 1) PROVE Survives(s, e)
    OBVIOUS
  <1>1. e \in s..(Len(input) - 1) /\ k \in (e + 1)..Len(input) /\ e < Len(input)
    BY DEF Call
  <1>2. Delta(Standing(s)[e], e) # {}
    BY <1>1, DeadEnd
  <1>3. QED
    BY <1>1, <1>2 DEF Survives

(* An attempt that matches nothing and is alive at pos hides the starts on *)
(* its way there.                                                          *)
LEMMA AttemptHides ==
  ASSUME Known, Skips, AcceptsNone(origin), NEW o \in (origin + 1)..pos,
         o = pos => pos = Len(input)
  PROVE  HiddenStart(o)
  <1>1. /\ Len(input) \in Nat /\ origin \in Nat /\ pos \in Nat /\ Call
        /\ pos \in origin..Len(input) /\ threads = Standing(origin)[pos]
    BY DEF Known, Call
  <1>2. Survives(origin, o)
    <2>1. CASE o = pos
      BY <1>1, <2>1 DEF Survives, Skips
    <2>2. CASE o # pos
      <3>1. o \in origin..(pos - 1)
        BY <1>1, <2>2
      <3>2. Standing(origin)[pos] # {}
        BY <1>1 DEF Skips
      <3>3. QED
        BY <1>1, <3>1, <3>2, AliveSoFar
    <2>3. QED
      BY <2>1, <2>2
  <1>3. origin \in 0..(o - 1)
    BY <1>1
  <1>4. QED
    BY <1>2, <1>3 DEF HiddenStart

LEMMA InitSkips == Init /\ Call => Skips
  <1> SUFFICES ASSUME Init, Call PROVE Skips
    OBVIOUS
  <1>1. {0} \in SUBSET PCs
    BY ProgramInside
  <1>2. threads # {}
    BY <1>1, ClosureHolds DEF Init
  <1>3. QED
    BY <1>2 DEF Init, Skips

LEMMA FinishSkips ==
  ASSUME Known, Skips, Finish
  PROVE  Skips'
  <1>1. /\ ~done /\ Recorded /\ Over
        /\ UNCHANGED <<prog, input, mode, origin, pos, threads, best>>
        /\ pos = Len(input) \/ ~mode.search \/ best # NoMatch
    BY DEF Finish, Over
  <1>2. \A o : Skippable(o)' = Skippable(o)
    BY <1>1, SkippableFixed DEF Known
  <1>3. /\ Len(input) \in Nat /\ origin \in Nat /\ pos \in Nat
    BY DEF Known, Call
  <1>4. ASSUME mode.search, NEW o \in 0..Len(input), best = NoMatch \/ o < origin
        PROVE  Skippable(o)
    <2>1. CASE o < origin
      <3>1. o \in 0..(origin - 1)
        BY <1>3, <2>1
      <3>2. QED
        BY <3>1 DEF Skips
    <2>2. CASE o >= origin
      <3>1. best = NoMatch /\ pos = Len(input)
        BY <1>1, <1>3, <1>4, <2>2
      <3>2. AcceptsNone(origin)
        BY <1>1, <3>1, NothingAhead DEF AcceptsNone
      <3>3. CASE o = origin
        BY <3>2, <3>3 DEF Skippable
      <3>4. CASE o # origin
        <4>1. o \in (origin + 1)..pos
          BY <1>3, <2>2, <3>1, <3>4
        <4>2. QED
          BY <3>1, <3>2, <4>1, AttemptHides DEF Skippable
      <3>5. QED
        BY <3>3, <3>4
    <2>3. QED
      BY <1>3, <2>1, <2>2
  <1>5. mode.search => MissesHidden'
    BY <1>1, <1>2, <1>4 DEF MissesHidden
  <1>6. QED
    BY <1>1, <1>2, <1>5 DEF Skips

LEMMA RetrySkips ==
  ASSUME Known, Skips, Retry
  PROVE  Skips'
  <1>1. /\ ~done /\ Recorded /\ pos < Len(input) /\ best = NoMatch /\ Over
        /\ UNCHANGED <<prog, input, mode, best, done>>
    BY DEF Retry, Over
  <1>2. PICK n : /\ n = IF pos = origin THEN pos + 1 ELSE pos
                 /\ origin' = n /\ threads' = Closure({0}, n)
    BY DEF Retry
  <1>3. /\ Len(input) \in Nat /\ origin \in Nat /\ pos \in Nat /\ Call
        /\ pos \in origin..Len(input)
    BY DEF Known, Call
  <1>4. \A o : Skippable(o)' = Skippable(o)
    BY <1>1, <1>3, SkippableFixed
  <1>5. AcceptsNone(origin)
    BY <1>1, NothingAhead DEF AcceptsNone
  <1>6. ASSUME NEW o \in 0..(n - 1)
        PROVE  Skippable(o)
    <2>1. CASE o < origin
      <3>1. o \in 0..(origin - 1)
        BY <1>3, <2>1
      <3>2. QED
        BY <3>1 DEF Skips
    <2>2. CASE o = origin
      BY <1>5, <2>2 DEF Skippable
    <2>3. CASE o > origin
      <3>1. o \in (origin + 1)..pos /\ o # pos
        BY <1>2, <1>3, <2>3
      <3>2. QED
        BY <1>5, <3>1, AttemptHides DEF Skippable
    <2>4. QED
      BY <1>2, <1>3, <2>1, <2>2, <2>3
  <1>7. threads' # {}
    <2>1. {0} \in SUBSET PCs
      BY <1>3, ProgramInside
    <2>2. QED
      BY <1>2, <2>1, ClosureHolds
  <1>8. QED
    BY <1>1, <1>2, <1>4, <1>6, <1>7 DEF Skips

LEMMA StepSkips == Known /\ Skips /\ [Next]_vars => Skips'
  <1> SUFFICES ASSUME Known, Skips, [Next]_vars PROVE Skips'
    OBVIOUS
  <1>1. CASE Accept
    <2>1. /\ UNCHANGED <<prog, input, mode, origin, threads>> /\ best' # NoMatch
      BY <1>1 DEF Accept, Known, Call, NoMatch
    <2>2. \A o : Skippable(o)' = Skippable(o)
      BY <2>1, SkippableFixed DEF Known
    <2>3. ASSUME NEW o \in 0..Len(input), o < origin PROVE Skippable(o)
      <3>1. o \in 0..(origin - 1)
        BY <2>3 DEF Known, Call
      <3>2. QED
        BY <3>1 DEF Skips
    <2>4. MissesHidden'
      BY <2>1, <2>2, <2>3 DEF MissesHidden
    <2>5. QED
      BY <2>1, <2>2, <2>4 DEF Skips
  <1>2. CASE Advance
    <2>1. /\ UNCHANGED <<prog, input, mode, origin, done>> /\ ~done
          /\ Delta(threads, pos) # {}
          /\ threads' = Closure(Delta(threads, pos), pos + 1)
      BY <1>2 DEF Advance
    <2>2. \A o : Skippable(o)' = Skippable(o)
      BY <2>1, SkippableFixed DEF Known
    <2>3. threads \in SUBSET PCs
      <3>1. origin \in Nat /\ pos \in origin..Len(input) /\ Call
        BY DEF Known, Call
      <3>2. QED
        BY <3>1, StandingUnfolds DEF Known
    <2>4. Delta(threads, pos) \in SUBSET PCs
      BY <2>3, DeltaType DEF Known
    <2>5. threads' # {}
      BY <2>1, <2>4, ClosureHolds
    <2>6. QED
      BY <2>1, <2>2, <2>5 DEF Skips
  <1>3. CASE Finish
    BY <1>3, FinishSkips
  <1>4. CASE Retry
    BY <1>4, RetrySkips
  <1>5. CASE UNCHANGED vars
    <2>1. UNCHANGED <<prog, input, mode, origin, threads, best, done>>
      BY <1>5 DEF vars
    <2>2. \A o : Skippable(o)' = Skippable(o)
      BY <2>1, SkippableFixed DEF Known
    <2>3. QED
      BY <2>1, <2>2 DEF Skips, MissesHidden
  <1>6. QED
    BY <1>1, <1>2, <1>3, <1>4, <1>5 DEF Next

(* A search that is over has passed a match only where an attempt that     *)
(* matches nothing ran over its start.                                     *)
THEOREM ScanMissesHidden == Call /\ Spec => [](done /\ mode.search => MissesHidden)
  <1>1. Init /\ Call => Skips
    BY InitSkips
  <1>2. Known /\ Skips /\ [Next]_vars => Skips'
    BY StepSkips
  <1>3. Skips => (done /\ mode.search => MissesHidden)
    BY DEF Skips
  <1>4. QED
    BY <1>1, <1>2, <1>3, ScanKnows, PTL DEF Spec
=============================================================================
