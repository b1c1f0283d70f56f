---------------------------- MODULE VmScanProofs ----------------------------
(***************************************************************************)
(* The virtual machine implements the scan by sets of instructions, for    *)
(* every set of well-formed programs and every set of inputs.  What it     *)
(* reports is then a match of the automaton of the program, the longest or *)
(* the shortest one from its start, and an attempt is abandoned only when  *)
(* no match starts there: the refinement brings these from the theorems    *)
(* about every such scan.                                                  *)
(***************************************************************************)
EXTENDS VmScan, VmProofs

Elems(list) == {list[i] : i \in 1..Len(list)}

-----------------------------------------------------------------------------
(* The automaton of NfaScan is the one of Nfa. *)
LEMMA SameAutomaton ==
  /\ Scan!MatchAddrs = N!MatchAddrs
  /\ \A S, k : Scan!Closure(S, k) = N!Closure(S, k)
  /\ \A S, k : Scan!Delta(S, k) = N!Delta(S, k)
  <1>1. Scan!PCs = N!PCs /\ Scan!MatchAddrs = N!MatchAddrs
    BY DEF Scan!MatchAddrs, N!MatchAddrs, Scan!PCs, N!PCs
  <1>2. \A k : Scan!CharAt(k) = N!CharAt(k)
    BY DEF Scan!CharAt, N!CharAt, Scan!EndChar, N!EndChar
  <1>3. \A k : Scan!AtSol(k) = N!AtSol(k) /\ Scan!AtEol(k) = N!AtEol(k)
    BY <1>2 DEF Scan!AtSol, N!AtSol, Scan!AtEol, N!AtEol, Scan!NL, N!NL,
                Scan!EndChar, N!EndChar
  <1>4. \A p, k : Scan!Moves(p, k) = N!Moves(p, k)
    BY <1>3 DEF Scan!Moves, N!Moves
  <1>5. \A S, k : Scan!ClosedAt(S, k) = N!ClosedAt(S, k)
    BY <1>4 DEF Scan!ClosedAt, N!ClosedAt
  <1>6. \A S, k : Scan!Closure(S, k) = N!Closure(S, k)
    BY <1>1, <1>5
    DEF Scan!Closure, N!Closure, Scan!ClosureAt, N!ClosureAt
  <1>7. \A p, c : Scan!Takes(p, c) = N!Takes(p, c)
    BY DEF Scan!Takes, N!Takes, Scan!char_match, N!char_match,
           Scan!ccs_match, N!ccs_match, Scan!tolower, N!tolower,
           Scan!udiff, N!udiff, Scan!NL, N!NL
  <1>8. \A S, k : Scan!Delta(S, k) = N!Delta(S, k)
    BY <1>2, <1>7 DEF Scan!Delta, N!Delta
  <1>9. QED
    BY <1>1, <1>6, <1>8

(* Closure adds only what every closed set around S holds ... *)
LEMMA ClosureLeast ==
  ASSUME NEW S \in SUBSET PCs, NEW k,
         NEW T \in SUBSET PCs, S \subseteq T, N!ClosedAt(T, k)
  PROVE  N!Closure(S, k) \subseteq T
  BY DEF N!Closure, N!ClosureAt, N!PCs, PCs

(* ... and loses nothing of S. *)
LEMMA ClosureAdds ==
  ASSUME NEW S \in SUBSET PCs, NEW k
  PROVE  S \subseteq N!Closure(S, k)
  BY DEF N!Closure, N!ClosureAt, N!PCs, PCs

LEMMA ClosureOfClosed ==
  ASSUME NEW S \in SUBSET PCs, NEW k, N!ClosedAt(S, k)
  PROVE  N!Closure(S, k) = S
  BY ClosureLeast, ClosureAdds

(* Running a thread adds nothing that its closure did not already hold. *)
LEMMA ClosureOfMove ==
  ASSUME NEW S \in SUBSET PCs, NEW k, NEW p \in S,
         NEW Q \in SUBSET PCs, Q \subseteq N!Moves(p, k)
  PROVE  N!Closure(S \cup Q, k) = N!Closure(S, k)
  <1>1. \A T \in SUBSET PCs :
          N!ClosedAt(T, k) => (S \subseteq T <=> S \cup Q \subseteq T)
    BY DEF N!ClosedAt
  <1>2. {T \in SUBSET PCs : S \cup Q \subseteq T /\ N!ClosedAt(T, k)}
          = {T \in SUBSET PCs : S \subseteq T /\ N!ClosedAt(T, k)}
    BY <1>1
  <1>3. S \cup Q \in SUBSET PCs /\ N!PCs = PCs
    BY DEF N!PCs, PCs
  <1>4. QED
    BY <1>2, <1>3 DEF N!Closure, N!ClosureAt

-----------------------------------------------------------------------------
(* The simulation invariant.  While a list is run, the threads already run *)
(* have made their moves, the list for the next character is what the      *)
(* automaton reaches from them, and a match among them is recorded.        *)
Ran == {cp[i] : i \in 1..t}

Sim ==
  /\ pc = "read" => np = <<>>
  /\ pc = "run" =>
       /\ \A i \in 1..t : N!Moves(cp[i], chars - 1) \subseteq Elems(cp)
       /\ Elems(np) = N!Delta(Ran, chars - 1)
       /\ \A i \in 1..t : prog[cp[i]].op = "match" => matchEnd = chars

(* The call's arguments fix the automaton. *)
LEMMA AutomatonFixed ==
  ASSUME UNCHANGED callVars
  PROVE  /\ \A p, k : N!Moves(p, k)' = N!Moves(p, k)
         /\ \A p, c : N!Takes(p, c)' = N!Takes(p, c)
         /\ \A k : N!CharAt(k)' = N!CharAt(k)
  BY DEF callVars, N!Moves, N!AtSol, N!AtEol, N!CharAt, N!Takes

LEMMA ClosureFixed ==
  ASSUME UNCHANGED callVars
  PROVE  /\ PCs' = PCs
         /\ \A S, k : N!Closure(S, k)' = N!Closure(S, k)
         /\ \A S, k : N!Delta(S, k)' = N!Delta(S, k)
  <1>1. PCs' = PCs /\ N!PCs' = N!PCs
    BY DEF callVars, PCs, N!PCs
  <1>2. \A S, k : N!ClosedAt(S, k)' = N!ClosedAt(S, k)
    BY AutomatonFixed DEF N!ClosedAt
  <1>3. QED
    BY <1>1, <1>2, AutomatonFixed DEF N!Closure, N!ClosureAt, N!Delta

LEMMA ModeType ==
  ASSUME Inv
  PROVE  /\ mode.search \in BOOLEAN /\ mode.icase \in BOOLEAN
         /\ mode.nongreedy \in BOOLEAN /\ mode.multiline \in BOOLEAN
  <1>1. mode \in MatchModes \/ mode \in SearchModes
    BY DEF Inv, TypeOK, Modes
  <1>2. CASE mode \in MatchModes
    BY <1>2 DEF MatchModes
  <1>3. CASE mode \in SearchModes
    BY <1>3 DEF SearchModes
  <1>4. QED
    BY <1>1, <1>2, <1>3

LEMMA ThreadsNext ==
  ASSUME UNCHANGED callVars
  PROVE  Threads' = N!Closure(Elems(cp'), Pos')
  BY ClosureFixed DEF Threads, Elems

(* While a list is run, the machine looks where the automaton looks. *)
LEMMA SameView ==
  ASSUME Inv, pc = "run"
  PROVE  /\ N!CharAt(chars - 1) = C
         /\ N!AtSol(chars - 1) = is_sol
         /\ N!AtEol(chars - 1) = is_eol
  <1>1. /\ Len(input) \in Nat /\ chars \in 1..(Len(input) + 1)
        /\ mode.multiline \in BOOLEAN
    BY InputsAssumption, ModeType DEF Inv, TypeOK, Between
  <1>2. N!CharAt(chars - 1) = C
    BY <1>1 DEF Inv, PeeksRight, N!CharAt, N!EndChar, EndChar
  <1>3. N!AtSol(chars - 1) = is_sol
    BY <1>1 DEF Inv, PeeksRight, N!AtSol, is_sol, N!NL, NL
  <1>4. N!AtEol(chars - 1) = is_eol
    BY <1>2 DEF N!AtEol, is_eol, N!NL, NL, N!EndChar, EndChar
  <1>5. QED
    BY <1>2, <1>3, <1>4

(* One thread has run: the obligations of a case of the switch. *)
LEMMA ThreadRan ==
  ASSUME Inv, Sim, pc = "run", t < Len(cp), t' = t + 1,
         UNCHANGED <<callVars, textVars, pc>>,
         Elems(cp) \subseteq Elems(cp'),
         \A i \in 1..Len(cp) : cp'[i] = cp[i],
         N!Moves(ii, chars - 1) \subseteq Elems(cp'),
         Elems(np') = Elems(np)
                        \cup (IF N!Takes(ii, C) THEN {ii + 1} ELSE {}),
         matchEnd' \in {matchEnd, chars},
         inst.op = "match" => matchEnd' = chars
  PROVE  Sim'
  <1>1. t \in Nat /\ Len(cp) \in Nat /\ chars' = chars
    BY DEF Inv, TypeOK, textVars
  <1>2. \A i \in 1..(t + 1) : i \in 1..t \/ i = t + 1
    BY <1>1
  <1>3. \A i \in 1..(t + 1) : cp'[i] = cp[i]
    BY <1>1
  <1>4. \A i \in 1..t' : N!Moves(cp[i], chars - 1) \subseteq Elems(cp')
    BY <1>1, <1>2 DEF Sim, ii
  <1>5. Ran' = Ran \cup {ii}
    BY <1>1, <1>2, <1>3 DEF Ran, ii
  <1>6. N!Delta(Ran \cup {ii}, chars - 1)
          = N!Delta(Ran, chars - 1)
              \cup (IF N!Takes(ii, C) THEN {ii + 1} ELSE {})
    BY SameView DEF N!Delta
  <1>7. Elems(np') = N!Delta(Ran', chars - 1)
    BY <1>5, <1>6 DEF Sim
  <1>8. \A i \in 1..t' : prog[cp[i]].op = "match" => matchEnd' = chars
    BY <1>1, <1>2 DEF Sim, ii, inst
  <1>9. pc' = "run" /\ prog' = prog
    BY DEF callVars
  <1>10. QED
    BY <1>1, <1>3, <1>4, <1>7, <1>8, <1>9, AutomatonFixed, ClosureFixed
    DEF Sim, Elems

(* The switch and the automaton agree on the instruction about to run. *)
LEMMA SameMoves ==
  ASSUME Inv, pc = "run", t < Len(cp)
  PROVE  /\ inst.op \in OpConsume \cup {"match"} => N!Moves(ii, chars - 1) = {}
         /\ inst.op = "branch" => N!Moves(ii, chars - 1) = {inst.x, inst.y}
         /\ inst.op = "jmp" => N!Moves(ii, chars - 1) = {inst.x}
         /\ inst.op = "sol" =>
              N!Moves(ii, chars - 1) = IF is_sol THEN {ii + 1} ELSE {}
         /\ inst.op = "eol" =>
              N!Moves(ii, chars - 1) = IF is_eol THEN {ii + 1} ELSE {}
  BY SameView DEF N!Moves, inst, OpConsume

LEMMA SameTakes ==
  ASSUME Inv, pc = "run", t < Len(cp)
  PROVE  /\ inst.op \notin OpConsume => N!Takes(ii, C) = FALSE
         /\ inst.op = "char" =>
              N!Takes(ii, C) = char_match(mode.icase, C, inst.c)
         /\ inst.op = "any" => N!Takes(ii, C) = (C # NL)
         /\ inst.op = "class" =>
              N!Takes(ii, C) = ccs_match(mode.icase, inst.ccs, C)
         /\ inst.op = "nclass" =>
              N!Takes(ii, C) = ~ccs_match(mode.icase, inst.ccs, C)
  <1>1. \A i, p, q : N!char_match(i, p, q) = char_match(i, p, q)
    BY DEF N!char_match, char_match, N!tolower, tolower, N!udiff, udiff
  <1>2. \A i, s, q : N!ccs_match(i, s, q) = ccs_match(i, s, q)
    BY <1>1 DEF N!ccs_match, ccs_match
  <1>3. QED
    BY <1>1, <1>2 DEF N!Takes, inst, OpConsume, N!NL, NL

(* What the scan sees of the machine does not change while a list grows    *)
(* by moves of its own threads.                                            *)
LEMMA ThreadsKept ==
  ASSUME Inv, Inv', pc = "run", t < Len(cp),
         UNCHANGED <<callVars, textVars, pc>>,
         NEW Q \in SUBSET PCs, Q \subseteq N!Moves(ii, chars - 1),
         Elems(cp') = Elems(cp) \cup Q
  PROVE  Pos' = Pos /\ Threads' = Threads
  <1>1. Pos = chars - 1 /\ Pos' = Pos
    BY DEF Pos, textVars
  <1>2. ii \in Elems(cp) /\ Elems(cp) \in SUBSET PCs
    <2>1. t + 1 \in 1..Len(cp)
      BY RunningThread
    <2>2. cp \in Seq(PCs)
      BY DEF Inv, TypeOK
    <2>3. QED
      BY <2>1, <2>2 DEF Elems, ii
  <1>3. N!Closure(Elems(cp'), Pos) = N!Closure(Elems(cp), Pos)
    <2>1. N!Closure(Elems(cp) \cup Q, chars - 1) = N!Closure(Elems(cp),
    chars - 1)
      BY <1>2, ClosureOfMove
    <2>2. QED
      BY <1>1, <2>1
  <1>4. Threads' = N!Closure(Elems(cp'), Pos)
    BY <1>1, ClosureFixed DEF Threads, Elems
  <1>5. Threads = N!Closure(Elems(cp), Pos)
    BY DEF Threads, Elems
  <1>6. QED
    BY <1>1, <1>3, <1>4, <1>5

LEMMA TablesAreLists ==
  ASSUME Inv
  PROVE  Elems(cp) = cpLookup /\ Elems(np) = npLookup
  BY DEF Inv, ThreadLists, Lists, Elems

(* add_thread moves no thread of the list it adds to. *)
LEMMA AddThreadKeeps ==
  ASSUME NEW S, NEW list \in Seq(S), NEW lookup, NEW val \in S
  PROVE  /\ Listed(list, lookup, val) \in Seq(S)
         /\ Len(list) <= Len(Listed(list, lookup, val))
         /\ \A i \in 1..Len(list) : Listed(list, lookup, val)[i] = list[i]
  <1>1. CASE val \in lookup
    BY <1>1 DEF Listed
  <1>2. CASE val \notin lookup
    BY <1>2 DEF Listed
  <1>3. QED
    BY <1>1, <1>2

(* No case of the switch but MATCH is visible to the scan. *)
Hidden == UNCHANGED <<prog, input, mode, matchStart, Pos, Threads, matchEnd, pc>>

LEMMA ConsumeSim ==
  ASSUME Inv, Inv', Sim, NEW op \in OpConsume, NEW fits \in BOOLEAN,
         Consume(op, fits), pc = "run" /\ t < Len(cp) => N!Takes(ii, C) = fits
  PROVE  Sim' /\ Hidden
  <1>1. /\ pc = "run" /\ t < Len(cp) /\ inst.op = op /\ t' = t + 1
        /\ UNCHANGED <<callVars, textVars, matchVars, currVars, pc>>
    BY DEF Consume, Running
  <1>2. N!Moves(ii, chars - 1) = {} /\ inst.op # "match"
    BY <1>1, SameMoves DEF OpConsume
  <1>3. Elems(cp') = Elems(cp) \cup {} /\ cp' = cp
    BY <1>1 DEF Elems, currVars
  <1>4. npLookup' = npLookup \cup (IF fits THEN {ii + 1} ELSE {})
    BY DEF Consume, add_thread_next, nextVars
  <1>5. Elems(np') = Elems(np) \cup (IF fits THEN {ii + 1} ELSE {})
    <2>1. Elems(np) = npLookup
      BY TablesAreLists
    <2>2. Elems(np') = npLookup'
      BY DEF Inv, ThreadLists, Lists, Elems
    <2>3. QED
      BY <1>4, <2>1, <2>2
  <1>6. Sim'
    BY <1>1, <1>2, <1>3, <1>5, ThreadRan DEF matchVars
  <1>7. Pos' = Pos /\ Threads' = Threads
    BY <1>1, <1>2, <1>3, ThreadsKept
  <1>8. QED
    BY <1>1, <1>6, <1>7 DEF Hidden, callVars, matchVars

LEMMA CurrentSim ==
  ASSUME Inv, Inv', Sim, pc = "run", t < Len(cp), t' = t + 1,
         inst.op \notin OpConsume \cup {"match"},
         UNCHANGED <<callVars, textVars, matchVars, nextVars, pc>>,
         cpLookup' = cpLookup \cup N!Moves(ii, chars - 1),
         N!Moves(ii, chars - 1) \subseteq PCs,
         \A i \in 1..Len(cp) : cp'[i] = cp[i]
  PROVE  Sim' /\ Hidden
  <1>1. Elems(cp') = Elems(cp) \cup N!Moves(ii, chars - 1)
    <2>1. Elems(cp) = cpLookup
      BY TablesAreLists
    <2>2. Elems(cp') = cpLookup'
      BY DEF Inv, ThreadLists, Lists, Elems
    <2>3. QED
      BY <2>1, <2>2
  <1>2. N!Takes(ii, C) = FALSE
    BY SameTakes
  <1>3. Elems(np') = Elems(np) \cup {}
    BY DEF Elems, nextVars
  <1>4. Sim'
    BY <1>1, <1>2, <1>3, ThreadRan DEF matchVars
  <1>5. Pos' = Pos /\ Threads' = Threads
    BY <1>1, ThreadsKept
  <1>6. QED
    BY <1>4, <1>5 DEF Hidden, callVars, matchVars

LEMMA AnchorSim ==
  ASSUME Inv, Inv', Sim, NEW op \in OpAnchor, NEW holds \in BOOLEAN,
         Anchor(op, holds),
         N!Moves(ii, chars - 1) = IF holds THEN {ii + 1} ELSE {}
  PROVE  Sim' /\ Hidden
  <1>1. /\ pc = "run" /\ t < Len(cp) /\ inst.op = op /\ t' = t + 1
        /\ UNCHANGED <<callVars, textVars, matchVars, nextVars, pc>>
    BY DEF Anchor, Running
  <1>2. ii + 1 \in PCs
    BY <1>1, RunningThread
  <1>3. cpLookup' = cpLookup \cup N!Moves(ii, chars - 1)
    BY DEF Anchor, add_thread_curr, currVars
  <1>4. \A i \in 1..Len(cp) : cp'[i] = cp[i]
    <2>1. CASE UNCHANGED currVars
      BY <2>1 DEF currVars
    <2>2. CASE add_thread_curr(ii + 1)
      <3>1. cp \in Seq(PCs)
        BY DEF Inv, TypeOK
      <3>2. cp' = Listed(cp, cpLookup, ii + 1)
        BY <2>2 DEF add_thread_curr
      <3>3. QED
        BY <1>2, <3>1, <3>2, AddThreadKeeps
    <2>3. QED
      BY <2>1, <2>2 DEF Anchor
  <1>5. inst.op \notin OpConsume \cup {"match"}
    BY <1>1 DEF OpConsume, OpAnchor
  <1>6. QED
    BY <1>1, <1>2, <1>3, <1>4, <1>5, CurrentSim

LEMMA JmpSim ==
  ASSUME Inv, Inv', Sim, RunJmp
  PROVE  Sim' /\ Hidden
  <1>1. /\ pc = "run" /\ t < Len(cp) /\ inst.op = "jmp" /\ t' = t + 1
        /\ add_thread_curr(inst.x)
        /\ UNCHANGED <<callVars, textVars, matchVars, nextVars, pc>>
    BY DEF RunJmp, Running
  <1>2. inst.x \in PCs /\ N!Moves(ii, chars - 1) = {inst.x}
    BY <1>1, RunningThread, SameMoves
  <1>3. cpLookup' = cpLookup \cup N!Moves(ii, chars - 1)
    BY <1>1, <1>2 DEF add_thread_curr
  <1>4. \A i \in 1..Len(cp) : cp'[i] = cp[i]
    <2>1. cp \in Seq(PCs)
      BY DEF Inv, TypeOK
    <2>2. cp' = Listed(cp, cpLookup, inst.x)
      BY <1>1 DEF add_thread_curr
    <2>3. QED
      BY <1>2, <2>1, <2>2, AddThreadKeeps
  <1>5. inst.op \notin OpConsume \cup {"match"}
    BY <1>1 DEF OpConsume
  <1>6. QED
    BY <1>1, <1>2, <1>3, <1>4, <1>5, CurrentSim

LEMMA BranchSim ==
  ASSUME Inv, Inv', Sim, RunBranch
  PROVE  Sim' /\ Hidden
  <1> DEFINE one == Listed(cp, cpLookup, inst.x)
             oneLookup == cpLookup \cup {inst.x}
  <1>1. /\ pc = "run" /\ t < Len(cp) /\ inst.op = "branch" /\ t' = t + 1
        /\ cp' = Listed(one, oneLookup, inst.y)
        /\ cpLookup' = cpLookup \cup {inst.x, inst.y}
        /\ UNCHANGED <<callVars, textVars, matchVars, nextVars, pc>>
    BY DEF RunBranch, Running
  <1>2. /\ inst.x \in PCs /\ inst.y \in PCs
        /\ N!Moves(ii, chars - 1) = {inst.x, inst.y}
    BY <1>1, RunningThread, SameMoves
  <1>3. \A i \in 1..Len(cp) : cp'[i] = cp[i]
    <2>1. cp \in Seq(PCs)
      BY DEF Inv, TypeOK
    <2>2. /\ one \in Seq(PCs) /\ Len(cp) <= Len(one)
          /\ \A i \in 1..Len(cp) : one[i] = cp[i]
      BY <1>2, <2>1, AddThreadKeeps
    <2> HIDE DEF one, oneLookup
    <2>3. \A i \in 1..Len(one) : cp'[i] = one[i]
      BY <1>1, <1>2, <2>2, AddThreadKeeps
    <2>4. Len(cp) \in Nat /\ Len(one) \in Nat
      BY <2>1, <2>2
    <2>5. QED
      BY <2>2, <2>3, <2>4
  <1>4. inst.op \notin OpConsume \cup {"match"}
    BY <1>1 DEF OpConsume
  <1>5. QED
    BY <1>1, <1>2, <1>3, <1>4, CurrentSim

-----------------------------------------------------------------------------
(* The steps of the scan *)

(* MATCH records a position the automaton can match at. *)
LEMMA MatchAccepts ==
  ASSUME Inv, Inv', Sim, RunMatch
  PROVE  Sim' /\ Scan!Accept
  <1>1. /\ pc = "run" /\ t < Len(cp) /\ inst.op = "match" /\ matchEnd' = chars
        /\ UNCHANGED <<callVars, textVars, matchStart, currVars, nextVars>>
        /\ \/ mode.nongreedy /\ pc' = "done"
           \/ ~mode.nongreedy /\ pc' = "run" /\ t' = t + 1
    BY DEF RunMatch, Running
  <1>2. N!Moves(ii, chars - 1) = {} /\ N!Takes(ii, C) = FALSE
    BY <1>1, SameMoves, SameTakes DEF OpConsume
  <1>3. cp' = cp /\ np' = np
    BY <1>1 DEF currVars, nextVars
  <1>4. Sim'
    <2>1. CASE pc' = "done"
      BY <2>1 DEF Sim
    <2>2. CASE pc' = "run" /\ t' = t + 1
      BY <1>1, <1>2, <1>3, <2>2, ThreadRan DEF Elems
    <2>3. QED
      BY <1>1, <2>1, <2>2
  <1>5. ii \in PCs /\ t + 1 \in 1..Len(cp) /\ Elems(cp) \in SUBSET PCs
    BY <1>1, RunningThread DEF Inv, TypeOK, Elems
  <1>6. ii \in Threads \cap Scan!MatchAddrs
    <2>1. ii \in Elems(cp)
      BY <1>5 DEF ii, Elems
    <2>2. ii \in Threads
      BY <1>5, <2>1, ClosureAdds DEF Threads, Elems
    <2>3. ii \in Scan!MatchAddrs
      BY <1>1, <1>5 DEF Scan!MatchAddrs, Scan!PCs, PCs, inst
    <2>4. QED
      BY <2>2, <2>3
  <1>7. Pos = chars - 1 /\ Pos' = Pos
    BY <1>1 DEF Pos, textVars
  <1>8. Threads' = Threads
    BY <1>1, <1>3, <1>7, ClosureFixed DEF Threads
  <1>9. (pc' = "done") = mode.nongreedy
    BY <1>1, ModeType
  <1>10. QED
    BY <1>1, <1>4, <1>6, <1>7, <1>8, <1>9
    DEF Scan!Accept, Scan!CanMatch, callVars, Scan!MatchAddrs

LEMMA ReadCharSim ==
  ASSUME Inv, Inv', Sim, ReadChar
  PROVE  Sim' /\ UNCHANGED Scan!vars
  <1>1. /\ pc = "read" /\ pc' = "run" /\ chars' = chars + 1 /\ t' = 0
        /\ UNCHANGED <<callVars, matchVars, currVars, nextVars>>
    BY DEF ReadChar, ReadAs
  <1>2. chars \in Nat /\ np = <<>> /\ np' = <<>>
    BY <1>1 DEF Inv, TypeOK, Sim, nextVars
  <1>3. 1..t' = {} /\ Ran' = {} /\ Elems(np') = {}
    BY <1>1, <1>2 DEF Ran, Elems
  <1>4. N!Delta({}, chars)' = {}
    BY DEF N!Delta
  <1>5. Sim'
    BY <1>1, <1>2, <1>3, <1>4 DEF Sim, N!Delta
  <1>6. Pos' = Pos
    BY <1>1, <1>2 DEF Pos
  <1>7. Threads' = Threads
    BY <1>1, <1>6, ClosureFixed DEF Threads, currVars
  <1>8. QED
    BY <1>1, <1>5, <1>6, <1>7 DEF Scan!vars, callVars, matchVars

(* When every thread has run, the list is the closed set it stands for and *)
(* the list for the next character what the automaton reaches from it.     *)
LEMMA AllRan ==
  ASSUME Inv, Sim, RanAll
  PROVE  /\ Pos = chars - 1
         /\ Elems(cp) \in SUBSET PCs
         /\ Threads = Elems(cp)
         /\ Elems(np) = N!Delta(Threads, Pos)
         /\ Scan!Recorded
  <1>1. pc = "run" /\ t = Len(cp) /\ cp \in Seq(PCs)
    BY DEF RanAll, Inv, TypeOK
  <1>2. Pos = chars - 1 /\ Elems(cp) \in SUBSET PCs /\ Ran = Elems(cp)
    BY <1>1 DEF Pos, Elems, Ran
  <1>3. N!ClosedAt(Elems(cp), chars - 1)
    BY <1>1 DEF Sim, N!ClosedAt, Elems
  <1>4. Threads = Elems(cp)
    BY <1>2, <1>3, ClosureOfClosed DEF Threads, Elems
  <1>5. Elems(np) = N!Delta(Threads, Pos)
    BY <1>1, <1>2, <1>4 DEF Sim
  <1>6. Scan!Recorded
    <2>1. SUFFICES ASSUME Threads \cap Scan!MatchAddrs # {}
                   PROVE  matchEnd - 1 = Pos
      BY DEF Scan!Recorded, Scan!CanMatch
    <2>2. PICK i \in 1..Len(cp) : prog[cp[i]].op = "match"
      BY <1>4, <2>1 DEF Elems, Scan!MatchAddrs
    <2>3. matchEnd = chars
      BY <1>1, <2>2 DEF Sim
    <2>4. QED
      BY <1>2, <2>3
  <1>7. QED
    BY <1>2, <1>4, <1>5, <1>6

LEMMA EndFinishes ==
  ASSUME Inv, Sim, EndOfInput \/ GiveUp
  PROVE  Sim' /\ Scan!Finish
  <1>1. /\ RanAll /\ pc = "run" /\ pc' = "done"
        /\ UNCHANGED <<callVars, textVars, matchVars, currVars, nextVars, t>>
    BY DEF EndOfInput, GiveUp, Dead, RanAll
  <1>2. Sim'
    BY <1>1 DEF Sim
  <1>3. Pos = chars - 1 /\ Pos' = Pos
    BY <1>1 DEF Pos, textVars
  <1>4. Threads' = Threads
    BY <1>1, <1>3, ClosureFixed DEF Threads, currVars
  <1>5. \/ Pos = Len(input)
        \/ /\ Scan!Delta(Threads, Pos) = {}
           /\ ~mode.search \/ matchEnd - 1 # Scan!NoMatch
    <2>1. CASE EndOfInput
      <3>1. /\ Len(input) \in Nat /\ chars \in 1..(Len(input) + 1)
            /\ input \in Seq(Char) /\ C = EndChar
        BY <1>1, <2>1, InputsAssumption DEF Inv, TypeOK, Between, EndOfInput
      <3>2. chars \in 1..Len(input) => C \in Char
        BY <3>1 DEF Inv, PeeksRight
      <3>3. QED
        BY <1>3, <3>1, <3>2 DEF Char
    <2>2. CASE GiveUp
      <3>1. np = <<>> /\ (~mode.search \/ matchEnd # 0) /\ matchEnd \in Nat
        BY <2>2 DEF GiveUp, Dead, Inv, TypeOK
      <3>2. Elems(np) = {}
        BY <3>1 DEF Elems
      <3>3. QED
        BY <1>1, <3>1, <3>2, AllRan, SameAutomaton DEF Scan!NoMatch
    <2>3. QED
      BY <2>1, <2>2
  <1>6. QED
    BY <1>1, <1>2, <1>3, <1>4, <1>5, AllRan
    DEF Scan!Finish, callVars, matchVars

LEMMA RestartRetries ==
  ASSUME Inv, Inv', Sim, Restart
  PROVE  Sim' /\ Scan!Retry
  <1>1. /\ RanAll /\ pc = "run" /\ C # EndChar /\ np = <<>> /\ matchEnd = 0
        /\ mode.search /\ cp' = <<0>>
        /\ UNCHANGED <<callVars, textVars, matchEnd, nextVars>>
        /\ \/ /\ chars - 1 # matchStart /\ matchStart' = chars - 1
              /\ t' = 0 /\ pc' = "run"
           \/ /\ chars - 1 = matchStart /\ matchStart' = chars /\ pc' = "read"
    BY DEF Restart, Dead, RanAll
  <1>2. /\ chars \in 1..Len(input) /\ Len(input) \in Nat /\ chars' = chars
        /\ matchStart \in Nat /\ matchStart < chars
    BY <1>1, InsideInput DEF Inv, TypeOK, Between, textVars
  <1>3. np' = <<>> /\ Elems(np) = {} /\ Elems(np') = {}
    BY <1>1 DEF Elems, nextVars
  <1>4. Sim'
    <2>1. CASE pc' = "read"
      BY <1>3, <2>1 DEF Sim
    <2>2. CASE pc' = "run" /\ t' = 0
      <3>1. 1..t' = {} /\ Ran' = {}
        BY <2>2 DEF Ran
      <3>2. QED
        BY <1>3, <2>2, <3>1 DEF Sim, N!Delta
    <2>3. QED
      BY <1>1, <2>1, <2>2
  <1>5. Pos = chars - 1 /\ Pos' = matchStart'
    BY <1>1, <1>2 DEF Pos
  <1>6. matchStart' = IF Pos = matchStart THEN Pos + 1 ELSE Pos
    BY <1>1, <1>2, <1>5
  <1>7. Elems(cp') = {0}
    BY <1>1 DEF Elems
  <1>8. Threads' = Scan!Closure({0}, matchStart')
    <2>1. Threads' = N!Closure(Elems(cp'), Pos')
      BY <1>1, ThreadsNext
    <2>2. Threads' = N!Closure({0}, matchStart')
      BY <1>5, <1>7, <2>1
    <2>3. QED
      BY <2>2, SameAutomaton
  <1>9. Scan!Delta(Threads, Pos) = {} /\ Scan!Recorded
    BY <1>1, <1>3, AllRan, SameAutomaton
  <1>10. QED
    BY <1>1, <1>2, <1>4, <1>5, <1>6, <1>8, <1>9
    DEF Scan!Retry, Scan!NoMatch, callVars

LEMMA SwapAdvances ==
  ASSUME Inv, Inv', Sim, Swap
  PROVE  Sim' /\ Scan!Advance
  <1>1. /\ RanAll /\ pc = "run" /\ pc' = "read" /\ C # EndChar /\ np # <<>>
        /\ cp' = np /\ np' = <<>>
        /\ UNCHANGED <<callVars, textVars, matchVars>>
    BY DEF Swap, RanAll
  <1>2. chars \in 1..Len(input) /\ Len(input) \in Nat /\ chars' = chars
    BY <1>1, InsideInput DEF textVars
  <1>3. Sim'
    BY <1>1 DEF Sim
  <1>4. Pos = chars - 1 /\ Pos' = Pos + 1 /\ Pos < Len(input)
    BY <1>1, <1>2 DEF Pos
  <1>5. Elems(np) # {}
    <2>1. np \in Seq(PCs)
      BY DEF Inv, TypeOK
    <2>2. 1 \in 1..Len(np)
      BY <1>1, <2>1
    <2>3. QED
      BY <2>2 DEF Elems
  <1>6. Scan!Delta(Threads, Pos) = Elems(np)
    BY <1>1, AllRan, SameAutomaton
  <1>7. Threads' = Scan!Closure(Scan!Delta(Threads, Pos), Pos + 1)
    <2>1. Threads' = N!Closure(Elems(cp'), Pos')
      BY <1>1, ThreadsNext
    <2>2. Threads' = N!Closure(Elems(np), Pos + 1)
      BY <1>1, <1>4, <2>1
    <2>3. QED
      BY <1>6, <2>2, SameAutomaton
  <1>8. QED
    BY <1>1, <1>3, <1>4, <1>5, <1>6, <1>7, AllRan
    DEF Scan!Advance, callVars, matchVars

-----------------------------------------------------------------------------
LEMMA InitScan == Init => Sim /\ Scan!Init
  <1> SUFFICES ASSUME Init PROVE Sim /\ Scan!Init
    OBVIOUS
  <1>1. pc = "read" /\ np = <<>> /\ chars = 0 /\ matchEnd = 0 /\ cp = <<0>>
        /\ matchStart = 0
    BY DEF Init
  <1>2. Pos = 0 /\ {cp[i] : i \in 1..Len(cp)} = {0}
    BY <1>1 DEF Pos
  <1>3. Threads = Scan!Closure({0}, 0)
    BY <1>2, SameAutomaton DEF Threads
  <1>4. QED
    BY <1>1, <1>2, <1>3 DEF Sim, Scan!Init, Scan!NoMatch

LEMMA StepScan ==
  Inv /\ Inv' /\ Sim /\ [Next]_vars => Sim' /\ [Scan!Next]_Scan!vars
  <1> SUFFICES ASSUME Inv, Inv', Sim, [Next]_vars
               PROVE  Sim' /\ [Scan!Next]_Scan!vars
    OBVIOUS
  <1>1. Hidden => UNCHANGED Scan!vars
    BY DEF Hidden, Scan!vars
  <1>2. ASSUME RunChar \/ RunAny \/ RunClass \/ RunNclass
        PROVE  Sim' /\ Hidden
    <2>1. CASE RunChar
      BY <2>1, ConsumeSim, SameTakes
      DEF RunChar, char_match, Consume, Running, OpConsume
    <2>2. CASE RunAny
      BY <2>2, ConsumeSim, SameTakes DEF RunAny, Consume, Running, OpConsume
    <2>3. CASE RunClass
      BY <2>3, ConsumeSim, SameTakes
      DEF RunClass, ccs_match, Consume, Running, OpConsume
    <2>4. CASE RunNclass
      BY <2>4, ConsumeSim, SameTakes
      DEF RunNclass, ccs_match, Consume, Running, OpConsume
    <2>5. QED
      BY <1>2, <2>1, <2>2, <2>3, <2>4
  <1>3. ASSUME RunSol \/ RunEol
        PROVE  Sim' /\ Hidden
    <2>1. is_sol \in BOOLEAN /\ is_eol \in BOOLEAN
      BY DEF is_sol, is_eol
    <2>2. CASE RunSol
      BY <2>1, <2>2, AnchorSim, SameMoves
      DEF RunSol, Anchor, Running, OpAnchor
    <2>3. CASE RunEol
      BY <2>1, <2>3, AnchorSim, SameMoves
      DEF RunEol, Anchor, Running, OpAnchor
    <2>4. QED
      BY <1>3, <2>2, <2>3
  <1>4. ASSUME UNCHANGED vars
        PROVE  Sim' /\ UNCHANGED Scan!vars
    <2>1. UNCHANGED <<callVars, textVars, matchVars, cp, np, t, pc>>
      BY <1>4 DEF vars, currVars, nextVars
    <2>2. Ran' = Ran /\ Elems(cp') = Elems(cp) /\ Elems(np') = Elems(np)
      BY <2>1 DEF Ran, Elems
    <2>3. Sim'
      <3>1. /\ cp' = cp /\ np' = np /\ t' = t /\ pc' = pc /\ prog' = prog
            /\ chars' = chars /\ matchEnd' = matchEnd
        BY <2>1 DEF callVars, textVars, matchVars
      <3>2. /\ \A p, k : N!Moves(p, k)' = N!Moves(p, k)
            /\ \A S, k : N!Delta(S, k)' = N!Delta(S, k)
        BY <2>1, AutomatonFixed, ClosureFixed
      <3>3. QED
        BY <2>2, <3>1, <3>2 DEF Sim
    <2>4. Pos' = Pos
      BY <2>1 DEF Pos, textVars
    <2>5. Threads' = Threads
      BY <2>1, <2>4, ClosureFixed DEF Threads
    <2>6. QED
      BY <2>1, <2>3, <2>4, <2>5 DEF Scan!vars, callVars, matchVars
  <1>5. QED
    BY <1>1, <1>2, <1>3, <1>4, JmpSim, BranchSim, MatchAccepts, ReadCharSim,
       EndFinishes, RestartRetries, SwapAdvances
    DEF Next, Execute, Returned, Scan!Next

(* The thread lists, lookup tables, swaps and restarts of vm_execute       *)
(* implement the scan by sets of instructions, whatever the programs, the  *)
(* inputs and the flags.                                                   *)
THEOREM VmImplementsScan == Spec => ImplementsScan
  <1>1. Init => Sim /\ Scan!Init
    BY InitScan
  <1>2. Inv /\ Inv' /\ Sim /\ [Next]_vars => Sim' /\ [Scan!Next]_Scan!vars
    BY StepScan
  <1>3. QED
    BY <1>1, <1>2, Invariance, PTL DEF Spec, ImplementsScan, Scan!Spec

-----------------------------------------------------------------------------
(* What holds of every scan holds of the virtual machine. *)
Known ==
  INSTANCE NfaScanProofs WITH
    origin <- matchStart,
    pos <- Pos,
    threads <- Threads,
    best <- matchEnd - 1,
    done <- pc = "done"

(* The automaton those theorems speak of is the one of VmScan ... *)
LEMMA SameAcceptance ==
  /\ \A s, e : Known!Accepts(s, e) = Accepts(s, e)
  /\ Known!MatchAddrs = Scan!MatchAddrs
  /\ \A S, k : Known!Closure(S, k) = Scan!Closure(S, k)
  /\ \A S, k : Known!Delta(S, k) = Scan!Delta(S, k)
  BY DEF Accepts,
    Known!Accepts, Known!Standing, Known!MatchAddrs, Known!PCs, Known!Closure,
    Known!ClosureAt, Known!ClosedAt, Known!Delta, Known!Moves, Known!Takes,
    Known!AtSol, Known!AtEol, Known!CharAt, Known!EndChar, Known!NL,
    Known!char_match, Known!ccs_match, Known!tolower, Known!udiff,
    N!Accepts, N!Standing, N!MatchAddrs, N!PCs, N!Closure,
    N!ClosureAt, N!ClosedAt, N!Delta, N!Moves, N!Takes,
    N!AtSol, N!AtEol, N!CharAt, N!EndChar, N!NL,
    N!char_match, N!ccs_match, N!tolower, N!udiff,
    Scan!MatchAddrs, Scan!PCs, Scan!Closure,
    Scan!ClosureAt, Scan!ClosedAt, Scan!Delta, Scan!Moves, Scan!Takes,
    Scan!AtSol, Scan!AtEol, Scan!CharAt, Scan!EndChar, Scan!NL,
    Scan!char_match, Scan!ccs_match, Scan!tolower, Scan!udiff

(* ... and so is the scan. *)
LEMMA SameScan == Scan!Spec => Known!Spec
  <1>1. Scan!Init => Known!Init
    BY SameAcceptance DEF Scan!Init, Known!Init, Scan!NoMatch, Known!NoMatch
  <1>2. Scan!vars = Known!vars
    BY DEF Scan!vars, Known!vars
  <1>3. ASSUME Scan!Next
        PROVE  Known!Next
    <2>1. Scan!CanMatch = Known!CanMatch /\ Scan!Recorded = Known!Recorded
          /\ Scan!Over = Known!Over /\ Scan!NoMatch = Known!NoMatch
      BY SameAcceptance
      DEF Scan!CanMatch, Scan!Recorded, Scan!Over, Scan!NoMatch,
          Known!CanMatch, Known!Recorded, Known!Over, Known!NoMatch
    <2>2. Scan!Accept => Known!Accept
      BY <2>1 DEF Scan!Accept, Known!Accept
    <2>3. Scan!Advance => Known!Advance
      BY <2>1, SameAcceptance DEF Scan!Advance, Known!Advance
    <2>4. Scan!Finish => Known!Finish
      BY <2>1, SameAcceptance DEF Scan!Finish, Known!Finish
    <2>5. Scan!Retry => Known!Retry
      BY <2>1, SameAcceptance DEF Scan!Retry, Known!Retry
    <2>6. QED
      BY <1>3, <2>2, <2>3, <2>4, <2>5 DEF Scan!Next, Known!Next
  <1>4. [Scan!Next]_Scan!vars => [Known!Next]_Known!vars
    BY <1>2, <1>3 DEF Scan!vars, Known!vars
  <1>5. QED
    BY <1>1, <1>4, PTL DEF Scan!Spec, Known!Spec

LEMMA KnownByVm == Spec => []Inv /\ []Known!Known /\ [][Known!GivesUpHopeless]_Known!vars
  <1>1. Inv => Known!Call
    <2> SUFFICES ASSUME Inv
                 PROVE  Known!Call
      OBVIOUS
    <2>1. WellFormed(prog) /\ Len(input) \in Nat
      BY ProgramsAssumption, InputsAssumption DEF Inv, TypeOK
    <2>2. Known!WellFormed(prog)
      BY <2>1 DEF WellFormed, Known!WellFormed, Known!Inst, Inst, OpConsume,
         Known!OpConsume,
        OpAnchor, Known!OpAnchor, Op, Known!Op, Char, Known!Char, EndChar,
        Known!EndChar
    <2>3. QED
      BY <2>1, <2>2, ModeType DEF Known!Call
  <1>2. Spec => Known!Spec
    BY VmImplementsScan, SameScan DEF ImplementsScan
  <1>3. QED
    BY <1>1, <1>2, Invariance, Known!ScanKnows, Known!ScanGivesUpHopeless, PTL

(* Whatever vm_execute reports, the automaton of the program accepts it.   *)
THEOREM ReportsMatch == Spec => []ReportIsMatch
  <1>1. Inv /\ Known!Known => ReportIsMatch
    BY SameAcceptance DEF Inv, TypeOK, Known!Known, Known!NoMatch,
       ReportIsMatch, Found
  <1>2. QED
    BY <1>1, KnownByVm, PTL

(* A greedy report is the longest match from its start, a nongreedy one    *)
(* the shortest.                                                           *)
THEOREM ReportsExtreme == Spec => []ReportIsExtreme
  <1>1. Inv /\ Known!Known => ReportIsExtreme
    BY SameAcceptance DEF Known!Known, Known!Settled, ReportIsExtreme
  <1>2. QED
    BY <1>1, KnownByVm, PTL

(* vm_execute gives up an attempt, by a restart or by returning without a  *)
(* match, only if no match starts where the attempt did.                   *)
THEOREM HopelessAbandoned == Spec => AbandonsOnlyHopeless
  <1> DEFINE Hopeless ==
        \/ matchStart' # matchStart
        \/ pc' = "done" /\ matchEnd' = 0
        => \A e \in matchStart..Len(input) : ~Accepts(matchStart, e)
  <1>1. Inv /\ Inv' /\ Known!Known /\ [Known!GivesUpHopeless]_Known!vars => Hopeless
    <2> SUFFICES ASSUME Inv, Inv', Known!Known,
    [Known!GivesUpHopeless]_Known!vars,
                        \/ matchStart' # matchStart
                        \/ pc' = "done" /\ matchEnd' = 0
                 PROVE  \A e \in matchStart..Len(input) : ~Accepts(matchStart,
                 e)
      OBVIOUS
    <2>1. CASE Known!GivesUpHopeless
      BY <2>1, SameAcceptance DEF Known!GivesUpHopeless, Known!NoMatch
    <2>2. CASE UNCHANGED Known!vars
      <3>1. matchEnd' \in Nat /\ matchEnd \in Nat
        BY DEF Inv, TypeOK
      <3>2. /\ matchStart' = matchStart /\ (matchEnd - 1)' = matchEnd - 1
            /\ (pc = "done")' = (pc = "done")
        BY <2>2 DEF Known!vars
      <3>3. QED
        BY <3>1, <3>2, SameAcceptance
        DEF Known!Known, Known!Settled, Known!NoMatch
    <2>3. QED
      BY <2>1, <2>2
  <1>2. QED
    BY <1>1, KnownByVm, Invariance, PTL DEF AbandonsOnlyHopeless
=============================================================================
