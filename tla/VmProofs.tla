------------------------------ MODULE VmProofs ------------------------------
(***************************************************************************)
(* What the virtual machine keeps true for every set of well-formed        *)
(* programs and every set of inputs.                                       *)
(***************************************************************************)
EXTENDS Vm, FiniteSetTheorems, TLAPS

-----------------------------------------------------------------------------
(* Control never leaves a well-formed program. *)
LEMMA StaysInside ==
  ASSUME NEW p, WellFormed(p), NEW i \in DOMAIN p
  PROVE  /\ 0 \in DOMAIN p
         /\ p[i] \in Inst
         /\ p[i].op \in OpConsume \cup OpAnchor => i + 1 \in DOMAIN p
         /\ p[i].op \in {"branch", "jmp"} => p[i].x \in DOMAIN p
         /\ p[i].op = "branch" => p[i].y \in DOMAIN p
  <1>1. PICK n \in {j + 1 : j \in DOMAIN p} :
          /\ p \in [0..(n-1) -> Inst]
          /\ \A j \in 0..(n-1) :
               /\ p[j].op \in OpConsume \cup OpAnchor => j + 1 < n
               /\ p[j].op \in {"branch", "jmp"} => p[j].x \in 0..(n-1)
               /\ p[j].op = "branch" => p[j].y \in 0..(n-1)
    BY DEF WellFormed
  <1>2. DOMAIN p = 0..(n-1)
    BY <1>1
  <1>3. n \in Nat
    BY <1>1, <1>2
  <1>4. QED
    BY <1>1, <1>2, <1>3

LEMMA StartsInside ==
  ASSUME NEW p, WellFormed(p)
  PROVE  /\ 0 \in DOMAIN p
         /\ IsFiniteSet(DOMAIN p)
  <1>1. PICK n \in {j + 1 : j \in DOMAIN p} : p \in [0..(n-1) -> Inst]
    BY DEF WellFormed
  <1>2. PICK j \in DOMAIN p : n = j + 1
    BY <1>1
  <1>3. DOMAIN p = 0..(n-1)
    BY <1>1
  <1>4. j \in Int /\ n \in Int
    BY <1>2, <1>3
  <1>5. 0 \in DOMAIN p
    BY <1>2, <1>3, <1>4
  <1>6. IsFiniteSet(0..(n-1))
    BY <1>4, FS_Interval
  <1>7. QED
    BY <1>3, <1>5, <1>6

(* add_thread keeps a list free of repetitions and its table exact. *)
LEMMA AddThread ==
  ASSUME NEW S, NEW list \in Seq(S), NEW lookup, NEW val \in S,
         Unique(list), Lists(list, lookup)
  PROVE  /\ Listed(list, lookup, val) \in Seq(S)
         /\ Unique(Listed(list, lookup, val))
         /\ Lists(Listed(list, lookup, val), lookup \cup {val})
         /\ Len(list) <= Len(Listed(list, lookup, val))
  <1>1. CASE val \in lookup
    <2>1. Listed(list, lookup, val) = list /\ lookup \cup {val} = lookup
      BY <1>1 DEF Listed
    <2> DEFINE new == Listed(list, lookup, val)
    <2>2. new = list /\ lookup \cup {val} = lookup /\ Len(list) \in Nat
      BY <2>1
    <2> HIDE DEF new
    <2>3. /\ new \in Seq(S) /\ Unique(new) /\ Lists(new, lookup \cup {val})
          /\ Len(list) <= Len(new)
      <3>1. new \in Seq(S) /\ Len(list) <= Len(new)
        BY <2>2
      <3>2. Unique(new)
        BY <2>2 DEF Unique
      <3>3. Lists(new, lookup \cup {val})
        BY <2>2 DEF Lists
      <3>4. QED
        BY <3>1, <3>2, <3>3
    <2>4. QED
      BY <2>3 DEF new
  <1>2. CASE val \notin lookup
    <2> DEFINE new == Append(list, val)
    <2>1. Listed(list, lookup, val) = new
      BY <1>2 DEF Listed
    <2>2. /\ new \in Seq(S) /\ Len(new) = Len(list) + 1 /\ Len(list) \in Nat
          /\ new[Len(list) + 1] = val
          /\ \A i \in 1..Len(list) : new[i] = list[i]
      OBVIOUS
    <2>3. \A i \in 1..Len(list) : list[i] # val
      BY <1>2 DEF Lists
    <2>4. Unique(new)
      BY <2>2, <2>3 DEF Unique
    <2>5. {new[i] : i \in 1..Len(new)} = {list[i] : i \in 1..Len(list)} \cup {val}
      BY <2>2
    <2>6. Lists(new, lookup \cup {val})
      BY <2>5 DEF Lists
    <2> HIDE DEF new
    <2>7. QED
      BY <2>1, <2>2, <2>4, <2>6
  <1>3. QED
    BY <1>1, <1>2

(* A list without repetitions fits in a table with one slot per address. *)
LEMMA UniqueFits ==
  ASSUME NEW S, IsFiniteSet(S), NEW list \in Seq(S), Unique(list)
  PROVE  Len(list) <= Cardinality(S)
  <1>1. list \in [1..Len(list) -> S] /\ Len(list) \in Nat
    OBVIOUS
  <1>2. list \in Injection(1..Len(list), S)
    BY <1>1 DEF Unique, Injection, IsInjective
  <1>3. Cardinality(1..Len(list)) = Len(list)
    <2> DEFINE n == Len(list)
    <2>1. n \in Nat
      BY <1>1
    <2> HIDE DEF n
    <2>2. Cardinality(1..n) = IF 1 > n THEN 0 ELSE n - 1 + 1
      BY <2>1, FS_Interval
    <2>3. Cardinality(1..n) = n
      BY <2>1, <2>2
    <2>4. QED
      BY <2>3 DEF n
  <1>4. Cardinality(1..Len(list)) <= Cardinality(S)
    BY <1>2, FS_Injection
  <1>5. QED
    BY <1>3, <1>4

-----------------------------------------------------------------------------
(* The inductive invariant: TypeOK needs PeeksRight, because a restart     *)
(* stays inside the input only when the current character is one of it,    *)
(* and Between, where the counters stand to one another.                   *)
Between ==
  /\ pc = "read" => chars <= Len(input)
  /\ pc # "read" => chars >= 1
  /\ pc = "run" => t <= Len(cp)
  /\ matchStart <= chars
  /\ pc # "read" => matchStart < chars
  /\ matchEnd <= chars
  /\ matchEnd # 0 => matchStart < matchEnd

Inv == TypeOK /\ Between /\ PeeksRight /\ ThreadLists

LEMMA InitInv == Init => Inv
  <1> SUFFICES ASSUME Init PROVE Inv
    OBVIOUS
  <1>1. WellFormed(prog) /\ input \in Seq(Char) /\ Len(input) \in Nat
    BY ProgramsAssumption, InputsAssumption DEF Init
  <1>2. 0 \in PCs
    BY <1>1, StartsInside DEF PCs
  <1>3. TypeOK
    <2>1. <<0>> \in Seq(PCs) /\ <<>> \in Seq(PCs)
      BY <1>2
    <2>2. QED
      BY <1>1, <1>2, <2>1 DEF Init, TypeOK, EndChar
  <1>4. Between
    BY <1>1 DEF Init, Between
  <1>5. PeeksRight
    BY DEF Init, PeeksRight, EndChar
  <1>6. ThreadLists
    <2>1. Len(<<0>>) = 1 /\ <<0>>[1] = 0 /\ Len(<<>>) = 0
      OBVIOUS
    <2>2. Unique(<<0>>) /\ Unique(<<>>)
      BY <2>1 DEF Unique
    <2>3. Lists(<<0>>, {0}) /\ Lists(<<>>, {})
      BY <2>1 DEF Lists
    <2>4. QED
      BY <2>2, <2>3 DEF Init, ThreadLists
  <1>7. QED
    BY <1>3, <1>4, <1>5, <1>6 DEF Inv

(* What the invariant says of the thread about to run. *)
LEMMA RunningThread ==
  ASSUME Inv, pc = "run", t < Len(cp)
  PROVE  /\ ii \in PCs
         /\ inst \in Inst
         /\ inst.op \in OpConsume \cup OpAnchor => ii + 1 \in PCs
         /\ inst.op \in {"branch", "jmp"} => inst.x \in PCs
         /\ inst.op = "branch" => inst.y \in PCs
         /\ t + 1 \in 1..Len(cp)
  <1>1. WellFormed(prog)
    BY ProgramsAssumption DEF Inv, TypeOK
  <1>2. cp \in Seq(PCs) /\ t \in Nat /\ Len(cp) \in Nat
    BY DEF Inv, TypeOK
  <1>3. t + 1 \in 1..Len(cp)
    BY <1>2
  <1>4. ii \in PCs
    BY <1>2, <1>3 DEF ii
  <1>5. QED
    BY <1>1, <1>3, <1>4, StaysInside DEF inst, PCs

(* One thread of the switch: each case adds to at most one list. *)
LEMMA ConsumeInv ==
  ASSUME Inv, NEW op \in OpConsume, NEW fits \in BOOLEAN, Consume(op, fits)
  PROVE  Inv'
  <1>1. /\ pc = "run" /\ t < Len(cp) /\ inst.op = op /\ t' = t + 1
        /\ UNCHANGED <<callVars, textVars, matchVars, currVars, pc>>
    BY DEF Consume, Running
  <1>2. ii + 1 \in PCs /\ t + 1 \in 1..Len(cp)
    BY <1>1, RunningThread
  <1>3. PCs' = PCs
    BY <1>1 DEF PCs, callVars
  <1>4. /\ np' \in Seq(PCs) /\ npLookup' \subseteq PCs
        /\ Unique(np') /\ Lists(np', npLookup')
    <2>1. CASE UNCHANGED nextVars
      BY <2>1 DEF Inv, TypeOK, ThreadLists, nextVars, Unique, Lists
    <2>2. CASE add_thread_next(ii + 1)
      BY <1>2, <2>2, AddThread DEF Inv, TypeOK, ThreadLists, add_thread_next
    <2>3. QED
      BY <2>1, <2>2 DEF Consume
  <1>5. TypeOK'
    BY <1>1, <1>3, <1>4 DEF Inv, TypeOK, callVars, textVars, matchVars, currVars
  <1>6. Between'
    BY <1>1, <1>2 DEF Inv, Between, callVars, textVars, matchVars, currVars
  <1>7. PeeksRight'
    BY <1>1 DEF Inv, PeeksRight, callVars, textVars
  <1>8. ThreadLists'
    BY <1>1, <1>4 DEF Inv, ThreadLists, Unique, Lists, currVars
  <1>9. QED
    BY <1>5, <1>6, <1>7, <1>8 DEF Inv

(* The cases that add to the current list while it is being run. *)
LEMMA CurrentListInv ==
  ASSUME Inv, pc = "run", t < Len(cp),
         cp' \in Seq(PCs), cpLookup' \subseteq PCs, Len(cp) <= Len(cp'),
         Unique(cp'), Lists(cp', cpLookup'), t' = t + 1,
         UNCHANGED <<callVars, textVars, matchVars, nextVars, pc>>
  PROVE  Inv'
  <1>1. PCs' = PCs
    BY DEF PCs, callVars
  <1>2. TypeOK'
    BY <1>1 DEF Inv, TypeOK, callVars, textVars, matchVars, nextVars
  <1>3. Between'
    <2>1. Len(cp) \in Nat /\ Len(cp') \in Nat /\ t \in Nat
      BY DEF Inv, TypeOK
    <2>2. QED
      BY <2>1 DEF Inv, Between, callVars, textVars, matchVars
  <1>4. PeeksRight'
    BY DEF Inv, PeeksRight, callVars, textVars
  <1>5. ThreadLists'
    BY DEF Inv, ThreadLists, Unique, Lists, nextVars
  <1>6. QED
    BY <1>2, <1>3, <1>4, <1>5 DEF Inv

LEMMA AnchorInv ==
  ASSUME Inv, NEW op \in OpAnchor, NEW holds \in BOOLEAN, Anchor(op, holds)
  PROVE  Inv'
  <1>1. /\ pc = "run" /\ t < Len(cp) /\ inst.op = op /\ t' = t + 1
        /\ UNCHANGED <<callVars, textVars, matchVars, nextVars, pc>>
    BY DEF Anchor, Running
  <1>2. ii + 1 \in PCs
    BY <1>1, RunningThread
  <1>3. cp \in Seq(PCs) /\ Len(cp) \in Nat
    BY DEF Inv, TypeOK
  <1>4. /\ cp' \in Seq(PCs) /\ cpLookup' \subseteq PCs /\ Len(cp) <= Len(cp')
        /\ Unique(cp') /\ Lists(cp', cpLookup')
    <2>1. CASE UNCHANGED currVars
      BY <1>3, <2>1 DEF Inv, TypeOK, ThreadLists, currVars, Unique, Lists
    <2>2. CASE add_thread_curr(ii + 1)
      BY <1>2, <2>2, AddThread DEF Inv, TypeOK, ThreadLists, add_thread_curr
    <2>3. QED
      BY <2>1, <2>2 DEF Anchor
  <1>5. QED
    BY <1>1, <1>4, CurrentListInv

LEMMA JmpInv == Inv /\ RunJmp => Inv'
  <1> SUFFICES ASSUME Inv, RunJmp PROVE Inv'
    OBVIOUS
  <1>1. /\ pc = "run" /\ t < Len(cp) /\ inst.op = "jmp" /\ t' = t + 1
        /\ add_thread_curr(inst.x)
        /\ UNCHANGED <<callVars, textVars, matchVars, nextVars, pc>>
    BY DEF RunJmp, Running
  <1>2. inst.x \in PCs
    BY <1>1, RunningThread
  <1>3. /\ cp' \in Seq(PCs) /\ cpLookup' \subseteq PCs /\ Len(cp) <= Len(cp')
        /\ Unique(cp') /\ Lists(cp', cpLookup')
    BY <1>1, <1>2, AddThread DEF Inv, TypeOK, ThreadLists, add_thread_curr
  <1>4. QED
    BY <1>1, <1>3, CurrentListInv

LEMMA BranchInv == Inv /\ RunBranch => Inv'
  <1> SUFFICES ASSUME Inv, RunBranch PROVE Inv'
    OBVIOUS
  <1> DEFINE one == Listed(cp, cpLookup, inst.x)
             oneLookup == cpLookup \cup {inst.x}
  <1>1. /\ pc = "run" /\ t < Len(cp) /\ inst.op = "branch" /\ t' = t + 1
        /\ cp' = Listed(one, oneLookup, inst.y)
        /\ cpLookup' = oneLookup \cup {inst.y}
        /\ UNCHANGED <<callVars, textVars, matchVars, nextVars, pc>>
    BY DEF RunBranch, Running
  <1>2. inst.x \in PCs /\ inst.y \in PCs
    BY <1>1, RunningThread
  <1>3. /\ one \in Seq(PCs) /\ oneLookup \subseteq PCs
        /\ Unique(one) /\ Lists(one, oneLookup)
        /\ Len(cp) <= Len(one) /\ Len(one) \in Nat /\ Len(cp) \in Nat
    <2>1. /\ cp \in Seq(PCs) /\ cpLookup \subseteq PCs
          /\ Unique(cp) /\ Lists(cp, cpLookup)
      BY DEF Inv, TypeOK, ThreadLists
    <2>2. /\ one \in Seq(PCs) /\ Unique(one) /\ Lists(one, oneLookup)
          /\ Len(cp) <= Len(one)
      BY <1>2, <2>1, AddThread
    <2>3. oneLookup \subseteq PCs
      BY <1>2, <2>1
    <2> HIDE DEF one, oneLookup
    <2>4. QED
      BY <2>1, <2>2, <2>3
  <1> HIDE DEF one, oneLookup
  <1>4. /\ cp' \in Seq(PCs) /\ cpLookup' \subseteq PCs /\ Len(one) <= Len(cp')
        /\ Unique(cp') /\ Lists(cp', cpLookup')
    BY <1>1, <1>2, <1>3, AddThread
  <1>5. Len(cp) <= Len(cp')
    BY <1>3, <1>4
  <1>6. QED
    BY <1>1, <1>4, <1>5, CurrentListInv

LEMMA MatchInv == Inv /\ RunMatch => Inv'
  <1> SUFFICES ASSUME Inv, RunMatch PROVE Inv'
    OBVIOUS
  <1>1. /\ pc = "run" /\ t < Len(cp) /\ matchEnd' = chars
        /\ UNCHANGED <<callVars, textVars, matchStart, currVars, nextVars>>
        /\ \/ pc' = "done" /\ t' = t
           \/ pc' = "run" /\ t' = t + 1
    BY DEF RunMatch, Running
  <1>2. t \in Nat /\ Len(cp) \in Nat /\ PCs' = PCs
    BY <1>1 DEF Inv, TypeOK, PCs, callVars
  <1>3. TypeOK'
    BY <1>1, <1>2 DEF Inv, TypeOK, callVars, textVars, currVars, nextVars
  <1>4. Between'
    BY <1>1, <1>2 DEF Inv, TypeOK, Between, callVars, textVars, currVars
  <1>5. PeeksRight'
    BY <1>1 DEF Inv, PeeksRight, callVars, textVars
  <1>6. ThreadLists'
    BY <1>1 DEF Inv, ThreadLists, Unique, Lists, currVars, nextVars
  <1>7. QED
    BY <1>3, <1>4, <1>5, <1>6 DEF Inv

LEMMA ReadCharInv == Inv /\ ReadChar => Inv'
  <1> SUFFICES ASSUME Inv, ReadChar PROVE Inv'
    OBVIOUS
  <1>1. input \in Seq(Char) /\ Len(input) \in Nat
    BY InputsAssumption DEF Inv, TypeOK
  <1>2. /\ chars \in Nat /\ chars <= Len(input) /\ chars' = chars + 1
        /\ PCs' = PCs
    BY <1>1 DEF Inv, TypeOK, Between, ReadChar, ReadAs, PCs, callVars
  <1>3. getchar \in Char \cup {EndChar}
    BY <1>1, <1>2 DEF getchar
  <1>4. TypeOK'
    BY <1>1, <1>2, <1>3
    DEF Inv, TypeOK, ReadChar, ReadAs, callVars, matchVars, currVars, nextVars
  <1>5. Between'
    <2>1. Len(cp') \in Nat
      BY <1>4 DEF TypeOK
    <2>2. QED
      BY <1>1, <1>2, <2>1
      DEF Inv, TypeOK, Between, ReadChar, ReadAs, matchVars, callVars
  <1>6. PeeksRight'
    BY <1>1, <1>2 DEF Inv, Between, PeeksRight, ReadChar, ReadAs, getchar, callVars
  <1>7. ThreadLists'
    BY DEF Inv, ThreadLists, Unique, Lists, ReadChar, ReadAs, currVars, nextVars
  <1>8. QED
    BY <1>4, <1>5, <1>6, <1>7 DEF Inv

LEMMA ReturnInv == Inv /\ (EndOfInput \/ GiveUp) => Inv'
  <1> SUFFICES ASSUME Inv, EndOfInput \/ GiveUp PROVE Inv'
    OBVIOUS
  <1>1. /\ pc = "run" /\ pc' = "done"
        /\ UNCHANGED <<callVars, textVars, matchVars, currVars, nextVars, t>>
    BY DEF EndOfInput, GiveUp, Dead, RanAll
  <1>2. PCs' = PCs
    BY <1>1 DEF PCs, callVars
  <1>3. TypeOK'
    BY <1>1, <1>2
    DEF Inv, TypeOK, callVars, textVars, matchVars, currVars, nextVars
  <1>4. Between'
    BY <1>1 DEF Inv, Between, callVars, textVars, matchVars
  <1>5. PeeksRight'
    BY <1>1 DEF Inv, PeeksRight, callVars, textVars
  <1>6. ThreadLists'
    BY <1>1 DEF Inv, ThreadLists, Unique, Lists, currVars, nextVars
  <1>7. QED
    BY <1>3, <1>4, <1>5, <1>6 DEF Inv

(* After its last thread, a character that is not the end is one of input. *)
LEMMA InsideInput ==
  ASSUME Inv, pc = "run", C # EndChar
  PROVE  chars \in 1..Len(input) /\ Len(input) \in Nat
  BY InputsAssumption DEF Inv, TypeOK, PeeksRight

LEMMA RestartInv == Inv /\ Restart => Inv'
  <1> SUFFICES ASSUME Inv, Restart PROVE Inv'
    OBVIOUS
  <1>1. /\ pc = "run" /\ C # EndChar /\ matchEnd = 0 /\ cp' = <<0>>
        /\ cpLookup' = (cpLookup \ {cp[i] : i \in 1..Len(cp)}) \cup {0}
        /\ UNCHANGED <<callVars, textVars, matchEnd, nextVars>>
        /\ \/ matchStart' = chars - 1 /\ t' = 0 /\ pc' = "run"
           \/ matchStart' = chars /\ t' = t /\ pc' = "read"
    BY DEF Restart, Dead, RanAll
  <1>2. chars \in 1..Len(input) /\ Len(input) \in Nat /\ PCs' = PCs
    BY <1>1, InsideInput DEF PCs, callVars
  <1>3. 0 \in PCs
    BY ProgramsAssumption, StartsInside DEF Inv, TypeOK, PCs
  <1>4. cpLookup' = {0}
    BY <1>1 DEF Inv, ThreadLists, Lists
  <1>5. <<0>> \in Seq(PCs) /\ Len(<<0>>) = 1 /\ <<0>>[1] = 0
    BY <1>3
  <1>6. TypeOK'
    <2>1. /\ prog \in Programs /\ input \in Inputs /\ mode \in Modes
          /\ matchEnd \in 0..(Len(input) + 1)
          /\ C \in Char \cup {EndChar} /\ lastinput \in Char \cup {EndChar}
          /\ np \in Seq(PCs) /\ npLookup \subseteq PCs /\ t \in Nat
      BY DEF Inv, TypeOK
    <2>2. UNCHANGED <<prog, input, mode, chars, C, lastinput, matchEnd, np, npLookup>>
      BY <1>1 DEF callVars, textVars, nextVars
    <2>3. matchStart' \in 0..Len(input)
      BY <1>1, <1>2
    <2>4. t' \in Nat /\ pc' \in {"read", "run", "done"}
      BY <1>1, <2>1
    <2>5. cp' \in Seq(PCs) /\ cpLookup' \subseteq PCs
      BY <1>1, <1>3, <1>4, <1>5
    <2>6. chars \in 0..(Len(input) + 1)
      BY <1>2
    <2>7. QED
      BY <1>2, <2>1, <2>2, <2>3, <2>4, <2>5, <2>6 DEF TypeOK
  <1>7. Between'
    BY <1>1, <1>2, <1>5 DEF Inv, Between, callVars, textVars
  <1>8. PeeksRight'
    BY <1>1 DEF Inv, PeeksRight, callVars, textVars
  <1>9. ThreadLists'
    <2>1. Unique(cp') /\ Lists(cp', cpLookup')
      BY <1>1, <1>4, <1>5 DEF Unique, Lists
    <2>2. QED
      BY <1>1, <2>1 DEF Inv, ThreadLists, Unique, Lists, nextVars
  <1>10. QED
    BY <1>6, <1>7, <1>8, <1>9 DEF Inv

LEMMA SwapInv == Inv /\ Swap => Inv'
  <1> SUFFICES ASSUME Inv, Swap PROVE Inv'
    OBVIOUS
  <1>1. /\ pc = "run" /\ C # EndChar /\ pc' = "read"
        /\ cp' = np /\ cpLookup' = npLookup /\ np' = <<>> /\ npLookup' = {}
        /\ UNCHANGED <<callVars, textVars, matchVars, t>>
    BY DEF Swap, RanAll
  <1>2. chars \in 1..Len(input) /\ PCs' = PCs
    BY <1>1, InsideInput DEF PCs, callVars
  <1>3. TypeOK'
    BY <1>1, <1>2 DEF Inv, TypeOK, callVars, textVars, matchVars
  <1>4. Between'
    BY <1>1, <1>2 DEF Inv, Between, callVars, textVars, matchVars
  <1>5. PeeksRight'
    BY <1>1 DEF Inv, PeeksRight, callVars, textVars
  <1>6. ThreadLists'
    <2>1. Unique(cp') /\ Lists(cp', cpLookup')
      BY <1>1 DEF Inv, ThreadLists, Unique, Lists
    <2>2. Unique(np') /\ Lists(np', npLookup')
      BY <1>1 DEF Unique, Lists
    <2>3. QED
      BY <2>1, <2>2 DEF ThreadLists, Unique, Lists
  <1>7. QED
    BY <1>3, <1>4, <1>5, <1>6 DEF Inv

(* Inv is inductive. *)
LEMMA StepInv == Inv /\ [Next]_vars => Inv'
  <1> SUFFICES ASSUME Inv, [Next]_vars PROVE Inv'
    OBVIOUS
  <1> USE DEF OpConsume, OpAnchor
  <1>1. ASSUME RunChar \/ RunAny \/ RunClass \/ RunNclass PROVE Inv'
    <2>1. ASSUME RunChar PROVE Inv'
      BY <2>1, ConsumeInv DEF RunChar, char_match
    <2>2. ASSUME RunAny PROVE Inv'
      BY <2>2, ConsumeInv DEF RunAny
    <2>3. ASSUME RunClass PROVE Inv'
      BY <2>3, ConsumeInv DEF RunClass, ccs_match
    <2>4. ASSUME RunNclass PROVE Inv'
      BY <2>4, ConsumeInv DEF RunNclass
    <2>5. QED
      BY <1>1, <2>1, <2>2, <2>3, <2>4
  <1>2. ASSUME RunSol \/ RunEol PROVE Inv'
    <2>1. is_sol \in BOOLEAN /\ is_eol \in BOOLEAN
      BY DEF is_sol, is_eol
    <2>2. QED
      BY <1>2, <2>1, AnchorInv DEF RunSol, RunEol
  <1>3. ASSUME UNCHANGED vars PROVE Inv'
    BY <1>3
    DEF Inv, TypeOK, Between, PeeksRight, ThreadLists, Unique, Lists, PCs,
        vars, callVars, textVars, matchVars, currVars, nextVars
  <1>4. QED
    BY <1>1, <1>2, <1>3, JmpInv, BranchInv, MatchInv, ReadCharInv, ReturnInv,
       RestartInv, SwapInv
    DEF Next, Execute, Returned

-----------------------------------------------------------------------------
(* The invariant holds throughout every call. *)
THEOREM Invariance == Spec => []Inv
  BY InitInv, StepInv, PTL DEF Spec

(* Type correctness: in particular every address a thread list holds is in *)
(* the program, whatever its branches and jumps, and a match lies inside   *)
(* the input.                                                              *)
THEOREM TypeCorrect == Spec => []TypeOK
  <1>1. Inv => TypeOK
    BY DEF Inv
  <1>2. QED
    BY <1>1, Invariance, PTL

(* The lookup tables stay exact through add_thread, swap and restart. *)
THEOREM ThreadListsExact == Spec => []ThreadLists
  <1>1. Inv => ThreadLists
    BY DEF Inv
  <1>2. QED
    BY <1>1, Invariance, PTL

(* add_thread never writes past the tables vm_init allocates, for programs *)
(* of any size.                                                            *)
THEOREM NoTableOverflow == Spec => []TablesHold
  <1>1. Inv => TablesHold
    <2> SUFFICES ASSUME Inv PROVE TablesHold
      OBVIOUS
    <2>1. IsFiniteSet(PCs)
      BY ProgramsAssumption, StartsInside DEF Inv, TypeOK, PCs
    <2>2. QED
      BY <2>1, UniqueFits DEF Inv, TypeOK, ThreadLists, TablesHold
  <1>2. QED
    BY <1>1, Invariance, PTL

(* The anchors always look at the current and the previous character. *)
THEOREM AnchorsPeekRight == Spec => []PeeksRight
  <1>1. Inv => PeeksRight
    BY DEF Inv
  <1>2. QED
    BY <1>1, Invariance, PTL

(* A call only moves forward through the input, and an attempt behind a    *)
(* dead one starts strictly later.                                         *)
THEOREM OnlyForward == Spec => MovesForward
  <1> DEFINE NoThread == RanAll /\ np = <<>>
  <1> DEFINE Forward ==
        /\ matchStart' >= matchStart
        /\ NoThread /\ pc' # "done" => matchStart' > matchStart
        /\ matchEnd # 0 => matchStart' = matchStart /\ matchEnd' >= matchEnd
        /\ chars' >= chars
  <1>1. Inv /\ [Next]_vars => [Forward]_vars
    <2> SUFFICES ASSUME Inv, Next PROVE [Forward]_vars
      OBVIOUS
    <2>0. t \in Nat /\ Len(cp) \in Nat
      BY DEF Inv, TypeOK
    <2>1. /\ chars \in Nat /\ matchStart \in Nat /\ matchEnd \in Nat
          /\ matchStart <= chars /\ matchEnd <= chars
          /\ pc # "read" => matchStart < chars
      BY DEF Inv, TypeOK, Between
    <2>2. CASE ReadChar
      <3>1. ~NoThread
        BY <2>2 DEF ReadChar, ReadAs, RanAll
      <3>2. QED
        BY <2>1, <2>2, <3>1 DEF ReadChar, ReadAs, matchVars
    <2>3. CASE RunMatch
      <3>1. ~NoThread
        <4>1. t < Len(cp)
          BY <2>3 DEF RunMatch, Running
        <4>2. t # Len(cp)
          BY <4>1, <2>0
        <4>3. QED
          BY <4>2 DEF RanAll
      <3>2. QED
        BY <2>1, <2>3, <3>1 DEF RunMatch, Running, textVars
    <2>4. CASE Restart
      <3>1. /\ matchEnd = 0 /\ UNCHANGED textVars
            /\ pc = "run"
            /\ \/ chars - 1 # matchStart /\ matchStart' = chars - 1
               \/ matchStart' = chars
        BY <2>4 DEF Restart, Dead, RanAll
      <3>2. chars' = chars /\ matchStart < chars
        BY <2>1, <3>1 DEF textVars
      <3>3. QED
        BY <2>1, <3>1, <3>2
    <2>5. CASE /\ UNCHANGED <<textVars, matchVars>>
               /\ ~NoThread \/ pc' = "done"
      BY <2>1, <2>5 DEF textVars, matchVars
    <2>6. CASE EndOfInput \/ GiveUp
      BY <2>5, <2>6 DEF EndOfInput, GiveUp, textVars, matchVars
    <2>7. CASE Swap
      BY <2>5, <2>7 DEF Swap, textVars, matchVars
    <2>8. CASE Returned
      BY <2>8 DEF Returned
    <2>9. CASE \/ RunChar \/ RunAny \/ RunClass \/ RunNclass
               \/ RunSol \/ RunEol \/ RunBranch \/ RunJmp
      <3>1. UNCHANGED <<textVars, matchVars>> /\ t < Len(cp)
        BY <2>9 DEF RunChar, RunAny, RunClass, RunNclass, Consume, RunSol, RunEol,
                    Anchor, RunBranch, RunJmp, Running, textVars, matchVars
      <3>2. t # Len(cp)
        BY <3>1, <2>0
      <3>3. QED
        BY <2>5, <3>1, <3>2 DEF RanAll
    <2>10. QED
      BY <2>2, <2>3, <2>4, <2>6, <2>7, <2>8, <2>9 DEF Next, Execute
  <1>2. QED
    BY <1>1, Invariance, PTL DEF Spec, MovesForward
=============================================================================
