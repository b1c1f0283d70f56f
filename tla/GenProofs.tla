------------------------------ MODULE GenProofs ------------------------------
(***************************************************************************)
(* What rxvm_gen returns, for every set of calls, every range of           *)
(* characters and every block size: its type, the allocation of the string *)
(* builder it stays in, the bound the limit of the call puts on a walk,    *)
(* the length it reports and that the program accepts the string.          *)
(***************************************************************************)
EXTENDS Gen, Induction, FiniteSetTheorems, SequenceTheorems

Bytes == Char \cup {EndChar}
Visible == PRINTABLE_LOW..PRINTABLE_HIGH

(* The walk stands in the program of its call, the string is within its    *)
(* allocation and has grown by at most one byte for each instruction       *)
(* behind the walk since the limit was reached; once it is returned its    *)
(* length is known.                                                        *)
InProgram ==
  /\ cfg \in Calls /\ prog = cfg.prog
  /\ ip \in PCs
Grown ==
  /\ buf \in Seq(Bytes)
  /\ space \in Nat
  /\ WithinSpace
Walked ==
  result = "walk" => Len(buf) <= cfg.limit + ip
Ended ==
  /\ result \in {"none", "walk", "null", "string"}
  /\ len = IF result = "string" THEN Len(buf) ELSE Unset

Inv == InProgram /\ Grown /\ Walked /\ Ended

-----------------------------------------------------------------------------
(* The text of an expression of literals: one escape after the other is    *)
(* found, and what is no escape is kept.                                   *)
EscapeOne(s) ==
  [i \in 1..Len(s) |->
     [e \in SUBSET (1..Len(s)) |->
        IF s[i] = DEREF_SYM /\ (i - 1) \notin e THEN e \cup {i} ELSE e]]

(* The escapes are places of the text. *)
LEMMA EscapesInside ==
  ASSUME NEW s \in Seq(Char)
  PROVE  Escapes(s) \subseteq 1..Len(s)
  <1> DEFINE Sets == SUBSET (1..Len(s))
             Equation(at) ==
               at = [i \in 0..Len(s) |->
                       IF i = 0 THEN {}
                       ELSE IF s[i] = DEREF_SYM /\ (i - 1) \notin at[i - 1]
                            THEN at[i - 1] \cup {i} ELSE at[i - 1]]
             at == CHOOSE f : Equation(f)
  <1>1. Len(s) \in Nat /\ 0 \in Int /\ Len(s) \in Int /\ {} \in Sets
    OBVIOUS
  <1>2. EscapeOne(s) \in [(0 + 1)..Len(s) -> [Sets -> Sets]]
    BY DEF EscapeOne
  <1>3. PICK f \in [0..Len(s) -> Sets] : Stepwise(f, 0, Len(s), {}, EscapeOne(s))
    <2> HIDE DEF Sets
    <2>1. QED
      BY <1>1, <1>2, StepwiseExists
  <1>4. Equation(f)
    <2>1. ASSUME NEW i \in 0..Len(s)
          PROVE  f[i] = IF i = 0 THEN {}
                        ELSE IF s[i] = DEREF_SYM /\ (i - 1) \notin f[i - 1]
                             THEN f[i - 1] \cup {i} ELSE f[i - 1]
      <3>1. i # 0 => i \in 1..Len(s) /\ f[i - 1] \in Sets
        BY <1>1
      <3>2. QED
        BY <1>3, <3>1 DEF Stepwise, EscapeOne
    <2>2. QED
      BY <2>1
  <1>5. Equation(at)
    <2> HIDE DEF Equation
    <2>1. QED
      BY <1>4
  <1>6. Escapes(s) = at[Len(s)]
    BY DEF Escapes
  <1> DEFINE Typed == {i \in 0..Len(s) : at[i] \in Sets}
  <1>7. 0..Len(s) \subseteq Typed
    <2> HIDE DEF at
    <2>1. 0 \in Typed
      BY <1>1, <1>5
    <2>2. ASSUME NEW i \in 0..(Len(s) - 1), i \in Typed
          PROVE  i + 1 \in Typed
      <3>1. i + 1 \in 1..Len(s) /\ i + 1 # 0 /\ (i + 1) - 1 = i
        BY <1>1
      <3>2. at[i + 1] \in {at[i], at[i] \cup {i + 1}}
        BY <1>5, <3>1
      <3>3. QED
        BY <2>2, <3>1, <3>2
    <2> HIDE DEF Typed
    <2>3. QED
      BY <1>1, <2>1, <2>2, IntervalInduction
  <1>8. QED
    <2> HIDE DEF at
    <2>1. QED
      BY <1>1, <1>6, <1>7

KeepOne(s) ==
  [i \in 1..Len(s) |->
     [k \in Seq(Char) |-> IF i \in Escapes(s) THEN k ELSE Append(k, s[i])]]

(* The text of an expression of literals has one character for each that   *)
(* is no escape.                                                           *)
LEMMA UnescapedLength ==
  ASSUME NEW s \in Seq(Char)
  PROVE  /\ Unescaped(s) \in Seq(Char)
         /\ Cardinality(Escapes(s)) \in Nat
         /\ Len(Unescaped(s)) = Len(s) - Cardinality(Escapes(s))
  <1> DEFINE Equation(kept) ==
               kept = [i \in 0..Len(s) |->
                         IF i = 0 THEN <<>>
                         ELSE IF i \in Escapes(s) THEN kept[i - 1]
                              ELSE Append(kept[i - 1], s[i])]
             kept == CHOOSE f : Equation(f)
  <1>1. /\ Len(s) \in Nat /\ 0 \in Int /\ Len(s) \in Int /\ <<>> \in Seq(Char)
        /\ \A i \in 1..Len(s) : s[i] \in Char
    OBVIOUS
  <1>2. KeepOne(s) \in [(0 + 1)..Len(s) -> [Seq(Char) -> Seq(Char)]]
    BY <1>1 DEF KeepOne
  <1>3. PICK f \in [0..Len(s) -> Seq(Char)] :
          Stepwise(f, 0, Len(s), <<>>, KeepOne(s))
    BY <1>1, <1>2, StepwiseExists
  <1>4. Equation(f)
    <2>1. ASSUME NEW i \in 0..Len(s)
          PROVE  f[i] = IF i = 0 THEN <<>>
                        ELSE IF i \in Escapes(s) THEN f[i - 1]
                             ELSE Append(f[i - 1], s[i])
      <3>1. i # 0 => i \in 1..Len(s) /\ f[i - 1] \in Seq(Char)
        BY <1>1
      <3>2. QED
        BY <1>3, <3>1 DEF Stepwise, KeepOne
    <2>2. QED
      BY <2>1
  <1>5. Equation(kept)
    <2> HIDE DEF Equation
    <2>1. QED
      BY <1>4
  <1>6. Unescaped(s) = kept[Len(s)]
    BY DEF Unescaped
  <1> DEFINE before(i) == Escapes(s) \cap (1..i)
             Counted == {i \in 0..Len(s) :
                           /\ kept[i] \in Seq(Char)
                           /\ IsFiniteSet(before(i))
                           /\ Cardinality(before(i)) \in Nat
                           /\ Len(kept[i]) = i - Cardinality(before(i))}
  <1>7. 0..Len(s) \subseteq Counted
    <2> HIDE DEF kept
    <2>1. 0 \in Counted
      <3>1. kept[0] = <<>>
        BY <1>1, <1>5
      <3>2. before(0) = {} /\ 0 \in 0..Len(s)
        BY <1>1
      <3>3. /\ IsFiniteSet(before(0)) /\ Cardinality(before(0)) = 0
            /\ kept[0] \in Seq(Char) /\ Len(kept[0]) = 0
        <4> HIDE DEF before
        <4>1. IsFiniteSet({}) /\ Cardinality({}) = 0
          BY FS_EmptySet
        <4>2. kept[0] \in Seq(Char) /\ Len(kept[0]) = 0
          BY <3>1
        <4>3. QED
          BY <3>2, <4>1, <4>2
      <3>4. QED
        BY <3>2, <3>3
    <2>2. ASSUME NEW i \in 0..(Len(s) - 1), i \in Counted
          PROVE  i + 1 \in Counted
      <3>1. i \in Nat /\ i + 1 \in 1..Len(s) /\ i + 1 # 0 /\ (i + 1) - 1 = i
        BY <1>1
      <3>2. kept[i + 1] = IF i + 1 \in Escapes(s) THEN kept[i]
                          ELSE Append(kept[i], s[i + 1])
        <4>1. i + 1 \in 0..Len(s)
          BY <1>1
        <4>2. kept[i + 1] = IF i + 1 = 0 THEN <<>>
                            ELSE IF i + 1 \in Escapes(s) THEN kept[(i + 1) - 1]
                                 ELSE Append(kept[(i + 1) - 1], s[i + 1])
          BY <1>5, <4>1
        <4>3. QED
          BY <3>1, <4>2
      <3>3. PICK k \in Seq(Char), n \in Nat :
              k = kept[i] /\ n = Cardinality(before(i)) /\ Len(k) = i - n
        BY <2>2
      <3>4. IsFiniteSet(before(i)) /\ s[i + 1] \in Char
        BY <1>1, <2>2, <3>1
      <3>5. SUFFICES /\ kept[i + 1] \in Seq(Char)
                     /\ IsFiniteSet(before(i + 1))
                     /\ Cardinality(before(i + 1)) \in Nat
                     /\ Len(kept[i + 1]) = (i + 1) - Cardinality(before(i + 1))
        BY <3>1
      <3>6. CASE i + 1 \in Escapes(s)
        <4>1. before(i + 1) = before(i) \cup {i + 1} /\ i + 1 \notin before(i)
          BY <3>1, <3>6
        <4> HIDE DEF before
        <4>2. /\ IsFiniteSet(before(i + 1))
              /\ Cardinality(before(i + 1)) = n + 1
          BY <3>3, <3>4, <4>1, FS_AddElement
        <4>3. kept[i + 1] = k
          BY <3>2, <3>3, <3>6
        <4>4. QED
          BY <3>1, <3>3, <4>2, <4>3
      <3>7. CASE i + 1 \notin Escapes(s)
        <4>1. before(i + 1) = before(i)
          BY <3>1, <3>7
        <4> HIDE DEF before
        <4>2. kept[i + 1] = Append(k, s[i + 1])
          BY <3>2, <3>3, <3>7
        <4>3. Len(kept[i + 1]) = Len(k) + 1 /\ kept[i + 1] \in Seq(Char)
          BY <3>4, <4>2
        <4>4. QED
          BY <3>1, <3>3, <3>4, <4>1, <4>3
      <3>8. QED
        BY <3>6, <3>7
    <2> HIDE DEF Counted
    <2>3. QED
      BY <1>1, <2>1, <2>2, IntervalInduction
  <1>8. before(Len(s)) = Escapes(s)
    BY EscapesInside
  <1>9. QED
    <2> HIDE DEF kept
    <2>1. Len(s) \in Counted
      BY <1>1, <1>7
    <2>2. QED
      BY <1>1, <1>6, <1>8, <2>1

-----------------------------------------------------------------------------
(* The search for a character outside a class finds a visible one, and 0   *)
(* only if the class holds them all.                                       *)
LEMMA FirstVisible ==
  ASSUME NEW S \in SUBSET Visible, S # {}
  PROVE  Min(S) \in S
  <1>1. S \subseteq Int /\ PRINTABLE_LOW \in Int /\ \A d \in S : PRINTABLE_LOW <= d
    BY RangesAssumption DEF Visible, Char
  <1> DEFINE T == {d - PRINTABLE_LOW : d \in S}
  <1>2. T \in SUBSET Nat /\ T # {}
    <2>1. \A d \in S : d - PRINTABLE_LOW \in Nat
      BY <1>1
    <2>2. QED
      BY <2>1
  <1>3. PICK n \in T : \A m \in T : n <= m
    <2> HIDE DEF T
    <2>1. QED
      BY <1>2, LeastNatural
  <1>4. PICK d \in S : n = d - PRINTABLE_LOW
    BY <1>3
  <1>5. ASSUME NEW e \in S PROVE d <= e
    <2>1. n <= e - PRINTABLE_LOW
      BY <1>3
    <2>2. d \in Int /\ e \in Int
      BY <1>1
    <2>3. QED
      BY <1>1, <1>4, <2>1, <2>2
  <1>6. QED
    BY <1>5 DEF Min

LEMMA FindNcharFinds ==
  ASSUME NEW ccs, NEW first \in Visible
  PROVE  \/ find_nchar(ccs, first) \in Visible \ ccs
         \/ Visible \subseteq ccs /\ find_nchar(ccs, first) = EndChar
  <1> DEFINE outside(low) == {c \in low..PRINTABLE_HIGH : c \notin ccs}
  <1>1. /\ outside(first) \in SUBSET (Visible \ ccs)
        /\ outside(PRINTABLE_LOW) = Visible \ ccs
    BY RangesAssumption DEF Visible, Char
  <1>2. find_nchar(ccs, first) =
          IF outside(first) # {} THEN Min(outside(first))
          ELSE IF outside(PRINTABLE_LOW) # {} THEN Min(outside(PRINTABLE_LOW))
          ELSE EndChar
    BY DEF find_nchar
  <1> HIDE DEF outside
  <1>3. outside(first) # {} => Min(outside(first)) \in Visible \ ccs
    BY <1>1, FirstVisible
  <1>4. outside(PRINTABLE_LOW) # {} => Min(outside(PRINTABLE_LOW)) \in Visible \ ccs
    BY <1>1, FirstVisible
  <1>5. QED
    BY <1>1, <1>2, <1>3, <1>4

-----------------------------------------------------------------------------
(* Control never leaves a program that rxvm_gen may be given, and only a   *)
(* branch leads back.                                                      *)
LEMMA StaysInside ==
  ASSUME NEW p, WellFormed(p), LoopsByBranch(p), NEW i \in DOMAIN p
  PROVE  /\ 0 \in DOMAIN p /\ DOMAIN p \subseteq Nat
         /\ p[i] \in Inst
         /\ p[i].op \in OpConsume \cup OpAnchor => i + 1 \in DOMAIN p
         /\ p[i].op \in {"branch", "jmp"} => p[i].x \in DOMAIN p
         /\ p[i].op = "branch" => p[i].y \in DOMAIN p /\ p[i].y > i
         /\ p[i].op = "jmp" => p[i].x > i
  <1>1. PICK n \in {j + 1 : j \in DOMAIN p} :
          /\ p \in [0..(n-1) -> Inst]
          /\ \A j \in 0..(n-1) :
               /\ p[j].op \in OpConsume \cup OpAnchor => j + 1 < n
               /\ p[j].op \in {"branch", "jmp"} => p[j].x \in 0..(n-1)
               /\ p[j].op = "branch" => p[j].y \in 0..(n-1)
    BY DEF WellFormed
  <1>2. DOMAIN p = 0..(n-1)
    BY <1>1
  <1>3. n \in Nat
    BY <1>1, <1>2
  <1>4. QED
    BY <1>1, <1>2, <1>3 DEF LoopsByBranch

LEMMA ZeroInside ==
  ASSUME NEW p, WellFormed(p)
  PROVE  0 \in DOMAIN p
  <1>1. PICK n \in {j + 1 : j \in DOMAIN p} : p \in [0..(n-1) -> Inst]
    BY DEF WellFormed
  <1>2. PICK j \in DOMAIN p : n = j + 1
    BY <1>1
  <1>3. QED
    BY <1>1, <1>2

LEMMA WalkStaysInside ==
  ASSUME InProgram
  PROVE  /\ cfg.limit \in Nat
         /\ 0 \in PCs /\ PCs \subseteq Nat
         /\ inst \in Inst
         /\ inst.op \in OpConsume \cup OpAnchor => ip + 1 \in PCs
         /\ inst.op \in {"branch", "jmp"} => inst.x \in PCs
         /\ inst.op = "branch" => inst.y \in PCs /\ inst.y > ip
         /\ inst.op = "jmp" => inst.x > ip
  <1>1. WellFormed(prog) /\ LoopsByBranch(prog) /\ cfg.limit \in Nat
    BY CallsAssumption DEF InProgram
  <1>2. ip \in DOMAIN prog
    BY DEF InProgram, PCs
  <1>3. QED
    BY <1>1, <1>2, StaysInside DEF PCs, inst

(* strb_addc writes one byte and keeps it within the allocation. *)
LEMMA AddcKeeps ==
  ASSUME NEW S, NEW c \in S, buf \in Seq(S), space \in Nat, WithinSpace, Addc(c)
  PROVE  /\ buf' \in Seq(S) /\ Len(buf') = Len(buf) + 1
         /\ space' \in Nat
         /\ WithinSpace'
  <1>1. buf' \in Seq(S) /\ Len(buf') = Len(buf) + 1 /\ Len(buf) \in Nat
    BY DEF Addc
  <1>2. space' \in Nat /\ Len(buf') <= space'
    BY <1>1, BlockAssumption DEF Addc, Full, WithinSpace
  <1>3. QED
    BY <1>1, <1>2 DEF WithinSpace

-----------------------------------------------------------------------------
(* One lemma for each kind of step of the walk *)

LEMMA InitInv == Init => Inv
  <1> SUFFICES ASSUME Init PROVE Inv
    OBVIOUS
  <1>1. cfg \in Calls /\ prog = cfg.prog /\ WellFormed(prog) /\ LoopsByBranch(prog)
    BY CallsAssumption DEF Init
  <1>2. 0 \in DOMAIN prog
    BY <1>1, ZeroInside
  <1>3. InProgram
    BY <1>1, <1>2 DEF Init, InProgram, PCs
  <1>4. Grown /\ Walked /\ Ended
    BY DEF Init, Grown, Walked, Ended, WithinSpace
  <1>5. QED
    BY <1>3, <1>4 DEF Inv

(* A byte is written and the walk is one instruction further: the bound    *)
(* moves with the walk.                                                    *)
LEMMA WriteKeeps ==
  ASSUME Inv, result = "walk", inst.op \in OpConsume \cup OpAnchor,
         NEW c \in Bytes, Write(c)
  PROVE  Inv'
  <1>1. /\ cfg.limit \in Nat /\ ip \in Nat /\ ip + 1 \in PCs
        /\ buf \in Seq(Bytes) /\ space \in Nat /\ WithinSpace
        /\ Len(buf) <= cfg.limit + ip
    BY WalkStaysInside DEF Inv, InProgram, Grown, Walked
  <1>2. UNCHANGED <<cfg, prog, len, result>> /\ ip' = ip + 1
    BY DEF Write, callVars, retVars
  <1>3. /\ buf' \in Seq(Bytes) /\ Len(buf') = Len(buf) + 1
        /\ space' \in Nat /\ WithinSpace'
    BY <1>1, AddcKeeps DEF Write
  <1>4. InProgram'
    BY <1>1, <1>2 DEF Inv, InProgram, PCs
  <1>5. Len(buf) \in Nat
    BY <1>1
  <1>6. Ended'
    BY <1>2 DEF Inv, Ended
  <1>7. QED
    BY <1>1, <1>2, <1>3, <1>4, <1>5, <1>6 DEF Inv, Grown, Walked

(* Nothing is written and the walk goes on to `to`: further on, or back    *)
(* below the limit.                                                        *)
LEMMA MoveKeeps ==
  ASSUME Inv, result = "walk", UNCHANGED <<callVars, strbVars, retVars>>,
         ip' \in PCs, ip' > ip \/ Len(buf) < cfg.limit
  PROVE  Inv'
  <1>1. /\ cfg.limit \in Nat /\ ip \in Nat /\ ip' \in Nat
        /\ buf \in Seq(Bytes)
        /\ Len(buf) <= cfg.limit + ip
    BY WalkStaysInside DEF Inv, InProgram, Grown, Walked
  <1>2. UNCHANGED <<cfg, prog, buf, space, len, result>>
    BY DEF callVars, strbVars, retVars
  <1>3. InProgram'
    BY <1>2 DEF Inv, InProgram, PCs
  <1>4. Grown' /\ Ended'
    BY <1>2 DEF Inv, Grown, Ended, WithinSpace
  <1>5. Len(buf) \in Nat
    BY <1>1
  <1>6. Len(buf') <= cfg'.limit + ip'
    BY <1>1, <1>2, <1>5
  <1>7. Walked'
    BY <1>1, <1>2, <1>6 DEF Walked
  <1>8. QED
    BY <1>3, <1>4, <1>7 DEF Inv

(* The walk is over, or was never one: only the string builder counts.     *)
LEMMA EndKeeps ==
  ASSUME Inv, UNCHANGED <<callVars, ip>>, result' # "walk", Grown', Ended'
  PROVE  Inv'
  BY DEF Inv, InProgram, PCs, Walked, callVars

-----------------------------------------------------------------------------
(* A text without its escapes fits the allocation made for it with them.   *)
LEMMA SimpleKeeps ==
  ASSUME Inv, GenSimple
  PROVE  Inv'
  <1>1. UNCHANGED <<callVars, ip>> /\ result = "none"
    BY DEF GenSimple
  <1>2. CASE UNCHANGED <<strbVars, len>> /\ result' = "null"
    <2>1. Grown' /\ Ended'
      BY <1>1, <1>2 DEF Inv, Grown, Ended, WithinSpace, strbVars
    <2>2. QED
      BY <1>1, <1>2, <2>1, EndKeeps
  <1>3. CASE /\ buf' = Append(Unescaped(cfg.simple), EndChar)
             /\ space' = Len(cfg.simple) + 1
             /\ len' = Len(cfg.simple) + 1 - Cardinality(Escapes(cfg.simple))
             /\ result' = "string"
    <2>1. PICK s \in Seq(Char) : s = cfg.simple
      BY CallsAssumption DEF Inv, InProgram
    <2>2. PICK n \in Nat, k \in Nat, u \in Seq(Bytes) :
            /\ n = Len(cfg.simple) /\ k = Cardinality(Escapes(cfg.simple))
            /\ u = Unescaped(cfg.simple) /\ Len(u) = n - k
      <3>1. Seq(Char) \subseteq Seq(Bytes)
        BY DEF Bytes
      <3>2. /\ Unescaped(s) \in Seq(Bytes)
            /\ Cardinality(Escapes(s)) \in Nat
            /\ Len(Unescaped(s)) = Len(s) - Cardinality(Escapes(s))
        BY <3>1, UnescapedLength
      <3>3. Len(s) \in Nat
        OBVIOUS
      <3>4. QED
        BY <2>1, <3>2, <3>3
    <2>3. PICK w \in Seq(Bytes) : w = Append(u, EndChar) /\ Len(w) = n - k + 1
      <3>1. EndChar \in Bytes
        BY DEF Bytes
      <3>2. Append(u, EndChar) \in Seq(Bytes) /\ Len(Append(u, EndChar)) = Len(u) + 1
        BY <2>2, <3>1
      <3>3. QED
        BY <2>2, <3>2
    <2>4. buf' = w /\ space' = n + 1 /\ len' = n + 1 - k
      BY <1>3, <2>2, <2>3
    <2>5. Grown' /\ Ended'
      BY <1>3, <2>2, <2>3, <2>4 DEF Grown, Ended, WithinSpace
    <2>6. QED
      BY <1>1, <1>3, <2>5, EndKeeps
  <1>4. QED
    BY <1>2, <1>3 DEF GenSimple

(* The limit steers a branch: once it is reached only the second address   *)
(* is chosen, and that leads forward.                                      *)
LEMMA BranchKeeps ==
  ASSUME Inv, GenBranch
  PROVE  Inv'
  <1>1. inst.op = "branch" /\ result = "walk" /\ ip' \in Targets
    BY DEF GenBranch, At
  <1>2. inst.x \in PCs /\ inst.y \in PCs /\ inst.y > ip /\ cfg.limit \in Nat
    BY <1>1, WalkStaysInside DEF Inv
  <1>3. buf \in Seq(Bytes)
    BY DEF Inv, Grown
  <1>4. ip' \in {inst.x, inst.y}
    BY <1>1 DEF Targets
  <1>5. CASE Len(buf) >= cfg.limit
    <2>1. ip' = inst.y
      BY <1>1, <1>5 DEF Targets, May, MayNot
    <2>2. QED
      BY <1>1, <1>2, <2>1, MoveKeeps DEF GenBranch
  <1>6. CASE ~(Len(buf) >= cfg.limit)
    <2>1. Len(buf) < cfg.limit
      BY <1>2, <1>3, <1>6
    <2>2. QED
      BY <1>1, <1>2, <1>4, <2>1, MoveKeeps DEF GenBranch
  <1>7. QED
    BY <1>5, <1>6

LEMMA PassKeeps ==
  ASSUME Inv, result = "walk", inst.op \in OpConsume \cup OpAnchor, Pass
  PROVE  Inv'
  <1>1. ip \in Nat /\ ip + 1 \in PCs
    BY WalkStaysInside DEF Inv, InProgram
  <1>2. ip' \in PCs /\ ip' > ip
    BY <1>1 DEF Pass
  <1>3. QED
    BY <1>2, MoveKeeps DEF Pass

(* Whatever a step of the walk writes is a byte. *)
LEMMA StepKeeps == Inv /\ [Next]_vars => Inv'
  <1> SUFFICES ASSUME Inv, [Next]_vars PROVE Inv'
    OBVIOUS
  <1>1. CASE GenSimple
    BY <1>1, SimpleKeeps
  <1>2. CASE Begin
    <2>1. UNCHANGED <<callVars, ip, len>> /\ result = "none"
      BY <1>2 DEF Begin
    <2>2. CASE strb_init /\ result' = "walk"
      <3>1. buf' = <<>> /\ space' \in Nat /\ Len(buf') = 0 /\ Len(buf') <= space'
        BY <2>2, BlockAssumption DEF strb_init
      <3>2. cfg.limit \in Nat /\ ip \in Nat
        BY WalkStaysInside DEF Inv, InProgram
      <3>3. InProgram'
        BY <2>1 DEF Inv, InProgram, PCs, callVars
      <3>4. Grown'
        BY <3>1 DEF Grown, WithinSpace
      <3>5. Walked'
        BY <2>1, <3>1, <3>2 DEF Walked, callVars
      <3>6. Ended'
        BY <2>1, <2>2 DEF Inv, Ended
      <3>7. QED
        BY <3>3, <3>4, <3>5, <3>6 DEF Inv
    <2>3. CASE UNCHANGED strbVars /\ result' = "null"
      <3>1. Grown' /\ Ended'
        BY <2>1, <2>3 DEF Inv, Grown, Ended, WithinSpace, strbVars
      <3>2. QED
        BY <2>1, <2>3, <3>1, EndKeeps
    <2>4. QED
      BY <1>2, <2>2, <2>3 DEF Begin
  <1>3. CASE GenChar
    <2>1. result = "walk" /\ inst.op = "char" /\ Write(inst.c)
      BY <1>3 DEF GenChar, At
    <2>2. inst.c \in Bytes
      BY WalkStaysInside DEF Inv, Inst, Bytes
    <2>3. QED
      BY <2>1, <2>2, WriteKeeps DEF OpConsume
  <1>4. CASE GenAny
    <2>1. result = "walk" /\ inst.op = "any"
      BY <1>4 DEF GenAny, At
    <2>2. \E c \in Bytes : Write(c)
      BY <1>4, RangesAssumption DEF GenAny, Bytes, Char, NL
    <2>3. QED
      BY <2>1, <2>2, WriteKeeps DEF OpConsume
  <1>5. CASE GenSol
    <2>1. result = "walk" /\ inst.op = "sol" /\ (Write(NL) \/ Pass)
      BY <1>5 DEF GenSol, At
    <2>2. NL \in Bytes
      BY DEF Bytes, Char, NL, EndChar
    <2>3. QED
      BY <2>1, <2>2, WriteKeeps, PassKeeps DEF OpAnchor
  <1>6. CASE GenEol
    <2>1. result = "walk" /\ inst.op = "eol" /\ (Write(NL) \/ Pass)
      BY <1>6 DEF GenEol, At
    <2>2. NL \in Bytes
      BY DEF Bytes, Char, NL, EndChar
    <2>3. QED
      BY <2>1, <2>2, WriteKeeps, PassKeeps DEF OpAnchor
  <1>7. CASE GenClass
    <2>1. PICK c \in inst.ccs : result = "walk" /\ inst.op = "class" /\ Write(c)
      BY <1>7 DEF GenClass, At
    <2>2. c \in Bytes
      BY <2>1, WalkStaysInside DEF Inv, Inst, Bytes
    <2>3. QED
      BY <2>1, <2>2, WriteKeeps DEF OpConsume
  <1>8. CASE GenNclass
    <2>1. PICK c \in PRINTABLE_LOW..PRINTABLE_HIGH :
            result = "walk" /\ inst.op = "nclass" /\ Write(find_nchar(inst.ccs, c))
      BY <1>8 DEF GenNclass, At
    <2>2. find_nchar(inst.ccs, c) \in Bytes
      BY FindNcharFinds, RangesAssumption DEF Visible, Bytes
    <2>3. QED
      BY <2>1, <2>2, WriteKeeps DEF OpConsume
  <1>9. CASE GenBranch
    BY <1>9, BranchKeeps
  <1>10. CASE GenJmp
    <2>1. result = "walk" /\ inst.op = "jmp" /\ ip' = inst.x
      BY <1>10 DEF GenJmp, At
    <2>2. ip' \in PCs /\ ip' > ip
      BY <2>1, WalkStaysInside DEF Inv
    <2>3. QED
      BY <1>10, <2>1, <2>2, MoveKeeps DEF GenJmp
  <1>11. CASE GenFinish
    <2>1. UNCHANGED <<callVars, ip>> /\ result' = "string" /\ len' = Len(buf')
      BY <1>11 DEF GenFinish
    <2>2. EndChar \in Bytes
      BY DEF Bytes
    <2>3. Grown'
      BY <1>11, <2>2, AddcKeeps DEF GenFinish, Inv, Grown
    <2>4. Ended'
      BY <2>1 DEF Ended
    <2>5. QED
      BY <2>1, <2>3, <2>4, EndKeeps
  <1>12. CASE GenNoMemory
    <2>1. UNCHANGED <<callVars, strbVars, ip, len>> /\ result' = "null"
      BY <1>12 DEF GenNoMemory, AddcFails
    <2>2. result = "walk"
      BY <1>12 DEF GenNoMemory, Adds, At
    <2>3. Grown' /\ Ended'
      BY <2>1, <2>2 DEF Inv, Grown, Ended, WithinSpace, strbVars
    <2>4. QED
      BY <2>1, <2>3, EndKeeps
  <1>13. CASE Returned \/ UNCHANGED vars
    <2>1. UNCHANGED vars
      BY <1>13 DEF Returned
    <2>2. QED
      BY <2>1 DEF vars, Inv, InProgram, Grown, Walked, Ended, PCs, WithinSpace
  <1>14. QED
    BY <1>1, <1>2, <1>3, <1>4, <1>5, <1>6, <1>7, <1>8, <1>9, <1>10, <1>11,
       <1>12,
       <1>13 DEF Next

-----------------------------------------------------------------------------
THEOREM GenInvariance == Spec => []Inv
  BY InitInv, StepKeeps, PTL DEF Spec

(* Every variable of rxvm_gen keeps its type: the walk stays in its        *)
(* program and writes characters, and a returned length is that of the     *)
(* string.                                                                 *)
THEOREM GenTypeCorrect == Spec => []TypeOK
  <1>1. Inv => TypeOK
    BY DEF Inv, InProgram, Grown, Ended, Bytes, TypeOK, Unset
  <1>2. QED
    BY GenInvariance, <1>1, PTL

(* The string is never longer than the limit and one byte for each         *)
(* instruction behind the walk: once the limit is reached no choice of     *)
(* randinput.c:150 leads back.                                             *)
THEOREM GeneratedBounded == Spec => []SizeBounded
  <1>1. Inv => SizeBounded
    BY DEF Inv, Walked, SizeBounded
  <1>2. QED
    BY GenInvariance, <1>1, PTL

(* rxvm_gen writes no byte past the allocation of its string, the          *)
(* terminator included, for every block size.                              *)
THEOREM StringWithinSpace == Spec => []StrbWithinSpace
  <1>1. Inv => StrbWithinSpace
    BY DEF Inv, Grown, StrbWithinSpace
  <1>2. QED
    BY GenInvariance, <1>1, PTL

(* The length that is returned is the number of bytes written, the null    *)
(* character included, whichever of the two ways they were written in.     *)
LengthRight == result = "string" => len = Len(buf)
THEOREM ReportsItsLength == Spec => []LengthRight
  <1>1. Inv => LengthRight
    BY DEF Inv, Ended, LengthRight
  <1>2. QED
    BY GenInvariance, <1>1, PTL

-----------------------------------------------------------------------------
(* The automaton of a program, on the string w: the recursion in Standing  *)
(* is well founded, so that its equation holds.                            *)
OneStep(p, w) ==
  [e \in 1..Len(w) |->
     [S \in SUBSET DOMAIN p |-> Matcher(p, w)!Closure(Matcher(p, w)!Delta(S, e - 1), e)]]

LEMMA MatcherInside ==
  ASSUME NEW p, WellFormed(p), NEW w \in Seq(Char)
  PROVE  /\ 0 \in DOMAIN p
         /\ \A S \in SUBSET DOMAIN p : \A k :
              /\ Matcher(p, w)!Closure(S, k) \in SUBSET DOMAIN p
              /\ Matcher(p, w)!Delta(S, k) \in SUBSET DOMAIN p
  <1>1. PICK n \in {j + 1 : j \in DOMAIN p} :
          /\ p \in [0..(n-1) -> Inst]
          /\ \A j \in 0..(n-1) :
               p[j].op \in OpConsume \cup OpAnchor => j + 1 < n
    BY DEF WellFormed
  <1>2. DOMAIN p = 0..(n-1) /\ n \in Nat /\ n > 0
    BY <1>1
  <1>3. ASSUME NEW q \in DOMAIN p, NEW c, Matcher(p, w)!Takes(q, c)
        PROVE  q + 1 \in DOMAIN p
    <2>1. p[q].op \in OpConsume
      BY <1>3 DEF Matcher!Takes, OpConsume
    <2>2. QED
      BY <1>1, <1>2, <2>1
  <1>4. ASSUME NEW S \in SUBSET DOMAIN p, NEW k
        PROVE  /\ Matcher(p, w)!Closure(S, k) \in SUBSET DOMAIN p
               /\ Matcher(p, w)!Delta(S, k) \in SUBSET DOMAIN p
    BY <1>3 DEF Matcher!Closure, Matcher!ClosureAt, Matcher!PCs, Matcher!Delta
  <1>5. 0 \in DOMAIN p
    BY <1>2
  <1>6. QED
    BY <1>4, <1>5

LEMMA StandingUnfolds ==
  ASSUME NEW p, WellFormed(p), NEW w \in Seq(Char)
  PROVE  /\ \A e \in 0..Len(w) : Matcher(p, w)!Standing(0)[e] \in SUBSET DOMAIN p
         /\ Matcher(p, w)!Standing(0)[0] = Matcher(p, w)!Closure({0}, 0)
         /\ \A e \in 0..(Len(w) - 1) :
              Matcher(p, w)!Standing(0)[e + 1] =
                Matcher(p, w)!Closure(
                  Matcher(p, w)!Delta(Matcher(p, w)!Standing(0)[e], e), e + 1)
  <1> DEFINE Closed(S, k) == Matcher(p, w)!Closure(S, k)
             Read(S, k) == Matcher(p, w)!Delta(S, k)
             St == Matcher(p, w)!Standing(0)
             Equation(at) ==
               at = [e \in 0..Len(w) |->
                       IF e = 0 THEN Closed({0}, e)
                       ELSE Closed(Read(at[e - 1], e - 1), e)]
  <1>1. Len(w) \in Nat /\ Len(w) \in Int /\ 0 \in Int /\ Closed({0}, 0) \in SUBSET DOMAIN p
    BY MatcherInside
  <1>2. OneStep(p, w) \in [(0 + 1)..Len(w) -> [SUBSET DOMAIN p -> SUBSET DOMAIN p]]
    <2>1. \A e \in 1..Len(w) : \A S \in SUBSET DOMAIN p :
            Closed(Read(S, e - 1), e) \in SUBSET DOMAIN p
      BY MatcherInside
    <2>2. OneStep(p, w) = [e \in 1..Len(w) |->
                             [S \in SUBSET DOMAIN p |-> Closed(Read(S, e - 1), e)]]
      BY DEF OneStep
    <2> HIDE DEF Closed, Read
    <2>3. OneStep(p, w) \in [1..Len(w) -> [SUBSET DOMAIN p -> SUBSET DOMAIN p]]
      BY <2>1, <2>2
    <2>4. (0 + 1)..Len(w) = 1..Len(w)
      OBVIOUS
    <2>5. QED
      BY <2>3, <2>4, Zenon
  <1>3. PICK f \in [0..Len(w) -> SUBSET DOMAIN p] :
          Stepwise(f, 0, Len(w), Closed({0}, 0), OneStep(p, w))
    <2> HIDE DEF Closed
    <2>1. QED
      BY <1>1, <1>2, StepwiseExists
  <1>4. Equation(f)
    <2>1. ASSUME NEW e \in 0..Len(w)
          PROVE  f[e] = IF e = 0 THEN Closed({0}, e)
                        ELSE Closed(Read(f[e - 1], e - 1), e)
      <3>1. e # 0 => e \in 1..Len(w) /\ f[e - 1] \in SUBSET DOMAIN p
        BY <1>1
      <3>2. QED
        BY <1>3, <3>1 DEF Stepwise, OneStep
    <2>2. QED
      BY <2>1
  <1>5. St = CHOOSE at : Equation(at)
    BY DEF Matcher!Standing
  <1>6. Equation(St)
    <2> HIDE DEF Equation, St
    <2>1. QED
      BY <1>4, <1>5
  <1>7. \A e \in 0..(Len(w) - 1) : St[e + 1] = Closed(Read(St[e], e), e + 1)
    <2> HIDE DEF St, Closed, Read
    <2>1. QED
      BY <1>1, <1>6
  <1>8. St[0] = Closed({0}, 0)
    <2> HIDE DEF St, Closed, Read
    <2>1. QED
      BY <1>1, <1>6
  <1> DEFINE Typed == {e \in 0..Len(w) : St[e] \in SUBSET DOMAIN p}
  <1>9. 0..Len(w) \subseteq Typed
    <2>1. 0 \in Typed
      BY <1>1, <1>8
    <2>2. ASSUME NEW e \in 0..(Len(w) - 1), e \in Typed
          PROVE  e + 1 \in Typed
      <3>1. Closed(Read(St[e], e), e + 1) \in SUBSET DOMAIN p
        BY <2>2, MatcherInside
      <3>2. QED
        BY <1>1, <1>7, <3>1
    <2> HIDE DEF Typed
    <2>3. QED
      BY <1>1, <2>1, <2>2, IntervalInduction
  <1>10. QED
    BY <1>7, <1>8, <1>9

(* The automaton stands at 0 at first, and wherever a move leads from a    *)
(* place it stands at.                                                     *)
LEMMA StandingFollows ==
  ASSUME NEW p, WellFormed(p), NEW w \in Seq(Char)
  PROVE  /\ 0 \in Matcher(p, w)!Standing(0)[0]
         /\ \A k \in 0..Len(w) : \A q \in Matcher(p, w)!Standing(0)[k] :
              Matcher(p, w)!Moves(q, k) \subseteq Matcher(p, w)!Standing(0)[k]
         /\ \A k \in 0..(Len(w) - 1) : \A q \in Matcher(p, w)!Standing(0)[k] :
              Matcher(p, w)!Takes(q, w[k + 1]) =>
                q + 1 \in Matcher(p, w)!Standing(0)[k + 1]
  <1> DEFINE Closed(S, k) == Matcher(p, w)!Closure(S, k)
             Read(S, k) == Matcher(p, w)!Delta(S, k)
             St == Matcher(p, w)!Standing(0)
  <1>1. ASSUME NEW S \in SUBSET DOMAIN p, NEW k
        PROVE  /\ S \subseteq Closed(S, k)
               /\ \A q \in Closed(S, k) :
                    Matcher(p, w)!Moves(q, k) \cap DOMAIN p
                      \subseteq Closed(S, k)
    BY DEF Matcher!Closure, Matcher!ClosureAt, Matcher!ClosedAt, Matcher!PCs
  <1>2. ASSUME NEW q \in DOMAIN p, NEW k
        PROVE  Matcher(p, w)!Moves(q, k) \subseteq DOMAIN p
    <2>1. PICK n \in {j + 1 : j \in DOMAIN p} :
            /\ p \in [0..(n-1) -> Inst]
            /\ \A j \in 0..(n-1) :
                 /\ p[j].op \in OpConsume \cup OpAnchor => j + 1 < n
                 /\ p[j].op \in {"branch", "jmp"} => p[j].x \in 0..(n-1)
                 /\ p[j].op = "branch" => p[j].y \in 0..(n-1)
      BY DEF WellFormed
    <2>2. DOMAIN p = 0..(n-1) /\ n \in Nat
      BY <2>1
    <2>3. QED
      BY <2>1, <2>2 DEF Matcher!Moves, OpAnchor
  <1>3. \A k \in 0..(Len(w) - 1) : St[k + 1] = Closed(Read(St[k], k), k + 1)
    BY StandingUnfolds
  <1>4. St[0] = Closed({0}, 0) /\ {0} \in SUBSET DOMAIN p
    BY StandingUnfolds, MatcherInside
  <1>5. \A k \in 0..Len(w) : \E S \in SUBSET DOMAIN p : St[k] = Closed(S, k)
    <2>1. ASSUME NEW k \in 0..Len(w)
          PROVE  \E S \in SUBSET DOMAIN p : St[k] = Closed(S, k)
      <3>1. CASE k = 0
        BY <1>4, <3>1
      <3>2. CASE k # 0
        <4>1. k - 1 \in 0..(Len(w) - 1) /\ (k - 1) + 1 = k /\ k - 1 \in 0..Len(w)
          BY <3>2
        <4>2. St[k - 1] \in SUBSET DOMAIN p
          BY <4>1, StandingUnfolds
        <4>3. Read(St[k - 1], k - 1) \in SUBSET DOMAIN p
          BY <4>2, MatcherInside
        <4>4. St[(k - 1) + 1] = Closed(Read(St[k - 1], k - 1), (k - 1) + 1)
          BY <1>3, <4>1
        <4>5. QED
          BY <4>1, <4>3, <4>4
      <3>3. QED
        BY <3>1, <3>2
    <2>2. QED
      BY <2>1
  <1>6. \A k \in 0..Len(w) : St[k] \in SUBSET DOMAIN p
    BY StandingUnfolds
  <1>7. 0 \in St[0]
    BY <1>1, <1>4
  <1>8. ASSUME NEW k \in 0..Len(w), NEW q \in St[k]
        PROVE  Matcher(p, w)!Moves(q, k) \subseteq St[k]
    <2>1. PICK S \in SUBSET DOMAIN p : St[k] = Closed(S, k)
      BY <1>5
    <2>2. q \in DOMAIN p
      BY <1>6
    <2>3. QED
      BY <1>1, <1>2, <2>1, <2>2
  <1>9. ASSUME NEW k \in 0..(Len(w) - 1), NEW q \in St[k],
               Matcher(p, w)!Takes(q, w[k + 1])
        PROVE  q + 1 \in St[k + 1]
    <2>1. k \in 0..Len(w) /\ k < Len(w)
      OBVIOUS
    <2>2. Matcher(p, w)!CharAt(k) = w[k + 1]
      BY <2>1 DEF Matcher!CharAt
    <2>3. q + 1 \in Read(St[k], k)
      BY <1>9, <2>2 DEF Matcher!Delta
    <2>4. Read(St[k], k) \in SUBSET DOMAIN p
      BY <1>6, <2>1, MatcherInside
    <2>5. QED
      BY <1>1, <1>3, <2>3, <2>4
  <1>10. QED
    BY <1>7, <1>8, <1>9

-----------------------------------------------------------------------------
(* What the walk has written takes the automaton to where the walk stands, *)
(* whatever is written behind it; only where a newline comes next it has   *)
(* to be there, for the eol before it looks at it.                         *)
Held == AnchorsHeld(prog) /\ CharsHeld(prog)
Continues(b, w, next) ==
  /\ Len(b) <= Len(w) /\ \A i \in 1..Len(b) : w[i] = b[i]
  /\ next = IChar(NL) => Len(b) < Len(w) /\ w[Len(b) + 1] = NL
OnPath ==
  \A w \in Seq(Char) :
    Continues(buf, w, inst) => ip \in Matcher(prog, w)!Standing(0)[Len(buf)]
AtLineStart ==
  \A T \in SUBSET PCs :
    LineStarts(prog, T) /\ ip \in T => buf = <<>> \/ buf[Len(buf)] = NL
Following ==
  Held =>
    /\ result = "none" => ip = 0
    /\ result = "walk" => buf \in Seq(Char) /\ OnPath /\ AtLineStart
    /\ GeneratedMatches

LEMMA WriteFollows ==
  ASSUME Inv, Following, Held, result = "walk", inst.op \in OpConsume,
         NEW c \in Char, Write(c),
         inst = IChar(NL) => c = NL,
         \A w \in Seq(Char) : Matcher(prog, w)!Takes(ip, c)
  PROVE  Following'
  <1>0. buf \in Seq(Char)
    BY DEF Following
  <1>1. PICK p, i, b : p = prog /\ i = ip /\ b = buf /\ b \in Seq(Char)
    BY <1>0
  <1>2. WellFormed(p) /\ i \in Nat
    BY <1>1, WalkStaysInside, CallsAssumption DEF Inv, InProgram
  <1>3. PICK d : d = Append(b, c) /\ d \in Seq(Char)
    BY <1>1, AppendProperties
  <1>4. /\ prog' = p /\ ip' = i + 1 /\ buf' = d /\ result' = "walk"
        /\ Len(d) = Len(b) + 1 /\ Len(b) \in Nat
        /\ d[Len(b) + 1] = c /\ \A j \in 1..Len(b) : d[j] = b[j]
    BY <1>1, <1>3 DEF Write, Addc, callVars, retVars
  <1>5. OnPath'
    <2>1. ASSUME NEW w \in Seq(Char), Len(d) <= Len(w),
                 \A j \in 1..Len(d) : w[j] = d[j]
          PROVE  i + 1 \in Matcher(p, w)!Standing(0)[Len(d)]
      <3>1. /\ Len(b) \in 0..(Len(w) - 1) /\ w[Len(b) + 1] = c
            /\ \A j \in 1..Len(b) : w[j] = b[j]
        BY <1>4, <2>1
      <3>2. Continues(buf, w, inst)
        BY <1>1, <1>4, <3>1 DEF Continues, inst
      <3>3. i \in Matcher(p, w)!Standing(0)[Len(b)]
        BY <1>1, <3>2 DEF Following, OnPath
      <3>4. Matcher(p, w)!Takes(i, w[Len(b) + 1])
        BY <1>1, <3>1
      <3>5. QED
        BY <1>2, <1>4, <3>1, <3>3, <3>4, StandingFollows
    <2>2. QED
      BY <1>4, <2>1 DEF OnPath, Continues
  <1>6. AtLineStart'
    <2>1. ASSUME NEW T \in SUBSET DOMAIN p, LineStarts(p, T), i + 1 \in T
          PROVE  d[Len(d)] = NL
      <3>1. i \in DOMAIN p /\ p[i].op \in OpConsume
        BY <1>1 DEF Inv, InProgram, PCs, inst
      <3>2. i + 1 \in Onward(p, i)
        BY <3>1 DEF Onward, OpConsume
      <3>3. p[i] = IChar(NL)
        BY <2>1, <3>1, <3>2 DEF LineStarts
      <3>4. QED
        BY <1>1, <1>4, <3>3 DEF inst
    <2>2. QED
      BY <1>4, <2>1 DEF AtLineStart, PCs
  <1>7. buf' \in Seq(Char) /\ result' \notin {"none", "string"}
    BY <1>3, <1>4
  <1>8. GeneratedMatches'
    BY <1>7 DEF GeneratedMatches
  <1>9. QED
    BY <1>5, <1>6, <1>7, <1>8 DEF Following

(* Nothing is written: the automaton moves as the walk does. *)
LEMMA MoveFollows ==
  ASSUME Inv, Following, Held, result = "walk", inst.op \notin OpConsume,
         UNCHANGED <<callVars, strbVars, retVars>>,
         ip' \in Onward(prog, ip),
         \A w \in Seq(Char) :
           Continues(buf, w, prog[ip']) =>
             ip' \in Matcher(prog, w)!Moves(ip, Len(buf))
  PROVE  Following'
  <1>0. buf \in Seq(Char)
    BY DEF Following
  <1>1. PICK p, i, j, b : p = prog /\ i = ip /\ j = ip' /\ b = buf /\ b \in Seq(Char)
    BY <1>0
  <1>2. WellFormed(p) /\ i \in DOMAIN p
    BY <1>1, CallsAssumption DEF Inv, InProgram, PCs
  <1>3. /\ prog' = p /\ ip' = j /\ buf' = b /\ result' = "walk"
        /\ Len(b) \in Nat
    BY <1>1 DEF callVars, strbVars, retVars
  <1>4. p[i] # IChar(NL)
    BY <1>1 DEF IChar, Blank, OpConsume, inst
  <1>5. OnPath'
    <2>1. ASSUME NEW w \in Seq(Char), Continues(b, w, p[j])
          PROVE  j \in Matcher(p, w)!Standing(0)[Len(b)]
      <3>1. Len(b) \in 0..Len(w)
        BY <1>3, <2>1 DEF Continues
      <3>2. Continues(buf, w, inst)
        BY <1>1, <1>4, <2>1 DEF Continues, inst
      <3>3. i \in Matcher(p, w)!Standing(0)[Len(b)]
        BY <1>1, <3>2 DEF Following, OnPath
      <3>4. j \in Matcher(p, w)!Moves(i, Len(b))
        BY <1>1, <2>1
      <3>5. QED
        BY <1>2, <3>1, <3>3, <3>4, StandingFollows
    <2>2. QED
      BY <1>3, <2>1 DEF OnPath, inst
  <1>6. AtLineStart'
    <2>1. ASSUME NEW T \in SUBSET DOMAIN p, LineStarts(p, T), j \in T
          PROVE  b = <<>> \/ b[Len(b)] = NL
      <3>1. i \in T
        BY <1>1, <1>2, <1>4, <2>1 DEF LineStarts
      <3>2. QED
        BY <1>1, <2>1, <3>1 DEF Following, AtLineStart, PCs
    <2>2. QED
      BY <1>3, <2>1 DEF AtLineStart, PCs
  <1>7. buf' \in Seq(Char) /\ result' \notin {"none", "string"}
    BY <1>1, <1>3
  <1>8. GeneratedMatches'
    BY <1>7 DEF GeneratedMatches
  <1>9. QED
    BY <1>5, <1>6, <1>7, <1>8 DEF Following

(* The walk does not end in a string: nothing is to be shown. *)
LEMMA NoStringFollows ==
  ASSUME result' = "null"
  PROVE  Following'
  BY DEF Following, GeneratedMatches

LEMMA CStringIs ==
  ASSUME NEW u \in Seq(Char)
  PROVE  CString(Append(u, EndChar)) = u
  <1>1. PICK n \in Nat : n = Len(u)
    OBVIOUS
  <1>2. PICK b : b = Append(u, EndChar)
    OBVIOUS
  <1>3. /\ DOMAIN b = 1..(n + 1) /\ b[n + 1] = EndChar
        /\ \A i \in 1..n : b[i] = u[i] /\ b[i] # EndChar
    BY <1>1, <1>2 DEF Char
  <1>4. {i \in DOMAIN b : b[i] = EndChar} = {n + 1}
    BY <1>3
  <1>5. (CHOOSE i \in {n + 1} : \A j \in {n + 1} : i <= j) - 1 = n
    OBVIOUS
  <1>6. SubSeq(b, 1, n) = u
    BY <1>1, <1>2, <1>3, SubSeqProperties
  <1>7. QED
    BY <1>2, <1>4, <1>5, <1>6 DEF CString

(* What the automaton stands at a match after is matched. *)
LEMMA EndMatches ==
  ASSUME NEW p, NEW u \in Seq(Char), NEW i \in DOMAIN p, p[i].op = "match",
         i \in Matcher(p, u)!Standing(0)[Len(u)],
         prog' = p, buf' = Append(u, EndChar)
  PROVE  GeneratedMatches'
  <1>1. string' = u
    BY CStringIs DEF string
  <1>2. Matcher(p, u)!Accepts(0, Len(u))
    BY DEF Matcher!Accepts, Matcher!MatchAddrs, Matcher!PCs
  <1>3. Matches'
    BY <1>1, <1>2 DEF Matches
  <1>4. QED
    BY <1>1, <1>3 DEF GeneratedMatches

(* A text is matched one character after the other. *)
LEMMA LiteralsMatch ==
  ASSUME NEW u \in Seq(Char), WellFormed(Chain(u))
  PROVE  Len(u) \in Matcher(Chain(u), u)!Standing(0)[Len(u)]
  <1>1. PICK n \in Nat : n = Len(u)
    OBVIOUS
  <1>2. PICK p : p = Chain(u)
    OBVIOUS
  <1> DEFINE Met == {k \in 0..n : k \in Matcher(p, u)!Standing(0)[k]}
  <1>3. 0 \in Met
    BY <1>1, <1>2, StandingFollows
  <1>4. ASSUME NEW k \in 0..(n - 1), k \in Met
        PROVE  k + 1 \in Met
    <2>1. p[k] = IChar(u[k + 1])
      BY <1>1, <1>2 DEF Chain
    <2>2. Matcher(p, u)!Takes(k, u[k + 1])
      BY <2>1 DEF Matcher!Takes, Matcher!char_match, IChar, Blank
    <2>3. QED
      BY <1>1, <1>2, <1>4, <2>2, StandingFollows
  <1>5. 0..n \subseteq Met
    <2> HIDE DEF Met
    <2>1. QED
      BY <1>3, <1>4, IntervalInduction
  <1>6. QED
    BY <1>1, <1>2, <1>5

LEMMA SimpleFollows ==
  ASSUME Inv, GenSimple
  PROVE  Following'
  <1>1. CASE result' = "null"
    BY <1>1, NoStringFollows
  <1>2. CASE result' # "null"
    <2>1. PICK s : /\ s = cfg.simple /\ s \in Seq(Char) /\ s # <<>>
                   /\ prog = Chain(Unescaped(s))
      BY CallsAssumption DEF Inv, InProgram, GenSimple
    <2>2. PICK u : /\ u = Unescaped(s) /\ u \in Seq(Char)
                   /\ Len(u) = Len(s) - Cardinality(Escapes(s))
                   /\ Cardinality(Escapes(s)) \in Nat
      BY <2>1, UnescapedLength
    <2>3. PICK p : p = Chain(u) /\ p = prog /\ WellFormed(p)
      BY <2>1, <2>2, CallsAssumption DEF Inv, InProgram
    <2>4. /\ buf' = Append(u, EndChar) /\ prog' = p /\ result' = "string"
      BY <1>2, <2>1, <2>2, <2>3 DEF GenSimple, callVars
    <2>5. Len(u) \in Nat
      BY <2>2
    <2>6. Len(u) \in DOMAIN p /\ p[Len(u)].op = "match"
      BY <2>3, <2>5 DEF Chain, IMatch, Blank
    <2>7. GeneratedMatches'
      BY <2>2, <2>3, <2>4, <2>5, <2>6, LiteralsMatch, EndMatches
    <2>8. QED
      BY <2>4, <2>7 DEF Following
  <1>3. QED
    BY <1>1, <1>2

LEMMA FollowsStep == Inv /\ Following /\ [Next]_vars => Following'
  <1> SUFFICES ASSUME Inv, Following, [Next]_vars PROVE Following'
    OBVIOUS
  <1>1. SUFFICES ASSUME Held' PROVE Following'
    BY DEF Following
  <1>2. Held
    BY <1>1 DEF Held, Next, vars, callVars, strbVars, retVars, GenSimple,
       Begin, GenChar, GenAny, GenSol, GenEol, GenClass, GenNclass, GenBranch,
       GenJmp, GenFinish, GenNoMemory, Returned, Write, Pass
  <1>3. CASE GenSimple
    BY <1>3, SimpleFollows
  <1>4. CASE Begin
    <2>1. result' = "null" \/ (buf' = <<>> /\ ip' = 0 /\ result' = "walk" /\ prog' = prog)
      BY <1>2, <1>4 DEF Begin, strb_init, Following, callVars
    <2>2. CASE buf' = <<>> /\ ip' = 0 /\ result' = "walk" /\ prog' = prog
      <3>1. PICK p : p = prog /\ WellFormed(p)
        BY CallsAssumption DEF Inv, InProgram
      <3>2. \A w \in Seq(Char) : 0 \in Matcher(p, w)!Standing(0)[0]
        BY <3>1, StandingFollows
      <3>3. Len(buf') = 0 /\ buf' \in Seq(Char)
        BY <2>2
      <3>4. OnPath' /\ AtLineStart'
        BY <2>2, <3>1, <3>2, <3>3 DEF OnPath, AtLineStart
      <3>5. GeneratedMatches'
        BY <2>2 DEF GeneratedMatches
      <3>6. QED
        BY <2>2, <3>3, <3>4, <3>5 DEF Following
    <2>3. QED
      BY <2>1, <2>2, NoStringFollows
  <1>5. CASE GenChar
    <2>1. result = "walk" /\ inst.op = "char" /\ Write(inst.c) /\ inst \in Inst
      BY <1>5, WalkStaysInside DEF GenChar, At, Inv
    <2>2. inst.c \in Char
      BY <1>2, <2>1 DEF Held, CharsHeld, Inst, Inv, InProgram, PCs, inst
    <2>3. inst = IChar(NL) => inst.c = NL
      BY DEF IChar, Blank
    <2>4. \A w \in Seq(Char) : Matcher(prog, w)!Takes(ip, inst.c)
      BY <2>1 DEF Matcher!Takes, Matcher!char_match, inst
    <2>5. QED
      BY <1>2, <2>1, <2>2, <2>3, <2>4, WriteFollows DEF OpConsume
  <1>6. CASE GenAny
    <2>1. result = "walk" /\ inst.op = "any"
      BY <1>6 DEF GenAny, At
    <2>2. PICK c \in Char : Write(c) /\ c # NL
      BY <1>6, RangesAssumption DEF GenAny, Char, NL, EndChar
    <2>3. inst # IChar(NL)
      BY <2>1 DEF IChar, Blank
    <2>4. \A w \in Seq(Char) : Matcher(prog, w)!Takes(ip, c)
      BY <2>1, <2>2 DEF Matcher!Takes, Matcher!NL, NL, inst
    <2>5. QED
      BY <1>2, <2>1, <2>2, <2>3, <2>4, WriteFollows DEF OpConsume
  <1>7. CASE GenClass
    <2>1. PICK c \in inst.ccs : result = "walk" /\ inst.op = "class" /\ Write(c)
      BY <1>7 DEF GenClass, At
    <2>2. c \in Char
      BY <2>1, WalkStaysInside DEF Inv, Inst
    <2>3. inst # IChar(NL)
      BY <2>1 DEF IChar, Blank
    <2>4. \A w \in Seq(Char) : Matcher(prog, w)!Takes(ip, c)
      BY <2>1, <2>2 DEF Matcher!Takes, Matcher!ccs_match, Matcher!char_match,
         inst
    <2>5. QED
      BY <1>2, <2>1, <2>2, <2>3, <2>4, WriteFollows DEF OpConsume
  <1>8. CASE GenNclass
    <2>1. PICK d \in Visible :
            result = "walk" /\ inst.op = "nclass" /\ Write(find_nchar(inst.ccs, d))
      BY <1>8 DEF GenNclass, At, Visible
    <2>2. ~(Visible \subseteq inst.ccs)
      BY <1>2, <2>1 DEF Held, CharsHeld, Inv, InProgram, PCs, Visible, inst
    <2>3. PICK c : c = find_nchar(inst.ccs, d) /\ c \in Visible \ inst.ccs
      BY <2>2, FindNcharFinds
    <2>4. c \in Char
      BY <2>3, RangesAssumption DEF Visible
    <2>5. inst # IChar(NL)
      BY <2>1 DEF IChar, Blank
    <2>6. \A w \in Seq(Char) : Matcher(prog, w)!Takes(ip, c)
      BY <2>1, <2>3 DEF Matcher!Takes, Matcher!ccs_match, Matcher!char_match,
         inst
    <2>7. QED
      BY <1>2, <2>1, <2>3, <2>4, <2>5, <2>6, WriteFollows DEF OpConsume
  <1>9. CASE GenSol
    <2>1. result = "walk" /\ inst.op = "sol" /\ ip \in DOMAIN prog
      BY <1>9 DEF GenSol, At, Inv, InProgram, PCs
    <2>2. PICK T \in SUBSET DOMAIN prog : LineStarts(prog, T) /\ ip \in T
      BY <1>2, <2>1 DEF Held, AnchorsHeld, inst
    <2>3. buf \in Seq(Char) /\ (buf = <<>> \/ buf[Len(buf)] = NL)
      BY <1>2, <2>1, <2>2 DEF Following, AtLineStart, PCs
    <2>4. Pass
      BY <1>9, <2>3 DEF GenSol
    <2>5. inst.op \notin OpConsume /\ ip' = ip + 1 /\ ip' \in Onward(prog, ip)
      BY <2>1, <2>4 DEF OpConsume, Pass, Onward, inst
    <2>6. ASSUME NEW w \in Seq(Char), Continues(buf, w, prog[ip'])
          PROVE  ip' \in Matcher(prog, w)!Moves(ip, Len(buf))
      <3>1. Len(buf) \in Nat /\ (Len(buf) = 0 \/ w[Len(buf)] = NL)
        <4>1. CASE buf = <<>>
          BY <4>1
        <4>2. CASE buf # <<>>
          <5>1. Len(buf) \in 1..Len(buf) /\ Len(buf) \in Nat
            BY <2>3, <4>2, EmptySeq
          <5>2. QED
            BY <2>3, <2>6, <4>2, <5>1 DEF Continues
        <4>3. QED
          BY <4>1, <4>2
      <3>2. QED
        BY <2>1, <2>5, <3>1 DEF Matcher!Moves, Matcher!AtSol, Matcher!NL, NL,
           inst
    <2>7. QED
      BY <1>2, <2>1, <2>4, <2>5, <2>6, MoveFollows DEF Pass
  <1>10. CASE GenEol
    <2>1. result = "walk" /\ inst.op = "eol" /\ ip \in DOMAIN prog
      BY <1>10 DEF GenEol, At, Inv, InProgram, PCs
    <2>2. prog[ip + 1] = IChar(NL)
      BY <1>2, <2>1 DEF Held, AnchorsHeld, inst
    <2>3. Pass
      BY <1>10, <2>2 DEF GenEol
    <2>4. inst.op \notin OpConsume /\ ip' = ip + 1 /\ ip' \in Onward(prog, ip)
      BY <2>1, <2>3 DEF OpConsume, Pass, Onward, inst
    <2>5. ASSUME NEW w \in Seq(Char), Continues(buf, w, prog[ip'])
          PROVE  ip' \in Matcher(prog, w)!Moves(ip, Len(buf))
      <3>1. Len(buf) < Len(w) /\ w[Len(buf) + 1] = NL
        BY <2>2, <2>4, <2>5 DEF Continues
      <3>2. Matcher(prog, w)!AtEol(Len(buf))
        BY <3>1 DEF Matcher!AtEol, Matcher!CharAt, Matcher!NL, NL
      <3>3. QED
        BY <2>1, <2>4, <3>2 DEF Matcher!Moves, inst
    <2>6. QED
      BY <1>2, <2>1, <2>3, <2>4, <2>5, MoveFollows DEF Pass
  <1>11. CASE GenBranch
    <2>1. /\ result = "walk" /\ inst.op = "branch" /\ ip' \in {inst.x, inst.y}
          /\ UNCHANGED <<callVars, strbVars, retVars>>
      BY <1>11 DEF GenBranch, At, Targets
    <2>2. inst.op \notin OpConsume /\ ip' \in Onward(prog, ip)
      BY <2>1 DEF OpConsume, Onward, inst
    <2>3. \A w \in Seq(Char) : ip' \in Matcher(prog, w)!Moves(ip, Len(buf))
      BY <2>1 DEF Matcher!Moves, inst
    <2>4. QED
      BY <1>2, <2>1, <2>2, <2>3, MoveFollows
  <1>12. CASE GenJmp
    <2>1. /\ result = "walk" /\ inst.op = "jmp" /\ ip' = inst.x
          /\ UNCHANGED <<callVars, strbVars, retVars>>
      BY <1>12 DEF GenJmp, At
    <2>2. inst.op \notin OpConsume /\ ip' \in Onward(prog, ip)
      BY <2>1 DEF OpConsume, Onward, inst
    <2>3. \A w \in Seq(Char) : ip' \in Matcher(prog, w)!Moves(ip, Len(buf))
      BY <2>1 DEF Matcher!Moves, inst
    <2>4. QED
      BY <1>2, <2>1, <2>2, <2>3, MoveFollows
  <1>13. CASE GenFinish
    <2>1. PICK p, i, b : p = prog /\ i = ip /\ b = buf /\ b \in Seq(Char)
      <3>1. buf \in Seq(Char)
        BY <1>2, <1>13 DEF GenFinish, At, Following
      <3>2. QED
        BY <3>1
    <2>2. /\ prog' = p /\ buf' = Append(b, EndChar)
          /\ result' = "string" /\ result = "walk"
      BY <1>13, <2>1 DEF GenFinish, Addc, callVars, At
    <2>3. i \in DOMAIN p /\ p[i].op = "match"
      BY <1>13, <2>1 DEF GenFinish, At, Inv, InProgram, PCs, inst
    <2>4. Continues(b, b, p[i])
      <3>1. p[i] # IChar(NL)
        BY <2>3 DEF IChar, Blank
      <3>2. Len(b) <= Len(b)
        BY <2>1
      <3>3. QED
        BY <3>1, <3>2 DEF Continues
    <2>5. i \in Matcher(p, b)!Standing(0)[Len(b)]
      BY <1>2, <2>1, <2>2, <2>4 DEF Following, OnPath, inst
    <2>6. GeneratedMatches'
      BY <2>1, <2>2, <2>3, <2>5, EndMatches
    <2>7. QED
      BY <2>2, <2>6 DEF Following
  <1>14. CASE GenNoMemory
    BY <1>14, NoStringFollows DEF GenNoMemory
  <1>15. CASE Returned \/ UNCHANGED vars
    <2>1. UNCHANGED vars
      BY <1>15 DEF Returned
    <2>2. QED
      BY <2>1 DEF vars, callVars, strbVars, retVars, Following, Held, OnPath,
         AtLineStart, GeneratedMatches, Matches, string, PCs, inst
  <1>16. QED
    BY <1>3, <1>4, <1>5, <1>6, <1>7, <1>8, <1>9, <1>10, <1>11, <1>12, <1>13,
       <1>14, <1>15 DEF Next

(* For a program that holds the newlines its anchors ask for, what         *)
(* rxvm_gen returns is matched from its first to its last character,       *)
(* whatever the program, the random choices, the limit and the generosity. *)
THEOREM GeneratedAccepted == Spec => []GeneratedMatches
  <1>1. Init => Following
    BY DEF Init, Following, GeneratedMatches
  <1>2. ~Held => GeneratedMatches
    BY DEF Held, GeneratedMatches
  <1>3. Following => GeneratedMatches
    BY <1>2 DEF Following
  <1>4. QED
    BY <1>1, <1>3, FollowsStep, GenInvariance, PTL DEF Spec
=============================================================================
