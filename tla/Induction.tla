------------------------------ MODULE Induction ------------------------------
(***************************************************************************)
(* Induction over the natural numbers, stated with sets in place of        *)
(* predicates, and the functions it defines: a function given by its value *)
(* at the start of an interval and a step from each place to the next.     *)
(***************************************************************************)
EXTENDS WellFoundedInduction, TLAPS

(* The naturals are well ordered. *)
LEMMA LeastNatural ==
  ASSUME NEW T \in SUBSET Nat, T # {}
  PROVE  \E n \in T : \A m \in T : n <= m
  <1> DEFINE Less == {mn \in Nat \X Nat : mn[1] < mn[2]}
  <1>1. IsWellFoundedOn(Less, Nat)
    BY NatLessThanWellFounded DEF OpToRel
  <1>2. PICK n \in T : \A m \in T : ~(<<m, n>> \in Less)
    <2> HIDE DEF Less
    <2> QED
      BY <1>1, WFMin
  <1>3. ASSUME NEW m \in T
        PROVE  n <= m
    <2>1. n \in Nat /\ m \in Nat
      OBVIOUS
    <2>2. ~(m < n)
      BY <1>2, <2>1
    <2>3. QED
      BY <2>1, <2>2
  <1>4. QED
    BY <1>3

(* A set that holds the start of an interval and the successor of each of  *)
(* its elements there holds the interval.                                  *)
LEMMA IntervalInduction ==
  ASSUME NEW a \in Int, NEW b \in Int, NEW T,
         a <= b => a \in T,
         \A i \in a..(b - 1) : i \in T => i + 1 \in T
  PROVE  a..b \subseteq T
  <1> SUFFICES ASSUME NEW i \in a..b, i \notin T
               PROVE  FALSE
    OBVIOUS
  <1> DEFINE Missing == {d \in Nat : a + d \in a..b /\ a + d \notin T}
  <1>1. i - a \in Missing
    OBVIOUS
  <1>2. PICK d \in Missing : \A m \in Missing : d <= m
    BY <1>1, LeastNatural
  <1>3. d # 0 /\ d - 1 \in Nat /\ d - 1 \notin Missing
    BY <1>2
  <1>4. a + (d - 1) \in T /\ a + (d - 1) \in a..(b - 1)
    BY <1>3
  <1>5. (a + (d - 1)) + 1 \in T
    BY <1>4
  <1>6. (a + (d - 1)) + 1 = a + d
    BY <1>3
  <1>7. QED
    BY <1>2, <1>5, <1>6

-----------------------------------------------------------------------------
(* f has value `first` at a and goes from each place to the next by Step *)
Stepwise(f, a, b, first, Step) ==
  \A i \in a..b : f[i] = IF i = a THEN first ELSE Step[i][f[i - 1]]

(* There is such a function ... *)
LEMMA StepwiseExists ==
  ASSUME NEW a \in Int, NEW b \in Int, NEW S, NEW first \in S,
         NEW Step \in [(a + 1)..b -> [S -> S]]
  PROVE  \E f \in [a..b -> S] : Stepwise(f, a, b, first, Step)
  <1> DEFINE T == {n \in a..b : \E f \in [a..n -> S] : Stepwise(f, a, n, first, Step)}
  <1>1. CASE a > b
    <2>1. [i \in a..b |-> first] \in [a..b -> S] /\ a..b = {}
      BY <1>1
    <2>2. QED
      BY <2>1 DEF Stepwise
  <1>2. CASE a <= b
    <2>1. a \in T
      <3>1. [i \in a..a |-> first] \in [a..a -> S]
        OBVIOUS
      <3>2. Stepwise([i \in a..a |-> first], a, a, first, Step)
        BY DEF Stepwise
      <3>3. \E f \in [a..a -> S] : Stepwise(f, a, a, first, Step)
        BY <3>1, <3>2
      <3>4. QED
        BY <1>2, <3>3
    <2>2. ASSUME NEW n \in a..(b - 1), n \in T
          PROVE  n + 1 \in T
      <3>1. PICK f \in [a..n -> S] : Stepwise(f, a, n, first, Step)
        BY <2>2
      <3> DEFINE g == [i \in a..(n + 1) |->
                         IF i = n + 1 THEN Step[n + 1][f[n]] ELSE f[i]]
      <3>2. f[n] \in S /\ n + 1 \in a..b /\ n # n + 1 /\ n + 1 # a
        OBVIOUS
      <3>3. Step[n + 1][f[n]] \in S
        BY <3>2
      <3>4. g \in [a..(n + 1) -> S]
        BY <3>3
      <3>5. ASSUME NEW i \in a..(n + 1)
            PROVE  g[i] = IF i = a THEN first ELSE Step[i][g[i - 1]]
        <4>1. CASE i = n + 1
          BY <3>2, <4>1
        <4>2. CASE i # n + 1
          <5>1. i \in a..n /\ g[i] = f[i]
            BY <4>2
          <5>2. i # a => i - 1 \in a..n /\ g[i - 1] = f[i - 1]
            BY <5>1
          <5>3. QED
            BY <3>1, <5>1, <5>2 DEF Stepwise
        <4>3. QED
          BY <4>1, <4>2
      <3>6. Stepwise(g, a, n + 1, first, Step)
        BY <3>5 DEF Stepwise
      <3>7. QED
        BY <3>2, <3>4, <3>6
    <2>3. b \in T
      <3> HIDE DEF T
      <3>1. a..b \subseteq T
        BY <2>1, <2>2, IntervalInduction
      <3>2. QED
        BY <1>2, <3>1
    <2>4. QED
      BY <2>3
  <1>3. QED
    BY <1>1, <1>2

(* ... and only one. *)
LEMMA StepwiseUnique ==
  ASSUME NEW a \in Int, NEW b \in Int, NEW first, NEW Step, NEW f, NEW g,
         Stepwise(f, a, b, first, Step), Stepwise(g, a, b, first, Step)
  PROVE  \A i \in a..b : f[i] = g[i]
  <1> DEFINE T == {i \in a..b : f[i] = g[i]}
  <1>1. a <= b => a \in T
    BY DEF Stepwise
  <1>2. ASSUME NEW i \in a..(b - 1), i \in T
        PROVE  i + 1 \in T
    <2>1. i + 1 \in a..b /\ i + 1 # a /\ (i + 1) - 1 = i
      OBVIOUS
    <2>2. f[i + 1] = Step[i + 1][f[i]] /\ g[i + 1] = Step[i + 1][g[i]]
      BY <2>1 DEF Stepwise
    <2>3. QED
      BY <1>2, <2>1, <2>2
  <1>3. a..b \subseteq T
    <2> HIDE DEF T
    <2>1. QED
      BY <1>1, <1>2, IntervalInduction
  <1>4. QED
    BY <1>3
=============================================================================
