---------------------------- MODULE CompilerProofs ----------------------------
(***************************************************************************)
(* Whatever the expressions, rxvm_compile makes only programs that         *)
(* vm_execute and rxvm_gen may be given, and judges the parentheses right; *)
(* and lex makes only tokens that the compiler is proved right for.        *)
(***************************************************************************)
EXTENDS Compiler, Induction, SequenceTheorems, FiniteSetTheorems

(* An instruction at place i of n: it leads to one of these places or just *)
(* behind the last, and only the first address of a branch leads back.     *)
InstFits(inst, i, n) ==
  /\ inst.op # "match"
  /\ inst.op \in {"class", "nclass"} => inst.ccs # {}
  /\ inst.op = "branch" => inst.x + i \in 1..(n + 1) /\ inst.y + i \in (i + 1)..(n + 1)
  /\ inst.op = "jmp" => inst.x + i \in (i + 1)..(n + 1)

(* Code that may be placed anywhere, and code without jumps *)
Fits(code) ==
  /\ code \in Seq(Inst)
  /\ \A i \in 1..Len(code) : InstFits(code[i], i, Len(code))
Plain(code) ==
  /\ Fits(code)
  /\ \A i \in 1..Len(code) : code[i].op \notin {"branch", "jmp"}

(* A stack of instructions: all fit but the jump that is yet to be set *)
StackType == [code : Seq(Inst), dangling_alt : Nat, dsize : Nat]
StackFits(s) ==
  /\ s \in StackType
  /\ s.dangling_alt \in 0..Len(s.code)
  /\ \A i \in 1..Len(s.code) :
       i # s.dangling_alt => InstFits(s.code[i], i, Len(s.code))
  /\ s.dangling_alt # 0 =>
       s.dsize = s.dangling_alt /\ s.code[s.dangling_alt] = IJmp(0)

(* The context between two tokens: the base and the groups above the       *)
(* target have no jump to be set, the base holds neither jump nor branch.  *)
Context ==
  [prog : StackType, parens : Seq(StackType), target : Nat, buf : Nat,
   operand : [stack : Nat, at : Nat], strb : SUBSET Char, at : Nat,
   lasttok : Kinds \cup {"none"}, depth : Nat, chained : {0, 1}]
Whole(c, i) == i = 1 \/ i = c.buf \/ i > c.target
Shape(c) ==
  /\ c \in Context
  /\ Groups(c) >= 1
  /\ c.target \in (0..Groups(c)) \ {1}
  /\ c.buf \in (1..Groups(c)) \ {c.target}
  /\ \A i \in 0..Groups(c) : StackFits(Stack(c, i))
  /\ \A i \in 1..Groups(c) : Whole(c, i) => Stack(c, i).dangling_alt = 0
  /\ Plain(Code(c, 1))

(* Behind a group the buffer is that group, and all of it the operand; any *)
(* other buffer is without jumps, so it may be cut anywhere.               *)
Last(c) ==
  IF c.lasttok = "rparen"
  THEN /\ Groups(c) >= 2 /\ c.buf = Groups(c)
       /\ c.target = (IF Groups(c) = 2 THEN 0 ELSE Groups(c) - 1)
       /\ c.operand = [stack |-> c.buf, at |-> 1]
  ELSE Plain(Code(c, c.buf))

(* what stage1 leaves to stage2 *)
Finished(code) == \E body : Fits(body) /\ code = body \o <<IMatch>>

Inv ==
  /\ TypeOK
  /\ rest \in Seq(LexToken)
  /\ state = "backlog" => cx = context_init
  /\ state \in {"backlog", "start", "charc"} => Shape(cx) /\ Last(cx)
  /\ state = "charc" => cx.lasttok # "rparen"
  /\ state = "stage2" => Finished(cx.prog.code)
  /\ state # "returned" => outcome = "none"
  /\ CompiledWellFormed /\ ChainsShort

-----------------------------------------------------------------------------
(* The code of an operator fits where the code it is applied to does. *)
LEMMA FurtherOn ==
  ASSUME NEW inst \in Inst, NEW i \in Int, NEW n \in Int, NEW k \in Nat,
         NEW j \in Int, NEW m \in Int, j = i + k, n + k <= m, InstFits(inst, i, n)
  PROVE  InstFits(inst, j, m)
  <1>1. PICK x \in Int, y \in Int : x = inst.x /\ y = inst.y
    BY DEF Inst
  <1>2. inst.op = "branch" => x + j \in 1..(m + 1) /\ y + j \in (j + 1)..(m + 1)
    BY <1>1 DEF InstFits
  <1>3. inst.op = "jmp" => x + j \in (j + 1)..(m + 1)
    BY <1>1 DEF InstFits
  <1>4. QED
    BY <1>1, <1>2, <1>3 DEF InstFits

LEMMA ConcatFits ==
  ASSUME NEW a, Fits(a), NEW b, Fits(b)
  PROVE  Fits(a \o b)
  <1>1. PICK n \in Nat, m \in Nat : n = Len(a) /\ m = Len(b)
    BY DEF Fits
  <1>2. /\ a \in Seq(Inst) /\ b \in Seq(Inst) /\ a \o b \in Seq(Inst)
        /\ Len(a \o b) = n + m
    BY <1>1 DEF Fits
  <1>3. ASSUME NEW i \in 1..(n + m)
        PROVE  InstFits((a \o b)[i], i, n + m)
    <2>1. CASE i <= n
      <3>1. i \in 1..n /\ (a \o b)[i] = a[i] /\ a[i] \in Inst
        BY <1>1, <1>2, <2>1
      <3>2. InstFits(a[i], i, n)
        BY <1>1, <3>1 DEF Fits
      <3>3. i = i + 0 /\ n + 0 <= n + m /\ i \in Int /\ n \in Int /\ n + m \in Int
        BY <1>1
      <3>4. InstFits(a[i], i, n + m)
        BY <3>1, <3>2, <3>3, FurtherOn
      <3>5. QED
        BY <3>1, <3>4
    <2>2. CASE i > n
      <3>1. i - n \in 1..m
        BY <2>2
      <3>2. PICK j \in 1..m : j = i - n
        BY <3>1
      <3>3. (a \o b)[i] = b[j] /\ b[j] \in Inst
        BY <1>1, <1>2, <2>2, <3>2
      <3>4. InstFits(b[j], j, m)
        BY <1>1 DEF Fits
      <3>5. /\ i = j + n /\ m + n <= n + m /\ n \in Nat
            /\ i \in Int /\ j \in Int /\ m \in Int /\ n + m \in Int
        BY <1>1, <3>2
      <3>6. InstFits(b[j], i, n + m)
        BY <1>1, <3>3, <3>4, <3>5, FurtherOn
      <3>7. QED
        BY <3>3, <3>6
    <2>3. QED
      BY <1>1, <2>1, <2>2
  <1>4. QED
    BY <1>2, <1>3 DEF Fits

(* where a place falls among n copies of `unit` places *)
LEMMA PlaceOfCopy ==
  ASSUME NEW unit \in Nat \ {0}, NEW n \in Int, NEW i \in 1..(n * unit)
  PROVE  \E m \in Nat, k \in 0..(unit - 1), j \in 0..(n - 1) :
           /\ j = (i - 1) \div unit /\ k = (i - 1) % unit /\ m = j * unit
           /\ i = m + k + 1
           /\ m + unit <= n * unit /\ unit * (n - j) = n * unit - m
  <1> DEFINE j == (i - 1) \div unit
             k == (i - 1) % unit
  <1>1. i - 1 = unit * j + k /\ k \in 0..(unit - 1) /\ j \in Nat
    OBVIOUS
  <1>2. j \in 0..(n - 1)
    OBVIOUS
  <1>3. j * unit + unit <= n * unit /\ unit * (n - j) = n * unit - j * unit
    BY <1>1, <1>2
  <1>4. j * unit \in Nat /\ i = j * unit + k + 1
    BY <1>1, <1>2
  <1>5. j = (i - 1) \div unit /\ k = (i - 1) % unit
    OBVIOUS
  <1> HIDE DEF j, k
  <1>6. QED
    BY <1>1, <1>2, <1>3, <1>4, <1>5

LEMMA BranchInst ==
  ASSUME NEW x \in Int, NEW y \in Int
  PROVE  /\ IBranch(x, y) \in Inst
         /\ IBranch(x, y).op = "branch" /\ IBranch(x, y).x = x /\ IBranch(x, y).y = y
  BY DEF IBranch, Blank, Inst, Op, EndChar

LEMMA JmpInst ==
  ASSUME NEW x \in Int
  PROVE  IJmp(x) \in Inst /\ IJmp(x).op = "jmp" /\ IJmp(x).x = x
  <1>1. PICK b : b = Blank
    OBVIOUS
  <1>2. b \in Inst /\ "jmp" \in Op
    BY <1>1 DEF Blank, Inst, Op, EndChar
  <1>3. [b EXCEPT !.op = "jmp", !.x = x] \in Inst
    BY <1>2 DEF Inst
  <1>4. /\ [b EXCEPT !.op = "jmp", !.x = x].op = "jmp"
        /\ [b EXCEPT !.op = "jmp", !.x = x].x = x
    BY <1>2 DEF Inst
  <1>5. QED
    BY <1>1, <1>3, <1>4 DEF IJmp

LEMMA BranchFits ==
  ASSUME NEW x \in Int, NEW y \in Int, NEW i \in Int, NEW n \in Int,
         x + i \in 1..(n + 1), y + i \in (i + 1)..(n + 1)
  PROVE  InstFits(IBranch(x, y), i, n)
  BY BranchInst DEF InstFits

LEMMA TableFits ==
  ASSUME NEW n \in Nat, NEW code \in [1..n -> Inst],
         \A i \in 1..n : InstFits(code[i], i, n)
  PROVE  Fits(code) /\ Len(code) = n
  <1>1. code \in Seq(Inst) /\ Len(code) = n
    OBVIOUS
  <1>2. QED
    BY <1>1 DEF Fits

LEMMA NothingFits ==
  Fits(<<>>) /\ Plain(<<>>)
  BY DEF Fits, Plain

LEMMA CopiesFit ==
  ASSUME NEW code, Fits(code), Len(code) > 0, NEW n \in Int
  PROVE  Fits(Copies(code, n)) /\ (n >= 0 => Len(Copies(code, n)) = n * Len(code))
  <1>1. PICK len \in Nat \ {0} : len = Len(code)
    BY DEF Fits
  <1>2. PICK size \in Int : size = n * len /\ (n >= 0 => size >= 0)
    <2>1. n * len \in Int /\ (n >= 0 => n * len >= 0)
      BY <1>1
    <2>2. QED
      BY <2>1
  <1> DEFINE at(i) == code[((i - 1) % len) + 1]
  <1>3. ASSUME NEW i \in 1..size
        PROVE  at(i) \in Inst /\ InstFits(at(i), i, size)
    <2>1. i \in 1..(n * len)
      BY <1>2
    <2>2. PICK m \in Nat, k \in 0..(len - 1), j \in 0..(n - 1) :
            /\ k = (i - 1) % len /\ i = m + k + 1 /\ m + len <= n * len
      BY <1>1, <2>1, PlaceOfCopy
    <2>3. PICK q \in 1..len : q = k + 1
      <3>1. k + 1 \in 1..len
        BY <1>1, <2>2
      <3>2. QED
        BY <3>1
    <2>4. code[q] \in Inst /\ InstFits(code[q], q, len)
      BY <1>1, <2>3 DEF Fits
    <2>5. /\ i = q + m /\ len + m <= size /\ m \in Nat
          /\ i \in Int /\ q \in Int /\ len \in Int /\ size \in Int
      BY <1>1, <1>2, <2>2, <2>3
    <2>6. InstFits(code[q], i, size)
      BY <2>4, <2>5, FurtherOn
    <2>7. at(i) = code[q]
      BY <2>2, <2>3
    <2>8. QED
      BY <2>4, <2>6, <2>7
  <1>4. Copies(code, n) = [i \in 1..size |-> at(i)]
    BY <1>1, <1>2 DEF Copies
  <1> HIDE DEF at
  <1>5. CASE size >= 0
    <2>1. size \in Nat
      BY <1>2, <1>5
    <2>2. Copies(code, n) \in [1..size -> Inst]
      BY <1>3, <1>4
    <2>3. \A i \in 1..size : InstFits(Copies(code, n)[i], i, size)
      BY <1>3, <1>4
    <2>4. QED
      BY <1>1, <1>2, <2>1, <2>2, <2>3, TableFits
  <1>6. CASE ~(size >= 0)
    <2>1. 1..size = {}
      BY <1>2, <1>6
    <2>2. Copies(code, n) = <<>>
      BY <1>4, <2>1
    <2>3. QED
      BY <1>2, <1>6, <2>2, NothingFits
  <1>7. QED
    BY <1>5, <1>6

LEMMA OptionalFits ==
  ASSUME NEW code, Fits(code), Len(code) > 0, NEW n \in Int
  PROVE  Fits(Optional(code, n))
  <1>1. PICK len \in Nat \ {0}, unit \in Nat \ {0} : len = Len(code) /\ unit = len + 1
    <2>1. Len(code) \in Nat \ {0} /\ Len(code) + 1 \in Nat \ {0}
      BY DEF Fits
    <2>2. QED
      BY <2>1
  <1>2. PICK size \in Int : size = n * unit
    BY <1>1
  <1> DEFINE jump(i) == unit * (n - ((i - 1) \div unit))
             at(i) == IF (i - 1) % unit = 0 THEN IBranch(1, jump(i))
                      ELSE code[(i - 1) % unit]
  <1>3. ASSUME NEW i \in 1..size
        PROVE  at(i) \in Inst /\ InstFits(at(i), i, size)
    <2>1. i \in 1..(n * unit)
      BY <1>2
    <2>2. PICK m \in Nat, k \in 0..(unit - 1), j \in 0..(n - 1) :
            /\ j = (i - 1) \div unit /\ k = (i - 1) % unit /\ m = j * unit
            /\ i = m + k + 1
            /\ m + unit <= n * unit /\ unit * (n - j) = n * unit - m
      BY <1>1, <2>1, PlaceOfCopy
    <2>3. /\ i = m + k + 1 /\ m + unit <= size /\ k = (i - 1) % unit
          /\ jump(i) = size - m
      BY <1>2, <2>2
    <2>4. k \in 0..len /\ i \in Int /\ m \in Nat /\ unit = len + 1
      BY <1>1, <2>2
    <2> HIDE DEF jump
    <2>5. CASE k = 0
      <3>1. PICK y \in Int : y = size - m
        BY <2>4
      <3>2. at(i) = IBranch(1, y)
        BY <2>3, <2>5, <3>1
      <3>3. /\ 1 + i \in 1..(size + 1) /\ y + i \in (i + 1)..(size + 1)
            /\ i \in Int /\ 1 \in Int
        BY <2>3, <2>4, <2>5, <3>1
      <3> HIDE DEF at
      <3>4. QED
        BY <3>1, <3>2, <3>3, BranchInst, BranchFits
    <2>6. CASE k # 0
      <3>1. k \in 1..len
        BY <2>4, <2>6
      <3>2. at(i) = code[k]
        BY <2>3, <2>6
      <3>3. code[k] \in Inst /\ InstFits(code[k], k, len)
        BY <1>1, <3>1 DEF Fits
      <3>4. PICK d \in Nat : d = m + 1
        BY <2>4
      <3>5. /\ i = k + d /\ len + d <= size
            /\ i \in Int /\ k \in Int /\ len \in Int /\ size \in Int
        BY <2>3, <2>4, <3>1, <3>4
      <3>6. InstFits(code[k], i, size)
        BY <3>3, <3>4, <3>5, FurtherOn
      <3>7. QED
        BY <3>2, <3>3, <3>6
    <2>7. QED
      BY <2>5, <2>6
  <1>4. Optional(code, n) = [i \in 1..size |-> at(i)]
    BY <1>1, <1>2 DEF Optional
  <1> HIDE DEF at
  <1>5. CASE size >= 0
    <2>1. size \in Nat
      BY <1>2, <1>5
    <2>2. Optional(code, n) \in [1..size -> Inst]
      BY <1>3, <1>4
    <2>3. \A i \in 1..size : InstFits(Optional(code, n)[i], i, size)
      BY <1>3, <1>4
    <2>4. QED
      BY <2>1, <2>2, <2>3, TableFits
  <1>6. CASE ~(size >= 0)
    <2>1. 1..size = {}
      BY <1>2, <1>6
    <2>2. Optional(code, n) = <<>>
      BY <1>4, <2>1
    <2>3. QED
      BY <2>2, NothingFits
  <1>7. QED
    BY <1>5, <1>6

(* A branch back over the last places, and one in front past the end *)
LEMMA BackFits ==
  ASSUME NEW code, Fits(code), NEW k \in 0..Len(code)
  PROVE  Fits(code \o <<IBranch(-k, 1)>>)
  <1>1. PICK n \in Nat : n = Len(code)
    BY DEF Fits
  <1>2. PICK b \in Inst : b = IBranch(-k, 1)
    BY <1>1, BranchInst
  <1>3. /\ code \in Seq(Inst) /\ code \o <<b>> \in Seq(Inst)
        /\ Len(code \o <<b>>) = n + 1
    BY <1>1, <1>2 DEF Fits
  <1>4. ASSUME NEW i \in 1..(n + 1)
        PROVE  InstFits((code \o <<b>>)[i], i, n + 1)
    <2>1. CASE i <= n
      <3>1. i \in 1..n /\ (code \o <<b>>)[i] = code[i] /\ code[i] \in Inst
        BY <1>1, <1>2, <1>3, <2>1
      <3>2. InstFits(code[i], i, n)
        BY <1>1, <3>1 DEF Fits
      <3>3. i = i + 0 /\ n + 0 <= n + 1 /\ i \in Int /\ n \in Int /\ n + 1 \in Int
        BY <1>1
      <3>4. QED
        BY <3>1, <3>2, <3>3, FurtherOn
    <2>2. CASE i = n + 1
      <3>1. (code \o <<b>>)[i] = b
        BY <1>1, <1>2, <1>3, <2>2
      <3>2. /\ -k + i \in 1..((n + 1) + 1) /\ 1 + i \in (i + 1)..((n + 1) + 1)
            /\ -k \in Int /\ 1 \in Int /\ i \in Int /\ n + 1 \in Int
        BY <1>1, <2>2
      <3>3. InstFits(b, i, n + 1)
        BY <1>2, <3>2, BranchFits
      <3>4. QED
        BY <3>1, <3>3
    <2>3. QED
      BY <1>1, <2>1, <2>2
  <1>5. QED
    BY <1>2, <1>3, <1>4 DEF Fits

LEMMA FrontFits ==
  ASSUME NEW code, Fits(code)
  PROVE  Fits(<<IBranch(1, Len(code) + 1)>> \o code)
  <1>1. PICK n \in Nat : n = Len(code)
    BY DEF Fits
  <1>2. PICK b \in Inst : b = IBranch(1, Len(code) + 1)
    BY <1>1, BranchInst
  <1>3. /\ code \in Seq(Inst) /\ <<b>> \o code \in Seq(Inst)
        /\ Len(<<b>> \o code) = n + 1
    BY <1>1, <1>2 DEF Fits
  <1>4. ASSUME NEW i \in 1..(n + 1)
        PROVE  InstFits((<<b>> \o code)[i], i, n + 1)
    <2>1. CASE i = 1
      <3>1. (<<b>> \o code)[i] = b
        BY <1>1, <1>2, <1>3, <2>1
      <3>2. /\ 1 + i \in 1..((n + 1) + 1) /\ (n + 1) + i \in (i + 1)..((n + 1) + 1)
            /\ 1 \in Int /\ i \in Int /\ n + 1 \in Int
        BY <1>1, <2>1
      <3>3. InstFits(b, i, n + 1)
        BY <1>1, <1>2, <3>2, BranchFits
      <3>4. QED
        BY <3>1, <3>3
    <2>2. CASE i > 1
      <3>1. i - 1 \in 1..n
        BY <1>1, <2>2
      <3>2. PICK j \in 1..n : j = i - 1
        BY <3>1
      <3>3. (<<b>> \o code)[i] = code[j] /\ code[j] \in Inst
        BY <1>1, <1>2, <1>3, <2>2, <3>2
      <3>4. InstFits(code[j], j, n)
        BY <1>1 DEF Fits
      <3>5. /\ i = j + 1 /\ n + 1 <= n + 1 /\ 1 \in Nat
            /\ i \in Int /\ j \in Int /\ n \in Int /\ n + 1 \in Int
        BY <1>1, <3>2
      <3>6. InstFits(code[j], i, n + 1)
        BY <3>3, <3>4, <3>5, FurtherOn
      <3>7. QED
        BY <3>3, <3>6
    <2>3. QED
      BY <1>1, <2>1, <2>2
  <1>5. QED
    BY <1>2, <1>3, <1>4 DEF Fits

LEMMA ZeroFits ==
  ASSUME NEW code, Fits(code)
  PROVE  Fits(code_zero(code))
  <1>1. PICK n \in Nat : n = Len(code)
    BY DEF Fits
  <1>2. PICK b \in Inst, d \in Inst : b = IBranch(-n, 1) /\ d = IBranch(1, n + 2)
    BY <1>1, BranchInst
  <1>3. Fits(code \o <<b>>)
    BY <1>1, <1>2, BackFits
  <1>4. Len(code \o <<b>>) + 1 = n + 2
    BY <1>1, <1>2 DEF Fits
  <1>5. Fits(<<d>> \o (code \o <<b>>))
    BY <1>2, <1>3, <1>4, FrontFits
  <1>6. (<<d>> \o code) \o <<b>> = <<d>> \o (code \o <<b>>)
    <2>1. <<d>> \in Seq(Inst) /\ code \in Seq(Inst) /\ <<b>> \in Seq(Inst)
      BY DEF Fits
    <2>2. QED
      BY <2>1, ConcatAssociative
  <1>7. QED
    BY <1>1, <1>2, <1>5, <1>6 DEF code_zero

LEMMA OpCodeFits ==
  ASSUME NEW tk \in Token, NEW code, Fits(code), Len(code) > 0, tk.k \in ISOP \ {"alt"}
  PROVE  Fits(OpCode(tk, code))
  <1>1. tk.c \in Int /\ tk.d \in Int /\ Len(code) \in Nat
    BY DEF Token, Fits
  <1>2. Fits(code_one(code))
    BY <1>1, BackFits DEF code_one
  <1>3. Fits(code_zero(code))
    BY ZeroFits
  <1>4. Fits(code_onezero(code))
    BY FrontFits DEF code_onezero
  <1>5. \A n \in Int : Fits(code_rep_n(code, n)) /\ Fits(code_rep_less(code, n))
    BY CopiesFit, OptionalFits DEF code_rep_n, code_rep_less
  <1>6. ASSUME NEW n \in Int, NEW m \in Int
        PROVE  Fits(code_rep_range(code, n, m))
    <2>1. \A lo \in Int, hi \in Int : Fits(Copies(code, lo) \o Optional(code, hi - lo))
      BY CopiesFit, OptionalFits, ConcatFits
    <2>2. QED
      BY <1>5, <2>1 DEF code_rep_range
  <1>7. ASSUME NEW n \in Int, n > 0
        PROVE  Fits(code_rep_more(code, n))
    <2>1. Fits(Copies(code, n)) /\ (n >= 0 => Len(Copies(code, n)) = n * Len(code))
      BY CopiesFit
    <2>2. PICK len \in Nat, all \in Nat : len = Len(code) /\ all = n * len /\ len <= all
      <3>1. n * Len(code) \in Nat /\ Len(code) <= n * Len(code)
        BY <1>1, <1>7
      <3>2. QED
        BY <1>1, <3>1
    <2>3. Len(code) \in 0..Len(Copies(code, n))
      BY <1>7, <2>1, <2>2
    <2>4. QED
      BY <2>1, <2>3, BackFits DEF code_rep_more
  <1>8. CASE tk.k = "rep"
    <2>1. CASE tk.c >= 0 /\ tk.d >= 0
      <3>1. OpCode(tk, code) = code_rep_range(code, tk.c, tk.d)
        BY <1>1, <1>8, <2>1 DEF OpCode, REP_FIELD_EMPTY, REP_NO_FIELD
      <3>2. QED
        BY <1>1, <1>6, <3>1
    <2>2. CASE ~(tk.c >= 0 /\ tk.d >= 0) /\ tk.c > 0 /\ tk.d = REP_FIELD_EMPTY
      <3>1. OpCode(tk, code) = code_rep_more(code, tk.c)
        BY <1>1, <1>8, <2>2 DEF OpCode, REP_FIELD_EMPTY, REP_NO_FIELD
      <3>2. QED
        BY <1>1, <1>7, <2>2, <3>1
    <2>3. CASE tk.c = REP_FIELD_EMPTY
      <3>1. \/ OpCode(tk, code) = code_rep_less(code, tk.d)
            \/ OpCode(tk, code) = code_rep_n(code, tk.c)
        BY <1>1, <1>8, <2>3 DEF OpCode, REP_FIELD_EMPTY, REP_NO_FIELD
      <3>2. QED
        BY <1>1, <1>5, <3>1
    <2>4. CASE tk.c # REP_FIELD_EMPTY /\ tk.d = REP_NO_FIELD
      <3>1. OpCode(tk, code) = code_rep_n(code, tk.c)
        BY <1>1, <1>8, <2>4 DEF OpCode, REP_FIELD_EMPTY, REP_NO_FIELD
      <3>2. QED
        BY <1>1, <1>5, <3>1
    <2>5. CASE /\ ~(tk.c >= 0 /\ tk.d >= 0) /\ ~(tk.c > 0 /\ tk.d = REP_FIELD_EMPTY)
               /\ tk.c # REP_FIELD_EMPTY /\ tk.d # REP_NO_FIELD
      <3>1. OpCode(tk, code) = code_zero(code)
        BY <1>8, <2>5 DEF OpCode
      <3>2. QED
        BY <1>3, <3>1
    <2>6. QED
      BY <2>1, <2>2, <2>3, <2>4, <2>5
  <1>9. CASE tk.k \in {"one", "zero", "onezero"}
    BY <1>2, <1>3, <1>4, <1>9 DEF OpCode
  <1>10. QED
    BY <1>8, <1>9 DEF ISOP

-----------------------------------------------------------------------------
(* Stacks keep their shape when code is added, a jump set, a group dropped *)
SameFields(c, d) ==
  /\ Groups(d) = Groups(c) /\ d.target = c.target /\ d.buf = c.buf
  /\ d.operand = c.operand /\ d.strb = c.strb /\ d.at = c.at
  /\ d.lasttok = c.lasttok /\ d.depth = c.depth /\ d.chained = c.chained

LEMMA PutStack ==
  ASSUME NEW c \in Context, NEW i \in 0..Groups(c), NEW s \in StackType
  PROVE  /\ Put(c, i, s) \in Context
         /\ SameFields(c, Put(c, i, s))
         /\ Stack(Put(c, i, s), i) = s
         /\ \A j \in 0..Groups(c) : j # i => Stack(Put(c, i, s), j) = Stack(c, j)
  <1>1. CASE i = 0
    <2>1. Put(c, i, s) = [c EXCEPT !.prog = s]
      BY <1>1 DEF Put
    <2>2. QED
      BY <1>1, <2>1 DEF Context, SameFields, Stack, Groups
  <1>2. CASE i # 0
    <2>1. PICK q \in Seq(StackType) : q = c.parens
      BY DEF Context
    <2>2. i \in 1..Len(q)
      BY <1>2, <2>1 DEF Groups
    <2>3. PICK r : r = [q EXCEPT ![i] = s]
      OBVIOUS
    <2>4. /\ r \in Seq(StackType) /\ Len(r) = Len(q) /\ r[i] = s
          /\ \A j \in 1..Len(q) : j # i => r[j] = q[j]
      BY <2>2, <2>3
    <2>5. Put(c, i, s) = [c EXCEPT !.parens = r]
      BY <1>2, <2>1, <2>3 DEF Put
    <2>6. Put(c, i, s) \in Context /\ Put(c, i, s).parens = r /\ Put(c, i, s).prog = c.prog
      BY <2>4, <2>5 DEF Context
    <2>7. SameFields(c, Put(c, i, s))
      BY <2>1, <2>4, <2>5, <2>6 DEF Context, SameFields, Groups
    <2>8. QED
      BY <1>2, <2>1, <2>4, <2>6, <2>7 DEF Stack, Groups
  <1>3. QED
    BY <1>1, <1>2

LEMMA StackOfContext ==
  ASSUME NEW c \in Context, NEW i \in 0..Groups(c)
  PROVE  Stack(c, i) \in StackType /\ Groups(c) \in Nat
  BY DEF Context, Stack, Groups

LEMMA PutShape ==
  ASSUME NEW c, Shape(c), NEW i \in 0..Groups(c), NEW s, StackFits(s),
         i # 0 /\ Whole(c, i) => s.dangling_alt = 0, i = 1 => Plain(s.code)
  PROVE  /\ Shape(Put(c, i, s))
         /\ SameFields(c, Put(c, i, s))
         /\ Stack(Put(c, i, s), i) = s
         /\ \A j \in 0..Groups(c) : j # i => Stack(Put(c, i, s), j) = Stack(c, j)
  <1>1. c \in Context /\ s \in StackType /\ Groups(c) \in Nat
    BY StackOfContext DEF Shape, StackFits
  <1>2. PICK d : d = Put(c, i, s)
    OBVIOUS
  <1>3. /\ d \in Context /\ SameFields(c, d) /\ Stack(d, i) = s
        /\ \A j \in 0..Groups(c) : j # i => Stack(d, j) = Stack(c, j)
    BY <1>1, <1>2, PutStack
  <1>4. \A j \in 0..Groups(d) : StackFits(Stack(d, j))
    BY <1>3 DEF Shape, SameFields
  <1>5. \A j \in 1..Groups(d) : Whole(d, j) => Stack(d, j).dangling_alt = 0
    BY <1>1, <1>3 DEF Shape, SameFields, Whole
  <1>6. Plain(Code(d, 1))
    BY <1>1, <1>3 DEF Shape, Code
  <1>7. Shape(d)
    BY <1>3, <1>4, <1>5, <1>6 DEF Shape, SameFields
  <1>8. QED
    BY <1>2, <1>3, <1>7

LEMMA PlainConcat ==
  ASSUME NEW a, Plain(a), NEW b, Plain(b)
  PROVE  Plain(a \o b)
  <1>1. PICK n \in Nat, m \in Nat : n = Len(a) /\ m = Len(b)
    BY DEF Plain, Fits
  <1>2. /\ Fits(a) /\ Fits(b)
        /\ a \in Seq(Inst) /\ b \in Seq(Inst)
    BY DEF Plain, Fits
  <1>3. Len(a \o b) = n + m
    BY <1>1, <1>2
  <1>4. Fits(a \o b)
    BY <1>2, ConcatFits
  <1>5. ASSUME NEW i \in 1..(n + m)
        PROVE  (a \o b)[i].op \notin {"branch", "jmp"}
    <2>1. CASE i <= n
      <3>1. i \in 1..n /\ (a \o b)[i] = a[i]
        BY <1>1, <1>2, <2>1
      <3>2. QED
        BY <1>1, <3>1 DEF Plain
    <2>2. CASE i > n
      <3>1. PICK j \in 1..m : j = i - n
        BY <2>2
      <3>2. (a \o b)[i] = b[j]
        BY <1>1, <1>2, <2>2, <3>1
      <3>3. QED
        BY <1>1, <3>2 DEF Plain
    <2>3. QED
      BY <1>1, <2>1, <2>2
  <1>6. QED
    BY <1>3, <1>4, <1>5 DEF Plain

(* code added to a stack moves nothing that is there *)
LEMMA StackAdd ==
  ASSUME NEW s, StackFits(s), NEW code, Fits(code)
  PROVE  StackFits([s EXCEPT !.code = @ \o code])
  <1>1. PICK r : r = [s EXCEPT !.code = @ \o code]
    OBVIOUS
  <1>2. PICK a \in Seq(Inst), n \in Nat, m \in Nat, e \in Nat :
          a = s.code /\ n = Len(a) /\ m = Len(code) /\ e = s.dangling_alt /\ e <= n
    BY DEF StackFits, StackType, Fits
  <1>3. /\ a \o code \in Seq(Inst) /\ Len(a \o code) = n + m
        /\ code \in Seq(Inst)
    BY <1>2 DEF Fits
  <1>4. /\ r \in StackType /\ r.code = a \o code
        /\ r.dangling_alt = e /\ r.dsize = s.dsize
    BY <1>1, <1>2, <1>3 DEF StackFits, StackType
  <1>5. ASSUME NEW i \in 1..(n + m), i # e
        PROVE  InstFits((a \o code)[i], i, n + m)
    <2>1. CASE i <= n
      <3>1. i \in 1..n /\ (a \o code)[i] = a[i] /\ a[i] \in Inst
        BY <1>2, <1>3, <2>1
      <3>2. InstFits(a[i], i, n)
        BY <1>2, <1>5, <3>1 DEF StackFits
      <3>3. i = i + 0 /\ n + 0 <= n + m /\ i \in Int /\ n \in Int /\ n + m \in Int
        BY <1>2
      <3>4. QED
        BY <3>1, <3>2, <3>3, FurtherOn
    <2>2. CASE i > n
      <3>1. PICK j \in 1..m : j = i - n
        BY <2>2
      <3>2. (a \o code)[i] = code[j] /\ code[j] \in Inst
        BY <1>2, <1>3, <2>2, <3>1
      <3>3. InstFits(code[j], j, m)
        BY <1>2, <3>1 DEF Fits
      <3>4. /\ i = j + n /\ m + n <= n + m
            /\ i \in Int /\ j \in Int /\ m \in Int /\ n + m \in Int
        BY <1>2, <3>1
      <3>5. QED
        BY <3>2, <3>3, <3>4, FurtherOn
    <2>3. QED
      BY <1>2, <2>1, <2>2
  <1>6. e # 0 => r.dsize = e /\ (a \o code)[e] = IJmp(0)
    BY <1>2, <1>3, <1>4 DEF StackFits
  <1>7. r.dangling_alt \in 0..Len(r.code) /\ Len(r.code) = n + m
    BY <1>2, <1>3, <1>4
  <1>8. \A i \in 1..(n + m) : i # r.dangling_alt => InstFits(r.code[i], i, n + m)
    BY <1>4, <1>5
  <1>9. r.dangling_alt # 0 =>
          r.dsize = r.dangling_alt /\ r.code[r.dangling_alt] = IJmp(0)
    BY <1>4, <1>6
  <1>10. StackFits(r)
    BY <1>4, <1>7, <1>8, <1>9 DEF StackFits
  <1>11. QED
    BY <1>1, <1>10

LEMMA AddShape ==
  ASSUME NEW c, Shape(c), NEW i \in 0..Groups(c), NEW code, Fits(code),
         i = 1 => Plain(code)
  PROVE  /\ Shape(AddHead(c, i, code))
         /\ SameFields(c, AddHead(c, i, code))
         /\ Code(AddHead(c, i, code), i) = Code(c, i) \o code
         /\ \A j \in 0..Groups(c) :
              j # i => Stack(AddHead(c, i, code), j) = Stack(c, j)
  <1>1. PICK s : s = [Stack(c, i) EXCEPT !.code = @ \o code]
    OBVIOUS
  <1>2. StackFits(Stack(c, i)) /\ StackFits(s)
    BY <1>1, StackAdd DEF Shape
  <1>3. s.dangling_alt = Stack(c, i).dangling_alt /\ s.code = Code(c, i) \o code
    BY <1>1, <1>2 DEF StackFits, StackType, Code
  <1>4. i # 0 /\ Whole(c, i) => s.dangling_alt = 0
    BY <1>3 DEF Shape
  <1>5. i = 1 => Plain(s.code)
    BY <1>3, PlainConcat DEF Shape
  <1>6. AddHead(c, i, code) = Put(c, i, s)
    BY <1>1 DEF AddHead
  <1>7. PICK d : d = Put(c, i, s)
    OBVIOUS
  <1>8. /\ Shape(d) /\ SameFields(c, d) /\ Stack(d, i) = s
        /\ \A j \in 0..Groups(c) : j # i => Stack(d, j) = Stack(c, j)
    BY <1>2, <1>4, <1>5, <1>7, PutShape
  <1>9. Code(d, i) = Code(c, i) \o code
    BY <1>3, <1>8 DEF Code
  <1>10. QED
    BY <1>6, <1>7, <1>8, <1>9

LEMMA ResetShape ==
  ASSUME NEW c, Shape(c), NEW i \in 1..Groups(c), Whole(c, i)
  PROVE  /\ Shape(stack_reset(c, i))
         /\ SameFields(c, stack_reset(c, i))
         /\ Code(stack_reset(c, i), i) = <<>>
         /\ \A j \in 0..Groups(c) :
              j # i => Stack(stack_reset(c, i), j) = Stack(c, j)
  <1>1. PICK s : s = [Stack(c, i) EXCEPT !.code = <<>>]
    OBVIOUS
  <1>2. StackFits(Stack(c, i)) /\ Stack(c, i).dangling_alt = 0
    BY DEF Shape
  <1>3. /\ s \in StackType /\ s.code = <<>> /\ s.dangling_alt = 0
    <2>1. <<>> \in Seq(Inst) /\ Stack(c, i) \in StackType
      BY <1>2 DEF StackFits
    <2>2. QED
      BY <1>1, <1>2, <2>1 DEF StackType
  <1>4. StackFits(s)
    <2>1. Len(s.code) = 0 /\ 1..0 = {} /\ 0 \in 0..0
      BY <1>3
    <2>2. QED
      BY <1>3, <2>1 DEF StackFits
  <1>5. stack_reset(c, i) = Put(c, i, s) /\ i \in 0..Groups(c)
    BY <1>1 DEF stack_reset
  <1>6. QED
    BY <1>3, <1>4, <1>5, NothingFits, PutShape DEF Code

(* the fields that no stack depends on *)
LEMMA FieldShape ==
  ASSUME NEW c, Shape(c), NEW d \in Context,
         d.prog = c.prog, d.parens = c.parens, d.target = c.target, d.buf = c.buf
  PROVE  /\ Shape(d) /\ Groups(d) = Groups(c)
         /\ \A i : Stack(d, i) = Stack(c, i) /\ Code(d, i) = Code(c, i)
  <1>1. Groups(d) = Groups(c) /\ \A i : Stack(d, i) = Stack(c, i)
    BY DEF Groups, Stack
  <1>2. \A i : Code(d, i) = Code(c, i) /\ (Whole(d, i) <=> Whole(c, i))
    BY <1>1 DEF Code, Whole
  <1>3. Shape(d)
    BY <1>1, <1>2 DEF Shape
  <1>4. QED
    BY <1>1, <1>2, <1>3

LEMMA PopShape ==
  ASSUME NEW c, Shape(c), c.buf = Groups(c), Groups(c) >= 2, c.target < Groups(c)
  PROVE  /\ Shape(PopGroup(c))
         /\ Groups(PopGroup(c)) = Groups(c) - 1
         /\ PopGroup(c).buf = 1 /\ PopGroup(c).target = c.target
         /\ PopGroup(c).at = c.at /\ PopGroup(c).strb = c.strb
         /\ PopGroup(c).chained = c.chained
         /\ \A i \in 0..(Groups(c) - 1) : Stack(PopGroup(c), i) = Stack(c, i)
  <1>1. PICK q \in Seq(StackType), n \in Nat : q = c.parens /\ n = Len(q) /\ n >= 2
    BY DEF Shape, Context, Groups
  <1>2. PICK r : r = SubSeq(q, 1, n - 1)
    OBVIOUS
  <1>3. /\ r \in Seq(StackType) /\ Len(r) = n - 1
        /\ \A i \in 1..(n - 1) : r[i] = q[i]
    BY <1>1, <1>2
  <1>4. PICK d : d = PopGroup(c)
    OBVIOUS
  <1>5. d = [c EXCEPT !.parens = r, !.buf = 1] /\ c \in Context
    BY <1>1, <1>2, <1>4 DEF PopGroup, Shape
  <1>6. /\ d \in Context /\ d.parens = r /\ d.prog = c.prog /\ d.buf = 1
        /\ d.target = c.target /\ d.at = c.at /\ d.strb = c.strb
        /\ d.chained = c.chained
    BY <1>3, <1>5 DEF Context
  <1>7. Groups(c) = n /\ Groups(d) = n - 1
    BY <1>1, <1>3, <1>6 DEF Groups
  <1>8. \A i \in 0..(n - 1) : Stack(d, i) = Stack(c, i)
    BY <1>1, <1>3, <1>6 DEF Stack
  <1>9. c.target \in (0..(n - 1)) \ {1}
    BY <1>1, <1>7 DEF Shape
  <1>10. \A i \in 0..(n - 1) : StackFits(Stack(d, i))
    BY <1>1, <1>7, <1>8 DEF Shape
  <1>11. \A i \in 1..(n - 1) : Whole(d, i) => Stack(d, i).dangling_alt = 0
    BY <1>1, <1>6, <1>7, <1>8 DEF Shape, Whole
  <1>12. Plain(Code(d, 1))
    BY <1>1, <1>8 DEF Shape, Code
  <1>13. Groups(d) >= 1 /\ d.buf \in (1..(n - 1)) \ {d.target}
    BY <1>1, <1>6, <1>7, <1>9
  <1>14. Shape(d)
    BY <1>6, <1>7, <1>9, <1>10, <1>11, <1>12, <1>13 DEF Shape
  <1>15. QED
    BY <1>4, <1>6, <1>7, <1>8, <1>14

(* The jump that is set leads just behind what the stack holds. *)
LEMMA AttachFits ==
  ASSUME NEW s, StackFits(s), s.dangling_alt # 0
  PROVE  LET r == [s EXCEPT !.code[s.dangling_alt].x = Len(s.code) - s.dsize + 1,
                            !.dangling_alt = 0]
         IN  StackFits(r) /\ r.dangling_alt = 0
  <1>1. PICK a \in Seq(Inst), n \in Nat, e \in Nat :
          /\ a = s.code /\ n = Len(a) /\ e = s.dangling_alt /\ e = s.dsize
          /\ e \in 1..n /\ a[e] = IJmp(0)
    BY DEF StackFits, StackType
  <1>2. PICK x \in Int : x = n - e + 1
    OBVIOUS
  <1>3. PICK b : b = [a EXCEPT ![e].x = x]
    OBVIOUS
  <1>4. PICK inst : inst = [a[e] EXCEPT !.x = x]
    OBVIOUS
  <1>5. inst \in Inst /\ inst.op = "jmp" /\ inst.x = x
    <2>1. a[e] \in Inst /\ a[e].op = "jmp"
      BY <1>1, JmpInst
    <2>2. QED
      BY <1>4, <2>1 DEF Inst
  <1>6. b = [a EXCEPT ![e] = inst]
    BY <1>3, <1>4
  <1>7. /\ b \in Seq(Inst) /\ Len(b) = n /\ b[e] = inst
        /\ \A i \in 1..n : i # e => b[i] = a[i]
    BY <1>1, <1>5, <1>6
  <1>8. PICK r : r = [s EXCEPT !.code = b, !.dangling_alt = 0]
    OBVIOUS
  <1>9. r \in StackType /\ r.code = b /\ r.dangling_alt = 0
    BY <1>7, <1>8 DEF StackFits, StackType
  <1>10. InstFits(inst, e, n)
    BY <1>1, <1>2, <1>5 DEF InstFits
  <1>11. \A i \in 1..n : InstFits(b[i], i, n)
    BY <1>1, <1>7, <1>10 DEF StackFits
  <1>12. StackFits(r)
    BY <1>7, <1>9, <1>11 DEF StackFits
  <1>13. r = [s EXCEPT !.code[s.dangling_alt].x = Len(s.code) - s.dsize + 1,
                       !.dangling_alt = 0]
    BY <1>1, <1>2, <1>3, <1>8 DEF StackFits, StackType
  <1>14. QED
    BY <1>9, <1>12, <1>13

LEMMA AttachShape ==
  ASSUME NEW c, Shape(c)
  PROVE  /\ Shape(attach_dangling_alt(c))
         /\ SameFields(c, attach_dangling_alt(c))
         /\ Stack(attach_dangling_alt(c), c.target).dangling_alt = 0
         /\ \A j \in 0..Groups(c) :
              j # c.target => Stack(attach_dangling_alt(c), j) = Stack(c, j)
  <1>1. PICK t \in 0..Groups(c) : t = c.target
    BY DEF Shape
  <1> DEFINE s == Stack(c, t)
  <1>2. StackFits(s)
    BY <1>1 DEF Shape
  <1>3. CASE s.dangling_alt = 0
    BY <1>1, <1>3 DEF attach_dangling_alt, SameFields
  <1>4. CASE s.dangling_alt # 0
    <2>1. PICK r : r = [s EXCEPT !.code[s.dangling_alt].x = Len(s.code) - s.dsize + 1,
                                 !.dangling_alt = 0]
      OBVIOUS
    <2>2. StackFits(r) /\ r.dangling_alt = 0
      BY <1>2, <1>4, <2>1, AttachFits
    <2>3. attach_dangling_alt(c) = Put(c, t, r)
      BY <1>1, <1>4, <2>1 DEF attach_dangling_alt
    <2>4. t # 1
      BY <1>1 DEF Shape
    <2>5. QED
      BY <1>1, <2>2, <2>3, <2>4, PutShape
  <1>5. QED
    BY <1>3, <1>4

(* code_alt: everything on the target becomes the first of two ways *)
LEMMA AltFits ==
  ASSUME NEW a, Fits(a)
  PROVE  LET code == <<IBranch(1, Len(a) + 2)>> \o a \o <<IJmp(0)>>
         IN  StackFits([code |-> code, dangling_alt |-> Len(code), dsize |-> Len(code)])
  <1>1. PICK n \in Nat : n = Len(a)
    BY DEF Fits
  <1>2. PICK b \in Inst, j \in Inst : b = IBranch(1, n + 2) /\ j = IJmp(0)
    BY BranchInst, JmpInst
  <1>3. PICK code : code = <<b>> \o a \o <<j>>
    OBVIOUS
  <1>4. /\ code \in Seq(Inst) /\ Len(code) = n + 2 /\ code[1] = b /\ code[n + 2] = j
        /\ \A i \in 2..(n + 1) : code[i] = a[i - 1]
    BY <1>1, <1>2, <1>3 DEF Fits
  <1>5. ASSUME NEW i \in 1..(n + 1)
        PROVE  InstFits(code[i], i, n + 2)
    <2>1. CASE i = 1
      <3>1. /\ 1 + i \in 1..((n + 2) + 1) /\ (n + 2) + i \in (i + 1)..((n + 2) + 1)
            /\ 1 \in Int /\ i \in Int /\ n + 2 \in Int
        BY <2>1
      <3>2. InstFits(IBranch(1, n + 2), i, n + 2)
        BY <3>1, BranchFits
      <3>3. QED
        BY <1>2, <1>4, <2>1, <3>2
    <2>2. CASE i > 1
      <3>1. PICK k \in 1..n : k = i - 1
        BY <2>2
      <3>2. code[i] = a[k] /\ a[k] \in Inst
        BY <1>1, <1>4, <2>2, <3>1 DEF Fits
      <3>3. InstFits(a[k], k, n)
        BY <1>1, <3>1 DEF Fits
      <3>4. /\ i = k + 1 /\ n + 1 <= n + 2 /\ 1 \in Nat
            /\ i \in Int /\ k \in Int /\ n \in Int /\ n + 2 \in Int
        BY <3>1
      <3>5. QED
        BY <3>2, <3>3, <3>4, FurtherOn
    <2>3. QED
      BY <2>1, <2>2
  <1>6. PICK s : s = [code |-> code, dangling_alt |-> Len(code), dsize |-> Len(code)]
    OBVIOUS
  <1>7. /\ s \in StackType /\ s.code = code /\ s.dangling_alt = n + 2 /\ s.dsize = n + 2
    BY <1>4, <1>6 DEF StackType
  <1>8. \A i \in 1..(n + 2) : i # n + 2 => InstFits(code[i], i, n + 2)
    BY <1>5
  <1>9. StackFits(s)
    BY <1>2, <1>4, <1>7, <1>8 DEF StackFits
  <1>10. QED
    BY <1>1, <1>2, <1>3, <1>6, <1>9

LEMMA AltShape ==
  ASSUME NEW c, Shape(c)
  PROVE  LET d == code_alt(c)
         IN  /\ Shape(d) /\ Groups(d) = Groups(c)
             /\ d.target = c.target /\ d.buf = c.buf
             /\ d.at = c.at /\ d.strb = c.strb /\ d.lasttok = c.lasttok
             /\ \A j \in 0..Groups(c) : j # c.target => Stack(d, j) = Stack(c, j)
             /\ Code(d, d.target) # <<>>
  <1>1. PICK t \in 0..Groups(c) : t = c.target /\ t # 1
    BY DEF Shape
  <1>2. PICK e : e = [c EXCEPT !.chained = IF Stack(c, c.target).dsize # 0 THEN 1 ELSE @]
    OBVIOUS
  <1>3. /\ e \in Context /\ e.prog = c.prog /\ e.parens = c.parens
        /\ e.target = c.target /\ e.buf = c.buf
        /\ e.at = c.at /\ e.strb = c.strb /\ e.lasttok = c.lasttok
    BY <1>2 DEF Shape, Context
  <1>4. /\ Shape(e) /\ Groups(e) = Groups(c)
        /\ \A i : Stack(e, i) = Stack(c, i)
    BY <1>3, FieldShape
  <1>5. PICK f : f = attach_dangling_alt(e)
    OBVIOUS
  <1>6. /\ Shape(f) /\ SameFields(e, f) /\ Stack(f, t).dangling_alt = 0
        /\ \A j \in 0..Groups(c) : j # t => Stack(f, j) = Stack(c, j)
    BY <1>1, <1>3, <1>4, <1>5, AttachShape
  <1>7. PICK a : a = Stack(f, t).code
    OBVIOUS
  <1>8. Fits(a)
    <2>1. StackFits(Stack(f, t))
      BY <1>4, <1>6 DEF Shape, SameFields
    <2>2. QED
      BY <1>6, <1>7, <2>1 DEF StackFits, StackType, Fits
  <1>9. PICK code : code = <<IBranch(1, Len(a) + 2)>> \o a \o <<IJmp(0)>>
    OBVIOUS
  <1>10. PICK s : s = [code |-> code, dangling_alt |-> Len(code), dsize |-> Len(code)]
    OBVIOUS
  <1>11. StackFits(s)
    BY <1>8, <1>9, <1>10, AltFits
  <1>12. code_alt(c) = Put(f, t, s)
    BY <1>1, <1>2, <1>3, <1>5, <1>6, <1>7, <1>9, <1>10 DEF code_alt, SameFields
  <1>13. PICK d : d = Put(f, t, s)
    OBVIOUS
  <1>14. t \in 0..Groups(f) /\ (t # 0 => ~Whole(f, t))
    BY <1>1, <1>3, <1>4, <1>6 DEF Shape, SameFields, Whole
  <1>15. /\ Shape(d) /\ SameFields(f, d)
         /\ \A j \in 0..Groups(f) : j # t => Stack(d, j) = Stack(f, j)
         /\ Stack(d, t) = s
    BY <1>1, <1>6, <1>11, <1>13, <1>14, PutShape
  <1>16. code # <<>>
    <2>1. a \in Seq(Inst)
      BY <1>8 DEF Fits
    <2>2. PICK b \in Inst, j \in Inst : b = IBranch(1, Len(a) + 2) /\ j = IJmp(0)
      BY <2>1, BranchInst, JmpInst
    <2>3. QED
      BY <1>9, <2>1, <2>2
  <1>17. d.target = t /\ Code(d, t) = code
    BY <1>1, <1>3, <1>6, <1>10, <1>15 DEF SameFields, Code
  <1>18. QED
    BY <1>1, <1>3, <1>4, <1>6, <1>12, <1>13, <1>15, <1>16, <1>17 DEF SameFields

(* The group just closed joins the target; what may be written to then is  *)
(* without jumps.                                                          *)
LEMMA FlushedShape ==
  ASSUME NEW c, Shape(c), Last(c)
  PROVE  /\ Shape(Flushed(c)) /\ Plain(Code(Flushed(c), Flushed(c).buf))
         /\ Flushed(c).at = c.at /\ Flushed(c).strb = c.strb
  <1>1. CASE c.lasttok = "rparen" /\ Code(c, c.buf) # <<>>
    <2>1. /\ Groups(c) >= 2 /\ c.buf = Groups(c) /\ c.target < Groups(c)
          /\ c.target \in 0..Groups(c) /\ c.target # 1
      BY <1>1 DEF Last, Shape
    <2>2. StackFits(Stack(c, c.buf)) /\ Stack(c, c.buf).dangling_alt = 0
      BY DEF Shape, Whole
    <2>3. Fits(Code(c, c.buf))
      BY <2>2 DEF StackFits, StackType, Fits, Code
    <2>4. PICK d : d = stack_cat(c, c.target, c.buf)
      OBVIOUS
    <2>5. Shape(d) /\ SameFields(c, d)
      BY <2>1, <2>3, <2>4, AddShape DEF stack_cat
    <2>6. d.buf = Groups(d) /\ Groups(d) >= 2 /\ d.target < Groups(d)
      BY <2>1, <2>5 DEF SameFields
    <2>7. Flushed(c) = PopGroup(d)
      BY <1>1, <2>4 DEF Flushed
    <2>8. Shape(PopGroup(d)) /\ PopGroup(d).buf = 1
          /\ PopGroup(d).at = d.at /\ PopGroup(d).strb = d.strb
      BY <2>5, <2>6, PopShape
    <2>9. QED
      BY <2>5, <2>7, <2>8 DEF Shape, SameFields
  <1>2. CASE ~(c.lasttok = "rparen" /\ Code(c, c.buf) # <<>>)
    <2>1. Flushed(c) = c
      BY <1>2 DEF Flushed
    <2>2. Plain(Code(c, c.buf))
      BY <1>2, NothingFits DEF Last
    <2>3. QED
      BY <2>1, <2>2
  <1>3. QED
    BY <1>1, <1>2

(* Instructions of single characters and places *)
LEMMA PlainOne ==
  ASSUME NEW inst \in Inst, inst.op \in OpConsume \cup OpAnchor,
         inst.op \in {"class", "nclass"} => inst.ccs # {}
  PROVE  Plain(<<inst>>)
  <1>1. /\ <<inst>> \in Seq(Inst) /\ Len(<<inst>>) = 1
        /\ \A i \in 1..1 : <<inst>>[i] = inst
    OBVIOUS
  <1>2. inst.op \notin {"branch", "jmp", "match"}
    BY DEF OpConsume, OpAnchor
  <1>3. \A i \in 1..1 : InstFits(inst, i, 1)
    BY <1>2 DEF InstFits
  <1>4. QED
    BY <1>1, <1>2, <1>3 DEF Plain, Fits

LEMMA PlainInsts ==
  /\ \A ch \in Char : IChar(ch) \in Inst /\ Plain(<<IChar(ch)>>)
  /\ Plain(<<IAny>>) /\ Plain(<<ISol>>) /\ Plain(<<IEol>>)
  /\ \A ccs \in (SUBSET Char) \ {{}} : Plain(<<IClass(ccs)>>) /\ Plain(<<INclass(ccs)>>)
  <1>1. PICK b : b = Blank
    OBVIOUS
  <1>2. /\ b \in Inst
        /\ {"char", "any", "sol", "eol", "class", "nclass"} \subseteq Op
    BY <1>1 DEF Blank, Inst, Op, OpConsume, OpAnchor, EndChar
  <1>3. ASSUME NEW op \in {"any", "sol", "eol"}
        PROVE  Plain(<<[b EXCEPT !.op = op]>>)
    <2>1. PICK i : i = [b EXCEPT !.op = op]
      OBVIOUS
    <2>2. i \in Inst /\ i.op = op
      BY <1>2, <2>1 DEF Inst
    <2>3. QED
      BY <2>1, <2>2, PlainOne DEF OpConsume, OpAnchor
  <1>4. ASSUME NEW ch \in Char
        PROVE  IChar(ch) \in Inst /\ Plain(<<IChar(ch)>>)
    <2>1. PICK i : i = [b EXCEPT !.op = "char", !.c = ch]
      OBVIOUS
    <2>2. i \in Inst /\ i.op = "char"
      BY <1>2, <2>1 DEF Inst
    <2>3. QED
      BY <1>1, <2>1, <2>2, PlainOne DEF OpConsume, OpAnchor, IChar
  <1>5. ASSUME NEW op \in {"class", "nclass"}, NEW ccs \in (SUBSET Char) \ {{}}
        PROVE  Plain(<<[b EXCEPT !.op = op, !.ccs = ccs]>>)
    <2>1. PICK i : i = [b EXCEPT !.op = op, !.ccs = ccs]
      OBVIOUS
    <2>2. i \in Inst /\ i.op = op /\ i.ccs = ccs
      BY <1>2, <2>1 DEF Inst
    <2>3. QED
      BY <2>1, <2>2, PlainOne DEF OpConsume, OpAnchor
  <1>6. QED
    BY <1>1, <1>3, <1>4, <1>5 DEF IAny, ISol, IEol, IClass, INclass

LEMMA LfixKept ==
  ASSUME NEW l \in LfixType
  PROVE  /\ lfix_zero(l) \in LfixType /\ lfix_stop(l) \in LfixType
         /\ lfix_dec(l) \in LfixType
         /\ \A p \in Int : lfix_continue(l, p) \in LfixType /\ set_ltempn(l, p) \in LfixType
  <1>1. UIntSize \in Nat \ {0}
    BY DEF UIntSize
  <1>2. ASSUME NEW i \in Int
        PROVE  unsigned(i) \in 0..(UIntSize - 1)
    <2>1. \A m \in Nat \ {0} : i % m \in 0..(m - 1)
      OBVIOUS
    <2>2. QED
      BY <1>1, <2>1 DEF unsigned
  <1>3. lfix_update_longest(l) \in LfixType
    BY DEF LfixType, lfix_update_longest
  <1>4. lfix_zero(l) \in LfixType
    BY <1>1 DEF LfixType, lfix_zero, lfix_static
  <1>5. lfix_stop(l) \in LfixType
    <2>1. PICK m \in LfixType : m = lfix_update_longest(l)
      BY <1>3
    <2>2. 0 \in 0..(UIntSize - 1)
      BY <1>1
    <2>3. [m EXCEPT !.lfixs = 0, !.ltemp0 = 0, !.ltempn = 0] \in LfixType
      BY <2>2 DEF LfixType
    <2>4. QED
      BY <2>1, <2>3 DEF lfix_stop
  <1>6. lfix_dec(l) \in LfixType
    BY <1>1 DEF LfixType, lfix_dec
  <1>7. ASSUME NEW p \in Int
        PROVE  lfix_continue(l, p) \in LfixType /\ set_ltempn(l, p) \in LfixType
    <2>1. unsigned(p) \in 0..(UIntSize - 1) /\ unsigned(l.ltempn + 1) \in 0..(UIntSize - 1)
      BY <1>2 DEF LfixType
    <2>2. QED
      BY <2>1 DEF LfixType, lfix_continue, set_ltempn
  <1>8. QED
    BY <1>4, <1>5, <1>6, <1>7

-----------------------------------------------------------------------------
(* Every step keeps the invariant. *)
Typed(c) ==
  /\ c.target \in 0..Groups(c) /\ c.target # 1
  /\ c.buf \in 1..Groups(c)
  /\ \A i \in 0..Groups(c) :
       /\ \A j \in 1..Len(Stack(c, i).code) : Stack(c, i).code[j] \in Inst
       /\ Stack(c, i).dangling_alt \in 0..Len(Stack(c, i).code)
       /\ Stack(c, i).dangling_alt # 0 =>
            Stack(c, i).code[Stack(c, i).dangling_alt].op = "jmp"

LEMMA ShapeTyped ==
  ASSUME NEW c, Shape(c)
  PROVE  Typed(c)
  <1>1. ASSUME NEW i \in 0..Groups(c)
        PROVE  /\ \A j \in 1..Len(Stack(c, i).code) : Stack(c, i).code[j] \in Inst
               /\ Stack(c, i).dangling_alt \in 0..Len(Stack(c, i).code)
               /\ Stack(c, i).dangling_alt # 0 =>
                    Stack(c, i).code[Stack(c, i).dangling_alt].op = "jmp"
    <2>1. PICK s : s = Stack(c, i)
      OBVIOUS
    <2>2. StackFits(s)
      BY <2>1 DEF Shape
    <2>3. s.code \in Seq(Inst)
      BY <2>2 DEF StackFits, StackType
    <2>4. QED
      BY <2>1, <2>2, <2>3, JmpInst DEF StackFits
  <1>2. QED
    BY <1>1 DEF Shape, Typed

LEMMA TokenRead ==
  ASSUME rest \in Seq(LexToken), rest # <<>>
  PROVE  tok \in LexToken /\ tok \in Token /\ Tail(rest) \in Seq(LexToken)
  BY DEF tok, LexToken

(* a step from one token to the next *)
LEMMA ContextStep ==
  ASSUME Inv, state' \in {"start", "charc"}, outcome' = "none",
         UNCHANGED callVars, rest' \in Seq(LexToken),
         lfix' \in LfixType, is_nchar' \in BOOLEAN,
         Shape(cx'), Last(cx'), state' = "charc" => cx'.lasttok # "rparen"
  PROVE  Inv'
  <1>1. Typed(cx')
    BY ShapeTyped
  <1>2. TypeOK'
    BY <1>1 DEF Inv, TypeOK, Typed, callVars
  <1>3. CompiledWellFormed' /\ ChainsShort'
    BY DEF CompiledWellFormed, ChainsShort
  <1>4. QED
    BY <1>2, <1>3 DEF Inv

(* ... that leaves a buffer without jumps *)
LEMMA TokenStep ==
  ASSUME Inv, state' \in {"start", "charc"}, outcome = "none",
         UNCHANGED callVars, UNCHANGED resultVars, rest # <<>>,
         lfix' \in LfixType, is_nchar' \in BOOLEAN,
         NEW c, Shape(c), Plain(Code(c, c.buf)), Took(c), tok.k # "rparen"
  PROVE  Inv'
  <1>1. tok \in Token /\ rest' \in Seq(LexToken)
    BY TokenRead DEF Inv, Took
  <1>2. PICK d : d = cx'
    OBVIOUS
  <1>3. d = [c EXCEPT !.lasttok = tok.k, !.at = @ + tok.w] /\ c \in Context
    BY <1>2 DEF Took, Shape
  <1>4. PICK k \in Kinds, n \in Nat : k = tok.k /\ n = c.at + tok.w
    <2>1. tok.k \in Kinds /\ tok.w \in Nat /\ c.at \in Nat
      BY <1>1, <1>3 DEF Token, Context
    <2>2. PICK w \in Nat, n \in Nat : w = tok.w /\ n = c.at
      BY <2>1
    <2>3. n + w \in Nat /\ n + w = c.at + tok.w
      BY <2>2
    <2>4. QED
      BY <2>1, <2>3
  <1>5. /\ d \in Context /\ d.prog = c.prog /\ d.parens = c.parens
        /\ d.target = c.target /\ d.buf = c.buf /\ d.lasttok = k
    <2>1. d = [c EXCEPT !.lasttok = k, !.at = n]
      BY <1>3, <1>4
    <2>2. QED
      BY <1>3, <2>1 DEF Context
  <1>6. Shape(d) /\ Code(d, d.buf) = Code(c, c.buf)
    BY <1>5, FieldShape
  <1>7. Last(d) /\ d.lasttok # "rparen"
    BY <1>4, <1>5, <1>6 DEF Last
  <1>8. outcome' = "none"
    BY DEF resultVars
  <1>9. QED
    BY <1>1, <1>2, <1>6, <1>7, <1>8, ContextStep

(* the error paths: nothing but the verdict changes *)
LEMMA FailStep ==
  ASSUME Inv, NEW err, Fail(err), err # "ok", lfix' \in LfixType
  PROVE  Inv'
  <1>1. UNCHANGED <<callVars, rest, cx, is_nchar>> /\ state' = "returned" /\ outcome' # "ok"
    BY DEF Fail
  <1>2. TypeOK'
    BY <1>1 DEF Inv, TypeOK, callVars
  <1>3. CompiledWellFormed' /\ ChainsShort'
    BY <1>1 DEF CompiledWellFormed, ChainsShort
  <1>4. QED
    BY <1>1, <1>2, <1>3 DEF Inv

(* between tokens *)
LEMMA Open ==
  ASSUME Inv, NEW s, NEW kinds, s \in {"start", "charc"}, Reads(s, kinds)
  PROVE  /\ state = s /\ rest # <<>> /\ tok.k \in kinds /\ tok \in LexToken /\ tok \in Token
         /\ Shape(cx) /\ Last(cx) /\ outcome = "none"
         /\ s = "charc" => Plain(Code(cx, cx.buf)) /\ cx.lasttok # "rparen"
         /\ lfix \in LfixType /\ is_nchar \in BOOLEAN
  BY TokenRead DEF Inv, TypeOK, Reads, Last

LEMMA OperandAdded ==
  ASSUME NEW c, Shape(c), NEW i \in 0..Groups(c), NEW inst, Plain(<<inst>>),
         Plain(Code(c, c.buf))
  PROVE  LET d == AddOperand(c, i, inst)
         IN  /\ Shape(d) /\ Plain(Code(d, d.buf)) /\ d.at = c.at
  <1>1. PICK e : e = AddHead(c, i, <<inst>>)
    OBVIOUS
  <1>2. /\ Shape(e) /\ SameFields(c, e)
        /\ Code(e, i) = Code(c, i) \o <<inst>>
        /\ \A j \in 0..Groups(c) : j # i => Stack(e, j) = Stack(c, j)
    BY <1>1, AddShape DEF Plain
  <1>3. PICK n \in Nat : n = Len(Code(c, i)) + 1
    <2>1. StackFits(Stack(c, i))
      BY DEF Shape
    <2>2. QED
      BY <2>1 DEF StackFits, StackType, Code
  <1>4. PICK d : d = [e EXCEPT !.operand = [stack |-> i, at |-> n]]
    OBVIOUS
  <1>5. AddOperand(c, i, inst) = d
    BY <1>1, <1>3, <1>4 DEF AddOperand
  <1>6. i \in Nat /\ e \in Context
    BY <1>2 DEF Shape
  <1>7. /\ d \in Context /\ d.prog = e.prog /\ d.parens = e.parens
        /\ d.target = e.target /\ d.buf = e.buf /\ d.at = e.at
    BY <1>4, <1>6 DEF Context
  <1>8. /\ Shape(d) /\ Code(d, d.buf) = Code(e, c.buf) /\ d.at = c.at
    BY <1>2, <1>7, FieldShape DEF SameFields
  <1>9. Plain(Code(e, c.buf))
    <2>1. c.buf \in 0..Groups(c)
      BY DEF Shape
    <2>2. QED
      BY <1>2, <2>1, PlainConcat DEF Code
  <1>10. QED
    BY <1>5, <1>8, <1>9

LEMMA LiteralKeeps ==
  ASSUME Inv, Literal
  PROVE  Inv'
  <1>1. PICK c : c = Flushed(cx)
    OBVIOUS
  <1>2. Reads("start", {"literal"})
    BY DEF Literal
  <1>3. /\ state = "start" /\ rest # <<>> /\ tok.k = "literal" /\ tok \in LexToken
        /\ tok \in Token /\ Shape(cx) /\ Last(cx) /\ outcome = "none"
        /\ lfix \in LfixType /\ is_nchar \in BOOLEAN
    BY <1>2, Open
  <1>4. Shape(c) /\ Plain(Code(c, c.buf))
    BY <1>1, <1>3, FlushedShape
  <1>5. tok.c \in Char /\ tok.at \in Nat /\ cx.at \in Nat
    BY <1>3 DEF LexToken, Token, Shape, Context
  <1>6. c.buf \in 0..Groups(c)
    BY <1>4 DEF Shape
  <1>7. PICK d : d = AddOperand(c, c.buf, IChar(tok.c))
    OBVIOUS
  <1>8. Shape(d) /\ Plain(Code(d, d.buf))
    BY <1>4, <1>5, <1>6, <1>7, OperandAdded, PlainInsts
  <1>9. Took(d) /\ state' = state /\ UNCHANGED <<callVars, resultVars, is_nchar>>
    BY <1>1, <1>7 DEF Literal
  <1>10. lfix' \in LfixType
    <2>1. cx.at + tok.at \in Int
      BY <1>5
    <2>2. lfix' = lfix_continue(lfix, cx.at + tok.at) \/ lfix' = lfix
      BY DEF Literal
    <2>3. QED
      BY <1>3, <2>1, <2>2, LfixKept
  <1>11. QED
    BY <1>3, <1>8, <1>9, <1>10, TokenStep

LEMMA SingleKeeps ==
  ASSUME Inv, NEW kind, NEW inst, Single(kind, inst), Plain(<<inst>>), kind # "rparen"
  PROVE  Inv'
  <1>1. PICK c : c = Flushed(cx)
    OBVIOUS
  <1>2. Reads("start", {kind})
    BY DEF Single
  <1>3. /\ state = "start" /\ rest # <<>> /\ tok.k = kind
        /\ Shape(cx) /\ Last(cx) /\ outcome = "none"
        /\ lfix \in LfixType /\ is_nchar \in BOOLEAN
    BY <1>2, Open
  <1>4. Shape(c) /\ Plain(Code(c, c.buf))
    BY <1>1, <1>3, FlushedShape
  <1>5. c.buf \in 0..Groups(c)
    BY <1>4 DEF Shape
  <1>6. PICK d : d = AddOperand(c, c.buf, inst)
    OBVIOUS
  <1>7. Shape(d) /\ Plain(Code(d, d.buf))
    BY <1>4, <1>5, <1>6, OperandAdded
  <1>8. /\ Took(d) /\ state' = state /\ lfix' = lfix_stop(lfix)
        /\ UNCHANGED <<callVars, resultVars, is_nchar>>
    BY <1>1, <1>6 DEF Single
  <1>9. lfix' \in LfixType
    BY <1>3, <1>8, LfixKept
  <1>10. QED
    BY <1>3, <1>7, <1>8, <1>9, TokenStep

LEMMA StringSet ==
  ASSUME NEW c, Shape(c), Plain(Code(c, c.buf)), NEW ccs \in SUBSET Char
  PROVE  LET d == [c EXCEPT !.strb = ccs]
         IN  Shape(d) /\ Plain(Code(d, d.buf))
  <1>1. PICK d : d = [c EXCEPT !.strb = ccs]
    OBVIOUS
  <1>2. /\ d \in Context /\ d.prog = c.prog /\ d.parens = c.parens
        /\ d.target = c.target /\ d.buf = c.buf
    BY <1>1 DEF Context, Shape
  <1>3. Shape(d) /\ Code(d, d.buf) = Code(c, c.buf)
    BY <1>2, FieldShape
  <1>4. QED
    BY <1>1, <1>3

LEMMA OpenClassKeeps ==
  ASSUME Inv, OpenClass
  PROVE  Inv'
  <1>1. Reads("start", {"charc_open"})
    BY DEF OpenClass
  <1>2. /\ state = "start" /\ rest # <<>> /\ tok.k = "charc_open"
        /\ Shape(cx) /\ Last(cx) /\ outcome = "none"
        /\ lfix \in LfixType /\ is_nchar \in BOOLEAN
    BY <1>1, Open
  <1>3. PICK c, d : c = Flushed(cx) /\ d = [c EXCEPT !.strb = {}]
    OBVIOUS
  <1>4. Shape(d) /\ Plain(Code(d, d.buf))
    <2>1. Shape(c) /\ Plain(Code(c, c.buf))
      BY <1>2, <1>3, FlushedShape
    <2>2. QED
      BY <1>3, <2>1, StringSet
  <1>5. /\ Took(d) /\ state' = "charc" /\ lfix' = lfix_stop(lfix)
        /\ UNCHANGED <<callVars, resultVars, is_nchar>>
    BY <1>3 DEF OpenClass
  <1>6. lfix' \in LfixType
    BY <1>2, <1>5, LfixKept
  <1>7. QED
    BY <1>2, <1>4, <1>5, <1>6, TokenStep

LEMMA ClassLiteralKeeps ==
  ASSUME Inv, ClassLiteral
  PROVE  Inv'
  <1>1. Reads("charc", {"literal"})
    BY DEF ClassLiteral
  <1>2. /\ state = "charc" /\ rest # <<>> /\ tok.k = "literal" /\ tok \in LexToken
        /\ Shape(cx) /\ Plain(Code(cx, cx.buf)) /\ outcome = "none"
        /\ lfix \in LfixType /\ is_nchar \in BOOLEAN
    BY <1>1, Open
  <1>3. PICK d : d = [cx EXCEPT !.strb = @ \cup {tok.c}]
    OBVIOUS
  <1>4. Shape(d) /\ Plain(Code(d, d.buf))
    <2>1. cx.strb \cup {tok.c} \in SUBSET Char
      BY <1>2 DEF LexToken, Shape, Context
    <2>2. QED
      BY <1>2, <1>3, <2>1, StringSet
  <1>5. /\ Took(cx) \/ Took(d)
        /\ is_nchar' \in BOOLEAN /\ UNCHANGED <<callVars, resultVars, state, lfix>>
    BY <1>2, <1>3 DEF ClassLiteral
  <1>6. CASE Took(cx)
    BY <1>2, <1>5, <1>6, TokenStep
  <1>7. CASE Took(d)
    BY <1>2, <1>4, <1>5, <1>7, TokenStep
  <1>8. QED
    BY <1>5, <1>6, <1>7

LEMMA ClassRangeKeeps ==
  ASSUME Inv, ClassRange
  PROVE  Inv'
  <1>1. Reads("charc", {"char_range"})
    BY DEF ClassRange
  <1>2. /\ state = "charc" /\ rest # <<>> /\ tok.k = "char_range" /\ tok \in LexToken
        /\ Shape(cx) /\ Plain(Code(cx, cx.buf)) /\ outcome = "none"
        /\ lfix \in LfixType /\ is_nchar \in BOOLEAN
    BY <1>1, Open
  <1>3. PICK d : d = [cx EXCEPT !.strb = @ \cup (tok.c..tok.d) \cup (tok.d..tok.c)]
    OBVIOUS
  <1>4. Shape(d) /\ Plain(Code(d, d.buf))
    <2>1. (tok.c..tok.d) \cup (tok.d..tok.c) \subseteq Char
      BY <1>2 DEF LexToken
    <2>2. cx.strb \in SUBSET Char
      BY <1>2 DEF Shape, Context
    <2>3. PICK ccs : ccs = cx.strb \cup (tok.c..tok.d) \cup (tok.d..tok.c)
      OBVIOUS
    <2>4. ccs \in SUBSET Char
      BY <2>1, <2>2, <2>3
    <2>5. d = [cx EXCEPT !.strb = ccs]
      BY <1>3, <2>3
    <2>6. QED
      BY <1>2, <2>4, <2>5, StringSet
  <1>5. Took(d) /\ UNCHANGED <<callVars, resultVars, state, is_nchar, lfix>>
    BY <1>3 DEF ClassRange
  <1>6. QED
    BY <1>2, <1>4, <1>5, TokenStep

LEMMA CloseClassKeeps ==
  ASSUME Inv, CloseClass
  PROVE  Inv'
  <1>1. Reads("charc", {"charc_close"})
    BY DEF CloseClass
  <1>2. /\ state = "charc" /\ rest # <<>> /\ tok.k = "charc_close"
        /\ Shape(cx) /\ Plain(Code(cx, cx.buf)) /\ outcome = "none"
        /\ lfix \in LfixType
    BY <1>1, Open
  <1>3. PICK d : d = IF cx.strb = {} THEN cx
                     ELSE AddOperand(cx, 1, IF is_nchar THEN INclass(cx.strb)
                                            ELSE IClass(cx.strb))
    OBVIOUS
  <1>4. Shape(d) /\ Plain(Code(d, d.buf))
    <2>1. CASE cx.strb = {}
      BY <1>2, <1>3, <2>1
    <2>2. CASE cx.strb # {}
      <3>1. PICK inst : inst = IF is_nchar THEN INclass(cx.strb) ELSE IClass(cx.strb)
        OBVIOUS
      <3>2. cx.strb \in (SUBSET Char) \ {{}} /\ 1 \in 0..Groups(cx)
        BY <1>2, <2>2 DEF Shape, Context, Groups
      <3>3. Plain(<<inst>>)
        BY <3>1, <3>2, PlainInsts
      <3>4. d = AddOperand(cx, 1, inst)
        BY <1>3, <2>2, <3>1
      <3>5. QED
        BY <1>2, <3>2, <3>3, <3>4, OperandAdded
    <2>3. QED
      BY <2>1, <2>2
  <1>5. /\ Took(d) /\ is_nchar' = FALSE /\ state' = "start"
        /\ UNCHANGED <<callVars, resultVars, lfix>>
    BY <1>3 DEF CloseClass
  <1>6. QED
    BY <1>2, <1>4, <1>5, TokenStep

(* what is in the base goes to the target, before a group opens or closes *)
LEMMA BaseMoved ==
  ASSUME NEW c, Shape(c), Plain(Code(c, c.buf))
  PROVE  LET d == stack_reset(stack_cat(c, c.target, 1), 1)
         IN  Shape(d) /\ SameFields(c, d) /\ Plain(Code(d, d.buf))
  <1>1. PICK t \in 0..Groups(c) : t = c.target /\ t # 1
    BY DEF Shape
  <1>2. PICK e : e = stack_cat(c, t, 1)
    OBVIOUS
  <1>3. /\ Shape(e) /\ SameFields(c, e)
        /\ \A j \in 0..Groups(c) : j # t => Stack(e, j) = Stack(c, j)
    <2>1. Fits(Code(c, 1)) /\ e = AddHead(c, t, Code(c, 1))
      BY <1>2 DEF stack_cat, Shape, Plain
    <2>2. QED
      BY <1>1, <2>1, AddShape
  <1>4. PICK d : d = stack_reset(e, 1)
    OBVIOUS
  <1>5. 1 \in 1..Groups(e) /\ Groups(e) = Groups(c) /\ Whole(e, 1)
    BY <1>3 DEF Shape, SameFields, Whole, Context, Groups
  <1>6. /\ Shape(d) /\ SameFields(e, d) /\ Code(d, 1) = <<>>
        /\ \A j \in 0..Groups(e) : j # 1 => Stack(d, j) = Stack(e, j)
    BY <1>3, <1>4, <1>5, ResetShape
  <1>7. SameFields(c, d) /\ d.buf = c.buf
    BY <1>3, <1>6 DEF SameFields
  <1>8. Plain(Code(d, c.buf))
    <2>1. c.buf \in 0..Groups(c) /\ c.buf # t
      BY <1>1 DEF Shape
    <2>2. CASE c.buf = 1
      BY <1>6, <2>2, NothingFits
    <2>3. CASE c.buf # 1
      BY <1>3, <1>5, <1>6, <2>1, <2>3 DEF Code
    <2>4. QED
      BY <2>2, <2>3
  <1>9. QED
    BY <1>1, <1>2, <1>4, <1>6, <1>7, <1>8

LEMMA Depth ==
  ASSUME NEW i \in Int
  PROVE  unsigned(i) \in Nat
  BY DEF unsigned, UIntSize

LEMMA NewStack ==
  StackFits(create_stack) /\ create_stack \in StackType
  <1>1. <<>> \in Seq(Inst) /\ Len(<<>>) = 0 /\ 1..0 = {} /\ 0 \in 0..0
    OBVIOUS
  <1>2. /\ create_stack \in StackType /\ create_stack.code = <<>>
        /\ create_stack.dangling_alt = 0
    BY <1>1 DEF create_stack, StackType
  <1>3. QED
    BY <1>1, <1>2 DEF StackFits

LEMMA GroupAppended ==
  ASSUME NEW q \in Seq(StackType)
  PROVE  LET r == Append(q, create_stack)
         IN  /\ r \in Seq(StackType) /\ Len(r) = Len(q) + 1
             /\ r[Len(q) + 1] = create_stack
             /\ \A i \in 1..Len(q) : r[i] = q[i]
  <1>1. PICK top \in StackType : top = create_stack
    BY NewStack
  <1>2. /\ Append(q, top) \in Seq(StackType)
        /\ Len(Append(q, top)) = Len(q) + 1
        /\ \A i \in 1..Len(q) : Append(q, top)[i] = q[i]
        /\ Append(q, top)[Len(q) + 1] = top
    BY AppendProperties
  <1>3. QED
    BY <1>1, <1>2

LEMMA OpenGroupKeeps ==
  ASSUME Inv, OpenGroup
  PROVE  Inv'
  <1>1. Reads("start", {"lparen"})
    BY DEF OpenGroup
  <1>2. /\ state = "start" /\ rest # <<>> /\ tok.k = "lparen"
        /\ Shape(cx) /\ Last(cx) /\ outcome = "none"
        /\ lfix \in LfixType /\ is_nchar \in BOOLEAN
    BY <1>1, Open
  <1>3. PICK c, d : c = Flushed(cx) /\ d = stack_reset(stack_cat(c, c.target, 1), 1)
    OBVIOUS
  <1>4. Shape(d) /\ Plain(Code(d, d.buf))
    <2>1. Shape(c) /\ Plain(Code(c, c.buf))
      BY <1>2, <1>3, FlushedShape
    <2>2. QED
      BY <1>3, <2>1, BaseMoved
  <1>5. PICK q \in Seq(StackType), n \in Nat \ {0}, t \in Nat :
          q = d.parens /\ n = Len(q) /\ n = Groups(d) /\ t = n + 1
    BY <1>4 DEF Shape, Context, Groups
  <1>6. PICK p \in Nat : p = unsigned(d.depth + 1)
    <2>1. d.depth + 1 \in Int
      BY <1>4 DEF Shape, Context
    <2>2. QED
      BY <2>1, Depth
  <1>7. PICK r : r = Append(q, create_stack)
    OBVIOUS
  <1>8. StackFits(create_stack)
    BY NewStack
  <1>9. /\ r \in Seq(StackType) /\ Len(r) = n + 1 /\ r[n + 1] = create_stack
        /\ \A i \in 1..n : r[i] = q[i]
    BY <1>5, <1>7, GroupAppended
  <1>10. PICK e : e = [d EXCEPT !.parens = r, !.target = t, !.depth = p]
    OBVIOUS
  <1>11. /\ e \in Context /\ e.parens = r /\ e.target = t /\ e.buf = d.buf
         /\ e.prog = d.prog
    BY <1>4, <1>9, <1>10 DEF Shape, Context
  <1>12. Groups(e) = n + 1
    BY <1>9, <1>11 DEF Groups
  <1>13. \A i \in 0..n : Stack(e, i) = Stack(d, i)
    BY <1>5, <1>9, <1>11 DEF Stack
  <1>14. Stack(e, n + 1) = create_stack
    BY <1>5, <1>9, <1>11 DEF Stack
  <1>15. \A i \in 0..(n + 1) : StackFits(Stack(e, i))
    <2>1. \A i \in 0..(n + 1) : i \in 0..n \/ i = n + 1
      BY <1>5
    <2>2. QED
      BY <1>4, <1>5, <1>8, <1>13, <1>14, <2>1 DEF Shape
  <1>16. \A i \in 1..(n + 1) : Whole(e, i) => Stack(e, i).dangling_alt = 0
    <2>1. d.buf \in 1..n
      BY <1>4, <1>5 DEF Shape
    <2>2. \A i \in 1..(n + 1) : Whole(e, i) => i \in 1..n /\ Whole(d, i)
      BY <1>5, <1>11, <2>1 DEF Whole
    <2>3. QED
      BY <1>4, <1>5, <1>13, <2>2 DEF Shape
  <1>17. Plain(Code(e, 1)) /\ Plain(Code(e, e.buf))
    <2>1. d.buf \in 0..n /\ 1 \in 0..n
      BY <1>4, <1>5 DEF Shape
    <2>2. QED
      BY <1>4, <1>11, <1>13, <2>1 DEF Shape, Code
  <1>18. Shape(e)
    <2>1. e.target \in (0..(n + 1)) \ {1} /\ n + 1 >= 1
      BY <1>5, <1>11
    <2>2. e.buf \in (1..(n + 1)) \ {e.target}
      BY <1>4, <1>5, <1>11 DEF Shape
    <2>3. QED
      BY <1>11, <1>12, <1>15, <1>16, <1>17, <2>1, <2>2 DEF Shape
  <1>19. e = [d EXCEPT !.parens = Append(@, create_stack), !.target = Groups(d) + 1,
                       !.depth = unsigned(@ + 1)]
    BY <1>5, <1>6, <1>7, <1>10
  <1>20. /\ Took(e) /\ lfix' = lfix_stop(lfix)
         /\ UNCHANGED <<callVars, resultVars, state, is_nchar>>
    BY <1>3, <1>19 DEF OpenGroup
  <1>21. lfix' \in LfixType
    BY <1>2, <1>20, LfixKept
  <1>22. QED
    BY <1>2, <1>17, <1>18, <1>20, <1>21, TokenStep

LEMMA CloseGroupKeeps ==
  ASSUME Inv, CloseGroup
  PROVE  Inv'
  <1>1. Reads("start", {"rparen"})
    BY DEF CloseGroup
  <1>2. /\ state = "start" /\ rest # <<>> /\ tok.k = "rparen" /\ tok \in Token
        /\ Shape(cx) /\ Last(cx) /\ outcome = "none"
        /\ lfix \in LfixType /\ is_nchar \in BOOLEAN
    BY <1>1, Open
  <1>3. PICK c : c = Flushed(cx)
    OBVIOUS
  <1>4. Shape(c) /\ Groups(c) > 1
    BY <1>2, <1>3, FlushedShape DEF CloseGroup
  <1>5. PICK n \in Nat, t \in Nat :
          n = Groups(c) /\ t = c.target /\ t # 1 /\ n >= 2 /\ t \in 0..n
    BY <1>4 DEF Shape, Context, Groups
  <1>6. PICK a, e : a = stack_cat(c, t, 1) /\ e = attach_dangling_alt(a)
    OBVIOUS
  <1>7. Shape(a) /\ SameFields(c, a) /\ \A j \in 0..n : j # t => Stack(a, j) = Stack(c, j)
    <2>1. Fits(Code(c, 1)) /\ a = AddHead(c, t, Code(c, 1))
      BY <1>4, <1>6 DEF stack_cat, Shape, Plain
    <2>2. QED
      BY <1>4, <1>5, <2>1, AddShape
  <1>8. /\ Shape(e) /\ SameFields(a, e) /\ Stack(e, t).dangling_alt = 0
        /\ \A j \in 0..n : j # t => Stack(e, j) = Stack(a, j)
    BY <1>5, <1>6, <1>7, AttachShape DEF SameFields
  <1>9. PICK d : d = stack_reset(e, 1)
    OBVIOUS
  <1>10. /\ Shape(d) /\ SameFields(e, d)
         /\ \A j \in 0..n : j # 1 => Stack(d, j) = Stack(e, j)
    <2>1. 1 \in 1..Groups(e) /\ Groups(e) = n /\ Whole(e, 1)
      BY <1>5, <1>7, <1>8 DEF SameFields, Whole
    <2>2. QED
      BY <1>8, <1>9, <2>1, ResetShape
  <1>11. Groups(d) = n /\ d.target = t
    BY <1>5, <1>7, <1>8, <1>10 DEF SameFields
  <1>12. Stack(d, n).dangling_alt = 0
    <2>1. CASE t = n
      BY <1>5, <1>8, <1>10, <2>1
    <2>2. CASE t # n
      <3>1. Whole(c, n) /\ n \in 1..Groups(c)
        BY <1>5, <2>2 DEF Whole
      <3>2. Stack(d, n) = Stack(c, n)
        BY <1>5, <1>7, <1>8, <1>10, <2>2
      <3>3. QED
        BY <1>4, <3>1, <3>2 DEF Shape
    <2>3. QED
      BY <2>1, <2>2
  <1>13. PICK p \in Nat : p = unsigned(d.depth - 1)
    <2>1. d.depth - 1 \in Int
      BY <1>10 DEF Shape, Context
    <2>2. QED
      BY <2>1, Depth
  <1>14. PICK u \in 0..n, w \in Nat :
           u = (IF n = 2 THEN 0 ELSE n - 1) /\ u # 1 /\ u # n /\ w = d.at + tok.w
    <2>1. d.at + tok.w \in Nat
      <3>1. PICK v \in Nat, x \in Nat : v = d.at /\ x = tok.w
        BY <1>2, <1>10 DEF Shape, Context, Token
      <3>2. v + x \in Nat
        OBVIOUS
      <3>3. QED
        BY <3>1, <3>2
    <2>2. PICK v \in 0..n : v = (IF n = 2 THEN 0 ELSE n - 1) /\ v # 1 /\ v # n
      BY <1>5
    <2>3. QED
      BY <2>1, <2>2
  <1>15. PICK f : f = [d EXCEPT !.operand = [stack |-> n, at |-> 1], !.buf = n,
                                !.target = u, !.depth = p, !.lasttok = "rparen", !.at = w]
    OBVIOUS
  <1>16. /\ f \in Context /\ f.prog = d.prog /\ f.parens = d.parens
         /\ f.buf = n /\ f.target = u /\ f.lasttok = "rparen"
         /\ f.operand = [stack |-> n, at |-> 1]
    <2>1. PICK o \in [stack : Nat, at : Nat] : o = [stack |-> n, at |-> 1]
      OBVIOUS
    <2>2. d \in Context /\ u \in Nat /\ "rparen" \in Kinds
      BY <1>2, <1>10, <1>14 DEF Shape, Token
    <2>3. f = [d EXCEPT !.operand = o, !.buf = n, !.target = u, !.depth = p,
                        !.lasttok = "rparen", !.at = w]
      BY <1>15, <2>1
    <2>4. f \in Context
      BY <2>2, <2>3 DEF Context
    <2>5. /\ f.prog = d.prog /\ f.parens = d.parens
          /\ f.buf = n /\ f.target = u /\ f.lasttok = "rparen" /\ f.operand = o
      BY <2>2, <2>3 DEF Context
    <2>6. QED
      BY <2>1, <2>4, <2>5
  <1>17. Groups(f) = n /\ \A i : Stack(f, i) = Stack(d, i)
    BY <1>11, <1>16 DEF Groups, Stack
  <1>18. \A i \in 1..n : Whole(f, i) => Stack(f, i).dangling_alt = 0
    <2>1. \A i \in 1..n : Whole(f, i) => i = n \/ i = 1
      BY <1>5, <1>14, <1>16 DEF Whole
    <2>2. 1 \in 1..n /\ Whole(d, 1)
      BY <1>5 DEF Whole
    <2>3. QED
      BY <1>10, <1>11, <1>12, <1>17, <2>1, <2>2 DEF Shape
  <1>19. Shape(f)
    <2>1. \A i \in 0..n : StackFits(Stack(f, i))
      BY <1>10, <1>11, <1>17 DEF Shape
    <2>2. Plain(Code(f, 1))
      BY <1>10, <1>17 DEF Shape, Code
    <2>3. n >= 1 /\ f.target \in (0..n) \ {1} /\ f.buf \in (1..n) \ {f.target}
      BY <1>5, <1>14, <1>16
    <2>4. QED
      BY <1>16, <1>17, <1>18, <2>1, <2>2, <2>3 DEF Shape
  <1>20. Last(f)
    BY <1>5, <1>14, <1>16, <1>17 DEF Last
  <1>21. /\ cx' = [[d EXCEPT !.operand = [stack |-> n, at |-> 1], !.buf = n,
                             !.target = IF n = 2 THEN 0 ELSE n - 1,
                             !.depth = unsigned(@ - 1)]
                     EXCEPT !.lasttok = tok.k, !.at = @ + tok.w]
         /\ rest' = Tail(rest) /\ lfix' = lfix_stop(lfix)
         /\ UNCHANGED <<callVars, resultVars, state, is_nchar>>
    BY <1>3, <1>5, <1>6, <1>9, <1>11 DEF CloseGroup, Took
  <1>22. d \in Context
    BY <1>10 DEF Shape
  <1>23. cx' = f
    BY <1>2, <1>13, <1>14, <1>15, <1>21, <1>22 DEF Context
  <1>24. rest' \in Seq(LexToken) /\ lfix' \in LfixType /\ outcome' = "none" /\ state' = "start"
    BY <1>2, <1>21, LfixKept, TokenRead DEF Inv, resultVars
  <1>25. QED
    BY <1>2, <1>19, <1>20, <1>21, <1>23, <1>24, ContextStep

(* An operator uses up the buffer. *)
LEMMA ConsumedShape ==
  ASSUME NEW c, Shape(c),
         c.lasttok = "rparen" =>
           Groups(c) >= 2 /\ c.buf = Groups(c) /\ c.target < Groups(c)
  PROVE  Shape(Consumed(c)) /\ Plain(Code(Consumed(c), Consumed(c).buf))
  <1>1. PICK d : d = stack_reset(c, c.buf)
    OBVIOUS
  <1>2. Shape(d) /\ SameFields(c, d)
    BY <1>1, ResetShape DEF Shape, Whole
  <1>3. CASE c.lasttok = "rparen"
    <2>1. d.buf = Groups(d) /\ Groups(d) >= 2 /\ d.target < Groups(d)
      BY <1>2, <1>3 DEF SameFields
    <2>2. Shape(PopGroup(d)) /\ PopGroup(d).buf = 1
      BY <1>2, <2>1, PopShape
    <2>3. Consumed(c) = PopGroup(d)
      BY <1>1, <1>3 DEF Consumed
    <2>4. QED
      BY <2>2, <2>3 DEF Shape
  <1>4. CASE c.lasttok # "rparen"
    <2>1. PICK e : e = [d EXCEPT !.buf = 1]
      OBVIOUS
    <2>2. /\ e \in Context /\ e.prog = d.prog /\ e.parens = d.parens
          /\ e.target = d.target /\ e.buf = 1
      BY <1>2, <2>1 DEF Shape, Context
    <2>3. Groups(e) = Groups(d) /\ \A i : Stack(e, i) = Stack(d, i)
      BY <2>2 DEF Groups, Stack
    <2>4. \A i \in 1..Groups(e) : Whole(e, i) => Stack(e, i).dangling_alt = 0
      BY <1>2, <2>2, <2>3 DEF Shape, Whole
    <2>5. Plain(Code(e, 1))
      BY <1>2, <2>3 DEF Shape, Code
    <2>6. e.buf \in (1..Groups(e)) \ {e.target}
      BY <1>2, <2>2, <2>3 DEF Shape, Context, Groups
    <2>7. Shape(e)
      BY <1>2, <2>2, <2>3, <2>4, <2>5, <2>6 DEF Shape
    <2>8. Consumed(c) = e
      BY <1>1, <1>4, <2>1 DEF Consumed
    <2>9. QED
      BY <2>2, <2>5, <2>7, <2>8
  <1>5. QED
    BY <1>3, <1>4

LEMMA BufferFits ==
  ASSUME NEW c, Shape(c)
  PROVE  Fits(Code(c, c.buf)) /\ c.buf \in 0..Groups(c)
  <1>1. StackFits(Stack(c, c.buf)) /\ Stack(c, c.buf).dangling_alt = 0 /\ c.buf \in 0..Groups(c)
    BY DEF Shape, Whole
  <1>2. QED
    BY <1>1 DEF StackFits, StackType, Fits, Code

LEMMA SubPlain ==
  ASSUME NEW a, Plain(a), NEW i \in 1..(Len(a) + 1), NEW j \in 0..Len(a)
  PROVE  Plain(SubSeq(a, i, j))
  <1>1. PICK n \in Nat : n = Len(a) /\ a \in Seq(Inst)
    BY DEF Plain, Fits
  <1>2. PICK b : b = SubSeq(a, i, j)
    OBVIOUS
  <1>3. PICK m \in Nat : m = (IF i <= j THEN j - i + 1 ELSE 0)
    <2>1. (IF i <= j THEN j - i + 1 ELSE 0) \in Nat
      BY <1>1
    <2>2. QED
      BY <2>1
  <1>4. /\ b \in Seq(Inst) /\ Len(b) = m
        /\ \A k \in 1..m : i + k - 1 \in 1..n /\ b[k] = a[i + k - 1]
    BY <1>1, <1>2, <1>3
  <1>5. ASSUME NEW k \in 1..m
        PROVE  InstFits(b[k], k, m) /\ b[k].op \notin {"branch", "jmp"}
    <2>1. PICK x \in 1..n : x = i + k - 1 /\ b[k] = a[x]
      BY <1>4
    <2>2. InstFits(a[x], x, n) /\ a[x].op \notin {"branch", "jmp"}
      BY <1>1 DEF Plain, Fits
    <2>3. QED
      BY <2>1, <2>2 DEF InstFits
  <1>6. QED
    BY <1>2, <1>4, <1>5 DEF Plain, Fits

(* the buffer is cut where the operand starts *)
LEMMA OperandFits ==
  ASSUME Inv, Operator
  PROVE  Fits(Prefix) /\ Fits(Operand) /\ Len(Operand) > 0
  <1>1. Reads("start", ISOP \ {"alt"})
    BY DEF Operator
  <1>2. Shape(cx) /\ Last(cx)
    BY <1>1, Open
  <1>3. PICK a \in Seq(Inst), n \in Nat, at \in Nat :
          a = Buffered /\ n = Len(a) /\ at = cx.operand.at /\ at \in 1..n
    <2>1. Buffered \in Seq(Inst) /\ cx.operand.at \in 1..Len(Buffered)
      BY <1>2, BufferFits DEF Operator, OperandHeld, Buffered, Fits
    <2>2. QED
      BY <2>1
  <1>4. Fits(a) /\ a \in Seq(Inst)
    BY <1>2, <1>3, BufferFits DEF Buffered, Fits
  <1>5. Prefix = SubSeq(a, 1, at - 1) /\ Operand = SubSeq(a, at, n)
    BY <1>3 DEF Prefix, Operand
  <1>6. Len(Operand) > 0
    BY <1>3, <1>4, <1>5
  <1>7. CASE cx.lasttok = "rparen"
    <2>1. at = 1
      BY <1>2, <1>3, <1>7 DEF Last
    <2>2. Prefix = <<>> /\ Operand = a
      BY <1>3, <1>4, <1>5, <2>1
    <2>3. QED
      BY <1>4, <1>6, <2>2, NothingFits
  <1>8. CASE cx.lasttok # "rparen"
    <2>1. Plain(a)
      BY <1>2, <1>3, <1>8 DEF Last, Buffered
    <2>2. /\ 1 \in 1..(Len(a) + 1) /\ at - 1 \in 0..Len(a)
          /\ at \in 1..(Len(a) + 1) /\ n \in 0..Len(a)
      BY <1>3
    <2>3. Plain(Prefix) /\ Plain(Operand)
      BY <1>5, <2>1, <2>2, SubPlain
    <2>4. QED
      BY <1>6, <2>3 DEF Plain
  <1>9. QED
    BY <1>7, <1>8

LEMMA OperatorKeeps ==
  ASSUME Inv, Operator
  PROVE  Inv'
  <1>1. Reads("start", ISOP \ {"alt"})
    BY DEF Operator
  <1>2. /\ state = "start" /\ rest # <<>> /\ tok.k \in ISOP \ {"alt"} /\ tok \in Token
        /\ Shape(cx) /\ Last(cx) /\ outcome = "none"
        /\ lfix \in LfixType /\ is_nchar \in BOOLEAN
    BY <1>1, Open
  <1>3. tok.k # "rparen"
    BY <1>2 DEF ISOP
  <1>4. PICK code : code = Prefix \o OpCode(tok, Operand)
    OBVIOUS
  <1>5. Fits(code)
    BY <1>2, <1>4, OperandFits, OpCodeFits, ConcatFits
  <1>6. PICK c : c = AddHead(cx, cx.target, code)
    OBVIOUS
  <1>7. Shape(c) /\ SameFields(cx, c)
    <2>1. cx.target \in 0..Groups(cx) /\ cx.target # 1
      BY <1>2 DEF Shape
    <2>2. QED
      BY <1>2, <1>5, <1>6, <2>1, AddShape
  <1>8. c.lasttok = "rparen" =>
          Groups(c) >= 2 /\ c.buf = Groups(c) /\ c.target < Groups(c)
    BY <1>2, <1>7 DEF Shape, SameFields, Last, Context, Groups
  <1>9. PICK d : d = Consumed(c)
    OBVIOUS
  <1>10. Shape(d) /\ Plain(Code(d, d.buf))
    BY <1>7, <1>8, <1>9, ConsumedShape
  <1>11. Took(d) /\ UNCHANGED <<callVars, resultVars, state, is_nchar>>
    BY <1>4, <1>6, <1>9 DEF Operator
  <1>12. lfix' \in LfixType
    <2>1. \/ lfix' = lfix_stop(lfix)
          \/ lfix' = lfix_stop(lfix_dec(lfix))
      BY DEF Operator
    <2>2. QED
      BY <1>2, <2>1, LfixKept
  <1>13. QED
    BY <1>2, <1>3, <1>10, <1>11, <1>12, TokenStep

LEMMA AlternationKeeps ==
  ASSUME Inv, Alternation
  PROVE  Inv'
  <1>1. Reads("start", {"alt"})
    BY DEF Alternation
  <1>2. /\ state = "start" /\ rest # <<>> /\ tok.k = "alt" /\ tok \in Token
        /\ Shape(cx) /\ Last(cx) /\ outcome = "none"
        /\ lfix \in LfixType /\ is_nchar \in BOOLEAN
    BY <1>1, Open
  <1>3. PICK c, d, e : /\ c = AddHead(cx, cx.target, Buffered) /\ d = code_alt(c)
                       /\ e = Consumed(d)
    OBVIOUS
  <1>4. Shape(c) /\ SameFields(cx, c)
    <2>1. cx.target \in 0..Groups(cx) /\ cx.target # 1 /\ Fits(Buffered)
      BY <1>2, BufferFits DEF Shape, Buffered
    <2>2. QED
      BY <1>2, <1>3, <2>1, AddShape
  <1>5. /\ Shape(d) /\ Groups(d) = Groups(c) /\ d.target = c.target /\ d.buf = c.buf
        /\ d.lasttok = c.lasttok
    BY <1>3, <1>4, AltShape
  <1>6. d.lasttok = "rparen" =>
          Groups(d) >= 2 /\ d.buf = Groups(d) /\ d.target < Groups(d)
    BY <1>2, <1>4, <1>5 DEF Shape, SameFields, Last, Context, Groups
  <1>7. Shape(e) /\ Plain(Code(e, e.buf))
    BY <1>3, <1>5, <1>6, ConsumedShape
  <1>8. /\ Took(e) /\ lfix' = lfix_stop(lfix)
        /\ UNCHANGED <<callVars, resultVars, state, is_nchar>>
    BY <1>3 DEF Alternation
  <1>9. lfix' \in LfixType
    BY <1>2, <1>8, LfixKept
  <1>10. QED
    BY <1>2, <1>7, <1>8, <1>9, TokenStep

-----------------------------------------------------------------------------
(* stage2: the program, and the chains of jumps in it *)
Ahead(p, n) ==
  /\ p \in [0..(n - 1) -> Inst]
  /\ \A i \in 0..(n - 1) : p[i].op = "jmp" => p[i].x \in (i + 1)..(n - 1)
Goes(p, f, i) == IF p[i].op = "jmp" /\ p[i].x > i THEN f[p[i].x] ELSE i

(* Every jump leads ahead, so the ends of chains are found from the end of *)
(* the program backwards ...                                               *)
LEMMA ChainEndDefined ==
  ASSUME NEW n \in Nat, NEW p, Ahead(p, n)
  PROVE  \E f : f = [i \in 0..(n - 1) |-> Goes(p, f, i)]
  <1> DEFINE Found == {d \in 0..n : \E f \in [(n - d)..(n - 1) -> 0..(n - 1)] :
                         \A i \in (n - d)..(n - 1) : f[i] = Goes(p, f, i)}
  <1>1. 0 \in Found
    <2>1. (n - 0)..(n - 1) = {} /\ 0 \in 0..n
      OBVIOUS
    <2>2. PICK f : f = [i \in (n - 0)..(n - 1) |-> 0]
      OBVIOUS
    <2>3. f \in [(n - 0)..(n - 1) -> 0..(n - 1)]
      BY <2>1, <2>2
    <2>4. QED
      BY <2>1, <2>3
  <1>2. ASSUME NEW d \in 0..(n - 1), d \in Found
        PROVE  d + 1 \in Found
    <2>1. PICK f \in [(n - d)..(n - 1) -> 0..(n - 1)] :
            \A i \in (n - d)..(n - 1) : f[i] = Goes(p, f, i)
      BY <1>2
    <2>2. PICK k \in 0..(n - 1) : k = n - d - 1 /\ k = n - (d + 1) /\ k + 1 = n - d
      OBVIOUS
    <2>3. PICK g : g = [i \in k..(n - 1) |-> IF i = k THEN Goes(p, f, k) ELSE f[i]]
      OBVIOUS
    <2>4. p[k].op = "jmp" => p[k].x \in (n - d)..(n - 1) /\ p[k].x > k
      BY <2>2 DEF Ahead
    <2>5. Goes(p, f, k) \in 0..(n - 1)
      BY <2>2, <2>4 DEF Goes
    <2>6. \A i \in k..(n - 1) : i # k => i \in (n - d)..(n - 1)
      BY <2>2
    <2>7. g \in [k..(n - 1) -> 0..(n - 1)]
      BY <2>3, <2>5, <2>6
    <2>8. \A i \in (n - d)..(n - 1) : i # k /\ i \in k..(n - 1) /\ g[i] = f[i]
      BY <2>2, <2>3
    <2>9. ASSUME NEW i \in k..(n - 1)
          PROVE  g[i] = Goes(p, g, i)
      <3>1. p[i].op = "jmp" /\ p[i].x > i => p[i].x \in (n - d)..(n - 1)
        BY <2>2 DEF Ahead
      <3>2. Goes(p, g, i) = Goes(p, f, i)
        BY <2>8, <3>1 DEF Goes
      <3>3. CASE i = k
        BY <2>3, <3>2, <3>3
      <3>4. CASE i # k
        BY <2>1, <2>6, <2>8, <3>2, <3>4
      <3>5. QED
        BY <3>3, <3>4
    <2>10. d + 1 \in 0..n
      OBVIOUS
    <2>11. QED
      BY <2>2, <2>7, <2>9, <2>10
  <1>3. n \in Found
    <2> HIDE DEF Found
    <2>1. 0 \in Int /\ n \in Int /\ 0 <= n
      OBVIOUS
    <2>2. 0..n \subseteq Found
      BY <1>1, <1>2, <2>1, IntervalInduction
    <2>3. QED
      BY <2>1, <2>2
  <1>4. n - n = 0
    OBVIOUS
  <1>5. PICK f \in [0..(n - 1) -> 0..(n - 1)] :
          \A i \in 0..(n - 1) : f[i] = Goes(p, f, i)
    BY <1>3, <1>4
  <1>6. f = [i \in 0..(n - 1) |-> Goes(p, f, i)]
    BY <1>5
  <1>7. QED
    BY <1>6

(* ... and the end of a chain is no jump. *)
LEMMA ChainEndRight ==
  ASSUME NEW n \in Nat, NEW p, Ahead(p, n), NEW i \in 0..(n - 1)
  PROVE  /\ ChainEnd(p)[i] \in i..(n - 1)
         /\ p[i].op = "jmp" => ChainEnd(p)[i] > i
         /\ p[ChainEnd(p)[i]].op # "jmp"
  <1> DEFINE Equation(f) == f = [j \in 0..(n - 1) |-> Goes(p, f, j)]
             goes == CHOOSE f : Equation(f)
  <1>1. DOMAIN p = 0..(n - 1)
    BY DEF Ahead
  <1>2. ChainEnd(p) = goes
    BY <1>1 DEF ChainEnd, Goes
  <1>3. Equation(goes)
    <2>1. \E f : Equation(f)
      BY ChainEndDefined
    <2> HIDE DEF Equation
    <2>2. QED
      BY <2>1
  <1> DEFINE Right(j) == /\ goes[j] \in j..(n - 1)
                         /\ p[j].op = "jmp" => goes[j] > j
                         /\ p[goes[j]].op # "jmp"
             Proved == {d \in 0..n : \A j \in (n - d)..(n - 1) : Right(j)}
  <1> HIDE DEF goes
  <1>4. 0 \in Proved
    OBVIOUS
  <1>5. ASSUME NEW d \in 0..(n - 1), d \in Proved
        PROVE  d + 1 \in Proved
    <2>1. PICK k \in 0..(n - 1) : k = n - (d + 1) /\ k + 1 = n - d
      OBVIOUS
    <2>2. goes[k] = IF p[k].op = "jmp" /\ p[k].x > k THEN goes[p[k].x] ELSE k
      BY <1>3, <2>1 DEF Goes
    <2>3. Right(k)
      <3>1. CASE p[k].op = "jmp"
        <4>1. PICK x \in (k + 1)..(n - 1) : x = p[k].x
          BY <2>1, <3>1 DEF Ahead
        <4>2. goes[k] = goes[x]
          BY <2>2, <3>1, <4>1
        <4>3. Right(x)
          BY <1>5, <2>1, <4>1
        <4>4. QED
          BY <4>1, <4>2, <4>3
      <3>2. CASE p[k].op # "jmp"
        BY <2>1, <2>2, <3>2
      <3>3. QED
        BY <3>1, <3>2
    <2>4. \A j \in (n - (d + 1))..(n - 1) : j = k \/ j \in (n - d)..(n - 1)
      BY <2>1
    <2>5. d + 1 \in 0..n
      OBVIOUS
    <2> HIDE DEF Right
    <2>6. QED
      BY <1>5, <2>3, <2>4, <2>5
  <1>6. n \in Proved
    <2> HIDE DEF Proved
    <2>1. 0 \in Int /\ n \in Int /\ 0 <= n
      OBVIOUS
    <2>2. 0..n \subseteq Proved
      BY <1>4, <1>5, <2>1, IntervalInduction
    <2>3. QED
      BY <2>1, <2>2
  <1>7. Right(i)
    BY <1>6
  <1>8. QED
    BY <1>2, <1>7

(* a program of n instructions *)
Program(p, n) ==
  /\ p \in [0..(n - 1) -> Inst]
  /\ \A i \in 0..(n - 1) :
       /\ p[i].op \in OpConsume \cup OpAnchor => i + 1 < n
       /\ p[i].op = "branch" => p[i].x \in 0..(n - 1) /\ p[i].y \in (i + 1)..(n - 1)
       /\ p[i].op = "jmp" => p[i].x \in (i + 1)..(n - 1)
       /\ p[i].op \in {"class", "nclass"} => p[i].ccs # {}

LEMMA ProgramWell ==
  ASSUME NEW n \in Nat \ {0}, NEW p, Program(p, n)
  PROVE  WellFormed(p) /\ LoopsByBranch(p) /\ Ahead(p, n)
  <1>1. DOMAIN p = 0..(n - 1) /\ p \in [0..(n - 1) -> Inst]
    BY DEF Program
  <1>2. n - 1 \in DOMAIN p /\ n = (n - 1) + 1
    BY <1>1
  <1>3. n \in {i + 1 : i \in DOMAIN p}
    BY <1>2
  <1>4. WellFormed(p)
    <2>1. ASSUME NEW i \in 0..(n - 1)
          PROVE  /\ p[i].op \in OpConsume \cup OpAnchor => i + 1 < n
                 /\ p[i].op \in {"branch", "jmp"} => p[i].x \in 0..(n - 1)
                 /\ p[i].op = "branch" => p[i].y \in 0..(n - 1)
      BY DEF Program
    <2>2. QED
      BY <1>1, <1>3, <2>1 DEF WellFormed
  <1>5. LoopsByBranch(p)
    BY <1>1 DEF Program, LoopsByBranch
  <1>6. QED
    BY <1>1, <1>4, <1>5 DEF Program, Ahead

LEMMA RelocatedWell ==
  ASSUME NEW body, Fits(body)
  PROVE  Program(Relocated(body \o <<IMatch>>), Len(body) + 1) /\ Len(body) \in Nat
  <1>1. PICK m \in Nat, n \in Nat : m = Len(body) /\ n = m + 1
    BY DEF Fits
  <1>2. PICK b : b = Blank
    OBVIOUS
  <1>3. b \in Inst /\ b.op = "match" /\ b = IMatch
    BY <1>2 DEF Blank, Inst, Op, EndChar, IMatch
  <1>4. PICK code : code = body \o <<b>>
    OBVIOUS
  <1>5. /\ code \in Seq(Inst) /\ Len(code) = n /\ code[n] = b
        /\ \A i \in 1..m : code[i] = body[i]
    BY <1>1, <1>3, <1>4 DEF Fits
  <1> DEFINE placed(i) ==
        LET inst == code[i + 1]
        IN  CASE inst.op = "branch" -> [inst EXCEPT !.x = @ + i, !.y = @ + i]
              [] inst.op = "jmp" -> [inst EXCEPT !.x = @ + i]
              [] OTHER -> inst
      Well(inst, i) ==
        /\ inst \in Inst
        /\ inst.op \in OpConsume \cup OpAnchor => i + 1 < n
        /\ inst.op = "branch" => inst.x \in 0..(n - 1) /\ inst.y \in (i + 1)..(n - 1)
        /\ inst.op = "jmp" => inst.x \in (i + 1)..(n - 1)
        /\ inst.op \in {"class", "nclass"} => inst.ccs # {}
  <1>6. Relocated(code) = [i \in 0..(n - 1) |-> placed(i)]
    BY <1>5 DEF Relocated
  <1>7. ASSUME NEW i \in 0..(n - 1)
        PROVE  Well(placed(i), i)
    <2>1. PICK inst : inst = code[i + 1]
      OBVIOUS
    <2>2. CASE i = n - 1
      <3>1. inst = b
        BY <1>1, <1>5, <2>1, <2>2
      <3>2. placed(i) = b
        BY <1>3, <2>1, <3>1
      <3>3. QED
        BY <1>3, <3>2 DEF OpConsume, OpAnchor
    <2>3. CASE i # n - 1
      <3>1. PICK k \in 1..m : k = i + 1
        BY <1>1, <2>3
      <3>2. inst = body[k] /\ inst \in Inst /\ InstFits(inst, k, m)
        BY <1>1, <1>5, <2>1, <3>1 DEF Fits
      <3>3. PICK x \in Int, y \in Int : x = inst.x /\ y = inst.y
        BY <3>2 DEF Inst
      <3>4. i + 1 < n /\ i \in Nat
        BY <1>1, <2>3
      <3>5. CASE inst.op = "branch"
        <4>1. PICK u \in Int, v \in Int : u = x + i /\ v = y + i
          BY <3>4
        <4>2. placed(i) = [inst EXCEPT !.x = u, !.y = v]
          BY <2>1, <3>3, <3>5, <4>1
        <4>3. u \in 0..(n - 1) /\ v \in (i + 1)..(n - 1)
          <5>1. x + k \in 1..(m + 1) /\ y + k \in (k + 1)..(m + 1)
            BY <3>2, <3>3, <3>5 DEF InstFits
          <5>2. QED
            BY <1>1, <3>1, <4>1, <5>1
        <4>4. /\ placed(i) \in Inst /\ placed(i).op = "branch"
              /\ placed(i).x = u /\ placed(i).y = v
          BY <3>2, <3>5, <4>2 DEF Inst
        <4> HIDE DEF placed
        <4>5. QED
          BY <3>4, <4>3, <4>4
      <3>6. CASE inst.op = "jmp"
        <4>1. PICK u \in Int : u = x + i
          BY <3>4
        <4>2. placed(i) = [inst EXCEPT !.x = u]
          BY <2>1, <3>3, <3>6, <4>1
        <4>3. u \in (i + 1)..(n - 1)
          BY <1>1, <3>1, <3>2, <3>3, <3>6, <4>1 DEF InstFits
        <4>4. placed(i) \in Inst /\ placed(i).op = "jmp" /\ placed(i).x = u
          BY <3>2, <3>6, <4>2 DEF Inst
        <4> HIDE DEF placed
        <4>5. QED
          BY <3>4, <4>3, <4>4
      <3>7. CASE inst.op \notin {"branch", "jmp"}
        <4>1. placed(i) = inst
          BY <2>1, <3>7
        <4> HIDE DEF placed
        <4>2. QED
          BY <3>2, <3>4, <3>7, <4>1 DEF InstFits
      <3>8. QED
        BY <3>5, <3>6, <3>7
    <2>4. QED
      BY <2>2, <2>3
  <1> HIDE DEF placed
  <1>8. Program(Relocated(code), n)
    BY <1>6, <1>7 DEF Program
  <1>9. QED
    BY <1>1, <1>3, <1>4, <1>8

LEMMA ChainsWell ==
  ASSUME NEW n \in Nat \ {0}, NEW p, Program(p, n)
  PROVE  /\ Program(optimise_chains(p), n)
         /\ \A i \in 0..(n - 1) :
              optimise_chains(p)[i].op = "jmp" =>
                optimise_chains(p)[optimise_chains(p)[i].x].op # "jmp"
  <1>1. Ahead(p, n) /\ p \in [0..(n - 1) -> Inst] /\ DOMAIN p = 0..(n - 1)
    BY ProgramWell DEF Program
  <1>2. PICK q : q = optimise_chains(p)
    OBVIOUS
  <1>3. q = [i \in 0..(n - 1) |->
               IF p[i].op = "jmp" THEN [p[i] EXCEPT !.x = ChainEnd(p)[i]] ELSE p[i]]
    BY <1>1, <1>2 DEF optimise_chains
  <1>4. ASSUME NEW i \in 0..(n - 1)
        PROVE  /\ q[i] \in Inst /\ q[i].op = p[i].op
               /\ p[i].op # "jmp" => q[i] = p[i]
               /\ p[i].op = "jmp" => q[i].x \in (i + 1)..(n - 1) /\ p[q[i].x].op # "jmp"
    <2>1. CASE p[i].op = "jmp"
      <3>1. PICK u \in (i + 1)..(n - 1) : u = ChainEnd(p)[i] /\ p[u].op # "jmp"
        BY <1>1, <2>1, ChainEndRight
      <3>2. PICK inst \in Inst : inst = p[i]
        BY <1>1
      <3>3. q[i] = [inst EXCEPT !.x = u]
        BY <1>3, <2>1, <3>1, <3>2
      <3>4. q[i] \in Inst /\ q[i].op = inst.op /\ q[i].x = u
        BY <3>2, <3>3 DEF Inst
      <3>5. QED
        BY <2>1, <3>1, <3>2, <3>4
    <2>2. CASE p[i].op # "jmp"
      BY <1>1, <1>3, <2>2
    <2>3. QED
      BY <2>1, <2>2
  <1>5. q \in [0..(n - 1) -> Inst]
    BY <1>3, <1>4
  <1>6. Program(q, n)
    <2>1. ASSUME NEW i \in 0..(n - 1)
          PROVE  /\ q[i].op \in OpConsume \cup OpAnchor => i + 1 < n
                 /\ q[i].op = "branch" => q[i].x \in 0..(n - 1) /\ q[i].y \in (i + 1)..(n - 1)
                 /\ q[i].op = "jmp" => q[i].x \in (i + 1)..(n - 1)
                 /\ q[i].op \in {"class", "nclass"} => q[i].ccs # {}
      <3>1. CASE p[i].op = "jmp"
        BY <1>4, <3>1 DEF OpConsume, OpAnchor
      <3>2. CASE p[i].op # "jmp"
        BY <1>4, <3>2 DEF Program
      <3>3. QED
        BY <3>1, <3>2
    <2>2. QED
      BY <1>5, <2>1 DEF Program
  <1>7. \A i \in 0..(n - 1) : q[i].op = "jmp" => q[q[i].x].op # "jmp"
    <2>1. ASSUME NEW i \in 0..(n - 1), q[i].op = "jmp"
          PROVE  q[q[i].x].op # "jmp"
      <3>1. PICK u \in 0..(n - 1) : u = q[i].x /\ p[u].op # "jmp"
        BY <1>4, <2>1
      <3>2. q[u].op = p[u].op
        BY <1>4
      <3>3. QED
        BY <3>1, <3>2
    <2>2. QED
      BY <2>1
  <1>8. QED
    BY <1>2, <1>6, <1>7

-----------------------------------------------------------------------------
(* The end of the expression *)
LEMMA EndedShape ==
  ASSUME Shape(cx), Last(cx)
  PROVE  Shape(Ended) /\ (Groups(Ended) = 1 => Ended.target = 0)
  <1>1. Shape(Ended)
    <2>1. CASE cx.lasttok = "rparen" /\ Buffered # <<>>
      <3>1. /\ Groups(cx) >= 2 /\ cx.buf = Groups(cx) /\ cx.target < Groups(cx)
        BY <2>1 DEF Last, Shape, Context, Groups
      <3>2. PICK d : d = stack_cat(cx, 0, cx.buf)
        OBVIOUS
      <3>3. Shape(d) /\ SameFields(cx, d)
        <4>1. Fits(Code(cx, cx.buf)) /\ 0 \in 0..Groups(cx)
          BY <3>1, BufferFits
        <4>2. QED
          BY <3>2, <4>1, AddShape DEF stack_cat
      <3>4. d.buf = Groups(d) /\ Groups(d) >= 2 /\ d.target < Groups(d)
        BY <3>1, <3>3 DEF SameFields
      <3>5. Shape(PopGroup(d))
        BY <3>3, <3>4, PopShape
      <3>6. QED
        BY <2>1, <3>2, <3>5 DEF Ended
    <2>2. CASE ~(cx.lasttok = "rparen" /\ Buffered # <<>>)
      BY <2>2 DEF Ended
    <2>3. QED
      BY <2>1, <2>2
  <1>2. QED
    BY <1>1 DEF Shape

(* the match behind everything; the jump that was open leads to it *)
LEMMA MatchPlaced ==
  ASSUME NEW c, Shape(c), c.target = 0
  PROVE  LET d == AddHead(attach_dangling_alt(stack_cat(c, 0, 1)), 0, <<IMatch>>)
         IN  Typed(d) /\ Finished(d.prog.code)
  <1>1. PICK a : a = stack_cat(c, 0, 1)
    OBVIOUS
  <1>2. Shape(a) /\ SameFields(c, a)
    <2>1. Fits(Code(c, 1)) /\ a = AddHead(c, 0, Code(c, 1)) /\ 0 \in 0..Groups(c)
      BY <1>1 DEF stack_cat, Shape, Plain
    <2>2. QED
      BY <2>1, AddShape
  <1>3. PICK b : b = attach_dangling_alt(a)
    OBVIOUS
  <1>4. Shape(b) /\ Stack(b, 0).dangling_alt = 0
    <2>1. a.target = 0
      BY <1>2 DEF SameFields
    <2>2. QED
      BY <1>2, <1>3, <2>1, AttachShape
  <1>5. PICK body, n : body = Code(b, 0) /\ n = Groups(b)
    OBVIOUS
  <1>6. Fits(body) /\ StackFits(Stack(b, 0)) /\ 0 \in 0..n
    <2>1. StackFits(Stack(b, 0)) /\ 0 \in 0..n
      BY <1>4, <1>5 DEF Shape, Context, Groups
    <2>2. QED
      BY <1>4, <1>5, <2>1 DEF StackFits, StackType, Fits, Code
  <1>7. PICK m : m = IMatch
    OBVIOUS
  <1>8. m \in Inst
    BY <1>7 DEF IMatch, Blank, Inst, Op, EndChar
  <1>9. PICK s : s = [Stack(b, 0) EXCEPT !.code = body \o <<m>>]
    OBVIOUS
  <1>10. body \o <<m>> \in Seq(Inst)
    BY <1>6, <1>8 DEF Fits
  <1>11. s \in StackType /\ s.code = body \o <<m>> /\ s.dangling_alt = 0
    BY <1>4, <1>6, <1>9, <1>10 DEF StackFits, StackType
  <1>12. PICK d : d = Put(b, 0, s)
    OBVIOUS
  <1>13. /\ SameFields(b, d) /\ Stack(d, 0) = s
         /\ \A j \in 0..n : j # 0 => Stack(d, j) = Stack(b, j)
    BY <1>4, <1>5, <1>6, <1>11, <1>12, PutStack DEF Shape
  <1>14. AddHead(b, 0, <<IMatch>>) = d
    BY <1>5, <1>7, <1>9, <1>12 DEF AddHead, Code
  <1>15. Finished(d.prog.code)
    BY <1>6, <1>7, <1>11, <1>13 DEF Finished, Stack
  <1>16. Typed(b)
    BY <1>4, ShapeTyped
  <1>17. /\ \A j \in 1..Len(s.code) : s.code[j] \in Inst
         /\ s.dangling_alt \in 0..Len(s.code)
    BY <1>10, <1>11
  <1>18. ASSUME NEW i \in 0..n
         PROVE  /\ \A j \in 1..Len(Stack(d, i).code) : Stack(d, i).code[j] \in Inst
                /\ Stack(d, i).dangling_alt \in 0..Len(Stack(d, i).code)
                /\ Stack(d, i).dangling_alt # 0 =>
                     Stack(d, i).code[Stack(d, i).dangling_alt].op = "jmp"
    <2>1. CASE i = 0
      BY <1>11, <1>13, <1>17, <2>1
    <2>2. CASE i # 0
      <3>1. Stack(d, i) = Stack(b, i)
        BY <1>13, <2>2
      <3>2. QED
        BY <1>5, <1>16, <3>1 DEF Typed
    <2>3. QED
      BY <2>1, <2>2
  <1>19. Typed(d)
    BY <1>5, <1>13, <1>16, <1>18 DEF Typed, SameFields
  <1>20. QED
    BY <1>1, <1>3, <1>14, <1>15, <1>19

LEMMA EndKeeps ==
  ASSUME Inv, End
  PROVE  Inv'
  <1>1. /\ state = "start" /\ Shape(cx) /\ Last(cx) /\ outcome = "none"
        /\ lfix \in LfixType /\ is_nchar \in BOOLEAN
    BY DEF Inv, TypeOK, End
  <1>2. PICK c, d : /\ c = Ended
                    /\ d = AddHead(attach_dangling_alt(stack_cat(c, 0, 1)), 0, <<IMatch>>)
    OBVIOUS
  <1>3. /\ cx' = d /\ state' = "stage2" /\ lfix' = lfix_stop(lfix)
        /\ UNCHANGED <<callVars, rest, outcome, exe, is_nchar>> /\ Groups(c) = 1
    BY <1>2 DEF End
  <1>4. Shape(c) /\ c.target = 0
    BY <1>1, <1>2, <1>3, EndedShape
  <1>5. Typed(d) /\ Finished(d.prog.code)
    BY <1>2, <1>4, MatchPlaced
  <1>6. Typed(cx') /\ Finished(cx'.prog.code) /\ lfix' \in LfixType
    BY <1>1, <1>3, <1>5, LfixKept
  <1>7. TypeOK'
    BY <1>1, <1>3, <1>6 DEF Inv, TypeOK, Typed, callVars
  <1>8. CompiledWellFormed' /\ ChainsShort'
    BY <1>1, <1>3 DEF CompiledWellFormed, ChainsShort
  <1>9. QED
    BY <1>1, <1>3, <1>6, <1>7, <1>8 DEF Inv

LEMMA Stage2Keeps ==
  ASSUME Inv, Stage2
  PROVE  Inv'
  <1>1. PICK body : Fits(body) /\ cx.prog.code = body \o <<IMatch>>
    BY DEF Inv, Stage2, Finished
  <1>2. PICK n, p : n = Len(body) + 1 /\ p = Relocated(body \o <<IMatch>>)
    OBVIOUS
  <1>3. n \in Nat \ {0} /\ Program(p, n)
    BY <1>1, <1>2, RelocatedWell
  <1>4. /\ exe' = (IF cx.chained = 1 THEN optimise_chains(p) ELSE p)
        /\ state' = "returned" /\ UNCHANGED <<callVars, rest, cx, is_nchar, lfix>>
    BY <1>1, <1>2 DEF Stage2
  <1>5. Program(exe', n)
    BY <1>3, <1>4, ChainsWell
  <1>6. PICK q : q = exe'
    OBVIOUS
  <1>7. WellFormed(q) /\ LoopsByBranch(q) /\ DOMAIN q = 0..(n - 1)
    BY <1>3, <1>5, <1>6, ProgramWell DEF Program
  <1>8. CompiledWellFormed'
    BY <1>6, <1>7 DEF CompiledWellFormed
  <1>9. cx.chained = 1 => \A i \in 0..(n - 1) : q[i].op = "jmp" => q[q[i].x].op # "jmp"
    BY <1>3, <1>4, <1>6, ChainsWell
  <1>10. ChainsShort'
    BY <1>4, <1>6, <1>7, <1>9 DEF ChainsShort
  <1>11. TypeOK'
    BY <1>4 DEF Inv, TypeOK, callVars
  <1>12. QED
    BY <1>4, <1>8, <1>10, <1>11 DEF Inv

-----------------------------------------------------------------------------
(* A call begins: the literals an expression starts with *)
LEMMA NewContext ==
  Shape(context_init) /\ Last(context_init)
  <1>1. PICK s : s = create_stack
    OBVIOUS
  <1>2. s \in StackType /\ s.code = <<>> /\ s.dangling_alt = 0 /\ StackFits(s)
    <2>1. /\ <<>> \in Seq(Inst) /\ Len(<<>>) = 0 /\ 1..0 = {} /\ 0 \in 0..0
      OBVIOUS
    <2>2. s \in StackType /\ s.code = <<>> /\ s.dangling_alt = 0
      BY <1>1, <2>1 DEF create_stack, StackType
    <2>3. QED
      BY <2>1, <2>2 DEF StackFits
  <1>3. PICK q : q = <<s>>
    OBVIOUS
  <1>4. q \in Seq(StackType) /\ Len(q) = 1 /\ q[1] = s
    BY <1>2, <1>3
  <1>5. PICK o, none : o = [stack |-> 0, at |-> 0] /\ none = "none"
    OBVIOUS
  <1>6. o \in [stack : Nat, at : Nat] /\ none # "rparen"
    BY <1>5
  <1>7. PICK c : c = context_init
    OBVIOUS
  <1>8. c = [prog |-> s, parens |-> q, target |-> 0, buf |-> 1, operand |-> o,
             strb |-> {}, at |-> 0, lasttok |-> none, depth |-> 0, chained |-> 0]
    BY <1>1, <1>3, <1>5, <1>7 DEF context_init
  <1>9. /\ c \in Context /\ c.prog = s /\ c.parens = q /\ c.target = 0 /\ c.buf = 1
        /\ c.lasttok = none
    BY <1>2, <1>4, <1>5, <1>6, <1>8 DEF Context
  <1>10. Groups(c) = 1 /\ Stack(c, 0) = s /\ Stack(c, 1) = s
    BY <1>4, <1>9 DEF Groups, Stack
  <1>11. Plain(Code(c, 1))
    BY <1>2, <1>10, NothingFits DEF Code
  <1>12. \A i \in 0..1 : i = 0 \/ i = 1
    OBVIOUS
  <1>13. Shape(c)
    BY <1>2, <1>9, <1>10, <1>11, <1>12 DEF Shape
  <1>14. Last(c)
    BY <1>6, <1>9, <1>11 DEF Last
  <1>15. QED
    BY <1>7, <1>13, <1>14

LEMMA SourceRead ==
  ASSUME Inv
  PROVE  source \in Seq(LexToken)
  BY ExpressionsAssumption DEF Inv, TypeOK, MaxCalls

(* The offsets of the tokens in the text *)
LEMMA OffsetsAdd ==
  ASSUME source \in Seq(LexToken)
  PROVE  /\ Offset(source, 0) = 0
         /\ \A n \in 0..Len(source) : Offset(source, n) \in Nat
         /\ \A n \in 1..Len(source) :
              Offset(source, n) = Offset(source, n - 1) + source[n].w
  <1> DEFINE L == Len(source)
             Equation(f, n) == f = [i \in 0..n |-> IF i = 0 THEN 0
                                                   ELSE f[i - 1] + source[i].w]
             upTo(n) == CHOOSE f : Equation(f, n)
             Step == [i \in 1..L |-> [v \in Nat |-> v + source[i].w]]
  <1>1. L \in Nat /\ \A i \in 1..L : source[i].w \in Nat
    <2>1. L \in Nat /\ \A i \in 1..L : source[i] \in LexToken
      OBVIOUS
    <2>2. \A tk \in LexToken : tk.w \in Nat
      BY DEF LexToken, Token
    <2>3. QED
      BY <2>1, <2>2
  <1>2. \A n : Offset(source, n) = upTo(n)[n]
    BY DEF Offset
  <1>3. PICK F \in [0..L -> Nat] : Stepwise(F, 0, L, 0, Step)
    <2>1. Step \in [1..L -> [Nat -> Nat]]
      BY <1>1
    <2> HIDE DEF Step, L
    <2>2. 0 \in Int /\ L \in Int /\ 0 \in Nat /\ Step \in [(0 + 1)..L -> [Nat -> Nat]]
      BY <1>1, <2>1
    <2>3. QED
      BY <2>2, StepwiseExists
  <1>4. \A i \in 0..L : F[i] = IF i = 0 THEN 0 ELSE F[i - 1] + source[i].w
    <2>1. \A i \in 0..L : F[i] = IF i = 0 THEN 0 ELSE Step[i][F[i - 1]]
      BY <1>3 DEF Stepwise
    <2>2. \A i \in 0..L : i # 0 => i \in 1..L /\ F[i - 1] \in Nat
      BY <1>1, <1>3
    <2>3. QED
      BY <2>1, <2>2
  <1>5. ASSUME NEW n \in 0..L
        PROVE  Offset(source, n) = F[n]
    <2>1. \E f : Equation(f, n)
      <3> DEFINE f == [i \in 0..n |-> F[i]]
      <3>1. \A i \in 0..n : i \in 0..L /\ (i # 0 => i - 1 \in 0..n)
        BY <1>1
      <3>2. \A i \in 0..n : f[i] = IF i = 0 THEN 0 ELSE f[i - 1] + source[i].w
        BY <1>4, <3>1
      <3>3. f = [i \in 0..n |-> f[i]]
        OBVIOUS
      <3> HIDE DEF f
      <3>4. Equation(f, n)
        BY <3>2, <3>3
      <3> HIDE DEF Equation
      <3>5. QED
        BY <3>4
    <2>2. PICK g : g = upTo(n)
      OBVIOUS
    <2>3. Equation(g, n)
      <3> HIDE DEF Equation
      <3>1. QED
        BY <2>1, <2>2
    <2> HIDE DEF upTo
    <2>4. \A i \in 0..n : g[i] = IF i = 0 THEN 0 ELSE g[i - 1] + source[i].w
      BY <2>3
    <2> HIDE DEF Equation
    <2> DEFINE T == {i \in 0..n : g[i] = F[i]}
    <2>5. 0 \in T
      BY <1>1, <1>4, <2>4
    <2>6. ASSUME NEW i \in 0..(n - 1), i \in T
          PROVE  i + 1 \in T
      <3>1. i + 1 \in 0..n /\ i + 1 \in 0..L /\ i + 1 # 0 /\ (i + 1) - 1 = i
        BY <1>1
      <3>2. g[i + 1] = g[i] + source[i + 1].w
        BY <2>4, <3>1
      <3>3. F[i + 1] = F[i] + source[i + 1].w
        BY <1>4, <3>1
      <3>4. QED
        BY <2>6, <3>1, <3>2, <3>3
    <2> HIDE DEF T
    <2>7. 0..n \subseteq T
      <3>1. 0 \in Int /\ n \in Int
        BY <1>1
      <3>2. QED
        BY <2>5, <2>6, <3>1, IntervalInduction
    <2>8. n \in T
      BY <1>1, <2>7
    <2>9. g[n] = F[n]
      BY <2>8 DEF T
    <2>10. QED
      BY <1>2, <2>2, <2>9
  <1> HIDE DEF upTo, Equation, Step
  <1>6. 0 \in 0..L
    BY <1>1
  <1>7. ASSUME NEW n \in 1..L
        PROVE  Offset(source, n) = Offset(source, n - 1) + source[n].w
    <2>1. n \in 0..L /\ n - 1 \in 0..L /\ n # 0
      BY <1>1
    <2>2. QED
      BY <1>4, <1>5, <2>1
  <1>8. QED
    BY <1>3, <1>4, <1>5, <1>6, <1>7

LEMMA LiteralsPlain ==
  ASSUME NEW n \in Nat, NEW ch \in [1..n -> Char]
  PROVE  Plain([i \in 1..n |-> IChar(ch[i])])
  <1>1. PICK code : code = [i \in 1..n |-> IChar(ch[i])]
    OBVIOUS
  <1>2. ASSUME NEW i \in 1..n
        PROVE  /\ code[i] \in Inst /\ InstFits(code[i], i, n)
               /\ code[i].op \notin {"branch", "jmp"}
    <2>1. PICK inst \in Inst : inst = IChar(ch[i]) /\ Plain(<<inst>>)
      BY PlainInsts
    <2>2. <<inst>>[1] = inst /\ Len(<<inst>>) = 1 /\ 1 \in 1..1
      OBVIOUS
    <2>3. InstFits(inst, 1, 1) /\ inst.op \notin {"branch", "jmp"}
      BY <2>1, <2>2 DEF Plain, Fits
    <2>4. InstFits(inst, i, n)
      BY <2>3 DEF InstFits
    <2>5. QED
      BY <1>1, <2>1, <2>3, <2>4
  <1>3. code \in [1..n -> Inst]
    BY <1>1, <1>2
  <1>4. Fits(code) /\ Len(code) = n
    BY <1>2, <1>3, TableFits
  <1>5. QED
    BY <1>1, <1>2, <1>4 DEF Plain

LEMMA BacklogKeeps ==
  ASSUME Inv, Backlog
  PROVE  Inv'
  <1>1. /\ state = "backlog" /\ cx = context_init /\ Shape(cx) /\ Last(cx)
        /\ outcome = "none" /\ lfix \in LfixType /\ is_nchar \in BOOLEAN
    BY DEF Inv, TypeOK, Backlog, Lead
  <1>2. source \in Seq(LexToken)
    BY SourceRead
  <1>3. PICK n \in 0..(Len(source) - 1) :
          /\ Lead(n)
          /\ rest' = SubSeq(source, n + 1, Len(source))
          /\ cx' = [AddHead(cx, 1, [i \in 1..n |-> IChar(source[i].c)]) EXCEPT
                      !.operand = [stack |-> 1, at |-> n], !.at = Offset(source, n)]
          /\ lfix' = IF n = 0 THEN lfix_zero(lfix)
                     ELSE set_ltempn(lfix_zero(lfix),
                            (IF Newlines(n) \ {1} = {} THEN n
                             ELSE First(Newlines(n) \ {1})) - 1)
          /\ state' = "start"
          /\ UNCHANGED <<callVars, resultVars, is_nchar>>
    BY DEF Backlog
  <1>4. PICK ch \in [1..n -> Char] : \A i \in 1..n : ch[i] = source[i].c
    <2>1. \A i \in 1..n : source[i] \in LexToken /\ source[i].k = "literal"
      BY <1>2, <1>3 DEF Lead
    <2>2. [i \in 1..n |-> source[i].c] \in [1..n -> Char]
      BY <2>1 DEF LexToken
    <2>3. QED
      BY <2>2
  <1>5. PICK lits : lits = [i \in 1..n |-> IChar(source[i].c)] /\ Plain(lits)
    <2>1. [i \in 1..n |-> IChar(source[i].c)] = [i \in 1..n |-> IChar(ch[i])]
      BY <1>4
    <2>2. PICK lits : lits = [i \in 1..n |-> IChar(ch[i])]
      OBVIOUS
    <2>3. n \in Nat
      BY <1>2, <1>3
    <2>4. Plain(lits)
      BY <2>2, <2>3, LiteralsPlain
    <2>5. QED
      BY <2>1, <2>2, <2>4
  <1>6. PICK c : c = AddHead(cx, 1, lits)
    OBVIOUS
  <1>7. Shape(c) /\ SameFields(cx, c)
    <2>1. 1 \in 0..Groups(cx)
      BY <1>1 DEF Shape, Context, Groups
    <2>2. QED
      BY <1>1, <1>5, <1>6, <2>1, AddShape DEF Plain
  <1>8. PICK o \in [stack : Nat, at : Nat], at \in Nat :
          o = [stack |-> 1, at |-> n] /\ at = Offset(source, n)
    <2>1. Offset(source, n) \in Nat
      BY <1>2, OffsetsAdd
    <2>2. [stack |-> 1, at |-> n] \in [stack : Nat, at : Nat]
      OBVIOUS
    <2>3. QED
      BY <2>1, <2>2
  <1>9. PICK d : d = [c EXCEPT !.operand = o, !.at = at]
    OBVIOUS
  <1>10. /\ d \in Context /\ d.prog = c.prog /\ d.parens = c.parens
         /\ d.target = c.target /\ d.buf = c.buf /\ d.lasttok = c.lasttok
    BY <1>7, <1>8, <1>9 DEF Shape, Context
  <1>11. Shape(d)
    BY <1>7, <1>10, FieldShape
  <1>12. Last(d)
    <2>1. d.buf = 1 /\ d.lasttok = "none"
      BY <1>1, <1>7, <1>10 DEF SameFields, context_init
    <2>2. QED
      BY <1>11, <2>1 DEF Last, Shape
  <1>13. cx' = d
    BY <1>3, <1>5, <1>6, <1>8, <1>9
  <1>14. rest' \in Seq(LexToken)
    BY <1>2, <1>3
  <1>15. lfix' \in LfixType
    <2>1. Newlines(n) \ {1} # {} => First(Newlines(n) \ {1}) \in Int
      <3>1. PICK S \in SUBSET Nat : S = Newlines(n) \ {1}
        <4>1. n \in Nat
          BY <1>2, <1>3
        <4>2. Newlines(n) \ {1} \in SUBSET Nat
          BY <4>1 DEF Newlines
        <4>3. QED
          BY <4>2
      <3>2. S # {} => \E i \in S : \A j \in S : i <= j
        BY LeastNatural
      <3>3. S # {} => First(S) \in S
        BY <3>2 DEF First
      <3>4. QED
        BY <3>1, <3>3
    <2>2. PICK p \in Int : p = (IF Newlines(n) \ {1} = {} THEN n
                                ELSE First(Newlines(n) \ {1})) - 1
      BY <2>1
    <2>3. lfix_zero(lfix) \in LfixType
      BY <1>1, LfixKept
    <2>4. set_ltempn(lfix_zero(lfix), p) \in LfixType
      BY <2>3, LfixKept
    <2>5. QED
      BY <1>3, <2>2, <2>3, <2>4
  <1>16. QED
    BY <1>1, <1>3, <1>11, <1>12, <1>13, <1>14, <1>15, ContextStep DEF resultVars

LEMMA SimpleExpressionKeeps ==
  ASSUME Inv, SimpleExpression
  PROVE  Inv'
  <1>1. /\ outcome' = "simple" /\ state' = "returned" /\ lfix' = lfix_zero(lfix)
        /\ UNCHANGED <<callVars, rest, cx, is_nchar>>
    BY DEF SimpleExpression
  <1>2. lfix' \in LfixType
    BY <1>1, LfixKept DEF Inv, TypeOK
  <1>3. TypeOK'
    BY <1>1, <1>2 DEF Inv, TypeOK, callVars
  <1>4. CompiledWellFormed' /\ ChainsShort'
    BY <1>1 DEF CompiledWellFormed, ChainsShort
  <1>5. QED
    BY <1>1, <1>3, <1>4 DEF Inv

-----------------------------------------------------------------------------
(* The other steps, and the theorems *)
LEMMA SinglesKeep ==
  ASSUME Inv, AnyChar \/ StartAnchor \/ EndAnchor
  PROVE  Inv'
  <1>1. Plain(<<IAny>>) /\ Plain(<<ISol>>) /\ Plain(<<IEol>>)
    BY PlainInsts
  <1>2. CASE AnyChar
    BY <1>1, <1>2, SingleKeeps DEF AnyChar
  <1>3. CASE StartAnchor
    BY <1>1, <1>3, SingleKeeps DEF StartAnchor
  <1>4. CASE EndAnchor
    BY <1>1, <1>4, SingleKeeps DEF EndAnchor
  <1>5. QED
    BY <1>2, <1>3, <1>4

LEMMA FailuresKeep ==
  ASSUME Inv,
         \/ StrayClassClose \/ StrayGroupClose \/ BadOperator
         \/ UndefinedOperator \/ LexicalError \/ OpenAtEnd
  PROVE  Inv'
  <1>1. lfix \in LfixType /\ lfix_stop(lfix) \in LfixType
    BY LfixKept DEF Inv, TypeOK
  <1>2. CASE StrayClassClose
    BY <1>1, <1>2, FailStep DEF StrayClassClose
  <1>3. CASE StrayGroupClose
    BY <1>1, <1>3, FailStep DEF StrayGroupClose
  <1>4. CASE BadOperator
    BY <1>1, <1>4, FailStep DEF BadOperator
  <1>5. CASE UndefinedOperator
    BY <1>1, <1>5, FailStep DEF UndefinedOperator
  <1>6. CASE LexicalError
    <2>1. tok.k # "ok" /\ Fail(tok.k) /\ lfix' = lfix
      BY <1>6 DEF LexicalError, LexErrors
    <2>2. QED
      BY <1>1, <2>1, FailStep
  <1>7. CASE OpenAtEnd
    <2>1. PICK err : err = (IF state = "charc" THEN "ECLASS" ELSE "EPAREN")
      OBVIOUS
    <2>2. Fail(err) /\ err # "ok" /\ lfix' = lfix
      BY <1>7, <2>1 DEF OpenAtEnd
    <2>3. QED
      BY <1>1, <2>2, FailStep
  <1>8. QED
    BY <1>2, <1>3, <1>4, <1>5, <1>6, <1>7

LEMMA NextCallKeeps ==
  ASSUME Inv, NextCall
  PROVE  Inv'
  <1>1. /\ calls' \in 1..MaxCalls /\ source' \in Expressions[calls']
    <2>1. calls \in Nat /\ calls \in 1..MaxCalls /\ MaxCalls \in Nat
      BY ExpressionsAssumption DEF Inv, TypeOK, MaxCalls
    <2>2. QED
      BY <2>1 DEF NextCall
  <1>2. source' \in Seq(LexToken)
    BY <1>1, ExpressionsAssumption DEF MaxCalls
  <1>3. /\ cx' = context_init /\ state' = "backlog" /\ outcome' = "none"
        /\ rest' = source' /\ UNCHANGED <<is_nchar, lfix>>
    BY DEF NextCall
  <1>4. Shape(cx') /\ Last(cx') /\ Typed(cx')
    BY <1>3, NewContext, ShapeTyped
  <1>5. TypeOK'
    BY <1>1, <1>3, <1>4 DEF Inv, TypeOK, Typed
  <1>6. CompiledWellFormed' /\ ChainsShort'
    BY <1>3 DEF CompiledWellFormed, ChainsShort
  <1>7. QED
    BY <1>2, <1>3, <1>4, <1>5, <1>6 DEF Inv

LEMMA InitEstablishes ==
  ASSUME Init
  PROVE  Inv
  <1>1. source \in Expressions[1] /\ 1 \in 1..MaxCalls
    BY ExpressionsAssumption DEF Init, MaxCalls
  <1>2. source \in Seq(LexToken)
    BY <1>1, ExpressionsAssumption DEF MaxCalls
  <1>3. /\ cx = context_init /\ state = "backlog" /\ outcome = "none"
        /\ rest = source /\ is_nchar = FALSE /\ lfix = lfix_static /\ calls = 1
    BY DEF Init, InitCall
  <1>4. Shape(cx) /\ Last(cx) /\ Typed(cx)
    BY <1>3, NewContext, ShapeTyped
  <1>5. lfix_static \in LfixType
    BY DEF lfix_static, LfixType, UIntSize
  <1>6. TypeOK
    BY <1>1, <1>3, <1>4, <1>5 DEF TypeOK, Typed
  <1>7. CompiledWellFormed /\ ChainsShort
    BY <1>3 DEF CompiledWellFormed, ChainsShort
  <1>8. QED
    BY <1>2, <1>3, <1>4, <1>6, <1>7 DEF Inv

LEMMA StutterKeeps ==
  ASSUME Inv, UNCHANGED vars
  PROVE  Inv'
  <1>1. UNCHANGED <<callVars, rest, cx, state, outcome, exe, is_nchar, lfix>>
    BY DEF vars, callVars
  <1>2. TypeOK'
    BY <1>1 DEF Inv, TypeOK, callVars
  <1>3. CompiledWellFormed' /\ ChainsShort'
    BY <1>1 DEF Inv, CompiledWellFormed, ChainsShort
  <1>4. QED
    BY <1>1, <1>2, <1>3 DEF Inv

(* Between two tokens the stacks of stage1 have the shape that the code    *)
(* that is added to them next relies on: the invariant behind what follows. *)
THEOREM CompilerInvariance == Spec => []Inv
  <1>1. Init => Inv
    BY InitEstablishes
  <1>2. ASSUME Inv, [Next]_vars
        PROVE  Inv'
    <2>1. CASE SimpleExpression \/ Backlog
      BY <1>2, <2>1, SimpleExpressionKeeps, BacklogKeeps
    <2>2. CASE Literal \/ AnyChar \/ StartAnchor \/ EndAnchor
      BY <1>2, <2>2, LiteralKeeps, SinglesKeep
    <2>3. CASE OpenGroup \/ CloseGroup
      BY <1>2, <2>3, OpenGroupKeeps, CloseGroupKeeps
    <2>4. CASE Operator \/ Alternation
      BY <1>2, <2>4, OperatorKeeps, AlternationKeeps
    <2>5. CASE OpenClass \/ ClassLiteral \/ ClassRange \/ CloseClass
      BY <1>2, <2>5, OpenClassKeeps, ClassLiteralKeeps, ClassRangeKeeps, CloseClassKeeps
    <2>6. CASE \/ StrayClassClose \/ StrayGroupClose \/ BadOperator
               \/ UndefinedOperator \/ LexicalError \/ OpenAtEnd
      BY <1>2, <2>6, FailuresKeep
    <2>7. CASE End \/ Stage2
      BY <1>2, <2>7, EndKeeps, Stage2Keeps
    <2>8. CASE NextCall
      BY <1>2, <2>8, NextCallKeeps
    <2>9. CASE Idle \/ UNCHANGED vars
      BY <1>2, <2>9, StutterKeeps DEF Idle
    <2>10. QED
      BY <1>2, <2>1, <2>2, <2>3, <2>4, <2>5, <2>6, <2>7, <2>8, <2>9 DEF Next
  <1>3. QED
    BY <1>1, <1>2, PTL DEF Spec

(* buf and target are stacks that exist, and the alternative that stage1   *)
(* remembers as open is a jump in its stack, whatever the tokens.          *)
THEOREM CompilerTypeCorrect == Spec => []TypeOK
  <1>1. Inv => TypeOK
    BY DEF Inv
  <1>2. QED
    BY <1>1, CompilerInvariance, PTL

(* Whatever the tokens, control never leaves a program that rxvm_compile   *)
(* made, and only the first address of a branch leads back: what Vm, Api,  *)
(* FSearch and Gen assume of the programs they are given.                  *)
THEOREM CompiledIsWellFormed == Spec => []CompiledWellFormed
  <1>1. Inv => CompiledWellFormed
    BY DEF Inv
  <1>2. QED
    BY <1>1, CompilerInvariance, PTL

(* However long the chains of jumps that nested alternations make, none is *)
(* left once optimise_chains has run.                                      *)
THEOREM ChainsAreShort == Spec => []ChainsShort
  <1>1. Inv => ChainsShort
    BY DEF Inv
  <1>2. QED
    BY <1>1, CompilerInvariance, PTL

-----------------------------------------------------------------------------
(* Parentheses.  A step reads the next token, so the tokens not read are   *)
(* an end of the expression; Unclosed(n) of the groups that the first n    *)
(* tokens open are still open behind them.                                 *)
Done == Len(source) - Len(rest)

(* tokens that may stand in a group and add no instruction to it *)
Silent(i) == source[i].k \in {"charc_open", "charc_close"} \/ source[i].c = SOL_SYM
Bare(n) ==
  \E i \in 1..n : source[i].k = "lparen" /\ \A m \in (i + 1)..n : Silent(m)

(* A context with o groups open: each is a stack, code goes to the         *)
(* innermost, which holds something unless nothing in the expression does. *)
Level(c, o) ==
  /\ Groups(c) = o + 1 /\ c.buf = 1
  /\ c.target = IF o = 0 THEN 0 ELSE o + 1
Filled(c, o, n, inClass) ==
  \/ o = 0
  \/ Code(c, c.target) # <<>> \/ Code(c, 1) # <<>>
  \/ inClass /\ c.strb # {}
  \/ Bare(n)

(* ... or a group was just closed, and its stack is still there *)
JustClosed(c, o) ==
  /\ Groups(c) = o + 2
  /\ c.target = IF o = 0 THEN 0 ELSE o + 1
  /\ Code(c, c.buf) # <<>>

Settled(c, o, n, inClass) ==
  IF c.lasttok = "rparen" THEN JustClosed(c, o)
  ELSE Level(c, o) /\ Filled(c, o, n, inClass)

Placed ==
  /\ Done \in 0..Len(source) /\ rest = SubSeq(source, Done + 1, Len(source))
  /\ state = "backlog" => rest = source
Balanced ==
  /\ Placed
  /\ ~HasEmptyGroup =>
       /\ state \in {"backlog", "start", "charc"} =>
            Settled(cx, Unclosed(Done), Done, state = "charc")
       /\ state = "stage2" => Unclosed(Done) = 0
  /\ ParenVerdict

LEMMA CountIsNat ==
  ASSUME NEW s, NEW n \in Nat, n <= Len(s), s \in Seq(LexToken), NEW kind
  PROVE  CountOf(SubSeq(s, 1, n), kind) \in Nat
  <1>1. PICK S : S = {i \in 1..n : s[i].k = kind}
    OBVIOUS
  <1>2. CountOf(SubSeq(s, 1, n), kind) = Cardinality(S)
    <2>1. PICK r : r = SubSeq(s, 1, n)
      OBVIOUS
    <2>2. DOMAIN r = 1..n /\ \A i \in 1..n : r[i] = s[i]
      BY <2>1
    <2>3. {i \in DOMAIN r : r[i].k = kind} = S
      BY <1>1, <2>2
    <2>4. QED
      BY <2>1, <2>3 DEF CountOf
  <1>3. IsFiniteSet(S)
    <2>1. IsFiniteSet(1..n) /\ S \in SUBSET (1..n)
      BY <1>1, FS_Interval
    <2>2. QED
      BY <2>1, FS_Subset
  <1>4. QED
    BY <1>2, <1>3, FS_CardinalityType

LEMMA CountGrows ==
  ASSUME NEW s \in Seq(LexToken), NEW n \in Nat, n < Len(s), NEW kind
  PROVE  CountOf(SubSeq(s, 1, n + 1), kind)
           = CountOf(SubSeq(s, 1, n), kind) + (IF s[n + 1].k = kind THEN 1 ELSE 0)
  <1>1. PICK S : S = {i \in 1..n : s[i].k = kind}
    OBVIOUS
  <1>2. PICK T : T = {i \in 1..(n + 1) : s[i].k = kind}
    OBVIOUS
  <1>3. CountOf(SubSeq(s, 1, n), kind) = Cardinality(S)
    <2>1. PICK r : r = SubSeq(s, 1, n)
      OBVIOUS
    <2>2. DOMAIN r = 1..n /\ \A i \in 1..n : r[i] = s[i]
      BY <2>1
    <2>3. {i \in DOMAIN r : r[i].k = kind} = S
      BY <1>1, <2>2
    <2>4. QED
      BY <2>1, <2>3 DEF CountOf
  <1>4. CountOf(SubSeq(s, 1, n + 1), kind) = Cardinality(T)
    <2>1. PICK r : r = SubSeq(s, 1, n + 1)
      OBVIOUS
    <2>2. DOMAIN r = 1..(n + 1) /\ \A i \in 1..(n + 1) : r[i] = s[i]
      BY <2>1
    <2>3. {i \in DOMAIN r : r[i].k = kind} = T
      BY <1>2, <2>2
    <2>4. QED
      BY <2>1, <2>3 DEF CountOf
  <1>5. IsFiniteSet(S)
    <2>1. IsFiniteSet(1..n) /\ S \in SUBSET (1..n)
      BY <1>1, FS_Interval
    <2>2. QED
      BY <2>1, FS_Subset
  <1>6. n + 1 \notin S /\ \A i \in 1..(n + 1) : i = n + 1 \/ i \in 1..n
    BY <1>1
  <1>7. CASE s[n + 1].k = kind
    <2>1. T = S \cup {n + 1}
      BY <1>1, <1>2, <1>6, <1>7
    <2>2. Cardinality(T) = Cardinality(S) + 1
      BY <1>5, <1>6, <2>1, FS_AddElement
    <2>3. QED
      BY <1>3, <1>4, <1>7, <2>2
  <1>8. CASE s[n + 1].k # kind
    <2>1. T = S
      BY <1>1, <1>2, <1>6, <1>8
    <2>2. Cardinality(S) \in Nat
      BY <1>5, FS_CardinalityType
    <2>3. QED
      BY <1>3, <1>4, <1>8, <2>1, <2>2
  <1>9. QED
    BY <1>7, <1>8

LEMMA UnclosedStep ==
  ASSUME source \in Seq(LexToken), NEW n \in Nat, n < Len(source)
  PROVE  /\ Unclosed(n) \in Int
         /\ source[n + 1].k = "lparen" => Unclosed(n + 1) = Unclosed(n) + 1
         /\ source[n + 1].k = "rparen" => Unclosed(n + 1) = Unclosed(n) - 1
         /\ source[n + 1].k \notin {"lparen", "rparen"} => Unclosed(n + 1) = Unclosed(n)
  <1>1. PICK a \in Nat, b \in Nat : /\ a = CountOf(SubSeq(source, 1, n), "lparen")
                                    /\ b = CountOf(SubSeq(source, 1, n), "rparen")
    BY CountIsNat
  <1>2. /\ CountOf(SubSeq(source, 1, n + 1), "lparen")
             = a + (IF source[n + 1].k = "lparen" THEN 1 ELSE 0)
        /\ CountOf(SubSeq(source, 1, n + 1), "rparen")
             = b + (IF source[n + 1].k = "rparen" THEN 1 ELSE 0)
    BY <1>1, CountGrows
  <1>3. QED
    BY <1>1, <1>2 DEF Unclosed

(* before the first parenthesis *)
LEMMA NoneOpened ==
  ASSUME source \in Seq(LexToken), NEW n \in Nat, n <= Len(source),
         \A i \in 1..n : source[i].k = "literal"
  PROVE  Unclosed(n) = 0
  <1>1. PICK r : r = SubSeq(source, 1, n)
    OBVIOUS
  <1>2. DOMAIN r = 1..n /\ \A i \in 1..n : r[i] = source[i]
    BY <1>1
  <1>3. ASSUME NEW kind \in {"lparen", "rparen"}
        PROVE  CountOf(r, kind) = 0
    <2>1. {i \in DOMAIN r : r[i].k = kind} = {}
      BY <1>2, <1>3
    <2>2. QED
      BY <2>1, FS_EmptySet DEF CountOf
  <1>4. QED
    BY <1>1, <1>3 DEF Unclosed

(* reading one token *)
LEMMA ReadOn ==
  ASSUME Inv, Placed, rest # <<>>, rest' = Tail(rest), UNCHANGED callVars, state' # "backlog"
  PROVE  /\ Placed' /\ Done \in Nat /\ Done < Len(source) /\ Done' = Done + 1
         /\ tok = source[Done + 1] /\ source \in Seq(LexToken)
  <1>1. source \in Seq(LexToken) /\ source' = source /\ rest \in Seq(LexToken)
    BY SourceRead DEF callVars, Inv
  <1>2. PICK s \in Seq(LexToken), n \in Nat, r \in Seq(LexToken), m \in Nat :
          s = source /\ n = Len(s) /\ r = rest /\ m = Len(r)
    BY <1>1
  <1>3. PICK k \in 0..n : k = Done /\ k = n - m /\ r = SubSeq(s, k + 1, n)
    BY <1>2 DEF Placed, Done
  <1>4. m > 0 /\ r # <<>>
    BY <1>2
  <1>5. k + 1 \in 1..Len(s) /\ n \in (k + 1)..Len(s) /\ (k + 1) + 1 = k + 2
    BY <1>2, <1>3, <1>4
  <1>6. Head(r) = s[k + 1] /\ Tail(r) = SubSeq(s, k + 2, n)
    BY <1>3, <1>5, HeadTailOfSubSeq
  <1>7. Len(Tail(r)) = m - 1
    BY <1>2, <1>4, HeadTailProperties
  <1>8. source' = s /\ rest' = Tail(r) /\ Len(source') - Len(rest') = k + 1
    <2>1. source' = s /\ rest' = Tail(r)
      BY <1>1, <1>2
    <2>2. n - (m - 1) = k + 1
      BY <1>3
    <2>3. QED
      BY <1>2, <1>7, <2>1, <2>2
  <1>9. Done' = k + 1
    BY <1>8 DEF Done
  <1>10. Placed'
    <2>1. k + 1 \in 0..n
      BY <1>3, <1>4
    <2>2. rest' = SubSeq(s, (k + 1) + 1, n)
      BY <1>5, <1>6, <1>8
    <2>3. QED
      BY <1>2, <1>8, <1>9, <2>1, <2>2 DEF Placed
  <1>11. tok = s[k + 1]
    BY <1>2, <1>6 DEF tok
  <1>12. Done \in Nat /\ Done < Len(source) /\ Done' = Done + 1
    <2>1. k \in Nat /\ k < n
      BY <1>3, <1>4
    <2>2. Done = k /\ Len(source) = n
      BY <1>2, <1>3
    <2>3. QED
      BY <1>9, <2>1, <2>2
  <1>13. QED
    BY <1>1, <1>2, <1>3, <1>10, <1>11, <1>12

LEMMA BalancedOn ==
  ASSUME Inv, Balanced, rest # <<>>, rest' = Tail(rest), UNCHANGED callVars,
         state' \in {"start", "charc"}, NEW o, Unclosed(Done + 1) = o,
         ~HasEmptyGroup => Settled(cx', o, Done + 1, state' = "charc")
  PROVE  Balanced'
  <1>1. Placed' /\ Done' = Done + 1 /\ source' = source
    BY ReadOn DEF Balanced, callVars
  <1>2. Unclosed(Done)' = o
    BY <1>1 DEF Unclosed
  <1>3. Bare(Done)' <=> Bare(Done + 1)
    BY <1>1 DEF Bare, Silent
  <1>4. HasEmptyGroup' <=> HasEmptyGroup
    BY <1>1 DEF HasEmptyGroup
  <1>5. ~HasEmptyGroup' => Settled(cx, Unclosed(Done), Done, state = "charc")'
    BY <1>2, <1>3, <1>4 DEF Settled, Filled
  <1>6. ParenVerdict' /\ state' # "stage2"
    BY DEF ParenVerdict
  <1>7. QED
    BY <1>1, <1>5, <1>6 DEF Balanced

(* what reading a token leaves alone *)
LEMMA TookFields ==
  ASSUME NEW d, Shape(d), Took(d), tok \in Token
  PROVE  /\ Groups(cx') = Groups(d) /\ cx'.buf = d.buf /\ cx'.target = d.target
         /\ cx'.strb = d.strb /\ cx'.lasttok = tok.k
         /\ \A i : Code(cx', i) = Code(d, i)
  <1>1. PICK e : e = cx'
    OBVIOUS
  <1>2. e = [d EXCEPT !.lasttok = tok.k, !.at = @ + tok.w] /\ d \in Context
    BY <1>1 DEF Took, Shape
  <1>3. PICK k, w : k = tok.k /\ w = d.at + tok.w
    OBVIOUS
  <1>4. e = [d EXCEPT !.lasttok = k, !.at = w]
    BY <1>2, <1>3
  <1>5. /\ e.prog = d.prog /\ e.parens = d.parens /\ e.buf = d.buf
        /\ e.target = d.target /\ e.strb = d.strb /\ e.lasttok = k
    BY <1>2, <1>4 DEF Context
  <1>6. Groups(e) = Groups(d) /\ \A i : Code(e, i) = Code(d, i)
    BY <1>5 DEF Groups, Code, Stack
  <1>7. QED
    BY <1>1, <1>3, <1>5, <1>6

(* a token that neither opens nor closes a group *)
LEMMA BalancedBetween ==
  ASSUME Inv, Balanced, rest # <<>>, UNCHANGED callVars, state' \in {"start", "charc"},
         NEW d, Shape(d), Took(d), tok.k \notin {"lparen", "rparen"},
         ~HasEmptyGroup =>
           /\ Level(d, Unclosed(Done))
           /\ Filled(d, Unclosed(Done), Done + 1, state' = "charc")
  PROVE  Balanced'
  <1>1. rest' = Tail(rest) /\ tok \in Token
    BY TokenRead DEF Took, Inv
  <1>2. PICK n \in Nat : n = Done /\ n < Len(source) /\ tok = source[n + 1]
    BY <1>1, ReadOn DEF Balanced
  <1>3. Unclosed(Done + 1) = Unclosed(Done)
    BY <1>2, UnclosedStep, SourceRead
  <1>4. /\ Groups(cx') = Groups(d) /\ cx'.buf = d.buf /\ cx'.target = d.target
        /\ cx'.strb = d.strb /\ cx'.lasttok = tok.k
        /\ \A i : Code(cx', i) = Code(d, i)
    BY <1>1, TookFields
  <1>5. ~HasEmptyGroup => Settled(cx', Unclosed(Done), Done + 1, state' = "charc")
    BY <1>4 DEF Settled, Level, Filled
  <1>6. QED
    BY <1>1, <1>3, <1>5, BalancedOn

LEMMA SettledNow ==
  ASSUME Inv, Balanced, state \in {"start", "charc"}, ~HasEmptyGroup
  PROVE  \E o \in Nat :
           /\ o = Unclosed(Done) /\ Settled(cx, o, Done, state = "charc")
           /\ Groups(cx) = (IF cx.lasttok = "rparen" THEN o + 2 ELSE o + 1)
  <1>1. PICK o \in Int : o = Unclosed(Done)
    <2>1. source \in Seq(LexToken) /\ Done \in Nat /\ Done <= Len(source)
      BY SourceRead DEF Balanced, Placed
    <2>2. PICK a \in Nat, b \in Nat : /\ a = CountOf(SubSeq(source, 1, Done), "lparen")
                                      /\ b = CountOf(SubSeq(source, 1, Done), "rparen")
      BY <2>1, CountIsNat
    <2>3. Unclosed(Done) = a - b
      BY <2>2 DEF Unclosed
    <2>4. QED
      BY <2>3
  <1>2. Settled(cx, o, Done, state = "charc")
    BY <1>1 DEF Balanced
  <1>3. Groups(cx) = (IF cx.lasttok = "rparen" THEN o + 2 ELSE o + 1)
    BY <1>2 DEF Settled, JustClosed, Level
  <1>4. /\ Groups(cx) >= 1 /\ (cx.lasttok = "rparen" => Groups(cx) >= 2)
    BY DEF Inv, Shape, Last
  <1>5. o >= 0
    BY <1>3, <1>4
  <1>6. QED
    BY <1>1, <1>2, <1>3, <1>5

(* what was just closed fills the group around it *)
LEMMA FlushedLevel ==
  ASSUME Inv, Balanced, state = "start", ~HasEmptyGroup, NEW c, c = Flushed(cx)
  PROVE  Level(c, Unclosed(Done)) /\ Filled(c, Unclosed(Done), Done, FALSE)
  <1>1. PICK o \in Nat :
          /\ o = Unclosed(Done) /\ Settled(cx, o, Done, state = "charc")
          /\ Groups(cx) = (IF cx.lasttok = "rparen" THEN o + 2 ELSE o + 1)
    BY SettledNow
  <1>2. Shape(cx) /\ Last(cx)
    BY DEF Inv
  <1>3. CASE cx.lasttok = "rparen"
    <2>1. /\ JustClosed(cx, o) /\ Groups(cx) = o + 2 /\ cx.buf = o + 2
          /\ cx.target = (IF o = 0 THEN 0 ELSE o + 1)
          /\ Code(cx, cx.buf) # <<>>
      BY <1>1, <1>2, <1>3 DEF Settled, JustClosed, Last
    <2>2. Fits(Code(cx, cx.buf)) /\ cx.target \in 0..Groups(cx) /\ cx.target # 1
      BY <1>2, BufferFits DEF Shape
    <2>3. PICK d : d = stack_cat(cx, cx.target, cx.buf)
      OBVIOUS
    <2>4. /\ Shape(d) /\ SameFields(cx, d)
          /\ Code(d, cx.target) = Code(cx, cx.target) \o Code(cx, cx.buf)
      BY <1>2, <2>2, <2>3, AddShape DEF stack_cat
    <2>5. Code(d, cx.target) # <<>>
      <3>1. Code(cx, cx.target) \in Seq(Inst) /\ Code(cx, cx.buf) \in Seq(Inst)
        <4>1. StackFits(Stack(cx, cx.target))
          BY <1>2, <2>2 DEF Shape
        <4>2. QED
          BY <2>2, <4>1 DEF StackFits, StackType, Code, Fits
      <3>2. QED
        BY <2>1, <2>4, <3>1
    <2>6. d.buf = Groups(d) /\ Groups(d) = o + 2 /\ d.target = cx.target /\ d.target <= o + 1
      BY <2>1, <2>4 DEF SameFields
    <2>7. c = PopGroup(d)
      BY <1>3, <2>1, <2>3 DEF Flushed
    <2>8. /\ Groups(c) = o + 1 /\ c.buf = 1 /\ c.target = cx.target
          /\ Code(c, cx.target) = Code(d, cx.target)
      <3>1. Groups(d) >= 2 /\ d.target < Groups(d) /\ d.target \in 0..(Groups(d) - 1)
        BY <2>2, <2>6
      <3>2. /\ Groups(c) = Groups(d) - 1 /\ c.buf = 1 /\ c.target = d.target
            /\ \A i \in 0..(Groups(d) - 1) : Stack(c, i) = Stack(d, i)
        BY <2>4, <2>6, <2>7, <3>1, PopShape
      <3>3. QED
        BY <2>6, <3>1, <3>2 DEF Code
    <2>9. QED
      BY <1>1, <2>1, <2>5, <2>8 DEF Level, Filled
  <1>4. CASE cx.lasttok # "rparen"
    <2>1. c = cx
      BY <1>4 DEF Flushed
    <2>2. QED
      BY <1>1, <1>4, <2>1 DEF Settled, Filled
  <1>5. QED
    BY <1>3, <1>4

LEMMA OperandFills ==
  ASSUME NEW c, Shape(c), NEW inst, Plain(<<inst>>), NEW o, Level(c, o)
  PROVE  LET d == AddOperand(c, 1, inst)
         IN  Level(d, o) /\ Code(d, 1) # <<>>
  <1>1. PICK e : e = AddHead(c, 1, <<inst>>)
    OBVIOUS
  <1>2. 1 \in 0..Groups(c) /\ c \in Context
    BY DEF Shape, Context, Groups
  <1>3. Shape(e) /\ SameFields(c, e) /\ Code(e, 1) = Code(c, 1) \o <<inst>>
    BY <1>1, <1>2, AddShape DEF Plain
  <1>4. PICK op : op = [stack |-> 1, at |-> Len(Code(c, 1)) + 1]
    OBVIOUS
  <1>5. PICK d : d = [e EXCEPT !.operand = op]
    OBVIOUS
  <1>6. AddOperand(c, 1, inst) = d
    BY <1>1, <1>4, <1>5 DEF AddOperand
  <1>7. /\ d.prog = e.prog /\ d.parens = e.parens
        /\ d.target = e.target /\ d.buf = e.buf
    BY <1>3, <1>5 DEF Shape, Context
  <1>8. Groups(d) = Groups(e) /\ Code(d, 1) = Code(e, 1)
    BY <1>7 DEF Groups, Code, Stack
  <1>9. Code(e, 1) # <<>>
    <2>1. Code(c, 1) \in Seq(Inst) /\ <<inst>> \in Seq(Inst)
      BY DEF Shape, Plain, Fits
    <2>2. QED
      BY <1>3, <2>1
  <1>10. QED
    BY <1>3, <1>6, <1>7, <1>8, <1>9 DEF Level, SameFields

(* one lemma for each kind of step *)
LEMMA LiteralBalances ==
  ASSUME Inv, Balanced, Literal
  PROVE  Balanced'
  <1>1. Reads("start", {"literal"})
    BY DEF Literal
  <1>2. /\ state = "start" /\ rest # <<>> /\ tok.k = "literal" /\ tok \in LexToken
        /\ Shape(cx) /\ Last(cx)
    BY <1>1, Open
  <1>3. PICK c, inst, d : c = Flushed(cx) /\ inst = IChar(tok.c) /\ d = AddOperand(c, c.buf, inst)
    OBVIOUS
  <1>4. Shape(c) /\ Plain(Code(c, c.buf)) /\ c.buf \in 0..Groups(c)
    BY <1>2, <1>3, FlushedShape DEF Shape
  <1>5. Plain(<<inst>>)
    BY <1>2, <1>3, PlainInsts DEF LexToken
  <1>6. Shape(d) /\ Took(d) /\ state' = "start" /\ UNCHANGED callVars
    BY <1>2, <1>3, <1>4, <1>5, OperandAdded DEF Literal
  <1>7. ~HasEmptyGroup =>
          /\ Level(d, Unclosed(Done))
          /\ Filled(d, Unclosed(Done), Done + 1, state' = "charc")
    <2>1. SUFFICES ASSUME ~HasEmptyGroup
                   PROVE  Level(d, Unclosed(Done)) /\ Code(d, 1) # <<>>
      BY DEF Filled
    <2>2. Level(c, Unclosed(Done)) /\ c.buf = 1
      BY <1>2, <1>3, <2>1, FlushedLevel DEF Level
    <2>3. QED
      BY <1>3, <1>4, <1>5, <2>2, OperandFills
  <1>8. QED
    BY <1>2, <1>6, <1>7, BalancedBetween

LEMMA SingleBalances ==
  ASSUME Inv, Balanced, NEW kind, NEW inst, Single(kind, inst), Plain(<<inst>>),
         kind \notin {"lparen", "rparen"}
  PROVE  Balanced'
  <1>1. Reads("start", {kind})
    BY DEF Single
  <1>2. /\ state = "start" /\ rest # <<>> /\ tok.k = kind /\ tok \in LexToken
        /\ Shape(cx) /\ Last(cx)
    BY <1>1, Open
  <1>3. PICK c, d : c = Flushed(cx) /\ d = AddOperand(c, c.buf, inst)
    OBVIOUS
  <1>4. Shape(c) /\ Plain(Code(c, c.buf)) /\ c.buf \in 0..Groups(c)
    BY <1>2, <1>3, FlushedShape DEF Shape
  <1>5. Shape(d) /\ Took(d) /\ state' = "start" /\ UNCHANGED callVars
    BY <1>2, <1>3, <1>4, OperandAdded DEF Single
  <1>6. ~HasEmptyGroup =>
          /\ Level(d, Unclosed(Done))
          /\ Filled(d, Unclosed(Done), Done + 1, state' = "charc")
    <2>1. SUFFICES ASSUME ~HasEmptyGroup
                   PROVE  Level(d, Unclosed(Done)) /\ Code(d, 1) # <<>>
      BY DEF Filled
    <2>2. Level(c, Unclosed(Done)) /\ c.buf = 1
      BY <1>2, <1>3, <2>1, FlushedLevel DEF Level
    <2>3. QED
      BY <1>3, <1>4, <2>2, OperandFills
  <1>7. QED
    BY <1>2, <1>5, <1>6, BalancedBetween

(* a token that adds nothing leaves a bare group bare *)
LEMMA BareStep ==
  ASSUME NEW n \in Nat, Bare(n), Silent(n + 1)
  PROVE  Bare(n + 1)
  <1>1. PICK i \in 1..n : source[i].k = "lparen" /\ \A m \in (i + 1)..n : Silent(m)
    BY DEF Bare
  <1>2. i \in 1..(n + 1) /\ \A m \in (i + 1)..(n + 1) : m = n + 1 \/ m \in (i + 1)..n
    OBVIOUS
  <1>3. QED
    BY <1>1, <1>2 DEF Bare

LEMMA ReadSilent ==
  ASSUME Inv, Balanced, rest # <<>>, rest' = Tail(rest), UNCHANGED callVars,
         state' # "backlog", tok.k \in {"charc_open", "charc_close"} \/ tok.c = SOL_SYM
  PROVE  Bare(Done) => Bare(Done + 1)
  <1>1. PICK n \in Nat : n = Done /\ tok = source[n + 1]
    BY ReadOn DEF Balanced
  <1>2. Silent(n + 1)
    BY <1>1 DEF Silent
  <1>3. QED
    BY <1>1, <1>2, BareStep

LEMMA OpenClassBalances ==
  ASSUME Inv, Balanced, OpenClass
  PROVE  Balanced'
  <1>1. Reads("start", {"charc_open"})
    BY DEF OpenClass
  <1>2. /\ state = "start" /\ rest # <<>> /\ tok.k = "charc_open"
        /\ Shape(cx) /\ Last(cx)
    BY <1>1, Open
  <1>3. PICK c, d : c = Flushed(cx) /\ d = [c EXCEPT !.strb = {}]
    OBVIOUS
  <1>4. Shape(c) /\ Plain(Code(c, c.buf)) /\ c \in Context
    BY <1>2, <1>3, FlushedShape DEF Shape
  <1>5. /\ d.prog = c.prog /\ d.parens = c.parens /\ d.target = c.target /\ d.buf = c.buf
    BY <1>3, <1>4 DEF Context
  <1>6. Groups(d) = Groups(c) /\ \A i : Code(d, i) = Code(c, i)
    BY <1>5 DEF Groups, Code, Stack
  <1>7. Shape(d)
    BY <1>3, <1>4, StringSet
  <1>8. Took(d) /\ state' = "charc" /\ UNCHANGED callVars /\ rest' = Tail(rest)
    BY <1>3 DEF OpenClass, Took
  <1>9. ~HasEmptyGroup =>
          /\ Level(d, Unclosed(Done))
          /\ Filled(d, Unclosed(Done), Done + 1, state' = "charc")
    <2>1. SUFFICES ASSUME ~HasEmptyGroup
                   PROVE  /\ Level(d, Unclosed(Done))
                          /\ Filled(d, Unclosed(Done), Done + 1, state' = "charc")
      OBVIOUS
    <2>2. Level(c, Unclosed(Done)) /\ Filled(c, Unclosed(Done), Done, FALSE)
      BY <1>2, <1>3, <2>1, FlushedLevel
    <2>3. Bare(Done) => Bare(Done + 1)
      BY <1>2, <1>8, ReadSilent
    <2>4. QED
      BY <1>5, <1>6, <2>2, <2>3 DEF Level, Filled
  <1>10. QED
    BY <1>2, <1>7, <1>8, <1>9, BalancedBetween

(* in a class *)
LEMMA ClassLevel ==
  ASSUME Inv, Balanced, state = "charc", ~HasEmptyGroup
  PROVE  Level(cx, Unclosed(Done)) /\ Filled(cx, Unclosed(Done), Done, TRUE)
  <1>1. PICK o \in Nat : o = Unclosed(Done) /\ Settled(cx, o, Done, state = "charc")
    BY SettledNow
  <1>2. cx.lasttok # "rparen"
    BY DEF Inv
  <1>3. QED
    BY <1>1, <1>2 DEF Settled

LEMMA ClassLiteralBalances ==
  ASSUME Inv, Balanced, ClassLiteral
  PROVE  Balanced'
  <1>1. Reads("charc", {"literal"})
    BY DEF ClassLiteral
  <1>2. /\ state = "charc" /\ rest # <<>> /\ tok.k = "literal" /\ tok \in LexToken
        /\ Shape(cx) /\ Plain(Code(cx, cx.buf))
    BY <1>1, Open
  <1>3. UNCHANGED callVars /\ state' = "charc"
    BY <1>2 DEF ClassLiteral
  <1>4. CASE tok.c = SOL_SYM /\ Took(cx)
    <2>1. rest' = Tail(rest)
      BY <1>4 DEF Took
    <2>2. Bare(Done) => Bare(Done + 1)
      BY <1>2, <1>3, <1>4, <2>1, ReadSilent
    <2>3. ~HasEmptyGroup =>
            /\ Level(cx, Unclosed(Done))
            /\ Filled(cx, Unclosed(Done), Done + 1, state' = "charc")
      BY <1>2, <1>3, <2>2, ClassLevel DEF Filled
    <2>4. QED
      BY <1>2, <1>3, <1>4, <2>3, BalancedBetween
  <1>5. CASE Took([cx EXCEPT !.strb = @ \cup {tok.c}])
    <2>1. PICK ccs : ccs = cx.strb \cup {tok.c}
      OBVIOUS
    <2>2. ccs \in SUBSET Char /\ ccs # {} /\ cx \in Context
      BY <1>2, <2>1 DEF LexToken, Shape, Context
    <2>3. PICK d : d = [cx EXCEPT !.strb = ccs]
      OBVIOUS
    <2>4. Took(d) /\ Shape(d)
      BY <1>2, <1>5, <2>1, <2>2, <2>3, StringSet
    <2>5. /\ d.prog = cx.prog /\ d.parens = cx.parens /\ d.target = cx.target
          /\ d.buf = cx.buf /\ d.strb = ccs
      BY <2>2, <2>3 DEF Context
    <2>6. Groups(d) = Groups(cx)
      BY <2>5 DEF Groups
    <2>7. ~HasEmptyGroup =>
            /\ Level(d, Unclosed(Done))
            /\ Filled(d, Unclosed(Done), Done + 1, state' = "charc")
      BY <1>2, <1>3, <2>2, <2>5, <2>6, ClassLevel DEF Level, Filled
    <2>8. QED
      BY <1>2, <1>3, <2>4, <2>7, BalancedBetween
  <1>6. QED
    BY <1>4, <1>5 DEF ClassLiteral

LEMMA ClassRangeBalances ==
  ASSUME Inv, Balanced, ClassRange
  PROVE  Balanced'
  <1>1. Reads("charc", {"char_range"})
    BY DEF ClassRange
  <1>2. /\ state = "charc" /\ rest # <<>> /\ tok.k = "char_range" /\ tok \in LexToken
        /\ tok \in Token /\ Shape(cx) /\ Plain(Code(cx, cx.buf)) /\ cx \in Context
    BY <1>1, Open DEF Shape
  <1>3. UNCHANGED callVars /\ state' = "charc"
    BY <1>2 DEF ClassRange
  <1>4. PICK ccs : ccs = cx.strb \cup (tok.c..tok.d) \cup (tok.d..tok.c)
    OBVIOUS
  <1>5. ccs \in SUBSET Char /\ ccs # {}
    <2>1. (tok.c..tok.d) \cup (tok.d..tok.c) \subseteq Char
      BY <1>2 DEF LexToken
    <2>2. PICK m \in Int, n \in Int : m = tok.c /\ n = tok.d
      BY <1>2 DEF Token
    <2>3. (m..n) \cup (n..m) # {}
      <3>1. m \in m..n \/ m \in n..m
        BY <2>2
      <3>2. QED
        BY <3>1
    <2>4. cx.strb \in SUBSET Char
      BY <1>2 DEF Context
    <2>5. QED
      BY <1>4, <2>1, <2>2, <2>3, <2>4
  <1>6. PICK d : d = [cx EXCEPT !.strb = ccs]
    OBVIOUS
  <1>7. Took(d) /\ Shape(d)
    <2>1. Took([cx EXCEPT !.strb = @ \cup (tok.c..tok.d) \cup (tok.d..tok.c)])
      BY DEF ClassRange
    <2>2. d = [cx EXCEPT !.strb = @ \cup (tok.c..tok.d) \cup (tok.d..tok.c)]
      BY <1>4, <1>6
    <2>3. Took(d)
      BY <2>1, <2>2
    <2>4. Shape(d)
      BY <1>2, <1>5, <1>6, StringSet
    <2>5. QED
      BY <2>3, <2>4
  <1>8. /\ d.prog = cx.prog /\ d.parens = cx.parens /\ d.target = cx.target
        /\ d.buf = cx.buf /\ d.strb = ccs
    BY <1>2, <1>6 DEF Context
  <1>9. Groups(d) = Groups(cx)
    BY <1>8 DEF Groups
  <1>10. ~HasEmptyGroup =>
           /\ Level(d, Unclosed(Done))
           /\ Filled(d, Unclosed(Done), Done + 1, state' = "charc")
    BY <1>2, <1>3, <1>5, <1>8, <1>9, ClassLevel DEF Level, Filled
  <1>11. QED
    BY <1>2, <1>3, <1>7, <1>10, BalancedBetween

LEMMA CloseClassBalances ==
  ASSUME Inv, Balanced, CloseClass
  PROVE  Balanced'
  <1>1. Reads("charc", {"charc_close"})
    BY DEF CloseClass
  <1>2. /\ state = "charc" /\ rest # <<>> /\ tok.k = "charc_close"
        /\ Shape(cx) /\ Plain(Code(cx, cx.buf)) /\ cx \in Context
    BY <1>1, Open DEF Shape
  <1>3. UNCHANGED callVars /\ state' = "start" /\ rest' = Tail(rest)
    BY DEF CloseClass, Took
  <1>4. CASE cx.strb = {}
    <2>1. Took(cx)
      BY <1>4 DEF CloseClass
    <2>2. Bare(Done) => Bare(Done + 1)
      BY <1>2, <1>3, ReadSilent
    <2>3. ~HasEmptyGroup =>
            /\ Level(cx, Unclosed(Done))
            /\ Filled(cx, Unclosed(Done), Done + 1, state' = "charc")
      BY <1>2, <1>4, <2>2, ClassLevel DEF Filled
    <2>4. QED
      BY <1>2, <1>3, <2>1, <2>3, BalancedBetween
  <1>5. CASE cx.strb # {}
    <2>1. PICK inst : inst = IF is_nchar THEN INclass(cx.strb) ELSE IClass(cx.strb)
      OBVIOUS
    <2>2. cx.strb \in (SUBSET Char) \ {{}} /\ 1 \in 0..Groups(cx)
      BY <1>2, <1>5 DEF Shape, Context, Groups
    <2>3. Plain(<<inst>>)
      BY <2>1, <2>2, PlainInsts
    <2>4. PICK d : d = AddOperand(cx, 1, inst)
      OBVIOUS
    <2>5. Took(d) /\ Shape(d)
      BY <1>2, <1>5, <2>1, <2>2, <2>3, <2>4, OperandAdded DEF CloseClass
    <2>6. ~HasEmptyGroup =>
            /\ Level(d, Unclosed(Done))
            /\ Filled(d, Unclosed(Done), Done + 1, state' = "charc")
      BY <1>2, <2>3, <2>4, ClassLevel, OperandFills DEF Filled
    <2>7. QED
      BY <1>2, <1>3, <2>5, <2>6, BalancedBetween
  <1>6. QED
    BY <1>4, <1>5

(* What an operator makes of an operand is never nothing. *)
LEMMA OpCodeHolds ==
  ASSUME NEW tk \in LexToken, tk.k \in ISOP \ {"alt"}, ~(tk.k = "rep" /\ BadRep(tk)),
         NEW code, Fits(code), Len(code) > 0
  PROVE  OpCode(tk, code) # <<>>
  <1>1. PICK len \in Nat \ {0} : len = Len(code) /\ code \in Seq(Inst)
    BY DEF Fits
  <1>2. \A x \in Int, y \in Int : <<IBranch(x, y)>> \in Seq(Inst)
    BY BranchInst
  <1>3. code_one(code) # <<>> /\ code_zero(code) # <<>> /\ code_onezero(code) # <<>>
    <2>1. PICK b \in Inst, d \in Inst, f \in Inst :
            b = IBranch(-len, 1) /\ d = IBranch(1, len + 2) /\ f = IBranch(1, len + 1)
      BY BranchInst
    <2>2. /\ code \o <<b>> # <<>> /\ <<d>> \o code \o <<b>> # <<>>
          /\ <<f>> \o code # <<>>
      BY <1>1
    <2>3. QED
      BY <1>1, <2>1, <2>2 DEF code_one, code_zero, code_onezero
  <1>4. ASSUME NEW n \in Int, n > 0
        PROVE  Copies(code, n) \in Seq(Inst) /\ Copies(code, n) # <<>>
    <2>1. n * len > 0
      BY <1>4
    <2>2. Copies(code, n) \in Seq(Inst) /\ Len(Copies(code, n)) = n * len
      BY <1>1, <1>4, CopiesFit DEF Fits
    <2>3. QED
      BY <2>1, <2>2
  <1>5. ASSUME NEW n \in Int, n > 0
        PROVE  Optional(code, n) # <<>>
    <2>1. PICK size \in Nat : size = n * (len + 1) /\ size > 0
      <3>1. n * (len + 1) > 0 /\ n * (len + 1) \in Int
        BY <1>5
      <3>2. QED
        BY <3>1
    <2>2. 1 \in DOMAIN Optional(code, n)
      BY <1>1, <2>1 DEF Optional
    <2>3. QED
      BY <2>2
  <1>6. ASSUME tk.k = "rep"
        PROVE  OpCode(tk, code) # <<>>
    <2>1. PICK n \in Int, m \in Int : n = tk.c /\ m = tk.d
      BY DEF LexToken, Token
    <2>2. /\ n >= 0 \/ m >= 0
          /\ ~(m = 0 /\ n \in {0, REP_FIELD_EMPTY}) /\ ~(n = 0 /\ m = REP_NO_FIELD)
      BY <1>6, <2>1 DEF LexToken, RepBounds, BadRep, REP_FIELD_EMPTY, REP_NO_FIELD
    <2>3. OpCode(tk, code) =
            CASE n >= 0 /\ m >= 0 -> code_rep_range(code, n, m)
              [] n > 0 /\ m = REP_FIELD_EMPTY -> code_rep_more(code, n)
              [] n = REP_FIELD_EMPTY -> code_rep_less(code, m)
              [] m = REP_NO_FIELD -> code_rep_n(code, n)
              [] OTHER -> code_zero(code)
      BY <1>6, <2>1 DEF OpCode
    <2>4. n >= 0 /\ m >= 0 => code_rep_range(code, n, m) # <<>>
      <3>1. CASE n >= 0 /\ n = m
        <4>1. n > 0
          BY <2>2, <3>1
        <4>2. QED
          BY <1>4, <3>1, <4>1 DEF code_rep_range, code_rep_n
      <3>2. CASE n >= 0 /\ m >= 0 /\ n # m
        <4>1. PICK lo \in Nat, hi \in Nat :
                /\ lo = (IF n < m THEN n ELSE m) /\ hi = (IF n < m THEN m ELSE n)
                /\ hi - lo > 0 /\ hi - lo \in Int
          <5>1. CASE n < m
            BY <3>2, <5>1
          <5>2. CASE m < n
            BY <3>2, <5>2
          <5>3. QED
            BY <3>2, <5>1, <5>2
        <4>2. /\ Copies(code, lo) \in Seq(Inst) /\ Optional(code, hi - lo) \in Seq(Inst)
              /\ Optional(code, hi - lo) # <<>>
          BY <1>5, <4>1, CopiesFit, OptionalFits DEF Fits
        <4>3. Copies(code, lo) \o Optional(code, hi - lo) # <<>>
          BY <4>2
        <4>4. QED
          BY <3>2, <4>1, <4>3 DEF code_rep_range
      <3>3. QED
        BY <3>1, <3>2
    <2>5. n > 0 => code_rep_more(code, n) # <<>>
      <3>1. PICK b \in Inst : b = IBranch(-len, 1)
        BY BranchInst
      <3>2. n > 0 => Copies(code, n) \o <<b>> # <<>>
        BY <1>4, <3>1
      <3>3. QED
        BY <1>1, <3>1, <3>2 DEF code_rep_more
    <2>6. n = REP_FIELD_EMPTY => code_rep_less(code, m) # <<>>
      <3>1. n = REP_FIELD_EMPTY => m > 0
        BY <2>2 DEF REP_FIELD_EMPTY
      <3>2. QED
        BY <1>5, <3>1 DEF code_rep_less
    <2>7. m = REP_NO_FIELD => code_rep_n(code, n) # <<>>
      <3>1. m = REP_NO_FIELD => n > 0
        BY <2>2 DEF REP_NO_FIELD
      <3>2. QED
        BY <1>4, <3>1 DEF code_rep_n
    <2>8. QED
      BY <1>3, <2>3, <2>4, <2>5, <2>6, <2>7
  <1>7. QED
    BY <1>3, <1>6 DEF OpCode, ISOP

(* an operator moves what it made to the target, and empties the buffer *)
LEMMA ConsumedLevel ==
  ASSUME NEW c, Shape(c), NEW o \in Nat,
         c.lasttok = "rparen" => c.buf = Groups(c),
         Groups(c) = (IF c.lasttok = "rparen" THEN o + 2 ELSE o + 1),
         c.target = (IF o = 0 THEN 0 ELSE o + 1),
         Code(c, c.target) # <<>>
  PROVE  Level(Consumed(c), o) /\ Code(Consumed(c), Consumed(c).target) # <<>>
  <1>1. PICK d : d = stack_reset(c, c.buf)
    OBVIOUS
  <1>2. c.buf \in 1..Groups(c) /\ c.buf # c.target /\ c.target \in 0..Groups(c)
    BY DEF Shape
  <1>3. /\ Shape(d) /\ SameFields(c, d)
        /\ \A j \in 0..Groups(c) : j # c.buf => Stack(d, j) = Stack(c, j)
    BY <1>1, <1>2, ResetShape DEF Whole
  <1>4. Code(d, c.target) # <<>> /\ d.target = c.target /\ Groups(d) = Groups(c)
    BY <1>2, <1>3 DEF Code, SameFields
  <1>5. CASE c.lasttok = "rparen"
    <2>1. Consumed(c) = PopGroup(d)
      BY <1>1, <1>5 DEF Consumed
    <2>2. d.buf = Groups(d) /\ Groups(d) >= 2 /\ d.target < Groups(d) /\ Groups(d) = o + 2
      BY <1>3, <1>4, <1>5 DEF SameFields
    <2>3. PICK e : e = PopGroup(d)
      OBVIOUS
    <2>4. /\ Groups(e) = Groups(d) - 1 /\ e.buf = 1 /\ e.target = d.target
          /\ \A i \in 0..(Groups(d) - 1) : Stack(e, i) = Stack(d, i)
      BY <1>3, <2>2, <2>3, PopShape
    <2>5. d.target \in 0..(Groups(d) - 1)
      BY <1>2, <1>4, <2>2
    <2>6. Code(e, e.target) = Code(d, c.target)
      BY <1>4, <2>4, <2>5 DEF Code
    <2>7. QED
      BY <1>4, <2>1, <2>2, <2>3, <2>4, <2>6 DEF Level
  <1>6. CASE c.lasttok # "rparen"
    <2>1. PICK e : e = [d EXCEPT !.buf = 1]
      OBVIOUS
    <2>2. Consumed(c) = e
      BY <1>1, <1>6, <2>1 DEF Consumed
    <2>3. e.prog = d.prog /\ e.parens = d.parens /\ e.target = d.target /\ e.buf = 1
      BY <1>3, <2>1 DEF Shape, Context
    <2>4. Groups(e) = Groups(d) /\ Code(e, e.target) = Code(d, c.target)
      BY <1>4, <2>3 DEF Groups, Code, Stack
    <2>5. QED
      BY <1>4, <1>6, <2>2, <2>3, <2>4 DEF Level
  <1>7. QED
    BY <1>5, <1>6

(* an operator reads a context with its groups in order *)
LEMMA OperatorLevel ==
  ASSUME Inv, Balanced, state = "start", ~HasEmptyGroup,
         NEW c, Shape(c), Groups(c) = Groups(cx), c.target = cx.target,
         c.buf = cx.buf, c.lasttok = cx.lasttok, Code(c, c.target) # <<>>
  PROVE  Level(Consumed(c), Unclosed(Done))
         /\ Code(Consumed(c), Consumed(c).target) # <<>>
  <1>1. PICK o \in Nat :
          /\ o = Unclosed(Done) /\ Settled(cx, o, Done, state = "charc")
          /\ Groups(cx) = (IF cx.lasttok = "rparen" THEN o + 2 ELSE o + 1)
    BY SettledNow
  <1>2. c.target = (IF o = 0 THEN 0 ELSE o + 1)
    BY <1>1 DEF Settled, JustClosed, Level
  <1>3. c.lasttok = "rparen" => c.buf = Groups(c)
    BY DEF Inv, Last
  <1>4. QED
    BY <1>1, <1>2, <1>3, ConsumedLevel

LEMMA OperatorBalances ==
  ASSUME Inv, Balanced, Operator
  PROVE  Balanced'
  <1>1. Reads("start", ISOP \ {"alt"})
    BY DEF Operator
  <1>2. /\ state = "start" /\ rest # <<>> /\ tok.k \in ISOP \ {"alt"} /\ tok \in LexToken
        /\ Shape(cx) /\ Last(cx) /\ tok \in Token
    BY <1>1, Open
  <1>3. tok.k \notin {"lparen", "rparen"}
    BY <1>2 DEF ISOP
  <1>4. PICK op, code : op = OpCode(tok, Operand) /\ code = Prefix \o op
    OBVIOUS
  <1>5. Fits(code) /\ code # <<>>
    <2>1. /\ Fits(Prefix) /\ Fits(op) /\ op # <<>>
      BY <1>2, <1>4, OperandFits, OpCodeFits, OpCodeHolds DEF Operator
    <2>2. PICK a \in Seq(Inst), b \in Seq(Inst) : a = Prefix /\ b = op
      BY <2>1 DEF Fits
    <2>3. a \o b # <<>>
      BY <2>1, <2>2
    <2>4. QED
      BY <1>4, <2>1, <2>2, <2>3, ConcatFits
  <1>6. PICK c : c = AddHead(cx, cx.target, code)
    OBVIOUS
  <1>7. /\ Shape(c) /\ SameFields(cx, c)
        /\ Code(c, cx.target) = Code(cx, cx.target) \o code
    <2>1. cx.target \in 0..Groups(cx) /\ cx.target # 1
      BY <1>2 DEF Shape
    <2>2. QED
      BY <1>2, <1>5, <1>6, <2>1, AddShape
  <1>8. Code(c, c.target) # <<>>
    <2>1. Code(cx, cx.target) \in Seq(Inst) /\ code \in Seq(Inst)
      <3>1. StackFits(Stack(cx, cx.target))
        BY <1>2 DEF Shape
      <3>2. QED
        BY <1>5, <3>1 DEF StackFits, StackType, Code, Fits
    <2>2. QED
      BY <1>5, <1>7, <2>1 DEF SameFields
  <1>9. c.lasttok = "rparen" =>
          Groups(c) >= 2 /\ c.buf = Groups(c) /\ c.target < Groups(c)
    BY <1>2, <1>7 DEF Shape, SameFields, Last, Context, Groups
  <1>10. PICK d : d = Consumed(c)
    OBVIOUS
  <1>11. Shape(d)
    BY <1>7, <1>9, <1>10, ConsumedShape
  <1>12. Took(d) /\ UNCHANGED callVars /\ state' = "start"
    BY <1>2, <1>4, <1>6, <1>10 DEF Operator
  <1>13. ~HasEmptyGroup =>
           /\ Level(d, Unclosed(Done))
           /\ Filled(d, Unclosed(Done), Done + 1, state' = "charc")
    BY <1>2, <1>7, <1>8, <1>10, OperatorLevel DEF SameFields, Filled
  <1>14. QED
    BY <1>2, <1>3, <1>11, <1>12, <1>13, BalancedBetween

LEMMA AlternationBalances ==
  ASSUME Inv, Balanced, Alternation
  PROVE  Balanced'
  <1>1. Reads("start", {"alt"})
    BY DEF Alternation
  <1>2. /\ state = "start" /\ rest # <<>> /\ tok.k = "alt" /\ tok \in Token
        /\ Shape(cx) /\ Last(cx)
    BY <1>1, Open
  <1>3. PICK c, d, e : /\ c = AddHead(cx, cx.target, Buffered) /\ d = code_alt(c)
                       /\ e = Consumed(d)
    OBVIOUS
  <1>4. Shape(c) /\ SameFields(cx, c)
    <2>1. cx.target \in 0..Groups(cx) /\ cx.target # 1 /\ Fits(Buffered)
      BY <1>2, BufferFits DEF Shape, Buffered
    <2>2. QED
      BY <1>2, <1>3, <2>1, AddShape
  <1>5. /\ Shape(d) /\ Groups(d) = Groups(c) /\ d.target = c.target /\ d.buf = c.buf
        /\ d.lasttok = c.lasttok /\ Code(d, d.target) # <<>>
    BY <1>3, <1>4, AltShape
  <1>6. d.lasttok = "rparen" =>
          Groups(d) >= 2 /\ d.buf = Groups(d) /\ d.target < Groups(d)
    BY <1>2, <1>4, <1>5 DEF Shape, SameFields, Last, Context, Groups
  <1>7. Shape(e)
    BY <1>3, <1>5, <1>6, ConsumedShape
  <1>8. Took(e) /\ UNCHANGED callVars /\ state' = "start"
    BY <1>2, <1>3 DEF Alternation
  <1>9. ~HasEmptyGroup =>
          /\ Level(e, Unclosed(Done))
          /\ Filled(e, Unclosed(Done), Done + 1, state' = "charc")
    BY <1>2, <1>3, <1>4, <1>5, OperatorLevel DEF SameFields, Filled
  <1>10. QED
    BY <1>2, <1>7, <1>8, <1>9, BalancedBetween

(* a group begins where nothing has followed its parenthesis yet *)
LEMMA OpenGroupBalances ==
  ASSUME Inv, Balanced, OpenGroup
  PROVE  Balanced'
  <1>1. Reads("start", {"lparen"})
    BY DEF OpenGroup
  <1>2. /\ state = "start" /\ rest # <<>> /\ tok.k = "lparen" /\ tok \in Token
        /\ Shape(cx) /\ Last(cx)
    BY <1>1, Open
  <1>3. PICK c, d : c = Flushed(cx) /\ d = stack_reset(stack_cat(c, c.target, 1), 1)
    OBVIOUS
  <1>4. Shape(d) /\ SameFields(c, d)
    <2>1. Shape(c) /\ Plain(Code(c, c.buf))
      BY <1>2, <1>3, FlushedShape
    <2>2. QED
      BY <1>3, <2>1, BaseMoved
  <1>5. PICK q \in Seq(StackType), g \in Nat :
          q = d.parens /\ g = Len(q) /\ g = Groups(d)
    BY <1>4 DEF Shape, Context, Groups
  <1>6. PICK r : r = Append(q, create_stack) /\ Len(r) = g + 1
    BY <1>5, GroupAppended
  <1>7. PICK p, w, k : p = unsigned(d.depth + 1) /\ w = d.at + tok.w /\ k = tok.k
    OBVIOUS
  <1>8. PICK e : e = [d EXCEPT !.parens = r, !.target = g + 1, !.depth = p,
                               !.lasttok = k, !.at = w]
    OBVIOUS
  <1>9. /\ cx' = [[d EXCEPT !.parens = Append(@, create_stack), !.target = Groups(d) + 1,
                            !.depth = unsigned(@ + 1)]
                    EXCEPT !.lasttok = tok.k, !.at = @ + tok.w]
        /\ rest' = Tail(rest) /\ UNCHANGED callVars /\ state' = "start"
    BY <1>2, <1>3 DEF OpenGroup, Took
  <1>10. d \in Context
    BY <1>4 DEF Shape
  <1>11. cx' = e
    BY <1>5, <1>6, <1>7, <1>8, <1>9, <1>10 DEF Context
  <1>12. e.parens = r /\ e.target = g + 1 /\ e.buf = d.buf /\ e.lasttok = "lparen"
    BY <1>2, <1>7, <1>8, <1>10 DEF Context
  <1>13. Groups(e) = g + 1
    BY <1>6, <1>12 DEF Groups
  <1>14. PICK n \in Nat : n = Done /\ n < Len(source) /\ tok = source[n + 1]
    BY <1>2, <1>9, ReadOn DEF Balanced
  <1>15. Unclosed(Done + 1) = Unclosed(Done) + 1
    BY <1>2, <1>14, UnclosedStep, SourceRead
  <1>16. Bare(Done + 1)
    <2>1. /\ n + 1 \in 1..(n + 1) /\ ((n + 1) + 1)..(n + 1) = {}
      OBVIOUS
    <2>2. QED
      BY <1>2, <1>14, <2>1 DEF Bare
  <1>17. ~HasEmptyGroup => Settled(cx', Unclosed(Done + 1), Done + 1, state' = "charc")
    <2>1. SUFFICES ASSUME ~HasEmptyGroup
                   PROVE  Level(e, Unclosed(Done + 1))
      BY <1>11, <1>12, <1>16 DEF Settled, Filled
    <2>2. Level(c, Unclosed(Done))
      BY <1>2, <1>3, <2>1, FlushedLevel
    <2>3. PICK o \in Nat : o = Unclosed(Done)
      BY <1>2, <2>1, SettledNow
    <2>4. g = o + 1 /\ d.buf = 1
      BY <1>4, <1>5, <2>2, <2>3 DEF Level, SameFields
    <2>5. QED
      BY <1>12, <1>13, <1>15, <2>3, <2>4 DEF Level
  <1>18. QED
    BY <1>2, <1>9, <1>17, BalancedOn

(* The group that closes holds something, or the expression has an empty   *)
(* group that ends here.                                                   *)
LEMMA NoBareClose ==
  ASSUME NEW n \in Nat, n < Len(source), source \in Seq(LexToken),
         Bare(n), source[n + 1].k = "rparen"
  PROVE  HasEmptyGroup
  <1>1. PICK i \in 1..n : source[i].k = "lparen" /\ \A m \in (i + 1)..n : Silent(m)
    BY DEF Bare
  <1>2. /\ i \in DOMAIN source /\ n + 1 \in DOMAIN source /\ i < n + 1
        /\ (n + 1) - 1 = n
    OBVIOUS
  <1>3. QED
    BY <1>1, <1>2 DEF HasEmptyGroup, Silent

(* a jump that is set stays where it is *)
LEMMA AttachHolds ==
  ASSUME NEW c, Shape(c), Code(c, c.target) # <<>>
  PROVE  Code(attach_dangling_alt(c), c.target) # <<>>
  <1>1. PICK t \in 0..Groups(c) : t = c.target /\ t # 1
    BY DEF Shape
  <1>2. PICK s : s = Stack(c, t) /\ StackFits(s)
    BY <1>1 DEF Shape
  <1>3. CASE s.dangling_alt = 0
    BY <1>1, <1>2, <1>3 DEF attach_dangling_alt
  <1>4. CASE s.dangling_alt # 0
    <2>1. PICK r : r = [s EXCEPT !.code[s.dangling_alt].x = Len(s.code) - s.dsize + 1,
                                 !.dangling_alt = 0]
      OBVIOUS
    <2>2. StackFits(r) /\ r.dangling_alt = 0
      BY <1>2, <1>4, <2>1, AttachFits
    <2>3. attach_dangling_alt(c) = Put(c, t, r)
      BY <1>1, <1>2, <1>4, <2>1 DEF attach_dangling_alt
    <2>4. Stack(Put(c, t, r), t) = r
      BY <1>1, <2>2, PutShape
    <2>5. DOMAIN r.code = DOMAIN s.code
      BY <1>2, <2>1 DEF StackFits, StackType
    <2>6. PICK a \in Seq(Inst), b \in Seq(Inst) : a = s.code /\ b = r.code
      BY <1>2, <2>2 DEF StackFits, StackType
    <2>7. a # <<>> /\ DOMAIN a = DOMAIN b
      BY <1>1, <1>2, <2>5, <2>6 DEF Code
    <2>8. b # <<>>
      BY <2>7
    <2>9. QED
      BY <1>1, <2>3, <2>4, <2>6, <2>8 DEF Code
  <1>5. QED
    BY <1>3, <1>4

LEMMA CloseGroupBalances ==
  ASSUME Inv, Balanced, CloseGroup
  PROVE  Balanced'
  <1>1. Reads("start", {"rparen"})
    BY DEF CloseGroup
  <1>2. /\ state = "start" /\ rest # <<>> /\ tok.k = "rparen" /\ tok \in Token
        /\ Shape(cx) /\ Last(cx)
    BY <1>1, Open
  <1>3. PICK c, t : c = Flushed(cx) /\ t = c.target
    OBVIOUS
  <1>4. PICK a, b, d : a = stack_cat(c, t, 1) /\ b = attach_dangling_alt(a) /\ d = stack_reset(b, 1)
    OBVIOUS
  <1>5. Shape(c) /\ Groups(c) > 1 /\ t \in 0..Groups(c) /\ t # 1
    BY <1>2, <1>3, FlushedShape DEF CloseGroup, Shape
  <1>6. /\ Shape(a) /\ SameFields(c, a) /\ Code(a, t) = Code(c, t) \o Code(c, 1)
    <2>1. Fits(Code(c, 1)) /\ a = AddHead(c, t, Code(c, 1))
      BY <1>4, <1>5 DEF stack_cat, Shape, Plain
    <2>2. QED
      BY <1>5, <2>1, AddShape
  <1>7. Shape(b) /\ SameFields(a, b)
    BY <1>4, <1>6, AttachShape
  <1>8. /\ Shape(d) /\ SameFields(b, d)
        /\ \A j \in 0..Groups(b) : j # 1 => Stack(d, j) = Stack(b, j)
    <2>1. 1 \in 1..Groups(b) /\ Whole(b, 1)
      BY <1>7 DEF Shape, Context, Groups, Whole
    <2>2. QED
      BY <1>4, <1>7, <2>1, ResetShape
  <1>9. Groups(d) = Groups(c) /\ Groups(b) = Groups(c) /\ d.target = t /\ a.target = t
    BY <1>3, <1>6, <1>7, <1>8 DEF SameFields
  <1>10. PICK g \in Nat : g = Groups(c) /\ g > 1
    BY <1>5 DEF Shape, Context, Groups
  <1>11. PICK op, u, p, w, k :
           /\ op = [stack |-> g, at |-> 1] /\ u = (IF g = 2 THEN 0 ELSE g - 1)
           /\ p = unsigned(d.depth - 1) /\ w = d.at + tok.w /\ k = tok.k
    OBVIOUS
  <1>12. PICK e : e = [d EXCEPT !.operand = op, !.buf = g, !.target = u, !.depth = p,
                                !.lasttok = k, !.at = w]
    OBVIOUS
  <1>13. /\ cx' = [[d EXCEPT !.operand = [stack |-> g, at |-> 1], !.buf = g,
                             !.target = IF g = 2 THEN 0 ELSE g - 1,
                             !.depth = unsigned(@ - 1)]
                     EXCEPT !.lasttok = tok.k, !.at = @ + tok.w]
         /\ rest' = Tail(rest) /\ UNCHANGED callVars /\ state' = "start"
    BY <1>2, <1>3, <1>4, <1>9, <1>10 DEF CloseGroup, Took
  <1>14. d \in Context
    BY <1>8 DEF Shape
  <1>15. cx' = e
    BY <1>11, <1>12, <1>13, <1>14 DEF Context
  <1>16. /\ e.prog = d.prog /\ e.parens = d.parens /\ e.target = u /\ e.buf = g
         /\ e.lasttok = "rparen"
    BY <1>2, <1>11, <1>12, <1>14 DEF Context
  <1>17. Groups(e) = g /\ \A i : Code(e, i) = Code(d, i)
    BY <1>9, <1>10, <1>16 DEF Groups, Code, Stack
  <1>18. PICK n \in Nat : n = Done /\ n < Len(source) /\ tok = source[n + 1]
    BY <1>2, <1>13, ReadOn DEF Balanced
  <1>19. Unclosed(Done + 1) = Unclosed(Done) - 1
    BY <1>2, <1>18, UnclosedStep, SourceRead
  <1>20. ~HasEmptyGroup => Settled(cx', Unclosed(Done + 1), Done + 1, state' = "charc")
    <2>1. SUFFICES ASSUME ~HasEmptyGroup
                   PROVE  JustClosed(e, Unclosed(Done + 1))
      BY <1>15, <1>16 DEF Settled
    <2>2. Level(c, Unclosed(Done)) /\ Filled(c, Unclosed(Done), Done, FALSE)
      BY <1>2, <1>3, <2>1, FlushedLevel
    <2>3. PICK o \in Nat : o = Unclosed(Done)
      BY <1>2, <2>1, SettledNow
    <2>4. g = o + 1 /\ o # 0 /\ t = g
      BY <1>3, <1>10, <2>2, <2>3 DEF Level
    <2>5. ~Bare(Done)
      BY <1>2, <1>18, <2>1, NoBareClose, SourceRead
    <2>6. Code(c, t) # <<>> \/ Code(c, 1) # <<>>
      BY <1>3, <2>2, <2>3, <2>4, <2>5 DEF Filled
    <2>7. Code(c, t) \in Seq(Inst) /\ Code(c, 1) \in Seq(Inst)
      <3>1. StackFits(Stack(c, t)) /\ Plain(Code(c, 1))
        BY <1>5 DEF Shape
      <3>2. QED
        BY <3>1 DEF StackFits, StackType, Code, Plain, Fits
    <2>8. Code(a, t) # <<>>
      BY <1>6, <2>6, <2>7
    <2>9. Code(b, t) # <<>>
      BY <1>4, <1>6, <1>9, <2>8, AttachHolds
    <2>10. Code(e, g) # <<>>
      BY <1>5, <1>8, <1>9, <1>17, <2>4, <2>9 DEF Code
    <2>11. PICK v \in Nat : v = o - 1 /\ g = v + 2 /\ u = (IF v = 0 THEN 0 ELSE v + 1)
      BY <1>11, <2>4
    <2>12. Unclosed(Done + 1) = v
      BY <1>19, <2>3, <2>11
    <2>13. QED
      BY <1>16, <1>17, <2>10, <2>11, <2>12 DEF JustClosed
  <1>21. QED
    BY <1>2, <1>13, <1>20, BalancedOn

(* the end of the expression: groups are counted once what was just closed *)
(* has joined the code around it                                           *)
LEMMA EndedLevel ==
  ASSUME Inv, Balanced, state = "start", ~HasEmptyGroup
  PROVE  Groups(Ended) = Unclosed(Done) + 1 /\ Unclosed(Done) \in Nat
  <1>1. PICK o \in Nat :
          /\ o = Unclosed(Done) /\ Settled(cx, o, Done, state = "charc")
          /\ Groups(cx) = (IF cx.lasttok = "rparen" THEN o + 2 ELSE o + 1)
    BY SettledNow
  <1>2. Shape(cx) /\ Last(cx)
    BY DEF Inv
  <1>3. CASE cx.lasttok = "rparen"
    <2>1. JustClosed(cx, o) /\ Groups(cx) = o + 2 /\ cx.buf = Groups(cx)
      BY <1>1, <1>2, <1>3 DEF Settled, Last
    <2>2. PICK d : d = stack_cat(cx, 0, cx.buf)
      OBVIOUS
    <2>3. Shape(d) /\ SameFields(cx, d)
      <3>1. Fits(Code(cx, cx.buf)) /\ 0 \in 0..Groups(cx)
        BY <1>1, <1>2, <2>1, BufferFits
      <3>2. QED
        BY <1>2, <2>2, <3>1, AddShape DEF stack_cat
    <2>4. d.buf = Groups(d) /\ Groups(d) = o + 2 /\ d.target < Groups(d)
      BY <1>1, <2>1, <2>3 DEF SameFields, JustClosed
    <2>5. Groups(PopGroup(d)) = Groups(d) - 1
      <3>1. Groups(d) >= 2
        BY <2>4
      <3>2. QED
        BY <2>3, <2>4, <3>1, PopShape
    <2>6. Ended = PopGroup(d)
      BY <1>3, <2>1, <2>2 DEF Ended, Buffered, JustClosed
    <2>7. QED
      BY <1>1, <2>4, <2>5, <2>6
  <1>4. CASE cx.lasttok # "rparen"
    BY <1>1, <1>4 DEF Ended
  <1>5. QED
    BY <1>3, <1>4

(* a step that reads nothing *)
LEMMA NothingRead ==
  ASSUME Balanced, UNCHANGED <<source, rest>>, state' # "backlog"
  PROVE  /\ Placed' /\ Unclosed(Done)' = Unclosed(Done)
         /\ (HasEmptyGroup' <=> HasEmptyGroup)
         /\ CountOf(Read, "lparen")' - CountOf(Read, "rparen")' = Unclosed(Done)
         /\ tok' = tok
  <1>1. Done' = Done
    BY DEF Done
  <1>2. Placed'
    BY <1>1 DEF Balanced, Placed
  <1>3. CountOf(Read, "lparen")' - CountOf(Read, "rparen")' = Unclosed(Done)
    BY DEF Unclosed, Read, Done
  <1>4. QED
    BY <1>1, <1>2, <1>3 DEF Unclosed, HasEmptyGroup, tok

LEMMA FailBalances ==
  ASSUME Inv, Balanced, NEW err, Fail(err), err # "ok",
         ~HasEmptyGroup =>
           /\ err = "EPAREN" => Unclosed(Done) > 0
           /\ err = "BADPAREN" => Unclosed(Done) = 0 /\ tok.k = "rparen"
  PROVE  Balanced'
  <1>1. UNCHANGED <<source, rest>> /\ state' = "returned" /\ outcome' = err
    BY DEF Fail, callVars
  <1>2. /\ Placed' /\ (HasEmptyGroup' <=> HasEmptyGroup)
        /\ CountOf(Read, "lparen")' - CountOf(Read, "rparen")' = Unclosed(Done)
        /\ tok' = tok
    BY <1>1, NothingRead
  <1>3. ParenVerdict'
    BY <1>1, <1>2 DEF ParenVerdict
  <1>4. QED
    BY <1>1, <1>2, <1>3 DEF Balanced

LEMMA FailuresBalance ==
  ASSUME Inv, Balanced,
         \/ StrayClassClose \/ StrayGroupClose \/ BadOperator
         \/ UndefinedOperator \/ LexicalError \/ OpenAtEnd
  PROVE  Balanced'
  <1>1. CASE StrayClassClose
    BY <1>1, FailBalances DEF StrayClassClose
  <1>2. CASE BadOperator
    BY <1>2, FailBalances DEF BadOperator
  <1>3. CASE UndefinedOperator
    BY <1>3, FailBalances DEF UndefinedOperator
  <1>4. CASE LexicalError
    <2>1. tok.k \notin {"ok", "EPAREN", "BADPAREN"} /\ Fail(tok.k)
      BY <1>4 DEF LexicalError, LexErrors
    <2>2. QED
      BY <2>1, FailBalances
  <1>5. CASE StrayGroupClose
    <2>1. Reads("start", {"rparen"}) /\ Fail("BADPAREN") /\ Groups(Flushed(cx)) = 1
      BY <1>5 DEF StrayGroupClose
    <2>2. state = "start" /\ tok.k = "rparen"
      BY <2>1 DEF Reads
    <2>3. ~HasEmptyGroup => Unclosed(Done) = 0
      <3>1. SUFFICES ASSUME ~HasEmptyGroup
                     PROVE  Unclosed(Done) = 0
        OBVIOUS
      <3>2. PICK o \in Nat : o = Unclosed(Done)
        BY <2>2, <3>1, SettledNow
      <3>3. o + 1 = 1
        BY <2>1, <2>2, <3>1, <3>2, FlushedLevel DEF Level
      <3>4. QED
        BY <3>2, <3>3
    <2>4. QED
      BY <2>1, <2>2, <2>3, FailBalances
  <1>6. CASE OpenAtEnd
    <2>1. CASE state = "charc"
      BY <1>6, <2>1, FailBalances DEF OpenAtEnd
    <2>2. CASE state # "charc"
      <3>1. state = "start" /\ Fail("EPAREN") /\ Groups(Ended) # 1
        BY <1>6, <2>2 DEF OpenAtEnd
      <3>2. ~HasEmptyGroup => Unclosed(Done) > 0
        <4>1. SUFFICES ASSUME ~HasEmptyGroup
                       PROVE  Unclosed(Done) > 0
          OBVIOUS
        <4>2. PICK o \in Nat : o = Unclosed(Done) /\ Groups(Ended) = o + 1
          BY <3>1, <4>1, EndedLevel
        <4>3. QED
          BY <3>1, <4>2
      <3>3. QED
        BY <3>1, <3>2, FailBalances
    <2>3. QED
      BY <2>1, <2>2
  <1>7. QED
    BY <1>1, <1>2, <1>3, <1>4, <1>5, <1>6

LEMMA EndBalances ==
  ASSUME Inv, Balanced, End
  PROVE  Balanced'
  <1>1. /\ state = "start" /\ state' = "stage2" /\ UNCHANGED <<source, rest>>
        /\ Groups(Ended) = 1
    BY DEF End, callVars
  <1>2. /\ Placed' /\ Unclosed(Done)' = Unclosed(Done)
        /\ (HasEmptyGroup' <=> HasEmptyGroup)
    BY <1>1, NothingRead
  <1>3. ~HasEmptyGroup => Unclosed(Done) = 0
    BY <1>1, EndedLevel
  <1>4. ParenVerdict'
    BY <1>1 DEF ParenVerdict
  <1>5. QED
    BY <1>1, <1>2, <1>3, <1>4 DEF Balanced

LEMMA Stage2Balances ==
  ASSUME Inv, Balanced, Stage2
  PROVE  Balanced'
  <1>1. /\ state = "stage2" /\ state' = "returned" /\ outcome' = "ok"
        /\ UNCHANGED <<source, rest>>
    BY DEF Stage2, callVars
  <1>2. /\ Placed' /\ (HasEmptyGroup' <=> HasEmptyGroup)
        /\ CountOf(Read, "lparen")' - CountOf(Read, "rparen")' = Unclosed(Done)
    BY <1>1, NothingRead
  <1>3. ParenVerdict'
    BY <1>1, <1>2 DEF ParenVerdict, Balanced
  <1>4. QED
    BY <1>1, <1>2, <1>3 DEF Balanced

LEMMA SimpleExpressionBalances ==
  ASSUME Inv, Balanced, SimpleExpression
  PROVE  Balanced'
  <1>1. /\ state' = "returned" /\ outcome' = "simple" /\ UNCHANGED <<source, rest>>
    BY DEF SimpleExpression, callVars
  <1>2. Placed'
    BY <1>1, NothingRead
  <1>3. ParenVerdict'
    BY <1>1 DEF ParenVerdict
  <1>4. QED
    BY <1>1, <1>2, <1>3 DEF Balanced

(* where an expression begins *)
LEMMA NewLevel ==
  /\ Level(context_init, 0) /\ context_init.lasttok = "none"
  /\ context_init.strb = {}
  <1>1. PICK s, q : s = create_stack /\ q = <<s>>
    OBVIOUS
  <1>2. PICK c : c = context_init
    OBVIOUS
  <1>3. /\ c.parens = q /\ c.target = 0 /\ c.buf = 1 /\ c.lasttok = "none" /\ c.strb = {}
    BY <1>1, <1>2 DEF context_init
  <1>4. Len(q) = 1
    BY <1>1
  <1>5. QED
    BY <1>2, <1>3, <1>4 DEF Level, Groups

Begun ==
  /\ source \in Seq(LexToken) /\ rest = source
  /\ state = "backlog" /\ cx = context_init

LEMMA NewBalanced == Begun => Balanced
  <1> SUFFICES ASSUME Begun PROVE Balanced
    OBVIOUS
  <1> USE DEF Begun
  <1>1. PICK s \in Seq(LexToken), n \in Nat : s = source /\ n = Len(s)
    OBVIOUS
  <1>2. Done = 0 /\ n - n = 0
    BY <1>1 DEF Done
  <1>3. SubSeq(s, 1, n) = s
    BY <1>1, SubSeqFull
  <1>4. Placed
    BY <1>1, <1>2, <1>3 DEF Placed
  <1>5. Unclosed(0) = 0
    <2>1. 1..0 = {} /\ 0 \in Nat /\ 0 <= n
      BY <1>1
    <2>2. QED
      BY <1>1, <2>1, NoneOpened
  <1>6. Settled(cx, Unclosed(Done), Done, state = "charc")
    BY <1>2, <1>5, NewLevel DEF Settled, Filled
  <1>7. ParenVerdict
    BY DEF ParenVerdict
  <1>8. QED
    BY <1>4, <1>6, <1>7 DEF Balanced

LEMMA BacklogBalances ==
  ASSUME Inv, Balanced, Backlog
  PROVE  Balanced'
  <1>1. source \in Seq(LexToken) /\ source' = source
    BY SourceRead DEF Backlog, callVars
  <1>2. state = "backlog" /\ cx = context_init
    BY DEF Backlog, Lead, Inv
  <1>3. PICK n \in 0..(Len(source) - 1) :
          /\ Lead(n)
          /\ rest' = SubSeq(source, n + 1, Len(source))
          /\ cx' = [AddHead(cx, 1, [i \in 1..n |-> IChar(source[i].c)]) EXCEPT
                      !.operand = [stack |-> 1, at |-> n], !.at = Offset(source, n)]
          /\ state' = "start"
    BY DEF Backlog
  <1>4. PICK s \in Seq(LexToken), m \in Nat : s = source /\ m = Len(s) /\ n \in 0..(m - 1)
    BY <1>1
  <1>5. n \in Nat /\ n <= m /\ n < m /\ n + 1 \in 1..m
    BY <1>4
  <1>6. Len(rest') = m - n
    BY <1>3, <1>4, <1>5
  <1>7. Done' = n
    BY <1>1, <1>4, <1>5, <1>6 DEF Done
  <1>8. Placed'
    BY <1>1, <1>3, <1>4, <1>5, <1>7 DEF Placed
  <1>9. Unclosed(n) = 0
    BY <1>1, <1>3, <1>4, <1>5, NoneOpened DEF Lead
  <1>10. Unclosed(Done)' = 0
    BY <1>1, <1>7, <1>9 DEF Unclosed
  <1>11. PICK lits : lits = [i \in 1..n |-> IChar(source[i].c)]
    OBVIOUS
  <1>12. PICK st : st = [Stack(cx, 1) EXCEPT !.code = @ \o lits]
    OBVIOUS
  <1>13. PICK c : c = AddHead(cx, 1, lits)
    OBVIOUS
  <1>14. c = [cx EXCEPT !.parens[1] = st]
    BY <1>12, <1>13 DEF AddHead, Put
  <1>15. PICK op, at : op = [stack |-> 1, at |-> n] /\ at = Offset(source, n)
    OBVIOUS
  <1>16. PICK d : d = [c EXCEPT !.operand = op, !.at = at]
    OBVIOUS
  <1>17. cx' = d
    BY <1>3, <1>11, <1>13, <1>15, <1>16
  <1>18. cx \in Context
    BY <1>2, NewContext DEF Shape
  <1>19. /\ d.parens = [cx.parens EXCEPT ![1] = st] /\ d.buf = cx.buf
         /\ d.target = cx.target /\ d.lasttok = cx.lasttok
    BY <1>14, <1>16, <1>18 DEF Context
  <1>20. Groups(d) = Groups(cx)
    BY <1>18, <1>19 DEF Groups, Context
  <1>21. Level(d, 0) /\ d.lasttok = "none"
    BY <1>2, <1>19, <1>20, NewLevel DEF Level
  <1>22. Settled(cx, Unclosed(Done), Done, state = "charc")'
    BY <1>10, <1>17, <1>21 DEF Settled, Filled
  <1>23. ParenVerdict'
    BY <1>3 DEF ParenVerdict
  <1>24. QED
    BY <1>3, <1>8, <1>22, <1>23 DEF Balanced

LEMMA NextCallBalances ==
  ASSUME Inv, NextCall
  PROVE  Balanced'
  <1>1. Inv'
    BY NextCallKeeps
  <1>2. source' \in Seq(LexToken)
    BY <1>1, ExpressionsAssumption DEF Inv, TypeOK, MaxCalls
  <1>3. Begun'
    BY <1>2 DEF NextCall, Begun
  <1>4. QED
    BY <1>3, NewBalanced, PTL

LEMMA StutterBalances ==
  ASSUME Balanced, UNCHANGED vars
  PROVE  Balanced'
  <1>1. UNCHANGED <<source, rest, cx, state, outcome>>
    BY DEF vars
  <1>2. Placed'
    BY <1>1 DEF Balanced, Placed, Done
  <1>3. HasEmptyGroup' <=> HasEmptyGroup
    BY <1>1 DEF HasEmptyGroup
  <1>4. ParenVerdict'
    BY <1>1, <1>3 DEF Balanced, ParenVerdict, Read, tok
  <1>5. Unclosed(Done)' = Unclosed(Done) /\ Done' = Done
    BY <1>1 DEF Unclosed, Done
  <1>6. Settled(cx, Unclosed(Done), Done, state = "charc")'
          <=> Settled(cx, Unclosed(Done), Done, state = "charc")
    BY <1>1, <1>5 DEF Settled, Filled, Bare, Silent
  <1>7. QED
    BY <1>1, <1>2, <1>3, <1>4, <1>5, <1>6 DEF Balanced

(* While an expression is read there is a stack for every group that is    *)
(* open, and the innermost holds code unless the group is still bare.      *)
THEOREM CompilerBalance == Spec => []Balanced
  <1>1. Init => Balanced
    <2>1. SUFFICES ASSUME Init PROVE Balanced
      OBVIOUS
    <2>2. Inv
      BY <2>1, InitEstablishes
    <2>3. QED
      BY <2>1, <2>2, SourceRead, NewBalanced DEF Init, InitCall, Begun
  <1>2. ASSUME Inv, Balanced, [Next]_vars
        PROVE  Balanced'
    <2>1. CASE SimpleExpression \/ Backlog
      BY <1>2, <2>1, SimpleExpressionBalances, BacklogBalances
    <2>2. CASE AnyChar \/ StartAnchor \/ EndAnchor
      BY <1>2, <2>2, PlainInsts, SingleBalances DEF AnyChar, StartAnchor, EndAnchor
    <2>3. CASE Literal
      BY <1>2, <2>3, LiteralBalances
    <2>4. CASE OpenGroup \/ CloseGroup
      BY <1>2, <2>4, OpenGroupBalances, CloseGroupBalances
    <2>5. CASE Operator \/ Alternation
      BY <1>2, <2>5, OperatorBalances, AlternationBalances
    <2>6. CASE OpenClass \/ ClassLiteral \/ ClassRange \/ CloseClass
      BY <1>2, <2>6, OpenClassBalances, ClassLiteralBalances, ClassRangeBalances,
         CloseClassBalances
    <2>7. CASE \/ StrayClassClose \/ StrayGroupClose \/ BadOperator
               \/ UndefinedOperator \/ LexicalError \/ OpenAtEnd
      BY <1>2, <2>7, FailuresBalance
    <2>8. CASE End \/ Stage2
      BY <1>2, <2>8, EndBalances, Stage2Balances
    <2>9. CASE NextCall
      BY <1>2, <2>9, NextCallBalances
    <2>10. CASE Idle \/ UNCHANGED vars
      BY <1>2, <2>10, StutterBalances DEF Idle
    <2>11. QED
      BY <1>2, <2>1, <2>2, <2>3, <2>4, <2>5, <2>6, <2>7, <2>8, <2>9, <2>10 DEF Next
  <1>3. QED
    BY <1>1, <1>2, CompilerInvariance, PTL DEF Spec

(* Whatever the tokens, an expression whose groups all hold something      *)
(* compiles only if its parentheses balance, and the error for an open or  *)
(* a stray one is given only where there is one.                           *)
THEOREM ParenthesesJudged == Spec => []ParenVerdict
  <1>1. Balanced => ParenVerdict
    BY DEF Balanced
  <1>2. QED
    BY <1>1, CompilerBalance, PTL

-----------------------------------------------------------------------------
(* The longest run of fixed literals.  Between two tokens lfix holds the   *)
(* longest run that was closed and the one that is open: literals i to j   *)
(* of the n tokens read.  A newline stops the count of an open run without *)
(* closing it, and behind the literals an expression begins with the run   *)
(* is open whatever lfixs says.                                            *)
IsRun(n, i, j, first, last) ==
  /\ i \in 1..n /\ j \in i..n
  /\ first \in {Offset(source, i - 1), Offset(source, i - 1) + source[i].at}
  /\ last = first + (j - i)
  /\ \A m \in i..j : source[m].k = "literal" /\ ~InClass(source, m) /\ Unclosed(m) = 0
Fixed(n, first, last) ==
  first # last =>
    \E i, j \in 1..n :
      /\ IsRun(n, i, j, first, last)
      /\ j < Len(source) => ~MayVanish(source[j + 1])

LiteralAt(m) == m <= Len(source) /\ source[m].k = "literal"
NoRun(l) == l.ltemp0 = 0 /\ l.ltempn = 0
OpenRun(l, n, counting) ==
  /\ Unclosed(n) = 0
  /\ \E i, j \in 1..n :
       /\ IsRun(n, i, j, l.ltemp0, l.ltempn)
       /\ counting => j = n
       /\ \A m \in j..n : source[m].k = "literal"
Counted(l, n, inClass, counting) ==
  \/ NoRun(l) /\ l.lfixs = 0
  \/ ~inClass /\ ~LiteralAt(n + 1) /\ (NoRun(l) \/ OpenRun(l, n, counting))
  \/ ~inClass /\ l.lfixs = 1 /\ OpenRun(l, n, counting)

NoOuterAlt(n) == \A m \in 1..n : source[m].k = "alt" => Unclosed(m) # 0
Between(c, n, inClass, altSeen) ==
  /\ c.at = Offset(source, n) /\ c.depth = unsigned(Unclosed(n))
  /\ inClass <=> InClass(source, n + 1)
  /\ altSeen \/ NoOuterAlt(n)
Runs ==
  /\ state \in {"start", "charc"} /\ Countable =>
       /\ Between(cx, Done, state = "charc", alt_seen)
       /\ Fixed(Done, lfix.lfix0, lfix.lfixn)
       /\ Counted(lfix, Done, state = "charc", ~newline_seen)
  /\ state = "stage2" /\ Countable /\ span[1] # span[2] =>
       Fixed(Len(source), span[1], span[2]) /\ NoOuterAlt(Len(source))
  /\ FixedIsLiteral
(* every token takes up text *)
LEMMA OffsetsGrow ==
  ASSUME source \in Seq(LexToken), NEW i \in 0..Len(source), NEW j \in i..Len(source)
  PROVE  /\ Offset(source, i) \in Nat /\ Offset(source, j) \in Nat
         /\ Offset(source, j) >= Offset(source, i) + (j - i)
  <1>1. PICK L \in Nat : L = Len(source)
    OBVIOUS
  <1>2. \A n \in 1..L : source[n].w \in Nat /\ source[n].w >= 1
    <2>1. \A n \in 1..L : source[n] \in LexToken
      BY <1>1
    <2>2. \A tk \in LexToken : tk.w \in Nat /\ tk.at \in Nat /\ tk.at < tk.w
      BY DEF LexToken, Token
    <2>3. QED
      BY <2>1, <2>2
  <1>3. PICK a \in Nat : a = Offset(source, i)
    BY <1>1, OffsetsAdd
  <1> DEFINE T == {n \in i..L : Offset(source, n) >= a + (n - i)}
  <1>4. i \in T
    BY <1>1, <1>3
  <1>5. ASSUME NEW n \in i..(L - 1), n \in T
        PROVE  n + 1 \in T
    <2>1. n + 1 \in 1..L /\ n \in 0..L /\ (n + 1) - 1 = n /\ n + 1 \in i..L
      BY <1>1
    <2>2. PICK o \in Nat : o = Offset(source, n)
      BY <1>1, <2>1, OffsetsAdd
    <2>3. PICK w \in Nat : w = source[n + 1].w /\ w >= 1
      BY <1>2, <2>1
    <2>4. Offset(source, n + 1) = o + w
      BY <1>1, <2>1, <2>2, <2>3, OffsetsAdd
    <2>5. o >= a + (n - i)
      BY <1>5, <2>2
    <2>6. QED
      BY <1>1, <2>1, <2>3, <2>4, <2>5
  <1> HIDE DEF T
  <1>6. i..L \subseteq T
    <2>1. i \in Int /\ L \in Int
      BY <1>1
    <2>2. QED
      BY <1>4, <1>5, <2>1, IntervalInduction
  <1>7. j \in T
    BY <1>1, <1>6
  <1>8. Offset(source, j) \in Nat
    BY <1>1, OffsetsAdd
  <1>9. QED
    BY <1>3, <1>7, <1>8 DEF T

LEMMA UnclosedBounds ==
  ASSUME source \in Seq(LexToken), NEW n \in 0..Len(source)
  PROVE  Unclosed(n) \in (-n)..n
  <1>1. PICK L \in Nat : L = Len(source)
    OBVIOUS
  <1> DEFINE T == {i \in 0..L : Unclosed(i) \in (-i)..i}
  <1>2. 0 \in T
    <2>1. Unclosed(0) = 0
      BY <1>1, NoneOpened
    <2>2. QED
      BY <1>1, <2>1
  <1>3. ASSUME NEW i \in 0..(L - 1), i \in T
        PROVE  i + 1 \in T
    <2>1. i \in Nat /\ i < Len(source) /\ i + 1 \in 0..L
      BY <1>1
    <2>2. PICK u \in Int : u = Unclosed(i) /\ u \in (-i)..i
      BY <1>3, <2>1
    <2>3. Unclosed(i + 1) \in {u - 1, u, u + 1}
      BY <2>1, <2>2, UnclosedStep
    <2>4. QED
      BY <2>1, <2>2, <2>3
  <1> HIDE DEF T
  <1>4. 0..L \subseteq T
    <2>1. 0 \in Int /\ L \in Int
      OBVIOUS
    <2>2. QED
      BY <1>2, <1>3, <2>1, IntervalInduction
  <1>5. QED
    BY <1>1, <1>4 DEF T

LEMMA Unsigned ==
  /\ unsigned(0) = 0
  /\ \A x \in 0..(UIntSize - 1) : unsigned(x) = x
  /\ \A x \in Int : /\ unsigned(unsigned(x) + 1) = unsigned(x + 1)
                    /\ unsigned(unsigned(x) - 1) = unsigned(x - 1)
                    /\ -UIntSize < x /\ x < UIntSize /\ unsigned(x) = 0 => x = 0
  BY DEF unsigned, UIntSize

LEMMA InClassStep ==
  ASSUME source \in Seq(LexToken), NEW n \in Nat, n < Len(source)
  PROVE  InClass(source, n + 2) <=>
           \/ source[n + 1].k = "charc_open"
           \/ InClass(source, n + 1) /\ source[n + 1].k # "charc_close"
  <1>1. /\ (n + 2) - 1 = n + 1 /\ (n + 1) - 1 = n
        /\ \A j \in 1..(n + 1) : j = n + 1 \/ j \in 1..n
        /\ \A j \in 1..n : j \in 1..(n + 1) /\ n + 1 \in (j + 1)..(n + 1)
        /\ \A j \in 1..n : \A m \in (j + 1)..(n + 1) : m = n + 1 \/ m \in (j + 1)..n
        /\ \A j \in 1..n : \A m \in (j + 1)..n : m \in (j + 1)..(n + 1)
        /\ n + 1 \in 1..(n + 1) /\ ((n + 1) + 1)..(n + 1) = {}
    OBVIOUS
  <1>2. PICK p, q, r : p = n + 2 /\ q = n + 1 /\ r = n
    OBVIOUS
  <1>3. InClass(source, n + 2) <=>
          \E j \in 1..(n + 1) : /\ source[j].k = "charc_open"
                                /\ \A m \in (j + 1)..(n + 1) : source[m].k # "charc_close"
    BY <1>1 DEF InClass
  <1>4. InClass(source, n + 1) <=>
          \E j \in 1..n : /\ source[j].k = "charc_open"
                          /\ \A m \in (j + 1)..n : source[m].k # "charc_close"
    BY <1>1 DEF InClass
  <1>5. ASSUME source[n + 1].k = "charc_open"
        PROVE  InClass(source, n + 2)
    BY <1>1, <1>3, <1>5
  <1>6. ASSUME InClass(source, n + 1), source[n + 1].k # "charc_close"
        PROVE  InClass(source, n + 2)
    <2>1. PICK j \in 1..n : /\ source[j].k = "charc_open"
                            /\ \A m \in (j + 1)..n : source[m].k # "charc_close"
      BY <1>4, <1>6
    <2>2. \A m \in (j + 1)..(n + 1) : source[m].k # "charc_close"
      BY <1>1, <1>6, <2>1
    <2>3. QED
      BY <1>1, <1>3, <2>1, <2>2
  <1>7. ASSUME InClass(source, n + 2), source[n + 1].k # "charc_open"
        PROVE  InClass(source, n + 1) /\ source[n + 1].k # "charc_close"
    <2>1. PICK j \in 1..(n + 1) : /\ source[j].k = "charc_open"
                                  /\ \A m \in (j + 1)..(n + 1) : source[m].k # "charc_close"
      BY <1>3, <1>7
    <2>2. j \in 1..n
      BY <1>1, <1>7, <2>1
    <2>3. QED
      BY <1>1, <1>4, <2>1, <2>2
  <1>8. QED
    BY <1>5, <1>6, <1>7

(* lfix.c, field by field *)
LEMMA LfixFields ==
  ASSUME NEW l \in LfixType
  PROVE  /\ l.ltemp0 \in Nat /\ l.ltempn \in Nat /\ l.lfixs \in {0, 1}
  <1>1. PICK N \in Nat : N = UIntSize - 1
    BY DEF UIntSize
  <1>2. l.ltemp0 \in 0..N /\ l.ltempn \in 0..N /\ l.lfixs \in {0, 1}
    BY <1>1 DEF LfixType
  <1>3. QED
    BY <1>2

LEMMA StopFields ==
  ASSUME NEW l \in LfixType, NEW m, m = lfix_stop(l)
  PROVE  /\ m.lfixs = 0 /\ NoRun(m) /\ m \in LfixType
         /\ \/ m.lfix0 = l.lfix0 /\ m.lfixn = l.lfixn
            \/ m.lfix0 = l.ltemp0 /\ m.lfixn = l.ltempn
  <1>1. PICK u : u = lfix_update_longest(l)
    OBVIOUS
  <1>2. /\ u \in LfixType
        /\ \/ u.lfix0 = l.lfix0 /\ u.lfixn = l.lfixn
           \/ u.lfix0 = l.ltemp0 /\ u.lfixn = l.ltempn
    <2>1. PICK v : v = [l EXCEPT !.lfix0 = l.ltemp0, !.lfixn = l.ltempn]
      OBVIOUS
    <2>2. v \in LfixType /\ v.lfix0 = l.ltemp0 /\ v.lfixn = l.ltempn
      BY <2>1 DEF LfixType
    <2>3. u = v \/ u = l
      BY <1>1, <2>1 DEF lfix_update_longest
    <2>4. QED
      BY <2>2, <2>3
  <1>3. m = [u EXCEPT !.lfixs = 0, !.ltemp0 = 0, !.ltempn = 0]
    BY <1>1 DEF lfix_stop
  <1>4. m.lfixs = 0 /\ m.ltemp0 = 0 /\ m.ltempn = 0 /\ m.lfix0 = u.lfix0 /\ m.lfixn = u.lfixn
    BY <1>2, <1>3 DEF LfixType
  <1>5. QED
    BY <1>2, <1>4, LfixKept DEF NoRun

LEMMA FixedLater ==
  ASSUME NEW n \in Nat, NEW first, NEW last, Fixed(n, first, last)
  PROVE  Fixed(n + 1, first, last)
  <1>1. \A i \in 1..n : i \in 1..(n + 1)
    OBVIOUS
  <1>2. \A i, j \in 1..n : \A m \in j..n : m \in j..(n + 1)
    OBVIOUS
  <1>3. ASSUME first # last
        PROVE  \E i, j \in 1..(n + 1) :
                 /\ IsRun(n + 1, i, j, first, last)
                 /\ j < Len(source) => ~MayVanish(source[j + 1])
    <2>1. PICK i \in 1..n : \E j \in 1..n :
            /\ IsRun(n, i, j, first, last)
            /\ j < Len(source) => ~MayVanish(source[j + 1])
      BY <1>3 DEF Fixed
    <2>2. PICK j \in 1..n :
            /\ IsRun(n, i, j, first, last)
            /\ j < Len(source) => ~MayVanish(source[j + 1])
      BY <2>1
    <2>3. i \in 1..(n + 1) /\ j \in 1..(n + 1) /\ j \in i..(n + 1)
      BY <2>2 DEF IsRun
    <2>4. IsRun(n + 1, i, j, first, last)
      BY <2>2, <2>3 DEF IsRun
    <2>5. QED
      BY <2>2, <2>3, <2>4
  <1>4. QED
    BY <1>3 DEF Fixed

LEMMA StopStores ==
  ASSUME NEW n \in Nat, NEW l \in LfixType, NEW m, m = lfix_stop(l),
         Fixed(n, l.lfix0, l.lfixn), Fixed(n, l.ltemp0, l.ltempn)
  PROVE  Fixed(n, m.lfix0, m.lfixn) /\ m.lfixs = 0 /\ NoRun(m)
  BY StopFields

(* an open run may be closed, unless the next token makes its last literal *)
(* optional                                                                *)
LEMMA OpenFixed ==
  ASSUME NEW n \in Nat, NEW l, NEW counting, NoRun(l) \/ OpenRun(l, n, counting),
         n < Len(source) => ~MayVanish(source[n + 1])
  PROVE  Fixed(n, l.ltemp0, l.ltempn)
  <1>1. CASE NoRun(l)
    BY <1>1 DEF NoRun, Fixed
  <1>2. CASE OpenRun(l, n, counting)
    <2>1. PICK i \in 1..n : \E j \in 1..n :
            IsRun(n, i, j, l.ltemp0, l.ltempn) /\ \A m \in j..n : source[m].k = "literal"
      BY <1>2 DEF OpenRun
    <2>2. PICK j \in 1..n :
            IsRun(n, i, j, l.ltemp0, l.ltempn) /\ \A m \in j..n : source[m].k = "literal"
      BY <2>1
    <2>3. j = n \/ j + 1 \in j..n
      OBVIOUS
    <2>4. j < Len(source) => ~MayVanish(source[j + 1])
      BY <2>2, <2>3 DEF MayVanish
    <2>5. QED
      BY <2>2, <2>4 DEF Fixed
  <1>3. QED
    BY <1>1, <1>2

(* ... which lfix_dec leaves out *)
LEMMA DecFixed ==
  ASSUME NEW n \in Nat, NEW l \in LfixType, NEW d, d = lfix_dec(l), NEW counting,
         NoRun(l) \/ OpenRun(l, n, counting), source \in Seq(LexToken), n <= Len(source)
  PROVE  /\ Fixed(n, d.ltemp0, d.ltempn) /\ d \in LfixType
         /\ d.lfix0 = l.lfix0 /\ d.lfixn = l.lfixn
  <1>1. /\ d \in LfixType /\ d.lfix0 = l.lfix0 /\ d.lfixn = l.lfixn /\ d.ltemp0 = l.ltemp0
        /\ d.ltempn = (IF l.ltempn > l.ltemp0 THEN l.ltempn - 1 ELSE l.ltempn)
    <2>1. CASE l.ltempn > l.ltemp0
      <3>1. PICK e : e = l.ltempn - 1
        OBVIOUS
      <3>2. d = [l EXCEPT !.ltempn = e]
        BY <2>1, <3>1 DEF lfix_dec
      <3>3. /\ d.lfix0 = l.lfix0 /\ d.lfixn = l.lfixn /\ d.ltemp0 = l.ltemp0
            /\ d.ltempn = e
        BY <3>2 DEF LfixType
      <3>4. QED
        BY <2>1, <3>1, <3>3, LfixKept
    <2>2. CASE ~(l.ltempn > l.ltemp0)
      <3>1. d = l
        BY <2>2 DEF lfix_dec
      <3>2. QED
        BY <2>2, <3>1, LfixKept
    <2>3. QED
      BY <2>1, <2>2
  <1>2. l.ltemp0 \in Nat /\ l.ltempn \in Nat
    BY LfixFields
  <1>3. CASE NoRun(l)
    <2>1. d.ltemp0 = d.ltempn
      BY <1>1, <1>3 DEF NoRun
    <2>2. QED
      BY <1>1, <2>1 DEF Fixed
  <1>4. CASE OpenRun(l, n, counting)
    <2>1. PICK i \in 1..n : \E j \in 1..n : IsRun(n, i, j, l.ltemp0, l.ltempn)
      BY <1>4 DEF OpenRun
    <2>2. PICK j \in 1..n : IsRun(n, i, j, l.ltemp0, l.ltempn)
      BY <2>1
    <2>3. /\ j \in i..n /\ l.ltempn = l.ltemp0 + (j - i)
          /\ l.ltemp0 \in {Offset(source, i - 1), Offset(source, i - 1) + source[i].at}
          /\ \A m \in i..j : /\ source[m].k = "literal" /\ ~InClass(source, m)
                             /\ Unclosed(m) = 0
      BY <2>2 DEF IsRun
    <2>4. CASE j = i
      <3>1. d.ltemp0 = d.ltempn
        BY <1>1, <1>2, <2>3, <2>4
      <3>2. QED
        BY <1>1, <3>1 DEF Fixed
    <2>5. CASE j # i
      <3>1. PICK k \in 1..n : k = j - 1 /\ k \in i..n /\ k + 1 = j
        BY <2>3, <2>5
      <3>2. d.ltempn = d.ltemp0 + (k - i)
        BY <1>1, <1>2, <2>3, <3>1
      <3>3. \A m \in i..k : m \in i..j
        BY <3>1
      <3>4. IsRun(n, i, k, d.ltemp0, d.ltempn)
        BY <1>1, <2>3, <3>1, <3>2, <3>3 DEF IsRun
      <3>5. j \in i..j
        BY <2>3
      <3>6. ~MayVanish(source[k + 1])
        BY <2>3, <3>1, <3>5 DEF MayVanish
      <3>7. QED
        BY <1>1, <3>4, <3>6 DEF Fixed
    <2>6. QED
      BY <2>4, <2>5
  <1>5. QED
    BY <1>3, <1>4

LEMMA LiteralCounted ==
  ASSUME NEW n \in Nat, n < Len(source), source \in Seq(LexToken),
         source[n + 1].k = "literal", Unclosed(n) = 0, ~InClass(source, n + 1),
         Offset(source, Len(source)) < UIntSize,
         NEW l \in LfixType, Counted(l, n, FALSE, TRUE),
         NEW m, m = lfix_continue(l, Offset(source, n) + source[n + 1].at)
  PROVE  /\ Counted(m, n + 1, FALSE, TRUE)
         /\ m.lfix0 = l.lfix0 /\ m.lfixn = l.lfixn
  <1>1. PICK L \in Nat : L = Len(source)
    OBVIOUS
  <1>2. PICK k \in 1..L : k = n + 1
    BY <1>1
  <1>3. source[k] \in LexToken
    BY <1>1, <1>2
  <1>4. PICK at \in Nat : at = source[k].at /\ at < source[k].w /\ source[k].w \in Nat
    BY <1>3 DEF LexToken, Token
  <1>5. PICK o \in Nat : o = Offset(source, n)
    BY <1>1, <1>2, OffsetsGrow
  <1>6. k - 1 = n
    BY <1>2
  <1>7. o + at < Offset(source, k) /\ Offset(source, k) <= Offset(source, L)
        /\ Offset(source, L) \in Nat /\ Offset(source, k) \in Nat
    <2>1. Offset(source, k) = o + source[k].w
      BY <1>1, <1>2, <1>5, <1>6, OffsetsAdd
    <2>2. k \in 0..L /\ L \in k..L
      BY <1>2
    <2>3. /\ Offset(source, k) \in Nat /\ Offset(source, L) \in Nat
          /\ Offset(source, L) >= Offset(source, k) + (L - k)
      BY <1>1, <2>2, OffsetsGrow
    <2>4. PICK x \in Nat, y \in Nat : x = Offset(source, k) /\ y = Offset(source, L)
      BY <2>3
    <2>5. PICK w \in Nat : w = source[k].w
      BY <1>4
    <2>6. o + at < x /\ x <= y
      <3>1. x = o + w /\ at < w
        BY <1>4, <2>1, <2>4, <2>5
      <3>2. y >= x + (L - k) /\ L - k \in Nat
        BY <1>2, <2>3, <2>4
      <3>3. QED
        BY <3>1, <3>2
    <2>7. QED
      BY <2>4, <2>6
  <1>8. Unclosed(k) = 0
    BY <1>1, <1>2, UnclosedStep
  <1>9. l.ltemp0 \in Nat /\ l.ltempn \in Nat /\ l.lfixs \in {0, 1}
    BY LfixFields
  <1>10. CASE NoRun(l) /\ l.lfixs = 0
    <2>1. PICK p \in 0..(UIntSize - 1) : p = o + at
      <3>1. PICK a \in Nat, e \in Nat : a = Offset(source, k) /\ e = Offset(source, L)
        BY <1>7
      <3>2. o + at < a /\ a <= e
        BY <1>7, <3>1
      <3>3. e < UIntSize /\ UIntSize \in Nat
        BY <1>1, <3>1 DEF UIntSize
      <3>4. o + at \in 0..(UIntSize - 1)
        BY <3>1, <3>2, <3>3
      <3>5. QED
        BY <3>4
    <2>2. unsigned(p) = p
      BY <2>1, Unsigned
    <2>3. m = [l EXCEPT !.lfixs = 1, !.ltemp0 = unsigned(p), !.ltempn = unsigned(p)]
      BY <1>2, <1>4, <1>5, <1>10, <2>1 DEF lfix_continue
    <2>4. m = [l EXCEPT !.lfixs = 1, !.ltemp0 = p, !.ltempn = p]
      BY <2>2, <2>3
    <2>5. m.lfixs = 1 /\ m.ltemp0 = p /\ m.ltempn = p /\ m.lfix0 = l.lfix0 /\ m.lfixn = l.lfixn
      BY <2>4 DEF LfixType
    <2>6. IsRun(k, k, k, p, p)
      <3>1. p = p + (k - k) /\ k \in 1..k /\ k \in k..k
        BY <2>1
      <3>2. p \in {Offset(source, k - 1), Offset(source, k - 1) + source[k].at}
        BY <1>4, <1>5, <1>6, <2>1
      <3>3. \A x \in k..k : source[x].k = "literal" /\ ~InClass(source, x) /\ Unclosed(x) = 0
        BY <1>2, <1>8
      <3>4. QED
        BY <3>1, <3>2, <3>3 DEF IsRun
    <2>7. k \in 1..k /\ \A x \in k..k : source[x].k = "literal"
      BY <1>2
    <2>8. OpenRun(m, k, TRUE)
      BY <1>8, <2>5, <2>6, <2>7 DEF OpenRun
    <2>9. QED
      BY <1>2, <2>5, <2>8 DEF Counted
  <1>11. CASE l.lfixs = 1 /\ OpenRun(l, n, TRUE)
    <2>1. PICK i \in 1..n : IsRun(n, i, n, l.ltemp0, l.ltempn)
      BY <1>11 DEF OpenRun
    <2>2. /\ n \in i..n /\ l.ltempn = l.ltemp0 + (n - i)
          /\ l.ltemp0 \in {Offset(source, i - 1), Offset(source, i - 1) + source[i].at}
          /\ \A x \in i..n : /\ source[x].k = "literal" /\ ~InClass(source, x)
                             /\ Unclosed(x) = 0
      BY <2>1 DEF IsRun
    <2>3. i \in 1..k /\ k \in i..k /\ k \in 1..k /\ i \in Int
      BY <1>2
    <2>4. l.ltempn + 1 \in 0..(UIntSize - 1)
      <3>1. l.ltemp0 < Offset(source, i)
        <4>1. source[i] \in LexToken /\ i \in 1..L
          BY <1>1, <1>2, <2>3
        <4>2. PICK a \in Nat : a = source[i].at /\ a < source[i].w /\ source[i].w \in Nat
          BY <4>1 DEF LexToken, Token
        <4>3. Offset(source, i) = Offset(source, i - 1) + source[i].w
          BY <1>1, <4>1, OffsetsAdd
        <4>4. Offset(source, i - 1) \in Nat
          BY <1>1, <4>1, OffsetsAdd
        <4>5. QED
          BY <2>2, <4>2, <4>3, <4>4
      <3>2. /\ Offset(source, i) \in Nat
            /\ Offset(source, k) >= Offset(source, i) + (k - i)
        <4>1. i \in 0..L /\ k \in i..L
          BY <1>2, <2>3
        <4>2. QED
          BY <1>1, <4>1, OffsetsGrow
      <3>3. PICK a \in Nat, b \in Nat :
              a = Offset(source, i) /\ b = Offset(source, k)
        BY <1>7, <3>2
      <3>4. PICK t0 \in Nat : t0 = l.ltemp0
        BY <1>9
      <3>5. b < UIntSize
        <4>1. PICK e \in Nat : e = Offset(source, L) /\ b <= e
          BY <1>7, <3>3
        <4>2. e < UIntSize
          BY <1>1, <4>1
        <4>3. UIntSize \in Nat
          BY DEF UIntSize
        <4>4. QED
          BY <4>1, <4>2, <4>3
      <3>6. t0 < a /\ b >= a + (k - i) /\ l.ltempn = t0 + (n - i)
        BY <2>2, <3>1, <3>2, <3>3, <3>4
      <3>7. UIntSize \in Nat /\ i <= n
        BY <2>2 DEF UIntSize
      <3>8. QED
        BY <1>2, <2>3, <3>5, <3>6, <3>7
    <2>5. m = [l EXCEPT !.ltempn = unsigned(@ + 1)]
      BY <1>11 DEF lfix_continue
    <2>6. unsigned(l.ltempn + 1) = l.ltempn + 1
      BY <2>4, Unsigned
    <2>7. PICK q \in Nat : q = l.ltempn + 1
      BY <1>9
    <2>8. m = [l EXCEPT !.ltempn = q]
      BY <2>5, <2>6, <2>7
    <2>9. /\ m.lfixs = 1 /\ m.ltemp0 = l.ltemp0 /\ m.ltempn = q
          /\ m.lfix0 = l.lfix0 /\ m.lfixn = l.lfixn
      BY <1>11, <2>8 DEF LfixType
    <2>10. q = l.ltemp0 + (k - i)
      BY <1>2, <1>9, <2>2, <2>3, <2>7
    <2>11. \A x \in i..k : x = k \/ x \in i..n
      BY <1>2
    <2>12. IsRun(k, i, k, l.ltemp0, q)
      BY <1>2, <1>8, <2>2, <2>3, <2>10, <2>11 DEF IsRun
    <2>13. \A x \in k..k : source[x].k = "literal"
      BY <1>2
    <2>14. OpenRun(m, k, TRUE)
      BY <1>8, <2>3, <2>9, <2>12, <2>13 DEF OpenRun
    <2>15. QED
      BY <1>2, <2>9, <2>14 DEF Counted
  <1>12. LiteralAt(n + 1)
    BY <1>1, <1>2 DEF LiteralAt
  <1>13. QED
    BY <1>10, <1>11, <1>12 DEF Counted

(* a literal that is not counted *)
LEMMA LiteralSkipped ==
  ASSUME NEW n \in Nat, n < Len(source), source \in Seq(LexToken),
         source[n + 1].k = "literal", NEW l, NEW counting \in BOOLEAN,
         Counted(l, n, FALSE, counting), Unclosed(n) # 0 \/ ~counting
  PROVE  Counted(l, n + 1, FALSE, counting)
  <1>1. LiteralAt(n + 1)
    <2>1. Len(source) \in Nat
      OBVIOUS
    <2>2. QED
      BY <2>1 DEF LiteralAt
  <1>2. CASE NoRun(l) /\ l.lfixs = 0
    BY <1>2 DEF Counted
  <1>3. CASE l.lfixs = 1 /\ OpenRun(l, n, counting)
    <2>1. ~counting /\ Unclosed(n) = 0
      BY <1>3 DEF OpenRun
    <2>2. Unclosed(n + 1) = 0
      BY <2>1, UnclosedStep
    <2>3. PICK i \in 1..n : \E j \in 1..n :
            IsRun(n, i, j, l.ltemp0, l.ltempn) /\ \A m \in j..n : source[m].k = "literal"
      BY <1>3 DEF OpenRun
    <2>4. PICK j \in 1..n :
            IsRun(n, i, j, l.ltemp0, l.ltempn) /\ \A m \in j..n : source[m].k = "literal"
      BY <2>3
    <2>5. i \in 1..(n + 1) /\ j \in 1..(n + 1) /\ j \in i..(n + 1)
      BY <2>4 DEF IsRun
    <2>6. IsRun(n + 1, i, j, l.ltemp0, l.ltempn)
      BY <2>4, <2>5 DEF IsRun
    <2>7. \A m \in j..(n + 1) : m = n + 1 \/ m \in j..n
      OBVIOUS
    <2>8. \A m \in j..(n + 1) : source[m].k = "literal"
      BY <2>4, <2>7
    <2>9. OpenRun(l, n + 1, counting)
      BY <2>1, <2>2, <2>5, <2>6, <2>8 DEF OpenRun
    <2>10. QED
      BY <1>3, <2>9 DEF Counted
  <1>4. QED
    BY <1>1, <1>2, <1>3 DEF Counted


(* at and depth of the context, which building code leaves alone *)
Marked(c) == {"at", "depth"} \subseteq DOMAIN c
SameMarks(c, d) == Marked(d) /\ d.at = c.at /\ d.depth = c.depth

LEMMA MarksPut ==
  ASSUME NEW c, Marked(c), NEW i, NEW s
  PROVE  SameMarks(c, Put(c, i, s))
  BY DEF Put, Marked, SameMarks

LEMMA MarksAdd ==
  ASSUME NEW c, Marked(c)
  PROVE  /\ \A i, code : SameMarks(c, AddHead(c, i, code))
         /\ \A i, j : SameMarks(c, stack_cat(c, i, j))
         /\ \A i : SameMarks(c, stack_reset(c, i))
  BY MarksPut DEF AddHead, stack_cat, stack_reset

LEMMA MarksFields ==
  ASSUME NEW c, Marked(c)
  PROVE  /\ SameMarks(c, PopGroup(c))
         /\ \A x : /\ SameMarks(c, [c EXCEPT !.buf = x])
                   /\ SameMarks(c, [c EXCEPT !.operand = x])
                   /\ SameMarks(c, [c EXCEPT !.strb = x])
                   /\ SameMarks(c, [c EXCEPT !.chained = x])
                   /\ SameMarks(c, [c EXCEPT !.parens = x])
  BY DEF PopGroup, Marked, SameMarks

LEMMA MarksThrough ==
  ASSUME NEW c, NEW d, NEW e, SameMarks(c, d), SameMarks(d, e)
  PROVE  SameMarks(c, e)
  BY DEF SameMarks

LEMMA MarksOperand ==
  ASSUME NEW c, Marked(c), NEW i, NEW inst
  PROVE  SameMarks(c, AddOperand(c, i, inst))
  <1>1. PICK d : d = AddHead(c, i, <<inst>>)
    OBVIOUS
  <1>2. PICK op : op = [stack |-> i, at |-> Len(Code(c, i)) + 1]
    OBVIOUS
  <1>3. AddOperand(c, i, inst) = [d EXCEPT !.operand = op]
    BY <1>1, <1>2 DEF AddOperand
  <1>4. SameMarks(c, d)
    BY <1>1, MarksAdd
  <1>5. SameMarks(d, [d EXCEPT !.operand = op])
    BY <1>4, MarksFields DEF SameMarks
  <1>6. QED
    BY <1>3, <1>4, <1>5, MarksThrough

LEMMA MarksAttach ==
  ASSUME NEW c, Marked(c)
  PROVE  SameMarks(c, attach_dangling_alt(c))
  <1>1. SameMarks(c, c)
    BY DEF SameMarks
  <1>2. QED
    BY <1>1, MarksPut DEF attach_dangling_alt

LEMMA MarksAlt ==
  ASSUME NEW c, Marked(c)
  PROVE  SameMarks(c, code_alt(c))
  <1>1. PICK x : x = IF Stack(c, c.target).dsize # 0 THEN 1 ELSE c.chained
    OBVIOUS
  <1>2. PICK d : d = [c EXCEPT !.chained = x]
    OBVIOUS
  <1>3. d = [c EXCEPT !.chained = IF Stack(c, c.target).dsize # 0 THEN 1 ELSE @]
    BY <1>1, <1>2
  <1>4. SameMarks(c, d)
    BY <1>2, MarksFields
  <1>5. PICK e : e = attach_dangling_alt(d)
    OBVIOUS
  <1>6. SameMarks(d, e)
    BY <1>4, <1>5, MarksAttach DEF SameMarks
  <1>7. \E s : code_alt(c) = Put(e, c.target, s)
    BY <1>3, <1>5 DEF code_alt
  <1>8. SameMarks(e, code_alt(c))
    BY <1>6, <1>7, MarksPut DEF SameMarks
  <1>9. QED
    BY <1>4, <1>6, <1>8, MarksThrough

LEMMA MarksFlushed ==
  ASSUME NEW c, Marked(c)
  PROVE  SameMarks(c, Flushed(c))
  <1>1. SameMarks(c, c)
    BY DEF SameMarks
  <1>2. PICK d : d = stack_cat(c, c.target, c.buf)
    OBVIOUS
  <1>3. SameMarks(c, d)
    BY <1>2, MarksAdd
  <1>4. SameMarks(d, PopGroup(d))
    BY <1>3, MarksFields DEF SameMarks
  <1>5. SameMarks(c, PopGroup(d))
    BY <1>3, <1>4, MarksThrough
  <1>6. QED
    BY <1>1, <1>2, <1>5 DEF Flushed

LEMMA MarksConsumed ==
  ASSUME NEW c, Marked(c)
  PROVE  SameMarks(c, Consumed(c))
  <1>1. PICK d : d = stack_reset(c, c.buf)
    OBVIOUS
  <1>2. SameMarks(c, d)
    BY <1>1, MarksAdd
  <1>3. SameMarks(d, PopGroup(d)) /\ SameMarks(d, [d EXCEPT !.buf = 1])
    BY <1>2, MarksFields DEF SameMarks
  <1>4. Consumed(c) = PopGroup(d) \/ Consumed(c) = [d EXCEPT !.buf = 1]
    BY <1>1 DEF Consumed
  <1>5. QED
    BY <1>2, <1>3, <1>4, MarksThrough

LEMMA MarksOfShape ==
  ASSUME NEW c, Shape(c)
  PROVE  Marked(c)
  BY DEF Shape, Context, Marked

(* reading a token *)
RunsReady(n, c, inClass, altSeen) ==
  Countable =>
    /\ c.at = Offset(source, n) /\ c.depth = unsigned(Unclosed(n + 1))
    /\ inClass <=> InClass(source, n + 2)
    /\ altSeen \/ NoOuterAlt(n + 1)
    /\ Fixed(n + 1, lfix'.lfix0, lfix'.lfixn)
    /\ Counted(lfix', n + 1, inClass, ~newline_seen')

(* what is said of the runs depends on the expression and nothing behind it *)
LEMMA FixedKept ==
  ASSUME source' = source, NEW n, n = Done', Fixed(n, lfix'.lfix0, lfix'.lfixn)
  PROVE  Fixed(Done, lfix.lfix0, lfix.lfixn)'
  BY DEF Fixed, IsRun, Unclosed, MayVanish

LEMMA CountedKept ==
  ASSUME source' = source, NEW n, n = Done',
         Counted(lfix', n, state' = "charc", ~newline_seen')
  PROVE  Counted(lfix, Done, state = "charc", ~newline_seen)'
  <1>1. OpenRun(lfix', n, ~newline_seen') => OpenRun(lfix, Done, ~newline_seen)'
    <2>1. SUFFICES ASSUME OpenRun(lfix', n, ~newline_seen')
                   PROVE  OpenRun(lfix, Done, ~newline_seen)'
      OBVIOUS
    <2>2. PICK i \in 1..n : \E j \in 1..n :
            /\ IsRun(n, i, j, lfix'.ltemp0, lfix'.ltempn)
            /\ ~newline_seen' => j = n
            /\ \A m \in j..n : source[m].k = "literal"
      BY <2>1 DEF OpenRun
    <2>3. PICK j \in 1..n :
            /\ IsRun(n, i, j, lfix'.ltemp0, lfix'.ltempn)
            /\ ~newline_seen' => j = n
            /\ \A m \in j..n : source[m].k = "literal"
      BY <2>2
    <2>4. Unclosed(n) = 0
      BY <2>1 DEF OpenRun
    <2>5. IsRun(Done, i, j, lfix.ltemp0, lfix.ltempn)'
      BY <2>3 DEF IsRun, Unclosed
    <2>6. Unclosed(Done)' = 0
      BY <2>4 DEF Unclosed
    <2>7. QED
      BY <2>3, <2>5, <2>6 DEF OpenRun
  <1>2. LiteralAt(Done + 1)' <=> LiteralAt(n + 1)
    BY DEF LiteralAt
  <1>3. NoRun(lfix)' <=> NoRun(lfix')
    BY DEF NoRun
  <1>4. QED
    BY <1>1, <1>2, <1>3 DEF Counted

LEMMA RunsOn ==
  ASSUME Inv, Placed, rest # <<>>, UNCHANGED callVars, UNCHANGED resultVars,
         outcome = "none", state' \in {"start", "charc"},
         NEW d, Marked(d), Took(d),
         NEW a, a = alt_seen', NEW i, i = (state' = "charc"),
         RunsReady(Done, d, i, a)
  PROVE  Runs'
  <1>1. PICK n \in Nat : n = Done /\ n < Len(source) /\ tok = source[n + 1] /\ Done' = n + 1
    BY ReadOn DEF Took
  <1>2. source' = source /\ source \in Seq(LexToken) /\ outcome' = "none"
    BY SourceRead DEF callVars, resultVars
  <1>3. Offset(source, n + 1) = Offset(source, n) + source[n + 1].w
    <2>1. n + 1 \in 1..Len(source) /\ (n + 1) - 1 = n
      BY <1>1, <1>2
    <2>2. QED
      BY <1>2, <2>1, OffsetsAdd
  <1>4. PICK k, w : k = tok.k /\ w = d.at + tok.w
    OBVIOUS
  <1>5. cx' = [d EXCEPT !.lasttok = k, !.at = w]
    BY <1>4 DEF Took
  <1>6. cx'.at = d.at + source[n + 1].w /\ cx'.depth = d.depth
    BY <1>1, <1>4, <1>5 DEF Marked
  <1>7. Countable' <=> Countable
    BY <1>2 DEF Countable
  <1>8. ASSUME Countable
        PROVE  Between(cx, Done, state = "charc", alt_seen)'
    <2>1. cx'.at = Offset(source, n + 1) /\ cx'.depth = unsigned(Unclosed(n + 1))
      BY <1>1, <1>3, <1>6, <1>8 DEF RunsReady
    <2>2. (state' = "charc") <=> InClass(source, n + 2)
      BY <1>1, <1>8 DEF RunsReady
    <2>3. (n + 1) + 1 = n + 2
      BY <1>1
    <2>4. alt_seen' \/ NoOuterAlt(n + 1)
      BY <1>1, <1>8 DEF RunsReady
    <2>5. NoOuterAlt(n + 1) => NoOuterAlt(Done)'
      BY <1>1, <1>2 DEF NoOuterAlt, Unclosed
    <2>6. Unclosed(Done)' = Unclosed(n + 1)
      BY <1>1, <1>2 DEF Unclosed
    <2>7. QED
      BY <1>1, <1>2, <2>1, <2>2, <2>3, <2>4, <2>5, <2>6 DEF Between
  <1>9. ASSUME Countable
        PROVE  Fixed(Done, lfix.lfix0, lfix.lfixn)'
    <2>1. PICK m : m = n + 1
      OBVIOUS
    <2>2. Fixed(m, lfix'.lfix0, lfix'.lfixn)
      BY <1>1, <1>9, <2>1 DEF RunsReady
    <2>3. QED
      BY <1>1, <1>2, <2>1, <2>2, FixedKept
  <1>10. ASSUME Countable
         PROVE  Counted(lfix, Done, state = "charc", ~newline_seen)'
    <2>1. PICK m : m = n + 1
      OBVIOUS
    <2>2. Counted(lfix', m, state' = "charc", ~newline_seen')
      BY <1>1, <1>10, <2>1 DEF RunsReady
    <2>3. QED
      BY <1>1, <1>2, <2>1, <2>2, CountedKept
  <1>11. FixedIsLiteral' /\ state' # "stage2"
    BY <1>2 DEF FixedIsLiteral
  <1>12. QED
    BY <1>7, <1>8, <1>9, <1>10, <1>11 DEF Runs

(* where the next token stands *)
LEMMA RunsNow ==
  ASSUME Inv, Placed, Runs, state \in {"start", "charc"}, rest # <<>>, Countable,
         rest' = Tail(rest), UNCHANGED callVars, state' # "backlog",
         NEW n, n = Done
  PROVE  /\ n \in Nat /\ n < Len(source) /\ tok = source[n + 1]
         /\ source \in Seq(LexToken) /\ tok \in LexToken
         /\ cx.at = Offset(source, n) /\ cx.depth = unsigned(Unclosed(n))
         /\ (state = "charc" <=> InClass(source, n + 1))
         /\ alt_seen \/ NoOuterAlt(n)
         /\ Fixed(n, lfix.lfix0, lfix.lfixn)
         /\ Counted(lfix, n, state = "charc", ~newline_seen)
         /\ Unclosed(n) \in Int /\ (cx.depth = 0 <=> Unclosed(n) = 0)
  <1>1. /\ n \in Nat /\ n < Len(source) /\ tok = source[n + 1] /\ source \in Seq(LexToken)
    BY ReadOn
  <1>2. tok \in LexToken
    BY TokenRead DEF Inv
  <1>3. /\ Between(cx, n, state = "charc", alt_seen)
        /\ Fixed(n, lfix.lfix0, lfix.lfixn)
        /\ Counted(lfix, n, state = "charc", ~newline_seen)
    BY DEF Runs
  <1>4. PICK u \in Int : u = Unclosed(n) /\ u \in (-n)..n
    <2>1. n \in 0..Len(source)
      BY <1>1
    <2>2. Unclosed(n) \in (-n)..n
      BY <1>1, <2>1, UnclosedBounds
    <2>3. QED
      BY <1>1, <2>2
  <1>5. n < UIntSize
    <2>1. PICK L \in Nat : L = Len(source) /\ n < L
      BY <1>1
    <2>2. 0 \in 0..L /\ L \in 0..L
      BY <2>1
    <2>3. Offset(source, 0) \in Nat /\ Offset(source, L) \in Nat
          /\ Offset(source, L) >= Offset(source, 0) + (L - 0)
      BY <1>1, <2>1, <2>2, OffsetsGrow
    <2>4. Offset(source, L) < UIntSize
      BY <2>1 DEF Countable
    <2>5. QED
      BY <1>1, <2>1, <2>3, <2>4 DEF UIntSize
  <1>6. unsigned(u) = 0 <=> u = 0
    <2>1. -UIntSize < u /\ u < UIntSize
      BY <1>1, <1>4, <1>5 DEF UIntSize
    <2>2. unsigned(0) = 0
      BY Unsigned
    <2>3. QED
      BY <1>4, <2>1, <2>2, Unsigned
  <1>7. cx.depth = unsigned(u)
    BY <1>3, <1>4 DEF Between
  <1>8. QED
    BY <1>1, <1>2, <1>3, <1>4, <1>6, <1>7 DEF Between

LEMMA AltsCounted ==
  ASSUME NEW n \in Nat, NEW a, NEW b, a \/ NoOuterAlt(n), a => b,
         source[n + 1].k = "alt" /\ Unclosed(n + 1) = 0 => b
  PROVE  b \/ NoOuterAlt(n + 1)
  <1>1. \A m \in 1..(n + 1) : m = n + 1 \/ m \in 1..n
    OBVIOUS
  <1>2. QED
    BY <1>1 DEF NoOuterAlt

LEMMA CountedWeaker ==
  ASSUME NEW l, NEW n, NEW inClass, Counted(l, n, inClass, TRUE)
  PROVE  Counted(l, n, inClass, FALSE)
  <1>1. OpenRun(l, n, TRUE) => OpenRun(l, n, FALSE)
    BY DEF OpenRun
  <1>2. QED
    BY <1>1 DEF Counted

(* a token behind which no run is open *)
LEMMA StoppedRuns ==
  ASSUME Inv, Placed, Runs, NEW kinds, Reads("start", kinds), tok.k # "literal",
         UNCHANGED callVars, UNCHANGED resultVars,
         state' \in {"start", "charc"}, state' = "charc" <=> tok.k = "charc_open",
         NEW d, Marked(d), Took(d), d.at = cx.at,
         tok.k = "lparen" => d.depth = unsigned(cx.depth + 1),
         tok.k = "rparen" => d.depth = unsigned(cx.depth - 1),
         tok.k \notin {"lparen", "rparen"} => d.depth = cx.depth,
         alt_seen => alt_seen', tok.k = "alt" /\ cx.depth = 0 => alt_seen',
         NEW l, lfix' = lfix_stop(l),
         l = lfix_dec(lfix) \/ (l = lfix /\ (Countable => ~MayVanish(tok)))
  PROVE  Runs'
  <1>1. /\ state = "start" /\ rest # <<>>
        /\ outcome = "none" /\ lfix \in LfixType
    BY Open
  <1>2. PICK n : n = Done
    OBVIOUS
  <1>3. PICK a : a = alt_seen'
    OBVIOUS
  <1>4. PICK i \in BOOLEAN : i = (state' = "charc")
    OBVIOUS
  <1>5. ASSUME Countable
        PROVE  RunsReady(n, d, i, a)
    <2>1. /\ n \in Nat /\ n < Len(source) /\ tok = source[n + 1]
          /\ source \in Seq(LexToken) /\ tok \in LexToken
          /\ cx.at = Offset(source, n) /\ cx.depth = unsigned(Unclosed(n))
          /\ (state = "charc" <=> InClass(source, n + 1))
          /\ alt_seen \/ NoOuterAlt(n)
          /\ Fixed(n, lfix.lfix0, lfix.lfixn)
          /\ Counted(lfix, n, state = "charc", ~newline_seen)
          /\ Unclosed(n) \in Int /\ (cx.depth = 0 <=> Unclosed(n) = 0)
      BY <1>1, <1>2, <1>5, RunsNow DEF Took
    <2>2. d.depth = unsigned(Unclosed(n + 1))
      <3>1. PICK u \in Int : u = Unclosed(n)
        BY <2>1
      <3>2. /\ tok.k = "lparen" => Unclosed(n + 1) = u + 1
            /\ tok.k = "rparen" => Unclosed(n + 1) = u - 1
            /\ tok.k \notin {"lparen", "rparen"} => Unclosed(n + 1) = u
        BY <2>1, <3>1, UnclosedStep
      <3>3. cx.depth = unsigned(u)
        BY <2>1, <3>1
      <3>4. unsigned(unsigned(u) + 1) = unsigned(u + 1)
            /\ unsigned(unsigned(u) - 1) = unsigned(u - 1)
        BY Unsigned
      <3>5. QED
        BY <3>2, <3>3, <3>4
    <2>3. i <=> InClass(source, n + 2)
      <3>1. ~InClass(source, n + 1)
        BY <1>1, <2>1
      <3>2. QED
        BY <1>4, <2>1, <3>1, InClassStep
    <2>4. a \/ NoOuterAlt(n + 1)
      <3>1. tok.k = "alt" /\ Unclosed(n + 1) = 0 => a
        <4>1. tok.k = "alt" => Unclosed(n + 1) = Unclosed(n)
          BY <2>1, UnclosedStep
        <4>2. QED
          BY <1>3, <2>1, <4>1
      <3>2. alt_seen => a
        BY <1>3
      <3>3. QED
        BY <2>1, <3>1, <3>2, AltsCounted
    <2>5. NoRun(lfix) \/ OpenRun(lfix, n, ~newline_seen)
      BY <2>1 DEF Counted
    <2>6. Fixed(n, l.ltemp0, l.ltempn) /\ Fixed(n, l.lfix0, l.lfixn) /\ l \in LfixType
      <3>1. CASE l = lfix_dec(lfix)
        <4>1. n <= Len(source)
          BY <2>1
        <4>2. QED
          BY <1>1, <2>1, <2>5, <3>1, <4>1, DecFixed
      <3>2. CASE l = lfix /\ ~MayVanish(tok)
        BY <1>1, <2>1, <2>5, <3>2, OpenFixed
      <3>3. QED
        BY <1>5, <3>1, <3>2
    <2>7. PICK m : m = lfix'
      OBVIOUS
    <2>8. Fixed(n, m.lfix0, m.lfixn) /\ m.lfixs = 0 /\ NoRun(m)
      BY <2>1, <2>6, <2>7, StopStores
    <2>9. Fixed(n + 1, m.lfix0, m.lfixn)
      BY <2>1, <2>8, FixedLater
    <2>10. Counted(m, n + 1, i, ~newline_seen')
      BY <2>8 DEF Counted
    <2>11. d.at = Offset(source, n)
      BY <2>1
    <2>12. QED
      BY <2>2, <2>3, <2>4, <2>7, <2>9, <2>10, <2>11 DEF RunsReady
  <1>6. RunsReady(Done, d, i, a)
    BY <1>2, <1>5 DEF RunsReady
  <1>7. QED
    BY <1>1, <1>3, <1>4, <1>6, RunsOn

(* a token of a class *)
LEMMA ClassTokenRuns ==
  ASSUME Inv, Placed, Runs, state = "charc", rest # <<>>,
         tok.k \in {"literal", "char_range", "charc_close"},
         UNCHANGED <<callVars, resultVars, alt_seen, lfix>>,
         state' \in {"start", "charc"}, state' = "charc" <=> tok.k # "charc_close",
         NEW d, SameMarks(cx, d), Took(d)
  PROVE  Runs'
  <1>1. outcome = "none"
    BY DEF Inv
  <1>2. PICK n : n = Done
    OBVIOUS
  <1>3. PICK a : a = alt_seen'
    OBVIOUS
  <1>4. PICK i \in BOOLEAN : i = (state' = "charc")
    OBVIOUS
  <1>5. ASSUME Countable
        PROVE  RunsReady(n, d, i, a)
    <2>1. /\ n \in Nat /\ n < Len(source) /\ tok = source[n + 1]
          /\ source \in Seq(LexToken) /\ tok \in LexToken
          /\ cx.at = Offset(source, n) /\ cx.depth = unsigned(Unclosed(n))
          /\ (state = "charc" <=> InClass(source, n + 1))
          /\ alt_seen \/ NoOuterAlt(n)
          /\ Fixed(n, lfix.lfix0, lfix.lfixn)
          /\ Counted(lfix, n, state = "charc", ~newline_seen)
      BY <1>2, <1>5, RunsNow DEF Took
    <2>2. Unclosed(n + 1) = Unclosed(n)
      BY <2>1, UnclosedStep
    <2>3. i <=> InClass(source, n + 2)
      BY <1>4, <2>1, InClassStep
    <2>4. a \/ NoOuterAlt(n + 1)
      BY <1>3, <2>1, AltsCounted
    <2>5. NoRun(lfix) /\ lfix.lfixs = 0
      BY <2>1 DEF Counted
    <2>6. Fixed(n + 1, lfix.lfix0, lfix.lfixn)
      BY <2>1, FixedLater
    <2>7. Counted(lfix, n + 1, i, ~newline_seen')
      BY <2>5 DEF Counted
    <2>8. d.at = Offset(source, n) /\ d.depth = unsigned(Unclosed(n + 1))
      BY <2>1, <2>2 DEF SameMarks
    <2>9. QED
      BY <2>3, <2>4, <2>6, <2>7, <2>8 DEF RunsReady
  <1>6. RunsReady(Done, d, i, a)
    BY <1>2, <1>5 DEF RunsReady
  <1>7. QED
    BY <1>1, <1>3, <1>4, <1>6, RunsOn DEF SameMarks

(* one lemma for each kind of step *)
LEMMA LiteralRuns ==
  ASSUME Inv, Placed, Runs, Literal
  PROVE  Runs'
  <1>1. Reads("start", {"literal"})
    BY DEF Literal
  <1>2. /\ state = "start" /\ rest # <<>> /\ tok.k = "literal" /\ Shape(cx)
        /\ outcome = "none" /\ lfix \in LfixType
    BY <1>1, Open
  <1>3. PICK c, inst, d : c = Flushed(cx) /\ inst = IChar(tok.c) /\ d = AddOperand(c, c.buf, inst)
    OBVIOUS
  <1>4. SameMarks(cx, d)
    <2>1. SameMarks(cx, c)
      BY <1>2, <1>3, MarksFlushed, MarksOfShape
    <2>2. SameMarks(c, d)
      BY <1>3, <2>1, MarksOperand DEF SameMarks
    <2>3. QED
      BY <2>1, <2>2, MarksThrough
  <1>5. /\ Took(d) /\ state' = "start" /\ UNCHANGED <<callVars, resultVars, alt_seen>>
        /\ newline_seen => newline_seen'
        /\ lfix' = IF ~newline_seen' /\ cx.depth = 0
                   THEN lfix_continue(lfix, cx.at + tok.at) ELSE lfix
    BY <1>2, <1>3 DEF Literal
  <1>6. PICK n : n = Done
    OBVIOUS
  <1>7. PICK a : a = alt_seen'
    OBVIOUS
  <1>8. PICK i \in BOOLEAN : i = (state' = "charc")
    OBVIOUS
  <1>9. PICK y \in BOOLEAN : y = ~newline_seen'
    BY <1>2 DEF Literal
  <1>10. ASSUME Countable
         PROVE  RunsReady(n, d, i, a)
    <2>1. /\ n \in Nat /\ n < Len(source) /\ tok = source[n + 1]
          /\ source \in Seq(LexToken) /\ tok \in LexToken
          /\ cx.at = Offset(source, n) /\ cx.depth = unsigned(Unclosed(n))
          /\ (state = "charc" <=> InClass(source, n + 1))
          /\ alt_seen \/ NoOuterAlt(n)
          /\ Fixed(n, lfix.lfix0, lfix.lfixn)
          /\ Counted(lfix, n, state = "charc", ~newline_seen)
          /\ Unclosed(n) \in Int /\ (cx.depth = 0 <=> Unclosed(n) = 0)
      BY <1>2, <1>5, <1>6, <1>10, RunsNow DEF Took
    <2>2. Unclosed(n + 1) = Unclosed(n) /\ ~InClass(source, n + 1)
      BY <1>2, <2>1, UnclosedStep
    <2>3. i = FALSE /\ ~InClass(source, n + 2)
      BY <1>2, <1>5, <1>8, <2>1, <2>2, InClassStep
    <2>4. a \/ NoOuterAlt(n + 1)
      BY <1>2, <1>5, <1>7, <2>1, AltsCounted
    <2>5. Counted(lfix, n, FALSE, y)
      <3>1. Counted(lfix, n, FALSE, ~newline_seen)
        BY <1>2, <2>1
      <3>2. CASE newline_seen = TRUE
        BY <1>5, <1>9, <3>1, <3>2
      <3>3. CASE newline_seen = FALSE
        BY <1>9, <3>1, <3>3, CountedWeaker
      <3>4. newline_seen \in BOOLEAN \/ ~newline_seen
        OBVIOUS
      <3>5. QED
        BY <3>1, <3>2, <3>3, <1>5, <1>9, CountedWeaker
    <2>6. Fixed(n + 1, lfix.lfix0, lfix.lfixn)
      BY <2>1, FixedLater
    <2>7. PICK m : m = lfix'
      OBVIOUS
    <2>8. Counted(m, n + 1, FALSE, y) /\ m.lfix0 = lfix.lfix0 /\ m.lfixn = lfix.lfixn
      <3>1. CASE y /\ cx.depth = 0
        <4>1. m = lfix_continue(lfix, Offset(source, n) + source[n + 1].at)
          BY <1>5, <1>9, <2>1, <2>7, <3>1
        <4>2. y = TRUE /\ Unclosed(n) = 0 /\ source[n + 1].k = "literal"
          BY <1>2, <2>1, <3>1
        <4>3. Offset(source, Len(source)) < UIntSize
          BY <1>10 DEF Countable
        <4>4. Counted(lfix, n, FALSE, TRUE)
          BY <2>5, <4>2
        <4>5. Counted(m, n + 1, FALSE, TRUE) /\ m.lfix0 = lfix.lfix0 /\ m.lfixn = lfix.lfixn
          BY <1>2, <2>1, <2>2, <4>1, <4>2, <4>3, <4>4, LiteralCounted
        <4>6. QED
          BY <4>2, <4>5
      <3>2. CASE ~y \/ cx.depth # 0
        <4>1. m = lfix
          BY <1>5, <1>9, <2>7, <3>2
        <4>2. Unclosed(n) # 0 \/ ~y
          BY <2>1, <3>2
        <4>3. source[n + 1].k = "literal"
          BY <1>2, <2>1
        <4>4. QED
          BY <1>9, <2>1, <2>5, <4>1, <4>2, <4>3, LiteralSkipped
      <3>3. QED
        BY <3>1, <3>2
    <2>9. d.at = Offset(source, n) /\ d.depth = unsigned(Unclosed(n + 1))
      BY <1>4, <2>1, <2>2 DEF SameMarks
    <2>10. Counted(lfix', n + 1, i, ~newline_seen')
      BY <1>9, <2>3, <2>7, <2>8
    <2>11. Fixed(n + 1, lfix'.lfix0, lfix'.lfixn)
      BY <2>6, <2>7, <2>8
    <2>12. QED
      BY <2>3, <2>4, <2>9, <2>10, <2>11 DEF RunsReady
  <1>11. RunsReady(Done, d, i, a)
    BY <1>6, <1>10 DEF RunsReady
  <1>12. QED
    BY <1>2, <1>4, <1>5, <1>7, <1>8, <1>11, RunsOn DEF SameMarks

LEMMA SingleRuns ==
  ASSUME Inv, Placed, Runs, NEW kind, NEW inst, Single(kind, inst),
         kind \in {"any", "sol", "eol"}
  PROVE  Runs'
  <1>1. Reads("start", {kind})
    BY DEF Single
  <1>2. state = "start" /\ tok.k = kind /\ Shape(cx)
    BY <1>1, Open
  <1>3. PICK c, d : c = Flushed(cx) /\ d = AddOperand(c, c.buf, inst)
    OBVIOUS
  <1>4. SameMarks(cx, d)
    <2>1. SameMarks(cx, c)
      BY <1>2, <1>3, MarksFlushed, MarksOfShape
    <2>2. SameMarks(c, d)
      BY <1>3, <2>1, MarksOperand DEF SameMarks
    <2>3. QED
      BY <2>1, <2>2, MarksThrough
  <1>5. /\ Took(d) /\ lfix' = lfix_stop(lfix) /\ state' = "start"
        /\ UNCHANGED <<callVars, resultVars, alt_seen>>
    BY <1>2, <1>3 DEF Single
  <1>6. ~MayVanish(tok)
    BY <1>2 DEF MayVanish
  <1>7. QED
    BY <1>1, <1>2, <1>4, <1>5, <1>6, StoppedRuns DEF SameMarks

LEMMA OpenClassRuns ==
  ASSUME Inv, Placed, Runs, OpenClass
  PROVE  Runs'
  <1>1. Reads("start", {"charc_open"})
    BY DEF OpenClass
  <1>2. state = "start" /\ tok.k = "charc_open" /\ Shape(cx)
    BY <1>1, Open
  <1>3. PICK c, d : c = Flushed(cx) /\ d = [c EXCEPT !.strb = {}]
    OBVIOUS
  <1>4. SameMarks(cx, d)
    <2>1. SameMarks(cx, c)
      BY <1>2, <1>3, MarksFlushed, MarksOfShape
    <2>2. SameMarks(c, d)
      <3>1. Marked(c)
        BY <2>1 DEF SameMarks
      <3>2. QED
        BY <1>3, <3>1 DEF SameMarks, Marked
    <2>3. QED
      BY <2>1, <2>2, MarksThrough
  <1>5. /\ Took(d) /\ lfix' = lfix_stop(lfix) /\ state' = "charc"
        /\ UNCHANGED <<callVars, resultVars, alt_seen>>
    BY <1>3 DEF OpenClass
  <1>6. ~MayVanish(tok)
    BY <1>2 DEF MayVanish
  <1>7. QED
    BY <1>1, <1>2, <1>4, <1>5, <1>6, StoppedRuns DEF SameMarks

LEMMA OpenGroupRuns ==
  ASSUME Inv, Placed, Runs, OpenGroup
  PROVE  Runs'
  <1>1. Reads("start", {"lparen"})
    BY DEF OpenGroup
  <1>2. state = "start" /\ tok.k = "lparen" /\ Shape(cx)
    BY <1>1, Open
  <1>3. PICK c, b, d : c = Flushed(cx) /\ b = stack_cat(c, c.target, 1) /\ d = stack_reset(b, 1)
    OBVIOUS
  <1>4. SameMarks(cx, d)
    <2>1. SameMarks(cx, c)
      BY <1>2, <1>3, MarksFlushed, MarksOfShape
    <2>2. SameMarks(c, b)
      BY <1>3, <2>1, MarksAdd DEF SameMarks
    <2>3. SameMarks(b, d)
      BY <1>3, <2>2, MarksAdd DEF SameMarks
    <2>4. QED
      BY <2>1, <2>2, <2>3, MarksThrough
  <1>5. PICK e : e = [d EXCEPT !.parens = Append(@, create_stack),
                               !.target = Groups(d) + 1,
                               !.depth = unsigned(@ + 1)]
    OBVIOUS
  <1>6. Marked(e) /\ e.at = cx.at /\ e.depth = unsigned(cx.depth + 1)
    <2>1. Marked(e) /\ e.at = d.at /\ e.depth = unsigned(d.depth + 1)
      BY <1>4, <1>5 DEF SameMarks, Marked
    <2>2. QED
      BY <1>4, <2>1 DEF SameMarks
  <1>7. /\ Took(e) /\ lfix' = lfix_stop(lfix) /\ state' = "start"
        /\ UNCHANGED <<callVars, resultVars, alt_seen>>
    BY <1>2, <1>3, <1>5 DEF OpenGroup
  <1>8. ~MayVanish(tok)
    BY <1>2 DEF MayVanish
  <1>9. QED
    BY <1>1, <1>2, <1>6, <1>7, <1>8, StoppedRuns

LEMMA CloseGroupRuns ==
  ASSUME Inv, Placed, Runs, CloseGroup
  PROVE  Runs'
  <1>1. Reads("start", {"rparen"})
    BY DEF CloseGroup
  <1>2. state = "start" /\ tok.k = "rparen" /\ Shape(cx)
    BY <1>1, Open
  <1>3. PICK c, a, b, d : /\ c = Flushed(cx) /\ a = stack_cat(c, c.target, 1)
                          /\ b = attach_dangling_alt(a) /\ d = stack_reset(b, 1)
    OBVIOUS
  <1>4. SameMarks(cx, d)
    <2>1. SameMarks(cx, c)
      BY <1>2, <1>3, MarksFlushed, MarksOfShape
    <2>2. SameMarks(c, a)
      BY <1>3, <2>1, MarksAdd DEF SameMarks
    <2>3. SameMarks(a, b)
      BY <1>3, <2>2, MarksAttach DEF SameMarks
    <2>4. SameMarks(b, d)
      BY <1>3, <2>3, MarksAdd DEF SameMarks
    <2>5. QED
      BY <2>1, <2>2, <2>3, <2>4, MarksThrough
  <1>5. PICK g : g = Groups(d)
    OBVIOUS
  <1>6. PICK e : e = [d EXCEPT !.operand = [stack |-> g, at |-> 1],
                               !.buf = g,
                               !.target = IF g = 2 THEN 0 ELSE g - 1,
                               !.depth = unsigned(@ - 1)]
    OBVIOUS
  <1>7. Marked(e) /\ e.at = cx.at /\ e.depth = unsigned(cx.depth - 1)
    <2>1. Marked(e) /\ e.at = d.at /\ e.depth = unsigned(d.depth - 1)
      BY <1>4, <1>6 DEF SameMarks, Marked
    <2>2. QED
      BY <1>4, <2>1 DEF SameMarks
  <1>8. /\ Took(e) /\ lfix' = lfix_stop(lfix) /\ state' = "start"
        /\ UNCHANGED <<callVars, resultVars, alt_seen>>
    BY <1>2, <1>3, <1>5, <1>6 DEF CloseGroup
  <1>9. ~MayVanish(tok)
    BY <1>2 DEF MayVanish
  <1>10. QED
    BY <1>1, <1>2, <1>7, <1>8, <1>9, StoppedRuns

(* an operator behind a literal takes it from the run if it may drop it *)
LEMMA OperatorRuns ==
  ASSUME Inv, Placed, Runs, Operator
  PROVE  Runs'
  <1>1. Reads("start", ISOP \ {"alt"})
    BY DEF Operator
  <1>2. /\ state = "start" /\ tok.k \in ISOP \ {"alt"} /\ tok \in LexToken /\ Shape(cx)
        /\ rest # <<>>
    BY <1>1, Open
  <1>3. tok.k \notin {"literal", "lparen", "rparen", "alt", "charc_open"}
    BY <1>2 DEF ISOP
  <1>4. PICK code : code = Prefix \o OpCode(tok, Operand)
    OBVIOUS
  <1>5. PICK c, d : c = AddHead(cx, cx.target, code) /\ d = Consumed(c)
    OBVIOUS
  <1>6. SameMarks(cx, d)
    <2>1. SameMarks(cx, c)
      BY <1>2, <1>5, MarksAdd, MarksOfShape
    <2>2. SameMarks(c, d)
      BY <1>5, <2>1, MarksConsumed DEF SameMarks
    <2>3. QED
      BY <2>1, <2>2, MarksThrough
  <1>7. PICK l : l = IF Optionally(tok) THEN lfix_dec(lfix) ELSE lfix
    OBVIOUS
  <1>8. /\ Took(d) /\ lfix' = lfix_stop(l) /\ state' = "start"
        /\ UNCHANGED <<callVars, resultVars, alt_seen>>
        /\ ~(tok.k = "rep" /\ BadRep(tok))
    BY <1>2, <1>4, <1>5, <1>7 DEF Operator
  <1>9. ASSUME Countable, ~Optionally(tok)
        PROVE  ~MayVanish(tok)
    <2>1. CASE tok.k = "rep"
      <3>1. RepBounds(tok.c, tok.d)
        BY <1>2, <2>1 DEF LexToken
      <3>2. ~(tok.c = 0 /\ tok.d > 0) /\ ~(tok.c > 0 /\ tok.d = 0)
        <4>1. PICK n : n = Done
          OBVIOUS
        <4>2. n \in Nat /\ n < Len(source) /\ tok = source[n + 1] /\ source \in Seq(LexToken)
          BY <1>2, <1>8, <4>1, ReadOn DEF Took
        <4>3. n + 1 \in DOMAIN source
          BY <4>2
        <4>4. QED
          BY <1>9, <2>1, <4>2, <4>3 DEF Countable
      <3>3. /\ tok.c # REP_FIELD_EMPTY /\ ~(tok.c = 0 /\ tok.d = REP_FIELD_EMPTY)
            /\ ~(tok.d = 0 /\ tok.c = 0) /\ ~(tok.c = 0 /\ tok.d = REP_NO_FIELD)
        BY <1>8, <1>9, <2>1 DEF Optionally, BadRep
      <3>4. tok.c \in Nat /\ tok.c # 0 /\ tok.d # 0
        BY <3>1, <3>2, <3>3 DEF RepBounds
      <3>5. QED
        BY <2>1, <3>4 DEF MayVanish, REP_FIELD_EMPTY
    <2>2. CASE tok.k # "rep"
      BY <1>9, <2>2 DEF MayVanish, Optionally
    <2>3. QED
      BY <2>1, <2>2
  <1>10. l = lfix_dec(lfix) \/ (l = lfix /\ (Countable => ~MayVanish(tok)))
    BY <1>7, <1>9
  <1>11. QED
    BY <1>1, <1>2, <1>3, <1>6, <1>8, <1>10, StoppedRuns DEF SameMarks

LEMMA AlternationRuns ==
  ASSUME Inv, Placed, Runs, Alternation
  PROVE  Runs'
  <1>1. Reads("start", {"alt"})
    BY DEF Alternation
  <1>2. state = "start" /\ tok.k = "alt" /\ Shape(cx)
    BY <1>1, Open
  <1>3. PICK b, c, d : /\ b = AddHead(cx, cx.target, Buffered)
                       /\ c = code_alt(b) /\ d = Consumed(c)
    OBVIOUS
  <1>4. SameMarks(cx, d)
    <2>1. SameMarks(cx, b)
      BY <1>2, <1>3, MarksAdd, MarksOfShape
    <2>2. SameMarks(b, c)
      BY <1>3, <2>1, MarksAlt DEF SameMarks
    <2>3. SameMarks(c, d)
      BY <1>3, <2>2, MarksConsumed DEF SameMarks
    <2>4. QED
      BY <2>1, <2>2, <2>3, MarksThrough
  <1>5. /\ Took(d) /\ lfix' = lfix_stop(lfix) /\ state' = "start"
        /\ UNCHANGED <<callVars, resultVars>>
        /\ alt_seen' = (alt_seen \/ cx.depth = 0)
    BY <1>2, <1>3 DEF Alternation
  <1>6. ~MayVanish(tok)
    BY <1>2 DEF MayVanish
  <1>7. QED
    BY <1>1, <1>2, <1>4, <1>5, <1>6, StoppedRuns DEF SameMarks

LEMMA ClassRuns ==
  ASSUME Inv, Placed, Runs, ClassLiteral \/ ClassRange \/ CloseClass
  PROVE  Runs'
  <1>1. CASE ClassLiteral
    <2>1. Reads("charc", {"literal"})
      BY <1>1 DEF ClassLiteral
    <2>2. state = "charc" /\ rest # <<>> /\ tok.k = "literal" /\ Shape(cx)
      BY <2>1, Open
    <2>3. PICK e : e = [cx EXCEPT !.strb = @ \cup {tok.c}]
      OBVIOUS
    <2>4. SameMarks(cx, cx) /\ SameMarks(cx, e)
      <3>1. Marked(cx)
        BY <2>2, MarksOfShape
      <3>2. QED
        BY <2>3, <3>1 DEF SameMarks, Marked
    <2>5. /\ Took(cx) \/ Took(e)
          /\ UNCHANGED <<callVars, resultVars, alt_seen, lfix>> /\ state' = "charc"
      BY <1>1, <2>2, <2>3 DEF ClassLiteral
    <2>6. QED
      BY <2>2, <2>4, <2>5, ClassTokenRuns
  <1>2. CASE ClassRange
    <2>1. Reads("charc", {"char_range"})
      BY <1>2 DEF ClassRange
    <2>2. state = "charc" /\ rest # <<>> /\ tok.k = "char_range" /\ Shape(cx)
      BY <2>1, Open
    <2>3. PICK e : e = [cx EXCEPT !.strb = @ \cup (tok.c..tok.d) \cup (tok.d..tok.c)]
      OBVIOUS
    <2>4. SameMarks(cx, e)
      <3>1. Marked(cx)
        BY <2>2, MarksOfShape
      <3>2. QED
        BY <2>3, <3>1 DEF SameMarks, Marked
    <2>5. /\ Took(e) /\ UNCHANGED <<callVars, resultVars, alt_seen, lfix>> /\ state' = "charc"
      BY <1>2, <2>2, <2>3 DEF ClassRange
    <2>6. QED
      BY <2>2, <2>4, <2>5, ClassTokenRuns
  <1>3. CASE CloseClass
    <2>1. Reads("charc", {"charc_close"})
      BY <1>3 DEF CloseClass
    <2>2. state = "charc" /\ rest # <<>> /\ tok.k = "charc_close" /\ Shape(cx)
      BY <2>1, Open
    <2>3. PICK inst : inst = IF is_nchar THEN INclass(cx.strb) ELSE IClass(cx.strb)
      OBVIOUS
    <2>4. PICK d : d = IF cx.strb = {} THEN cx ELSE AddOperand(cx, 1, inst)
      OBVIOUS
    <2>5. SameMarks(cx, d)
      BY <2>2, <2>4, MarksOfShape, MarksOperand DEF SameMarks
    <2>6. /\ Took(d) /\ UNCHANGED <<callVars, resultVars, alt_seen, lfix>> /\ state' = "start"
      BY <1>3, <2>3, <2>4 DEF CloseClass
    <2>7. QED
      BY <2>2, <2>5, <2>6, ClassTokenRuns
  <1>4. QED
    BY <1>1, <1>2, <1>3

(* the literals an expression begins with *)
LEMMA LeadRun ==
  ASSUME source \in Seq(LexToken), Countable, NEW n \in Nat, n < Len(source), Lead(n),
         NEW l \in LfixType, NEW m,
         m = IF n = 0 THEN lfix_zero(l)
             ELSE set_ltempn(lfix_zero(l),
                             (IF Newlines(n) \ {1} = {} THEN n
                              ELSE First(Newlines(n) \ {1})) - 1)
  PROVE  /\ Fixed(n, m.lfix0, m.lfixn)
         /\ Counted(m, n, FALSE, Newlines(n) = {})
         /\ ~InClass(source, n + 1) /\ NoOuterAlt(n) /\ Unclosed(n) = 0
  <1>1. PICK L \in Nat : L = Len(source) /\ n < L
    OBVIOUS
  <1>2. \A i \in 1..n : source[i].k = "literal"
    BY DEF Lead
  <1>3. ~LiteralAt(n + 1)
    BY <1>1 DEF Lead, LiteralAt
  <1>4. \A i \in 0..n : Unclosed(i) = 0
    <2>1. \A i \in 0..n : i \in Nat /\ i <= Len(source) /\ \A x \in 1..i : x \in 1..n
      BY <1>1
    <2>2. QED
      BY <1>2, <2>1, NoneOpened
  <1>5. \A i \in 1..(n + 1) : ~InClass(source, i)
    <2>1. \A i \in 1..(n + 1) : \A x \in 1..(i - 1) : x \in 1..n
      BY <1>1
    <2>2. QED
      BY <1>2, <2>1 DEF InClass
  <1>6. NoOuterAlt(n)
    BY <1>2 DEF NoOuterAlt
  <1>7. PICK z \in LfixType : z = lfix_zero(l)
    BY LfixKept
  <1>8. z.lfix0 = 0 /\ z.lfixn = 0 /\ NoRun(z)
    BY <1>7 DEF lfix_zero, lfix_static, NoRun
  <1>9. CASE n = 0
    <2>1. m = z
      BY <1>7, <1>9
    <2>2. Fixed(n, m.lfix0, m.lfixn)
      BY <1>8, <2>1 DEF Fixed
    <2>3. Counted(m, n, FALSE, Newlines(n) = {})
      BY <1>3, <1>8, <2>1 DEF Counted
    <2>4. n + 1 \in 1..(n + 1) /\ n \in 0..n
      OBVIOUS
    <2>5. QED
      BY <1>4, <1>5, <1>6, <2>2, <2>3, <2>4
  <1>10. CASE n # 0
    <2>1. PICK S : S = Newlines(n) \ {1}
      OBVIOUS
    <2>2. \A i \in S : i \in 2..(n - 1)
      <3>1. \A i \in S : i \in 0..(n - 1) /\ i # 1 /\ source[i + 1].c = NL
        BY <2>1 DEF Newlines
      <3>2. 0 \notin S
        <4>1. 1 \in DOMAIN source /\ source[1].k = "literal" /\ 0 + 1 = 1
          BY <1>1, <1>2, <1>10
        <4>2. source[1].c # NL
          BY <4>1 DEF Countable
        <4>3. QED
          BY <3>1, <4>1, <4>2
      <3>3. QED
        BY <3>1, <3>2
    <2>3. PICK j : j = IF S = {} THEN n ELSE First(S)
      OBVIOUS
    <2>4. j \in 1..n /\ (S = {} => j = n)
      <3>1. CASE S = {}
        BY <1>10, <2>3, <3>1
      <3>2. CASE S # {}
        <4>1. S \subseteq Nat
          BY <2>2
        <4>2. \E i \in S : \A x \in S : i <= x
          BY <3>2, <4>1, LeastNatural
        <4>3. First(S) \in S
          BY <4>2 DEF First
        <4>4. QED
          BY <2>2, <2>3, <3>2, <4>3
      <3>3. QED
        BY <3>1, <3>2
    <2>5. PICK p \in Nat : p = j - 1
      BY <2>4
    <2>6. m = set_ltempn(z, p)
      BY <1>7, <1>10, <2>1, <2>3, <2>5
    <2>7. unsigned(p) = p
      <3>1. Offset(source, 0) \in Nat /\ Offset(source, L) \in Nat
            /\ Offset(source, L) >= Offset(source, 0) + (L - 0)
        BY <1>1, OffsetsGrow
      <3>2. L < UIntSize
        BY <1>1, <3>1 DEF Countable, UIntSize
      <3>3. PICK N \in Nat : N = UIntSize
        BY DEF UIntSize
      <3>4. p < N
        BY <1>1, <2>4, <2>5, <3>2, <3>3
      <3>5. p \in 0..(UIntSize - 1)
        BY <3>3, <3>4
      <3>6. QED
        BY <3>5, Unsigned
    <2>8. m = [z EXCEPT !.ltempn = p]
      BY <2>6, <2>7 DEF set_ltempn
    <2>9. /\ m.lfix0 = 0 /\ m.lfixn = 0 /\ m.ltemp0 = 0 /\ m.ltempn = p
      BY <1>8, <2>8 DEF LfixType, NoRun
    <2>10. Fixed(n, m.lfix0, m.lfixn)
      BY <2>9 DEF Fixed
    <2>11. IsRun(n, 1, j, 0, p)
      <3>1. 1 \in 1..n /\ j \in 1..n /\ p = 0 + (j - 1) /\ 1 - 1 = 0
        BY <2>4, <2>5
      <3>2. Offset(source, 0) = 0
        BY OffsetsAdd
      <3>3. \A x \in 1..j : x \in 1..n /\ x \in 0..n /\ x \in 1..(n + 1)
        BY <2>4
      <3>4. \A x \in 1..j : /\ source[x].k = "literal" /\ ~InClass(source, x)
                            /\ Unclosed(x) = 0
        BY <1>2, <1>4, <1>5, <3>3
      <3>5. QED
        BY <3>1, <3>2, <3>4 DEF IsRun
    <2>12. OpenRun(m, n, Newlines(n) = {})
      <3>1. Newlines(n) = {} => j = n
        BY <2>1, <2>4
      <3>2. \A x \in j..n : x \in 1..n
        BY <2>4
      <3>3. 1 \in 1..n /\ n \in 0..n
        BY <1>10
      <3>4. QED
        BY <1>2, <1>4, <2>4, <2>9, <2>11, <3>1, <3>2, <3>3 DEF OpenRun
    <2>13. QED
      BY <1>1, <1>3, <1>4, <1>5, <1>6, <2>10, <2>12 DEF Counted
  <1>11. QED
    BY <1>9, <1>10

LEMMA BacklogRuns ==
  ASSUME Inv, Placed, Backlog
  PROVE  Runs'
  <1>1. source \in Seq(LexToken) /\ source' = source /\ lfix \in LfixType
    BY SourceRead DEF Backlog, callVars, Inv, TypeOK
  <1>2. state = "backlog" /\ cx = context_init /\ outcome = "none"
    BY DEF Backlog, Lead, Inv
  <1>3. PICK n \in 0..(Len(source) - 1) :
          /\ Lead(n)
          /\ rest' = SubSeq(source, n + 1, Len(source))
          /\ cx' = [AddHead(cx, 1, [i \in 1..n |-> IChar(source[i].c)]) EXCEPT
                      !.operand = [stack |-> 1, at |-> n], !.at = Offset(source, n)]
          /\ lfix' = IF n = 0 THEN lfix_zero(lfix)
                     ELSE set_ltempn(lfix_zero(lfix),
                                     (IF Newlines(n) \ {1} = {} THEN n
                                      ELSE First(Newlines(n) \ {1})) - 1)
          /\ newline_seen' = (Newlines(n) # {})
          /\ state' = "start" /\ UNCHANGED resultVars
    BY DEF Backlog
  <1>4. PICK s \in Seq(LexToken), L \in Nat : s = source /\ L = Len(s) /\ n \in 0..(L - 1)
    BY <1>1
  <1>5. n \in Nat /\ n <= L /\ n < L /\ n + 1 \in 1..L
    BY <1>4
  <1>6. Done' = n
    <2>1. Len(rest') = L - n
      BY <1>3, <1>4, <1>5
    <2>2. QED
      BY <1>1, <1>4, <1>5, <2>1 DEF Done
  <1>7. cx'.at = Offset(source, n) /\ cx'.depth = 0
    <2>1. Marked(cx) /\ cx.depth = 0
      BY <1>2 DEF context_init, Marked
    <2>2. PICK c, lits : lits = [i \in 1..n |-> IChar(source[i].c)] /\ c = AddHead(cx, 1, lits)
      OBVIOUS
    <2>3. Marked(c) /\ c.depth = 0
      BY <2>1, <2>2, MarksAdd DEF SameMarks
    <2>4. PICK op, at : op = [stack |-> 1, at |-> n] /\ at = Offset(source, n)
      OBVIOUS
    <2>5. cx' = [c EXCEPT !.operand = op, !.at = at]
      BY <1>3, <2>2, <2>4
    <2>6. QED
      BY <2>3, <2>4, <2>5 DEF Marked
  <1>8. Countable' <=> Countable
    BY <1>1 DEF Countable
  <1>9. ASSUME Countable
        PROVE  /\ Between(cx, Done, state = "charc", alt_seen)'
               /\ Fixed(Done, lfix.lfix0, lfix.lfixn)'
               /\ Counted(lfix, Done, state = "charc", ~newline_seen)'
    <2>1. PICK m : m = lfix'
      OBVIOUS
    <2>2. n < Len(source)
      BY <1>4, <1>5
    <2>3. /\ Fixed(n, m.lfix0, m.lfixn)
          /\ Counted(m, n, FALSE, Newlines(n) = {})
          /\ ~InClass(source, n + 1) /\ NoOuterAlt(n) /\ Unclosed(n) = 0
      BY <1>1, <1>3, <1>5, <1>9, <2>1, <2>2, LeadRun
    <2>4. Fixed(Done, lfix.lfix0, lfix.lfixn)'
      BY <1>1, <1>6, <2>1, <2>3, FixedKept
    <2>5. Counted(m, n, FALSE, ~newline_seen')
      BY <1>3, <2>3
    <2>6. (state' = "charc") = FALSE
      BY <1>3
    <2>7. Counted(lfix', n, state' = "charc", ~newline_seen')
      BY <2>1, <2>5, <2>6
    <2>8. Counted(lfix, Done, state = "charc", ~newline_seen)'
      BY <1>1, <1>6, <2>7, CountedKept
    <2>9. unsigned(0) = 0
      BY Unsigned
    <2>10. Unclosed(Done)' = 0
      BY <1>1, <1>6, <2>3 DEF Unclosed
    <2>11. NoOuterAlt(Done)'
      BY <1>1, <1>6, <2>3 DEF NoOuterAlt, Unclosed
    <2>12. Between(cx, Done, state = "charc", alt_seen)'
      BY <1>1, <1>6, <1>7, <2>3, <2>6, <2>9, <2>10, <2>11 DEF Between
    <2>13. QED
      BY <2>4, <2>8, <2>12
  <1>10. FixedIsLiteral' /\ state' # "stage2"
    BY <1>2, <1>3 DEF FixedIsLiteral, resultVars
  <1>11. QED
    BY <1>8, <1>9, <1>10 DEF Runs

LEMMA EndRuns ==
  ASSUME Inv, Placed, Runs, End
  PROVE  Runs'
  <1>1. /\ state = "start" /\ rest = <<>> /\ state' = "stage2" /\ source' = source
        /\ outcome' = outcome /\ outcome = "none" /\ lfix' = lfix_stop(lfix)
        /\ span' = IF alt_seen THEN <<0, 0>> ELSE <<lfix'.lfix0, lfix'.lfixn>>
        /\ lfix \in LfixType /\ source \in Seq(LexToken)
    BY SourceRead DEF End, callVars, Inv, TypeOK
  <1>2. PICK n \in Nat : n = Len(source) /\ n = Done
    BY <1>1 DEF Done
  <1>3. ASSUME Countable', span'[1] # span'[2]
        PROVE  (Fixed(Len(source), span[1], span[2]) /\ NoOuterAlt(Len(source)))'
    <2>1. Countable
      BY <1>1, <1>3 DEF Countable
    <2>2. /\ Between(cx, n, FALSE, alt_seen) /\ Fixed(n, lfix.lfix0, lfix.lfixn)
          /\ Counted(lfix, n, FALSE, ~newline_seen)
      BY <1>1, <1>2, <2>1 DEF Runs
    <2>3. Fixed(n, lfix.ltemp0, lfix.ltempn)
      <3>1. NoRun(lfix) \/ OpenRun(lfix, n, ~newline_seen)
        BY <2>2 DEF Counted
      <3>2. ~(n < Len(source))
        BY <1>2
      <3>3. QED
        BY <1>2, <3>1, <3>2, OpenFixed
    <2>4. PICK m : m = lfix'
      OBVIOUS
    <2>5. Fixed(n, m.lfix0, m.lfixn)
      BY <1>1, <2>2, <2>3, <2>4, StopStores
    <2>6. alt_seen # TRUE /\ ~alt_seen
      BY <1>1, <1>3
    <2>7. span'[1] = m.lfix0 /\ span'[2] = m.lfixn
      BY <1>1, <2>4, <2>6
    <2>8. NoOuterAlt(n)
      BY <2>2, <2>6 DEF Between
    <2>9. Fixed(n, span'[1], span'[2])
      BY <2>5, <2>7
    <2>10. NoOuterAlt(Len(source))'
      BY <1>1, <1>2, <2>8 DEF NoOuterAlt, Unclosed
    <2>11. Fixed(Len(source), span[1], span[2])'
      BY <1>1, <1>2, <2>9 DEF Fixed, IsRun, Unclosed, MayVanish
    <2>12. QED
      BY <2>10, <2>11
  <1>4. FixedIsLiteral'
    BY <1>1 DEF FixedIsLiteral
  <1>5. QED
    BY <1>1, <1>3, <1>4 DEF Runs

LEMMA Stage2Runs ==
  ASSUME Inv, Runs, Stage2
  PROVE  Runs'
  <1>1. /\ state = "stage2" /\ state' = "returned" /\ UNCHANGED <<source, span>>
        /\ source \in Seq(LexToken)
    BY SourceRead DEF Stage2, callVars
  <1>2. ASSUME Countable, span[1] # span[2]
        PROVE  /\ \E i, j \in DOMAIN source :
                    /\ span[1] \in {Offset(source, i - 1), Offset(source, i - 1) + source[i].at}
                    /\ i < j /\ span[2] = span[1] + (j - i)
                    /\ \A m \in i..j :
                         source[m].k = "literal" /\ ~InClass(source, m) /\ Unclosed(m) = 0
                    /\ j < Len(source) => ~MayVanish(source[j + 1])
               /\ \A m \in DOMAIN source : source[m].k = "alt" => Unclosed(m) # 0
    <2>1. PICK n \in Nat : n = Len(source) /\ DOMAIN source = 1..n
      BY <1>1
    <2>2. Fixed(n, span[1], span[2]) /\ NoOuterAlt(n)
      BY <1>1, <1>2, <2>1 DEF Runs
    <2>3. PICK i \in 1..n : \E j \in 1..n :
            /\ IsRun(n, i, j, span[1], span[2])
            /\ j < Len(source) => ~MayVanish(source[j + 1])
      BY <1>2, <2>2 DEF Fixed
    <2>4. PICK j \in 1..n :
            /\ IsRun(n, i, j, span[1], span[2])
            /\ j < Len(source) => ~MayVanish(source[j + 1])
      BY <2>3
    <2>5. /\ j \in i..n /\ span[2] = span[1] + (j - i)
          /\ span[1] \in {Offset(source, i - 1), Offset(source, i - 1) + source[i].at}
          /\ \A m \in i..j : /\ source[m].k = "literal" /\ ~InClass(source, m)
                             /\ Unclosed(m) = 0
      BY <2>4 DEF IsRun
    <2>6. i < j
      <3>1. PICK a \in Nat : a = span[1]
        <4>1. /\ Offset(source, i - 1) \in Nat
          BY <1>1, <2>1, OffsetsAdd
        <4>2. source[i] \in LexToken
          BY <1>1, <2>1
        <4>3. source[i].at \in Nat
          BY <4>2 DEF LexToken, Token
        <4>4. QED
          BY <2>5, <4>1, <4>3
      <3>2. QED
        BY <1>2, <2>5, <3>1
    <2>7. QED
      BY <2>1, <2>2, <2>4, <2>5, <2>6 DEF NoOuterAlt
  <1>3. Countable' <=> Countable
    BY <1>1 DEF Countable
  <1>4. FixedIsLiteral'
    BY <1>1, <1>2, <1>3 DEF FixedIsLiteral, Unclosed, MayVanish
  <1>5. QED
    BY <1>1, <1>4 DEF Runs

(* the steps that begin or fail *)
LEMMA OtherRuns ==
  ASSUME Inv, \/ SimpleExpression \/ NextCall
              \/ StrayClassClose \/ StrayGroupClose \/ BadOperator
              \/ UndefinedOperator \/ LexicalError \/ OpenAtEnd
  PROVE  Runs'
  <1>1. state' \in {"returned", "backlog"} /\ outcome' # "ok"
    <2>1. CASE SimpleExpression \/ NextCall
      BY <2>1 DEF SimpleExpression, NextCall
    <2>2. CASE \/ StrayClassClose \/ StrayGroupClose \/ BadOperator
               \/ UndefinedOperator \/ OpenAtEnd
      BY <2>2 DEF StrayClassClose, StrayGroupClose, BadOperator, UndefinedOperator,
         OpenAtEnd, Fail
    <2>3. CASE LexicalError
      BY <2>3 DEF LexicalError, LexErrors, Fail
    <2>4. QED
      BY <2>1, <2>2, <2>3
  <1>2. QED
    BY <1>1 DEF Runs, FixedIsLiteral

LEMMA StutterRuns ==
  ASSUME Runs, UNCHANGED vars
  PROVE  Runs'
  <1>1. UNCHANGED <<source, rest, cx, state, outcome, newline_seen, alt_seen, lfix, span>>
    BY DEF vars
  <1>2. Done' = Done /\ (Countable' <=> Countable)
    BY <1>1 DEF Done, Countable
  <1>3. FixedIsLiteral' <=> FixedIsLiteral
    BY <1>1, <1>2 DEF FixedIsLiteral, Unclosed, MayVanish
  <1>4. /\ Fixed(Done, lfix.lfix0, lfix.lfixn)' <=> Fixed(Done, lfix.lfix0, lfix.lfixn)
        /\ Fixed(Len(source), span[1], span[2])' <=> Fixed(Len(source), span[1], span[2])
    BY <1>1, <1>2 DEF Fixed, IsRun, Unclosed, MayVanish
  <1>5. NoOuterAlt(Len(source))' <=> NoOuterAlt(Len(source))
    BY <1>1 DEF NoOuterAlt, Unclosed
  <1>6. Between(cx, Done, state = "charc", alt_seen)' <=>
          Between(cx, Done, state = "charc", alt_seen)
    BY <1>1, <1>2 DEF Between, NoOuterAlt, Unclosed
  <1>7. Counted(lfix, Done, state = "charc", ~newline_seen) =>
          Counted(lfix, Done, state = "charc", ~newline_seen)'
    <2>1. PICK n : n = Done
      OBVIOUS
    <2>2. Counted(lfix, Done, state = "charc", ~newline_seen) =>
            Counted(lfix', n, state' = "charc", ~newline_seen')
      BY <1>1, <2>1
    <2>3. QED
      BY <1>1, <1>2, <2>1, <2>2, CountedKept
  <1>8. QED
    BY <1>1, <1>2, <1>3, <1>4, <1>5, <1>6, <1>7 DEF Runs

(* While an expression is read lfix.c holds the longest run that was closed *)
(* and the one that is open, and no literal of the first is optional.       *)
THEOREM RunsHold == Spec => []Runs
  <1>1. Init => Runs
    BY DEF Init, InitCall, Runs, FixedIsLiteral
  <1>2. ASSUME Inv, Balanced, Runs, [Next]_vars
        PROVE  Runs'
    <2>1. Placed
      BY <1>2 DEF Balanced
    <2>2. CASE Backlog
      BY <1>2, <2>1, <2>2, BacklogRuns
    <2>3. CASE AnyChar \/ StartAnchor \/ EndAnchor
      BY <1>2, <2>1, <2>3, SingleRuns DEF AnyChar, StartAnchor, EndAnchor
    <2>4. CASE Literal
      BY <1>2, <2>1, <2>4, LiteralRuns
    <2>5. CASE OpenGroup \/ CloseGroup
      BY <1>2, <2>1, <2>5, OpenGroupRuns, CloseGroupRuns
    <2>6. CASE Operator \/ Alternation
      BY <1>2, <2>1, <2>6, OperatorRuns, AlternationRuns
    <2>7. CASE OpenClass \/ ClassLiteral \/ ClassRange \/ CloseClass
      BY <1>2, <2>1, <2>7, OpenClassRuns, ClassRuns
    <2>8. CASE \/ SimpleExpression \/ NextCall
               \/ StrayClassClose \/ StrayGroupClose \/ BadOperator
               \/ UndefinedOperator \/ LexicalError \/ OpenAtEnd
      BY <1>2, <2>8, OtherRuns
    <2>9. CASE End \/ Stage2
      BY <1>2, <2>1, <2>9, EndRuns, Stage2Runs
    <2>10. CASE Idle \/ UNCHANGED vars
      BY <1>2, <2>10, StutterRuns DEF Idle
    <2>11. QED
      BY <1>2, <2>2, <2>3, <2>4, <2>5, <2>6, <2>7, <2>8, <2>9, <2>10 DEF Next
  <1>3. QED
    BY <1>1, <1>2, CompilerInvariance, CompilerBalance, PTL DEF Spec

(* Whatever the tokens, the fixed text a file search looks for is a run of *)
(* literals outside of groups and classes, with no operator behind it that *)
(* makes its last one optional and no alternative to it.                   *)
THEOREM FixedTextIsLiteral == Spec => []FixedIsLiteral
  <1>1. Runs => FixedIsLiteral
    BY DEF Runs
  <1>2. QED
    BY <1>1, RunsHold, PTL

-----------------------------------------------------------------------------
(* What lex makes of a text of seven-bit characters *)

(* a token read at offset i, and no further than the text *)
ReadAt(s, i, tk) ==
  /\ tk \in LexToken
  /\ tk.k \notin LexErrors => tk.w >= 1 /\ i + tk.w <= Len(s)

SevenBit == 1..127

LEMMA SevenBitChars ==
  /\ SevenBit \subseteq Int /\ SevenBit \subseteq Char /\ 0 \notin SevenBit
  /\ \A a, b \in SevenBit : (a..b) \cup (b..a) \subseteq Char
  <1>1. SevenBit \subseteq Int /\ SevenBit \subseteq Char /\ 0 \notin SevenBit
    BY DEF SevenBit, Char, EndChar
  <1>2. ASSUME NEW a \in SevenBit, NEW b \in SevenBit
        PROVE  \A z \in (a..b) \cup (b..a) : z \in SevenBit
    BY DEF SevenBit
  <1>3. QED
    BY <1>1, <1>2

LEMMA CharsOfText ==
  ASSUME NEW s \in Seq(SevenBit), NEW i \in Nat
  PROVE  /\ i < Len(s) => At(s, i) \in SevenBit
         /\ i >= Len(s) => At(s, i) = 0
         /\ At(s, i) \in Int
  <1>1. Len(s) \in Nat
    OBVIOUS
  <1>2. ASSUME i < Len(s) PROVE s[i + 1] \in SevenBit
    BY <1>1, <1>2
  <1>3. At(s, i) = IF i < Len(s) THEN s[i + 1] ELSE 0
    BY DEF At, EndChar
  <1>4. \A c \in SevenBit : c \in Int
    BY SevenBitChars
  <1>5. CASE i < Len(s)
    BY <1>1, <1>2, <1>3, <1>4, <1>5
  <1>6. CASE i >= Len(s)
    BY <1>1, <1>3, <1>6
  <1>7. QED
    BY <1>1, <1>5, <1>6

LEMMA PrintableChar == \A c \in Int : isprintable(c) => c # 0
  BY DEF isprintable, PRINTABLE_LOW, PRINTABLE_HIGH, WS_LOW, WS_HIGH

(* assigning three fields of a token *)
LEMMA FieldsSet ==
  ASSUME NEW kind, NEW c, NEW d, NEW w
  PROVE  [Tok(kind) EXCEPT !.c = c, !.d = d, !.w = w] =
           [k |-> kind, c |-> c, d |-> d, w |-> w, at |-> 0]
  <1>0. PICK r : r = Tok(kind)
    OBVIOUS
  <1> DEFINE q == [r EXCEPT !.c = c, !.d = d, !.w = w]
  <1>1. r = [k |-> kind, c |-> 0, d |-> 0, w |-> 1, at |-> 0]
    BY <1>0 DEF Tok
  <1>2. q = [x \in {"k", "c", "d", "w", "at"} |->
               IF x = "c" THEN c ELSE IF x = "d" THEN d
               ELSE IF x = "w" THEN w ELSE r[x]]
    BY <1>1
  <1>3. q = [k |-> kind, c |-> c, d |-> d, w |-> w, at |-> 0]
    BY <1>1, <1>2
  <1>4. QED
    BY <1>0, <1>3

LEMMA RepMade ==
  ASSUME NEW c, NEW d, NEW i, NEW n
  PROVE  Ends_at(TRep(c, d), i, n) =
           [k |-> "rep", c |-> c, d |-> d, w |-> n - i, at |-> 0]
  <1> DEFINE w == 5 - (IF c < 0 THEN 1 ELSE 0)
                    - (IF d = REP_NO_FIELD THEN 2 ELSE IF d < 0 THEN 1 ELSE 0)
  <1>1. PICK r : r = TRep(c, d)
    OBVIOUS
  <1>2. TRep(c, d) = [Tok("rep") EXCEPT !.c = c, !.d = d, !.w = w]
    BY DEF TRep
  <1> HIDE DEF w
  <1>3. r = [k |-> "rep", c |-> c, d |-> d, w |-> w, at |-> 0]
    BY <1>1, <1>2, FieldsSet
  <1>4. [r EXCEPT !.w = n - i] =
          [k |-> "rep", c |-> c, d |-> d, w |-> n - i, at |-> 0]
    BY <1>3
  <1>5. QED
    BY <1>1, <1>4 DEF Ends_at

LEMMA ErrorRead ==
  ASSUME NEW s, NEW i, NEW err \in LexErrors
  PROVE  ReadAt(s, i, Error(err))
  BY DEF ReadAt, Error, Tok, LexToken, Token, Kinds, LexErrors

LEMMA LiteralRead ==
  ASSUME NEW s \in Seq(SevenBit), NEW i \in Nat, NEW j \in {i, i + 1},
         j < Len(s)
  PROVE  ReadAt(s, i, Ends_at([TLit(At(s, j)) EXCEPT !.at = j - i], i, j + 1))
  <1> DEFINE tk == Ends_at([TLit(At(s, j)) EXCEPT !.at = j - i], i, j + 1)
  <1>1. tk = [k |-> "literal", c |-> At(s, j), d |-> 0, w |-> j + 1 - i,
              at |-> j - i]
    <2>1. PICK r : r = TLit(At(s, j))
      OBVIOUS
    <2>2. r = [k |-> "literal", c |-> At(s, j), d |-> 0, w |-> 1, at |-> 0]
      BY <2>1 DEF TLit, Tok
    <2>3. PICK q : q = [r EXCEPT !.at = j - i]
      OBVIOUS
    <2>4. q = [k |-> "literal", c |-> At(s, j), d |-> 0, w |-> 1, at |-> j - i]
      BY <2>2, <2>3
    <2>5. tk = [q EXCEPT !.w = j + 1 - i]
      <3>1. tk = Ends_at(q, i, j + 1)
        BY <2>1, <2>3
      <3> HIDE DEF tk
      <3>2. QED
        BY <3>1 DEF Ends_at
    <2>6. QED
      BY <2>4, <2>5
  <1>2. At(s, j) \in Char /\ At(s, j) \in Int
    <2>1. j \in Nat
      OBVIOUS
    <2>2. At(s, j) \in SevenBit
      BY <2>1, CharsOfText
    <2>3. QED
      BY <2>2, SevenBitChars
  <1>3. "literal" \in Kinds /\ Len(s) \in Nat
    BY DEF Kinds
  <1>4. j + 1 - i \in Nat /\ j + 1 - i >= 1 /\ j - i \in Nat
        /\ i + (j + 1 - i) <= Len(s)
    BY <1>3
  <1> HIDE DEF tk
  <1>5. tk \in Token
    BY <1>1, <1>2, <1>3, <1>4 DEF Token
  <1>6. tk \in LexToken
    BY <1>1, <1>2, <1>5 DEF LexToken
  <1>7. ReadAt(s, i, tk)
    BY <1>1, <1>4, <1>6 DEF ReadAt
  <1>8. QED
    BY <1>7 DEF tk

LEMMA RangeRead ==
  ASSUME NEW s \in Seq(SevenBit), NEW i \in Nat, NEW j \in {i, i + 1},
         j < Len(s)
  PROVE  ReadAt(s, i, LexRange(s, i, j))
  <1> DEFINE escaped == At(s, j + 2) = DEREF_SYM
             k == IF escaped THEN j + 3 ELSE j + 2
             c == At(s, k)
             tk == Ends_at([TRange(At(s, j), RangeBound(s, j)) EXCEPT !.at = j - i],
                           i, k + 1)
  <1>1. LexRange(s, i, j) =
          IF At(s, j + 2) = EndChar THEN Error("EINVAL")
          ELSE IF escaped /\ c = EndChar THEN Error("ETRAIL")
          ELSE IF isprintable(c) /\ (escaped \/ c \notin isreserved)
          THEN tk ELSE Error("ERANGE")
    BY DEF LexRange
  <1>2. ReadAt(s, i, Error("EINVAL")) /\ ReadAt(s, i, Error("ETRAIL"))
        /\ ReadAt(s, i, Error("ERANGE"))
    BY ErrorRead DEF LexErrors
  <1>3. ASSUME isprintable(c) PROVE ReadAt(s, i, tk)
    <2>0. PICK n : n = k + 1
      OBVIOUS
    <2>1. k \in Nat /\ j \in Nat /\ k >= j + 2 /\ Len(s) \in Nat
      OBVIOUS
    <2>2. At(s, j) \in SevenBit /\ c \in SevenBit /\ k < Len(s)
      <3> HIDE DEF k
      <3>1. QED
        BY <1>3, <2>1, CharsOfText, PrintableChar
    <2>3. RangeBound(s, j) = c
      BY DEF RangeBound
    <2>4. tk = [k |-> "char_range", c |-> At(s, j), d |-> c, w |-> n - i,
                at |-> j - i]
      <3>1. PICK r : r = TRange(At(s, j), c)
        OBVIOUS
      <3>2. r = [k |-> "char_range", c |-> At(s, j), d |-> c, w |-> 3, at |-> 0]
        BY <3>1, FieldsSet DEF TRange
      <3>3. PICK q : q = [r EXCEPT !.at = j - i]
        OBVIOUS
      <3>4. q = [k |-> "char_range", c |-> At(s, j), d |-> c, w |-> 3,
                 at |-> j - i]
        BY <3>2, <3>3
      <3>5. tk = [q EXCEPT !.w = n - i]
        <4>1. tk = Ends_at(q, i, n)
          BY <2>0, <2>3, <3>1, <3>3
        <4> HIDE DEF tk, k, c
        <4>2. QED
          BY <4>1 DEF Ends_at
      <3> HIDE DEF tk, k, c
      <3>6. QED
        BY <3>4, <3>5
    <2>5. (At(s, j)..c) \cup (c..At(s, j)) \subseteq Char
      <3> HIDE DEF c
      <3>1. QED
        BY <2>2, SevenBitChars
    <2>6. "char_range" \in Kinds
      BY DEF Kinds
    <2>7. /\ n - i \in Nat /\ n - i >= 1 /\ i + (n - i) <= Len(s)
          /\ j - i \in Nat /\ j - i < n - i
      <3> HIDE DEF k
      <3>1. QED
        BY <2>0, <2>1, <2>2
    <2> HIDE DEF tk, c, k, escaped
    <2>8. tk \in Token
      BY <2>2, <2>4, <2>6, <2>7, SevenBitChars DEF Token
    <2>9. tk \in LexToken
      BY <2>4, <2>5, <2>7, <2>8 DEF LexToken
    <2>10. QED
      BY <2>4, <2>7, <2>9 DEF ReadAt
  <1> HIDE DEF tk, c, k, escaped
  <1>4. QED
    BY <1>1, <1>2, <1>3

(* A number has a value; none is written with no digits. *)
LEMMA NumberValue ==
  ASSUME NEW digits \in Seq(Digits)
  PROVE  Number(digits) \in Nat \/ (digits = <<>> /\ Number(digits) = REP_NO_FIELD)
  <1> DEFINE n == Len(digits)
             Equation(val) ==
               val = [i \in 0..Len(digits) |->
                        IF i = 0 THEN 0 ELSE 10 * val[i - 1] + digits[i] - 48]
             Step == [i \in (0 + 1)..n |-> [v \in Nat |-> 10 * v + digits[i] - 48]]
  <1>1. n \in Nat /\ n \in Int /\ 0 \in Int /\ 0 \in Nat
    OBVIOUS
  <1>2. \A i \in 1..n : digits[i] - 48 \in Nat
    BY DEF Digits
  <1>3. Step \in [(0 + 1)..n -> [Nat -> Nat]]
    BY <1>2
  <1>4. \A i \in 1..n : \A v \in Nat : Step[i][v] = 10 * v + digits[i] - 48
    OBVIOUS
  <1> HIDE DEF Step
  <1>5. PICK f \in [0..n -> Nat] : Stepwise(f, 0, n, 0, Step)
    BY <1>1, <1>3, StepwiseExists
  <1>6. Equation(f)
    <2>1. ASSUME NEW i \in 0..n
          PROVE  f[i] = IF i = 0 THEN 0 ELSE 10 * f[i - 1] + digits[i] - 48
      <3>1. i # 0 => i \in 1..n /\ f[i - 1] \in Nat
        BY <1>1
      <3>2. f[i] = IF i = 0 THEN 0 ELSE Step[i][f[i - 1]]
        BY <1>5 DEF Stepwise
      <3>3. QED
        BY <1>4, <3>1, <3>2
    <2>2. f = [i \in 0..n |-> f[i]]
      OBVIOUS
    <2>3. [i \in 0..n |-> f[i]] =
            [i \in 0..n |-> IF i = 0 THEN 0 ELSE 10 * f[i - 1] + digits[i] - 48]
      BY <2>1
    <2>4. QED
      BY <2>2, <2>3
  <1> DEFINE val == CHOOSE g : Equation(g)
  <1>7. Number(digits) = IF digits = <<>> THEN REP_NO_FIELD ELSE val[n]
    BY DEF Number
  <1>8. Equation(val)
    <2> HIDE DEF Equation
    <2>1. QED
      BY <1>6
  <1> DEFINE Numeric == {i \in 0..n : val[i] \in Nat}
  <1>9. 0..n \subseteq Numeric
    <2>1. 0 \in Numeric
      <3> HIDE DEF val
      <3>1. val[0] = 0 /\ 0 \in 0..n
        BY <1>1, <1>8
      <3>2. QED
        BY <3>1
    <2>2. ASSUME NEW i \in 0..(n - 1), i \in Numeric
          PROVE  i + 1 \in Numeric
      <3>1. i + 1 \in 1..n /\ i + 1 # 0 /\ i + 1 \in 0..n /\ (i + 1) - 1 = i
        BY <1>1
      <3>2. val[i + 1] = 10 * val[(i + 1) - 1] + digits[i + 1] - 48
        BY <1>8, <3>1
      <3> HIDE DEF val
      <3>3. val[i] \in Nat /\ digits[i + 1] - 48 \in Nat
        BY <1>2, <2>2, <3>1
      <3>4. 10 * val[i] + digits[i + 1] - 48 \in Nat
        BY <3>1, <3>3 DEF Digits
      <3>5. QED
        BY <3>1, <3>2, <3>4
    <2> HIDE DEF Numeric
    <2>3. QED
      BY <1>1, <2>1, <2>2, IntervalInduction
  <1>10. n \in 0..n
    BY <1>1
  <1> HIDE DEF val
  <1>11. val[n] \in Nat
    BY <1>9, <1>10
  <1>12. QED
    BY <1>7, <1>11


(* parse_rep makes a repetition with a number of any field of digits, at   *)
(* most one comma, and a digit at one end.                                 *)
RepField(field) ==
  /\ field \in Seq(Digits \cup {COMMA})
  /\ \A x, y \in 1..Len(field) : field[x] = COMMA /\ field[y] = COMMA => x = y
  /\ field # <<>> /\ (field[1] \in Digits \/ field[Len(field)] \in Digits)

LEMMA FieldParts ==
  ASSUME NEW field, RepField(field), NEW a \in 1..(Len(field) + 1), NEW b \in 0..Len(field),
         \A x \in a..b : field[x] # COMMA
  PROVE  /\ SubSeq(field, a, b) \in Seq(Digits)
         /\ a <= b => SubSeq(field, a, b) # <<>>
  <1> DEFINE part == SubSeq(field, a, b)
  <1>1. PICK S : S = Digits \cup {COMMA}
    OBVIOUS
  <1>2. field \in Seq(S) /\ Len(field) \in Nat
    BY <1>1 DEF RepField
  <1>3. part \in Seq(S) /\ Len(part) = IF a <= b THEN b - a + 1 ELSE 0
    BY <1>2
  <1>4. \A x \in 1..Len(part) : part[x] = field[a + x - 1] /\ a + x - 1 \in a..b
    BY <1>2, <1>3
  <1>5. \A x \in 1..Len(part) : part[x] \in Digits
    <2>1. \A x \in a..b : field[x] \in S
      BY <1>2
    <2>2. QED
      BY <1>1, <1>4, <2>1
  <1> HIDE DEF part
  <1>6. part \in Seq(Digits)
    <2>1. Len(part) \in Nat
      BY <1>3
    <2>2. part = [x \in 1..Len(part) |-> part[x]]
      BY <1>3
    <2>3. QED
      BY <1>5, <2>1, <2>2
  <1>7. a <= b => part # <<>>
    BY <1>3
  <1>8. QED
    BY <1>6, <1>7 DEF part

LEMMA RepParsed ==
  ASSUME NEW field, RepField(field)
  PROVE  \E c \in Int : \E d \in Int :
           parse_rep(field) = TRep(c, d) /\ RepBounds(c, d)
  <1>0. RepField(field)
    OBVIOUS
  <1> DEFINE commas == {i \in DOMAIN field : field[i] = COMMA}
             comma == CHOOSE i \in commas : TRUE
             first == SubSeq(field, 1, comma - 1)
             second == SubSeq(field, comma + 1, Len(field))
             orEmpty(val) == IF val = REP_NO_FIELD THEN REP_FIELD_EMPTY ELSE val
  <1>1. parse_rep(field) =
          IF commas = {} THEN TRep(Number(field), REP_NO_FIELD)
          ELSE TRep(orEmpty(Number(first)), orEmpty(Number(second)))
    BY DEF parse_rep
  <1>2. Len(field) \in Nat /\ Len(field) >= 1 /\ DOMAIN field = 1..Len(field)
    BY <1>0 DEF RepField
  <1>3. CASE commas = {}
    <2>1. \A x \in 1..Len(field) : field[x] # COMMA
      BY <1>2, <1>3
    <2>2. field \in Seq(Digits)
      <3>1. SubSeq(field, 1, Len(field)) \in Seq(Digits)
        BY <1>0, <1>2, <2>1, FieldParts
      <3>2. SubSeq(field, 1, Len(field)) = field
        BY <1>0 DEF RepField
      <3>3. QED
        BY <3>1, <3>2
    <2>3. Number(field) \in Nat
      BY <1>0, <2>2, NumberValue DEF RepField
    <2>4. PICK c \in Int, d \in Int : c = Number(field) /\ d = REP_NO_FIELD
      BY <2>3 DEF REP_NO_FIELD
    <2>5. RepBounds(c, d)
      BY <2>3, <2>4 DEF RepBounds
    <2>6. QED
      BY <1>1, <1>3, <2>4, <2>5
  <1>4. CASE commas # {}
    <2>1. PICK m : m = comma /\ m \in 1..Len(field) /\ field[m] = COMMA
      BY <1>2, <1>4
    <2>2. \A x \in 1..Len(field) : field[x] = COMMA => x = m
      BY <1>0, <1>2, <2>1 DEF RepField
    <2>3. PICK u, v : u = first /\ v = second
      OBVIOUS
    <2>4. u \in Seq(Digits) /\ (m # 1 => u # <<>>)
      <3>1. \A x \in 1..(m - 1) : field[x] # COMMA
        <4>1. m \in Nat /\ m <= Len(field) /\ m >= 1
          BY <1>2, <2>1
        <4>2. \A x \in 1..(m - 1) : x \in 1..Len(field) /\ x # m
          BY <1>2, <4>1
        <4>3. QED
          BY <2>2, <4>2
      <3>2. 1 \in 1..(Len(field) + 1) /\ m - 1 \in 0..Len(field)
        BY <1>2, <2>1
      <3>3. u = SubSeq(field, 1, m - 1)
        BY <2>1, <2>3
      <3> HIDE DEF comma, first, second
      <3>4. QED
        BY <1>0, <1>2, <2>1, <3>1, <3>2, <3>3, FieldParts
    <2>5. v \in Seq(Digits) /\ (m # Len(field) => v # <<>>)
      <3>0. PICK n : n = m + 1
        OBVIOUS
      <3>1. \A x \in n..Len(field) : field[x] # COMMA
        <4>1. m \in Nat /\ m <= Len(field) /\ m >= 1
          BY <1>2, <2>1
        <4>2. \A x \in n..Len(field) : x \in 1..Len(field) /\ x # m
          BY <1>2, <3>0, <4>1
        <4>3. QED
          BY <2>2, <4>2
      <3>2. n \in 1..(Len(field) + 1) /\ Len(field) \in 0..Len(field)
        BY <1>2, <2>1, <3>0
      <3>3. v = SubSeq(field, n, Len(field)) /\ (m # Len(field) => n <= Len(field))
        BY <1>2, <2>1, <2>3, <3>0
      <3> HIDE DEF comma, first, second
      <3>4. QED
        BY <1>0, <3>1, <3>2, <3>3, FieldParts
    <2> HIDE DEF comma, first, second
    <2>6. m # 1 \/ m # Len(field)
      BY <1>0, <2>1 DEF RepField, Digits, COMMA
    <2>7. /\ Number(u) \in Nat \/ (u = <<>> /\ Number(u) = REP_NO_FIELD)
          /\ Number(v) \in Nat \/ (v = <<>> /\ Number(v) = REP_NO_FIELD)
      BY <2>4, <2>5, NumberValue
    <2>8. PICK c, d : c = orEmpty(Number(u)) /\ d = orEmpty(Number(v))
      OBVIOUS
    <2>9. /\ c \in Int /\ d \in Int
          /\ c \in Nat \cup {REP_FIELD_EMPTY} /\ d \in Nat \cup {REP_FIELD_EMPTY}
          /\ Number(u) \in Nat => c \in Nat
          /\ Number(v) \in Nat => d \in Nat
      BY <2>7, <2>8 DEF REP_NO_FIELD, REP_FIELD_EMPTY
    <2>10. Number(u) \in Nat \/ Number(v) \in Nat
      BY <2>4, <2>5, <2>6, <2>7
    <2>11. parse_rep(field) = TRep(c, d)
      BY <1>1, <1>4, <2>3, <2>8
    <2>12. RepBounds(c, d)
      BY <2>9, <2>10 DEF RepBounds
    <2>13. QED
      BY <2>9, <2>11, <2>12
  <1>5. QED
    BY <1>3, <1>4

LEMMA RepRead ==
  ASSUME NEW s \in Seq(SevenBit), NEW i \in Nat, At(s, i) = REP_OPEN_SYM
  PROVE  ReadAt(s, i, LexRep(s, i))
  <1> DEFINE comma(k) == \E j \in (i + 1)..(k - 1) : At(s, j) = COMMA
             stop(k) == \/ At(s, k) \notin Digits \cup {COMMA}
                        \/ At(s, k) = COMMA /\ comma(k)
             IsStop(n) == /\ n \in (i + 1)..Len(s)
                          /\ stop(n) /\ \A j \in (i + 1)..(n - 1) : ~stop(j)
             k == CHOOSE n \in (i + 1)..Len(s) :
                    stop(n) /\ \A j \in (i + 1)..(n - 1) : ~stop(j)
             field == SubSeq(s, i + 2, k)
  <1>0. PICK tk : tk = Ends_at(parse_rep(field), i, k + 1)
    OBVIOUS
  <1>1. LexRep(s, i) =
          CASE At(s, k) = REP_CLOSE_SYM ->
                 IF At(s, k - 1) \in Digits \/ At(s, i + 1) \in Digits
                 THEN tk ELSE Error("MREP")
            [] At(s, k) = COMMA -> Error("ECOMMA")
            [] At(s, k) = EndChar -> Error("EREP")
            [] OTHER -> Error("EDIGIT")
    BY <1>0 DEF LexRep
  <1>2. Len(s) \in Nat /\ i < Len(s) /\ At(s, i) \notin Digits
    BY CharsOfText DEF REP_OPEN_SYM, Digits
  <1>3. IsStop(k)
    <2> DEFINE T == {n \in (i + 1)..Len(s) : stop(n)}
    <2>1. Len(s) \in T
      <3>1. At(s, Len(s)) = 0
        BY <1>2, CharsOfText
      <3>2. At(s, Len(s)) \notin Digits \cup {COMMA}
        BY <3>1 DEF Digits, COMMA
      <3>3. stop(Len(s)) /\ Len(s) \in (i + 1)..Len(s)
        BY <1>2, <3>2
      <3> HIDE DEF stop
      <3>4. QED
        BY <3>3
    <2> HIDE DEF stop
    <2>2. T \in SUBSET Nat /\ T # {}
      BY <1>2, <2>1
    <2>3. PICK n \in T : \A m \in T : n <= m
      BY <2>2, LeastNatural
    <2>4. n \in (i + 1)..Len(s) /\ stop(n) /\ n \in Int
      BY <1>2, <2>3
    <2>5. \A j \in (i + 1)..(n - 1) : j \in (i + 1)..Len(s) /\ ~(n <= j)
      BY <1>2, <2>4
    <2>6. \A j \in (i + 1)..(n - 1) : ~stop(j)
      BY <2>3, <2>5
    <2>7. QED
      BY <2>4, <2>6
  <1>4. PICK m : m = k
    OBVIOUS
  <1>5. /\ m \in (i + 1)..Len(s) /\ m \in Nat
        /\ \A j \in (i + 1)..(m - 1) : ~stop(j)
    <2>1. IsStop(m)
      BY <1>3, <1>4
    <2> HIDE DEF k, stop
    <2>2. QED
      BY <1>2, <2>1
  <1>6. \A j \in (i + 1)..(m - 1) :
          At(s, j) \in Digits \cup {COMMA} /\ (At(s, j) = COMMA => ~comma(j))
    BY <1>5
  <1> HIDE DEF k, stop, IsStop
  <1>7. ASSUME At(s, m) = REP_CLOSE_SYM,
               At(s, m - 1) \in Digits \/ At(s, i + 1) \in Digits
        PROVE  ReadAt(s, i, tk)
    <2>1. m < Len(s)
      BY <1>2, <1>5, <1>7, CharsOfText DEF REP_CLOSE_SYM
    <2>2. m # i + 1
      <3>1. ASSUME m = i + 1 PROVE FALSE
        <4>1. At(s, m - 1) = At(s, i) /\ At(s, i + 1) = REP_CLOSE_SYM
          <5>1. m - 1 = i
            BY <3>1
          <5>2. QED
            BY <1>7, <3>1, <5>1
        <4>2. QED
          BY <1>2, <1>7, <4>1 DEF REP_CLOSE_SYM, Digits
      <3>2. QED
        BY <3>1
    <2>3. PICK f : f = field
      OBVIOUS
    <2>4. PICK L : L = m - i - 1
      OBVIOUS
    <2>5. L \in Nat /\ L >= 1
      BY <1>5, <2>2, <2>4
    <2>6. f = SubSeq(s, i + 2, m)
      BY <1>4, <2>3
    <2> HIDE DEF field
    <2>7. f \in Seq(SevenBit) /\ Len(f) = L /\ \A x \in 1..L : f[x] = s[i + 1 + x]
      BY <1>2, <1>5, <2>1, <2>4, <2>5, <2>6
    <2>8. \A x \in 1..L : f[x] = At(s, i + x) /\ i + x \in (i + 1)..(m - 1)
      <3>1. \A x \in 1..L : i + x < Len(s) /\ (i + x) + 1 = i + 1 + x
                            /\ i + x \in (i + 1)..(m - 1)
        BY <1>2, <1>5, <2>1, <2>4, <2>5
      <3>2. \A x \in 1..L : At(s, i + x) = s[(i + x) + 1]
        BY <3>1 DEF At
      <3>3. QED
        BY <2>7, <3>1, <3>2
    <2>9. \A x \in 1..L : f[x] \in Digits \cup {COMMA}
      BY <1>6, <2>8
    <2>10. f \in Seq(Digits \cup {COMMA})
      <3>1. PICK S : S = Digits \cup {COMMA}
        OBVIOUS
      <3>2. f = [x \in 1..L |-> f[x]]
        BY <2>5, <2>7
      <3>3. f \in Seq(S)
        BY <2>5, <2>9, <3>1, <3>2
      <3>4. QED
        BY <3>1, <3>3
    <2>11. \A x, y \in 1..L : x < y /\ f[y] = COMMA => f[x] # COMMA
      <3>1. SUFFICES ASSUME NEW x \in 1..L, NEW y \in 1..L, x < y, f[y] = COMMA
                     PROVE  f[x] # COMMA
        OBVIOUS
      <3>2. i + x \in (i + 1)..((i + y) - 1)
        BY <2>5, <3>1
      <3>3. ~comma(i + y)
        BY <1>6, <2>8, <3>1
      <3>4. QED
        BY <2>8, <3>2, <3>3
    <2>12. \A x, y \in 1..L : f[x] = COMMA /\ f[y] = COMMA => x = y
      <3>1. \A x, y \in 1..L : x < y \/ y < x \/ x = y
        BY <2>5
      <3>2. QED
        BY <2>11, <3>1
    <2>13. f # <<>> /\ (f[1] \in Digits \/ f[Len(f)] \in Digits)
      <3>1. 1 \in 1..L /\ L \in 1..L /\ i + L = m - 1 /\ Len(f) = L
        BY <1>5, <2>4, <2>5, <2>7
      <3>2. f[1] = At(s, i + 1) /\ f[L] = At(s, m - 1)
        BY <2>8, <3>1
      <3>3. f # <<>>
        BY <2>5, <2>7
      <3>4. QED
        BY <1>7, <3>1, <3>2, <3>3
    <2>14. RepField(f)
      BY <2>7, <2>10, <2>12, <2>13 DEF RepField
    <2>15. PICK c \in Int : \E d \in Int :
             parse_rep(f) = TRep(c, d) /\ RepBounds(c, d)
      BY <2>14, RepParsed
    <2>16. PICK d \in Int : parse_rep(f) = TRep(c, d) /\ RepBounds(c, d)
      BY <2>15
    <2>17. PICK n : n = m + 1
      OBVIOUS
    <2>18. tk = [k |-> "rep", c |-> c, d |-> d, w |-> n - i, at |-> 0]
      <3>1. tk = Ends_at(TRep(c, d), i, n)
        BY <1>0, <1>4, <2>3, <2>16, <2>17
      <3>2. QED
        BY <3>1, RepMade
    <2>19. n - i \in Nat /\ n - i >= 1 /\ 0 < n - i /\ i + (n - i) <= Len(s) /\ 0 \in Nat
      BY <1>2, <1>5, <2>1, <2>17
    <2>20. "rep" \in Kinds
      BY DEF Kinds
    <2>21. tk \in Token
      BY <2>18, <2>19, <2>20 DEF Token
    <2>22. tk \in LexToken
      BY <2>16, <2>18, <2>19, <2>21 DEF LexToken
    <2>23. ReadAt(s, i, tk)
      BY <2>18, <2>19, <2>22 DEF ReadAt
    <2>24. QED
      BY <2>23
  <1>8. /\ ReadAt(s, i, Error("MREP")) /\ ReadAt(s, i, Error("ECOMMA"))
        /\ ReadAt(s, i, Error("EREP")) /\ ReadAt(s, i, Error("EDIGIT"))
    BY ErrorRead DEF LexErrors
  <1>9. PICK closed \in BOOLEAN :
           closed = (/\ At(s, m) = REP_CLOSE_SYM
                     /\ At(s, m - 1) \in Digits \/ At(s, i + 1) \in Digits)
    OBVIOUS
  <1>10. closed => ReadAt(s, i, tk)
    BY <1>7, <1>9
  <1>11. /\ closed => LexRep(s, i) = tk
         /\ ~closed => LexRep(s, i) \in {Error("MREP"), Error("ECOMMA"), Error("EREP"),
                                        Error("EDIGIT")}
    <2> HIDE DEF field, comma
    <2>1. ASSUME closed PROVE LexRep(s, i) = tk
      <3>1. At(s, m) = 125
        BY <1>9, <2>1 DEF REP_CLOSE_SYM
      <3>2. At(s, k) = 125
        BY <1>4, <3>1
      <3>3. At(s, k - 1) \in Digits \/ At(s, i + 1) \in Digits
        BY <1>4, <1>9, <2>1
      <3> HIDE DEF k
      <3>4. QED
        BY <1>1, <3>2, <3>3 DEF REP_CLOSE_SYM, COMMA, EndChar
    <2>2. ~closed => LexRep(s, i) \in {Error("MREP"), Error("ECOMMA"), Error("EREP"),
                                       Error("EDIGIT")}
      BY <1>1, <1>4, <1>9
    <2>3. QED
      BY <2>1, <2>2
  <1>12. QED
    BY <1>8, <1>10, <1>11

LEMMA ReservedRead ==
  ASSUME NEW s \in Seq(SevenBit), NEW i \in Nat, i < Len(s),
         NEW kind \in {"charc_open", "charc_close"} \cup {Symbol[c] : c \in DOMAIN Symbol}
  PROVE  ReadAt(s, i, Tok(kind))
  <1>1. PICK tk : tk = Tok(kind)
    OBVIOUS
  <1>2. tk = [k |-> kind, c |-> 0, d |-> 0, w |-> 1, at |-> 0]
    BY <1>1 DEF Tok
  <1>3. kind \in Kinds
    BY DEF Kinds
  <1>4. kind \notin {"literal", "char_range", "rep"}
    <2>1. \A c \in DOMAIN Symbol : Symbol[c] \notin {"literal", "char_range", "rep"}
      BY DEF Symbol
    <2>2. QED
      BY <2>1
  <1>5. tk \in Token
    BY <1>2, <1>3 DEF Token
  <1>6. tk \in LexToken
    BY <1>2, <1>4, <1>5 DEF LexToken
  <1>7. Len(s) \in Nat /\ i + 1 <= Len(s)
    OBVIOUS
  <1>8. QED
    BY <1>1, <1>2, <1>6, <1>7 DEF ReadAt

LEMMA LexLiteralRead ==
  ASSUME NEW s \in Seq(SevenBit), NEW i \in Nat, NEW j \in {i, i + 1},
         j < Len(s), NEW literal \in BOOLEAN
  PROVE  ReadAt(s, i, LexLiteral(s, i, j, literal))
  <1> DEFINE tk == Ends_at([TLit(At(s, j)) EXCEPT !.at = j - i], i, j + 1)
  <1>1. ReadAt(s, i, Error("ERANGE"))
    BY ErrorRead DEF LexErrors
  <1>2. ReadAt(s, i, LexRange(s, i, j))
    BY RangeRead
  <1>3. ReadAt(s, i, tk)
    BY LiteralRead
  <1>4. LexLiteral(s, i, j, literal) \in {Error("ERANGE"), LexRange(s, i, j), tk}
    BY DEF LexLiteral
  <1> HIDE DEF tk
  <1>5. QED
    BY <1>1, <1>2, <1>3, <1>4

(* One call of lex makes a token and stays in the text. *)
LEMMA LexRead ==
  ASSUME NEW s \in Seq(SevenBit), NEW i \in Nat, i < Len(s), NEW literal \in BOOLEAN
  PROVE  ReadAt(s, i, lex(s, i, literal))
  <1>1. PICK c : c = At(s, i)
    OBVIOUS
  <1>2. PICK tk : tk = lex(s, i, literal)
    OBVIOUS
  <1>3. tk =
          CASE c = DEREF_SYM ->
                 IF At(s, i + 1) = EndChar THEN Error("ETRAIL")
                 ELSE LexLiteral(s, i, i + 1, literal)
            [] c = CHARC_CLOSE_SYM -> Tok("charc_close")
            [] ~literal /\ c = CHARC_OPEN_SYM -> Tok("charc_open")
            [] ~literal /\ c = REP_OPEN_SYM -> LexRep(s, i)
            [] ~literal /\ c \in DOMAIN Symbol -> Tok(Symbol[c])
            [] c \notin {DEREF_SYM, CHARC_CLOSE_SYM} /\ ~isprintable(c) -> Error("EINVAL")
            [] OTHER -> LexLiteral(s, i, i, literal)
    BY <1>1, <1>2 DEF lex
  <1>4. ReadAt(s, i, Error("ETRAIL")) /\ ReadAt(s, i, Error("EINVAL"))
    BY ErrorRead DEF LexErrors
  <1>5. ReadAt(s, i, Tok("charc_close")) /\ ReadAt(s, i, Tok("charc_open"))
    BY ReservedRead
  <1>6. c \in DOMAIN Symbol => ReadAt(s, i, Tok(Symbol[c]))
    BY ReservedRead
  <1>7. c = REP_OPEN_SYM => ReadAt(s, i, LexRep(s, i))
    BY <1>1, RepRead
  <1>8. ReadAt(s, i, LexLiteral(s, i, i, literal))
    BY LexLiteralRead
  <1>9. At(s, i + 1) # EndChar => ReadAt(s, i, LexLiteral(s, i, i + 1, literal))
    <2>1. i + 1 \in Nat /\ Len(s) \in Nat
      OBVIOUS
    <2>2. At(s, i + 1) # EndChar => i + 1 < Len(s)
      BY <2>1, CharsOfText DEF EndChar
    <2>3. QED
      BY <2>1, <2>2, LexLiteralRead
  <1>10. ReadAt(s, i, tk)
    <2>1. \/ tk = Error("ETRAIL") \/ tk = Error("EINVAL")
          \/ tk = Tok("charc_close") \/ tk = Tok("charc_open")
          \/ c \in DOMAIN Symbol /\ tk = Tok(Symbol[c])
          \/ c = REP_OPEN_SYM /\ tk = LexRep(s, i)
          \/ tk = LexLiteral(s, i, i, literal)
          \/ At(s, i + 1) # EndChar /\ tk = LexLiteral(s, i, i + 1, literal)
      BY <1>3
    <2>2. QED
      BY <1>4, <1>5, <1>6, <1>7, <1>8, <1>9, <2>1
  <1>11. QED
    BY <1>2, <1>10

(* Lexed takes its value from a function of the places of the text, each   *)
(* place an offset and whether a class is open there.                      *)
LexPlaces(s) == (0..Len(s)) \X BOOLEAN
LexNext(s, p) ==
  LET next == lex(s, p[1], p[2])
  IN  <<p[1] + next.w, LiteralAfter(next, p[2])>>
LexFrom(s, g, p) ==
  IF p[1] = Len(s) THEN <<>>
  ELSE IF lex(s, p[1], p[2]).k \in LexErrors THEN <<lex(s, p[1], p[2])>>
  ELSE <<lex(s, p[1], p[2])>> \o g[LexNext(s, p)]

(* what follows a token is read from a later place *)
LEMMA LexAdvances ==
  ASSUME NEW s \in Seq(SevenBit), NEW p \in LexPlaces(s), p[1] # Len(s)
  PROVE  /\ lex(s, p[1], p[2]) \in LexToken
         /\ lex(s, p[1], p[2]).k \notin LexErrors =>
              LexNext(s, p) \in LexPlaces(s) /\ LexNext(s, p)[1] > p[1]
  <1>1. PICK i : i = p[1]
    OBVIOUS
  <1>2. PICK literal : literal = p[2]
    OBVIOUS
  <1>3. Len(s) \in Nat /\ i \in Nat /\ i < Len(s) /\ literal \in BOOLEAN
    BY <1>1, <1>2 DEF LexPlaces
  <1>4. PICK tk : tk = lex(s, i, literal)
    OBVIOUS
  <1>5. ReadAt(s, i, tk)
    BY <1>3, <1>4, LexRead
  <1>6. tk \in LexToken /\ tk.w \in Nat
    BY <1>5 DEF ReadAt, LexToken, Token
  <1>7. PICK n : n = i + tk.w
    OBVIOUS
  <1>8. PICK open : open = LiteralAfter(tk, literal)
    OBVIOUS
  <1>9. open \in BOOLEAN
    BY <1>3, <1>8 DEF LiteralAfter
  <1>10. LexNext(s, p) = <<n, open>>
    BY <1>1, <1>2, <1>4, <1>7, <1>8 DEF LexNext
  <1>11. ASSUME tk.k \notin LexErrors
         PROVE  n \in 0..Len(s) /\ n > i
    BY <1>3, <1>5, <1>6, <1>7, <1>11 DEF ReadAt
  <1>12. tk.k \notin LexErrors => LexNext(s, p) \in LexPlaces(s) /\ LexNext(s, p)[1] > p[1]
    BY <1>1, <1>9, <1>10, <1>11 DEF LexPlaces
  <1>13. QED
    BY <1>1, <1>2, <1>4, <1>6, <1>12

LEMMA LexFromLater ==
  ASSUME NEW s \in Seq(SevenBit), NEW p \in LexPlaces(s), NEW g, NEW h
  PROVE  /\ (\A q \in LexPlaces(s) : q[1] > p[1] => g[q] \in Seq(LexToken)) =>
              LexFrom(s, g, p) \in Seq(LexToken)
         /\ (\A q \in LexPlaces(s) : q[1] > p[1] => g[q] = h[q]) =>
              LexFrom(s, g, p) = LexFrom(s, h, p)
  <1>1. CASE p[1] = Len(s)
    BY <1>1 DEF LexFrom
  <1>2. CASE p[1] # Len(s)
    <2>1. PICK tk : tk = lex(s, p[1], p[2])
      OBVIOUS
    <2>2. PICK q : q = LexNext(s, p)
      OBVIOUS
    <2>3. tk \in LexToken /\ (tk.k \notin LexErrors => q \in LexPlaces(s) /\ q[1] > p[1])
      BY <1>2, <2>1, <2>2, LexAdvances
    <2>4. <<tk>> \in Seq(LexToken)
      BY <2>3
    <2>5. \A f : LexFrom(s, f, p) = IF tk.k \in LexErrors THEN <<tk>> ELSE <<tk>> \o f[q]
      BY <1>2, <2>1, <2>2 DEF LexFrom
    <2>6. \A e \in Seq(LexToken) : <<tk>> \o e \in Seq(LexToken)
      BY <2>4
    <2>7. QED
      BY <2>3, <2>4, <2>5, <2>6
  <1>3. QED
    BY <1>1, <1>2

(* There is such a function. *)
LEMMA LexFunction ==
  ASSUME NEW s \in Seq(SevenBit)
  PROVE  \E f : f = [p \in LexPlaces(s) |-> LexFrom(s, f, p)]
  <1> DEFINE L == Len(s)
             Late(n) == {p \in LexPlaces(s) : p[1] >= L - n}
             T == {n \in 0..L : \E f : f = [p \in Late(n) |-> LexFrom(s, f, p)]}
  <1>1. L \in Nat /\ \A p \in LexPlaces(s) : p[1] \in 0..L
    BY DEF LexPlaces
  <1> HIDE DEF L
  <1>2. 0 \in T
    <2> DEFINE f == [p \in Late(0) |-> <<>>]
    <2>1. \A p \in Late(0) : LexFrom(s, f, p) = <<>>
      BY <1>1 DEF LexFrom, L
    <2>2. f = [p \in Late(0) |-> LexFrom(s, f, p)]
      BY <2>1
    <2> HIDE DEF f, Late
    <2>3. 0 \in 0..L
      BY <1>1
    <2>4. QED
      BY <2>2, <2>3
  <1>3. ASSUME NEW n \in 0..(L - 1), n \in T
        PROVE  n + 1 \in T
    <2>1. PICK f : f = [p \in Late(n) |-> LexFrom(s, f, p)]
      BY <1>3
    <2>2. PICK m : m = n + 1
      OBVIOUS
    <2>3. m \in 0..L
      BY <1>1, <2>2
    <2> DEFINE g == [p \in Late(m) |-> LexFrom(s, f, p)]
    <2>4. \A p \in Late(m), q \in LexPlaces(s) : q[1] > p[1] => q \in Late(n)
      BY <1>1, <2>2
    <2>5. \A q \in Late(n) : q \in Late(m)
      BY <1>1, <2>2
    <2>6. \A q \in Late(n) : g[q] = f[q]
      <3>1. \A q \in Late(n) : f[q] = LexFrom(s, f, q)
        BY <2>1
      <3> HIDE DEF Late
      <3>2. QED
        BY <2>5, <3>1
    <2>7. \A p \in Late(m) : LexFrom(s, f, p) = LexFrom(s, g, p)
      <3>1. TAKE p \in Late(m)
      <3>2. p \in LexPlaces(s)
        OBVIOUS
      <3>3. \A q \in LexPlaces(s) : q[1] > p[1] => f[q] = g[q]
        <4> HIDE DEF Late, g
        <4>1. QED
          BY <2>4, <2>6
      <3> HIDE DEF g, Late
      <3>4. QED
        BY <3>2, <3>3, LexFromLater
    <2>8. g = [p \in Late(m) |-> LexFrom(s, g, p)]
      <3> HIDE DEF Late
      <3>1. QED
        BY <2>7
    <2> HIDE DEF g, Late
    <2>9. QED
      BY <2>2, <2>3, <2>8
  <1>4. L \in T
    <2> HIDE DEF T
    <2>1. 0..L \subseteq T
      BY <1>1, <1>2, <1>3, IntervalInduction
    <2>2. QED
      BY <1>1, <2>1
  <1>5. Late(L) = LexPlaces(s)
    BY <1>1
  <1> HIDE DEF Late
  <1>6. QED
    BY <1>4, <1>5

(***************************************************************************)
(* The compiler is handed what it is proved right for: lex.c cuts every    *)
(* text of seven-bit characters into tokens as the compiler expects them,  *)
(* no range over the character that ends a string, no repetition without a *)
(* number, whatever the text and wherever it goes wrong.  The numbers of a *)
(* repetition are those an int of the code can hold.                       *)
(***************************************************************************)
THEOREM LexYieldsTokens ==
  \A s \in Seq(1..127) : Lexed(s) \in Seq(LexToken)
  <1> SUFFICES ASSUME NEW s \in Seq(SevenBit)
               PROVE  Lexed(s) \in Seq(LexToken)
    BY DEF SevenBit
  <1> DEFINE Equation(f) == f = [p \in LexPlaces(s) |-> LexFrom(s, f, p)]
             from == CHOOSE f : Equation(f)
  <1>1. Lexed(s) = from[<<0, FALSE>>]
    BY DEF Lexed, LexFrom, LexNext, LexPlaces
  <1>2. Equation(from)
    <2>1. \E f : Equation(f)
      BY LexFunction
    <2> HIDE DEF Equation
    <2>2. QED
      BY <2>1
  <1> HIDE DEF from
  <1>3. \A p \in LexPlaces(s) : from[p] = LexFrom(s, from, p)
    BY <1>2
  <1> HIDE DEF Equation
  <1>4. PICK L : L = Len(s)
    OBVIOUS
  <1>5. L \in Nat /\ \A p \in LexPlaces(s) : p[1] \in 0..L
    BY <1>4 DEF LexPlaces
  <1> DEFINE T == {n \in 0..L : \A p \in LexPlaces(s) :
                                  p[1] >= L - n => from[p] \in Seq(LexToken)}
  <1>6. 0 \in T
    <2>1. ASSUME NEW p \in LexPlaces(s), p[1] >= L - 0
          PROVE  from[p] = <<>>
      <3>1. p[1] = L
        BY <1>5, <2>1
      <3>2. LexFrom(s, from, p) = <<>>
        BY <1>4, <3>1 DEF LexFrom
      <3>3. QED
        BY <1>3, <3>2
    <2>2. <<>> \in Seq(LexToken) /\ 0 \in 0..L
      BY <1>5
    <2>3. QED
      BY <2>1, <2>2
  <1>7. ASSUME NEW n \in 0..(L - 1), n \in T
        PROVE  n + 1 \in T
    <2>1. ASSUME NEW p \in LexPlaces(s), p[1] >= L - (n + 1)
          PROVE  from[p] \in Seq(LexToken)
      <3>1. \A q \in LexPlaces(s) : q[1] > p[1] => q[1] >= L - n
        BY <1>5, <2>1
      <3>2. \A q \in LexPlaces(s) : q[1] > p[1] => from[q] \in Seq(LexToken)
        BY <1>7, <3>1
      <3> HIDE DEF T
      <3>3. QED
        BY <1>3, <3>2, LexFromLater
    <2>2. n + 1 \in 0..L
      BY <1>5
    <2>3. QED
      BY <2>1, <2>2
  <1>8. L \in T
    <2> HIDE DEF T
    <2>1. 0..L \subseteq T
      BY <1>5, <1>6, <1>7, IntervalInduction
    <2>2. QED
      BY <1>5, <2>1
  <1>9. <<0, FALSE>> \in LexPlaces(s) /\ <<0, FALSE>>[1] >= L - L
    <2>1. 0 \in 0..L /\ 0 >= L - L
      BY <1>5
    <2>2. <<0, FALSE>>[1] = 0
      OBVIOUS
    <2>3. <<0, FALSE>> \in LexPlaces(s)
      BY <1>4, <2>1 DEF LexPlaces
    <2>4. QED
      BY <2>1, <2>2, <2>3
  <1>10. QED
    BY <1>1, <1>8, <1>9
=============================================================================
