------------------------------ MODULE PltProofs ------------------------------
(* Stubs in memory, for every number, size and placement of sections, every   *)
(* page size and address space, every choice of branches and addends, and     *)
(* every order in which sections are loaded, relocated and sealed, or fail to *)
(* be: TypeOK, StubsInv, and from them that branches arrive, code is spared,  *)
(* which sections can fault, and that the stubs implement StubTable.          *)
EXTENDS Plt, FiniteSetTheorems, TLAPS

------------------------------------------------------------------------------
(* Numbers of bytes.                                                          *)

(* The first multiple of p that is not below x.                               *)
LEMMA RoundUp ==
    ASSUME NEW x \in Nat, NEW p \in Nat \ {0}
    PROVE  /\ (x + p - 1) \div p \in Nat
           /\ ((x + p - 1) \div p) * p \in Nat
           /\ ((x + p - 1) \div p) * p >= x
  <1> DEFINE q == (x + p - 1) \div p
  <1>1. q \in Nat /\ (x + p - 1) % p \in 0..(p - 1)
    OBVIOUS
  <1>2. x + p - 1 = p * q + ((x + p - 1) % p)
    OBVIOUS
  <1>3. q * p = p * q /\ q * p \in Nat
    BY <1>1
  <1> HIDE DEF q
  <1>4. q * p >= x
    BY <1>1, <1>2, <1>3
  <1> QED
    BY <1>1, <1>3, <1>4 DEF q

(* It is at least 8 above x, if x neither fills the last page nor ends in its *)
(* last 8 bytes.                                                              *)
LEMMA RoundUpWithRest ==
    ASSUME NEW x \in Nat, NEW p \in Nat \ {0}, x % p # 0, x % p <= p - 8
    PROVE  ((x + p - 1) \div p) * p >= x + 8
  <1> DEFINE q == x \div p
             r == x % p
             u == (x + p - 1) \div p
             v == (x + p - 1) % p
  <1>1. q \in Nat /\ r \in 1..(p - 8) /\ x = p * q + r
    OBVIOUS
  <1>2. u \in Nat /\ v \in 0..(p - 1) /\ x + p - 1 = p * u + v
    OBVIOUS
  <1> HIDE DEF q, r, u, v
  <1>3. p * u = p * q + r + p - 1 - v
    BY <1>1, <1>2
  <1>4. u > q
    <2>1. SUFFICES ASSUME u <= q PROVE FALSE
      BY <1>1, <1>2
    <2>2. PICK d \in Nat : q = u + d
      BY <1>1, <1>2, <2>1
    <2>3. p * q = p * u + p * d /\ p * d \in Nat
      BY <1>2, <2>2
    <2> QED
      BY <1>1, <1>2, <1>3, <2>3
  <1>5. PICK d \in Nat : u = q + 1 + d
    BY <1>1, <1>2, <1>4
  <1>6. p * u = p * q + p + p * d /\ p * d \in Nat /\ u * p = p * u /\ p * q \in Nat
    BY <1>1, <1>5
  <1>7. u * p >= x + 8
    BY <1>1, <1>6
  <1> QED
    BY <1>7 DEF u

(* Pages begin at multiples of eight.                                         *)
LEMMA PagesAligned ==
    ASSUME NEW p \in Nat, NEW z \in Nat \ {0}, z % 8 = 0
    PROVE  p * z \in Nat /\ (p * z) % 8 = 0
  <1>1. PICK q \in Nat : z = 8 * q
    <2>1. z = 8 * (z \div 8) /\ z \div 8 \in Nat
      OBVIOUS
    <2> QED
      BY <2>1
  <1>2. p * z = 8 * (p * q) /\ p * q \in Nat
    BY <1>1
  <1> DEFINE m == p * q
  <1> HIDE DEF m
  <1>3. m \in Nat => 8 * m \in Nat /\ (8 * m) % 8 = 0
    OBVIOUS
  <1> QED
    BY <1>2, <1>3 DEF m

LEMMA Pagewise ==
    /\ PageSize \in Nat \ {0} /\ PageSize % 8 = 0 /\ Pages \in Nat /\ PageSize * Pages \in Nat
    /\ \A s \in Section : Size[s] \in Nat \ {0} /\ Size[s] % 4 = 0 /\ Len(Branches[s]) \in Nat
  <1>1. PageSize \in Nat \ {0} /\ PageSize % 8 = 0 /\ Pages \in Nat
    BY Layout
  <1>2. PageSize * Pages \in Nat
    BY <1>1
  <1>3. \A s \in Section : Size[s] \in Nat \ {0} /\ Size[s] % 4 = 0
    BY Layout
  <1>4. \A s \in Section : Len(Branches[s]) \in Nat
    <2> DEFINE R == [place : Nat, target : Address]
    <2>1. Branches \in [Section -> Seq(R)]
      BY Layout
    <2> HIDE DEF R
    <2> QED
      BY <2>1
  <1> QED
    BY <1>1, <1>2, <1>3, <1>4

(* Every multiple of 4 in the address space is the address of a word.         *)
LEMMA WordOfMemory ==
    ASSUME NEW x \in Nat, x % 4 = 0, x + 4 <= PageSize * Pages
    PROVE  x \in Cell
  <1> DEFINE n == PageSize * Pages
  <1>1. n \in Nat
    BY Pagewise
  <1> HIDE DEF n
  <1>2. x \div 4 \in Nat /\ x = 4 * (x \div 4)
    OBVIOUS
  <1>3. x + 4 <= n
    BY DEF n
  <1>4. x \div 4 <= n \div 4 - 1
    BY <1>1, <1>2, <1>3
  <1>5. x \div 4 \in 0..(n \div 4 - 1)
    BY <1>1, <1>2, <1>4
  <1> QED
    BY <1>2, <1>5 DEF Cell, n

LEMMA CellsAreWords == \A c \in Cell : c \in Nat /\ c % 4 = 0
  <1> SUFFICES ASSUME NEW d \in 0..((PageSize * Pages) \div 4 - 1)
               PROVE  4 * d \in Nat /\ (4 * d) % 4 = 0
    BY DEF Cell
  <1>1. d \in Nat
    <2>1. PageSize * Pages \in Nat
      BY Pagewise
    <2>2. (PageSize * Pages) \div 4 \in Nat
      BY <2>1
    <2> QED
      BY <2>2
  <1> QED
    BY <1>1

Build == arch \in {"arm", "arm64"}

(* The pages of a section hold its code and as many bytes as its stubs have,  *)
(* and the 8 in front of the stubs too unless it is cramped.                  *)
LEMMA MappedHolds ==
    ASSUME Build, NEW s \in Section
    PROVE  /\ Mapped(s) \in Nat /\ Mapped(s) % 8 = 0 /\ Mapped(s) >= 8
           /\ Size[s] \in Nat /\ Size[s] > 0 /\ Size[s] % 4 = 0 /\ StubSpace(s) \in Nat
           /\ Mapped(s) >= Size[s] + StubSpace(s)
           /\ Branches[s] # << >> /\ ~Cramped(s) => Mapped(s) >= Size[s] + StubSpace(s) + 8
  <1>1. /\ Size[s] \in Nat \ {0} /\ Size[s] % 4 = 0 /\ Len(Branches[s]) \in Nat
        /\ PageSize \in Nat \ {0} /\ PageSize % 8 = 0
    BY Pagewise
  <1>2. StubSpace(s) \in Nat
    <2>1. StubSize \in {12, 20}
      BY DEF StubSize
    <2>2. \A n \in Nat : 12 * n \in Nat /\ 20 * n \in Nat
      OBVIOUS
    <2> QED
      BY <1>1, <2>1, <2>2 DEF StubSpace
  <1> DEFINE x == Size[s] + StubSpace(s)
  <1>3. x \in Nat /\ x > 0
    BY <1>1, <1>2
  <1>4. Mapped(s) = ((x + PageSize - 1) \div PageSize) * PageSize
    BY DEF Mapped
  <1>6. Cramped(s) <=> Branches[s] # << >> /\ (x % PageSize = 0 \/ x % PageSize > PageSize - 8)
    BY DEF Cramped
  <1> HIDE DEF x
  <1>5. x % PageSize \in 0..(PageSize - 1)
    BY <1>1, <1>3
  <1>7. Mapped(s) \in Nat /\ Mapped(s) >= x /\ (x + PageSize - 1) \div PageSize \in Nat
    BY <1>1, <1>3, <1>4, RoundUp
  <1>8. Mapped(s) % 8 = 0
    <2>1. PICK p : p = (x + PageSize - 1) \div PageSize
      OBVIOUS
    <2>2. p \in Nat /\ Mapped(s) = p * PageSize
      BY <1>4, <1>7, <2>1, Zenon
    <2>3. PageSize \in Nat \ {0} /\ PageSize % 8 = 0
      BY <1>1, Zenon
    <2>4. (p * PageSize) % 8 = 0
      BY ONLY <2>2, <2>3, PagesAligned, Zenon
    <2> QED
      BY <2>2, <2>4, Zenon
  <1>9. Mapped(s) >= 8
    BY <1>3, <1>7, <1>8
  <1>10. Branches[s] # << >> /\ ~Cramped(s) => Mapped(s) >= x + 8
    <2> SUFFICES ASSUME Branches[s] # << >>, ~Cramped(s) PROVE Mapped(s) >= x + 8
      OBVIOUS
    <2>1. x % PageSize # 0 /\ x % PageSize <= PageSize - 8
      BY <1>1, <1>5, <1>6
    <2> QED
      BY <1>1, <1>3, <1>4, <2>1, RoundUpWithRest
  <1> QED
    BY <1>1, <1>2, <1>7, <1>8, <1>9, <1>10 DEF x
------------------------------------------------------------------------------
(* The instructions of a stub.                                                *)

LEMMA FieldsOfArm ==
    ASSUME NEW h \in Nat, h < 65536
    PROVE  /\ (h \div 4096) * 65536 + (h % 4096) \in Nat
           /\ (h \div 4096) * 65536 + (h % 4096) < 2097152
           /\ (((h \div 4096) * 65536 + (h % 4096)) \div 65536) * 4096
                  + (((h \div 4096) * 65536 + (h % 4096)) % 4096) = h
  <1> DEFINE a == h \div 4096
             b == h % 4096
             i == a * 65536 + b
  <1>1. a \in Nat /\ b \in Nat /\ b < 4096 /\ h = 4096 * a + b
    BY SMT
  <1> HIDE DEF a, b
  <1>2. a < 16
    BY <1>1, SMT
  <1>3. i \in Nat /\ i < 2097152
    BY <1>1, <1>2, SMT
  <1>4. i \div 65536 = a
    BY <1>1, SMT
  <1>5. i % 4096 = b
    <2>1. i = 4096 * (16 * a) + b
      BY <1>1, SMT
    <2> QED
      BY <1>1, <2>1, SMT
  <1> QED
    BY <1>1, <1>3, <1>4, <1>5, SMT DEF a, b

LEMMA FieldOfArm64 ==
    ASSUME NEW h \in Nat, h < 65536
    PROVE  h * 32 \in Nat /\ h * 32 < 2097152 /\ (h * 32) \div 32 = h
  BY SMT

LEMMA HalfwordIs == \A h \in Halfword : h \in Nat /\ h < 65536
  <1> DEFINE top  == 65535
             next == 65536
  <1>1. top \in Nat /\ next \in Nat /\ top + 1 = next
    BY SMT
  <1>2. Halfword = 0..top
    BY SMT DEF Halfword
  <1> HIDE DEF top, next
  <1>3. \A h \in Halfword : h \in Nat /\ h < next
    BY <1>1, <1>2
  <1> QED
    BY <1>3, SMT DEF next

(* What the processor loads is what make_stub encoded.                        *)
LEMMA Immediate ==
    ASSUME Build, NEW h \in Halfword, NEW k \in 1..4
    PROVE  /\ Mov(k, h) \in StubWord /\ Keep(k, h) \in StubWord
           /\ Value(Mov(k, h)) = h /\ Value(Keep(k, h)) = h
  <1>1. h \in Nat /\ h < 65536
    BY HalfwordIs
  <1>2. /\ Mov(k, h).imm = Imm(h) /\ Mov(k, h) = [op |-> "mov", hw |-> k, imm |-> Imm(h)]
        /\ Keep(k, h).imm = Imm(h) /\ Keep(k, h) = [op |-> "keep", hw |-> k, imm |-> Imm(h)]
    BY DEF Mov, Keep
  <1>3. /\ Imm(h) \in Nat /\ Imm(h) < 2097152
        /\ h = IF arch = "arm" THEN (Imm(h) \div 65536) * 4096 + (Imm(h) % 4096)
                              ELSE Imm(h) \div 32
    <2>1. CASE arch = "arm"
      <3>1. Imm(h) = (h \div 4096) * 65536 + (h % 4096)
        BY <2>1, SMT DEF Imm
      <3> QED
        BY <1>1, <2>1, <3>1, FieldsOfArm, SMT
    <2>2. CASE arch # "arm"
      <3>1. Imm(h) = h * 32
        BY <2>2, SMT DEF Imm
      <3> QED
        BY <1>1, <2>2, <3>1, FieldOfArm64, SMT
    <2> QED
      BY <2>1, <2>2, SMT
  <1>4. Imm(h) \in ImmField
    BY <1>3, SMT DEF ImmField
  <1>5. Mov(k, h) \in StubWord /\ Keep(k, h) \in StubWord
    <2>1. k \in 0..4
      OBVIOUS
    <2> HIDE DEF Mov, Keep
    <2> QED
      BY <1>2, <1>4, <2>1 DEF StubWord, Op
  <1>6. Value(Mov(k, h)) = h
    BY <1>2, <1>3, SMT DEF Value
  <1>7. Value(Keep(k, h)) = h
    BY <1>2, <1>3, SMT DEF Value
  <1> QED
    BY <1>5, <1>6, <1>7

LEMMA Executed ==
    ASSUME Build, NEW h \in Halfword, NEW k \in 1..4, NEW r
    PROVE  /\ Moves(Mov(k, h)) /\ Moves(Keep(k, h))
           /\ \A i \in 1..4 : /\ Exec(Mov(k, h), r)[i] = IF i = k THEN h ELSE 0
                             /\ Exec(Keep(k, h), r)[i] = IF i = k THEN h ELSE r[i]
  <1>1. Mov(k, h).op = "mov" /\ Mov(k, h).hw = k /\ Keep(k, h).op = "keep" /\ Keep(k, h).hw = k
    BY DEF Mov, Keep
  <1> QED
    BY <1>1, Immediate DEF Moves, Exec

LEMMA RegistersOnArm ==
    ASSUME Build, NEW p \in Halfword, NEW q \in Halfword
    PROVE  Exec(Keep(2, q), Exec(Mov(1, p), AnyContent)) = <<p, q, 0, 0>>
  <1> DEFINE r1 == Exec(Mov(1, p), AnyContent)
             r2 == Exec(Keep(2, q), r1)
  <1>1. r2 = [i \in 1..4 |-> r2[i]]
    BY DEF Exec
  <1>2. r1[1] = p /\ r1[3] = 0 /\ r1[4] = 0
    BY Executed
  <1> HIDE DEF r1
  <1>3. r2[1] = r1[1] /\ r2[2] = q /\ r2[3] = r1[3] /\ r2[4] = r1[4]
    BY Executed
  <1> HIDE DEF r2
  <1>4. r2 = <<p, q, 0, 0>>
    BY <1>1, <1>2, <1>3
  <1> QED
    BY <1>4 DEF r1, r2

LEMMA RegistersOnArm64 ==
    ASSUME Build, NEW p \in Halfword, NEW q \in Halfword, NEW u \in Halfword, NEW v \in Halfword
    PROVE  Exec(Keep(1, p), Exec(Keep(2, q), Exec(Keep(3, u), Exec(Mov(4, v), AnyContent))))
             = <<p, q, u, v>>
  <1> DEFINE r1 == Exec(Mov(4, v), AnyContent)
             r2 == Exec(Keep(3, u), r1)
             r3 == Exec(Keep(2, q), r2)
             r4 == Exec(Keep(1, p), r3)
  <1>1. r4 = [i \in 1..4 |-> r4[i]]
    BY DEF Exec
  <1>2. r1[4] = v
    BY Executed
  <1> HIDE DEF r1
  <1>3. r2[3] = u /\ r2[4] = r1[4]
    BY Executed
  <1> HIDE DEF r2
  <1>4. r3[2] = q /\ r3[3] = r2[3] /\ r3[4] = r2[4]
    BY Executed
  <1> HIDE DEF r3
  <1>5. r4[1] = p /\ r4[2] = r3[2] /\ r4[3] = r3[3] /\ r4[4] = r3[4]
    BY Executed
  <1> HIDE DEF r4
  <1>6. r4 = <<p, q, u, v>>
    BY <1>1, <1>2, <1>3, <1>4, <1>5
  <1> QED
    BY <1>6 DEF r1, r2, r3, r4

LEMMA StubCodeType ==
    ASSUME Build, NEW t \in Address, NEW i \in 0..(StubSize \div 4 - 1)
    PROVE  StubCode(t)[i + 1] \in StubWord
  <1>1. t[1] \in Halfword /\ t[2] \in Halfword /\ t[3] \in Halfword /\ t[4] \in Halfword
    BY DEF Address
  <1>2. \A k \in 1..4, h \in Halfword : Mov(k, h) \in StubWord /\ Keep(k, h) \in StubWord
    BY Immediate
  <1>3. Jump \in StubWord
    <2>1. 0 \in ImmField /\ 0 \in 0..4
      BY SMT DEF ImmField
    <2> QED
      BY <2>1 DEF Jump, StubWord
  <1>4. CASE arch = "arm"
    <2>1. i \in 0..2
      BY <1>4 DEF StubSize
    <2> QED
      BY <1>1, <1>2, <1>3, <1>4, <2>1 DEF StubCode
  <1>5. CASE arch # "arm"
    <2>1. i \in 0..4
      BY <1>5 DEF StubSize
    <2> QED
      BY <1>1, <1>2, <1>3, <1>5, <2>1 DEF StubCode
  <1> QED
    BY <1>4, <1>5

(* The words of a stub, wherever they lie in memory, lead to its target.      *)
LEMMA StubArrives ==
    ASSUME Build, NEW t \in Address, arch = "arm" => t[3] = 0 /\ t[4] = 0,
           NEW a \in Nat, a % 4 = 0, a + StubSize <= PageSize * Pages,
           \A c \in StubCells(a) : mem[c] = StubCode(t)[(c - a) \div 4 + 1]
    PROVE  Arrives(a) = t
  <1>1. PICK p \in Halfword, q \in Halfword, u \in Halfword, v \in Halfword :
            t = <<p, q, u, v>> /\ t[1] = p /\ t[2] = q /\ t[3] = u /\ t[4] = v
    BY DEF Address
  <1>2. ASSUME NEW i \in Nat, 4 * i + 4 <= StubSize
        PROVE  mem[a + 4 * i] = StubCode(t)[i + 1]
    <2>1. StubSize \in Nat
      BY DEF StubSize
    <2>2. a + 4 * i \in StubCells(a)
      BY <1>2, <2>1, WordOfMemory, Pagewise DEF StubCells
    <2>3. (a + 4 * i - a) \div 4 = i
      OBVIOUS
    <2> QED
      BY <2>2, <2>3
  <1>3. \A h \in Halfword, k \in 1..4 : Moves(Mov(k, h)) /\ Moves(Keep(k, h))
    BY Executed
  <1>4. CASE arch = "arm"
    <2>1. mem[a] = Mov(1, p) /\ mem[a + 4] = Keep(2, q) /\ mem[a + 8] = Jump
      BY <1>1, <1>2, <1>4 DEF StubSize, StubCode
    <2>2. Exec(mem[a + 4], Exec(mem[a], AnyContent)) = <<p, q, 0, 0>>
      BY <2>1, RegistersOnArm
    <2>3. <<p, q, 0, 0>> = t
      BY <1>1, <1>4
    <2> QED
      BY <1>3, <1>4, <2>1, <2>2, <2>3 DEF Arrives
  <1>5. CASE arch # "arm"
    <2>1. /\ mem[a] = Mov(4, v) /\ mem[a + 4] = Keep(3, u) /\ mem[a + 8] = Keep(2, q)
          /\ mem[a + 12] = Keep(1, p) /\ mem[a + 16] = Jump
      <3>1. StubSize = 20
        BY <1>5 DEF StubSize
      <3>2. StubCode(t) = <<Mov(4, v), Keep(3, u), Keep(2, q), Keep(1, p), Jump>>
        BY <1>1, <1>5 DEF StubCode
      <3>3. \A i \in 0..4 : mem[a + 4 * i] = StubCode(t)[i + 1]
        <4> TAKE i \in 0..4
        <4>1. i \in Nat /\ 4 * i + 4 <= StubSize
          BY <3>1
        <4> QED
          BY <1>2, <4>1, Zenon
      <3>4. /\ mem[a] = StubCode(t)[1] /\ mem[a + 4] = StubCode(t)[2]
            /\ mem[a + 8] = StubCode(t)[3] /\ mem[a + 12] = StubCode(t)[4]
            /\ mem[a + 16] = StubCode(t)[5]
        BY <3>3
      <3> QED
        BY <3>2, <3>4
    <2>2. Exec(mem[a + 12], Exec(mem[a + 8], Exec(mem[a + 4], Exec(mem[a], AnyContent)))) = t
      BY <1>1, <2>1, RegistersOnArm64
    <2>3. Moves(mem[a]) /\ Moves(mem[a + 4]) /\ Moves(mem[a + 8]) /\ Moves(mem[a + 12])
      BY <1>3, <2>1
    <2>4. \A k \in 0..3 : Moves(mem[a + 4 * k])
      <3> TAKE k \in 0..3
      <3>1. a + 4 * k = a \/ a + 4 * k = a + 4 \/ a + 4 * k = a + 8 \/ a + 4 * k = a + 12
        OBVIOUS
      <3> QED
        BY <2>3, <3>1
    <2> QED
      BY <1>5, <2>1, <2>2, <2>4 DEF Arrives
  <1> QED
    BY <1>4, <1>5
------------------------------------------------------------------------------
(* Types.                                                                     *)

LEMMA BranchType ==
    ASSUME NEW s \in Section, NEW k \in DOMAIN Branches[s]
    PROVE  /\ Branches[s][k].target \in Address /\ Branches[s][k].place \in Nat
           /\ Branches[s][k].place % 4 = 0 /\ Branches[s][k].place < Size[s]
           /\ \A j \in DOMAIN Branches[s] :
                  Branches[s][j].place = Branches[s][k].place => j = k
  <1> DEFINE R == [place : Nat, target : Address]
  <1>1. Branches \in [Section -> Seq(R)]
    BY Layout
  <1> HIDE DEF R
  <1>2. Branches[s][k] \in R
    BY <1>1
  <1> QED
    BY <1>2, Layout DEF R

LEMMA TargetType ==
    ASSUME NEW s \in Section, NEW k \in DOMAIN Branches[s]
    PROVE  /\ Target(s, k) \in Address
           /\ arch = "arm" => Target(s, k)[3] = 0 /\ Target(s, k)[4] = 0
  <1>1. PICK t \in Address : t = Branches[s][k].target
    BY BranchType
  <1>2. 0 \in Halfword
    BY SMT DEF Halfword
  <1>3. Target(s, k) = IF arch = "arm" THEN [t EXCEPT ![3] = 0, ![4] = 0] ELSE t
    BY <1>1 DEF Target
  <1> QED
    BY <1>2, <1>3 DEF Address

LEMMA WantedType ==
    ASSUME NEW s \in Section, pos[s] \in DOMAIN Branches[s], NEW t \in Wanted(s)
    PROVE  t \in Address /\ (arch = "arm" => t[3] = 0 /\ t[4] = 0)
  <1>1. CASE t \in Stray
    BY <1>1, Layout
  <1>2. CASE t = Target(s, pos[s])
    BY <1>2, TargetType
  <1> QED
    BY <1>1, <1>2 DEF Wanted

LEMMA StubWords ==
    ASSUME Build, NEW t \in Address, NEW a \in Nat, NEW c \in StubCells(a)
    PROVE  StubCode(t)[(c - a) \div 4 + 1] \in StubWord
  <1>1. c \in Nat /\ a <= c /\ c < a + StubSize
    BY CellsAreWords DEF StubCells
  <1>2. (c - a) \div 4 \in 0..(StubSize \div 4 - 1)
    <2>1. CASE StubSize = 12
      BY <1>1, <2>1
    <2>2. CASE StubSize = 20
      BY <1>1, <2>2
    <2> QED
      BY <2>1, <2>2 DEF StubSize
  <1> QED
    BY <1>2, StubCodeType

LEMMA NewStubType ==
    ASSUME TypeOK, NEW s \in Section
    PROVE  NewStub(s) \in Nat
  <1>1. base[s] \in Nat \cup {-1} /\ Size[s] \in Nat \ {0} /\ Len(stubs[s]) \in Nat
    BY Pagewise DEF TypeOK, Unmapped
  <1>2. StubSize \in {12, 20}
    BY DEF StubSize
  <1>3. StubSize * Len(stubs[s]) \in Nat
    BY <1>1, <1>2
  <1>4. PICK b, z, d : b = base[s] /\ z = Size[s] /\ d = StubSize * Len(stubs[s])
    OBVIOUS
  <1>5. NewStub(s) = b + z + 8 + d
    BY <1>4 DEF NewStub
  <1>6. b \in Nat \cup {-1} /\ z \in Nat /\ d \in Nat
    BY <1>1, <1>3, <1>4
  <1>7. b + z + 8 + d \in Nat
    BY <1>6
  <1> QED
    BY <1>5, <1>7

LEMMA StubType ==
    ASSUME TypeOK, NEW s \in Section, NEW k \in DOMAIN stubs[s]
    PROVE  /\ stubs[s][k].target \in Address /\ stubs[s][k].addr \in Nat
           /\ stubs[s][k] = [target |-> stubs[s][k].target, addr |-> stubs[s][k].addr]
  <1> DEFINE R == [target : Address, addr : Nat]
  <1>1. stubs \in [Section -> Seq(R)]
    BY DEF TypeOK
  <1> HIDE DEF R
  <1>2. stubs[s][k] \in R
    BY <1>1
  <1> QED
    BY <1>2 DEF R

(* What a relocation leaves in memory is a word.                              *)
LEMMA MixedType == Mixed \in Word
  <1>1. 0 \in ImmField /\ 0 \in 0..4
    BY SMT DEF ImmField
  <1> QED
    BY <1>1 DEF Mixed, Word, StubWord

LEMMA RelocatedType ==
    ASSUME TypeOK, NEW s \in Section, NEW a \in Nat \cup {Direct}
    PROVE  Relocated(s, a) \in [Cell -> Word]
  <1>1. Branch(a) \in Word
    BY DEF Branch, Word
  <1>2. \A w : Written(s, w, a) \in Word
    BY <1>1, MixedType DEF Written
  <1> QED
    BY <1>2 DEF Relocated, TypeOK

StubAdded(s, t, a) ==
    /\ stubs' \in [Section -> Seq([target : Address, addr : Nat])]
    /\ Len(stubs[s]) \in Nat /\ DOMAIN stubs[s] = 1..Len(stubs[s])
    /\ DOMAIN stubs'[s] = 1..(Len(stubs[s]) + 1) /\ Len(stubs'[s]) = Len(stubs[s]) + 1
    /\ stubs'[s][Len(stubs[s]) + 1] = [target |-> t, addr |-> a]
    /\ \A k \in DOMAIN stubs[s] : stubs'[s][k] = stubs[s][k]
    /\ \A r \in Section \ {s} : stubs'[r] = stubs[r]

LEMMA Extended ==
    ASSUME TypeOK, NEW s \in Section, NEW t \in Address, NEW a \in Nat,
           stubs' = [stubs EXCEPT ![s] = Append(@, [target |-> t, addr |-> a])]
    PROVE  StubAdded(s, t, a)
  <1> DEFINE R == [target : Address, addr : Nat]
             e == [target |-> t, addr |-> a]
  <1>1. stubs \in [Section -> Seq(R)] /\ e \in R
    BY DEF TypeOK
  <1>2. stubs' = [stubs EXCEPT ![s] = Append(stubs[s], e)]
    OBVIOUS
  <1> HIDE DEF R, e
  <1>3. stubs[s] \in Seq(R) /\ Append(stubs[s], e) \in Seq(R)
    BY <1>1
  <1>4. stubs'[s] = Append(stubs[s], e) /\ \A r \in Section \ {s} : stubs'[r] = stubs[r]
    BY <1>1, <1>2
  <1>5. stubs' \in [Section -> Seq(R)]
    BY <1>1, <1>2, <1>3
  <1>6. /\ Len(stubs[s]) \in Nat /\ DOMAIN stubs[s] = 1..Len(stubs[s])
        /\ DOMAIN stubs'[s] = 1..(Len(stubs[s]) + 1) /\ Len(stubs'[s]) = Len(stubs[s]) + 1
        /\ stubs'[s][Len(stubs[s]) + 1] = e
        /\ \A k \in DOMAIN stubs[s] : stubs'[s][k] = stubs[s][k]
    BY <1>1, <1>3, <1>4
  <1> QED
    BY <1>4, <1>5, <1>6 DEF R, e, StubAdded

LEMMA InitTypeOK == Init => TypeOK
  <1> SUFFICES ASSUME Init PROVE TypeOK
    OBVIOUS
  <1>1. Zero \in Word
    <2>1. 0 \in ImmField /\ 0 \in 0..4
      BY SMT DEF ImmField
    <2> QED
      BY <2>1 DEF Zero, Word, StubWord
  <1>2. 0 \in 0..MaxFailures
    BY Layout
  <1> QED
    BY <1>1, <1>2 DEF Init, TypeOK

LEMMA NextTypeOK == TypeOK /\ [Next]_vars => TypeOK'
  <1> SUFFICES ASSUME TypeOK, [Next]_vars PROVE TypeOK'
    OBVIOUS
  <1> USE DEF TypeOK
  <1>1. ASSUME NEW s \in Section, NEW p \in 0..(Pages - 1), LoadSection(s, p * PageSize)
        PROVE  TypeOK'
    <2> DEFINE b == p * PageSize
    <2>1. b \in Nat
      BY Pagewise
    <2>2. ASSUME NEW c \in Cell, b <= c PROVE Code(s, c - b) \in Word
      BY <2>1, <2>2, CellsAreWords DEF Code, Word
    <2>3. mem' \in [Cell -> Word]
      BY <1>1, <2>2 DEF LoadSection
    <2> QED
      BY <1>1, <2>1, <2>3 DEF LoadSection
  <1>0. ASSUME NEW s \in Section, Advance(s) PROVE pos' \in [Section -> Nat \ {0}]
    <2>1. pos[s] + 1 \in Nat \ {0}
      OBVIOUS
    <2> QED
      BY <1>0, <2>1 DEF Advance
  <1>2. ASSUME NEW s \in Section, BranchDirect(s) PROVE TypeOK'
    <2>1. mem' \in [Cell -> Word]
      BY <1>2, RelocatedType DEF BranchDirect
    <2> QED
      BY <1>2, <1>0, <2>1 DEF BranchDirect
  <1>3. ASSUME NEW s \in Section, ReuseStub(s) PROVE TypeOK'
    <2>1. PICK k \in DOMAIN stubs[s] : mem' = Relocated(s, stubs[s][k].addr)
      BY <1>3 DEF ReuseStub, FindStub
    <2>2. mem' \in [Cell -> Word]
      BY <2>1, StubType, RelocatedType
    <2> QED
      BY <1>3, <1>0, <2>2 DEF ReuseStub
  <1>4. ASSUME NEW s \in Section, MakeStub(s) PROVE TypeOK'
    <2>1. PICK a : a = NewStub(s)
      OBVIOUS
    <2>2. PICK t \in Wanted(s) :
              /\ mem' = [c \in Cell |->
                           IF c \in StubCells(a) THEN StubCode(t)[(c - a) \div 4 + 1]
                           ELSE Relocated(s, a)[c]]
              /\ stubs' = [stubs EXCEPT ![s] = Append(@, [target |-> t, addr |-> a])]
      BY <1>4, <2>1 DEF MakeStub
    <2>3. a \in Nat
      BY <2>1, NewStubType
    <2>4. t \in Address
      BY <1>4, WantedType DEF MakeStub, Relocating
    <2>5. \A c \in StubCells(a) : StubCode(t)[(c - a) \div 4 + 1] \in Word
      BY <2>3, <2>4, StubWords DEF Build, Word
    <2>6. mem' \in [Cell -> Word]
      <3>1. Relocated(s, a) \in [Cell -> Word]
        BY <2>3, RelocatedType
      <3>2. \A c \in Cell : (IF c \in StubCells(a) THEN StubCode(t)[(c - a) \div 4 + 1]
                            ELSE Relocated(s, a)[c]) \in Word
        BY <2>5, <3>1
      <3> QED
        BY <2>2, <3>2
    <2>7. stubs' \in [Section -> Seq([target : Address, addr : Nat])]
      BY <2>2, <2>3, <2>4, Extended DEF StubAdded
    <2> QED
      BY <1>4, <1>0, <2>6, <2>7 DEF MakeStub
  <1>5. ASSUME NEW s \in Section, MakeStubFaults(s) PROVE TypeOK'
    BY <1>5 DEF MakeStubFaults
  <1>6. ASSUME NEW s \in Section, Protect(s) PROVE TypeOK'
    BY <1>6 DEF Protect
  <1>7. ASSUME NEW s \in Section, ProtectFails(s) PROVE TypeOK'
    <2>1. failures[s] + 1 \in 0..MaxFailures
      BY <1>7, Layout DEF ProtectFails
    <2>2. failures' = [failures EXCEPT ![s] = failures[s] + 1] /\ pos' = [pos EXCEPT ![s] = 1]
      BY <1>7 DEF ProtectFails
    <2>3. failures' \in [Section -> 0..MaxFailures] /\ pos' \in [Section -> Nat \ {0}]
      BY <2>1, <2>2
    <2> QED
      BY <1>7, <2>3 DEF ProtectFails
  <1>8. ASSUME NEW s \in Section, RelocateOther(s) PROVE TypeOK'
    <2>1. PICK p : mem' = [mem EXCEPT ![p] = IF @.op = s THEN @ ELSE Mixed]
      BY <1>8 DEF RelocateOther
    <2>2. mem' \in [Cell -> Word]
      BY <2>1, MixedType
    <2> QED
      BY <1>8, <2>2 DEF RelocateOther
  <1>9. CASE UNCHANGED vars
    BY <1>9 DEF vars
  <1> QED
    BY <1>1, <1>2, <1>3, <1>4, <1>5, <1>6, <1>7, <1>8, <1>9 DEF Next

(* In every execution every variable keeps its type, and every immediate that *)
(* make_stub writes fits its field.                                           *)
THEOREM TypeCorrect == Spec => []TypeOK
  BY InitTypeOK, NextTypeOK, PTL DEF Spec

------------------------------------------------------------------------------
(* Where stubs and branches lie.                                              *)

(* The k-th stub of a section is behind it.                                   *)
LEMMA StubPlace ==
    ASSUME TypeOK, NEW s \in Section, LaidOut(s), base[s] # Unmapped, NEW k \in Nat \ {0}
    PROVE  /\ base[s] \in Nat /\ StubAt(s, k) \in Nat /\ StubAt(s, k) % 4 = 0
           /\ base[s] + Size[s] + 8 <= StubAt(s, k)
  <1>1. base[s] \in Nat /\ base[s] % 8 = 0 /\ Size[s] \in Nat /\ Size[s] % 4 = 0
    BY Pagewise DEF TypeOK, LaidOut
  <1>2. StubSize * (k - 1) \in Nat /\ (StubSize * (k - 1)) % 4 = 0
    <2>1. CASE StubSize = 12
      BY <2>1
    <2>2. CASE StubSize = 20
      BY <2>2
    <2> QED
      BY <2>1, <2>2 DEF StubSize
  <1> DEFINE b == base[s]
             z == Size[s]
             d == StubSize * (k - 1)
  <1>3. b \in Nat /\ b % 8 = 0 /\ z \in Nat /\ z % 4 = 0 /\ d \in Nat /\ d % 4 = 0
    BY <1>1, <1>2
  <1>4. StubAt(s, k) = b + z + 8 + d
    BY DEF StubAt
  <1> HIDE DEF b, z, d
  <1>5. (b + z + 8 + d) % 4 = 0
    <2>1. b % 4 = 0
      BY <1>3
    <2> QED
      BY <1>3, <2>1
  <1>6. StubAt(s, k) \in Nat /\ b + z + 8 <= StubAt(s, k)
    BY <1>3, <1>4
  <1> QED
    BY <1>3, <1>4, <1>5, <1>6 DEF b, z

(* As many stubs as a section has branches lie in its pages, or the last at   *)
(* most 8 bytes behind them.                                                  *)
LEMMA StubInRoom ==
    ASSUME TypeOK, NEW s \in Section, LaidOut(s), base[s] # Unmapped,
           NEW k \in 1..Len(Branches[s])
    PROVE  /\ StubAt(s, k) + StubSize <= base[s] + Mapped(s) + 8
           /\ ~Cramped(s) \/ k < Len(Branches[s]) => StubAt(s, k) + StubSize <= base[s] + Mapped(s)
  <1> DEFINE n == Len(Branches[s])
  <1>1. n \in Nat /\ k \in Nat /\ 1 <= k /\ k <= n /\ Branches[s] # << >>
    BY Pagewise
  <1>2. /\ Size[s] \in Nat /\ Mapped(s) \in Nat /\ StubSpace(s) \in Nat
        /\ Mapped(s) >= Size[s] + StubSpace(s)
        /\ ~Cramped(s) => Mapped(s) >= Size[s] + StubSpace(s) + 8
    BY <1>1, MappedHolds DEF TypeOK, Build
  <1>3. base[s] \in Nat
    BY DEF TypeOK
  <1> HIDE DEF n
  <1>4. /\ StubSize * (k - 1) \in Nat /\ StubSize \in Nat
        /\ StubSize * (k - 1) + StubSize <= StubSize * n
        /\ k < n => StubSize * (k - 1) + StubSize + 8 <= StubSize * n
    <2>1. CASE StubSize = 12
      BY <1>1, <2>1
    <2>2. CASE StubSize = 20
      BY <1>1, <2>2
    <2> QED
      BY <2>1, <2>2 DEF StubSize
  <1> DEFINE b == base[s]
             z == Size[s]
             m == Mapped(s)
             u == StubSpace(s)
             g == StubSize
             d == g * (k - 1)
             a == StubAt(s, k)
  <1>5. /\ b \in Nat /\ z \in Nat /\ m \in Nat /\ u \in Nat
        /\ m >= z + u /\ (~Cramped(s) => m >= z + u + 8)
        /\ g \in Nat /\ d \in Nat /\ d + g <= u /\ (k < n => d + g + 8 <= u) /\ a = b + z + 8 + d
    BY <1>2, <1>3, <1>4 DEF StubAt, StubSpace, n
  <1> HIDE DEF b, z, m, u, g, d, a
  <1>6. a + g <= b + m + 8 /\ (~Cramped(s) \/ k < n => a + g <= b + m)
    BY <1>5
  <1> QED
    BY <1>6 DEF b, m, g, a, n

(* Two stubs of a section do not overlap.                                     *)
LEMMA StubsApart ==
    ASSUME TypeOK, NEW s \in Section, LaidOut(s), base[s] # Unmapped,
           NEW j \in Nat \ {0}, NEW k \in Nat \ {0}, j # k,
           NEW c \in StubCells(StubAt(s, j))
    PROVE  c \notin StubCells(StubAt(s, k))
  <1> DEFINE e == base[s] + Size[s] + 8
             g == StubSize
  <1>1. e \in Nat /\ g \in {12, 20}
    BY Pagewise DEF TypeOK, StubSize
  <1>2. StubAt(s, j) = e + g * (j - 1) /\ StubAt(s, k) = e + g * (k - 1)
    BY DEF StubAt
  <1>3. c \in Nat
    BY CellsAreWords DEF StubCells
  <1>4. \A a : c \in StubCells(a) => a <= c /\ c < a + g
    BY DEF StubCells
  <1> HIDE DEF e, g
  <1>5. CASE g = 12
    BY <1>1, <1>2, <1>3, <1>4, <1>5
  <1>6. CASE g = 20
    BY <1>1, <1>2, <1>3, <1>4, <1>6
  <1> QED
    BY <1>1, <1>5, <1>6

(* The word of a branch is in its section's code.                             *)
LEMMA PlaceInCode ==
    ASSUME TypeOK, NEW s \in Section, LaidOut(s), base[s] # Unmapped,
           NEW k \in DOMAIN Branches[s]
    PROVE  /\ Place(s, k) \in Cell /\ Place(s, k) \in Nat
           /\ base[s] \in Nat /\ base[s] <= Place(s, k) /\ Place(s, k) < base[s] + Size[s]
           /\ Place(s, k) - base[s] = Branches[s][k].place
           /\ \A j \in DOMAIN Branches[s] : Place(s, j) = Place(s, k) => j = k
  <1> DEFINE b == base[s]
             z == Size[s]
             d == Branches[s][k].place
             m == Mapped(s)
             n == PageSize * Pages
  <1>1. /\ b \in Nat /\ b % 8 = 0 /\ z \in Nat /\ z % 4 = 0 /\ d \in Nat /\ d % 4 = 0 /\ d < z
        /\ b + m <= n /\ m \in Nat /\ n \in Nat
    BY BranchType, Pagewise, MappedHolds DEF TypeOK, Build, LaidOut
  <1>2. z <= m
    <2>1. /\ Mapped(s) \in Nat /\ Size[s] \in Nat /\ StubSpace(s) \in Nat
          /\ Mapped(s) >= Size[s] + StubSpace(s)
      BY MappedHolds DEF TypeOK, Build
    <2> QED
      BY <2>1
  <1>3. Place(s, k) = b + d
    BY DEF Place
  <1>4. \A j \in DOMAIN Branches[s] : Place(s, j) = Place(s, k) => j = k
    <2> TAKE j \in DOMAIN Branches[s]
    <2>1. Branches[s][j].place \in Nat /\ Branches[s][k].place \in Nat
      BY BranchType
    <2>2. Place(s, j) = Place(s, k) => Branches[s][j].place = Branches[s][k].place
      BY <1>1, <2>1 DEF Place
    <2> QED
      BY <2>2, BranchType
  <1> HIDE DEF b, z, d, m
  <1>5. b + d \in Nat /\ b + d - b = d /\ b <= b + d /\ b + d < b + z
    BY <1>1
  <1>6. (b + d) % 4 = 0 /\ b + d + 4 <= n
    <2>1. b % 4 = 0
      BY <1>1
    <2>2. (b + d) % 4 = 0
      BY <1>1, <2>1
    <2>3. d + 4 <= z
      BY <1>1
    <2> QED
      BY <1>1, <1>2, <2>2, <2>3
  <1>7. b + d \in Cell
    BY <1>5, <1>6, WordOfMemory
  <1> QED
    BY <1>1, <1>3, <1>4, <1>5, <1>7 DEF b, z, d

------------------------------------------------------------------------------
(* The inductive invariant.                                                   *)

LEMMA SameBuild ==
    ASSUME arch' = arch
    PROVE  /\ StubSize' = StubSize
           /\ \A r \in Section : Mapped(r)' = Mapped(r) /\ (Cramped(r)' <=> Cramped(r))
           /\ \A t : StubCode(t)' = StubCode(t)
           /\ \A r, k : Target(r, k)' = Target(r, k)
           /\ \A a : StubCells(a)' = StubCells(a)
  <1>1. StubSize' = StubSize
    BY DEF StubSize
  <1>2. \A r \in Section : StubSpace(r)' = StubSpace(r)
    BY <1>1 DEF StubSpace
  <1>3. \A r \in Section : Mapped(r)' = Mapped(r) /\ (Cramped(r)' <=> Cramped(r))
    BY <1>2 DEF Mapped, Cramped
  <1>4. \A t : StubCode(t)' = StubCode(t)
    <2>1. \A h : Imm(h)' = Imm(h)
      BY SMT DEF Imm
    <2>2. \A k, h : Mov(k, h)' = Mov(k, h) /\ Keep(k, h)' = Keep(k, h)
      BY <2>1, Zenon DEF Mov, Keep
    <2>3. Jump' = Jump
      BY DEF Jump
    <2> QED
      BY <2>2, <2>3, Zenon DEF StubCode
  <1>5. \A r, k : Target(r, k)' = Target(r, k)
    BY Zenon DEF Target
  <1>6. \A a : StubCells(a)' = StubCells(a)
    BY <1>1, Zenon DEF StubCells
  <1> QED
    BY <1>1, <1>3, <1>4, <1>5, <1>6

(* Nothing is unmapped, and no stub is ever taken back.                       *)
Grown ==
    /\ arch' = arch
    /\ \A r \in Section : base[r] # Unmapped => base'[r] = base[r]
    /\ \A r \in Section : \A k \in DOMAIN stubs[r] :
           k \in DOMAIN stubs'[r] /\ stubs'[r][k] = stubs[r][k]

LEMMA MakeStubGrows ==
    ASSUME TypeOK, NEW s \in Section, MakeStub(s)
    PROVE  Grown
  <1>1. PICK a : a = NewStub(s)
    OBVIOUS
  <1>2. PICK t \in Wanted(s) : stubs' = [stubs EXCEPT ![s] = Append(@, [target |-> t, addr |-> a])]
    BY <1>1 DEF MakeStub
  <1>3. t \in Address /\ a \in Nat
    BY <1>1, WantedType, NewStubType DEF MakeStub, Relocating
  <1>4. /\ Len(stubs[s]) \in Nat /\ DOMAIN stubs[s] = 1..Len(stubs[s])
        /\ DOMAIN stubs'[s] = 1..(Len(stubs[s]) + 1)
        /\ \A k \in DOMAIN stubs[s] : stubs'[s][k] = stubs[s][k]
        /\ \A r \in Section \ {s} : stubs'[r] = stubs[r]
    BY <1>2, <1>3, Extended DEF StubAdded
  <1>5. \A k \in DOMAIN stubs[s] : k \in DOMAIN stubs'[s]
    BY <1>4
  <1> QED
    BY <1>4, <1>5 DEF Grown, MakeStub

LEMMA Grows == TypeOK /\ [Next]_vars => Grown
  <1> SUFFICES ASSUME TypeOK, [Next]_vars PROVE Grown
    OBVIOUS
  <1>1. ASSUME NEW s \in Section, NEW p \in 0..(Pages - 1), LoadSection(s, p * PageSize)
        PROVE  Grown
    BY <1>1 DEF LoadSection, Grown, TypeOK
  <1>2. CASE UNCHANGED <<arch, base, stubs>>
    BY <1>2 DEF Grown
  <1> QED
    BY <1>1, <1>2, MakeStubGrows
    DEF Next, vars, BranchDirect, ReuseStub, MakeStubFaults, RelocateOther, Protect, ProtectFails

(* What is shared stays shared.                                               *)
LEMMA StillShared ==
    ASSUME Grown
    PROVE  \A s, c : (Shared(s, c) => Shared(s, c)') /\ \A t \in Section : Writes(t, c) => Writes(t, c)'
  <1>1. ASSUME NEW t \in Section, NEW c, Writes(t, c) PROVE Writes(t, c)'
    <2>1. CASE base[t] # Unmapped /\ \E k \in DOMAIN Branches[t] : c = Place(t, k)
      BY <2>1 DEF Grown, Writes, Place
    <2>2. CASE \E k \in DOMAIN stubs[t] : c \in StubCells(stubs[t][k].addr)
      <3>1. PICK k \in DOMAIN stubs[t] : c \in StubCells(stubs[t][k].addr)
        BY <2>2
      <3>2. PICK a : a = stubs[t][k].addr
        OBVIOUS
      <3>3. k \in DOMAIN stubs'[t] /\ stubs'[t][k].addr = a /\ c \in StubCells(a)'
        BY <3>1, <3>2, SameBuild DEF Grown
      <3>4. c \in (StubCells(stubs[t][k].addr))'
        BY <3>3 DEF StubCells
      <3> QED
        BY <3>3, <3>4 DEF Writes
    <2>3. CASE base[t] # Unmapped /\ \E d \in Others[t] : c = base[t] + d
      BY <2>3 DEF Grown, Writes
    <2> QED
      BY <1>1, <2>1, <2>2, <2>3 DEF Writes
  <1>2. \A s, c : Shared(s, c) => Shared(s, c)'
    BY <1>1 DEF Shared
  <1> QED
    BY <1>1, <1>2

(* A stub is as it was made if nothing but another section writes over it.    *)
LEMMA StubStays ==
    ASSUME Grown, NEW s \in Section, NEW k \in DOMAIN stubs[s], StubReady(s, k),
           base[s] # Unmapped,
           \A c \in StubCells(stubs[s][k].addr) : Shared(s, c)' \/ mem'[c] = mem[c]
    PROVE  StubReady(s, k)'
  <1>1. PICK t, a : stubs[s][k].target = t /\ stubs[s][k].addr = a
    OBVIOUS
  <1>2. stubs'[s][k].target = t /\ stubs'[s][k].addr = a /\ base'[s] = base[s] /\ arch' = arch
    BY <1>1 DEF Grown
  <1>3. /\ a = StubAt(s, k) /\ a + StubSize <= PageSize * Pages
        /\ arch = "arm" => t[3] = 0 /\ t[4] = 0
        /\ \A c \in StubCells(a) : /\ \E r \in Section : Covers(r, c)
                                   /\ Shared(s, c) \/ mem[c] = StubCode(t)[(c - a) \div 4 + 1]
    BY <1>1 DEF StubReady
  <1>4. StubAt(s, k)' = StubAt(s, k)
    BY <1>2, SameBuild DEF StubAt
  <1>5. \A c : \A r \in Section : Covers(r, c) => Covers(r, c)'
    BY <1>2, SameBuild DEF Covers, Grown
  <1>6. StubCells(a)' = StubCells(a) /\ StubCode(t)' = StubCode(t) /\ StubSize' = StubSize
    BY <1>2, SameBuild
  <1>7. /\ a = StubAt(s, k)' /\ a + StubSize' <= PageSize * Pages
        /\ arch' = "arm" => t[3] = 0 /\ t[4] = 0
    BY <1>2, <1>3, <1>4, <1>6
  <1>8. ASSUME NEW c \in StubCells(a)
        PROVE  /\ \E r \in Section : Covers(r, c)'
               /\ Shared(s, c)' \/ mem'[c] = StubCode(t)'[(c - a) \div 4 + 1]
    <2>1. Shared(s, c)' \/ (~Shared(s, c) /\ mem'[c] = mem[c])
      BY <1>1, <1>8, StillShared
    <2>2. Shared(s, c)' \/ mem'[c] = StubCode(t)[(c - a) \div 4 + 1]
      BY <1>3, <1>8, <2>1
    <2>3. \E r \in Section : Covers(r, c)'
      BY <1>3, <1>5, <1>8
    <2> QED
      BY <1>6, <2>2, <2>3
  <1> QED
    BY <1>2, <1>6, <1>7, <1>8 DEF StubReady

(* So is a branch.                                                            *)
LEMMA BranchStays ==
    ASSUME Grown, NEW s \in Section, NEW k \in DOMAIN Branches[s], base[s] # Unmapped,
           Shared(s, Place(s, k)) \/ BranchReady(s, k),
           Shared(s, Place(s, k))' \/ mem'[Place(s, k)] = mem[Place(s, k)],
           failures'[s] = failures[s], (k < pos'[s] <=> k < pos[s]), (k >= pos'[s] <=> k >= pos[s])
    PROVE  Shared(s, Place(s, k))' \/ BranchReady(s, k)'
  <1>1. PICK p : p = Place(s, k)
    OBVIOUS
  <1>2. p = Place(s, k)' /\ arch' = arch
    BY <1>1 DEF Place, Grown
  <1>3. SUFFICES ASSUME ~Shared(s, p)' PROVE BranchReady(s, k)'
    BY <1>1, <1>2 DEF Shared
  <1>4. BranchReady(s, k) /\ mem'[p] = mem[p]
    BY <1>1, <1>2, <1>3, StillShared DEF Shared
  <1>5. Reread(s)' <=> Reread(s)
    BY <1>2 DEF Reread
  <1>6. Target(s, k)' = Target(s, k)
    BY <1>2, SameBuild
  <1>7. \A j \in DOMAIN stubs[s] : j \in DOMAIN stubs'[s] /\ stubs'[s][j] = stubs[s][j]
    BY DEF Grown
  <1>8. PICK w : w = mem[p]
    OBVIOUS
  <1>9. /\ w = Code(s, Branches[s][k].place) \/ w.op = "branch"
        /\ k < pos[s] => w.op = "branch"
        /\ failures[s] = 0 /\ k >= pos[s] => w = Code(s, Branches[s][k].place)
        /\ ~Reread(s) /\ k < pos[s] =>
               \/ w.imm = Direct
               \/ \E j \in DOMAIN stubs[s] : stubs[s][j] = [target |-> Target(s, k), addr |-> w.imm]
    BY <1>1, <1>4, <1>8 DEF BranchReady
  <1>10. ~Reread(s)' /\ k < pos'[s] =>
             \/ w.imm = Direct
             \/ \E j \in DOMAIN stubs'[s] :
                    stubs'[s][j] = [target |-> Target(s, k)', addr |-> w.imm]
    BY <1>5, <1>6, <1>7, <1>9
  <1>11. w = mem'[Place(s, k)'] /\ Code(s, Branches[s][k].place)' = Code(s, Branches[s][k].place)
    BY <1>2, <1>4, <1>8 DEF Code
  <1> QED
    BY <1>9, <1>10, <1>11 DEF BranchReady

(* What one section's stubs and branches rest on.                             *)
StubsOf(s) ==
    /\ \A k \in DOMAIN stubs[s] : StubReady(s, k)
    /\ OneStub(s)
    /\ base[s] # Unmapped =>
           \A k \in DOMAIN Branches[s] : Shared(s, Place(s, k)) \/ BranchReady(s, k)

(* StubsInv but for the number of stubs, which follows from the rest.         *)
StubsCore ==
    \A s \in Section : LaidOut(s) /\ StubsOf(s) /\ \A t \in Section \ {s} : Apart(s, t)

LEMMA StubsParts ==
    StubsInv <=> StubsCore /\ \A s \in Section : Overfull(s) => Reread(s)
  BY DEF StubsInv, StubsCore, StubsOf

LEMMA InitStubs == Init => StubsCore
  <1> SUFFICES ASSUME Init, NEW s \in Section
               PROVE  /\ LaidOut(s) /\ StubsOf(s)
                      /\ \A t \in Section \ {s} : Apart(s, t)
    BY DEF StubsCore
  <1>1. base[s] = Unmapped /\ prot[s] = "none" /\ stubs[s] = << >> /\ pos[s] = 1 /\ failures[s] = 0
    BY DEF Init
  <1> QED
    BY <1>1 DEF LaidOut, StubsOf, OneStub, Apart

(* A stub has its place, even one of those that no room was counted for.      *)
LEMMA StubHolds ==
    ASSUME TypeOK, StubsInv, NEW s \in Section, NEW k \in DOMAIN stubs[s]
    PROVE  /\ StubReady(s, k) /\ LaidOut(s) /\ base[s] # Unmapped
           /\ k \in Nat \ {0} /\ k <= Len(stubs[s]) /\ Len(stubs[s]) \in Nat
           /\ stubs[s][k].addr = StubAt(s, k)
  <1> DEFINE R == [target : Address, addr : Nat]
  <1>1. stubs \in [Section -> Seq(R)]
    BY DEF TypeOK
  <1> HIDE DEF R
  <1>2. k \in Nat \ {0} /\ k <= Len(stubs[s]) /\ Len(stubs[s]) \in Nat
    BY <1>1
  <1>3. stubs[s] # << >>
    BY <1>1
  <1>4. StubReady(s, k) /\ LaidOut(s)
    BY DEF StubsInv
  <1> QED
    BY <1>2, <1>3, <1>4 DEF LaidOut, StubReady

(* Memory that is written where no section was mapped does not touch a word   *)
(* of one that is.                                                            *)
LEMMA LoadSpares ==
    ASSUME TypeOK, NEW u \in Section, NEW p \in 0..(Pages - 1), LoadSection(u, p * PageSize),
           NEW q \in Section, NEW c \in Cell, Covers(q, c)
    PROVE  mem'[c] = mem[c]
  <1> DEFINE b == p * PageSize
             x == base[q]
             m == Mapped(q)
             n == Mapped(u)
             z == Size[u]
  <1>1. b \in Nat
    BY Pagewise
  <1>2. c \in Nat
    BY CellsAreWords
  <1>3. x # Unmapped /\ x \in Nat /\ x <= c /\ c < x + m
    BY DEF Covers, TypeOK
  <1>4. /\ b + n <= x \/ x + m <= b
        /\ mem' = [d \in Cell |-> IF b <= d /\ d < b + z THEN Code(u, d - b) ELSE mem[d]]
    BY <1>3 DEF LoadSection
  <1>5. m \in Nat /\ n \in Nat /\ z \in Nat /\ z <= n
    <2>1. m \in Nat
      BY MappedHolds DEF TypeOK, Build
    <2>2. n \in Nat /\ z \in Nat /\ StubSpace(u) \in Nat /\ n >= z + StubSpace(u)
      BY MappedHolds DEF TypeOK, Build
    <2> QED
      BY <2>1, <2>2
  <1> HIDE DEF b, x, m, n, z
  <1>6. ~(b <= c /\ c < b + z)
    BY <1>1, <1>2, <1>3, <1>4, <1>5
  <1> QED
    BY <1>4, <1>6

(* A section's pages cover its code.                                          *)
LEMMA CodeCovered ==
    ASSUME TypeOK, NEW s \in Section, base[s] # Unmapped, NEW c \in Nat,
           base[s] <= c, c < base[s] + Size[s]
    PROVE  Covers(s, c)
  <1>1. /\ Mapped(s) \in Nat /\ Size[s] \in Nat /\ StubSpace(s) \in Nat
        /\ Mapped(s) >= Size[s] + StubSpace(s)
    BY MappedHolds DEF TypeOK, Build
  <1>2. base[s] \in Nat
    BY DEF TypeOK
  <1>3. c < base[s] + Mapped(s)
    BY <1>1, <1>2
  <1> QED
    BY <1>3 DEF Covers

LEMMA LoadStubs ==
    ASSUME TypeOK, StubsInv, NEW s \in Section, NEW p \in 0..(Pages - 1),
           LoadSection(s, p * PageSize), Grown
    PROVE  StubsCore'
  <1> DEFINE b == p * PageSize
  <1>1. b \in Nat /\ b % 8 = 0
    <2>1. p \in Nat /\ PageSize \in Nat \ {0} /\ PageSize % 8 = 0
      BY Pagewise
    <2> QED
      BY <2>1, PagesAligned
  <1>2. /\ base[s] = Unmapped /\ b + Mapped(s) <= PageSize * Pages
        /\ \A t \in Section : base[t] # Unmapped =>
               b + Mapped(s) <= base[t] \/ base[t] + Mapped(t) <= b
        /\ base' = [base EXCEPT ![s] = b] /\ prot' = [prot EXCEPT ![s] = "rw"]
        /\ mem' = [c \in Cell |-> IF b <= c /\ c < b + Size[s] THEN Code(s, c - b) ELSE mem[c]]
        /\ arch' = arch /\ stubs' = stubs /\ pos' = pos /\ failures' = failures
    BY DEF LoadSection
  <1> HIDE DEF b
  <1>3. /\ base'[s] = b /\ prot'[s] = "rw" /\ b # Unmapped
        /\ \A r \in Section \ {s} : base'[r] = base[r] /\ prot'[r] = prot[r]
    BY <1>1, <1>2 DEF TypeOK, Unmapped
  <1>4. \A r \in Section : Mapped(r)' = Mapped(r)
    BY <1>2, SameBuild
  <1> SUFFICES ASSUME NEW r \in Section
               PROVE  /\ LaidOut(r)' /\ StubsOf(r)'
                      /\ \A t \in Section \ {r} : Apart(r, t)'
    BY DEF StubsCore
  <1>5. LaidOut(r)'
    BY <1>1, <1>2, <1>3, <1>4, Pagewise DEF StubsInv, LaidOut
  <1>6. ASSUME NEW t \in Section \ {r} PROVE Apart(r, t)'
    BY <1>2, <1>3, <1>4 DEF StubsInv, Apart
  <1>7. OneStub(r)'
    BY <1>2, SameBuild DEF StubsInv, OneStub
  <1>8. ASSUME NEW k \in DOMAIN stubs[r] PROVE StubReady(r, k)'
    <2>1. StubReady(r, k) /\ base[r] # Unmapped
      BY StubHolds
    <2>2. ASSUME NEW c \in StubCells(stubs[r][k].addr) PROVE mem'[c] = mem[c]
      <3>1. c \in Cell /\ \E q \in Section : Covers(q, c)
        BY <2>1 DEF StubReady, StubCells
      <3> QED
        BY <3>1, LoadSpares
    <2> QED
      BY <2>1, <2>2, StubStays
  <1>9. ASSUME base'[r] # Unmapped, NEW k \in DOMAIN Branches[r]
        PROVE  Shared(r, Place(r, k))' \/ BranchReady(r, k)'
    <2>1. CASE r = s
      <3>1. PICK q \in Nat : q = b + Branches[s][k].place /\ Branches[s][k].place < Size[s]
        BY <1>1, <2>1, BranchType
      <3>2. Place(s, k)' = q /\ b <= q /\ q < b + Size[s] /\ q - b = Branches[s][k].place
        <4>1. Branches[s][k].place \in Nat /\ Size[s] \in Nat
          BY <2>1, BranchType, Pagewise
        <4>2. Place(s, k)' = q
          BY <1>3, <3>1 DEF Place
        <4> QED
          BY <1>1, <3>1, <4>1, <4>2
      <3>3. q \in Cell
        <4>1. q % 4 = 0 /\ q + 4 <= PageSize * Pages
          <5> DEFINE z == Size[s]
                     d == Branches[s][k].place
                     m == Mapped(s)
          <5>1. /\ z \in Nat /\ z % 4 = 0 /\ d \in Nat /\ d % 4 = 0 /\ d < z /\ q = b + d
                /\ m \in Nat /\ StubSpace(s) \in Nat /\ m >= z + StubSpace(s)
                /\ b + m <= PageSize * Pages /\ PageSize * Pages \in Nat
            BY <1>2, <2>1, <3>1, BranchType, Pagewise, MappedHolds DEF TypeOK, Build
          <5> HIDE DEF z, d, m
          <5>2. d + 4 <= z /\ z <= m
            BY <5>1
          <5>3. (b + d) % 4 = 0
            BY <1>1, <5>1
          <5> QED
            BY <1>1, <5>1, <5>2, <5>3
        <4> QED
          BY <4>1, WordOfMemory
      <3>4. mem'[q] = Code(s, Branches[s][k].place)
        BY <1>2, <3>2, <3>3
      <3>5. pos'[s] = 1 /\ failures'[s] = 0
        BY <1>2 DEF StubsInv, LaidOut
      <3>6. ~(k < 1)
        BY <2>1, Pagewise
      <3> QED
        BY <2>1, <3>2, <3>4, <3>5, <3>6 DEF BranchReady, Code
    <2>2. CASE r # s
      <3>1. base[r] # Unmapped /\ LaidOut(r)
        BY <1>3, <1>9, <2>2 DEF StubsInv
      <3>2. Place(r, k) \in Cell /\ Covers(r, Place(r, k))
        BY <1>9, <3>1, PlaceInCode, CodeCovered
      <3>3. mem'[Place(r, k)] = mem[Place(r, k)]
        BY <3>2, LoadSpares
      <3>4. Shared(r, Place(r, k)) \/ BranchReady(r, k)
        BY <1>9, <3>1 DEF StubsInv
      <3> QED
        BY <1>2, <1>9, <3>1, <3>3, <3>4, BranchStays
    <2> QED
      BY <2>1, <2>2
  <1> QED
    BY <1>2, <1>5, <1>6, <1>7, <1>8, <1>9 DEF StubsOf

(* Relocating a section writes the word of the branch and, behind the code,   *)
(* a new stub, or none (new is where). Of what was there before, only words   *)
(* that are shared can be hit.                                                *)
LEMMA RelocationSpares ==
    ASSUME TypeOK, StubsInv, Grown, NEW s \in Section, Relocating(s),
           NEW a \in Nat \cup {Direct}, NEW new,
           UNCHANGED <<arch, base, prot, failures>>, Advance(s),
           \A c \in Cell \ new : mem'[c] = Relocated(s, a)[c],
           \A c \in Cell \cap new : Writes(s, c)' /\ base[s] + Size[s] <= c,
           \A k \in DOMAIN stubs[s] : \A c \in StubCells(stubs[s][k].addr) : c \notin new,
           \A q \in Section \ {s} : stubs'[q] = stubs[q],
           NEW r \in Section
    PROVE  /\ LaidOut(r)' /\ \A t \in Section \ {r} : Apart(r, t)'
           /\ \A k \in DOMAIN stubs[r] : StubReady(r, k)'
           /\ base[r] # Unmapped =>
                  \A k \in DOMAIN Branches[r] :
                      \/ r = s /\ k = pos[s]
                      \/ Shared(r, Place(r, k))' \/ BranchReady(r, k)'
           /\ mem'[Place(s, pos[s])] = Written(s, mem[Place(s, pos[s])], a)
  <1>1. PICK i \in DOMAIN Branches[s] : i = pos[s]
    BY DEF Relocating
  <1>2. PICK p : p = Place(s, i)
    OBVIOUS
  <1>3. prot[s] = "rw" /\ base[s] # Unmapped /\ LaidOut(s) /\ i \in 1..Len(Branches[s])
    <2>1. i \in 1..Len(Branches[s])
      <3> DEFINE R == [place : Nat, target : Address]
      <3>1. Branches \in [Section -> Seq(R)]
        BY Layout
      <3> HIDE DEF R
      <3> QED
        BY <3>1
    <2> QED
      BY <2>1 DEF Relocating, StubsInv, LaidOut
  <1>4. /\ p \in Cell /\ p \in Nat /\ base[s] \in Nat /\ p < base[s] + Size[s]
        /\ \A j \in DOMAIN Branches[s] : Place(s, j) = p => j = i
    BY <1>2, <1>3, PlaceInCode
  <1>5. /\ \A q \in Section \ {s} : pos'[q] = pos[q]
        /\ pos'[s] = i + 1 /\ pos[s] = i /\ i \in Nat
    BY <1>1, <1>3, Pagewise DEF Advance, TypeOK
  <1>6. \A q \in Section : Mapped(q)' = Mapped(q)
    BY SameBuild
  <1>7. LaidOut(r)'
    <2>1. LaidOut(r)
      BY DEF StubsInv
    <2>2. CASE r = s
      BY <1>3, <1>5, <1>6, <2>1, <2>2, Pagewise DEF LaidOut
    <2>3. CASE r # s
      BY <1>5, <1>6, <2>1, <2>3 DEF LaidOut
    <2> QED
      BY <2>2, <2>3
  <1>8. \A t \in Section \ {r} : Apart(r, t)'
    BY <1>6 DEF StubsInv, Apart
  <1>9. \A c \in Cell : c \notin new /\ c # p => mem'[c] = mem[c]
    BY <1>1, <1>2 DEF Relocated, TypeOK
  <1>10. mem'[p] = Written(s, mem[p], a)
    <2>1. p \notin new
      BY <1>3, <1>4, Pagewise
    <2> QED
      BY <1>1, <1>2, <1>4, <2>1 DEF Relocated, TypeOK
  <1>11. ASSUME r # s, NEW c \in Cell PROVE Shared(r, c)' \/ mem'[c] = mem[c]
    <2>1. CASE c \in new
      BY <1>11, <2>1 DEF Shared
    <2>2. CASE c = p
      <3>1. Writes(s, c)
        BY <1>1, <1>2, <1>3, <2>2 DEF Writes
      <3> QED
        BY <1>11, <3>1, StillShared DEF Shared
    <2> QED
      BY <1>9, <2>1, <2>2
  <1>12. ASSUME NEW k \in DOMAIN stubs[r] PROVE StubReady(r, k)'
    <2>1. /\ StubReady(r, k) /\ base[r] # Unmapped /\ LaidOut(r) /\ k \in Nat \ {0}
          /\ stubs[r][k].addr = StubAt(r, k)
      BY StubHolds
    <2>2. ASSUME NEW c \in StubCells(stubs[r][k].addr) PROVE Shared(r, c)' \/ mem'[c] = mem[c]
      <3>1. c \in Cell /\ c \in Nat /\ StubAt(r, k) <= c
        BY <2>1, CellsAreWords DEF StubCells
      <3>2. CASE r = s
        <4>1. base[s] + Size[s] + 8 <= StubAt(s, k) /\ StubAt(s, k) \in Nat
          BY <2>1, <3>2, StubPlace
        <4>2. c # p
          BY <1>4, <3>1, <3>2, <4>1, Pagewise
        <4> QED
          BY <1>9, <2>2, <3>1, <3>2, <4>2
      <3>3. CASE r # s
        BY <1>11, <3>1, <3>3
      <3> QED
        BY <3>2, <3>3
    <2> QED
      BY <2>1, <2>2, StubStays
  <1>13. ASSUME base[r] # Unmapped, NEW k \in DOMAIN Branches[r], ~(r = s /\ k = pos[s])
         PROVE  Shared(r, Place(r, k))' \/ BranchReady(r, k)'
    <2>1. LaidOut(r) /\ (Shared(r, Place(r, k)) \/ BranchReady(r, k))
      BY <1>13 DEF StubsInv
    <2>2. Place(r, k) \in Cell /\ Place(r, k) \in Nat
          /\ Place(r, k) < base[r] + Size[r] /\ base[r] \in Nat
      BY <1>13, <2>1, PlaceInCode
    <2>3. Shared(r, Place(r, k))' \/ mem'[Place(r, k)] = mem[Place(r, k)]
      <3>1. CASE r = s
        <4>1. Place(r, k) # p
          BY <1>4, <1>5, <1>13, <3>1
        <4>2. Place(r, k) \notin new
          BY <2>2, <3>1, Pagewise
        <4> QED
          BY <1>9, <2>2, <4>1, <4>2
      <3>2. CASE r # s
        <4>1. PICK c : c = Place(r, k)
          OBVIOUS
        <4>2. c = Place(r, k)'
          BY <4>1 DEF Place
        <4>3. Shared(r, c)' \/ mem'[c] = mem[c]
          BY <1>11, <2>2, <3>2, <4>1
        <4> QED
          BY <4>1, <4>2, <4>3 DEF Shared
      <3> QED
        BY <3>1, <3>2
    <2>4. (k < pos'[r] <=> k < pos[r]) /\ (k >= pos'[r] <=> k >= pos[r])
      <3>1. k \in Nat
        <4> DEFINE R == [place : Nat, target : Address]
        <4>1. Branches \in [Section -> Seq(R)]
          BY Layout
        <4> HIDE DEF R
        <4> QED
          BY <4>1
      <3> QED
        BY <1>5, <1>13, <3>1
    <2> QED
      BY <1>13, <2>1, <2>3, <2>4, BranchStays
  <1> QED
    BY <1>1, <1>2, <1>7, <1>8, <1>10, <1>12, <1>13

(* There are no more stubs than branches if each was made for another one.    *)
LEMMA Pigeonhole ==
    ASSUME NEW n \in Nat, NEW m \in Nat, NEW f \in [1..n -> 1..m],
           \A j, k \in 1..n : f[j] = f[k] => j = k
    PROVE  n <= m
  <1>1. f \in Injection(1..n, 1..m)
    BY DEF Injection, IsInjective
  <1>2. IsFiniteSet(1..m) /\ Cardinality(1..m) = m /\ Cardinality(1..n) = n
    BY FS_Interval
  <1>3. Cardinality(1..n) <= Cardinality(1..m)
    BY <1>1, <1>2, FS_Injection
  <1> QED
    BY <1>2, <1>3

LEMMA BranchesCounted ==
    ASSUME NEW s \in Section
    PROVE  DOMAIN Branches[s] = 1..Len(Branches[s]) /\ Len(Branches[s]) \in Nat
  <1> DEFINE R == [place : Nat, target : Address]
  <1>1. Branches \in [Section -> Seq(R)]
    BY Layout
  <1> HIDE DEF R
  <1> QED
    BY <1>1

LEMMA StubsCounted ==
    ASSUME TypeOK, NEW s \in Section
    PROVE  DOMAIN stubs[s] = 1..Len(stubs[s]) /\ Len(stubs[s]) \in Nat
  <1> DEFINE R == [target : Address, addr : Nat]
  <1>1. stubs \in [Section -> Seq(R)]
    BY DEF TypeOK
  <1> HIDE DEF R
  <1> QED
    BY <1>1

LEMMA NoMoreStubs ==
    TypeOK /\ StubsCore => \A s \in Section : Overfull(s) => Reread(s)
  <1> SUFFICES ASSUME TypeOK, StubsCore, NEW s \in Section, ~Reread(s)
               PROVE  ~Overfull(s)
    OBVIOUS
  <1>1. DOMAIN stubs[s] = 1..Len(stubs[s]) /\ Len(stubs[s]) \in Nat
    BY StubsCounted
  <1>2. DOMAIN Branches[s] = 1..Len(Branches[s]) /\ Len(Branches[s]) \in Nat
    BY BranchesCounted
  <1>3. OneStub(s) /\ LaidOut(s)
    BY DEF StubsCore, StubsOf
  <1>4. CASE failures[s] = 0
    <2>1. Len(stubs[s]) < pos[s] /\ pos[s] \in Nat /\ pos[s] <= Len(Branches[s]) + 1
      BY <1>2, <1>3, <1>4 DEF OneStub, LaidOut, TypeOK
    <2> QED
      BY <1>1, <1>2, <2>1 DEF Overfull
  <1>5. CASE failures[s] # 0
    <2>1. ~(arch = "arm" /\ s \in Implicit)
      BY <1>5 DEF Reread, TypeOK
    <2>2. \A j \in 1..Len(stubs[s]) :
              \E k \in 1..Len(Branches[s]) : stubs[s][j].target = Target(s, k)
      BY <1>1, <1>2, <1>3, <2>1 DEF OneStub
    <2> DEFINE f == [j \in 1..Len(stubs[s]) |->
                        CHOOSE k \in 1..Len(Branches[s]) : stubs[s][j].target = Target(s, k)]
    <2>3. \A j \in 1..Len(stubs[s]) :
              f[j] \in 1..Len(Branches[s]) /\ stubs[s][j].target = Target(s, f[j])
      BY <2>2
    <2>4. f \in [1..Len(stubs[s]) -> 1..Len(Branches[s])]
      BY <2>3
    <2>5. \A j, k \in 1..Len(stubs[s]) : f[j] = f[k] => j = k
      <3> HIDE DEF f
      <3>1. \A j, k \in 1..Len(stubs[s]) : stubs[s][j].target = stubs[s][k].target => j = k
        BY <1>1, <1>3 DEF OneStub
      <3> QED
        BY <2>3, <3>1
    <2> HIDE DEF f
    <2>6. Len(stubs[s]) <= Len(Branches[s])
      BY <1>1, <1>2, <2>4, <2>5, Pigeonhole
    <2> QED
      BY <1>1, <1>2, <2>6 DEF Overfull
  <1> QED
    BY <1>4, <1>5
(* The address a branch asks for is its own, unless its word was written      *)
(* before.                                                                    *)
LEMMA WantsTarget ==
    ASSUME StubsInv, NEW s \in Section, Relocating(s), base[s] # Unmapped, TypeOK,
           NEW t \in Wanted(s)
    PROVE  /\ ~(arch = "arm" /\ s \in Implicit) => t = Target(s, pos[s])
           /\ ~Reread(s) /\ ~Shared(s, Place(s, pos[s])) => t = Target(s, pos[s])
  <1>1. PICK i \in DOMAIN Branches[s] : i = pos[s] /\ i \in Nat
    BY DEF Relocating, TypeOK
  <1>2. ~(arch = "arm" /\ s \in Implicit) => t = Target(s, i)
    BY <1>1 DEF Wanted
  <1>3. ASSUME failures[s] = 0, ~Shared(s, Place(s, i)) PROVE t = Target(s, i)
    <2>1. BranchReady(s, i)
      BY <1>3 DEF StubsInv
    <2>2. mem[Place(s, i)] = Code(s, Branches[s][i].place)
      BY <1>1, <1>3, <2>1 DEF BranchReady
    <2> QED
      BY <1>1, <2>2 DEF Wanted
  <1>4. failures[s] \in Nat
    BY DEF TypeOK
  <1> QED
    BY <1>1, <1>2, <1>3, <1>4 DEF Reread

(* The branch that was relocated is in place: to the target it asked for, or  *)
(* through a stub for it.                                                     *)
LEMMA BranchWritten ==
    ASSUME TypeOK, StubsInv, Grown, NEW s \in Section, Relocating(s),
           NEW i \in DOMAIN Branches[s], i = pos[s],
           NEW a \in Nat \cup {Direct}, UNCHANGED <<arch, base, failures>>, Advance(s),
           mem'[Place(s, pos[s])] = Written(s, mem[Place(s, pos[s])], a),
           \/ a = Direct
           \/ \E t \in Wanted(s) : \E j \in DOMAIN stubs'[s] :
                  stubs'[s][j] = [target |-> t, addr |-> a]
    PROVE  Shared(s, Place(s, i))' \/ BranchReady(s, i)'
  <1>1. i \in Nat
    BY DEF TypeOK
  <1>2. PICK p : p = Place(s, i)
    OBVIOUS
  <1>3. p = Place(s, i)' /\ pos'[s] = i + 1 /\ base[s] # Unmapped
    BY <1>1, <1>2 DEF Place, Advance, Relocating, TypeOK, StubsInv, LaidOut
  <1>4. SUFFICES ASSUME ~Shared(s, p)' PROVE BranchReady(s, i)'
    BY <1>3 DEF Shared
  <1>5. ~Shared(s, p)
    BY <1>4, StillShared
  <1>6. mem[p] = Code(s, Branches[s][i].place) \/ mem[p].op = "branch"
    <2>1. BranchReady(s, i)
      BY <1>2, <1>3, <1>5 DEF StubsInv
    <2> QED
      BY <1>2, <2>1 DEF BranchReady
  <1>7. mem'[p] = Branch(a)
    BY <1>1, <1>2, <1>6 DEF Written, Code
  <1>8. ~Reread(s) => \A t \in Wanted(s) : t = Target(s, i)
    BY <1>1, <1>2, <1>3, <1>5, WantsTarget
  <1>9. (Reread(s)' <=> Reread(s)) /\ Target(s, i)' = Target(s, i)
    BY SameBuild DEF Reread
  <1>9a. PICK w : w = Branch(a)
    OBVIOUS
  <1>10. w = Branch(a) /\ w.op = "branch" /\ w.imm = a
    BY <1>9a DEF Branch
  <1>11. ~Reread(s)' =>
             \/ w.imm = Direct
             \/ \E j \in DOMAIN stubs'[s] : stubs'[s][j] = [target |-> Target(s, i)', addr |-> w.imm]
    BY <1>8, <1>9, <1>10
  <1>12. mem'[Place(s, i)'] = w /\ i < pos'[s] /\ ~(i >= pos'[s])
    BY <1>1, <1>3, <1>7, <1>10
  <1> QED
    BY <1>10, <1>11, <1>12 DEF BranchReady

(* A branch in reach, or through a stub that is there.                        *)
LEMMA BranchStubs ==
    ASSUME TypeOK, StubsInv, Grown, NEW s \in Section, Relocating(s),
           NEW a \in Nat \cup {Direct}, mem' = Relocated(s, a), Advance(s),
           UNCHANGED <<arch, base, prot, stubs, failures>>,
           \/ a = Direct
           \/ \E t \in Wanted(s) : \E j \in DOMAIN stubs[s] : stubs[s][j] = [target |-> t, addr |-> a]
    PROVE  StubsCore'
  <1>1. ASSUME NEW r \in Section
        PROVE  /\ LaidOut(r)' /\ \A t \in Section \ {r} : Apart(r, t)'
               /\ \A k \in DOMAIN stubs[r] : StubReady(r, k)'
               /\ base[r] # Unmapped =>
                      \A k \in DOMAIN Branches[r] :
                          \/ r = s /\ k = pos[s]
                          \/ Shared(r, Place(r, k))' \/ BranchReady(r, k)'
               /\ mem'[Place(s, pos[s])] = Written(s, mem[Place(s, pos[s])], a)
    <2> DEFINE new == {}
    <2>1. /\ \A c \in Cell \ new : mem'[c] = Relocated(s, a)[c]
          /\ \A c \in Cell \cap new : Writes(s, c)' /\ base[s] + Size[s] <= c
          /\ \A k \in DOMAIN stubs[s] : \A c \in StubCells(stubs[s][k].addr) : c \notin new
      OBVIOUS
    <2> HIDE DEF new
    <2> QED
      BY <2>1, RelocationSpares
  <1>2. mem'[Place(s, pos[s])] = Written(s, mem[Place(s, pos[s])], a)
    BY <1>1
  <1>3. PICK i \in DOMAIN Branches[s] : i = pos[s]
    BY DEF Relocating
  <1>4. Shared(s, Place(s, i))' \/ BranchReady(s, i)'
    BY <1>2, <1>3, BranchWritten
  <1> SUFFICES ASSUME NEW r \in Section PROVE StubsOf(r)'
    BY <1>1 DEF StubsCore
  <1>5. OneStub(r)'
    <2>1. OneStub(r) /\ pos[r] \in Nat /\ Len(stubs[r]) \in Nat
      BY DEF StubsInv, TypeOK
    <2>2. pos'[r] >= pos[r] /\ pos'[r] \in Nat
      BY <2>1 DEF Advance, TypeOK
    <2>3. Len(stubs[r]) < pos[r] => Len(stubs[r]) < pos'[r]
      BY <2>1, <2>2
    <2>4. \A k : Target(r, k)' = Target(r, k)
      BY SameBuild
    <2> QED
      BY <2>1, <2>3, <2>4 DEF OneStub
  <1>6. ASSUME base[r] # Unmapped, NEW k \in DOMAIN Branches[r]
        PROVE  Shared(r, Place(r, k))' \/ BranchReady(r, k)'
    BY <1>1, <1>3, <1>6, <1>4
  <1> QED
    BY <1>1, <1>5, <1>6 DEF StubsOf

(* A new stub lies behind the section's code and its other stubs.             *)
LEMMA MakeStubs ==
    ASSUME TypeOK, StubsInv, NEW s \in Section, MakeStub(s)
    PROVE  StubsCore'
  <1>1. PICK a, n : a = NewStub(s) /\ n = Len(stubs[s])
    OBVIOUS
  <1>2. PICK t \in Wanted(s) :
            /\ FindStub(s, t) = {}
            /\ mem' = [c \in Cell |->
                         IF c \in StubCells(a) THEN StubCode(t)[(c - a) \div 4 + 1]
                         ELSE Relocated(s, a)[c]]
            /\ stubs' = [stubs EXCEPT ![s] = Append(@, [target |-> t, addr |-> a])]
    BY <1>1 DEF MakeStub
  <1>3. /\ Relocating(s) /\ StubFits(a) /\ Advance(s)
        /\ UNCHANGED <<arch, base, prot, failures>>
    BY <1>1 DEF MakeStub
  <1>4. PICK i \in DOMAIN Branches[s] : i = pos[s]
    BY <1>3 DEF Relocating
  <1>5. a \in Nat /\ t \in Address /\ (arch = "arm" => t[3] = 0 /\ t[4] = 0)
    BY <1>1, <1>2, <1>3, NewStubType, WantedType DEF Relocating
  <1>6. /\ n \in Nat /\ DOMAIN stubs[s] = 1..n /\ DOMAIN stubs'[s] = 1..(n + 1)
        /\ Len(stubs'[s]) = n + 1 /\ stubs'[s][n + 1] = [target |-> t, addr |-> a]
        /\ \A k \in 1..n : stubs'[s][k] = stubs[s][k]
        /\ \A r \in Section \ {s} : stubs'[r] = stubs[r]
    <2>0. stubs' = [stubs EXCEPT ![s] = Append(@, [target |-> t, addr |-> a])]
      BY <1>2
    <2>1. /\ Len(stubs[s]) \in Nat /\ DOMAIN stubs[s] = 1..Len(stubs[s])
          /\ DOMAIN stubs'[s] = 1..(Len(stubs[s]) + 1) /\ Len(stubs'[s]) = Len(stubs[s]) + 1
          /\ stubs'[s][Len(stubs[s]) + 1] = [target |-> t, addr |-> a]
          /\ \A k \in DOMAIN stubs[s] : stubs'[s][k] = stubs[s][k]
          /\ \A r \in Section \ {s} : stubs'[r] = stubs[r]
      <3>1. t \in Address /\ a \in Nat
        BY <1>5
      <3>2. StubAdded(s, t, a)
        BY <2>0, <3>1, Extended
      <3> QED
        BY <3>2 DEF StubAdded
    <2> QED
      BY <1>1, <2>1
  <1>7. n + 1 \in 1..(n + 1) /\ n + 1 \in Nat \ {0} /\ \A k \in 1..(n + 1) : k \in 1..n \/ k = n + 1
    BY <1>6
  <1>8. base[s] # Unmapped /\ LaidOut(s) /\ a = StubAt(s, n + 1)
    <2>1. n + 1 - 1 = n
      BY <1>6
    <2> QED
      BY <1>1, <1>3, <2>1 DEF Relocating, StubsInv, LaidOut, NewStub, StubAt
  <1>9. Grown
    BY MakeStubGrows
  <1>10. StubCells(a)' = StubCells(a) /\ StubCode(t)' = StubCode(t) /\ StubSize' = StubSize
    BY <1>3, SameBuild
  <1>11. \A c \in StubCells(a) : Writes(s, c)'
    <2>1. n + 1 \in DOMAIN stubs'[s] /\ stubs'[s][n + 1].addr = a
      BY <1>6, <1>7
    <2>2. (StubCells(stubs[s][n + 1].addr))' = StubCells(a)
      BY <1>10, <2>1 DEF StubCells
    <2> QED
      BY <2>1, <2>2 DEF Writes
  <1>12. ASSUME NEW r \in Section
         PROVE  /\ LaidOut(r)' /\ \A q \in Section \ {r} : Apart(r, q)'
                /\ \A k \in DOMAIN stubs[r] : StubReady(r, k)'
                /\ base[r] # Unmapped =>
                       \A k \in DOMAIN Branches[r] :
                           \/ r = s /\ k = pos[s]
                           \/ Shared(r, Place(r, k))' \/ BranchReady(r, k)'
                /\ mem'[Place(s, pos[s])] = Written(s, mem[Place(s, pos[s])], a)
    <2> DEFINE new == StubCells(a)
    <2>1. \A c \in Cell \ new : mem'[c] = Relocated(s, a)[c]
      BY <1>2
    <2>2. ASSUME NEW c \in Cell \cap new PROVE Writes(s, c)' /\ base[s] + Size[s] <= c
      <3>1. base[s] \in Nat /\ base[s] + Size[s] + 8 <= a /\ a <= c /\ c \in Nat
        BY <1>7, <1>8, StubPlace, CellsAreWords DEF StubCells
      <3> QED
        BY <1>5, <1>11, <3>1, Pagewise
    <2>3. ASSUME NEW k \in DOMAIN stubs[s], NEW c \in StubCells(stubs[s][k].addr)
          PROVE  c \notin new
      <3>1. k \in Nat \ {0} /\ k # n + 1 /\ stubs[s][k].addr = StubAt(s, k)
        BY <1>6, StubHolds
      <3> QED
        BY <1>7, <1>8, <2>3, <3>1, StubsApart
    <2> HIDE DEF new
    <2>4. \A q \in Section \ {s} : stubs'[q] = stubs[q]
      BY <1>6
    <2> QED
      BY <1>3, <1>5, <1>9, <2>1, <2>2, <2>3, <2>4, RelocationSpares
  <1>13. Shared(s, Place(s, i))' \/ BranchReady(s, i)'
    <2>1. mem'[Place(s, pos[s])] = Written(s, mem[Place(s, pos[s])], a)
      BY <1>12
    <2>2. \E j \in DOMAIN stubs'[s] : stubs'[s][j] = [target |-> t, addr |-> a]
      BY <1>6, <1>7
    <2> QED
      BY <1>3, <1>4, <1>5, <1>9, <2>1, <2>2, BranchWritten
  <1>14. StubReady(s, n + 1)'
    <2>1. StubAt(s, n + 1)' = StubAt(s, n + 1)
      BY <1>3, SameBuild DEF StubAt
    <2>2. a = StubAt(s, n + 1)' /\ a + StubSize' <= PageSize * Pages
          /\ (arch' = "arm" => t[3] = 0 /\ t[4] = 0)
      BY <1>3, <1>5, <1>8, <1>10, <2>1 DEF StubFits
    <2>3. ASSUME NEW c \in StubCells(a)
          PROVE  (\E q \in Section : Covers(q, c)') /\ mem'[c] = StubCode(t)'[(c - a) \div 4 + 1]
      <3>1. PICK q \in Section : Covers(q, c)
        BY <1>3, <2>3 DEF StubFits, Writable
      <3>2. Covers(q, c)'
        BY <1>3, <3>1, SameBuild DEF Covers
      <3>3. mem'[c] = StubCode(t)[(c - a) \div 4 + 1]
        BY <1>2, <2>3 DEF StubCells
      <3> QED
        BY <1>10, <3>2, <3>3
    <2>4. stubs'[s][n + 1].target = t /\ stubs'[s][n + 1].addr = a
      BY <1>6
    <2> QED
      BY <1>10, <2>2, <2>3, <2>4 DEF StubReady
  <1> SUFFICES ASSUME NEW r \in Section PROVE StubsOf(r)'
    BY <1>12 DEF StubsCore
  <1>15. OneStub(r)'
    <2>1. OneStub(r) /\ OneStub(s)
      BY DEF StubsInv
    <2>2. \A k : Target(r, k)' = Target(r, k)
      BY <1>3, SameBuild
    <2>3. CASE r # s
      <3>1. stubs'[r] = stubs[r] /\ pos'[r] = pos[r] /\ failures'[r] = failures[r] /\ arch' = arch
        BY <1>3, <1>6, <2>3 DEF Advance, TypeOK
      <3> QED
        BY <2>1, <2>2, <3>1 DEF OneStub
    <2>4. CASE r = s
      <3>1. \A k \in 1..n : stubs[s][k].target # t
        BY <1>2, <1>6 DEF FindStub
      <3>2. \A k \in 1..n : stubs'[s][k].target = stubs[s][k].target
        BY <1>6
      <3>3. stubs'[s][n + 1].target = t
        BY <1>6
      <3>4. ASSUME NEW j \in 1..(n + 1), NEW k \in 1..(n + 1),
                   stubs'[s][j].target = stubs'[s][k].target
            PROVE  j = k
        <4>1. CASE j \in 1..n /\ k \in 1..n
          <5>1. stubs[s][j].target = stubs[s][k].target
            BY <3>2, <3>4, <4>1
          <5>2. j \in DOMAIN stubs[s] /\ k \in DOMAIN stubs[s]
            BY <1>6, <4>1
          <5> QED
            BY <2>1, <5>1, <5>2 DEF OneStub
        <4>2. CASE j = n + 1 \/ k = n + 1
          BY <1>7, <3>1, <3>2, <3>3, <3>4, <4>2
        <4> QED
          BY <1>7, <4>1, <4>2
      <3>5. failures'[s] = 0 => Len(stubs'[s]) < pos'[s]
        <4>1. pos'[s] = pos[s] + 1 /\ pos[s] \in Nat /\ failures'[s] = failures[s]
          BY <1>3 DEF Advance, TypeOK
        <4>2. failures[s] = 0 => n < pos[s]
          BY <1>1, <2>1 DEF OneStub
        <4> QED
          BY <1>6, <4>1, <4>2
      <3>6. ~(arch = "arm" /\ s \in Implicit) =>
                \A j \in 1..(n + 1) : \E k \in DOMAIN Branches[s] : stubs'[s][j].target = Target(s, k)
        <4> SUFFICES ASSUME ~(arch = "arm" /\ s \in Implicit), NEW j \in 1..(n + 1)
                     PROVE  \E k \in DOMAIN Branches[s] : stubs'[s][j].target = Target(s, k)
          OBVIOUS
        <4>1. CASE j \in 1..n
          BY <1>6, <2>1, <3>2, <4>1 DEF OneStub
        <4>2. CASE j = n + 1
          <5>1. t = Target(s, i)
            BY <1>3, <1>4, <1>8, WantsTarget
          <5> QED
            BY <1>4, <3>3, <4>2, <5>1
        <4> QED
          BY <1>7, <4>1, <4>2
      <3> QED
        BY <1>3, <1>6, <2>2, <2>4, <3>4, <3>5, <3>6 DEF OneStub
    <2> QED
      BY <2>3, <2>4
  <1>16. \A k \in DOMAIN stubs'[r] : StubReady(r, k)'
    <2>1. CASE r = s
      BY <1>6, <1>7, <1>12, <1>14, <2>1
    <2>2. CASE r # s
      BY <1>6, <1>12, <2>2
    <2> QED
      BY <2>1, <2>2
  <1>17. ASSUME base'[r] # Unmapped, NEW k \in DOMAIN Branches[r]
         PROVE  Shared(r, Place(r, k))' \/ BranchReady(r, k)'
    BY <1>3, <1>4, <1>12, <1>13, <1>17
  <1> QED
    BY <1>15, <1>16, <1>17 DEF StubsOf

(* Sealing, or failing to, touches neither code nor stubs.                    *)
LEMMA ProtectStubs ==
    ASSUME TypeOK, StubsInv, Grown, NEW s \in Section, Protect(s) \/ ProtectFails(s)
    PROVE  StubsCore'
  <1> SUFFICES ASSUME NEW r \in Section
               PROVE  /\ LaidOut(r)' /\ StubsOf(r)'
                      /\ \A t \in Section \ {r} : Apart(r, t)'
    BY DEF StubsCore
  <1>1. /\ prot[s] = "rw" /\ UNCHANGED <<arch, base, mem, stubs>>
        /\ pos[s] \notin DOMAIN Branches[s]
        /\ \/ prot' = [prot EXCEPT ![s] = "rx"] /\ pos' = pos /\ failures' = failures
           \/ /\ failures' = [failures EXCEPT ![s] = failures[s] + 1]
              /\ pos' = [pos EXCEPT ![s] = 1] /\ prot' = prot
    BY DEF Protect, ProtectFails, Protecting
  <1>2. \A q \in Section : Mapped(q)' = Mapped(q)
    BY <1>1, SameBuild
  <1>3. base[s] # Unmapped /\ pos[s] = Len(Branches[s]) + 1
    <2>1. base[s] # Unmapped /\ pos[s] <= Len(Branches[s]) + 1
      BY <1>1 DEF StubsInv, LaidOut
    <2>2. pos[s] \in Nat \ {0} /\ pos[s] \notin 1..Len(Branches[s]) /\ Len(Branches[s]) \in Nat
      BY <1>1, BranchesCounted DEF TypeOK
    <2> QED
      BY <2>1, <2>2
  <1>4. 1 <= Len(Branches[s]) + 1 /\ failures[s] + 1 # 0
    BY BranchesCounted DEF TypeOK
  <1>5. LaidOut(r)'
    <2>1. LaidOut(r)
      BY DEF StubsInv
    <2>2. CASE r = s
      BY <1>1, <1>2, <1>3, <1>4, <2>1, <2>2 DEF LaidOut, TypeOK
    <2>3. CASE r # s
      BY <1>1, <1>2, <2>1, <2>3 DEF LaidOut, TypeOK
    <2> QED
      BY <2>2, <2>3
  <1>6. \A t \in Section \ {r} : Apart(r, t)'
    BY <1>1, <1>2 DEF StubsInv, Apart
  <1>7. ASSUME NEW k \in DOMAIN stubs[r] PROVE StubReady(r, k)'
    <2>1. StubReady(r, k) /\ base[r] # Unmapped
      BY StubHolds
    <2> QED
      BY <1>1, <2>1, StubStays
  <1>8. \/ pos'[r] = pos[r] /\ failures'[r] = failures[r]
        \/ r = s /\ pos'[r] = 1 /\ failures'[r] = failures[r] + 1
    BY <1>1 DEF TypeOK
  <1>9. failures[r] \in Nat /\ failures[r] + 1 # 0
    BY DEF TypeOK
  <1>10. OneStub(r)'
    <2>1. OneStub(r) /\ \A k : Target(r, k)' = Target(r, k)
      BY <1>1, SameBuild DEF StubsInv
    <2> QED
      BY <1>1, <1>8, <1>9, <2>1 DEF OneStub
  <1>11. ASSUME base[r] # Unmapped, NEW k \in DOMAIN Branches[r]
         PROVE  Shared(r, Place(r, k))' \/ BranchReady(r, k)'
    <2>1. Shared(r, Place(r, k)) \/ BranchReady(r, k)
      BY <1>11 DEF StubsInv
    <2>2. PICK p : p = Place(r, k)
      OBVIOUS
    <2>3. p = Place(r, k)' /\ mem'[p] = mem[p]
      BY <1>1, <2>2 DEF Place
    <2>4. CASE pos'[r] = pos[r] /\ failures'[r] = failures[r]
      BY <1>1, <1>11, <2>1, <2>4, BranchStays
    <2>5. CASE r = s /\ pos'[r] = 1 /\ failures'[r] = failures[r] + 1
      <3>1. SUFFICES ASSUME ~Shared(r, p)' PROVE BranchReady(r, k)'
        BY <2>3 DEF Shared
      <3>2. BranchReady(r, k)
        BY <2>1, <2>2, <3>1, StillShared
      <3>3. mem[p] = Code(r, Branches[r][k].place) \/ mem[p].op = "branch"
        BY <2>2, <3>2 DEF BranchReady
      <3>4. ~(k < pos'[r]) /\ failures'[r] # 0
        BY <1>9, <2>5, BranchesCounted
      <3> QED
        BY <2>3, <3>3, <3>4 DEF BranchReady, Code
    <2> QED
      BY <1>8, <2>4, <2>5
  <1> QED
    BY <1>1, <1>5, <1>6, <1>7, <1>10, <1>11 DEF StubsOf

(* Another relocation of a section writes a word of its code that is no       *)
(* branch of its own.                                                         *)
LEMMA OtherPlace ==
    ASSUME TypeOK, NEW s \in Section, base[s] # Unmapped, NEW d \in Others[s]
    PROVE  /\ d \in Nat /\ base[s] + d \in Nat /\ base[s] <= base[s] + d
           /\ base[s] + d < base[s] + Size[s]
           /\ \A k \in DOMAIN Branches[s] : Place(s, k) # base[s] + d
  <1>1. base[s] \in Nat
    BY DEF TypeOK
  <1>2. d \in Nat /\ d < Size[s] /\ Size[s] \in Nat
        /\ \A k \in DOMAIN Branches[s] : Branches[s][k].place # d
    BY Layout
  <1>3. ASSUME NEW k \in DOMAIN Branches[s] PROVE Place(s, k) # base[s] + d
    <2>1. PICK i \in Nat : i = Branches[s][k].place
      BY BranchType
    <2> QED
      BY <1>1, <1>2, <2>1 DEF Place
  <1> QED
    BY <1>1, <1>2, <1>3

LEMMA OtherStubs ==
    ASSUME TypeOK, StubsInv, Grown, NEW s \in Section, RelocateOther(s)
    PROVE  StubsCore'
  <1> SUFFICES ASSUME NEW r \in Section
               PROVE  /\ LaidOut(r)' /\ StubsOf(r)'
                      /\ \A t \in Section \ {r} : Apart(r, t)'
    BY DEF StubsCore
  <1>1. PICK d \in Others[s] : mem' = [mem EXCEPT ![base[s] + d] = IF @.op = s THEN @ ELSE Mixed]
    BY DEF RelocateOther
  <1>2. PICK p : p = base[s] + d
    OBVIOUS
  <1>3. base[s] # Unmapped /\ UNCHANGED <<arch, base, prot, stubs, pos, failures>>
    BY DEF RelocateOther, StubsInv, LaidOut
  <1>4. /\ p \in Nat /\ base[s] \in Nat /\ p < base[s] + Size[s]
        /\ \A k \in DOMAIN Branches[s] : Place(s, k) # p
    BY <1>2, <1>3, OtherPlace DEF TypeOK
  <1>5. \A c \in Cell : c # p => mem'[c] = mem[c]
    BY <1>1, <1>2 DEF TypeOK
  <1>6. r # s => Shared(r, p)'
    <2>1. Writes(s, p)
      BY <1>2, <1>3 DEF Writes
    <2> QED
      BY <2>1, StillShared DEF Shared
  <1>7. LaidOut(r)' /\ \A t \in Section \ {r} : Apart(r, t)'
    BY <1>3, SameBuild DEF StubsInv, LaidOut, Apart
  <1>8. OneStub(r)'
    BY <1>3, SameBuild DEF StubsInv, OneStub
  <1>9. ASSUME NEW k \in DOMAIN stubs[r] PROVE StubReady(r, k)'
    <2>1. /\ StubReady(r, k) /\ base[r] # Unmapped /\ LaidOut(r) /\ k \in Nat \ {0}
          /\ stubs[r][k].addr = StubAt(r, k)
      BY StubHolds
    <2>2. ASSUME NEW c \in StubCells(stubs[r][k].addr) PROVE Shared(r, c)' \/ mem'[c] = mem[c]
      <3>1. c \in Cell /\ c \in Nat /\ StubAt(r, k) <= c
        BY <2>1, CellsAreWords DEF StubCells
      <3>2. CASE r = s
        <4>1. base[s] + Size[s] + 8 <= StubAt(s, k) /\ StubAt(s, k) \in Nat
          BY <2>1, <3>2, StubPlace
        <4>2. c # p
          BY <1>4, <3>1, <3>2, <4>1, Pagewise
        <4> QED
          BY <1>5, <3>1, <4>2
      <3>3. CASE r # s
        <4>1. CASE c = p
          BY <1>6, <3>3, <4>1 DEF Shared
        <4>2. CASE c # p
          BY <1>5, <3>1, <4>2
        <4> QED
          BY <4>1, <4>2
      <3> QED
        BY <3>2, <3>3
    <2> QED
      BY <2>1, <2>2, StubStays
  <1>10. ASSUME base[r] # Unmapped, NEW k \in DOMAIN Branches[r]
         PROVE  Shared(r, Place(r, k))' \/ BranchReady(r, k)'
    <2>1. Shared(r, Place(r, k)) \/ BranchReady(r, k)
      BY <1>10 DEF StubsInv
    <2>2. PICK c : c = Place(r, k)
      OBVIOUS
    <2>3. c = Place(r, k)' /\ c \in Cell
      <3>1. Place(r, k) \in Cell
        BY <1>10, PlaceInCode DEF StubsInv
      <3> QED
        BY <1>3, <2>2, <3>1 DEF Place
    <2>4. CASE r = s
      <3>1. mem'[c] = mem[c]
        BY <1>4, <1>5, <2>2, <2>3, <2>4
      <3> QED
        BY <1>3, <1>10, <2>1, <2>2, <3>1, BranchStays
    <2>5. CASE r # s
      <3>1. Shared(r, c)' \/ mem'[c] = mem[c]
        BY <1>5, <1>6, <2>3, <2>5 DEF Shared
      <3>2. Shared(r, Place(r, k))' \/ mem'[Place(r, k)] = mem[Place(r, k)]
        BY <2>2, <2>3, <3>1 DEF Shared
      <3> QED
        BY <1>3, <1>10, <2>1, <3>2, BranchStays
    <2> QED
      BY <2>4, <2>5
  <1> QED
    BY <1>3, <1>7, <1>8, <1>9, <1>10 DEF StubsOf

LEMMA SameStubs ==
    ASSUME TypeOK, StubsInv, Grown, UNCHANGED <<arch, base, prot, mem, stubs, pos, failures>>
    PROVE  StubsCore'
  <1> SUFFICES ASSUME NEW r \in Section
               PROVE  /\ LaidOut(r)' /\ StubsOf(r)'
                      /\ \A t \in Section \ {r} : Apart(r, t)'
    BY DEF StubsCore
  <1>1. LaidOut(r)' /\ \A t \in Section \ {r} : Apart(r, t)'
    BY SameBuild DEF StubsInv, LaidOut, Apart
  <1>2. OneStub(r)'
    BY SameBuild DEF StubsInv, OneStub
  <1>3. ASSUME NEW k \in DOMAIN stubs[r] PROVE StubReady(r, k)'
    <2>1. StubReady(r, k) /\ base[r] # Unmapped
      BY StubHolds
    <2> QED
      BY <2>1, StubStays
  <1>4. ASSUME base[r] # Unmapped, NEW k \in DOMAIN Branches[r]
        PROVE  Shared(r, Place(r, k))' \/ BranchReady(r, k)'
    <2>1. Shared(r, Place(r, k)) \/ BranchReady(r, k)
      BY <1>4 DEF StubsInv
    <2> QED
      BY <1>4, <2>1, BranchStays
  <1> QED
    BY <1>1, <1>2, <1>3, <1>4 DEF StubsOf

LEMMA NextStubs == TypeOK /\ StubsInv /\ Grown /\ [Next]_vars => StubsCore'
  <1> SUFFICES ASSUME TypeOK, StubsInv, Grown, [Next]_vars PROVE StubsCore'
    OBVIOUS
  <1>1. ASSUME NEW s \in Section, BranchDirect(s) PROVE StubsCore'
    <2>1. /\ Relocating(s) /\ Advance(s) /\ mem' = Relocated(s, Direct)
          /\ UNCHANGED <<arch, base, prot, stubs, failures>>
      BY <1>1 DEF BranchDirect
    <2> QED
      BY <2>1, BranchStubs
  <1>2. ASSUME NEW s \in Section, ReuseStub(s) PROVE StubsCore'
    <2>1. PICK t \in Wanted(s) : \E k \in FindStub(s, t) : mem' = Relocated(s, stubs[s][k].addr)
      BY <1>2 DEF ReuseStub
    <2>2. PICK k \in DOMAIN stubs[s] :
              stubs[s][k].target = t /\ mem' = Relocated(s, stubs[s][k].addr)
      BY <2>1 DEF FindStub
    <2>3. PICK a \in Nat : a = stubs[s][k].addr
      BY StubType
    <2>4. stubs[s][k] = [target |-> t, addr |-> a]
      BY <2>2, <2>3, StubType
    <2>5. Relocating(s) /\ Advance(s) /\ UNCHANGED <<arch, base, prot, stubs, failures>>
      BY <1>2 DEF ReuseStub
    <2> QED
      BY <2>2, <2>3, <2>4, <2>5, BranchStubs
  <1>3. ASSUME NEW s \in Section, MakeStubFaults(s) PROVE StubsCore'
    BY <1>3, SameStubs DEF MakeStubFaults
  <1>4. CASE UNCHANGED vars
    BY <1>4, SameStubs DEF vars
  <1> QED
    BY <1>1, <1>2, <1>3, <1>4, LoadStubs, MakeStubs, OtherStubs, ProtectStubs DEF Next

(* In every execution stubs stay as make_stub wrote them and branches as they *)
(* were relocated, where no other section writes, and no section has more     *)
(* stubs than branches unless these were read again.                          *)
THEOREM StubsInvariant == Spec => []StubsInv
  <1>1. Init => StubsInv
    BY InitStubs, InitTypeOK, NoMoreStubs, StubsParts
  <1>2. TypeOK /\ StubsInv /\ [Next]_vars => StubsCore'
    BY Grows, NextStubs
  <1>3. TypeOK' /\ StubsCore' => StubsInv'
    <2>1. (StubsInv <=> StubsCore /\ \A s \in Section : Overfull(s) => Reread(s))'
      BY StubsParts, PTL
    <2>2. (TypeOK /\ StubsCore => \A s \in Section : Overfull(s) => Reread(s))'
      BY NoMoreStubs, PTL
    <2> QED
      BY <2>1, <2>2
  <1> QED
    BY <1>1, <1>2, <1>3, TypeCorrect, PTL DEF Spec

------------------------------------------------------------------------------
(* Branches.                                                                  *)

(* Every stub whose words are not shared leads to its target.                 *)
LEMMA StubsLead ==
    ASSUME TypeOK, StubsInv, NEW s \in Section, NEW k \in DOMAIN stubs[s],
           \A c \in StubCells(stubs[s][k].addr) : ~Shared(s, c)
    PROVE  Arrives(stubs[s][k].addr) = stubs[s][k].target
  <1>1. PICK t, a : stubs[s][k].target = t /\ stubs[s][k].addr = a
    OBVIOUS
  <1>2. t \in Address /\ a \in Nat
    BY <1>1, StubType
  <1>3. StubReady(s, k) /\ a % 4 = 0
    <2>1. /\ StubReady(s, k) /\ LaidOut(s) /\ base[s] # Unmapped /\ k \in Nat \ {0}
          /\ stubs[s][k].addr = StubAt(s, k)
      BY StubHolds
    <2> QED
      BY <1>1, <2>1, StubPlace
  <1>4. /\ a + StubSize <= PageSize * Pages /\ (arch = "arm" => t[3] = 0 /\ t[4] = 0)
        /\ \A c \in StubCells(a) : mem[c] = StubCode(t)[(c - a) \div 4 + 1]
    BY <1>1, <1>3 DEF StubReady
  <1> QED
    BY <1>1, <1>2, <1>3, <1>4, StubArrives DEF TypeOK, Build

(* In every execution, the branches of a section that is sealed arrive at     *)
(* their own targets, unless they were read again as addends or share words   *)
(* with what another section writes.                                          *)
THEOREM BranchesAlwaysArrive == Spec => []BranchesArrive
  <1>1. TypeOK /\ StubsInv => BranchesArrive
    <2> SUFFICES ASSUME TypeOK, StubsInv, NEW s \in Section, prot[s] = "rx", ~Reread(s),
                        \A c \in Cell : Writes(s, c) => ~Shared(s, c),
                        NEW k \in DOMAIN Branches[s]
                 PROVE  LET w == mem[Place(s, k)] IN
                        w.op = "branch" /\ (w.imm = Direct \/ Arrives(w.imm) = Target(s, k))
      BY DEF BranchesArrive
    <2>1. LaidOut(s) /\ base[s] # Unmapped /\ k < pos[s]
      <3>1. LaidOut(s) /\ base[s] # Unmapped /\ pos[s] = Len(Branches[s]) + 1
        BY DEF StubsInv, LaidOut
      <3> QED
        BY <3>1, BranchesCounted
    <2>2. Place(s, k) \in Cell /\ Writes(s, Place(s, k))
      BY <2>1, PlaceInCode DEF Writes
    <2>3. BranchReady(s, k)
      BY <2>1, <2>2 DEF StubsInv
    <2>4. PICK w : w = mem[Place(s, k)]
      OBVIOUS
    <2>5. /\ w.op = "branch"
          /\ \/ w.imm = Direct
             \/ \E j \in DOMAIN stubs[s] : stubs[s][j] = [target |-> Target(s, k), addr |-> w.imm]
      BY <2>1, <2>3, <2>4 DEF BranchReady
    <2>6. ASSUME NEW j \in DOMAIN stubs[s],
                 stubs[s][j] = [target |-> Target(s, k), addr |-> w.imm]
          PROVE  Arrives(w.imm) = Target(s, k)
      <3>1. stubs[s][j].target = Target(s, k) /\ stubs[s][j].addr = w.imm
        BY <2>6
      <3>2. \A c \in StubCells(stubs[s][j].addr) : ~Shared(s, c)
        BY DEF StubCells, Writes
      <3>3. Arrives(stubs[s][j].addr) = stubs[s][j].target
        BY <3>2, StubsLead
      <3> QED
        BY <3>1, <3>3
    <2> QED
      BY <2>4, <2>5, <2>6
  <1> QED
    BY <1>1, TypeCorrect, StubsInvariant, PTL

------------------------------------------------------------------------------
(* The code around the stubs.                                                 *)

(* The first byte behind a section's pages is at least 8 in front of any code *)
(* but that of a section mapped right there, and a stub goes no further.      *)
LEMMA StubSparesCode ==
    ASSUME TypeOK, StubsInv, NEW s \in Section, base[s] # Unmapped,
           NEW r \in Section, base[r] # Unmapped,
           r # s => ~(Cramped(r) /\ Before(r, s)),
           NEW k \in 1..Len(Branches[r]), NEW c \in StubCells(StubAt(r, k))
    PROVE  ~(base[s] <= c /\ c < base[s] + Size[s])
  <1>1. c \in Nat /\ StubAt(r, k) <= c /\ c < StubAt(r, k) + StubSize
    BY CellsAreWords DEF StubCells
  <1>2. LaidOut(r) /\ LaidOut(s) /\ (r # s => Apart(r, s))
    BY DEF StubsInv
  <1>3. /\ base[r] \in Nat /\ StubAt(r, k) \in Nat /\ base[r] + Size[r] + 8 <= StubAt(r, k)
        /\ StubAt(r, k) + StubSize <= base[r] + Mapped(r) + 8
        /\ ~Cramped(r) => StubAt(r, k) + StubSize <= base[r] + Mapped(r)
    <2>1. k \in Nat \ {0}
      BY Pagewise
    <2> QED
      BY <1>2, <2>1, StubPlace, StubInRoom
  <1>4. base[s] \in Nat /\ base[s] % 8 = 0 /\ base[r] % 8 = 0
    BY <1>2 DEF TypeOK, LaidOut
  <1>5. /\ Size[s] \in Nat /\ Size[r] \in Nat /\ Mapped(s) \in Nat /\ Mapped(r) \in Nat
        /\ Mapped(r) % 8 = 0 /\ Size[s] <= Mapped(s)
    <2>1. /\ Mapped(s) \in Nat /\ Size[s] \in Nat /\ StubSpace(s) \in Nat
          /\ Mapped(s) >= Size[s] + StubSpace(s)
      BY MappedHolds DEF TypeOK, Build
    <2>2. Mapped(r) \in Nat /\ Mapped(r) % 8 = 0 /\ Size[r] \in Nat
      BY MappedHolds DEF TypeOK, Build
    <2> QED
      BY <2>1, <2>2
  <1> DEFINE b == base[s]
             d == base[r]
             z == Size[s]
             y == Size[r]
             m == Mapped(s)
             n == Mapped(r)
             x == StubAt(r, k)
             g == StubSize
  <1>6. /\ b \in Nat /\ d \in Nat /\ z \in Nat /\ y \in Nat /\ m \in Nat /\ n \in Nat /\ x \in Nat
        /\ g \in Nat /\ z <= m /\ d + y + 8 <= x /\ x + g <= d + n + 8 /\ x <= c /\ c < x + g
        /\ b % 8 = 0 /\ d % 8 = 0 /\ n % 8 = 0
    BY <1>1, <1>3, <1>4, <1>5 DEF StubSize
  <1>7. s = r => b = d /\ z = y
    OBVIOUS
  <1>8. s # r => b + m <= d \/ d + n <= b
    BY <1>2 DEF Apart
  <1>9. s # r /\ d + n = b => x + g <= d + n
    BY <1>3 DEF Before
  <1> HIDE DEF b, d, z, y, m, n, x, g
  <1>10. d + n < b => d + n + 8 <= b
    BY <1>6
  <1>11. ~(b <= c /\ c < b + z)
    <2>1. CASE s = r
      BY <1>1, <1>6, <1>7, <2>1
    <2>2. CASE s # r /\ b + m <= d
      BY <1>1, <1>6, <2>2
    <2>3. CASE s # r /\ d + n <= b
      BY <1>1, <1>6, <1>9, <1>10, <2>3
    <2> QED
      BY <1>8, <2>1, <2>2, <2>3
  <1> QED
    BY <1>11 DEF b, z

Disturbed(s) == \E t \in Section \ {s} : Overfull(t) \/ (Cramped(t) /\ Before(t, s))

LEMMA StillDisturbed ==
    ASSUME TypeOK, Grown, NEW s \in Section, base[s] # Unmapped
    PROVE  Disturbed(s) => (Disturbed(s))'
  <1>1. ASSUME NEW t \in Section, Overfull(t) PROVE Overfull(t)'
    <2> DEFINE R == [target : Address, addr : Nat]
    <2>1. stubs[t] \in Seq(R) /\ Len(stubs[t]) > Len(Branches[t])
      BY <1>1 DEF TypeOK, Overfull
    <2> QED
      BY <1>1, <2>1 DEF Overfull, Grown
  <1>2. ASSUME NEW t \in Section, Cramped(t), Before(t, s) PROVE Cramped(t)' /\ Before(t, s)'
    BY <1>2, SameBuild DEF Grown, Before
  <1> QED
    BY <1>1, <1>2 DEF Disturbed

LEMMA NextCodeIntact == TypeOK /\ StubsInv /\ CodeIntact /\ Grown /\ [Next]_vars => CodeIntact'
  <1> SUFFICES ASSUME TypeOK, StubsInv, CodeIntact, Grown, [Next]_vars, NEW s \in Section,
                      base'[s] # Unmapped, ~(Disturbed(s))',
                      NEW c \in Cell, base'[s] <= c, c < base'[s] + Size[s]
               PROVE  \/ mem'[c] = Code(s, c - base'[s])
                      \/ mem'[c].op = "branch" /\ \E k \in DOMAIN Branches[s] : c = Place(s, k)'
    BY DEF CodeIntact, Code, Disturbed
  <1>1. c \in Nat
    BY CellsAreWords
  <1>2. ASSUME base[s] # Unmapped
        PROVE  /\ ~Disturbed(s) /\ base'[s] = base[s]
               /\ \/ mem[c] = Code(s, c - base[s])
                  \/ mem[c].op = "branch" /\ \E k \in DOMAIN Branches[s] : c = Place(s, k)
               /\ \A k : Place(s, k)' = Place(s, k)
               /\ Covers(s, c)
    <2>1. ~Disturbed(s) /\ base'[s] = base[s]
      BY <1>2, StillDisturbed DEF Grown
    <2> QED
      BY <1>1, <1>2, <2>1, CodeCovered DEF CodeIntact, Disturbed, Place
  <1>3. ASSUME base[s] # Unmapped, mem'[c] = mem[c]
        PROVE  \/ mem'[c] = Code(s, c - base'[s])
               \/ mem'[c].op = "branch" /\ \E k \in DOMAIN Branches[s] : c = Place(s, k)'
    BY <1>2, <1>3
  <1>4. ASSUME NEW u \in Section, NEW p \in 0..(Pages - 1), LoadSection(u, p * PageSize)
        PROVE  \/ mem'[c] = Code(s, c - base'[s])
               \/ mem'[c].op = "branch" /\ \E k \in DOMAIN Branches[s] : c = Place(s, k)'
    <2>1. CASE base[s] = Unmapped
      <3>1. s = u /\ base'[s] = p * PageSize
        BY <1>4, <2>1 DEF LoadSection, TypeOK
      <3>2. mem' = [d \in Cell |-> IF p * PageSize <= d /\ d < p * PageSize + Size[s]
                                   THEN Code(s, d - p * PageSize) ELSE mem[d]]
        BY <1>4, <3>1 DEF LoadSection
      <3> QED
        BY <3>1, <3>2
    <2>2. CASE base[s] # Unmapped
      BY <1>2, <1>3, <1>4, <2>2, LoadSpares
    <2> QED
      BY <2>1, <2>2
  (* The word of a branch is another's, or was code or a branch before.       *)
  <1>5. ASSUME NEW u \in Section, Relocating(u), NEW a, base' = base,
               mem'[c] = Relocated(u, a)[c]
        PROVE  \/ mem'[c] = Code(s, c - base'[s])
               \/ mem'[c].op = "branch" /\ \E k \in DOMAIN Branches[s] : c = Place(s, k)'
    <2>1. PICK i \in DOMAIN Branches[u] : i = pos[u]
      BY <1>5 DEF Relocating
    <2>2. base[s] # Unmapped /\ base[u] # Unmapped /\ LaidOut(u) /\ (u # s => Apart(u, s))
      BY <1>5 DEF Relocating, StubsInv, LaidOut
    <2>3. /\ Place(u, i) \in Nat /\ base[u] \in Nat
          /\ base[u] <= Place(u, i) /\ Place(u, i) < base[u] + Size[u]
      BY <2>2, PlaceInCode
    <2>4. CASE c # Place(u, i)
      BY <1>3, <1>5, <2>1, <2>2, <2>4 DEF Relocated, TypeOK
    <2>5. CASE c = Place(u, i)
      <3>1. u = s
        <4>1. Covers(u, c) /\ Covers(s, c)
          BY <1>1, <1>2, <2>2, <2>3, <2>5, CodeCovered
        <4>2. Mapped(u) \in Nat /\ Mapped(s) \in Nat /\ base[s] \in Nat
          BY <2>2, MappedHolds DEF TypeOK, Build
        <4> QED
          BY <1>1, <2>2, <2>3, <4>1, <4>2 DEF Covers, Apart
      <3>2. mem'[c] = Written(s, mem[c], a)
        BY <1>5, <2>1, <2>5, <3>1 DEF Relocated, TypeOK
      <3>3. mem[c].op \in {s, "branch"}
        BY <1>2, <2>2 DEF Code
      <3>4. mem'[c].op = "branch"
        BY <3>2, <3>3 DEF Written, Branch
      <3> QED
        BY <1>2, <2>2, <2>5, <3>1, <3>4
    <2> QED
      BY <2>4, <2>5
  <1>6. ASSUME NEW u \in Section, MakeStub(u)
        PROVE  \/ mem'[c] = Code(s, c - base'[s])
               \/ mem'[c].op = "branch" /\ \E k \in DOMAIN Branches[s] : c = Place(s, k)'
    <2>1. PICK a : a = NewStub(u)
      OBVIOUS
    <2>2. PICK t \in Wanted(u) :
              /\ mem' = [d \in Cell |->
                           IF d \in StubCells(a) THEN StubCode(t)[(d - a) \div 4 + 1]
                           ELSE Relocated(u, a)[d]]
              /\ stubs' = [stubs EXCEPT ![u] = Append(@, [target |-> t, addr |-> a])]
      BY <1>6, <2>1 DEF MakeStub
    <2>3. Relocating(u) /\ base' = base /\ base[s] # Unmapped
      BY <1>6 DEF MakeStub
    <2>4. /\ base[u] # Unmapped /\ LaidOut(u) /\ LaidOut(s) /\ Len(stubs[u]) \in Nat
          /\ a = StubAt(u, Len(stubs[u]) + 1) /\ Len(stubs'[u]) = Len(stubs[u]) + 1
      <3>1. t \in Address /\ a \in Nat
        BY <2>1, <2>3, WantedType, NewStubType DEF Relocating
      <3>2. stubs' = [stubs EXCEPT ![u] = Append(@, [target |-> t, addr |-> a])]
        BY <2>2
      <3>3. Len(stubs[u]) \in Nat /\ Len(stubs'[u]) = Len(stubs[u]) + 1
        BY <3>1, <3>2, Extended DEF StubAdded
      <3>4. Len(stubs[u]) + 1 - 1 = Len(stubs[u])
        BY <3>3
      <3> QED
        BY <2>1, <2>3, <3>3, <3>4 DEF Relocating, StubsInv, LaidOut, NewStub, StubAt
    <2>5. c \notin StubCells(a)
      <3>1. CASE u = s
        <4>1. base[s] \in Nat /\ base[s] + Size[s] + 8 <= a /\ a \in Nat
          BY <2>3, <2>4, <3>1, StubPlace
        <4> QED
          BY <1>1, <2>3, <4>1, Pagewise DEF StubCells
      <3>2. CASE u # s
        <4>1. ~Overfull(u)' /\ ~(Cramped(u) /\ Before(u, s))
          BY <1>2, <2>3, <3>2 DEF Disturbed
        <4>2. Len(stubs[u]) + 1 \in 1..Len(Branches[u])
          BY <2>4, <4>1, BranchesCounted DEF Overfull
        <4> QED
          BY <2>3, <2>4, <4>1, <4>2, StubSparesCode
      <3> QED
        BY <3>1, <3>2
    <2>6. mem'[c] = Relocated(u, a)[c]
      BY <2>2, <2>5
    <2> QED
      BY <1>5, <2>3, <2>6
  <1>7. ASSUME NEW u \in Section, BranchDirect(u) \/ ReuseStub(u)
        PROVE  \/ mem'[c] = Code(s, c - base'[s])
               \/ mem'[c].op = "branch" /\ \E k \in DOMAIN Branches[s] : c = Place(s, k)'
    <2>1. Relocating(u) /\ base' = base /\ \E a : mem' = Relocated(u, a)
      BY <1>7 DEF BranchDirect, ReuseStub
    <2> QED
      BY <1>5, <2>1
  (* What another relocation writes is another's word, or code, which stays.  *)
  <1>8. ASSUME NEW u \in Section, RelocateOther(u)
        PROVE  \/ mem'[c] = Code(s, c - base'[s])
               \/ mem'[c].op = "branch" /\ \E k \in DOMAIN Branches[s] : c = Place(s, k)'
    <2>1. PICK d \in Others[u] :
              mem' = [mem EXCEPT ![base[u] + d] = IF @.op = u THEN @ ELSE Mixed]
      BY <1>8 DEF RelocateOther
    <2>2. base' = base /\ base[s] # Unmapped /\ base[u] # Unmapped /\ LaidOut(u)
          /\ (u # s => Apart(u, s))
      BY <1>8 DEF RelocateOther, StubsInv, LaidOut
    <2>3. /\ base[u] + d \in Nat /\ base[u] <= base[u] + d /\ base[u] + d < base[u] + Size[u]
          /\ \A k \in DOMAIN Branches[u] : Place(u, k) # base[u] + d
      BY <2>2, OtherPlace
    <2>4. CASE c # base[u] + d
      BY <1>3, <2>1, <2>2, <2>4 DEF TypeOK
    <2>5. CASE c = base[u] + d
      <3>1. u = s
        <4>1. Covers(u, c) /\ Covers(s, c)
          BY <1>1, <1>2, <2>2, <2>3, <2>5, CodeCovered
        <4>2. Mapped(u) \in Nat /\ Mapped(s) \in Nat /\ base[s] \in Nat /\ base[u] \in Nat
          BY <2>2, MappedHolds DEF TypeOK, Build
        <4> QED
          BY <1>1, <2>2, <4>1, <4>2 DEF Covers, Apart
      <3>2. mem[c] = Code(s, c - base[s]) /\ mem[c].op = s
        BY <1>2, <2>2, <2>3, <2>5, <3>1 DEF Code
      <3>3. mem'[c] = mem[c]
        BY <2>1, <2>5, <3>1, <3>2 DEF TypeOK
      <3> QED
        BY <1>3, <2>2, <3>3
    <2> QED
      BY <2>4, <2>5
  <1>9. CASE UNCHANGED <<base, mem>>
    BY <1>3, <1>9
  <1> QED
    BY <1>4, <1>6, <1>7, <1>8, <1>9 DEF Next, vars, MakeStubFaults, Protect, ProtectFails

(* In every execution the code of a section stays as it was loaded, but for   *)
(* its branches, unless a section that is full to its last 8 bytes lies right *)
(* before it, or another one has more stubs than branches.                    *)
THEOREM CodeAlwaysIntact == Spec => []CodeIntact
  <1>1. Init => CodeIntact
    BY DEF Init, CodeIntact
  <1> QED
    BY <1>1, Grows, NextCodeIntact, TypeCorrect, StubsInvariant, PTL DEF Spec

------------------------------------------------------------------------------
(* Room for the stubs.                                                        *)

(* A branch that asks for a new stub is one that has none yet, unless         *)
(* branches were read again.                                                  *)
LEMMA StubsLeft ==
    ASSUME TypeOK, StubsInv, NEW s \in Section, Relocating(s),
           NEW t \in Wanted(s), FindStub(s, t) = {}, ~Reread(s)
    PROVE  Len(stubs[s]) + 1 <= Len(Branches[s])
  <1> DEFINE n == Len(stubs[s])
             m == Len(Branches[s])
  <1>1. DOMAIN stubs[s] = 1..n /\ n \in Nat
    BY StubsCounted
  <1>2. DOMAIN Branches[s] = 1..m /\ m \in Nat
    BY BranchesCounted
  <1>3. OneStub(s) /\ LaidOut(s) /\ pos[s] \in 1..m
    BY <1>2 DEF StubsInv, Relocating
  <1>4. base[s] # Unmapped
    BY <1>3 DEF LaidOut, Relocating
  <1> HIDE DEF n, m
  <1>5. CASE failures[s] = 0
    <2>1. n < pos[s]
      BY <1>3, <1>5 DEF OneStub, n
    <2> QED
      BY <1>1, <1>2, <1>3, <2>1 DEF n, m
  <1>6. CASE failures[s] # 0
    <2>1. ~(arch = "arm" /\ s \in Implicit)
      BY <1>6 DEF Reread, TypeOK
    <2>2. t = Target(s, pos[s])
      BY <1>4, <2>1, WantsTarget
    <2>3. \A j \in 1..n : \E k \in 1..m : stubs[s][j].target = Target(s, k)
      BY <1>1, <1>2, <1>3, <2>1 DEF OneStub
    <2> DEFINE g == [j \in 1..n |-> CHOOSE k \in 1..m : stubs[s][j].target = Target(s, k)]
               f == [j \in 1..(n + 1) |-> IF j = n + 1 THEN pos[s] ELSE g[j]]
    <2>4. \A j \in 1..n : g[j] \in 1..m /\ stubs[s][j].target = Target(s, g[j])
      BY <2>3
    <2>5. \A j \in 1..n : stubs[s][j].target # t
      BY <1>1 DEF FindStub
    <2>6. \A j, k \in 1..n : stubs[s][j].target = stubs[s][k].target => j = k
      BY <1>1, <1>3 DEF OneStub
    <2> HIDE DEF g
    <2>7. \A j \in 1..n : j \in 1..(n + 1) /\ j # n + 1
      BY <1>1
    <2>8. \A j \in 1..(n + 1) : j \in 1..n \/ j = n + 1
      BY <1>1
    <2>9. f \in [1..(n + 1) -> 1..m]
      BY <1>3, <2>4, <2>8
    <2>10. /\ f[n + 1] = pos[s] /\ \A j \in 1..n : f[j] = g[j]
      <3>1. n + 1 \in 1..(n + 1)
        BY <1>1
      <3> QED
        BY <2>7, <3>1
    <2> HIDE DEF f
    <2>11. \A j, k \in 1..(n + 1) : f[j] = f[k] => j = k
      <3>1. \A j \in 1..n : f[j] # f[n + 1]
        BY <2>2, <2>4, <2>5, <2>10
      <3>2. \A j, k \in 1..n : f[j] = f[k] => j = k
        BY <2>4, <2>6, <2>10
      <3> QED
        BY <2>8, <3>1, <3>2
    <2>12. n + 1 \in Nat
      BY <1>1
    <2>13. n + 1 <= m
      BY <1>2, <2>9, <2>11, <2>12, Pigeonhole
    <2> QED
      BY <2>13 DEF n, m
  <1> QED
    BY <1>5, <1>6

(* One more stub that was counted fits, if it is not the last, or its section *)
(* has room, or writable pages lie right behind.                              *)
LEMMA StubHasRoom ==
    ASSUME TypeOK, StubsInv, NEW s \in Section, Relocating(s),
           Len(stubs[s]) + 1 <= Len(Branches[s]),
           \/ ~Cramped(s)
           \/ Len(stubs[s]) + 1 # Len(Branches[s])
           \/ \E t \in Section : Before(s, t) /\ prot[t] = "rw"
    PROVE  StubFits(NewStub(s))
  <1> DEFINE a == NewStub(s)
             g == StubSize
             b == base[s]
             m == Mapped(s)
  <1>1. /\ base[s] # Unmapped /\ prot[s] = "rw" /\ LaidOut(s)
        /\ Len(stubs[s]) + 1 \in 1..Len(Branches[s]) /\ a = StubAt(s, Len(stubs[s]) + 1)
        /\ Len(stubs[s]) + 1 \in Nat \ {0}
    <2>1. base[s] # Unmapped /\ prot[s] = "rw" /\ LaidOut(s)
      BY DEF Relocating, StubsInv, LaidOut
    <2>2. Len(stubs[s]) \in Nat /\ Len(Branches[s]) \in Nat
      BY StubsCounted, BranchesCounted
    <2>3. /\ Len(stubs[s]) + 1 \in 1..Len(Branches[s]) /\ Len(stubs[s]) + 1 - 1 = Len(stubs[s])
          /\ Len(stubs[s]) + 1 \in Nat \ {0}
      BY <2>2
    <2> QED
      BY <2>1, <2>3 DEF NewStub, StubAt
  <1>2. /\ b \in Nat /\ a \in Nat /\ b + Size[s] + 8 <= a /\ a + g <= b + m + 8
        /\ ~Cramped(s) \/ Len(stubs[s]) + 1 < Len(Branches[s]) => a + g <= b + m
    BY <1>1, StubPlace, StubInRoom
  <1>3. Len(stubs[s]) + 1 # Len(Branches[s]) => Len(stubs[s]) + 1 < Len(Branches[s])
    BY <1>1, BranchesCounted
  <1>4. /\ Size[s] \in Nat /\ m \in Nat /\ g \in Nat /\ b + m <= PageSize * Pages
        /\ PageSize * Pages \in Nat
    BY <1>1, MappedHolds, Pagewise DEF TypeOK, Build, LaidOut, StubSize
  <1>5. \A c \in StubCells(a) : c \in Nat /\ a <= c /\ c < a + g
    BY CellsAreWords DEF StubCells
  <1>6. \A c : b <= c /\ c < b + m => Covers(s, c)
    BY <1>1 DEF Covers
  <1> HIDE DEF a, g, b, m
  <1>7. CASE ~Cramped(s) \/ Len(stubs[s]) + 1 # Len(Branches[s])
    <2>1. a + g <= PageSize * Pages
      BY <1>2, <1>3, <1>4, <1>7
    <2>2. \A c \in StubCells(a) : Covers(s, c)
      BY <1>2, <1>3, <1>4, <1>5, <1>6, <1>7
    <2> QED
      BY <1>1, <2>1, <2>2 DEF StubFits, Writable, a, g
  <1>8. ASSUME NEW t \in Section, Before(s, t), prot[t] = "rw" PROVE StubFits(NewStub(s))
    <2> DEFINE d == base[t]
               n == Mapped(t)
    <2>1. /\ d # Unmapped /\ d + n <= PageSize * Pages /\ n \in Nat /\ n >= 8 /\ d \in Nat
          /\ b + m = d
      <3>1. base[t] # Unmapped /\ base[s] + Mapped(s) = base[t]
        BY <1>1, <1>2, <1>4, <1>8 DEF Before, TypeOK, Unmapped, StubsInv, LaidOut, b, m
      <3>2. base[t] + Mapped(t) <= PageSize * Pages /\ base[t] \in Nat
        BY <3>1 DEF StubsInv, LaidOut, TypeOK
      <3>3. Mapped(t) \in Nat /\ Mapped(t) >= 8
        BY MappedHolds DEF TypeOK, Build
      <3> QED
        BY <3>1, <3>2, <3>3 DEF b, m
    <2>2. \A c : d <= c /\ c < d + n => Covers(t, c)
      BY <2>1 DEF Covers
    <2> HIDE DEF d, n
    <2>3. a + g <= PageSize * Pages
      BY <1>2, <1>4, <2>1
    <2>4. ASSUME NEW c \in StubCells(a) PROVE Covers(s, c) \/ Covers(t, c)
      <3>0. c \in Nat /\ b <= c /\ c < b + m + 8
        <4>1. c \in Nat /\ a <= c /\ c < a + g
          BY <1>5
        <4>2. a \in Nat /\ b <= a /\ a + g <= b + m + 8
          BY <1>2, <1>4
        <4> QED
          BY <1>2, <1>4, <4>1, <4>2
      <3>1. (b <= c /\ c < b + m) \/ (d <= c /\ c < d + n)
        BY <1>2, <1>4, <2>1, <3>0
      <3> QED
        BY <1>6, <2>2, <3>1
    <2> QED
      BY <1>1, <1>8, <2>3, <2>4 DEF StubFits, Writable, a, g
  <1> QED
    BY <1>7, <1>8

LEMMA NextFaultOnlyCramped ==
    TypeOK /\ StubsInv /\ FaultOnlyCramped /\ [Next]_vars => FaultOnlyCramped'
  <1> SUFFICES ASSUME TypeOK, StubsInv, FaultOnlyCramped, [Next]_vars, status' = "fault"
               PROVE  FaultOnlyCramped'
    BY DEF FaultOnlyCramped
  <1>1. ASSUME NEW s \in Section, MakeStubFaults(s) PROVE FaultOnlyCramped'
    <2>1. /\ Relocating(s) /\ ~StubFits(NewStub(s)) /\ prot[s] = "rw"
          /\ arch' = arch /\ base' = base /\ prot' = prot /\ stubs' = stubs
          /\ failures' = failures
      BY <1>1 DEF MakeStubFaults, Relocating
    <2>2. \/ Reread(s) /\ Len(stubs[s]) >= Len(Branches[s])
          \/ Len(stubs[s]) + 1 <= Len(Branches[s])
      <3>1. PICK t \in Wanted(s) : FindStub(s, t) = {}
        BY <1>1 DEF MakeStubFaults
      <3>2. Len(stubs[s]) \in Nat /\ Len(Branches[s]) \in Nat
        BY StubsCounted, BranchesCounted
      <3> QED
        BY <2>1, <3>1, <3>2, StubsLeft
    <2>3. Len(stubs[s]) + 1 <= Len(Branches[s]) =>
              /\ Cramped(s) /\ Len(stubs[s]) + 1 = Len(Branches[s])
              /\ ~\E t \in Section : Before(s, t) /\ prot[t] = "rw"
      BY <2>1, StubHasRoom
    <2>4. /\ Reread(s)' <=> Reread(s)
          /\ Cramped(s)' <=> Cramped(s)
          /\ \A t \in Section : Before(s, t)' <=> Before(s, t)
      BY <2>1, SameBuild DEF Before, Reread
    <2> QED
      BY <2>1, <2>2, <2>3, <2>4 DEF FaultOnlyCramped
  <1>2. CASE UNCHANGED vars
    <2>1. \A s, t \in Section : (Before(s, t)' <=> Before(s, t)) /\ (Cramped(s)' <=> Cramped(s))
      BY <1>2, SameBuild DEF vars, Before
    <2>2. \A s \in Section : Reread(s)' <=> Reread(s)
      BY <1>2 DEF vars, Reread
    <2> QED
      BY <1>2, <2>1, <2>2 DEF vars, FaultOnlyCramped
  <1>3. CASE \A s \in Section : ~MakeStubFaults(s)
    BY <1>2, <1>3
    DEF Next, LoadSection, BranchDirect, ReuseStub, MakeStub, RelocateOther, Protect, ProtectFails,
        Relocating, Protecting
  <1> QED
    BY <1>1, <1>3

(* Only the last stub of a section that is full to its last 8 bytes can       *)
(* fault, and not if pages right behind it can be written; or one that is     *)
(* made when arm reads the branches of a first pass again.                    *)
THEOREM FaultsOnlyIfCramped == Spec => []FaultOnlyCramped
  <1>1. Init => FaultOnlyCramped
    BY DEF Init, FaultOnlyCramped
  <1> QED
    BY <1>1, NextFaultOnlyCramped, TypeCorrect, StubsInvariant, PTL DEF Spec

------------------------------------------------------------------------------
(* Refinement of StubTable.                                                   *)

Entry(s, k) == <<s, stubs[s][k].target, stubs[s][k].addr>>

(* The abstract entries are the stubs with the targets they were made for.    *)
EntriesAreStubs ==
    \A e : e \in Entries <=> \E s \in Section : \E k \in DOMAIN stubs[s] : e = Entry(s, k)

LEMMA StubsAreEntries == TypeOK /\ StubsInv /\ Unshared => EntriesAreStubs
  <1> SUFFICES ASSUME TypeOK, StubsInv, Unshared PROVE EntriesAreStubs
    OBVIOUS
  <1>1. ASSUME NEW s \in Section, NEW k \in DOMAIN stubs[s]
        PROVE  <<s, Arrives(stubs[s][k].addr), stubs[s][k].addr>> = Entry(s, k)
    <2>1. \A c \in StubCells(stubs[s][k].addr) : ~Shared(s, c)
      BY DEF Unshared
    <2> QED
      BY <2>1, StubsLead DEF Entry
  <1> QED
    BY <1>1 DEF EntriesAreStubs, Entries, EntriesOf

LEMMA StillUnshared ==
    ASSUME TypeOK, Grown, Unshared'
    PROVE  Unshared
  <1> SUFFICES ASSUME NEW s \in Section, NEW k \in DOMAIN stubs[s],
                      NEW c \in StubCells(stubs[s][k].addr)
               PROVE  ~Shared(s, c)
    BY DEF Unshared
  <1>1. PICK a : a = stubs[s][k].addr
    OBVIOUS
  <1>2. k \in DOMAIN stubs'[s] /\ stubs'[s][k].addr = a /\ c \in StubCells(a)'
    BY <1>1, SameBuild DEF Grown
  <1>3. c \in (StubCells(stubs[s][k].addr))'
    BY <1>2 DEF StubCells
  <1>4. ~Shared(s, c)'
    BY <1>2, <1>3 DEF Unshared
  <1> QED
    BY <1>4, StillShared

LEMMA SameEntries ==
    ASSUME EntriesAreStubs, EntriesAreStubs', stubs' = stubs
    PROVE  Entries' = Entries
  <1>1. \A s \in Section : \A k : Entry(s, k)' = Entry(s, k)
    BY DEF Entry
  <1>2. \A e : e \in Entries' <=> e \in Entries
    BY <1>1 DEF EntriesAreStubs
  <1> QED
    BY <1>2

(* A new stub is at an address of its own: behind its section's others, and   *)
(* no other section writes there.                                             *)
LEMMA MakeEntry ==
    ASSUME TypeOK, StubsInv, EntriesAreStubs, EntriesAreStubs', Unshared',
           NEW s \in Section, MakeStub(s)
    PROVE  Table!Next
  <1>1. PICK a, n : a = NewStub(s) /\ n = Len(stubs[s])
    OBVIOUS
  <1>2. PICK t \in Wanted(s) :
            /\ FindStub(s, t) = {}
            /\ stubs' = [stubs EXCEPT ![s] = Append(@, [target |-> t, addr |-> a])]
    BY <1>1 DEF MakeStub
  <1> DEFINE e == <<s, t, a>>
  <1>3. Relocating(s) /\ StubFits(a) /\ arch' = arch
    BY <1>1 DEF MakeStub
  <1>4. /\ base[s] # Unmapped /\ LaidOut(s) /\ n \in Nat /\ n + 1 \in Nat \ {0}
        /\ a = StubAt(s, n + 1)
    <2>1. base[s] # Unmapped /\ LaidOut(s)
      BY <1>3 DEF Relocating, StubsInv, LaidOut
    <2>2. n \in Nat
      BY <1>1, StubsCounted
    <2>3. n + 1 - 1 = n /\ n + 1 \in Nat \ {0}
      BY <2>2
    <2> QED
      BY <1>1, <2>1, <2>2, <2>3 DEF NewStub, StubAt
  <1>5. t \in Address /\ a \in Cell /\ a \in Nat /\ a \in StubCells(a)
    <2>1. t \in Address
      BY <1>3, WantedType DEF Relocating
    <2>2. a \in Nat /\ a % 4 = 0
      BY <1>4, StubPlace
    <2>3. a + 4 <= PageSize * Pages /\ a < a + StubSize
      <3>1. a + StubSize <= PageSize * Pages /\ StubSize \in Nat /\ StubSize >= 4
            /\ PageSize * Pages \in Nat
        BY <1>3, Pagewise DEF StubFits, StubSize
      <3> QED
        BY <2>2, <3>1
    <2>4. a \in Cell
      BY <2>2, <2>3, WordOfMemory
    <2> QED
      BY <2>1, <2>2, <2>3, <2>4 DEF StubCells
  <1>6. StubAdded(s, t, a)
    BY <1>2, <1>5, Extended
  <1>7. /\ DOMAIN stubs[s] = 1..n /\ DOMAIN stubs'[s] = 1..(n + 1)
        /\ stubs'[s][n + 1] = [target |-> t, addr |-> a]
        /\ \A k \in 1..n : stubs'[s][k] = stubs[s][k]
        /\ \A r \in Section \ {s} : stubs'[r] = stubs[r]
    BY <1>1, <1>6 DEF StubAdded
  <1>8. n + 1 \in 1..(n + 1) /\ \A k \in 1..(n + 1) : k \in 1..n \/ k = n + 1
    BY <1>4
  <1>9. \A k \in 1..n : k \in 1..(n + 1) /\ k # n + 1 /\ k \in Nat \ {0}
    BY <1>4
  <1>10. Entries' = Entries \cup {e}
    <2>1. ASSUME NEW f, f \in Entries' PROVE f \in Entries \cup {e}
      <3>1. PICK r \in Section : \E k \in DOMAIN stubs'[r] : f = Entry(r, k)'
        BY <2>1 DEF EntriesAreStubs
      <3>2. PICK k \in DOMAIN stubs'[r] : f = Entry(r, k)'
        BY <3>1
      <3>3. CASE r = s /\ k = n + 1
        BY <1>7, <3>2, <3>3 DEF Entry
      <3>4. CASE ~(r = s /\ k = n + 1)
        <4>1. k \in DOMAIN stubs[r] /\ stubs'[r][k] = stubs[r][k]
          BY <1>7, <1>8, <3>4
        <4> QED
          BY <3>2, <4>1 DEF Entry, EntriesAreStubs
      <3> QED
        BY <3>3, <3>4
    <2>2. ASSUME NEW f, f \in Entries PROVE f \in Entries'
      <3>1. PICK r \in Section : \E k \in DOMAIN stubs[r] : f = Entry(r, k)
        BY <2>2 DEF EntriesAreStubs
      <3>2. PICK k \in DOMAIN stubs[r] : f = Entry(r, k)
        BY <3>1
      <3>3. k \in DOMAIN stubs'[r] /\ stubs'[r][k] = stubs[r][k]
        BY <1>7, <1>9
      <3> QED
        BY <3>2, <3>3 DEF Entry, EntriesAreStubs
    <2>3. e \in Entries'
      <3>1. n + 1 \in DOMAIN stubs'[s] /\ e = Entry(s, n + 1)'
        BY <1>7, <1>8 DEF Entry
      <3> QED
        BY <3>1 DEF EntriesAreStubs
    <2> QED
      BY <2>1, <2>2, <2>3
  <1>11. Writes(s, a)'
    <2>1. n + 1 \in DOMAIN stubs'[s] /\ stubs'[s][n + 1].addr = a /\ a \in StubCells(a)'
      BY <1>3, <1>5, <1>7, <1>8, SameBuild
    <2>2. a \in (StubCells(stubs[s][n + 1].addr))'
      BY <2>1 DEF StubCells
    <2> QED
      BY <2>1, <2>2 DEF Writes
  <1>12. ASSUME NEW f \in Entries PROVE ~(f[1] = e[1] /\ f[2] = e[2]) /\ f[3] # e[3]
    <2>1. PICK r \in Section : \E k \in DOMAIN stubs[r] : f = Entry(r, k)
      BY DEF EntriesAreStubs
    <2>2. PICK k \in DOMAIN stubs[r] : f = Entry(r, k)
      BY <2>1
    <2>3. f[1] = r /\ f[2] = stubs[r][k].target /\ f[3] = stubs[r][k].addr
      BY <2>2 DEF Entry
    <2>4. ~(r = s /\ stubs[r][k].target = t)
      BY <1>2, <1>7 DEF FindStub
    <2>5. stubs[r][k].addr # a
      <3>1. CASE r = s
        <4>1. stubs[s][k].addr = StubAt(s, k) /\ k \in 1..n
          BY <1>7, <3>1, StubHolds
        <4>2. a \notin StubCells(StubAt(s, k))
          BY <1>4, <1>5, <1>9, <4>1, StubsApart
        <4> QED
          BY <1>5, <3>1, <4>1, <4>2
      <3>2. CASE r # s
        <4>1. SUFFICES ASSUME stubs[r][k].addr = a PROVE FALSE
          OBVIOUS
        <4>2. k \in DOMAIN stubs'[r] /\ stubs'[r][k].addr = a
          BY <1>7, <3>2, <4>1
        <4>3. a \in StubCells(a)'
          BY <1>3, <1>5, SameBuild
        <4>4. a \in (StubCells(stubs[r][k].addr))'
          BY <4>2, <4>3 DEF StubCells
        <4>5. ~Shared(r, a)'
          BY <4>2, <4>4 DEF Unshared
        <4> QED
          BY <1>11, <3>2, <4>5 DEF Shared
      <3> QED
        BY <3>1, <3>2
    <2> QED
      BY <2>3, <2>4, <2>5
  <1>13. Table!Make(e)
    BY <1>5, <1>10, <1>12 DEF Table!Make
  <1>14. e \in Entries'
    BY <1>10
  <1> QED
    BY <1>13, <1>14 DEF Table!Next

LEMMA TableStep ==
    ASSUME TypeOK, StubsInv, EntriesAreStubs, EntriesAreStubs', Unshared', [Next]_vars
    PROVE  [Table!Next]_Entries
  <1>1. CASE stubs' = stubs
    BY <1>1, SameEntries
  <1>2. ASSUME NEW s \in Section, MakeStub(s) PROVE Table!Next
    BY <1>2, MakeEntry
  <1>3. stubs' = stubs \/ \E s \in Section : MakeStub(s)
    BY DEF Next, vars, LoadSection, BranchDirect, ReuseStub, MakeStubFaults, RelocateOther,
           Protect, ProtectFails
  <1> QED
    BY <1>1, <1>2, <1>3

(* As long as no word of a stub is shared, the stubs in memory are a table of *)
(* entry points that never move and keep their targets.                       *)
THEOREM StubsImplementTable == Spec => ImplementsTable
  <1>1. Init => Table!Init
    <2> SUFFICES ASSUME Init PROVE Entries = {}
      BY DEF Table!Init
    <2>1. \A s \in Section : stubs[s] = << >>
      BY DEF Init
    <2> QED
      BY <2>1 DEF Entries, EntriesOf
  <1>2. /\ TypeOK /\ StubsInv /\ Unshared => EntriesAreStubs
        /\ (TypeOK /\ StubsInv /\ Unshared => EntriesAreStubs)'
    BY StubsAreEntries, PTL
  <1>3. TypeOK /\ StubsInv /\ TypeOK' /\ StubsInv' /\ [Next]_vars
            => [Unshared' => Table!Next]_Entries
    <2> SUFFICES ASSUME TypeOK, StubsInv, TypeOK', StubsInv', [Next]_vars, Unshared'
                 PROVE  [Table!Next]_Entries
      OBVIOUS
    <2>1. Unshared
      BY Grows, StillUnshared
    <2>2. EntriesAreStubs /\ EntriesAreStubs'
      BY <1>2, <2>1
    <2> QED
      BY <2>2, TableStep
  <1> QED
    BY <1>1, <1>3, TypeCorrect, StubsInvariant, PTL DEF Spec, ImplementsTable
==============================================================================
