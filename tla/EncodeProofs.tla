---------------------------- MODULE EncodeProofs ----------------------------
(* Proofs about the arithmetic of a relocation, for words, pages and branches *)
(* of every width.                                                            *)
EXTENDS Encode, Arithmetic

------------------------------------------------------------------------------
(* The inductive invariant behind the properties of a relocation.            *)

RelType ==
    /\ rel.type \in Arm64 \cup Arm /\ rel.P \in Place /\ rel.S \in Symbol /\ rel.A \in Addend
    /\ rel.insn \in {rel.type, "add", "bl", "blx"} /\ rel.stub \in StubAway \cup {0}
    /\ rel.implicit \in BOOLEAN
    /\ rel.type \in Arm => rel.P < Pow2[W32] /\ rel.S < Pow2[W32]
    /\ rel.type = "call" /\ rel.insn # "blx" => rel.A % 4 = 0
    /\ rel.type = "call" => IsInt(Branch32, rel.A - 8)

(* What the addend is once it is read: of a branch on arm without the bias of *)
(* the program counter, of a prel31 in its 31 bits.                           *)
AddendRead ==
    /\ rel.type \in Arm64  => addend = rel.A
    /\ rel.type = "call"   => addend = rel.A - 8
    /\ rel.type = "prel31" => (addend - rel.A) % Pow2[W32 - 1] = 0
    /\ rel.type \in Data32 \ {"prel31"} => (addend - rel.A) % Pow2[W32] = 0

(* What encodeAddend is given.                                                *)
ValueRight ==
    /\ rel.type \in Low => value = IF part = 1 THEN Signed(W64, Page(SA) - Page(P))
                                               ELSE SA % PageSize
    /\ rel.type \in Low \ {"got"} /\ part = 2 => Aligned
    /\ Branch => /\ value = IF via = Direct THEN Displacement(SA) ELSE StubDisplacement
                 /\ IsInt(BranchBits, value)
    /\ rel.type \in Data64 \cup Data32 =>
          value = Signed(AddrBits, IF rel.type \in Absolute THEN SA ELSE SA - P)

(* Step by step to the processor's view: before the second instruction of a   *)
(* pair is relocated the first forms the page, and a stub is on the way only  *)
(* of a branch whose target is out of range.                                  *)
RelocInv ==
    /\ RelType
    /\ step = "decode" /\ part = 1 => place = InPlace(rel.type, rel.A, rel.implicit)
    /\ part = 2 => rel.type \in Low /\ PageReached % Pow2[W64] = Page(Wanted)
    /\ step \notin {"decode", "abort"} => AddendRead
    /\ step = "encode" => ValueRight
    /\ step = "done" /\ rel.type \in Low => part = 2
    /\ via # Direct => /\ Branch /\ via = Stub /\ step \in {"encode", "done"}
                       /\ ~IsInt(BranchBits, Displacement(SA)) /\ target = StubTarget

------------------------------------------------------------------------------
(* Powers of two. That the recursion of Pow2 defines a function is proved     *)
(* first, from functions on 0..n that satisfy it.                             *)

PowerOf(g, i) == IF i = 0 THEN 1 ELSE 2 * g[i - 1]
Powers(g, n)  == g = [i \in 0..n |-> PowerOf(g, i)]

LEMMA PowersUpTo == \A n \in Nat : \E g : Powers(g, n)
  <1> DEFINE T == {n \in Nat : \E g : Powers(g, n)}
  <1>1. 0 \in T
    <2> DEFINE g == [i \in 0..0 |-> 1]
    <2>1. \A i \in 0..0 : PowerOf(g, i) = 1
      BY DEF PowerOf
    <2>2. g = [i \in 0..0 |-> PowerOf(g, i)]
      BY <2>1
    <2> QED
      BY <2>2 DEF Powers
  <1>2. ASSUME NEW n \in Nat, n \in T PROVE n + 1 \in T
    <2>1. PICK g : g = [i \in 0..n |-> PowerOf(g, i)]
      BY <1>2 DEF Powers
    <2> DEFINE h == [i \in 0..(n + 1) |-> IF i = n + 1 THEN PowerOf(g, i) ELSE g[i]]
    <2>2. ASSUME NEW i \in 0..(n + 1) PROVE h[i] = PowerOf(h, i)
      <3>1. i # 0 => i - 1 \in 0..n /\ h[i - 1] = g[i - 1]
        OBVIOUS
      <3>2. PowerOf(h, i) = PowerOf(g, i)
        BY <3>1 DEF PowerOf
      <3>3. i # n + 1 => g[i] = PowerOf(g, i)
        BY <2>1
      <3> QED
        BY <3>2, <3>3
    <2>3. h = [i \in 0..(n + 1) |-> h[i]]
      OBVIOUS
    <2> HIDE DEF h
    <2>4. h = [i \in 0..(n + 1) |-> PowerOf(h, i)]
      BY <2>2, <2>3
    <2> QED
      BY <2>4 DEF Powers
  <1>3. Nat \subseteq T
    BY <1>1, <1>2, EveryNumber
  <1> QED
    BY <1>3

LEMMA PowersAgree ==
    ASSUME NEW n \in Nat, NEW g, Powers(g, n), NEW h, Powers(h, n + 1)
    PROVE  g[n] = h[n]
  <1> DEFINE T == {i \in Nat : i <= n => g[i] = h[i]}
  <1>1. 0 \in T
    BY DEF Powers, PowerOf
  <1>2. ASSUME NEW i \in Nat, i \in T PROVE i + 1 \in T
    <2>1. CASE i + 1 <= n
      <3>1. i + 1 \in 0..n /\ i + 1 \in 0..(n + 1) /\ i + 1 # 0 /\ i + 1 - 1 = i
        BY <2>1
      <3>2. g[i + 1] = 2 * g[i] /\ h[i + 1] = 2 * h[i]
        BY <3>1 DEF Powers, PowerOf
      <3> QED
        BY <1>2, <2>1, <3>2
    <2> QED
      BY <2>1
  <1>3. Nat \subseteq T
    BY <1>1, <1>2, EveryNumber
  <1> QED
    BY <1>3

LEMMA Pow2Exists == \E f : f = [n \in Nat |-> PowerOf(f, n)]
  <1> DEFINE G(n) == CHOOSE g : Powers(g, n)
             f == [n \in Nat |-> G(n)[n]]
  <1>1. \A n \in Nat : Powers(G(n), n)
    BY PowersUpTo
  <1> HIDE DEF G
  <1>2. ASSUME NEW n \in Nat PROVE f[n] = PowerOf(f, n)
    <2>1. G(n)[n] = PowerOf(G(n), n)
      BY <1>1 DEF Powers
    <2>2. CASE n = 0
      BY <2>1, <2>2 DEF PowerOf
    <2>3. CASE n # 0
      <3>1. n - 1 \in Nat /\ n - 1 + 1 = n
        BY <2>3
      <3>2. G(n - 1)[n - 1] = G(n)[n - 1]
        <4>1. Powers(G(n - 1), n - 1) /\ Powers(G(n), n - 1 + 1)
          BY <1>1, <3>1
        <4> QED
          BY <3>1, <4>1, PowersAgree
      <3> QED
        BY <2>1, <2>3, <3>1, <3>2 DEF PowerOf
    <2> QED
      BY <2>2, <2>3
  <1>3. f = [n \in Nat |-> f[n]]
    OBVIOUS
  <1> HIDE DEF f
  <1>4. f = [n \in Nat |-> PowerOf(f, n)]
    BY <1>2, <1>3
  <1> QED
    BY <1>4

LEMMA Pow2Def == Pow2[0] = 1 /\ \A n \in Nat : Pow2[n + 1] = 2 * Pow2[n]
  <1> DEFINE IsPow2(f) == f = [n \in Nat |-> IF n = 0 THEN 1 ELSE 2 * f[n - 1]]
  <1>1. \E f : IsPow2(f)
    BY Pow2Exists DEF PowerOf
  <1>2. Pow2 = CHOOSE f : IsPow2(f)
    BY Zenon DEF Pow2
  <1>3. IsPow2(Pow2)
    <2> HIDE DEF IsPow2
    <2> QED
      BY <1>1, <1>2, Zenon
  <1>4. Pow2 = [n \in Nat |-> IF n = 0 THEN 1 ELSE 2 * Pow2[n - 1]]
    BY <1>3
  <1>5. PICK f : f = Pow2
    OBVIOUS
  <1>6. f = [n \in Nat |-> IF n = 0 THEN 1 ELSE 2 * f[n - 1]]
    BY <1>4, <1>5
  <1>7. f[0] = 1
    BY <1>6
  <1>8. ASSUME NEW n \in Nat PROVE f[n + 1] = 2 * f[n]
    <2>1. n + 1 \in Nat /\ n + 1 # 0 /\ n + 1 - 1 = n
      OBVIOUS
    <2> QED
      BY <1>6, <2>1
  <1> QED
    BY <1>5, <1>7, <1>8

LEMMA Pow2Type == \A n \in Nat : Pow2[n] \in Nat \ {0}
  <1> DEFINE T == {n \in Nat : Pow2[n] \in Nat \ {0}}
  <1>1. 0 \in T
    BY Pow2Def
  <1>2. ASSUME NEW n \in Nat, n \in T PROVE n + 1 \in T
    <2>1. Pow2[n + 1] = 2 * Pow2[n]
      BY Pow2Def
    <2> QED
      BY <1>2, <2>1
  <1>3. Nat \subseteq T
    BY <1>1, <1>2, EveryNumber
  <1> QED
    BY <1>3

LEMMA Pow2Sum == \A a, b \in Nat : Pow2[a + b] = Pow2[a] * Pow2[b]
  <1> SUFFICES ASSUME NEW a \in Nat PROVE \A b \in Nat : Pow2[a + b] = Pow2[a] * Pow2[b]
    OBVIOUS
  <1> DEFINE T == {b \in Nat : Pow2[a + b] = Pow2[a] * Pow2[b]}
  <1>1. 0 \in T
    BY Pow2Def, Pow2Type
  <1>2. ASSUME NEW b \in Nat, b \in T PROVE b + 1 \in T
    <2>1. a + (b + 1) = (a + b) + 1 /\ a + b \in Nat
      OBVIOUS
    <2>2. Pow2[(a + b) + 1] = 2 * Pow2[a + b] /\ Pow2[b + 1] = 2 * Pow2[b]
      BY <2>1, Pow2Def
    <2>3. PICK x, y : x = Pow2[a] /\ y = Pow2[b]
      OBVIOUS
    <2>4. x \in Nat /\ y \in Nat
      BY <2>3, Pow2Type
    <2>5. 2 * (x * y) = x * (2 * y)
      BY <2>4
    <2>6. Pow2[a + (b + 1)] = Pow2[a] * Pow2[b + 1]
      BY <1>2, <2>1, <2>2, <2>3, <2>5
    <2> QED
      BY <2>6
  <1>3. Nat \subseteq T
    BY <1>1, <1>2, EveryNumber
  <1> QED
    BY <1>3

LEMMA Pow2Half == \A w \in Nat \ {0} : Pow2[w] = 2 * Pow2[w - 1] /\ Pow2[w - 1] \in Nat \ {0}
  <1> SUFFICES ASSUME NEW w \in Nat \ {0}
               PROVE  Pow2[w] = 2 * Pow2[w - 1] /\ Pow2[w - 1] \in Nat \ {0}
    OBVIOUS
  <1>1. w - 1 \in Nat /\ w - 1 + 1 = w
    OBVIOUS
  <1>2. Pow2[w - 1 + 1] = 2 * Pow2[w - 1]
    BY <1>1, Pow2Def
  <1>3. Pow2[w - 1] \in Nat \ {0}
    BY <1>1, Pow2Type
  <1> QED
    BY <1>1, <1>2, <1>3

LEMMA Pow2Small == Pow2[0] = 1 /\ Pow2[1] = 2 /\ Pow2[2] = 4 /\ Pow2[3] = 8
  <1>1. Pow2[0] = 1 /\ Pow2[0 + 1] = 2 * Pow2[0] /\ Pow2[1 + 1] = 2 * Pow2[1] /\ Pow2[2 + 1] = 2 * Pow2[2]
    BY Pow2Def
  <1>2. 0 + 1 = 1 /\ 1 + 1 = 2 /\ 2 + 1 = 3
    OBVIOUS
  <1> QED
    BY <1>1, <1>2

LEMMA Pow2Grows ==
    ASSUME NEW a \in Nat, NEW b \in Nat, a <= b
    PROVE  /\ b - a \in Nat /\ Pow2[b] = Pow2[a] * Pow2[b - a]
           /\ Pow2[a] <= Pow2[b]
  <1>1. b - a \in Nat /\ a + (b - a) = b
    OBVIOUS
  <1>2. Pow2[a + (b - a)] = Pow2[a] * Pow2[b - a]
    BY <1>1, Pow2Sum
  <1>3. PICK x, y : x = Pow2[a] /\ y = Pow2[b - a]
    OBVIOUS
  <1>4. x \in Nat \ {0} /\ y \in Nat \ {0}
    BY <1>1, <1>3, Pow2Type
  <1>5. x <= x * y
    BY <1>4
  <1> QED
    BY <1>1, <1>2, <1>3, <1>5

------------------------------------------------------------------------------
(* Numbers of a width.                                                        *)

LEMMA CongruentNarrow ==
    ASSUME NEW a \in Nat, NEW b \in Nat, a <= b, NEW x \in Int, NEW y \in Int,
           Congruent(Pow2[b], x, y)
    PROVE  Congruent(Pow2[a], x, y)
  <1>1. b - a \in Nat /\ Pow2[b] = Pow2[a] * Pow2[b - a]
    BY Pow2Grows
  <1>2. Pow2[a] \in Nat /\ Pow2[b - a] \in Nat
    BY <1>1, Pow2Type
  <1>3. PICK m, d : m = Pow2[a] /\ d = Pow2[b - a]
    OBVIOUS
  <1>4. m \in Nat /\ d \in Nat /\ Congruent(m * d, x, y)
    BY <1>1, <1>2, <1>3, Zenon
  <1>5. Congruent(m, x, y)
    BY <1>4, CongruentPart, Zenon
  <1> QED
    BY <1>3, <1>5, Zenon

LEMMA IsIntWider ==
    ASSUME NEW a \in Nat \ {0}, NEW b \in Nat, a <= b, NEW x \in Int, IsInt(a, x)
    PROVE  IsInt(b, x)
  <1>1. a - 1 \in Nat /\ b - 1 \in Nat /\ a - 1 <= b - 1
    OBVIOUS
  <1>2. Pow2[a - 1] <= Pow2[b - 1] /\ Pow2[a - 1] \in Nat /\ Pow2[b - 1] \in Nat
    BY <1>1, Pow2Grows, Pow2Type
  <1> QED
    BY <1>2 DEF IsInt

(* Signed(w, x) is the number of w bits that is congruent to x.               *)
LEMMA SignedType ==
    ASSUME NEW w \in Nat \ {0}, NEW x \in Int
    PROVE  /\ Signed(w, x) \in Int /\ IsInt(w, Signed(w, x))
           /\ Congruent(Pow2[w], Signed(w, x), x)
  <1>1. PICK M, H, m : M = Pow2[w] /\ H = Pow2[w - 1] /\ m = x % M
    OBVIOUS
  <1>2. M \in Nat \ {0} /\ H \in Nat \ {0} /\ M = 2 * H
    BY <1>1, Pow2Half, Pow2Type
  <1>3. m \in 0..(M - 1) /\ Congruent(M, m, x)
    BY <1>1, <1>2, RemainderCongruent
  <1>4. Signed(w, x) = IF m >= H THEN m - M ELSE m
    BY <1>1 DEF Signed
  <1>5. Congruent(M, m - M, x)
    <2>1. PICK k \in Int : m = x + k * M
      BY <1>3 DEF Congruent
    <2>2. m - M = x + (k - 1) * M /\ k - 1 \in Int
      BY <1>2, <1>3, <2>1
    <2> QED
      BY <2>2 DEF Congruent
  <1>6. PICK z : z = Signed(w, x)
    OBVIOUS
  <1>7. z \in Int /\ -H <= z /\ z < H /\ Congruent(M, z, x)
    <2>1. CASE m >= H
      BY <1>2, <1>3, <1>4, <1>5, <1>6, <2>1
    <2>2. CASE ~(m >= H)
      BY <1>2, <1>3, <1>4, <1>6, <2>2
    <2> QED
      BY <2>1, <2>2
  <1> QED
    BY <1>1, <1>6, <1>7 DEF IsInt

LEMMA SignedUnique ==
    ASSUME NEW w \in Nat \ {0}, NEW x \in Int, NEW y \in Int,
           IsInt(w, y), Congruent(Pow2[w], y, x)
    PROVE  Signed(w, x) = y
  <1>1. PICK M, H, z : M = Pow2[w] /\ H = Pow2[w - 1] /\ z = Signed(w, x)
    OBVIOUS
  <1>2. M \in Nat \ {0} /\ H \in Nat \ {0} /\ M = 2 * H
    BY <1>1, Pow2Half, Pow2Type
  <1>3. z \in Int /\ -H <= z /\ z < H /\ Congruent(M, z, x)
    BY <1>1, SignedType DEF IsInt
  <1>4. -H <= y /\ y < H /\ Congruent(M, y, x)
    BY <1>1 DEF IsInt
  <1>5. Congruent(M, z, y)
    BY <1>2, <1>3, <1>4, CongruentBack, CongruentOver
  <1>6. z - y < M /\ y - z < M
    BY <1>2, <1>3, <1>4
  <1>7. z = y
    BY <1>2, <1>3, <1>5, <1>6, CongruentClose
  <1> QED
    BY <1>1, <1>7

LEMMA SignedSame ==
    ASSUME NEW w \in Nat \ {0}, NEW x \in Int, IsInt(w, x)
    PROVE  Signed(w, x) = x
  BY CongruentSelf, SignedUnique, Pow2Type

LEMMA SignedCongruent ==
    ASSUME NEW w \in Nat \ {0}, NEW x \in Int, NEW y \in Int, Congruent(Pow2[w], x, y)
    PROVE  Signed(w, x) = Signed(w, y)
  <1>1. Pow2[w] \in Nat \ {0}
    BY Pow2Type
  <1>2. x % Pow2[w] = y % Pow2[w]
    BY <1>1, SameRemainder
  <1> QED
    BY <1>2 DEF Signed

(* A displacement from p that is congruent to x - p reaches x.                *)
LEMMA Reach ==
    ASSUME NEW m \in Nat \ {0}, NEW p \in Int, NEW x \in Int, NEW d \in Int, Congruent(m, d, x - p)
    PROVE  (p + d) % m = x % m
  <1>1. Congruent(m, p, p)
    BY CongruentSelf
  <1>2. Congruent(m, p + d, p + (x - p))
    BY <1>1, CongruentSums
  <1>3. p + (x - p) = x /\ p + d \in Int
    OBVIOUS
  <1> QED
    BY <1>2, <1>3, SameRemainder

------------------------------------------------------------------------------
(* Pages, and the fields of the instructions.                                 *)

LEMMA WidthsAre ==
    /\ W64 \in Nat /\ W32 \in Nat /\ W16 \in Nat /\ PageBits \in Nat /\ HiBits \in Nat
    /\ Branch64 \in Nat /\ Branch32 \in Nat /\ W48 \in Nat
    /\ 1 < W16 /\ W16 < W32 /\ W32 < W64 /\ 1 < PageBits /\ 0 < HiBits
    /\ HiBits + PageBits = W32 - 1
    /\ 2 < Branch64 /\ Branch64 < W64 /\ 2 < Branch32 /\ Branch32 < W32
  BY Widths DEF HiBits

LEMMA PageParts ==
    ASSUME NEW x \in Int
    PROVE  /\ PageSize \in Nat \ {0} /\ Page(x) \in Int /\ x % PageSize \in 0..(PageSize - 1)
           /\ Page(x) + (x % PageSize) = x
           /\ Page(x) % PageSize = 0
  <1>1. PageSize \in Nat \ {0}
    BY WidthsAre, Pow2Type DEF PageSize
  <1>2. PICK s, q, r : s = PageSize /\ q = x \div PageSize /\ r = x % PageSize
    OBVIOUS
  <1>3. x = s * q + r /\ r \in 0..(s - 1) /\ q \in Int /\ s \in Nat \ {0}
    BY <1>1, <1>2, Division
  <1>4. Page(x) = x - r
    BY <1>2 DEF Page
  <1>5. Page(x) = s * q + 0 /\ Page(x) \in Int /\ 0 \in 0..(s - 1)
    BY <1>3, <1>4
  <1>6. Page(x) % s = 0
    <2>1. q \in Int /\ s \in Nat \ {0}
      BY <1>3, Zenon
    <2>2. ASSUME NEW y \in Int, y = s * q + 0 PROVE y % s = 0
      BY ONLY <1>5, <2>1, <2>2, DivisionUnique, Zenon
    <2> QED
      BY <1>5, <2>2, Zenon
  <1> QED
    BY <1>1, <1>2, <1>3, <1>4, <1>5, <1>6

(* The page of an address of w bits is one of them.                           *)
LEMMA PageRange ==
    ASSUME NEW m \in Nat, NEW x \in 0..(m - 1)
    PROVE  Page(x) \in 0..(m - 1)
  <1>1. PICK s, r : s = PageSize /\ r = x % PageSize
    OBVIOUS
  <1>2. s \in Nat \ {0} /\ r \in 0..(s - 1) /\ Page(x) = x - r
    BY <1>1, PageParts DEF Page
  <1>3. r <= x
    <2>1. PICK q : q = x \div s
      OBVIOUS
    <2>2. x = s * q + r /\ q \in Int
      BY <1>1, <1>2, <2>1, Division
    <2>3. q >= 0
      <3>1. ASSUME q <= -1 PROVE FALSE
        <4>1. s * q <= -s
          BY <1>2, <2>2, <3>1
        <4> QED
          BY <1>2, <2>2, <4>1
      <3> QED
        BY <2>2, <3>1
    <2>4. s * q >= 0
      BY <1>2, <2>2, <2>3
    <2> QED
      BY <1>2, <2>2, <2>4
  <1> QED
    BY <1>2, <1>3

(* A multiple of 4 in range survives the field of a branch.                   *)
LEMMA BranchField ==
    ASSUME NEW b \in Nat, b > 2, NEW v \in Int, IsInt(b, v), v % 4 = 0,
           NEW imm, imm = (v \div 4) % Pow2[b - 2]
    PROVE  imm \in 0..(Pow2[b - 2] - 1) /\ Signed(b, imm * 4) = v
  <1>1. PICK q, n : q = v \div 4 /\ n = Pow2[b - 2] /\ imm = q % n
    OBVIOUS
  <1>2. v = 4 * q /\ q \in Int
    BY <1>1
  <1>3. n \in Nat \ {0} /\ Pow2[b] = 4 * n
    <2>1. 2 \in Nat /\ 2 <= b /\ b - 2 \in Nat
      OBVIOUS
    <2>2. Pow2[b] = Pow2[2] * Pow2[b - 2]
      BY <2>1, Pow2Grows
    <2> QED
      BY <1>1, <2>1, <2>2, Pow2Small, Pow2Type
  <1>4. imm \in Int /\ imm \in 0..(n - 1) /\ Congruent(n, imm, q)
    <2>1. Congruent(n, q % n, q) /\ q % n \in 0..(n - 1)
      BY <1>2, <1>3, RemainderCongruent
    <2> QED
      BY <1>1, <1>3, <2>1
  <1>5. PICK k \in Int : imm = q + k * n
    BY <1>4 DEF Congruent
  <1>6. v = imm * 4 + (-k) * (4 * n) /\ -k \in Int /\ imm * 4 \in Int
    BY <1>2, <1>3, <1>4, <1>5
  <1>7. Congruent(Pow2[b], v, imm * 4)
    BY <1>3, <1>6 DEF Congruent
  <1>8. Signed(b, imm * 4) = v
    BY <1>6, <1>7, SignedUnique
  <1> QED
    BY <1>1, <1>4, <1>8

(* A whole number of pages in range survives the two fields of adrp.          *)
LEMMA AdrpFields ==
    ASSUME NEW v \in Int, IsInt(W32, v), v % PageSize = 0,
           NEW lo, lo = (v \div PageSize) % 4,
           NEW hi, hi = (v \div (4 * PageSize)) % Pow2[HiBits]
    PROVE  /\ lo \in 0..3 /\ hi \in 0..(Pow2[HiBits] - 1)
           /\ Signed(HiBits + 2, hi * 4 + lo) * PageSize = v
  <1>1. PICK s, n, q : /\ s = PageSize /\ n = Pow2[HiBits] /\ q = v \div PageSize
                       /\ lo = q % 4 /\ hi = (v \div (4 * s)) % n
    OBVIOUS
  <1>2. s \in Nat \ {0} /\ n \in Nat \ {0} /\ Pow2[W32 - 1] = s * n
    <2>1. PageBits \in Nat /\ HiBits \in Nat /\ PageBits + HiBits = W32 - 1
      BY WidthsAre
    <2>2. Pow2[PageBits + HiBits] = Pow2[PageBits] * Pow2[HiBits]
      BY <2>1, Pow2Sum
    <2> QED
      BY <1>1, <2>1, <2>2, Pow2Type DEF PageSize
  <1>3. v = s * q /\ q \in Int
    <2>1. v = s * q + 0 /\ q \in Int
      BY <1>1, <1>2, Division
    <2> QED
      BY <1>2, <2>1
  <1>4. PICK q2 \in Int : q = 4 * q2 + lo /\ lo \in 0..3
    <2>1. q = 4 * (q \div 4) + lo /\ lo \in 0..3 /\ q \div 4 \in Int
      BY <1>1, <1>3
    <2> QED
      BY <2>1
  <1>5. v \div (4 * s) = q2
    <2>1. s * q = (4 * s) * q2 + s * lo
      BY <1>2, <1>3, <1>4
    <2>2. s * lo \in 0..(4 * s - 1) /\ 4 * s \in Nat \ {0}
      <3>1. lo = 0 \/ lo = 1 \/ lo = 2 \/ lo = 3
        BY <1>4
      <3>2. s * lo = 0 \/ s * lo = s \/ s * lo = 2 * s \/ s * lo = 3 * s
        BY <1>2, <3>1
      <3> QED
        BY <1>2, <3>2
    <2> QED
      BY <1>3, <2>1, <2>2, DivisionUnique
  <1>6. PICK k \in Int : hi = q2 + k * n /\ hi \in Int /\ hi \in 0..(n - 1)
    <2>1. hi = q2 % n
      BY <1>1, <1>5
    <2>2. Congruent(n, q2 % n, q2) /\ q2 % n \in 0..(n - 1)
      BY <1>2, RemainderCongruent
    <2>3. Congruent(n, hi, q2) /\ hi \in Int /\ hi \in 0..(n - 1)
      BY <1>2, <2>1, <2>2
    <2> QED
      BY <2>3 DEF Congruent
  <1>7. Pow2[HiBits + 2] = 4 * n
    <2>1. HiBits \in Nat /\ 2 \in Nat
      BY WidthsAre
    <2>2. Pow2[HiBits + 2] = Pow2[HiBits] * Pow2[2]
      BY <2>1, Pow2Sum
    <2> QED
      BY <1>1, <1>2, <2>2, Pow2Small
  <1>8. q = (hi * 4 + lo) + (-k) * (4 * n) /\ hi * 4 + lo \in Int /\ -k \in Int
    BY <1>2, <1>3, <1>4, <1>6
  <1>9. IsInt(HiBits + 2, q)
    <2>1. -(s * n) <= s * q /\ s * q < s * n
      BY <1>2, <1>3 DEF IsInt
    <2>2. -n <= q /\ q < n
      <3>1. ASSUME q >= n PROVE FALSE
        <4>1. s * q >= s * n
          BY <1>2, <1>3, <3>1
        <4>2. s * q \in Int /\ s * n \in Int
          BY <1>2, <1>3
        <4> QED
          BY <2>1, <4>1, <4>2
      <3>2. ASSUME q < -n PROVE FALSE
        <4>1. s * q < s * (-n) /\ s * (-n) = -(s * n)
          BY <1>2, <1>3, <3>2
        <4>2. s * q \in Int /\ s * n \in Int
          BY <1>2, <1>3
        <4> QED
          BY <2>1, <4>1, <4>2
      <3> QED
        BY <1>2, <1>3, <3>1, <3>2
    <2>3. PICK w, y, z : w = HiBits + 2 /\ y = Pow2[w] /\ z = Pow2[w - 1]
      OBVIOUS
    <2>4. w \in Nat \ {0}
      BY <2>3, WidthsAre
    <2>5. y = 2 * z /\ z \in Nat \ {0}
      BY <2>3, <2>4, Pow2Half
    <2>6. y = 4 * n
      BY <1>7, <2>3
    <2>7. -z <= q /\ q < z
      BY <1>2, <1>3, <2>2, <2>5, <2>6
    <2>8. IsInt(w, q)
      BY <2>3, <2>7 DEF IsInt
    <2> QED
      BY <2>3, <2>8
  <1>10. Congruent(Pow2[HiBits + 2], q, hi * 4 + lo)
    BY <1>7, <1>8 DEF Congruent
  <1>11. Signed(HiBits + 2, hi * 4 + lo) = q
    <2>1. HiBits + 2 \in Nat \ {0}
      BY WidthsAre
    <2> QED
      BY <1>3, <1>8, <1>9, <1>10, <2>1, SignedUnique
  <1>12. q * s = v
    BY <1>2, <1>3
  <1> QED
    BY <1>1, <1>4, <1>6, <1>11, <1>12

(* An aligned address keeps its alignment within its page, of any size.       *)
LEMMA AlignedInPage ==
    ASSUME NEW x \in Int, NEW l \in Nat, x % Pow2[l] = 0
    PROVE  (x % PageSize) % Pow2[l] = 0
  <1>1. PageBits \in Nat /\ PageSize = Pow2[PageBits]
    BY WidthsAre DEF PageSize
  <1>2. PageSize \in Nat \ {0} /\ Pow2[l] \in Nat \ {0}
    BY <1>1, Pow2Type
  <1>3. Congruent(PageSize, x % PageSize, x) /\ x % PageSize \in Int
    BY <1>2, RemainderCongruent
  <1>4. CASE l <= PageBits
    <2>1. Congruent(Pow2[l], x % PageSize, x)
      BY <1>1, <1>3, <1>4, CongruentNarrow
    <2> QED
      BY <1>2, <1>3, <2>1, SameRemainder
  <1>5. CASE PageBits <= l
    <2>1. Congruent(Pow2[l], 0, x)
      BY <1>2, RemainderCongruent
    <2>2. Congruent(PageSize, 0, x)
      BY <1>1, <1>5, <2>1, CongruentNarrow
    <2>3. 0 % PageSize = x % PageSize
      BY <1>2, <2>2, SameRemainder
    <2>4. 0 % PageSize = 0 /\ 0 % Pow2[l] = 0
      <3>1. \A m \in Nat \ {0} : 0 % m = 0
        OBVIOUS
      <3> QED
        BY <1>2, <3>1
    <2> QED
      BY <2>3, <2>4
  <1> QED
    BY <1>1, <1>4, <1>5

LEMMA Rescaled ==
    ASSUME NEW v \in Int, NEW l \in Nat, v % Pow2[l] = 0
    PROVE  (v \div Pow2[l]) * Pow2[l] = v
  <1>1. PICK m, q : m = Pow2[l] /\ q = v \div m
    OBVIOUS
  <1>2. m \in Nat \ {0}
    BY <1>1, Pow2Type
  <1>3. v = m * q + (v % m) /\ q \in Int
    <2>1. v = m * (v \div m) + (v % m) /\ v \div m \in Int
      BY <1>2, Division, Zenon
    <2> QED
      BY <1>1, <2>1, Zenon
  <1>4. v % m = 0
    BY <1>1, Zenon
  <1>5. PICK r : r = v % m
    OBVIOUS
  <1>6. v = m * q + r /\ r = 0
    BY <1>3, <1>4, <1>5, Zenon
  <1>7. q * m = v
    BY <1>2, <1>3, <1>6
  <1> QED
    BY <1>1, <1>7, Zenon

------------------------------------------------------------------------------
(* The relocation at hand.                                                    *)

LEMMA RelWidths ==
    ASSUME RelType
    PROVE  /\ AddrBits \in Nat /\ 2 < AddrBits /\ AddrBits <= W64
           /\ BranchBits \in Nat /\ 2 < BranchBits /\ (Branch => BranchBits < AddrBits)
           /\ (rel.type \in Arm64 => AddrBits = W64) /\ (rel.type \in Arm => AddrBits = W32)
           /\ (rel.type = "call" => BranchBits = Branch32)
           /\ (rel.type = "call26" => BranchBits = Branch64)
  BY WidthsAre DEF RelType, AddrBits, BranchBits, Branch, Arm, Arm64, Data32, Data64, Low

LEMMA RelAddresses ==
    ASSUME RelType
    PROVE  /\ P \in Nat /\ 0 < P /\ P % 4 = 0 /\ S \in Nat /\ rel.A \in Int
           /\ P < Pow2[AddrBits] /\ S < Pow2[AddrBits] /\ Pow2[AddrBits] \in Nat \ {0}
           /\ Stub \in Nat /\ 0 < Stub /\ Stub % 4 = 0
  <1>1. Pow2[W64] \in Nat \ {0} /\ Pow2[W32] \in Nat \ {0}
    BY WidthsAre, Pow2Type
  <1>2. rel.P \in 1..(Pow2[W64] - 1) /\ rel.S \in 1..(Pow2[W64] - 1) /\ rel.P % 4 = 0
    BY Widths DEF RelType
  <1>3. rel.A \in Int
    BY Widths DEF RelType
  <1>4. rel.stub \in Nat /\ rel.stub % 4 = 0
    <2>1. PICK d : d = rel.stub
      OBVIOUS
    <2>2. CASE d \in StubAway
      BY <2>1, <2>2, Widths
    <2>3. CASE d = 0
      BY <2>1, <2>3
    <2> QED
      BY <2>1, <2>2, <2>3 DEF RelType
  <1>5. PICK p, s, d : p = rel.P /\ s = rel.S /\ d = rel.stub
    OBVIOUS
  <1>6. p \in Nat /\ 0 < p /\ p % 4 = 0 /\ s \in Nat /\ p < Pow2[W64] /\ s < Pow2[W64]
    BY <1>1, <1>2, <1>5
  <1>7. p + d \in Nat /\ 0 < p + d /\ (p + d) % 4 = 0
    <2>1. p % 4 = 0 /\ d % 4 = 0 /\ p \in Nat /\ d \in Nat
      BY <1>4, <1>5, <1>6
    <2> QED
      BY <1>6, <2>1
  <1>8. p < Pow2[AddrBits] /\ s < Pow2[AddrBits] /\ Pow2[AddrBits] \in Nat \ {0}
    BY <1>1, <1>5, <1>6 DEF RelType, AddrBits
  <1> QED
    BY <1>3, <1>5, <1>6, <1>7, <1>8 DEF P, S, Stub

(* The sums the code and the object file mean, and what they are of.          *)
LEMMA Sums ==
    ASSUME RelType, addend \in Int
    PROVE  /\ SA \in 0..(Pow2[AddrBits] - 1) /\ Congruent(Pow2[AddrBits], SA, S + addend)
           /\ Wanted \in 0..(Pow2[AddrBits] - 1) /\ Congruent(Pow2[AddrBits], Wanted, S + rel.A)
  <1>1. Pow2[AddrBits] \in Nat \ {0} /\ S + addend \in Int /\ S + rel.A \in Int
    BY RelAddresses
  <1> QED
    BY <1>1, RemainderCongruent DEF SA, Wanted

LEMMA SumsAgree ==
    ASSUME RelType, addend = rel.A
    PROVE  SA = Wanted
  BY DEF SA, Wanted

(* What follows from rel and addend alone stays while they do.                *)
LEMMA SameReloc ==
    ASSUME rel' = rel
    PROVE  /\ P' = P /\ S' = S /\ AddrBits' = AddrBits /\ BranchBits' = BranchBits
           /\ (Branch' <=> Branch) /\ Wanted' = Wanted /\ Stub' = Stub /\ (RelType' <=> RelType)
           /\ FieldBits' = FieldBits
  BY DEF FieldBits, P, S, AddrBits, BranchBits, Branch, Wanted, Stub, RelType

LEMMA SameSums ==
    ASSUME rel' = rel, addend' = addend
    PROVE  /\ SA' = SA /\ Entry' = Entry /\ StubDisplacement' = StubDisplacement
           /\ (AddendRead' <=> AddendRead) /\ (Aligned' <=> Aligned) /\ StubTarget' = StubTarget
  BY DEF P, S, AddrBits, SA, Entry, StubDisplacement, Displacement, Stub, AddendRead, Aligned,
         StubTarget

------------------------------------------------------------------------------
(* The beginning.                                                             *)

LEMMA FieldRoom ==
    ASSUME RelType
    PROVE  FieldBits \in Nat \ {0} /\ Pow2[FieldBits] \in Nat /\ 1 \in 0..(Pow2[FieldBits] - 1)
  <1>1. FieldBits \in Nat \ {0}
    BY WidthsAre, RelWidths DEF FieldBits, Width
  <1>2. Pow2[FieldBits] = 2 * Pow2[FieldBits - 1] /\ Pow2[FieldBits - 1] \in Nat \ {0}
    BY <1>1, Pow2Half
  <1> QED
    BY <1>1, <1>2

(* What the assembler leaves in the place fits in its fields.                 *)
LEMMA InPlaceFits ==
    ASSUME RelType
    PROVE  InPlace(rel.type, rel.A, rel.implicit)
               \in [lo : 0..3, hi : 0..(Pow2[HiBits] - 1), imm : 0..(Pow2[FieldBits] - 1)]
  <1> DEFINE f == InPlace(rel.type, rel.A, rel.implicit)
  <1>1. Pow2[HiBits] \in Nat /\ 1 \in 0..(Pow2[HiBits] - 1) /\ 0 \in 0..(Pow2[HiBits] - 1)
    <2>1. Pow2[HiBits] = 2 * Pow2[HiBits - 1] /\ Pow2[HiBits - 1] \in Nat \ {0}
      BY WidthsAre, Pow2Half
    <2> QED
      BY <2>1
  <1>2. /\ f = [lo |-> f.lo, hi |-> f.hi, imm |-> f.imm]
        /\ f.lo \in 0..3 /\ f.hi \in 0..(Pow2[HiBits] - 1)
    BY <1>1 DEF InPlace
  <1>3. rel.A \in Int
    BY RelAddresses
  <1>. SUFFICES f.imm \in 0..(Pow2[FieldBits] - 1)
    <2>1. PICK g : g = InPlace(rel.type, rel.A, rel.implicit)
      OBVIOUS
    <2>2. g = [lo |-> g.lo, hi |-> g.hi, imm |-> g.imm]
      BY <1>2, <2>1
    <2>3. g.lo \in 0..3 /\ g.hi \in 0..(Pow2[HiBits] - 1) /\ g.imm \in 0..(Pow2[FieldBits] - 1)
      BY <1>2, <2>1
    <2>4. g \in [lo : 0..3, hi : 0..(Pow2[HiBits] - 1), imm : 0..(Pow2[FieldBits] - 1)]
      BY <2>2, <2>3
    <2> QED
      BY <2>1, <2>4
  <1>4. CASE rel.type = "call" /\ rel.implicit
    <2>1. FieldBits = Branch32 - 2
      BY <1>4, RelWidths DEF FieldBits, Branch, Low
    <2>2. f.imm = ((rel.A - 8) \div 4) % Pow2[Branch32 - 2]
      BY <1>4 DEF InPlace, Data32
    <2>3. Branch32 - 2 \in Nat
      BY WidthsAre
    <2>4. (rel.A - 8) \div 4 \in Int
      BY <1>3
    <2> QED
      BY <1>2, <2>1, <2>2, <2>3, <2>4, Pow2Type, RemainderCongruent
  <1>5. CASE rel.type = "prel31" /\ rel.implicit
    <2>1. FieldBits = W32
      BY <1>5 DEF FieldBits, Branch, Low, Width, Arm, Data32
    <2>2. f.imm = rel.A % Pow2[W32 - 1]
      BY <1>5 DEF InPlace, Data32
    <2>3. Pow2[W32] = 2 * Pow2[W32 - 1] /\ Pow2[W32 - 1] \in Nat \ {0}
      BY WidthsAre, Pow2Half
    <2>4. rel.A % Pow2[W32 - 1] \in 0..(Pow2[W32 - 1] - 1)
      BY <1>3, <2>3, RemainderCongruent
    <2> QED
      BY <1>2, <2>1, <2>2, <2>3, <2>4
  <1>6. CASE rel.type \in Data32 \ {"prel31"} /\ rel.implicit
    <2>1. FieldBits = W32
      BY <1>6 DEF FieldBits, Branch, Low, Width, Arm, Data32
    <2>2. f.imm = rel.A % Pow2[W32]
      BY <1>6 DEF InPlace, Data32
    <2> QED
      BY <1>2, <1>3, <2>1, <2>2, WidthsAre, Pow2Type, RemainderCongruent
  <1>7. CASE rel.type \notin Data32 \cup {"call"} \/ ~rel.implicit
    <2>1. f.imm = 1
      BY <1>7 DEF InPlace, Data32
    <2> QED
      BY <1>2, <2>1, FieldRoom
  <1> QED
    BY <1>4, <1>5, <1>6, <1>7

LEMMA ZeroFits == IsInt(W64, 0)
  <1>1. Pow2[W64 - 1] \in Nat \ {0}
    BY WidthsAre, Pow2Half
  <1> QED
    BY <1>1 DEF IsInt

LEMMA InitInv ==
    ASSUME Init
    PROVE  TypeOK /\ RelocInv
  <1>1. RelType
    <2>1. PICK t \in Arm64 \cup Arm, p \in Place, s \in Symbol, a \in Addend, b \in BOOLEAN :
              \E i \in Insns(t), d \in IF t \in {"call26", "call"} THEN StubAway ELSE {0} :
                    rel = [type |-> t, P |-> p, S |-> s, A |-> a, implicit |-> b,
                           insn |-> i, stub |-> d]
      BY DEF Init
    <2>2. PICK i \in Insns(t), d \in StubAway \cup {0} :
              rel = [type |-> t, P |-> p, S |-> s, A |-> a, implicit |-> b, insn |-> i, stub |-> d]
      BY <2>1
    <2>3. rel.type = "call" =>
              IsInt(Branch32, rel.A - 8) /\ rel.A % (IF rel.insn = "blx" THEN 2 ELSE 4) = 0
      BY DEF Init
    <2>4. /\ rel.type = t /\ rel.P = p /\ rel.S = s /\ rel.A = a /\ rel.implicit = b
          /\ rel.insn = i /\ rel.stub = d
      BY <2>2
    <2>5. rel.insn \in {rel.type, "add", "bl", "blx"}
      BY <2>4 DEF Insns
    <2> QED
      BY <2>3, <2>4, <2>5 DEF Init, RelType
  <1>2. /\ step = "decode" /\ part = 1 /\ addend = 0 /\ value = 0 /\ via = Direct
        /\ target = Direct /\ place = InPlace(rel.type, rel.A, rel.implicit)
    BY DEF Init
  <1>3. place \in [lo : 0..3, hi : 0..(Pow2[HiBits] - 1), imm : 0..(Pow2[FieldBits] - 1)]
    BY <1>1, <1>2, InPlaceFits
  <1>4. TypeOK
    BY <1>2, <1>3, ZeroFits DEF TypeOK
  <1>5. RelocInv
    BY <1>1, <1>2 DEF RelocInv
  <1> QED
    BY <1>4, <1>5

------------------------------------------------------------------------------
(* Reading the addend.                                                        *)

LEMMA DecodeReads ==
    ASSUME RelType, place = InPlace(rel.type, rel.A, rel.implicit), Decode
    PROVE  addend' \in Int /\ AddendRead'
  <1>1. rel' = rel /\ rel.type \in Arm64 \cup Arm /\ rel.A \in Int /\ ~DecodeRefuses
    BY RelAddresses DEF Decode, RelType
  <1>2. CASE rel.type = "call" /\ rel.implicit
    <2>1. place.imm = ((rel.A - 8) \div 4) % Pow2[Branch32 - 2]
      BY <1>2 DEF InPlace, Data32
    <2>2. addend' = Signed(Branch32, place.imm * 4)
      BY <1>2 DEF Decode, Data32
    <2>3. rel.A % 4 = 0 /\ IsInt(Branch32, rel.A - 8)
      BY <1>1, <1>2 DEF RelType, DecodeRefuses, Halfword
    <2>4. (rel.A - 8) % 4 = 0 /\ rel.A - 8 \in Int
      BY <1>1, <2>3
    <2>5. Signed(Branch32, place.imm * 4) = rel.A - 8
      BY <2>1, <2>3, <2>4, WidthsAre, BranchField
    <2> QED
      BY <1>1, <1>2, <2>2, <2>4, <2>5 DEF AddendRead, Arm64, Data64, Data32, Low
  <1>3. CASE rel.type = "prel31" /\ rel.implicit
    <2>1. place.imm = rel.A % Pow2[W32 - 1]
      BY <1>3 DEF InPlace, Data32
    <2>2. addend' = Signed(W32, place.imm)
      BY <1>3 DEF Decode, Data32
    <2>3. W32 \in Nat \ {0} /\ W32 - 1 \in Nat /\ W32 - 1 <= W32
      BY WidthsAre
    <2>4. Pow2[W32 - 1] \in Nat \ {0}
      BY <2>3, Pow2Type
    <2>5. place.imm \in Int /\ Congruent(Pow2[W32 - 1], place.imm, rel.A)
      <3>1. /\ rel.A % Pow2[W32 - 1] \in 0..(Pow2[W32 - 1] - 1)
            /\ Congruent(Pow2[W32 - 1], rel.A % Pow2[W32 - 1], rel.A)
        BY <1>1, <2>4, RemainderCongruent
      <3> QED
        BY <2>1, <2>4, <3>1
    <2>6. addend' \in Int /\ Congruent(Pow2[W32 - 1], addend', place.imm)
      BY <2>2, <2>3, <2>5, SignedType, CongruentNarrow
    <2>7. Congruent(Pow2[W32 - 1], addend', rel.A)
      BY <1>1, <2>4, <2>5, <2>6, CongruentOver
    <2>8. (addend' - rel.A) % Pow2[W32 - 1] = 0
      BY <1>1, <2>4, <2>6, <2>7, CongruentDifference
    <2> QED
      BY <1>1, <1>3, <2>6, <2>8 DEF AddendRead, Arm64, Data64, Low
  <1>4. CASE rel.type \in Data32 \ {"prel31"} /\ rel.implicit
    <2>1. place.imm = rel.A % Pow2[W32]
      BY <1>4 DEF InPlace, Data32
    <2>2. addend' = Signed(W32, place.imm)
      BY <1>4 DEF Decode, Data32
    <2>3. W32 \in Nat \ {0} /\ Pow2[W32] \in Nat \ {0}
      BY WidthsAre, Pow2Type
    <2>4. place.imm \in Int /\ Congruent(Pow2[W32], place.imm, rel.A)
      <3>1. /\ rel.A % Pow2[W32] \in 0..(Pow2[W32] - 1)
            /\ Congruent(Pow2[W32], rel.A % Pow2[W32], rel.A)
        BY <1>1, <2>3, RemainderCongruent
      <3> QED
        BY <2>1, <2>3, <3>1
    <2>5. addend' \in Int /\ Congruent(Pow2[W32], addend', place.imm)
      BY <2>2, <2>3, <2>4, SignedType
    <2>6. Congruent(Pow2[W32], addend', rel.A)
      BY <1>1, <2>3, <2>4, <2>5, CongruentOver
    <2>7. (addend' - rel.A) % Pow2[W32] = 0
      BY <1>1, <2>3, <2>5, <2>6, CongruentDifference
    <2> QED
      BY <1>1, <1>4, <2>5, <2>7 DEF AddendRead, Arm64, Data64, Data32, Low
  <1>5. CASE rel.type \in Arm64
    BY <1>1, <1>5 DEF Decode, AddendRead, Arm64, Data64, Data32, Low
  <1>6. CASE rel.type \in Data32 /\ ~rel.implicit
    <2>1. addend' = rel.A
      BY <1>6 DEF Decode, Data32
    <2>2. W32 \in Nat /\ W32 - 1 \in Nat
      BY WidthsAre
    <2>3. Pow2[W32] \in Nat \ {0} /\ Pow2[W32 - 1] \in Nat \ {0}
      BY <2>2, Pow2Type
    <2>4. (rel.A - rel.A) % Pow2[W32] = 0 /\ (rel.A - rel.A) % Pow2[W32 - 1] = 0
      BY <1>1, <2>3, CongruentSelf, CongruentDifference
    <2> QED
      BY <1>1, <1>6, <2>1, <2>4 DEF AddendRead, Arm64, Data64, Data32, Low
  <1>7. CASE rel.type = "call" /\ ~rel.implicit
    <2>1. addend' = rel.A - 8
      BY <1>7 DEF Decode, Data32
    <2> QED
      BY <1>1, <1>7, <2>1 DEF AddendRead, Arm64, Data64, Data32, Low
  <1> QED
    BY <1>1, <1>2, <1>3, <1>4, <1>5, <1>6, <1>7 DEF Arm

LEMMA DecodeInv ==
    ASSUME TypeOK, RelocInv, Decode
    PROVE  TypeOK' /\ RelocInv'
  <1>1. /\ step = "decode" /\ step' = "compute" /\ rel' = rel /\ part' = part /\ value' = value
        /\ place' = place /\ via' = via /\ target' = target
    BY DEF Decode
  <1>2. RelType /\ P' = P /\ (RelType' <=> RelType) /\ FieldBits' = FieldBits /\ Wanted' = Wanted
    BY <1>1, SameReloc DEF RelocInv
  <1>3. addend' \in Int /\ AddendRead'
    <2>1. CASE part = 1
      BY <1>1, <1>2, <2>1, DecodeReads DEF RelocInv
    <2>2. CASE part = 2
      <3>1. rel.type \in Low
        BY <2>2 DEF RelocInv
      <3> QED
        BY <1>1, <1>2, <3>1, RelAddresses DEF Decode, AddendRead, Arm64, Data32, Low
    <2> QED
      BY <2>1, <2>2 DEF TypeOK
  <1>4. TypeOK'
    BY <1>1, <1>2, <1>3 DEF TypeOK
  <1>5. PageReached' = PageReached
    BY <1>1, <1>2 DEF PageReached
  <1> QED
    BY <1>1, <1>2, <1>3, <1>4, <1>5 DEF RelocInv, TypeOK

------------------------------------------------------------------------------
(* Computing the value.                                                       *)

LEMMA Kinds ==
    /\ rel.type \in Low => ~Branch /\ rel.type \notin Data64 \cup Data32 /\ rel.type \in Arm64
    /\ Branch => rel.type \notin Low \cup Data64 \cup Data32
    /\ rel.type \in Data64 \cup Data32 => ~Branch /\ rel.type \notin Low
  BY DEF Branch, Low, Data64, Data32, Arm64

LEMMA ValueTypes ==
    ASSUME RelType, addend \in Int, NEW x \in Int
    PROVE  /\ Signed(AddrBits, x) \in Int /\ IsInt(AddrBits, Signed(AddrBits, x))
           /\ IsInt(W64, Signed(AddrBits, x))
           /\ Congruent(Pow2[AddrBits], Signed(AddrBits, x), x)
  <1>1. AddrBits \in Nat \ {0} /\ AddrBits <= W64 /\ W64 \in Nat
    BY RelWidths, WidthsAre
  <1> QED
    BY <1>1, SignedType, IsIntWider

LEMMA PagesFit == PageSize \in Nat /\ PageSize < Pow2[W64 - 1]
  <1>1. PICK a, b : a = PageBits /\ b = W64 - 1
    OBVIOUS
  <1>2. a \in Nat /\ a + 1 \in Nat /\ b \in Nat /\ a + 1 <= b
    BY <1>1, Widths
  <1>3. Pow2[a + 1] = 2 * Pow2[a] /\ Pow2[a] \in Nat \ {0}
    BY <1>2, Pow2Def, Pow2Type
  <1>4. Pow2[a + 1] <= Pow2[b] /\ Pow2[b] \in Nat
    BY <1>2, Pow2Grows, Pow2Type
  <1> QED
    BY <1>1, <1>3, <1>4 DEF PageSize

(* A branch leads to a stub for the address it wants.                         *)
LEMMA StubTargetType ==
    ASSUME RelType, addend \in Int
    PROVE  StubTarget \in Nat
  <1>1. SA \in 0..(Pow2[AddrBits] - 1) /\ Pow2[AddrBits] \in Nat /\ S \in Nat
    BY Sums, RelAddresses
  <1>2. PICK m, x : m = Pow2[W32] /\ x = SA + 8
    OBVIOUS
  <1>3. m \in Nat \ {0} /\ x \in Int
    BY <1>1, <1>2, WidthsAre, Pow2Type
  <1>4. x % m \in 0..(m - 1)
    BY <1>3, RemainderCongruent
  <1>5. x % m \in Nat
    BY <1>3, <1>4
  <1> QED
    BY <1>1, <1>2, <1>5 DEF StubTarget

LEMMA ComputedInv ==
    ASSUME TypeOK, RelocInv, step = "compute", step' = "encode",
           rel' = rel, part' = part, addend' = addend, place' = place,
           IsInt(W64, value'), ValueRight',
           \/ via' = Direct /\ target' = target
           \/ /\ via' = Stub /\ Branch /\ ~IsInt(BranchBits, Displacement(SA))
              /\ target' = StubTarget
    PROVE  TypeOK' /\ RelocInv'
  <1>1. /\ RelType /\ P' = P /\ (RelType' <=> RelType) /\ FieldBits' = FieldBits /\ Wanted' = Wanted
        /\ AddrBits' = AddrBits /\ BranchBits' = BranchBits /\ (Branch' <=> Branch) /\ Stub' = Stub
    BY SameReloc DEF RelocInv
  <1>2. SA' = SA /\ (AddendRead' <=> AddendRead) /\ AddendRead /\ StubTarget' = StubTarget
    BY SameSums DEF RelocInv
  <1>3. Stub \in Nat /\ 0 < Stub /\ StubTarget \in Nat
    BY <1>1, RelAddresses, StubTargetType DEF TypeOK
  <1>4. TypeOK'
    BY <1>1, <1>3 DEF TypeOK
  <1>5. PageReached' = PageReached
    BY <1>1 DEF PageReached
  <1>6. part' = 2 => rel'.type \in Low /\ (PageReached % Pow2[W64] = Page(Wanted))'
    BY <1>1, <1>5 DEF RelocInv
  <1>7. via' # Direct => /\ Branch' /\ via' = Stub' /\ step' \in {"encode", "done"}
                         /\ ~IsInt(BranchBits, Displacement(SA))' /\ target' = StubTarget'
    BY <1>1, <1>2 DEF Displacement
  <1>8. step' # "decode" /\ step' # "done" /\ RelType' /\ AddendRead' /\ ValueRight'
    BY <1>1, <1>2
  <1> QED
    BY <1>4, <1>6, <1>7, <1>8 DEF RelocInv

LEMMA ComputeInv ==
    ASSUME TypeOK, RelocInv,
           ComputeData \/ ComputePage \/ ComputeLow \/ ComputeBranch \/ ComputeStub
    PROVE  TypeOK' /\ RelocInv'
  <1>1. /\ step = "compute" /\ step' = "encode" /\ rel' = rel /\ part' = part
        /\ addend' = addend /\ place' = place
    BY DEF ComputeData, ComputePage, ComputeLow, ComputeBranch, ComputeStub, Compute
  <1>2. /\ RelType /\ P' = P /\ (RelType' <=> RelType) /\ AddrBits' = AddrBits
        /\ BranchBits' = BranchBits /\ (Branch' <=> Branch) /\ Stub' = Stub
        /\ SA' = SA /\ StubDisplacement' = StubDisplacement /\ (Aligned' <=> Aligned)
    BY <1>1, SameReloc, SameSums DEF RelocInv
  <1>3. /\ via = Direct /\ addend \in Int /\ P \in Int /\ SA \in Int /\ Stub # Direct
        /\ rel.type \in Arm64 \cup Arm
    <2>1. SA \in 0..(Pow2[AddrBits] - 1) /\ Pow2[AddrBits] \in Nat
      BY <1>2, Sums, RelAddresses DEF TypeOK
    <2>2. SA \in Int
      BY <2>1
    <2>3. Stub # Direct
      BY <1>2, RelAddresses DEF Direct
    <2> QED
      BY <1>1, <1>2, <2>2, <2>3, RelAddresses DEF RelocInv, TypeOK, RelType
  <1>4. IsInt(W64, value') /\ ValueRight'
    <2>1. CASE ComputeData
      <3>1. PICK x : x = IF rel.type \in Absolute THEN SA ELSE SA - P
        OBVIOUS
      <3>2. x \in Int /\ value' = Signed(AddrBits, x) /\ rel.type \in Data64 \cup Data32
        BY <1>3, <2>1, <3>1 DEF ComputeData, Compute
      <3>3. IsInt(W64, value')
        BY <1>2, <1>3, <3>2, ValueTypes
      <3> QED
        BY <1>1, <1>2, <3>1, <3>2, <3>3, Kinds DEF ValueRight
    <2>2. CASE ComputePage
      <3>1. Page(SA) - Page(P) \in Int
        BY <1>3, PageParts
      <3>2. value' = Signed(W64, Page(SA) - Page(P)) /\ rel.type \in Low /\ part = 1
        BY <2>2 DEF ComputePage, Compute
      <3>3. AddrBits = W64
        BY <1>2, <3>2, RelWidths DEF Arm64
      <3>4. IsInt(W64, value')
        BY <1>2, <1>3, <3>1, <3>2, <3>3, ValueTypes
      <3> QED
        BY <1>1, <1>2, <3>2, <3>4, Kinds DEF ValueRight
    <2>3. CASE ComputeLow
      <3>1. /\ value' = SA % PageSize /\ rel.type \in Low /\ part = 2
            /\ rel.type # "got" => Aligned
        BY <2>3 DEF ComputeLow, Compute
      <3>2. SA % PageSize \in 0..(PageSize - 1)
        BY <1>3, PageParts
      <3>3. IsInt(W64, value')
        BY <3>1, <3>2, PagesFit, WidthsAre, Pow2Half DEF IsInt
      <3> QED
        BY <1>1, <1>2, <3>1, <3>3, Kinds DEF ValueRight
    <2>4. CASE ComputeBranch
      <3>1. /\ value' = Displacement(SA) /\ Branch /\ IsInt(BranchBits, Displacement(SA))
            /\ via' = Direct
        BY <1>3, <2>4 DEF ComputeBranch, Compute
      <3>2. IsInt(W64, value')
        BY <1>2, <1>3, <3>1, ValueTypes DEF Displacement
      <3> QED
        BY <1>1, <1>2, <3>1, <3>2, Kinds DEF ValueRight, Displacement
    <2>5. CASE ComputeStub
      <3>1. /\ value' = StubDisplacement /\ Branch /\ IsInt(BranchBits, StubDisplacement)
            /\ via' = Stub
        BY <2>5 DEF ComputeStub, StubAccepted, Compute
      <3>2. IsInt(W64, StubDisplacement)
        <4>1. PICK x : x = (IF rel.type = "call" THEN Entry - 8 ELSE Entry) - P
          OBVIOUS
        <4>2. x \in Int /\ StubDisplacement = Signed(AddrBits, x)
          BY <1>2, <1>3, <4>1, RelAddresses DEF StubDisplacement, Displacement, Entry
        <4> QED
          BY <1>2, <1>3, <4>2, ValueTypes
      <3> QED
        BY <1>1, <1>2, <1>3, <3>1, <3>2, Kinds DEF ValueRight
    <2> QED
      BY <2>1, <2>2, <2>3, <2>4, <2>5
  <1>5. \/ via' = Direct /\ target' = target
        \/ /\ via' = Stub /\ Branch /\ ~IsInt(BranchBits, Displacement(SA))
           /\ target' = StubTarget
    BY <1>3 DEF ComputeData, ComputePage, ComputeLow, ComputeBranch, ComputeStub, Compute
  <1> QED
    BY <1>1, <1>4, <1>5, ComputedInv

------------------------------------------------------------------------------
(* Aborting, and encoding.                                                    *)

LEMMA AbortInv ==
    ASSUME TypeOK, RelocInv, DecodeAborts \/ ComputeAborts \/ EncodeAborts
    PROVE  TypeOK' /\ RelocInv'
  <1>1. /\ step' = "abort" /\ rel' = rel /\ part' = part /\ target' = target
        /\ addend' = addend /\ value' = value /\ place' = place /\ via' = via
    BY DEF DecodeAborts, ComputeAborts, EncodeAborts, Abort
  <1>2. via = Direct
    <2>1. CASE DecodeAborts \/ ComputeAborts
      BY <2>1 DEF DecodeAborts, ComputeAborts, RelocInv
    <2>2. CASE EncodeAborts
      <3>1. ~Accepted /\ ValueRight
        BY <2>2 DEF EncodeAborts, RelocInv
      <3>2. Branch => Accepted
        BY <3>1, Kinds DEF ValueRight, Accepted
      <3> QED
        BY <3>1, <3>2 DEF RelocInv
    <2> QED
      BY <2>1, <2>2
  <1>3. RelType' /\ PageReached' = PageReached /\ Wanted' = Wanted /\ FieldBits' = FieldBits
    BY <1>1, SameReloc DEF RelocInv, PageReached
  <1>4. TypeOK'
    BY <1>1, <1>3 DEF TypeOK
  <1>5. part' = 2 => rel'.type \in Low /\ (PageReached % Pow2[W64] = Page(Wanted))'
    BY <1>1, <1>3 DEF RelocInv
  <1>6. step' # "decode" /\ step' # "encode" /\ step' # "done"
    BY <1>1
  <1> QED
    BY <1>1, <1>2, <1>3, <1>4, <1>5, <1>6 DEF RelocInv

(* The first instruction of a pair forms the page of the address wanted.      *)
LEMMA EncodePage ==
    ASSUME TypeOK, RelocInv, Encode, rel.type \in Low, part = 1
    PROVE  TypeOK' /\ RelocInv'
  <1>1. /\ step = "encode" /\ step' = "decode" /\ part' = 2 /\ rel' = rel /\ addend' = addend
        /\ value' = value /\ via' = via /\ target' = target /\ place' = PageFields
        /\ IsInt(W32, value) /\ value % PageSize = 0
    BY DEF Encode, Accepted
  <1>2. /\ RelType /\ addend = rel.A /\ value = Signed(W64, Page(SA) - Page(P))
        /\ via = Direct /\ AddrBits = W64
    <2>1. rel.type \in Arm64 /\ ~Branch
      BY Kinds
    <2> QED
      BY <1>1, <2>1, RelWidths DEF RelocInv, AddendRead, ValueRight
  <1>3. /\ P' = P /\ Wanted' = Wanted /\ (RelType' <=> RelType) /\ FieldBits' = FieldBits
        /\ SA = Wanted
    BY <1>1, <1>2, SameReloc, SumsAgree
  <1>4. PICK lo, hi : /\ lo = (value \div PageSize) % 4
                      /\ hi = (value \div (4 * PageSize)) % Pow2[HiBits]
    OBVIOUS
  <1>5. /\ place.lo \in 0..3 /\ place' = [place EXCEPT !.lo = lo, !.hi = hi]
        /\ place \in [lo : 0..3, hi : 0..(Pow2[HiBits] - 1), imm : 0..(Pow2[FieldBits] - 1)]
    BY <1>1, <1>4 DEF PageFields, TypeOK
  <1>6. P \in Int /\ SA \in Int /\ SA \in 0..(Pow2[W64] - 1) /\ Pow2[W64] \in Nat \ {0}
    BY <1>2, RelAddresses, Sums DEF TypeOK
  <1>7. Page(P) \in Int /\ Page(SA) \in Int
    BY <1>6, PageParts
  <1>8. value \in Int /\ Congruent(Pow2[W64], value, Page(SA) - Page(P))
    BY <1>2, <1>7, WidthsAre, SignedType
  <1>9. /\ lo \in 0..3 /\ hi \in 0..(Pow2[HiBits] - 1)
        /\ Signed(HiBits + 2, hi * 4 + lo) * PageSize = value
    BY <1>1, <1>4, <1>8, AdrpFields
  <1>10. /\ place' \in [lo : 0..3, hi : 0..(Pow2[HiBits] - 1), imm : 0..(Pow2[FieldBits] - 1)]
         /\ place'.lo = lo /\ place'.hi = hi
    BY <1>5, <1>9
  <1>11. PageReached' = Page(P) + value
    <2>1. PageReached' = Page(P) + Signed(HiBits + 2, hi * 4 + lo) * PageSize
      BY <1>3, <1>10 DEF PageReached
    <2> QED
      BY <1>9, <2>1
  <1>12. PageReached' % Pow2[W64] = Page(SA)
    <2>1. (Page(P) + value) % Pow2[W64] = Page(SA) % Pow2[W64]
      BY <1>6, <1>7, <1>8, Reach
    <2>2. Page(SA) \in 0..(Pow2[W64] - 1)
      BY <1>6, PageRange
    <2>3. Page(SA) % Pow2[W64] = Page(SA)
      BY <1>6, <2>2
    <2> QED
      BY <1>11, <2>1, <2>3
  <1>13. TypeOK'
    BY <1>1, <1>2, <1>3, <1>10 DEF TypeOK
  <1>14. RelocInv'
    <2>1. (PageReached % Pow2[W64] = Page(Wanted))'
      BY <1>3, <1>12
    <2>2. RelType' /\ part' = 2 /\ step' = "decode" /\ rel'.type \in Low /\ via' = Direct
      BY <1>1, <1>2, <1>3
    <2> QED
      BY <2>1, <2>2 DEF RelocInv
  <1> QED
    BY <1>13, <1>14

LEMMA ImmFits ==
    ASSUME TypeOK, RelType, ValueRight, rel.type \in Low => part = 2
    PROVE  ImmField \in 0..(Pow2[FieldBits] - 1)
  <1>1. SA \in Int
    <2>1. SA \in 0..(Pow2[AddrBits] - 1) /\ Pow2[AddrBits] \in Nat
      BY Sums, RelAddresses DEF TypeOK
    <2> QED
      BY <2>1
  <1>2. CASE rel.type \in Low
    <2>1. value \in 0..(PageSize - 1) /\ PageSize \in Nat
      <3>1. SA % PageSize \in 0..(PageSize - 1) /\ PageSize \in Nat
        BY <1>1, PageParts
      <3>2. value = SA % PageSize
        BY <1>2 DEF ValueRight
      <3> QED
        BY <3>1, <3>2
    <2>2. PICK l \in Nat : l = Log2(rel.insn)
      BY DEF Log2
    <2>3. value \in Nat /\ value \div Pow2[l] \in 0..value
      BY <2>1, <2>2, Pow2Type, Quotient
    <2>4. ImmField = value \div Pow2[l] /\ FieldBits = PageBits
      BY <1>2, <2>2, Kinds DEF ImmField, FieldBits
    <2> QED
      BY <2>1, <2>3, <2>4 DEF PageSize
  <1>3. CASE Branch
    <2>1. ImmField = (value \div 4) % Pow2[BranchBits - 2] /\ FieldBits = BranchBits - 2
      BY <1>3, Kinds DEF ImmField, FieldBits
    <2>2. value \in Int
      <3>1. \A x \in Int : Signed(AddrBits, x) \in Int
        BY ValueTypes DEF TypeOK
      <3>2. value = Displacement(SA) \/ value = StubDisplacement
        BY <1>3 DEF ValueRight
      <3> QED
        BY <1>1, <3>1, <3>2, RelAddresses DEF TypeOK, StubDisplacement, Displacement, Entry
    <2>3. value \div 4 \in Int /\ BranchBits - 2 \in Nat
      BY <2>2, RelWidths
    <2> QED
      BY <2>1, <2>3, Pow2Type, RemainderCongruent
  <1>4. CASE rel.type \in Data64 \cup Data32
    <2>1. ImmField = value % Pow2[FieldBits]
      BY <1>4, Kinds DEF ImmField, FieldBits
    <2>2. value \in Int
      <3>1. value = Signed(AddrBits, SA) \/ value = Signed(AddrBits, SA - P)
        BY <1>4 DEF ValueRight
      <3> QED
        BY <1>1, <3>1, RelAddresses, ValueTypes DEF TypeOK
    <2> QED
      BY <2>1, <2>2, FieldRoom, Pow2Type, RemainderCongruent
  <1> QED
    BY <1>2, <1>3, <1>4 DEF RelType, Arm64, Arm, Branch

LEMMA EncodeLast ==
    ASSUME TypeOK, RelocInv, Encode, ~(rel.type \in Low /\ part = 1)
    PROVE  TypeOK' /\ RelocInv'
  <1>1. /\ step = "encode" /\ step' = "done" /\ part' = part /\ rel' = rel /\ addend' = addend
        /\ value' = value /\ via' = via /\ target' = target
        /\ place' = [place EXCEPT !.imm = ImmField]
    BY DEF Encode
  <1>2. /\ RelType /\ P' = P /\ Wanted' = Wanted /\ (RelType' <=> RelType) /\ FieldBits' = FieldBits
        /\ AddrBits' = AddrBits /\ BranchBits' = BranchBits /\ (Branch' <=> Branch) /\ Stub' = Stub
        /\ SA' = SA /\ AddendRead' /\ StubTarget' = StubTarget
    BY <1>1, SameReloc, SameSums DEF RelocInv
  <1>3. rel.type \in Low => part = 2
    BY DEF TypeOK
  <1>4. ImmField \in 0..(Pow2[FieldBits] - 1)
    BY <1>1, <1>2, <1>3, ImmFits DEF RelocInv
  <1>5. /\ place' \in [lo : 0..3, hi : 0..(Pow2[HiBits] - 1), imm : 0..(Pow2[FieldBits] - 1)]
        /\ place'.lo = place.lo /\ place'.hi = place.hi
    BY <1>1, <1>4 DEF TypeOK
  <1>6. PageReached' = PageReached
    BY <1>2, <1>5 DEF PageReached
  <1>7. TypeOK'
    BY <1>1, <1>2, <1>5 DEF TypeOK
  <1>8. part' = 2 => rel'.type \in Low /\ (PageReached % Pow2[W64] = Page(Wanted))'
    BY <1>1, <1>2, <1>6 DEF RelocInv
  <1>9. via' # Direct => /\ Branch' /\ via' = Stub' /\ step' \in {"encode", "done"}
                         /\ ~IsInt(BranchBits, Displacement(SA))' /\ target' = StubTarget'
    BY <1>1, <1>2 DEF Displacement, RelocInv
  <1>10. step' # "decode" /\ step' # "encode" /\ RelType' /\ (rel'.type \in Low => part' = 2)
    BY <1>1, <1>2, <1>3
  <1> QED
    BY <1>2, <1>7, <1>8, <1>9, <1>10 DEF RelocInv

(* TypeOK and RelocInv together are inductive.                                *)
LEMMA StepInv ==
    ASSUME TypeOK, RelocInv, [Next]_vars
    PROVE  TypeOK' /\ RelocInv'
  <1>1. CASE Decode
    BY <1>1, DecodeInv
  <1>2. CASE ComputeData \/ ComputePage \/ ComputeLow \/ ComputeBranch \/ ComputeStub
    BY <1>2, ComputeInv
  <1>3. CASE DecodeAborts \/ ComputeAborts \/ EncodeAborts
    BY <1>3, AbortInv
  <1>4. CASE Encode
    BY <1>4, EncodePage, EncodeLast
  <1>5. CASE UNCHANGED vars
    <2>1. /\ step' = step /\ rel' = rel /\ part' = part /\ addend' = addend /\ value' = value
          /\ place' = place /\ via' = via /\ target' = target
      BY <1>5 DEF vars
    <2>2. /\ FieldBits' = FieldBits /\ (RelType' <=> RelType) /\ PageReached' = PageReached
          /\ Wanted' = Wanted /\ (AddendRead' <=> AddendRead) /\ (Branch' <=> Branch) /\ Stub' = Stub
          /\ SA' = SA /\ AddrBits' = AddrBits /\ BranchBits' = BranchBits /\ P' = P
          /\ StubDisplacement' = StubDisplacement /\ (Aligned' <=> Aligned)
          /\ StubTarget' = StubTarget
      BY <2>1, SameReloc, SameSums DEF PageReached
    <2>3. TypeOK'
      BY <2>1, <2>2 DEF TypeOK
    <2>4. ValueRight' <=> ValueRight
      BY <2>1, <2>2 DEF ValueRight, Displacement
    <2>5. (~IsInt(BranchBits, Displacement(SA)))' <=> ~IsInt(BranchBits, Displacement(SA))
      BY <2>2 DEF Displacement
    <2>6. (part = 2 => rel.type \in Low /\ PageReached % Pow2[W64] = Page(Wanted))'
      BY <2>1, <2>2 DEF RelocInv
    <2>7. (via # Direct => /\ Branch /\ via = Stub /\ step \in {"encode", "done"}
                           /\ ~IsInt(BranchBits, Displacement(SA)) /\ target = StubTarget)'
      BY <2>1, <2>2, <2>5 DEF RelocInv
    <2>8. RelocInv'
      BY <2>1, <2>2, <2>4, <2>6, <2>7 DEF RelocInv
    <2> QED
      BY <2>3, <2>8
  <1> QED
    BY <1>1, <1>2, <1>3, <1>4, <1>5 DEF Next

(* Every variable keeps its type, and the fields of the instructions hold no  *)
(* more than their bits.                                                      *)
THEOREM TypeCorrect == Spec => []TypeOK
  <1>1. Init => TypeOK /\ RelocInv
    BY InitInv
  <1>2. TypeOK /\ RelocInv /\ [Next]_vars => (TypeOK /\ RelocInv)'
    BY StepInv
  <1> QED
    BY <1>1, <1>2, PTL DEF Spec

(* At every step the value is what the relocation asks for at that point: the *)
(* addend is the object file's, the first instruction of a pair forms the     *)
(* page, and a stub is on the way only of a branch out of range.              *)
THEOREM RelocInvariant == Spec => []RelocInv
  <1>1. Init => TypeOK /\ RelocInv
    BY InitInv
  <1>2. TypeOK /\ RelocInv /\ [Next]_vars => (TypeOK /\ RelocInv)'
    BY StepInv
  <1> QED
    BY <1>1, <1>2, PTL DEF Spec

------------------------------------------------------------------------------
(* What the processor then reaches.                                           *)

LEMMA EncodedPair ==
    ASSUME TypeOK, RelocInv, Encode, rel.type \in Low, part = 2
    PROVE  PairAddresses'
  <1>1. /\ step = "encode" /\ rel' = rel /\ addend' = addend /\ place' = [place EXCEPT !.imm = ImmField]
        /\ Accepted
    BY DEF Encode
  <1>2. /\ RelType /\ addend = rel.A /\ AddrBits = W64 /\ value = SA % PageSize
        /\ PageReached % Pow2[W64] = Page(Wanted) /\ (rel.type # "got" => Aligned)
    BY <1>1, Kinds, RelWidths DEF RelocInv, AddendRead, ValueRight
  <1>3. SA = Wanted /\ Wanted' = Wanted /\ P' = P
    BY <1>1, <1>2, SumsAgree, SameReloc
  <1>4. SA \in Int /\ P \in Int /\ SA \in 0..(Pow2[W64] - 1) /\ Pow2[W64] \in Nat \ {0}
    BY <1>2, Sums, RelAddresses DEF TypeOK
  <1>5. value \in Nat /\ Page(SA) \in Int /\ Page(SA) + value = SA
    <2>1. SA % PageSize \in 0..(PageSize - 1) /\ Page(SA) \in Int /\ Page(SA) + (SA % PageSize) = SA
      BY <1>4, PageParts
    <2> QED
      BY <1>2, <2>1
  <1>6. PICK l, k \in Nat : l = Log2(rel.type) /\ k = Log2(rel.insn)
    BY DEF Log2
  <1>7. value = 0 \/ l = k
    BY <1>1, <1>6 DEF Accepted
  <1>8. value % Pow2[l] = 0
    <2>1. CASE rel.type = "got"
      <3>1. l = 3
        BY <1>6, <2>1 DEF Log2
      <3>2. value % 8 = 0
        BY <1>1, <2>1 DEF Accepted
      <3> QED
        BY <3>1, <3>2, Pow2Small
    <2>2. CASE rel.type # "got"
      <3>1. SA % Pow2[l] = 0
        BY <1>2, <1>6, <2>2 DEF Aligned
      <3> QED
        BY <1>2, <1>4, <3>1, AlignedInPage
    <2> QED
      BY <2>1, <2>2
  <1>9. PICK imm : imm = value \div Pow2[k]
    OBVIOUS
  <1>10. imm * Pow2[l] = value
    <2>1. CASE l = k
      BY <1>5, <1>8, <1>9, <2>1, Rescaled
    <2>2. CASE value = 0
      <3>1. imm = 0
        BY <1>9, <2>2, Pow2Type, Quotient
      <3> QED
        BY <2>2, <3>1, Pow2Type
    <2> QED
      BY <1>7, <2>1, <2>2
  <1>11. place'.imm = imm /\ place'.lo = place.lo /\ place'.hi = place.hi
    <2>1. ImmField = imm
      BY <1>6, <1>9, Kinds DEF ImmField
    <2> QED
      BY <1>1, <2>1 DEF TypeOK
  <1>12. PageReached' = PageReached /\ PageReached \in Int
    <2>1. PageReached' = PageReached
      BY <1>3, <1>11 DEF PageReached
    <2>2. place.hi * 4 + place.lo \in Int
      BY DEF TypeOK
    <2>3. Signed(HiBits + 2, place.hi * 4 + place.lo) \in Int
      <3>1. HiBits + 2 \in Nat \ {0}
        BY WidthsAre
      <3> QED
        BY <2>2, <3>1, SignedType
    <2>4. Page(P) \in Int /\ PageSize \in Int
      BY <1>4, PageParts
    <2> QED
      BY <2>1, <2>3, <2>4 DEF PageReached
  <1>13. PairReached' = (PageReached + value) % Pow2[W64]
    <2>1. place'.imm * Pow2[Log2(rel'.type)] = value
      BY <1>1, <1>6, <1>10, <1>11
    <2> QED
      BY <1>12, <2>1 DEF PairReached
  <1>14. (PageReached + value) % Pow2[W64] = SA
    <2>1. PICK m, r, y : m = Pow2[W64] /\ r = PageReached /\ y = Page(SA)
      OBVIOUS
    <2>2. m \in Nat \ {0} /\ r \in Int /\ y \in Int /\ value \in Int /\ y + value = SA
      BY <1>4, <1>5, <1>12, <2>1
    <2>3. Congruent(m, r % m, r) /\ r % m = y
      BY <1>2, <1>3, <2>1, <2>2, RemainderCongruent
    <2>4. Congruent(m, y, r) /\ Congruent(m, value, value)
      BY <2>2, <2>3, CongruentSelf
    <2>5. Congruent(m, y + value, r + value)
      BY <2>2, <2>4, CongruentSums
    <2>6. y + value \in Int /\ r + value \in Int
      BY <2>2
    <2>7. (y + value) % m = (r + value) % m
      BY <2>2, <2>5, <2>6, SameRemainder
    <2>8. SA % m = SA
      BY <1>4, <2>1
    <2> QED
      BY <2>1, <2>2, <2>7, <2>8
  <1> QED
    BY <1>3, <1>13, <1>14 DEF PairAddresses

LEMMA MultipleOfFour ==
    ASSUME NEW w \in Nat, w >= 2, NEW v \in Int, NEW x \in Int, Congruent(Pow2[w], v, x), x % 4 = 0
    PROVE  v % 4 = 0
  <1>1. Congruent(Pow2[2], v, x)
    BY CongruentNarrow
  <1>2. Congruent(4, v, x)
    BY <1>1, Pow2Small
  <1>3. PICK m : m = 4
    OBVIOUS
  <1>4. v % m = x % m
    BY <1>2, <1>3, SameRemainder
  <1> QED
    BY <1>3, <1>4

(* A branch whose displacement is congruent to that of a multiple of 4        *)
(* reaches it.                                                                *)
LEMMA BranchGoes ==
    ASSUME RelType, Branch, NEW to \in Int, to % 4 = 0, NEW bias \in {0, 8},
           NEW v \in Int, IsInt(BranchBits, v), Congruent(Pow2[AddrBits], v, to - (P + bias)),
           NEW imm, imm = (v \div 4) % Pow2[BranchBits - 2]
    PROVE  (P + bias + Signed(BranchBits, imm * 4)) % Pow2[AddrBits] = to % Pow2[AddrBits]
  <1>1. P \in Nat /\ P % 4 = 0 /\ Pow2[AddrBits] \in Nat \ {0}
    BY RelAddresses
  <1>2. (to - (P + bias)) % 4 = 0 /\ to - (P + bias) \in Int /\ P + bias \in Int
    <2>1. PICK p : p = P
      OBVIOUS
    <2>2. p \in Nat /\ p % 4 = 0
      BY <1>1, <2>1
    <2>3. (to - (p + 0)) % 4 = 0 /\ (to - (p + 8)) % 4 = 0
      BY <2>2
    <2> QED
      BY <2>1, <2>2, <2>3
  <1>3. v % 4 = 0
    BY <1>2, RelWidths, MultipleOfFour
  <1>4. Signed(BranchBits, imm * 4) = v
    BY <1>3, RelWidths, BranchField
  <1>5. (P + bias + v) % Pow2[AddrBits] = to % Pow2[AddrBits]
    <2>1. PICK m, p : m = Pow2[AddrBits] /\ p = P + bias
      OBVIOUS
    <2>2. m \in Nat \ {0} /\ p \in Int /\ Congruent(m, v, to - p)
      BY <1>1, <1>2, <2>1, Zenon
    <2>3. (p + v) % m = to % m
      BY ONLY <2>2, to \in Int, v \in Int, Reach, Zenon
    <2> QED
      BY <2>1, <2>3, Zenon
  <1> QED
    BY <1>4, <1>5

(* The sum computed and the sum wanted, by the kind of relocation.            *)
LEMMA SumsOnArm64 ==
    ASSUME RelType, AddendRead, rel.type \in Arm64
    PROVE  SA = Wanted
  BY SumsAgree DEF AddendRead

LEMMA SumsOfCall ==
    ASSUME RelType, addend \in Int, AddendRead, rel.type = "call"
    PROVE  Congruent(Pow2[AddrBits], SA, Wanted - 8)
  <1>1. PICK m, w, x, s, a : /\ m = Pow2[AddrBits] /\ w = Wanted /\ x = SA /\ s = S /\ a = rel.A
    OBVIOUS
  <1>2. /\ m \in Nat \ {0} /\ w \in Int /\ x \in Int /\ s \in Int /\ a \in Int
        /\ Congruent(m, w, s + a) /\ Congruent(m, x, s + addend) /\ addend = a - 8
    <2>1. m \in Nat \ {0} /\ s \in Int /\ a \in Int
      BY <1>1, RelAddresses
    <2>2. w \in 0..(m - 1) /\ x \in 0..(m - 1)
      BY <1>1, Sums
    <2> QED
      BY <1>1, <2>1, <2>2, Sums DEF AddendRead
  <1>3. PICK k \in Int : w = (s + a) + k * m
    BY <1>2 DEF Congruent
  <1>4. PICK l \in Int : x = (s + (a - 8)) + l * m
    BY <1>2 DEF Congruent
  <1>5. x = (w - 8) + (l - k) * m /\ l - k \in Int
    BY <1>2, <1>3, <1>4
  <1>6. Congruent(m, x, w - 8)
    BY <1>5 DEF Congruent
  <1> QED
    BY <1>1, <1>6

LEMMA SumsOfData ==
    ASSUME RelType, addend \in Int, AddendRead, rel.type \in Data64 \cup Data32,
           NEW n \in Nat, n = IF rel.type = "prel31" THEN W32 - 1 ELSE AddrBits
    PROVE  Congruent(Pow2[n], SA, Wanted)
  <1>1. PICK m, w, x, s, a : /\ m = Pow2[AddrBits] /\ w = Wanted /\ x = SA /\ s = S /\ a = rel.A
    OBVIOUS
  <1>2. /\ m \in Nat \ {0} /\ w \in Int /\ x \in Int /\ s \in Int /\ a \in Int
        /\ Congruent(m, w, s + a) /\ Congruent(m, x, s + addend)
    <2>1. m \in Nat \ {0} /\ s \in Int /\ a \in Int
      BY <1>1, RelAddresses
    <2>2. w \in 0..(m - 1) /\ x \in 0..(m - 1)
      BY <1>1, Sums
    <2> QED
      BY <1>1, <2>1, <2>2, Sums
  <1>3. n <= AddrBits /\ AddrBits \in Nat /\ Pow2[n] \in Nat \ {0}
    BY RelWidths, WidthsAre, Pow2Type DEF Arm, Data32
  <1>4. s + a \in Int /\ s + addend \in Int
    BY <1>2
  <1>5. Congruent(Pow2[n], w, s + a) /\ Congruent(Pow2[n], x, s + addend)
    BY <1>1, <1>2, <1>3, <1>4, CongruentNarrow
  <1>6. Congruent(Pow2[n], addend, a)
    <2>1. CASE rel.type \in Data64
      <3>1. addend = a
        BY <1>1, <2>1 DEF AddendRead, Arm64
      <3> QED
        BY <1>2, <1>3, <3>1, CongruentSelf
    <2>2. CASE rel.type \in Data32
      <3>1. (addend - a) % Pow2[n] = 0
        BY <1>1, <2>2, RelWidths DEF AddendRead, Data32, Arm
      <3> QED
        BY <1>2, <1>3, <3>1, CongruentDifference
    <2> QED
      BY <2>1, <2>2
  <1>7. Congruent(Pow2[n], s + addend, s + a)
    BY <1>2, <1>3, <1>6, CongruentSelf, CongruentSums
  <1>8. Congruent(Pow2[n], x, s + a)
    BY <1>2, <1>3, <1>4, <1>5, <1>7, CongruentOver
  <1>9. Congruent(Pow2[n], x, w)
    BY <1>2, <1>3, <1>4, <1>5, <1>8, CongruentBack, CongruentOver
  <1> QED
    BY <1>1, <1>9

(* The displacement of a branch is that of what it is sent to, less the bias  *)
(* of the program counter on arm.                                             *)
LEMMA BranchSentTo ==
    ASSUME RelType, addend \in Int, AddendRead, Branch
    PROVE  /\ Displacement(SA) \in Int
           /\ Congruent(Pow2[AddrBits], Displacement(SA), Wanted - (P + Bias))
           /\ StubDisplacement \in Int
           /\ (rel.type = "call26" => rel.A = 0) =>
                 Congruent(Pow2[AddrBits], StubDisplacement, Stub - (P + Bias))
  <1>1. PICK m, w, x, p, b : m = Pow2[AddrBits] /\ w = Wanted /\ x = SA /\ p = P /\ b = Bias
    OBVIOUS
  <1>2. /\ m \in Nat \ {0} /\ w \in Int /\ x \in Int /\ p \in Int /\ b \in {0, 8} /\ Stub \in Int
    <2>1. m \in Nat \ {0} /\ p \in Int /\ Stub \in Int
      BY <1>1, RelAddresses
    <2>2. w \in 0..(m - 1) /\ x \in 0..(m - 1)
      BY <1>1, Sums
    <2> QED
      BY <1>1, <2>1, <2>2 DEF Bias
  <1>3. Congruent(m, x, w - b)
    <2>1. CASE rel.type = "call"
      BY <1>1, <2>1, SumsOfCall DEF Bias
    <2>2. CASE rel.type = "call26"
      <3>1. x = w /\ b = 0 /\ w - b = w
        BY <1>1, <1>2, <2>2, SumsOnArm64 DEF Arm64, Bias
      <3> QED
        BY <1>2, <3>1, CongruentSelf
    <2> QED
      BY <2>1, <2>2 DEF Branch
  <1>4. Displacement(SA) \in Int /\ Congruent(m, Displacement(SA), x - p)
    <2>1. x - p \in Int /\ Displacement(SA) = Signed(AddrBits, x - p)
      BY <1>1, <1>2 DEF Displacement
    <2> QED
      BY <1>1, <2>1, ValueTypes
  <1>5. Congruent(m, x - p, (w - b) - p)
    BY <1>2, <1>3, CongruentSelf, CongruentSums
  <1>6. Congruent(m, Displacement(SA), w - (p + b))
    <2>1. (w - b) - p = w - (p + b) /\ x - p \in Int /\ w - (p + b) \in Int
      BY <1>2
    <2> QED
      BY <1>2, <1>4, <1>5, <2>1, CongruentOver
  <1>7. PICK y : y = (IF rel.type = "call" THEN Entry - 8 ELSE Entry) - P
    OBVIOUS
  <1>8. y \in Int /\ StubDisplacement = Signed(AddrBits, y)
    BY <1>1, <1>2, <1>7 DEF StubDisplacement, Displacement, Entry
  <1>9. StubDisplacement \in Int /\ Congruent(m, StubDisplacement, y)
    BY <1>1, <1>8, ValueTypes
  <1>10. (rel.type = "call26" => rel.A = 0) => y = Stub - (p + b)
    <2>1. CASE rel.type = "call"
      BY <1>1, <1>2, <1>7, <2>1 DEF Entry, Bias
    <2>2. CASE rel.type = "call26"
      <3>1. addend = rel.A
        BY <2>2 DEF AddendRead, Arm64
      <3> QED
        BY <1>1, <1>2, <1>7, <2>2, <3>1 DEF Entry, Bias
    <2> QED
      BY <2>1, <2>2 DEF Branch
  <1> QED
    BY <1>1, <1>4, <1>6, <1>9, <1>10

(* A stub is made for the address wanted, the bias put back on arm.           *)
LEMMA StubWanted ==
    ASSUME RelType, addend \in Int, AddendRead, Branch, rel.type = "call26" => rel.A = 0
    PROVE  StubTarget = Wanted
  <1>1. PICK m, w, x, s : m = Pow2[AddrBits] /\ w = Wanted /\ x = SA /\ s = S
    OBVIOUS
  <1>2. m \in Nat \ {0} /\ w \in 0..(m - 1) /\ x \in Int /\ s \in 0..(m - 1)
    <2>1. m \in Nat \ {0} /\ s \in Nat /\ s < m
      BY <1>1, RelAddresses
    <2>2. w \in 0..(m - 1) /\ x \in 0..(m - 1)
      BY <1>1, Sums
    <2> QED
      BY <2>1, <2>2
  <1>3. CASE rel.type = "call"
    <2>1. Congruent(m, x, w - 8) /\ Pow2[W32] = m
      BY <1>1, <1>3, SumsOfCall, RelWidths DEF Arm
    <2>2. PICK k \in Int : x = (w - 8) + k * m
      BY <2>1 DEF Congruent
    <2>3. x + 8 = w + k * m /\ x + 8 \in Int /\ w \in Int
      BY <1>2, <2>2
    <2>4. Congruent(m, x + 8, w)
      BY <2>3 DEF Congruent
    <2>5. (x + 8) % m = w % m
      <3>1. PICK z : z = x + 8
        OBVIOUS
      <3> QED
        BY <1>2, <2>3, <2>4, <3>1, SameRemainder
    <2>6. w % m = w
      BY <1>2
    <2> QED
      BY <1>1, <1>3, <2>1, <2>5, <2>6 DEF StubTarget
  <1>4. CASE rel.type = "call26"
    <2>1. s + 0 = s /\ s % m = s
      BY <1>2
    <2> QED
      BY <1>1, <1>4, <2>1 DEF StubTarget, Wanted
  <1> QED
    BY <1>3, <1>4 DEF Branch

LEMMA EncodedBranch ==
    ASSUME TypeOK, RelocInv, Encode, Branch
    PROVE  BranchAddresses'
  <1>1. /\ step = "encode" /\ rel' = rel /\ addend' = addend /\ via' = via
        /\ target' = target /\ place' = [place EXCEPT !.imm = ImmField]
    BY Kinds DEF Encode
  <1>2. /\ RelType /\ AddendRead /\ ValueRight /\ addend \in Int
        /\ via # Direct => via = Stub /\ target = StubTarget
    BY <1>1 DEF RelocInv, TypeOK
  <1>3. /\ P' = P /\ AddrBits' = AddrBits /\ BranchBits' = BranchBits /\ Wanted' = Wanted
        /\ (Branch' <=> Branch)
    BY <1>1, SameReloc
  <1>4. PICK imm : imm = (value \div 4) % Pow2[BranchBits - 2]
    OBVIOUS
  <1>5. place'.imm = imm
    <2>1. ImmField = imm
      BY <1>4, Kinds DEF ImmField
    <2> QED
      BY <1>1, <2>1 DEF TypeOK
  <1>6. Bias \in {0, 8} /\ Bias' = Bias
    BY <1>1 DEF Bias
  <1>7. BranchReached' = (P + Bias + Signed(BranchBits, imm * 4)) % Pow2[AddrBits]
    BY <1>3, <1>5, <1>6 DEF BranchReached
  <1>8. IsInt(BranchBits, value)
    BY <1>2 DEF ValueRight
  <1>9. Wanted \in Int /\ Wanted % Pow2[AddrBits] = Wanted
    <2>1. Wanted \in 0..(Pow2[AddrBits] - 1) /\ Pow2[AddrBits] \in Nat \ {0}
      BY <1>2, Sums, RelAddresses
    <2> QED
      BY <2>1
  <1>10. ASSUME via = Direct, Wanted % 4 = 0 PROVE BranchReached' = Wanted
    <2>1. value \in Int /\ Congruent(Pow2[AddrBits], value, Wanted - (P + Bias))
      BY <1>2, <1>10, BranchSentTo DEF ValueRight
    <2> QED
      BY <1>2, <1>4, <1>6, <1>7, <1>8, <1>9, <1>10, <2>1, BranchGoes
  <1>11. ASSUME via # Direct, rel.type = "call26" => rel.A = 0
         PROVE  BranchReached' = via % Pow2[AddrBits]
    <2>1. value \in Int /\ Congruent(Pow2[AddrBits], value, Stub - (P + Bias))
      BY <1>2, <1>11, BranchSentTo DEF ValueRight
    <2>2. Stub \in Int /\ Stub % 4 = 0
      BY <1>2, RelAddresses
    <2> QED
      BY <1>2, <1>4, <1>6, <1>7, <1>8, <1>11, <2>1, <2>2, BranchGoes
  <1>12. ASSUME via # Direct, rel.type = "call26" => rel.A = 0
         PROVE  target' = Wanted
    BY <1>1, <1>2, <1>12, StubWanted
  <1> QED
    BY <1>1, <1>3, <1>10, <1>11, <1>12 DEF BranchAddresses

LEMMA EncodedData ==
    ASSUME TypeOK, RelocInv, Encode, rel.type \in Data64 \cup Data32
    PROVE  DataAddresses'
  <1>1. /\ step = "encode" /\ rel' = rel /\ place' = [place EXCEPT !.imm = ImmField] /\ Accepted
    BY Kinds DEF Encode
  <1>2. RelType /\ AddendRead /\ ValueRight /\ addend \in Int
    BY <1>1 DEF RelocInv, TypeOK
  <1>3. P' = P /\ AddrBits' = AddrBits /\ Wanted' = Wanted
    BY <1>1, SameReloc
  <1>4. PICK w, imm : w = Width(rel.type) /\ imm = value % Pow2[w]
    OBVIOUS
  <1>5. place'.imm = imm
    <2>1. ImmField = imm
      BY <1>4, Kinds DEF ImmField
    <2> QED
      BY <1>1, <2>1 DEF TypeOK
  <1>6. w \in Nat \ {0} /\ Pow2[w] \in Nat \ {0}
    BY <1>4, WidthsAre, Pow2Type DEF Width
  <1>7. SA \in Int /\ Wanted \in Int /\ P \in Int /\ Pow2[AddrBits] \in Nat \ {0}
    <2>1. SA \in 0..(Pow2[AddrBits] - 1) /\ Wanted \in 0..(Pow2[AddrBits] - 1)
      BY <1>2, Sums
    <2>2. Pow2[AddrBits] \in Nat \ {0} /\ P \in Int
      BY <1>2, RelAddresses
    <2> QED
      BY <2>1, <2>2
  <1>8. PICK x, y : /\ x = IF rel.type \in Absolute THEN SA ELSE SA - P
                    /\ y = IF rel.type \in Absolute THEN Wanted ELSE Wanted - P
    OBVIOUS
  <1>9. x \in Int /\ y \in Int /\ value = Signed(AddrBits, x)
    BY <1>2, <1>7, <1>8 DEF ValueRight
  <1>10. value \in Int /\ IsInt(AddrBits, value) /\ Congruent(Pow2[AddrBits], value, x)
    BY <1>2, <1>9, ValueTypes
  <1>11. imm \in Int /\ Congruent(Pow2[w], imm, value)
    <2>1. value % Pow2[w] \in 0..(Pow2[w] - 1) /\ Congruent(Pow2[w], value % Pow2[w], value)
      BY <1>6, <1>10, RemainderCongruent
    <2> QED
      BY <1>4, <1>6, <2>1
  <1>12. PICK n : n = IF rel.type = "prel31" THEN W32 - 1 ELSE AddrBits
    OBVIOUS
  <1>13. n \in Nat \ {0} /\ n <= AddrBits /\ AddrBits \in Nat /\ Pow2[n] \in Nat \ {0}
    BY <1>2, <1>12, RelWidths, WidthsAre, Pow2Type DEF Arm, Data32
  <1>14. Congruent(Pow2[n], x, y)
    <2>1. Congruent(Pow2[n], SA, Wanted)
      BY <1>2, <1>12, <1>13, SumsOfData
    <2>2. Congruent(Pow2[n], SA - P, Wanted - P)
      BY <1>7, <1>13, <2>1, CongruentSelf, CongruentSums
    <2> QED
      BY <1>8, <2>1, <2>2
  <1>15. Congruent(Pow2[n], value, y)
    <2>1. Congruent(Pow2[n], value, x)
      BY <1>9, <1>10, <1>13, CongruentNarrow
    <2> QED
      BY <1>9, <1>10, <1>13, <1>14, <2>1, CongruentOver
  <1>16. Sum' = Sum /\ Sum = Signed(AddrBits, y)
    BY <1>1, <1>3, <1>8 DEF Sum
  <1>17. CASE rel.type = "prel31"
    <2>1. w = W32 /\ n = W32 - 1 /\ n <= w
      BY <1>4, <1>12, <1>17, WidthsAre DEF Width, Arm, Data32
    <2>2. Congruent(Pow2[n], imm, value)
      BY <1>6, <1>10, <1>11, <1>13, <2>1, CongruentNarrow
    <2>3. Congruent(Pow2[n], imm, y)
      BY <1>9, <1>10, <1>11, <1>13, <1>15, <2>2, CongruentOver
    <2>4. Signed(n, imm) = Signed(n, y)
      BY <1>9, <1>11, <1>13, <2>3, SignedCongruent
    <2>5. DataRead' = Signed(n, imm)
      BY <1>1, <1>5, <1>17, <2>1 DEF DataRead
    <2>6. ASSUME IsInt(n, Sum) PROVE Signed(n, y) = Sum
      <3>1. Sum \in Int /\ Congruent(Pow2[AddrBits], Sum, y)
        BY <1>2, <1>9, <1>16, ValueTypes
      <3>2. Congruent(Pow2[n], Sum, y)
        BY <1>9, <1>13, <3>1, CongruentNarrow
      <3> QED
        BY <1>9, <1>13, <2>6, <3>1, <3>2, SignedUnique
    <2> QED
      BY <1>1, <1>16, <1>17, <2>1, <2>4, <2>5, <2>6 DEF DataAddresses
  <1>18. CASE rel.type # "prel31"
    <2>1. n = AddrBits /\ IsInt(w, value)
      <3>1. CASE rel.type \in Data64
        <4>1. w = W64 \/ IsInt(w, value)
          BY <1>1, <1>4, <3>1 DEF Accepted
        <4>2. AddrBits = W64
          BY <1>2, <3>1, RelWidths DEF Arm64
        <4> QED
          BY <1>10, <1>12, <1>18, <4>1, <4>2
      <3>2. CASE rel.type \in Data32
        <4>1. w = W32
          BY <1>4, <3>2 DEF Width, Arm, Data32
        <4>2. AddrBits = W32
          BY <1>2, <3>2, RelWidths DEF Arm
        <4> QED
          BY <1>10, <1>12, <1>18, <4>1, <4>2
      <3> QED
        BY <3>1, <3>2
    <2>2. Signed(w, imm) = value
      <3>1. Congruent(Pow2[w], value, imm)
        BY <1>6, <1>10, <1>11, CongruentBack
      <3> QED
        BY <1>6, <1>10, <1>11, <2>1, <3>1, SignedUnique
    <2>3. value = Signed(n, y)
      BY <1>9, <1>10, <1>13, <1>15, <2>1, SignedUnique
    <2>4. DataRead' = Signed(w, imm)
      BY <1>1, <1>4, <1>5, <1>18 DEF DataRead
    <2> QED
      BY <1>1, <1>16, <1>18, <2>1, <2>2, <2>3, <2>4 DEF DataAddresses
  <1> QED
    BY <1>17, <1>18

(* A relocation that is done addresses what was wanted.                       *)
LEMMA StepAddresses ==
    ASSUME TypeOK, RelocInv, Addresses, [Next]_vars
    PROVE  Addresses'
  <1> SUFFICES ASSUME step' = "done"
               PROVE  PairAddresses' /\ BranchAddresses' /\ DataAddresses'
    BY DEF Addresses
  <1>1. CASE UNCHANGED vars
    <2>1. step' = step /\ rel' = rel /\ place' = place /\ via' = via /\ target' = target
      BY <1>1 DEF vars
    <2>2. /\ P' = P /\ AddrBits' = AddrBits /\ BranchBits' = BranchBits /\ Wanted' = Wanted
          /\ (Branch' <=> Branch) /\ Bias' = Bias /\ Sum' = Sum
      BY <2>1, SameReloc DEF Bias, Sum
    <2>3. /\ PageReached' = PageReached /\ PairReached' = PairReached
          /\ BranchReached' = BranchReached /\ DataRead' = DataRead
      BY <2>1, <2>2 DEF PageReached, PairReached, BranchReached, DataRead
    <2> QED
      BY <2>1, <2>2, <2>3 DEF Addresses, PairAddresses, BranchAddresses, DataAddresses
  <1>2. CASE Encode
    <2>1. rel' = rel /\ ~(rel.type \in Low /\ part = 1)
      BY <1>2 DEF Encode
    <2>2. rel.type \in Low => part = 2
      BY <2>1 DEF TypeOK
    <2>3. PairAddresses'
      BY <1>2, <2>1, <2>2, EncodedPair DEF PairAddresses
    <2>4. BranchAddresses'
      BY <1>2, <2>1, SameReloc, EncodedBranch DEF BranchAddresses
    <2>5. DataAddresses'
      BY <1>2, <2>1, EncodedData DEF DataAddresses
    <2> QED
      BY <2>3, <2>4, <2>5
  <1> QED
    BY <1>1, <1>2 DEF Next, Decode, DecodeAborts, ComputeData, ComputePage, ComputeLow, ComputeBranch,
                      ComputeStub, ComputeAborts, EncodeAborts, Compute, Abort

------------------------------------------------------------------------------
(* What is out of reach.                                                      *)

(* A displacement that reaches an address is the only one of its width.       *)
LEMMA OnlyDisplacement ==
    ASSUME RelType, Branch, NEW to \in Int, BranchReaches(to % Pow2[AddrBits]),
           NEW d \in Int, IsInt(AddrBits, d), Congruent(Pow2[AddrBits], d, to - (P + Bias))
    PROVE  IsInt(BranchBits, d)
  <1>1. PICK m, t, b : m = Pow2[AddrBits] /\ t = to % m /\ b = P + Bias
    OBVIOUS
  <1>2. /\ m \in Nat \ {0} /\ b \in Int /\ AddrBits \in Nat \ {0} /\ BranchBits \in Nat \ {0}
        /\ BranchBits <= AddrBits
    <2>1. m \in Nat \ {0} /\ P \in Int
      BY <1>1, RelAddresses
    <2>2. b \in Int
      BY <1>1, <2>1 DEF Bias
    <2>3. AddrBits \in Nat \ {0} /\ BranchBits \in Nat \ {0} /\ BranchBits <= AddrBits
      BY RelWidths
    <2> QED
      BY <2>1, <2>2, <2>3
  <1>3. t \in Int /\ Congruent(m, t, to)
    <2>1. to % m \in 0..(m - 1) /\ Congruent(m, to % m, to)
      BY <1>2, RemainderCongruent
    <2> QED
      BY <1>1, <1>2, <2>1
  <1>4. PICK imm \in 0..(Pow2[BranchBits - 2] - 1) :
            (P + Bias + Signed(BranchBits, imm * 4)) % Pow2[AddrBits] = to % Pow2[AddrBits]
    BY DEF BranchReaches
  <1>5. PICK v : v = Signed(BranchBits, imm * 4)
    OBVIOUS
  <1>6. v \in Int /\ IsInt(BranchBits, v)
    <2>1. imm * 4 \in Int
      OBVIOUS
    <2> QED
      BY <1>2, <1>5, <2>1, SignedType
  <1>7. Congruent(m, v, to - b)
    <2>1. (b + v) % m = t /\ b + v \in Int
      BY <1>1, <1>2, <1>4, <1>5, <1>6
    <2>2. Congruent(m, t, b + v)
      <3>1. Congruent(m, (b + v) % m, b + v)
        BY <1>2, <2>1, RemainderCongruent
      <3> QED
        BY <2>1, <3>1
    <2>3. Congruent(m, b + v, to)
      BY <1>2, <1>3, <2>1, <2>2, CongruentBack, CongruentOver
    <2>4. PICK k \in Int : b + v = to + k * m
      BY <2>3 DEF Congruent
    <2>5. v = (to - b) + k * m
      BY <1>2, <1>6, <2>4
    <2> QED
      BY <2>5 DEF Congruent
  <1>8. Signed(AddrBits, to - b) = v
    BY <1>1, <1>2, <1>6, <1>7, SignedUnique, IsIntWider
  <1>9. Signed(AddrBits, to - b) = d
    BY <1>1, <1>2, SignedUnique
  <1> QED
    BY <1>6, <1>8, <1>9

LEMMA TargetOutOfReach ==
    ASSUME RelType, addend \in Int, AddendRead, Branch, ~IsInt(BranchBits, Displacement(SA))
    PROVE  ~BranchReaches(Wanted)
  <1>1. Wanted \in Int /\ Wanted % Pow2[AddrBits] = Wanted /\ SA - P \in Int
    <2>1. /\ Wanted \in 0..(Pow2[AddrBits] - 1) /\ Pow2[AddrBits] \in Nat \ {0}
          /\ SA \in 0..(Pow2[AddrBits] - 1) /\ P \in Int
      BY Sums, RelAddresses
    <2> QED
      BY <2>1
  <1>2. /\ Displacement(SA) \in Int /\ IsInt(AddrBits, Displacement(SA))
        /\ Congruent(Pow2[AddrBits], Displacement(SA), Wanted - (P + Bias))
    BY <1>1, BranchSentTo, ValueTypes DEF Displacement
  <1> QED
    BY <1>1, <1>2, OnlyDisplacement

LEMMA StubOutOfReach ==
    ASSUME RelType, addend \in Int, Branch, ~IsInt(BranchBits, StubDisplacement)
    PROVE  ~BranchReaches(Entry % Pow2[AddrBits])
  <1>1. PICK y : y = Entry - (P + Bias)
    OBVIOUS
  <1>2. Entry \in Int /\ P \in Int /\ Bias \in Int
    BY RelAddresses DEF Entry, Bias
  <1>3. y \in Int /\ y = (IF rel.type = "call" THEN Entry - 8 ELSE Entry) - P
    BY <1>1, <1>2 DEF Bias
  <1>4. StubDisplacement = Signed(AddrBits, y)
    BY <1>3 DEF StubDisplacement, Displacement
  <1>5. /\ StubDisplacement \in Int /\ IsInt(AddrBits, StubDisplacement)
        /\ Congruent(Pow2[AddrBits], StubDisplacement, y)
    BY <1>3, <1>4, ValueTypes
  <1> QED
    BY <1>1, <1>2, <1>5, OnlyDisplacement

(* A branch takes a stub only if no field it has reaches its target, for      *)
(* addresses, branches and addends of every size.                             *)
THEOREM StubsOnlyOutOfReach == Spec => []StubOnlyOutOfReach
  <1>1. TypeOK /\ RelocInv => StubOnlyOutOfReach
    <2> SUFFICES ASSUME TypeOK, RelocInv, via # Direct PROVE ~BranchReaches(Wanted)
      BY DEF StubOnlyOutOfReach
    <2>1. /\ RelType /\ addend \in Int /\ AddendRead /\ Branch
          /\ ~IsInt(BranchBits, Displacement(SA))
      BY DEF RelocInv, TypeOK
    <2> QED
      BY <2>1, TargetOutOfReach
  <1> QED
    BY <1>1, TypeCorrect, RelocInvariant, PTL

(* A pair forms the address wanted, a branch reaches its target or its stub,  *)
(* and data reads as the sum, whatever the widths, with the exceptions that   *)
(* Addresses names.                                                           *)
THEOREM AlwaysAddresses == Spec => []Addresses
  <1>1. Init => Addresses
    BY DEF Init, Addresses
  <1>2. TypeOK /\ RelocInv /\ Addresses /\ [Next]_vars => Addresses'
    BY StepAddresses
  <1> QED
    BY <1>1, <1>2, TypeCorrect, RelocInvariant, PTL DEF Spec

(* Pages are no further apart than what they hold, by less than a page.       *)
LEMMA PagesClose ==
    ASSUME Wanted \in Int, P \in Int, PageClose
    PROVE  IsInt(W32, Signed(W64, Page(Wanted) - Page(P)))
  <1>1. PICK s, w, p, d, h : /\ s = PageSize /\ w = Wanted /\ p = P /\ d = Signed(W64, w - p)
                             /\ h = Pow2[W32 - 1]
    OBVIOUS
  <1>2. PICK u, v : u = Page(w) /\ v = Page(p)
    OBVIOUS
  <1>3. PICK i, j : i = w % s /\ j = p % s
    OBVIOUS
  <1>4. /\ s \in Nat \ {0} /\ u \in Int /\ v \in Int /\ i \in 0..(s - 1) /\ j \in 0..(s - 1)
        /\ u + i = w /\ v + j = p /\ w \in Int /\ p \in Int
    BY <1>1, <1>2, <1>3, PageParts
  <1>5. W64 \in Nat \ {0} /\ W32 \in Nat \ {0} /\ W32 <= W64 /\ h \in Nat
    BY <1>1, WidthsAre, Pow2Half
  <1>6. d \in Int /\ Congruent(Pow2[W64], d, w - p)
    <2>1. w - p \in Int
      BY <1>4
    <2> QED
      BY <1>1, <1>5, <2>1, SignedType
  <1>7. -h + s <= d /\ d < h - s
    BY <1>1 DEF PageClose
  <1>8. PICK e : e = d + (j - i)
    OBVIOUS
  <1>9. e \in Int /\ -h <= e /\ e < h
    BY <1>4, <1>5, <1>6, <1>7, <1>8
  <1>10. IsInt(W32, e)
    BY <1>1, <1>9 DEF IsInt
  <1>11. Congruent(Pow2[W64], e, u - v)
    <2>1. PICK k \in Int : d = (w - p) + k * Pow2[W64]
      BY <1>6 DEF Congruent
    <2>2. PICK m \in Int : m = k * Pow2[W64]
      BY <1>5, Pow2Type
    <2>3. e = (u - v) + m
      BY <1>4, <1>8, <2>1, <2>2
    <2> QED
      BY <2>2, <2>3 DEF Congruent
  <1>12. Signed(W64, u - v) = e
    <2>1. u - v \in Int
      BY <1>4
    <2> QED
      BY <1>5, <1>9, <1>10, <1>11, <2>1, IsIntWider, SignedUnique
  <1> QED
    BY <1>1, <1>2, <1>10, <1>12

(* Why a step that aborts does.                                               *)
LEMMA AbortCause ==
    ASSUME TypeOK, RelocInv, ComputeAborts \/ EncodeAborts
    PROVE  Cause
  <1>1. /\ step \notin {"decode", "abort"} /\ RelType /\ AddendRead /\ addend \in Int
        /\ rel.type \in Low => part = 1 \/ part = 2
    BY DEF ComputeAborts, EncodeAborts, RelocInv, TypeOK
  <1>2. CASE ComputeAborts
    <2>1. CASE rel.type \in Low \ {"got"} /\ part = 2 /\ ~Aligned
      BY <2>1 DEF Cause
    <2>2. CASE Branch /\ ~IsInt(BranchBits, Displacement(SA)) /\ ~StubAccepted
      <3>1. ~BranchReaches(Wanted)
        BY <1>1, <2>2, TargetOutOfReach
      <3>2. CASE ~IsInt(BranchBits, StubDisplacement)
        BY <1>1, <2>2, <3>1, <3>2, StubOutOfReach DEF Cause
      <3>3. CASE rel.type = "call26" /\ ~(Stub < Pow2[W48])
        <4>1. Stub \in Nat /\ Pow2[W48] \in Nat
          BY <1>1, RelAddresses, WidthsAre, Pow2Type
        <4>2. Stub >= Pow2[W48]
          BY <3>3, <4>1
        <4> QED
          BY <3>1, <3>3, <4>2 DEF Cause
      <3> QED
        BY <2>2, <3>2, <3>3 DEF StubAccepted
    <2> QED
      BY <1>2, <2>1, <2>2 DEF ComputeAborts
  <1>3. CASE EncodeAborts
    <2>1. ~Accepted /\ ValueRight
      BY <1>3 DEF EncodeAborts, RelocInv
    <2>2. ~Branch
      BY <2>1, Kinds DEF Accepted, ValueRight
    <2>3. SA \in Int /\ P \in Int /\ Pow2[AddrBits] \in Nat \ {0}
      <3>1. SA \in 0..(Pow2[AddrBits] - 1) /\ Pow2[AddrBits] \in Nat \ {0} /\ P \in Int
        BY <1>1, Sums, RelAddresses
      <3> QED
        BY <3>1
    <2>4. CASE rel.type \in Data64
      <3>1. PICK w : w = Width(rel.type)
        OBVIOUS
      <3>2. ~IsInt(w, value) /\ w \in Nat \ {0}
        BY <2>1, <2>2, <2>4, <3>1, Kinds, WidthsAre DEF Accepted, Width
      <3>3. value \in Int
        <4>1. value = Signed(AddrBits, SA) \/ value = Signed(AddrBits, SA - P)
          BY <2>1, <2>4 DEF ValueRight
        <4> QED
          BY <1>1, <2>3, <4>1, ValueTypes
      <3>4. Signed(w, value) # value
        BY <3>2, <3>3, SignedType
      <3> QED
        BY <2>4, <3>1, <3>4 DEF Cause
    <2>5. CASE rel.type \in Low /\ part = 1
      <3>1. PICK y : y = Page(SA) - Page(P)
        OBVIOUS
      <3>2. value = Signed(W64, y)
        BY <2>1, <2>5, <3>1 DEF ValueRight
      <3>3. PICK a, b, s : a = Page(SA) /\ b = Page(P) /\ s = PageSize
        OBVIOUS
      <3>4. a \in Int /\ b \in Int /\ s \in Nat \ {0} /\ a % s = 0 /\ b % s = 0 /\ y = a - b
        BY <2>3, <3>1, <3>3, PageParts
      <3>5. y \in Int /\ y % s = 0
        <4>1. PICK i, j : i = a \div s /\ j = b \div s
          OBVIOUS
        <4>2. a = s * i + 0 /\ b = s * j + 0 /\ i \in Int /\ j \in Int
          BY <3>4, <4>1, Division
        <4>3. y = s * (i - j) + 0 /\ i - j \in Int
          BY <3>4, <4>2
        <4>4. 0 \in 0..(s - 1) /\ y \in Int
          BY <3>4
        <4> QED
          BY <3>4, <4>3, <4>4, DivisionUnique
      <3>6. value \in Int /\ Congruent(Pow2[W64], value, y)
        BY <3>2, <3>5, WidthsAre, SignedType
      <3>7. value % s = 0
        <4>1. PICK p : p = PageBits
          OBVIOUS
        <4>2. p \in Nat /\ W64 \in Nat /\ p <= W64 /\ s = Pow2[p]
          BY <3>3, <4>1, Widths DEF PageSize
        <4>3. Congruent(s, value, y)
          BY <3>5, <3>6, <4>2, CongruentNarrow
        <4> QED
          BY <3>4, <3>5, <3>6, <4>3, SameRemainder
      <3>8. ~IsInt(W32, value)
        BY <2>1, <2>2, <2>5, <3>3, <3>7, Kinds DEF Accepted
      <3>9. ~PageClose
        <4>1. SA = Wanted /\ AddrBits = W64 /\ Wanted \in Int
          BY <1>1, <2>3, <2>5, Kinds, RelWidths, SumsOnArm64
        <4> QED
          BY <2>3, <3>1, <3>2, <3>8, <4>1, PagesClose
      <3> QED
        BY <2>5, <3>9 DEF Cause
    <2>6. CASE rel.type \in Low /\ part = 2
      <3>1. value = SA % PageSize
        BY <2>1, <2>6 DEF ValueRight
      <3>2. CASE rel.type = "got" /\ value % 8 # 0
        <4>1. Log2(rel.type) = 3
          BY <3>2 DEF Log2
        <4>2. PICK m : m = 8
          OBVIOUS
        <4>3. Pow2[3] = m /\ value % m # 0
          BY <3>2, <4>2, Pow2Small
        <4>4. SA % Pow2[3] # 0
          BY <2>3, <3>1, <4>3, AlignedInPage
        <4> QED
          BY <2>6, <4>1, <4>4 DEF Cause, Aligned
      <3>3. CASE Log2(rel.type) # Log2(rel.insn)
        BY <2>6, <3>3 DEF Cause
      <3> QED
        BY <2>1, <2>2, <2>6, <3>2, <3>3, Kinds DEF Accepted
    <2> QED
      BY <1>1, <2>1, <2>2, <2>4, <2>5, <2>6 DEF Accepted
  <1> QED
    BY <1>2, <1>3

LEMMA SameCause ==
    ASSUME rel' = rel, part' = part, addend' = addend, value' = value
    PROVE  Cause' <=> Cause
  <1>1. /\ P' = P /\ AddrBits' = AddrBits /\ BranchBits' = BranchBits /\ Wanted' = Wanted
        /\ (Branch' <=> Branch) /\ SA' = SA /\ Entry' = Entry /\ (Aligned' <=> Aligned)
        /\ Bias' = Bias
    BY SameReloc, SameSums DEF Bias
  <1>2. BranchReaches(Wanted)' <=> BranchReaches(Wanted)
    BY <1>1 DEF BranchReaches
  <1>3. BranchReaches(Entry % Pow2[AddrBits])' <=> BranchReaches(Entry % Pow2[AddrBits])
    BY <1>1 DEF BranchReaches
  <1>4. PageClose' <=> PageClose
    BY <1>1 DEF PageClose
  <1>5. (Halfword' <=> Halfword) /\ Stub' = Stub
    BY SameReloc DEF Halfword
  <1> QED
    BY <1>1, <1>2, <1>3, <1>4, <1>5 DEF Cause

(* A relocation is refused only for the causes that Cause lists: a pair that  *)
(* is near its target, aligned data, and a branch with its stub within reach  *)
(* always go through.                                                         *)
THEOREM RefusalsOnlyForCause == Spec => []RefusedOnlyForCause
  <1>1. Init => RefusedOnlyForCause
    BY DEF Init, RefusedOnlyForCause
  <1>2. TypeOK /\ RelocInv /\ RefusedOnlyForCause /\ [Next]_vars => RefusedOnlyForCause'
    <2> SUFFICES ASSUME TypeOK, RelocInv, RefusedOnlyForCause, [Next]_vars, step' = "abort"
                 PROVE  Cause'
      BY DEF RefusedOnlyForCause
    <2>0. CASE DecodeAborts
      BY <2>0 DEF DecodeAborts, DecodeRefuses, Abort, Cause, Halfword
    <2>1. CASE ComputeAborts \/ EncodeAborts
      <3>1. rel' = rel /\ part' = part /\ addend' = addend /\ value' = value
        BY <2>1 DEF ComputeAborts, EncodeAborts, Abort
      <3> QED
        BY <2>1, <3>1, AbortCause, SameCause
    <2>2. CASE UNCHANGED vars
      <3>1. /\ rel' = rel /\ part' = part /\ addend' = addend /\ value' = value
            /\ step = "abort"
        BY <2>2 DEF vars
      <3> QED
        BY <3>1, SameCause DEF RefusedOnlyForCause
    <2> QED
      BY <2>0, <2>1, <2>2 DEF Next, Decode, ComputeData, ComputePage, ComputeLow, ComputeBranch,
                        ComputeStub, Compute, Encode
  <1> QED
    BY <1>1, <1>2, TypeCorrect, RelocInvariant, PTL DEF Spec
=============================================================================
