------------------------------- MODULE Encode -------------------------------
(* What compute_addend and encodeAddend make of one relocation, or of the     *)
(* pair of relocations that arm64 code needs to form an address, in bits: the *)
(* addend read from the place or given, the value computed, the asserts on    *)
(* its range, and the field it is put in. What the processor then makes of    *)
(* the instruction says whether it was right. Linker has the same steps with  *)
(* symbolic addresses.                                                        *)
(*                                                                            *)
(* Integers are as wide as the constants say; the widths of the code stand    *)
(* beside them.                                                               *)
EXTENDS Integers, Sequences

CONSTANTS
    W64,        \* 64: bits of an address on arm64
    W48,        \* 48: bits of it that the address of a stub may use
    W32,        \* 32: bits of an address on arm, and of is_int64(32, .)
    W16,        \* 16
    Branch64,   \* 28: bits of a displacement b and bl can hold on arm64
    Branch32,   \* 26: the same on arm
    PageBits,   \* 12
    Place,      \* addresses relocated
    Symbol,     \* addresses of symbols and GOT slots
    Addend,     \* addends of the object file
    StubAway    \* how far behind the place its stub may lie

Pow2[n \in Nat] == IF n = 0 THEN 1 ELSE 2 * Pow2[n - 1]

ASSUME Widths ==
    /\ {W64, W48, W32, W16, PageBits} \subseteq Nat \ {0, 1}
    /\ {Branch64, Branch32} \subseteq Nat \ {0, 1, 2}
    /\ W16 < W32 /\ PageBits + 1 < W32 /\ W32 < W64 /\ W48 < W64 /\ Branch64 < W64 /\ Branch32 < W32
    /\ Place \cup Symbol \subseteq 1..(Pow2[W64] - 1) /\ \A p \in Place : p % 4 = 0
    /\ Addend \subseteq Int
    /\ StubAway \subseteq Nat /\ \A d \in StubAway : d % 4 = 0

------------------------------------------------------------------------------
(* Integers of a width: casts, sign_extend32, is_int32 and is_int64.          *)

(* Mutant: sign extension one bit too narrow.                                 *)
SignedNarrow(w, x) ==
    LET m == x % Pow2[w] IN IF m >= Pow2[w - 2] THEN m - Pow2[w] ELSE m

Signed(w, x) == LET m == x % Pow2[w] IN IF m >= Pow2[w - 1] THEN m - Pow2[w] ELSE m

(* Mutant: one bit too few.                                                   *)
IsIntNarrow(w, x)    == -(Pow2[w - 2]) <= x /\ x < Pow2[w - 2]

IsInt(w, x) == -(Pow2[w - 1]) <= x /\ x < Pow2[w - 1]

PageSize == Pow2[PageBits]
Page(x)  == x - (x % PageSize)

------------------------------------------------------------------------------
(* The relocations. A pair is named after its second instruction: adrp and    *)
(* add, adrp and a load or store, and the two that load a GOT slot.           *)

Data64 == {"abs64", "prel64", "abs32", "prel32", "abs16", "prel16"}
Low    == {"add", "ldst8", "ldst16", "ldst32", "ldst64", "ldst128", "got"}
Arm64  == Data64 \cup Low \cup {"call26"}
Data32 == {"a32", "rel32", "prel31", "got_prel"}
Arm    == Data32 \cup {"call"}

Absolute == {"abs64", "abs32", "abs16", "a32"}

(* log2 of the bytes an instruction, or a relocation, loads and stores.       *)
Log2(t) == CASE t = "ldst16" -> 1 [] t = "ldst32" -> 2 [] t \in {"ldst64", "got"} -> 3
             [] t = "ldst128" -> 4 [] OTHER -> 0

Width(t) == CASE t \in {"abs32", "prel32"} -> W32 [] t \in {"abs16", "prel16"} -> W16
              [] t \in Arm -> W32 [] OTHER -> W64

VARIABLES
    rel,     \* [type, P, S, A, implicit, insn, stub]: the relocation; never changes
    step,    \* the function running: "decode", "compute", "encode"; "done", "abort"
    part,    \* 1, or 2 for the second place of a pair
    addend,  \* compute_addend's addend
    value,   \* what compute_addend returned
    place,   \* the fields of the instructions or of the word relocated
    via,     \* the stub a branch was sent to, or Direct
    target   \* what find_stub and make_stub were given to lead it to, or Direct

vars == <<rel, step, part, addend, value, place, via, target>>

Direct == -1

AddrBits == IF rel.type \in Arm THEN W32 ELSE W64
BranchBits == IF rel.type = "call" THEN Branch32 ELSE Branch64
Branch == rel.type \in {"call26", "call"}

(* What the assembler leaves in the place: an implicit addend of arm, with    *)
(* the bias of the program counter taken off for a branch, and prel31 in 31   *)
(* bits. A place with an explicit addend holds anything.                      *)
InPlace(t, a, implicit) ==
    CASE t = "call" /\ implicit -> [lo |-> 0, hi |-> 0, imm |-> ((a - 8) \div 4) % Pow2[Branch32 - 2]]
      [] t = "prel31" /\ implicit -> [lo |-> 0, hi |-> 0, imm |-> a % Pow2[W32 - 1]]
      [] t \in Data32 \ {"prel31"} /\ implicit -> [lo |-> 0, hi |-> 0, imm |-> a % Pow2[W32]]
      [] OTHER -> [lo |-> 1, hi |-> 1, imm |-> 1]

(* The instructions a relocation may be for: that of the second place of a    *)
(* pair, and bl, or blx to Thumb code, which need only lie at an even address.*)
Insns(t) == IF t \in Low THEN {t, "add"} ELSE IF t = "call" THEN {"bl", "blx"} ELSE {"add"}

Init ==
    /\ \E t \in Arm64 \cup Arm, p \in Place, s \in Symbol, a \in Addend, b \in BOOLEAN :
           \E i \in Insns(t), d \in IF t \in {"call26", "call"} THEN StubAway ELSE {0} :
                 rel = [type |-> t, P |-> p, S |-> s, A |-> a, implicit |-> b,
                        insn |-> i, stub |-> d]
    /\ rel.type \in Arm => rel.P < Pow2[W32] /\ rel.S < Pow2[W32]
    /\ rel.type = "call" => /\ rel.A % (IF rel.insn = "blx" THEN 2 ELSE 4) = 0
                            /\ IsInt(Branch32, rel.A - 8)
    /\ step = "decode" /\ part = 1 /\ addend = 0 /\ value = 0
    /\ place = InPlace(rel.type, rel.A, rel.implicit)
    /\ via = Direct /\ target = Direct

P == rel.P
S == rel.S

(* The H bit of blx, the half word of the displacement.                       *)
Halfword == rel.insn = "blx" /\ rel.A % 4 # 0

(* decodeAddend_arm64 aborts, and decodeAddend_arm where H is set.            *)
DecodeRefuses == rel.implicit /\ (rel.type \in Arm64 \/ Halfword)

(* decodeAddend_arm, or r_addend, which has the bias of a branch taken off.   *)
Decode ==
    /\ step = "decode" /\ ~DecodeRefuses /\ step' = "compute"
    /\ addend' = CASE rel.type = "call" /\ rel.implicit -> Signed(Branch32, place.imm * 4)
                   [] rel.type = "call" /\ ~rel.implicit -> rel.A - 8
                   [] rel.type \in Data32 /\ rel.implicit -> Signed(W32, place.imm)
                   [] OTHER -> rel.A
    /\ UNCHANGED <<rel, part, value, place, via, target>>

Abort == step' = "abort" /\ UNCHANGED <<rel, part, addend, value, place, via, target>>

DecodeAborts == step = "decode" /\ DecodeRefuses /\ Abort

------------------------------------------------------------------------------
(* compute_addend.                                                            *)

SA == (S + addend) % Pow2[AddrBits]

Compute(v) ==
    /\ step = "compute" /\ step' = "encode" /\ value' = v
    /\ UNCHANGED <<rel, part, addend, place>>

ComputeData ==
    /\ rel.type \in Data64 \cup Data32
    /\ Compute(Signed(AddrBits, IF rel.type \in Absolute THEN SA ELSE SA - P))
    /\ UNCHANGED <<via, target>>

(* Page(S+A) - Page(P), or Page(GOT(S)+A) - Page(P).                          *)
ComputePage ==
    /\ rel.type \in Low /\ part = 1
    /\ Compute(Signed(W64, Page(SA) - Page(P)))
    /\ UNCHANGED <<via, target>>

Aligned == SA % Pow2[Log2(rel.type)] = 0

ComputeLow ==
    /\ rel.type \in Low /\ part = 2 /\ (Aligned \/ rel.type = "got")
    /\ Compute(SA % PageSize)
    /\ UNCHANGED <<via, target>>

Displacement(to) == Signed(AddrBits, to - P)

ComputeBranch ==
    /\ Branch /\ IsInt(BranchBits, Displacement(SA))
    /\ Compute(Displacement(SA))
    /\ UNCHANGED <<via, target>>

(* Out of reach: to the stub, plus what is left of the addend.                *)
Stub == P + rel.stub
Entry == IF rel.type = "call" THEN Stub ELSE Stub + addend
StubDisplacement == Displacement(IF rel.type = "call" THEN Entry - 8 ELSE Entry)

(* Mutant: the bias is not put back.                                          *)
StubTargetBiased == IF rel.type = "call" THEN SA ELSE S

(* What the stub is to lead to: S + A, where arm has put the bias back, or S. *)
StubTarget == IF rel.type = "call" THEN (SA + 8) % Pow2[W32] ELSE S

(* The asserts on the stub: it lies where addresses do, and within reach.     *)
StubAccepted ==
    /\ rel.type = "call26" => Stub < Pow2[W48]
    /\ IsInt(BranchBits, StubDisplacement)

ComputeStub ==
    /\ Branch /\ ~IsInt(BranchBits, Displacement(SA)) /\ StubAccepted
    /\ Compute(StubDisplacement)
    /\ via' = Stub /\ target' = StubTarget

ComputeAborts ==
    /\ step = "compute"
    /\ \/ rel.type \in Low \ {"got"} /\ part = 2 /\ ~Aligned
       \/ Branch /\ ~IsInt(BranchBits, Displacement(SA)) /\ ~StubAccepted
    /\ Abort

------------------------------------------------------------------------------
(* encodeAddend.                                                              *)

(* The asserts of encodeAddend_arm64 and encodeAddend_arm.                    *)
Accepted ==
    /\ rel.type \in Data64 => Width(rel.type) = W64 \/ IsInt(Width(rel.type), value)
    /\ Branch => IsInt(BranchBits, value)
    /\ rel.type \in Low /\ part = 1 => IsInt(W32, value) /\ value % PageSize = 0
    /\ rel.type \in Low /\ part = 2 =>
          /\ rel.type = "got" => value % 8 = 0
          /\ value = 0 \/ Log2(rel.type) = Log2(rel.insn)

(* The fields of adrp: two bits lo, and hi for the rest, W32 - 1 - PageBits   *)
(* of them (19).                                                              *)
HiBits == W32 - 1 - PageBits

(* Mutant: lo is taken from above the page bits of hi.                        *)
FieldsSwapped ==
    [place EXCEPT !.hi = (value \div PageSize) % Pow2[HiBits],
                  !.lo = ((value \div PageSize) \div Pow2[HiBits]) % 4]

PageFields ==
    [place EXCEPT !.lo = (value \div PageSize) % 4,
                  !.hi = (value \div (4 * PageSize)) % Pow2[HiBits]]

ImmField ==
    CASE rel.type \in Low -> value \div Pow2[Log2(rel.insn)]
      [] Branch           -> (value \div 4) % Pow2[BranchBits - 2]
      [] OTHER            -> value % Pow2[Width(rel.type)]

Encode ==
    /\ step = "encode" /\ Accepted
    /\ place' = IF rel.type \in Low /\ part = 1 THEN PageFields
                ELSE [place EXCEPT !.imm = ImmField]
    /\ IF rel.type \in Low /\ part = 1
       THEN part' = 2 /\ step' = "decode" ELSE step' = "done" /\ UNCHANGED part
    /\ UNCHANGED <<rel, addend, value, via, target>>

EncodeAborts == step = "encode" /\ ~Accepted /\ Abort

Next ==
    \/ Decode \/ DecodeAborts
    \/ ComputeData \/ ComputePage \/ ComputeLow \/ ComputeBranch \/ ComputeStub \/ ComputeAborts
    \/ Encode \/ EncodeAborts

Spec == Init /\ [][Next]_vars

------------------------------------------------------------------------------
(* What the processor makes of the fields.                                    *)

PageReached == Page(P) + Signed(HiBits + 2, place.hi * 4 + place.lo) * PageSize

PairReached == (PageReached + place.imm * Pow2[Log2(rel.type)]) % Pow2[W64]

(* The program counter is two instructions ahead on arm.                      *)
Bias == IF rel.type = "call" THEN 8 ELSE 0
BranchReached == (P + Bias + Signed(BranchBits, place.imm * 4)) % Pow2[AddrBits]

DataRead == Signed(IF rel.type = "prel31" THEN W32 - 1 ELSE Width(rel.type), place.imm)

------------------------------------------------------------------------------
(* How many bits the immediate of the instruction, or the word, has.          *)
FieldBits == IF rel.type \in Low THEN PageBits
             ELSE IF Branch THEN BranchBits - 2 ELSE Width(rel.type)

(* Every variable keeps its type; the fields hold no more than their bits.    *)
TypeOK ==
    /\ step \in {"decode", "compute", "encode", "done", "abort"} /\ part \in {1, 2}
    /\ addend \in Int /\ IsInt(W64, value)
    /\ place \in [lo : 0..3, hi : 0..(Pow2[HiBits] - 1), imm : 0..(Pow2[FieldBits] - 1)]
    /\ {via, target} \subseteq Nat \cup {Direct}

Wanted == (S + rel.A) % Pow2[AddrBits]

Sum == Signed(AddrBits, IF rel.type \in Absolute THEN Wanted ELSE Wanted - P)

(* A relocation that is done makes the code address what it asked for: a pair *)
(* S+A, though the page is rounded in one place and the rest is scaled in     *)
(* another; a branch S+A, or the start of a stub that was made for S+A; data  *)
(* the sum. Three exceptions: branches hold multiples of 4 only; an arm64     *)
(* branch with an addend misses its target through a stub; and a prel31 sum   *)
(* that does not fit its 31 bits is read as another: its check is a TODO.     *)
PairAddresses   == rel.type \in Low => PairReached = Wanted
BranchAddresses ==
    Branch => \/ Wanted % 4 # 0
              \/ via = Direct /\ BranchReached = Wanted
              \/ via # Direct /\ rel.type = "call26" /\ rel.A # 0
              \/ /\ via # Direct /\ BranchReached = via % Pow2[AddrBits]
                 /\ target = Wanted
DataAddresses   ==
    rel.type \in Data64 \cup Data32 =>
        DataRead = Sum \/ (rel.type = "prel31" /\ ~IsInt(W32 - 1, Sum))

Addresses == step = "done" => PairAddresses /\ BranchAddresses /\ DataAddresses

(* What a field could be made to reach.                                       *)
BranchReaches(to) ==
    \E imm \in 0..(Pow2[BranchBits - 2] - 1) :
        (P + Bias + Signed(BranchBits, imm * 4)) % Pow2[AddrBits] = to

(* A branch takes a stub only if no displacement reaches its target.          *)
StubOnlyOutOfReach ==
    via # Direct => ~BranchReaches(Wanted)

(* A page pair reaches at least what lies closer than half the range of int32,*)
(* by a page.                                                                 *)
PageClose ==
    LET d == Signed(W64, Wanted - P) IN
    -(Pow2[W32 - 1]) + PageSize <= d /\ d < Pow2[W32 - 1] - PageSize

Cause ==
    \/ rel.implicit /\ (rel.type \in Arm64 \/ Halfword)
    \/ rel.type \in Low /\ (~Aligned \/ Log2(rel.type) # Log2(rel.insn))
    \/ rel.type \in Low /\ part = 1 /\ ~PageClose
    \/ Branch /\ ~BranchReaches(Wanted) /\ ~BranchReaches(Entry % Pow2[AddrBits])
    \/ rel.type = "call26" /\ ~BranchReaches(Wanted) /\ Stub >= Pow2[W48]
    \/ rel.type \in Data64 /\ Signed(Width(rel.type), value) # value

(* A relocation is refused only for cause: an implicit addend of arm64, or of *)
(* a blx to an odd half word; an object that is not aligned, an instruction   *)
(* the relocation is not for; a page 2 GiB away; a branch of which neither    *)
(* target nor stub is in reach, or whose stub has an address of more than 48  *)
(* bits; a sum that does not fit. So a pair near its target, aligned data and *)
(* every branch with its stub behind its section always go through.           *)
RefusedOnlyForCause == step = "abort" => Cause

------------------------------------------------------------------------------
(* What a comment of the code says, and the code does not do.                 *)

(* "check that -2^32 <= X < 2^32" (reloc/arm64.c, of ADR_GOT_PAGE): a GOT     *)
(* page in this range is not refused.                                         *)
GotPageInRange ==
    step = "abort" /\ rel.type = "got" /\ part = 1 /\ ~rel.implicit =>
        ~(-(Pow2[W32]) <= value /\ value < Pow2[W32])
=============================================================================
