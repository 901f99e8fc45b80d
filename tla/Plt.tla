-------------------------------- MODULE Plt --------------------------------
(* Stubs as they lie in memory. load_sections maps a section together with    *)
(* room for its stubs, relocation writes the words of its code, make_stub     *)
(* the instructions of the stubs behind it, and mprotect_loaded_sections      *)
(* seals the pages, or fails, after which the object can be resolved again.   *)
(* Linker has the same calls with symbolic addresses; here an address is a    *)
(* byte number and memory is made of words, so that a stub can overlap        *)
(* another or leave its pages, a relocation can write over a stub, and a      *)
(* branch arrives where the words in memory lead.                             *)
(*                                                                            *)
(* An object is reduced to one section of code. The branches that have to go  *)
(* through a stub are those the layout puts out of reach: any of them. What   *)
(* the asserts on the reach refuse, and the resolving of a section that is    *)
(* sealed already, is in Linker.                                              *)
EXTENDS Integers, Sequences

CONSTANTS
    Section,    \* sections of code
    Size,       \* Size[s]: its bytes
    Branches,   \* Branches[s]: [place, target] of its branch relocations, in order
    Others,     \* Others[s]: offsets of the words its other relocations write
    Implicit,   \* sections with REL relocations: the addend is in the word (arm)
    Stray,      \* addresses a word can add up to that was written since it was loaded
    PageSize,   \* bytes of a page
    Pages,      \* bound: pages of the address space
    MaxFailures \* bound: failing mprotects of a section

(* An address as four halfwords, the lowest first.                            *)
Halfword == 0..65535
Address  == [1..4 -> Halfword]

Op == {"zero", "mov", "keep", "jump", "branch", "mixed"}

ASSUME Layout ==
    /\ Section \cap Op = {}
    /\ Size \in [Section -> Nat \ {0}] /\ \A s \in Section : Size[s] % 4 = 0
    /\ Branches \in [Section -> Seq([place : Nat, target : Address])]
    /\ \A s \in Section : \A j, k \in DOMAIN Branches[s] :
           /\ Branches[s][k].place % 4 = 0 /\ Branches[s][k].place < Size[s]
           /\ Branches[s][j].place = Branches[s][k].place => j = k
    /\ Others \in [Section -> SUBSET Nat]
    /\ \A s \in Section : \A d \in Others[s] :
           /\ d % 4 = 0 /\ d < Size[s]
           /\ \A k \in DOMAIN Branches[s] : Branches[s][k].place # d
    /\ Implicit \subseteq Section /\ Stray \subseteq Address
    /\ \A t \in Stray : t[3] = 0 /\ t[4] = 0
    /\ MaxFailures \in Nat
    /\ PageSize \in Nat \ {0} /\ PageSize % 8 = 0 /\ Pages \in Nat

VARIABLES
    arch,     \* the build: "arm" or "arm64" (never changes)
    base,     \* where a section is mapped, Unmapped before
    prot,     \* protection of its pages
    mem,      \* the words in memory, by address
    stubs,    \* Section.info->stubs: [target, addr]
    pos,      \* the branch relocation of a section that is next
    failures, \* how often its mprotect has failed
    status    \* "run", or "fault"

vars == <<arch, base, prot, mem, stubs, pos, failures, status>>

Unmapped == -1
Cell     == {4 * c : c \in 0..((PageSize * Pages) \div 4 - 1)}

StubSize == IF arch = "arm" THEN 12 ELSE 20

(* addr_t has 32 bits on arm.                                                 *)
Target(s, k) ==
    LET t == Branches[s][k].target IN
    IF arch = "arm" THEN [t EXCEPT ![3] = 0, ![4] = 0] ELSE t

(* Mutant: the stubs are not counted.                                         *)
MappedBare(s) == ((Size[s] + PageSize - 1) \div PageSize) * PageSize

StubSpace(s) == StubSize * Len(Branches[s])

(* mmap gives whole pages.                                                    *)
Mapped(s) == ((Size[s] + StubSpace(s) + PageSize - 1) \div PageSize) * PageSize

Covers(s, c) == base[s] # Unmapped /\ base[s] <= c /\ c < base[s] + Mapped(s)

(* A word in memory: a section's code as it was loaded; an instruction of a   *)
(* stub with the halfword it writes and its immediate, in the 21 bits it is   *)
(* given; a branch of the code, to a stub or to the symbol itself; or, where  *)
(* the offset of a branch was written into another instruction, a mixture.    *)
ImmField == {n \in Nat : n < 2097152}
StubWord == [op : {"zero", "mov", "keep", "jump", "mixed"}, hw : 0..4, imm : ImmField]
Direct   == -1
Word     == StubWord \cup [op : Section, hw : {0}, imm : Nat]
                     \cup [op : {"branch"}, hw : {0}, imm : Nat \cup {Direct}]

Zero        == [op |-> "zero", hw |-> 0, imm |-> 0]
Mixed       == [op |-> "mixed", hw |-> 0, imm |-> 0]
Code(s, d)  == [op |-> s, hw |-> 0, imm |-> d]
Branch(a)   == [op |-> "branch", hw |-> 0, imm |-> a]

Init ==
    /\ arch \in {"arm", "arm64"}
    /\ base = [s \in Section |-> Unmapped]
    /\ prot = [s \in Section |-> "none"]
    /\ mem = [c \in Cell |-> Zero]
    /\ stubs = [s \in Section |-> << >>]
    /\ pos = [s \in Section |-> 1]
    /\ failures = [s \in Section |-> 0]
    /\ status = "run"

(* load_sections: the kernel picks any free pages, also next to others.       *)
LoadSection(s, b) ==
    /\ status = "run" /\ base[s] = Unmapped
    /\ b % PageSize = 0 /\ b + Mapped(s) <= PageSize * Pages
    /\ \A t \in Section : base[t] # Unmapped =>
           b + Mapped(s) <= base[t] \/ base[t] + Mapped(t) <= b
    /\ base' = [base EXCEPT ![s] = b]
    /\ prot' = [prot EXCEPT ![s] = "rw"]
    /\ mem' = [c \in Cell |-> IF b <= c /\ c < b + Size[s] THEN Code(s, c - b) ELSE mem[c]]
    /\ UNCHANGED <<arch, stubs, pos, failures, status>>

------------------------------------------------------------------------------
(* The instructions of a stub, with their immediates as they are encoded:     *)
(* imm4 and imm12 of movw and movt, imm16 of mov and movk.                    *)

(* Mutant: the immediate of mov and movk starts one bit too high.             *)
ImmShifted(h) == IF arch = "arm" THEN (h \div 4096) * 65536 + (h % 4096) ELSE h * 64

Imm(h)    == IF arch = "arm" THEN (h \div 4096) * 65536 + (h % 4096) ELSE h * 32
Mov(k, h) == [op |-> "mov", hw |-> k, imm |-> Imm(h)]    \* movw, mov
Keep(k, h) == [op |-> "keep", hw |-> k, imm |-> Imm(h)]  \* movt, movk
Jump      == [op |-> "jump", hw |-> 0, imm |-> 0]        \* bx r12, br x16

(* Mutant: the upper half is written first, and movw clears it again.         *)
StubCodeTopFirst(t) ==
    IF arch = "arm" THEN <<Keep(2, t[2]), Mov(1, t[1]), Jump>>
    ELSE <<Keep(4, t[4]), Keep(3, t[3]), Keep(2, t[2]), Mov(1, t[1]), Jump>>

(* make_stub_arm and make_stub_arm64.                                         *)
StubCode(t) ==
    IF arch = "arm" THEN <<Mov(1, t[1]), Keep(2, t[2]), Jump>>
    ELSE <<Mov(4, t[4]), Keep(3, t[3]), Keep(2, t[2]), Keep(1, t[1]), Jump>>

(* What a processor does with them: mov clears the rest of the register.      *)
Value(w) == IF arch = "arm" THEN (w.imm \div 65536) * 4096 + (w.imm % 4096) ELSE w.imm \div 32
Exec(w, r) ==
    [k \in 1..4 |-> IF k = w.hw THEN Value(w) ELSE IF w.op = "keep" THEN r[k] ELSE 0]

Moves(w)   == w.op \in {"mov", "keep"}
Nowhere    == << >>
AnyContent == [k \in 1..4 |-> 4096]

(* Where code that jumps to a arrives.                                        *)
Arrives(a) ==
    IF arch = "arm"
    THEN IF Moves(mem[a]) /\ Moves(mem[a + 4]) /\ mem[a + 8] = Jump
         THEN Exec(mem[a + 4], Exec(mem[a], AnyContent)) ELSE Nowhere
    ELSE IF (\A k \in 0..3 : Moves(mem[a + 4 * k])) /\ mem[a + 16] = Jump
         THEN Exec(mem[a + 12], Exec(mem[a + 8], Exec(mem[a + 4], Exec(mem[a], AnyContent))))
         ELSE Nowhere

------------------------------------------------------------------------------
Place(s, k) == base[s] + Branches[s][k].place

Relocating(s) == status = "run" /\ prot[s] = "rw" /\ pos[s] \in DOMAIN Branches[s]

(* S + A: where the next branch has to go. With an implicit addend this is    *)
(* read from the word, where the branch itself stands after a first pass, and *)
(* foreign instructions once a stub was written over it.                      *)
Wanted(s) ==
    IF arch = "arm" /\ s \in Implicit
       /\ mem[Place(s, pos[s])] # Code(s, Branches[s][pos[s]].place)
    THEN Stray
    ELSE {Target(s, pos[s])}

(* encodeAddend keeps the upper bits of the word: the opcode, of whatever is  *)
(* there.                                                                     *)
Written(s, w, a) == IF w.op \in {s, "branch"} THEN Branch(a) ELSE Mixed

Relocated(s, a) == [mem EXCEPT ![Place(s, pos[s])] = Written(s, @, a)]

Advance(s) == pos' = [pos EXCEPT ![s] = @ + 1]

(* The target is in reach.                                                    *)
BranchDirect(s) ==
    /\ Relocating(s) /\ Wanted(s) # {}
    /\ mem' = Relocated(s, Direct)
    /\ Advance(s)
    /\ UNCHANGED <<arch, base, prot, stubs, failures, status>>

(* Mutant: any stub will do.                                                  *)
FindAnyStub(s, t) == DOMAIN stubs[s]

FindStub(s, t) == {k \in DOMAIN stubs[s] : stubs[s][k].target = t}

ReuseStub(s) ==
    /\ Relocating(s)
    /\ \E t \in Wanted(s) : \E k \in FindStub(s, t) : mem' = Relocated(s, stubs[s][k].addr)
    /\ Advance(s)
    /\ UNCHANGED <<arch, base, prot, stubs, failures, status>>

(* Mutants: stubs as far apart as arm's on every build; stubs that start at   *)
(* the section.                                                               *)
NewStubClose(s) == base[s] + Size[s] + 8 + 12 * Len(stubs[s])
NewStubEarly(s) == base[s] + 8 + StubSize * Len(stubs[s])

(* stub_offset + 8 + STUB_SIZE * nstubs                                       *)
NewStub(s) == base[s] + Size[s] + 8 + StubSize * Len(stubs[s])

StubCells(a) == {c \in Cell : a <= c /\ c < a + StubSize}
Writable(c)  == \E t \in Section : Covers(t, c) /\ prot[t] = "rw"

(* The words are written one after the other, into whatever is there.         *)
StubFits(a) == a + StubSize <= PageSize * Pages /\ \A c \in StubCells(a) : Writable(c)

(* The stub is written first, then the branch to it.                          *)
MakeStub(s) ==
    LET a == NewStub(s) IN
    /\ Relocating(s) /\ StubFits(a)
    /\ \E t \in Wanted(s) :
           /\ FindStub(s, t) = {}
           /\ mem' = [c \in Cell |->
                        IF c \in StubCells(a) THEN StubCode(t)[(c - a) \div 4 + 1]
                        ELSE Relocated(s, a)[c]]
           /\ stubs' = [stubs EXCEPT ![s] = Append(@, [target |-> t, addr |-> a])]
    /\ Advance(s)
    /\ UNCHANGED <<arch, base, prot, failures, status>>

MakeStubFaults(s) ==
    /\ Relocating(s) /\ ~StubFits(NewStub(s))
    /\ \E t \in Wanted(s) : FindStub(s, t) = {}
    /\ status' = "fault"
    /\ UNCHANGED <<arch, base, prot, mem, stubs, pos, failures>>

(* A relocation that is no branch, before, between or after them: it changes  *)
(* an operand of the section's own instruction, and spoils any other.         *)
RelocateOther(s) ==
    /\ status = "run" /\ prot[s] = "rw"
    /\ \E d \in Others[s] : mem' = [mem EXCEPT ![base[s] + d] = IF @.op = s THEN @ ELSE Mixed]
    /\ UNCHANGED <<arch, base, prot, stubs, pos, failures, status>>

(* mprotect_loaded_sections, when every relocation is done.                   *)
Protecting(s) == status = "run" /\ prot[s] = "rw" /\ pos[s] \notin DOMAIN Branches[s]

Protect(s) ==
    /\ Protecting(s)
    /\ prot' = [prot EXCEPT ![s] = "rx"]
    /\ UNCHANGED <<arch, base, mem, stubs, pos, failures, status>>

(* mprotect returns an error, and so does resolveObject. The stubs stay; the  *)
(* next resolveObject starts over with the first relocation.                  *)
ProtectFails(s) ==
    /\ Protecting(s) /\ failures[s] < MaxFailures
    /\ failures' = [failures EXCEPT ![s] = @ + 1]
    /\ pos' = [pos EXCEPT ![s] = 1]
    /\ UNCHANGED <<arch, base, prot, mem, stubs, status>>

Next ==
    \E s \in Section :
        \/ \E p \in 0..(Pages - 1) : LoadSection(s, p * PageSize)
        \/ BranchDirect(s) \/ ReuseStub(s) \/ MakeStub(s) \/ MakeStubFaults(s)
        \/ RelocateOther(s) \/ Protect(s) \/ ProtectFails(s)

Spec == Init /\ [][Next]_vars

------------------------------------------------------------------------------
(* Every variable keeps its type, and every immediate its field.              *)
TypeOK ==
    /\ arch \in {"arm", "arm64"} /\ status \in {"run", "fault"}
    /\ base \in [Section -> Nat \cup {Unmapped}]
    /\ prot \in [Section -> {"none", "rw", "rx"}]
    /\ mem \in [Cell -> Word]
    /\ stubs \in [Section -> Seq([target : Address, addr : Nat])]
    /\ pos \in [Section -> Nat \ {0}] /\ failures \in [Section -> 0..MaxFailures]

(* The last stub ends 8 bytes behind the room load_sections counted. This is  *)
(* still in the section's pages, unless they are full to the last 8 bytes.    *)
Cramped(s) ==
    LET rest == (Size[s] + StubSpace(s)) % PageSize IN
    Branches[s] # << >> /\ (rest = 0 \/ rest > PageSize - 8)

(* After a failed mprotect, arm reads its own branches as addends, which may  *)
(* ask for more stubs than there are branches.                                *)
Reread(s) == arch = "arm" /\ s \in Implicit /\ failures[s] > 0

(* What a section writes when it is relocated, and whether another does too.  *)
Writes(s, c) ==
    \/ base[s] # Unmapped /\ \E k \in DOMAIN Branches[s] : c = Place(s, k)
    \/ base[s] # Unmapped /\ \E d \in Others[s] : c = base[s] + d
    \/ \E k \in DOMAIN stubs[s] : c \in StubCells(stubs[s][k].addr)

Shared(s, c) == \E t \in Section \ {s} : Writes(t, c)

(* In a section that is sealed every branch is in place and arrives at its    *)
(* own target, at once or through a stub whose words still are its            *)
(* instructions: whatever was loaded, relocated or sealed around it, and      *)
(* however often mprotect failed. The exceptions are sections that read their *)
(* branches again as addends, and those that write a word another one writes  *)
(* too (StubsInv says which can).                                             *)
BranchesArrive ==
    \A s \in Section :
        /\ prot[s] = "rx" /\ ~Reread(s)
        /\ \A c \in Cell : Writes(s, c) => ~Shared(s, c)
        => \A k \in DOMAIN Branches[s] :
               LET w == mem[Place(s, k)] IN
               w.op = "branch" /\ (w.imm = Direct \/ Arrives(w.imm) = Target(s, k))

(* A section's code stays as it was loaded, but for its branches, whatever    *)
(* stubs are written, its own or others': unless a cramped section lies right *)
(* before it, or another one has made more stubs than it has branches.        *)
Before(t, s) == base[t] # Unmapped /\ base[t] + Mapped(t) = base[s]
Overfull(s)  == Len(stubs[s]) > Len(Branches[s])

CodeIntact ==
    \A s \in Section :
        /\ base[s] # Unmapped
        /\ ~\E t \in Section \ {s} : Overfull(t) \/ (Cramped(t) /\ Before(t, s))
        => \A c \in Cell : base[s] <= c /\ c < base[s] + Size[s] =>
               \/ mem[c] = Code(s, c - base[s])
               \/ mem[c].op = "branch" /\ \E k \in DOMAIN Branches[s] : c = Place(s, k)

(* Only a cramped section can die of making a stub, its last one and only     *)
(* where the page behind it is not mapped, or sealed already; or one that has *)
(* a stub for every branch and reads them again.                              *)
FaultOnlyCramped ==
    status = "fault" =>
        \E s \in Section :
            /\ prot[s] = "rw"
            /\ \/ /\ Cramped(s) /\ Len(stubs[s]) + 1 = Len(Branches[s])
                  /\ ~\E t \in Section : Before(s, t) /\ prot[t] = "rw"
               \/ Reread(s) /\ Len(stubs[s]) >= Len(Branches[s])

(* The stubs in memory implement the table of entry points, as long as none   *)
(* of their words is shared.                                                  *)
Unshared ==
    \A s \in Section : \A k \in DOMAIN stubs[s] :
        \A c \in StubCells(stubs[s][k].addr) : ~Shared(s, c)

EntriesOf(s) == {<<s, Arrives(stubs[s][k].addr), stubs[s][k].addr>> : k \in DOMAIN stubs[s]}
Entries == UNION {EntriesOf(s) : s \in Section}
Table == INSTANCE StubTable WITH Goal <- Address, EntryPoint <- Cell, entries <- Entries
ImplementsTable == Table!Init /\ [][Unshared' => Table!Next]_Entries

------------------------------------------------------------------------------
(* The inductive invariant behind these.                                      *)

(* A section lies in whole pages of its own, and has stubs only there.        *)
LaidOut(s) ==
    IF base[s] = Unmapped
    THEN prot[s] = "none" /\ stubs[s] = << >> /\ pos[s] = 1 /\ failures[s] = 0
    ELSE /\ prot[s] # "none" /\ base[s] % 8 = 0 /\ base[s] + Mapped(s) <= PageSize * Pages
         /\ pos[s] <= Len(Branches[s]) + 1
         /\ prot[s] = "rx" => pos[s] = Len(Branches[s]) + 1

Apart(s, t) ==
    base[s] # Unmapped /\ base[t] # Unmapped =>
        base[s] + Mapped(s) <= base[t] \/ base[t] + Mapped(t) <= base[s]

(* The stubs of a section lie one behind the other, in pages that are mapped, *)
(* and hold the code for their targets where no other section writes.         *)
StubAt(s, k) == base[s] + Size[s] + 8 + StubSize * (k - 1)

StubReady(s, k) ==
    LET t == stubs[s][k].target
        a == stubs[s][k].addr IN
    /\ a = StubAt(s, k) /\ a + StubSize <= PageSize * Pages
    /\ arch = "arm" => t[3] = 0 /\ t[4] = 0
    /\ \A c \in StubCells(a) :
           /\ \E r \in Section : Covers(r, c)
           /\ Shared(s, c) \/ mem[c] = StubCode(t)[(c - a) \div 4 + 1]

(* No target has two, a branch asks for at most one, and only for its target, *)
(* unless it was read again.                                                  *)
OneStub(s) ==
    /\ \A j, k \in DOMAIN stubs[s] : stubs[s][j].target = stubs[s][k].target => j = k
    /\ failures[s] = 0 => Len(stubs[s]) < pos[s]
    /\ ~(arch = "arm" /\ s \in Implicit) =>
           \A j \in DOMAIN stubs[s] :
               \E k \in DOMAIN Branches[s] : stubs[s][j].target = Target(s, k)

(* The word of a branch is the branch once it was relocated, through a stub   *)
(* for its target, and the code before.                                       *)
BranchReady(s, k) ==
    LET w == mem[Place(s, k)] IN
    /\ w = Code(s, Branches[s][k].place) \/ w.op = "branch"
    /\ k < pos[s] => w.op = "branch"
    /\ failures[s] = 0 /\ k >= pos[s] => w = Code(s, Branches[s][k].place)
    /\ ~Reread(s) /\ k < pos[s] =>
           \/ w.imm = Direct
           \/ \E j \in DOMAIN stubs[s] : stubs[s][j] = [target |-> Target(s, k), addr |-> w.imm]

(* Whatever is loaded, relocated and sealed in between, the stubs of a        *)
(* section stay as they were made and its branches as they were written, and  *)
(* it lies in pages that no other gets; no section has more stubs than        *)
(* branches, unless these were read again.                                    *)
StubsInv ==
    \A s \in Section :
        /\ LaidOut(s)
        /\ \A t \in Section \ {s} : Apart(s, t)
        /\ \A k \in DOMAIN stubs[s] : StubReady(s, k)
        /\ OneStub(s)
        /\ Overfull(s) => Reread(s)
        /\ base[s] # Unmapped =>
               \A k \in DOMAIN Branches[s] : Shared(s, Place(s, k)) \/ BranchReady(s, k)

------------------------------------------------------------------------------
(* "we can allocate enough space adjacent to the section" (plt/arm.c): a stub *)
(* lies in the pages that were mapped for its section.                        *)
StubsInside ==
    \A s \in Section : \A k \in DOMAIN stubs[s] :
        \A c \in StubCells(stubs[s][k].addr) : Covers(s, c)
=============================================================================
