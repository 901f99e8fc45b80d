------------------------------- MODULE Linker -------------------------------
(* One linker session of liblink: the objects a host loads, the global symbol *)
(* table they share, and what resolveObject does to each of them.             *)
(*                                                                            *)
(* loadObject / loadArchive take an ObjectCode through load_sections,         *)
(* get_names and make_got and chain it onto LINKER.objects; resolveObject     *)
(* takes it through fill_got, verify_got, relocate_object_code and            *)
(* mprotect_object_code. The library is single threaded and keeps no locks:   *)
(* the interleaving is the order in which the host makes its calls, and what  *)
(* an early return leaves behind for the next call. Every loop of those       *)
(* functions is a phase with a position, so that each early return, failed    *)
(* assert (abort) and write to memory that is protected, or not the section's *)
(* (fault), is a step of its own. A session is followed up to there: what a   *)
(* stub written over the end of its pages does to its neighbour is Plt's      *)
(* subject. Memory and file handles do not run out.                           *)
(*                                                                            *)
(* Addresses are symbolic: <<kind, where, index, offset>>. Two calls of mmap  *)
(* never overlap, so distinct sections, GOT slots and stubs are distinct      *)
(* addresses. Where they are is the layout the kernel chose: the variable far *)
(* holds the branches that cannot reach their target, and the constants Unfit,*)
(* Remote, High and Cramped what else the layout or the files make impossible.*)
EXTENDS Integers, Sequences, FiniteSets

CONSTANTS
    Null,        \* the null pointer 0x0, and "no object"
    Object,      \* the ObjectCodes a session may create, one per call of mkOc
    Sections,    \* Sections[o]: section headers 1, 2, ..., [type, flags, size]
    Symbols,     \* Symbols[o]: symbol table, [name, bind, type, shndx, value]
    Relocs,      \* Relocs[o]: REL then RELA entries of the object, in order,
                 \*   [sec, sym, type, addend, implicit]
    Archive,     \* archives the host may load
    Members,     \* Members[a]: the ObjectCodes read_archive makes of a
    Name,        \* symbol names
    HostName,    \* names the host registers itself (atexit, __exidx_start)
    SystemName,  \* names dlsym(RTLD_DEFAULT, .) finds
    Hash,        \* Hash[n]: the key of n in the binary tree
    Arch,        \* "arm" or "arm64"
    Unreadable,  \* files that cannot be opened, archives read_archive dies of
    Unfit,       \* relocations whose place or value an assert refuses
    Remote,      \* branches out of reach of the stubs of their section
    High,        \* addresses that need more than 48 bits
    Cramped,     \* sections whose pages end before the last stub counted does
    MaxPasses,   \* bound: completed relocations of one object
    MaxFailures  \* bound: failing calls of mprotect

SHN_UNDEF     == 0
SHN_LORESERVE == 65280
SHN_COMMON    == 65522

ObjectSym == UNION {{<<o, j>> : j \in DOMAIN Symbols[o]} : o \in Object}
HostSym   == {<<Null, n>> : n \in HostName}
SymId     == ObjectSym \cup HostSym
SecId     == UNION {{<<o, i>> : i \in DOMAIN Sections[o]} : o \in Object}
RelId     == UNION {{<<o, r>> : r \in DOMAIN Relocs[o]} : o \in Object}
HashKey   == {Hash[n] : n \in Name}

Sym(s)    == Symbols[s[1]][s[2]]
Sec(s)    == Sections[s[1]][s[2]]
Rel(p)    == Relocs[p[1]][p[2]]
SecOf(p)  == <<p[1], Rel(p).sec>>
SymOf(p)  == <<p[1], Rel(p).sym>>
NameOf(s) == IF s \in HostSym THEN s[2] ELSE Sym(s).name

Header == [type: {"PROGBITS", "NOBITS", "NOTE"},
           flags: {"none", "RO", "RW", "RX", "RWX"}, size: Nat]
ElfSym == [name: Name, bind: {"LOCAL", "GLOBAL", "WEAK"},
           type: {"NOTYPE", "OBJECT", "FUNC", "SECTION", "TLS"},
           shndx: Nat, value: Nat]
ElfRel == [sec: Nat, sym: Nat, type: {"branch", "data", "got", "thumb"},
           addend: Int, implicit: BOOLEAN]

(* What a relocatable object file looks like; the loader checks none of it.   *)
ASSUME ObjectFiles ==
    /\ Sections \in [Object -> Seq(Header)]
    /\ Symbols  \in [Object -> Seq(ElfSym)]
    /\ Relocs   \in [Object -> Seq(ElfRel)]
    /\ \A p \in RelId : /\ SecOf(p) \in SecId /\ SymOf(p) \in ObjectSym
                        /\ Sec(SecOf(p)).size > 0 /\ Sec(SecOf(p)).type # "NOBITS"
    /\ \A s \in ObjectSym : Sym(s).type = "SECTION" =>
           (Sym(s).bind = "LOCAL" /\ <<s[1], Sym(s).shndx>> \in SecId)
    /\ \A s \in ObjectSym : <<s[1], Sym(s).shndx>> \in SecId =>
           Sym(s).value <= Sec(<<s[1], Sym(s).shndx>>).size

(* read_archive, when it returns, has made at least one object, and each is   *)
(* an ObjectCode of its own.                                                  *)
ASSUME ArchiveFiles ==
    /\ Members \in [Archive -> Seq(Object)]
    /\ \A a \in Archive \ Unreadable : Members[a] # << >>
    /\ \A a, b \in Archive : \A i \in DOMAIN Members[a], k \in DOMAIN Members[b] :
           Members[a][i] = Members[b][k] => (a = b /\ i = k)

ASSUME Host ==
    /\ HostName \subseteq Name /\ SystemName \subseteq Name
    /\ Hash \in [Name -> Nat]
    /\ Arch \in {"arm", "arm64"}
    /\ MaxPasses \in Nat /\ MaxFailures \in Nat


------------------------------------------------------------------------------
(* Addresses.                                                                 *)

SectionAddr(s)  == <<"section", s, 0, 0>>
GotSlot(s)      == <<"got", s, 0, 0>>
StubAddr(s, k)  == <<"stub", s, k, 0>>
SystemAddr(n)   == <<"system", <<Null, n>>, 0, 0>>
HostAddr(n)     == <<"host", <<Null, n>>, 0, 0>>
Stray(p, k)     == <<"stray", p, k, 0>>   \* a sum that names nothing
Offset(a, d)    == <<a[1], a[2], a[3], a[4] + d>>

Address == {"section", "got", "stub", "system", "host", "stray"}
           \X (SecId \cup SymId \cup RelId \cup {<<Null, n>> : n \in Name})
           \X Nat \X Int

ASSUME NullIsNothing == Null \notin Object /\ Null \notin SymId /\ Null \notin Address

Branch == {p \in RelId : Rel(p).type = "branch"}

(* What the asserts refuse. On arm an address has 32 bits, and the one assert *)
(* on a place is decodeAddend's, of the H bit of a blx; on arm64 a branch     *)
(* fails only for want of a stub in reach.                                    *)
ASSUME Layout ==
    /\ Unreadable \subseteq Object \cup Archive
    /\ Unfit \subseteq RelId /\ Remote \subseteq Branch
    /\ High \subseteq Address /\ Cramped \subseteq SecId
    /\ Arch = "arm" => High = {} /\ Unfit \subseteq {p \in Branch : Rel(p).implicit}
    /\ Arch = "arm64" => Unfit \cap Branch = {}

------------------------------------------------------------------------------
(* What the section headers and symbols say.                                  *)

SectionKind(s) ==
    LET h == Sec(s) IN
    CASE h.type = "PROGBITS" /\ h.flags = "RX" -> "TEXT"
      [] h.type = "PROGBITS" /\ h.flags = "RW" -> "RWDATA"
      [] h.type = "PROGBITS" /\ h.flags = "RO" -> "RODATA"
      [] h.type = "NOBITS" /\ h.flags = "RW"   -> "ZEROFILL"
      [] \/ h.type = "PROGBITS" /\ h.flags = "RWX"
         \/ h.type = "NOBITS" /\ h.flags \in {"RX", "RO", "RWX"} -> "abort"
      [] OTHER -> "OTHER"

NeedStub(r) == r.type = "branch" \/ (Arch = "arm" /\ r.type = "thumb")

(* Mutant: only the RELA tables are counted.                                  *)
NumberOfStubsRela(s) ==
    Cardinality({r \in DOMAIN Relocs[s[1]] :
                    /\ Relocs[s[1]][r].sec = s[2] /\ NeedStub(Relocs[s[1]][r])
                    /\ ~Relocs[s[1]][r].implicit})

(* The stubs load_sections leaves room for behind a section.                  *)
NumberOfStubs(s) ==
    Cardinality({r \in DOMAIN Relocs[s[1]] :
                    Relocs[s[1]][r].sec = s[2] /\ NeedStub(Relocs[s[1]][r])})

CopiedKind == {"TEXT", "RODATA", "RWDATA"}

(* SECTION_NOMEM with a null start: nothing to map.                           *)
Empty(s) == SectionKind(s) \in CopiedKind /\ Sec(s).size = 0 /\ NumberOfStubs(s) = 0

Start(s) == IF Empty(s) THEN Null ELSE SectionAddr(s)

(* The sections load_sections gives up on.                                    *)
Unloadable(s) ==
    \/ SectionKind(s) = "abort"
    \/ /\ SectionKind(s) \in CopiedKind
       /\ NumberOfStubs(s) > 0
       /\ (SectionKind(s) # "TEXT" \/ Sec(s).size % 4 # 0)

(* What mprotect_loaded_sections covers: bss has no mapped_start, so its call *)
(* protects nothing.                                                          *)
Protectable(s) == SectionKind(s) \in CopiedKind /\ ~Empty(s)

(* Mutant: code stays writable.                                               *)
ProtFlagsWX(kind) == CASE kind = "TEXT"   -> "rwx"
                       [] kind = "RWDATA" -> "rw"
                       [] OTHER           -> "r"

ProtFlags(kind) == CASE kind = "TEXT"   -> "rx"
                     [] kind = "RWDATA" -> "rw"
                     [] OTHER           -> "r"

Defined(sy) ==
    /\ sy.shndx # SHN_UNDEF /\ sy.shndx < SHN_LORESERVE
    /\ sy.type \in {"NOTYPE", "OBJECT", "FUNC"}

(* Mutant: a weak definition takes its own address, though nobody else sees it. *)
OwnAddrWeak(s) ==
    LET sec == <<s[1], Sym(s).shndx>> IN
    IF Sym(s).type = "SECTION" THEN Start(sec)
    ELSE IF Defined(Sym(s)) /\ Start(sec) # Null
    THEN Offset(Start(sec), Sym(s).value) ELSE Null

(* The address get_names finds for a symbol in the object's own sections.     *)
OwnAddr(s) ==
    LET sec == <<s[1], Sym(s).shndx>> IN
    IF Sym(s).type = "SECTION" THEN Start(sec)
    ELSE IF Sym(s).bind # "WEAK" /\ Defined(Sym(s)) /\ Start(sec) # Null
    THEN Offset(Start(sec), Sym(s).value) ELSE Null

NeedGotSlot(s) == Sym(s).bind \in {"GLOBAL", "WEAK"}

HasGot(o) == \E j \in DOMAIN Symbols[o] : NeedGotSlot(<<o, j>>)

------------------------------------------------------------------------------
VARIABLES
    phase,     \* the function running, or idle, abort, fault
    cur,       \* the ObjectCode it works on
    pos,       \* position of its loop
    todo,      \* members of the archive still to be loaded
    objects,   \* LINKER.objects
    gsyms,     \* LINKER.gsyms: the symbol inserted under a hash
    addr,      \* ElfSymbol.addr, of the host's symbols too
    got,       \* contents of a symbol's GOT slot
    prot,      \* protection of a section's memory
    gotProt,   \* protection of an object's GOT
    stubs,     \* Section.info->stubs: the targets, in order
    place,     \* what a relocated place points at, Null before
    far,       \* the branches the layout puts out of reach (never changes)
    ret,       \* what resolveObject last returned for an object
    passes,    \* history: completed relocations of an object
    failures   \* failing mprotect calls so far

control == <<phase, cur, pos, todo, objects>>
names   == <<gsyms, addr>>
memory  == <<got, prot, gotProt, stubs, place>>
results == <<ret, passes, failures>>
vars    == <<control, names, memory, far, results>>

Init ==
    /\ phase = "idle" /\ cur = Null /\ pos = 1 /\ todo = << >> /\ objects = << >>
    /\ gsyms = [h \in HashKey |-> Null]
    /\ addr = [s \in SymId |-> Null]
    /\ got = [s \in ObjectSym |-> Null]
    /\ prot = [s \in SecId |-> "unmapped"]
    /\ gotProt = [o \in Object |-> "unmapped"]
    /\ stubs = [s \in SecId |-> << >>]
    /\ place = [p \in RelId |-> Null]
    /\ far \in SUBSET Branch
    /\ ret = [o \in Object |-> "none"]
    /\ passes = [o \in Object |-> 0]
    /\ failures = 0

Loaded == {objects[i] : i \in DOMAIN objects}

GoTo(ph, k) == phase' = ph /\ pos' = k /\ UNCHANGED <<cur, todo, objects>>

Advance == GoTo(phase, pos + 1)

(* abort(), a failed assert, or a write where the process must not write.     *)
Die(how) == GoTo(how, pos)

Return(result) ==
    /\ GoTo("idle", pos)
    /\ ret' = [ret EXCEPT ![cur] = result]

------------------------------------------------------------------------------
(* Loading.                                                                   *)

LoadObject(o) ==
    /\ phase = "idle" /\ o \notin Loaded \cup Unreadable
    /\ \A a \in Archive : \A i \in DOMAIN Members[a] : Members[a][i] # o
    /\ phase' = "load_sections" /\ cur' = o /\ todo' = << >>
    /\ UNCHANGED <<pos, objects, names, memory, far, results>>

LoadArchive(a) ==
    /\ phase = "idle" /\ a \notin Unreadable
    /\ \A i \in DOMAIN Members[a] : Members[a][i] \notin Loaded
    /\ phase' = "load_sections" /\ cur' = Head(Members[a]) /\ todo' = Tail(Members[a])
    /\ UNCHANGED <<pos, objects, names, memory, far, results>>

(* Opening a file fails, or read_archive does: by an assert, or by writing    *)
(* behind the name buffer. No object has been made by then.                   *)
LoadFails(f) ==
    /\ phase = "idle" /\ f \in Unreadable
    /\ phase' = "abort" \/ (f \in Archive /\ phase' = "fault")
    /\ cur' = Null
    /\ UNCHANGED <<pos, todo, objects, names, memory, far, results>>

SectionsOf(o) == {<<o, i>> : i \in DOMAIN Sections[o]}

(* Mutant: sections are mapped with their final protection at once.           *)
LoadSectionsProtected ==
    /\ phase = "load_sections"
    /\ \A s \in SectionsOf(cur) : ~Unloadable(s)
    /\ prot' = [s \in SecId |->
                  IF s[1] = cur /\ Protectable(s) THEN ProtFlags(SectionKind(s)) ELSE prot[s]]
    /\ GoTo("get_names", 1)
    /\ UNCHANGED <<names, got, gotProt, stubs, place, far, results>>

LoadSections ==
    /\ phase = "load_sections"
    /\ \A s \in SectionsOf(cur) : ~Unloadable(s)
    /\ prot' = [s \in SecId |->
                  IF s[1] = cur /\ ~Empty(s) /\ SectionKind(s) # "OTHER"
                  THEN "rw" ELSE prot[s]]
    /\ GoTo("get_names", 1)
    /\ UNCHANGED <<names, got, gotProt, stubs, place, far, results>>

LoadSectionsAborts ==
    /\ phase = "load_sections"
    /\ \E s \in SectionsOf(cur) : Unloadable(s)
    /\ Die("abort")
    /\ UNCHANGED <<names, memory, far, results>>

here == <<cur, pos>>

(* The asserts of get_names: no COMMON symbol, every index in range.          *)
Nameable(s) ==
    /\ Sym(s).shndx # SHN_COMMON
    /\ (Sym(s).bind # "WEAK" /\ Defined(Sym(s))) => <<s[1], Sym(s).shndx>> \in SecId

AtSymbol(ph) == phase = ph /\ pos \in DOMAIN Symbols[cur]
PastSymbols(ph) == phase = ph /\ pos \notin DOMAIN Symbols[cur]

Publishes(s) == OwnAddr(s) # Null /\ Sym(s).bind = "GLOBAL"

(* A symbol that stays private: local, or without an address yet.             *)
KeepName ==
    /\ AtSymbol("get_names") /\ Nameable(here) /\ ~Publishes(here)
    /\ addr' = [addr EXCEPT ![here] = OwnAddr(here)]
    /\ Advance
    /\ UNCHANGED <<gsyms, memory, far, results>>

(* Mutant: a duplicate key replaces the value.                                *)
PublishNameOverwrites ==
    /\ AtSymbol("get_names") /\ Nameable(here) /\ Publishes(here)
    /\ gsyms' = [gsyms EXCEPT ![Hash[NameOf(here)]] = here]
    /\ addr' = [addr EXCEPT ![here] = OwnAddr(here)]
    /\ Advance
    /\ UNCHANGED <<memory, far, results>>

(* Mutant: the symbol is inserted without its address.                        *)
PublishNameBare ==
    /\ AtSymbol("get_names") /\ Nameable(here) /\ Publishes(here)
    /\ gsyms[Hash[NameOf(here)]] = Null
    /\ gsyms' = [gsyms EXCEPT ![Hash[NameOf(here)]] = here]
    /\ Advance
    /\ UNCHANGED <<addr, memory, far, results>>

(* Mutant: the symbol's value is not added to the start of its section.       *)
PublishNameAtStart ==
    /\ AtSymbol("get_names") /\ Nameable(here) /\ Publishes(here)
    /\ gsyms[Hash[NameOf(here)]] = Null
    /\ gsyms' = [gsyms EXCEPT ![Hash[NameOf(here)]] = here]
    /\ addr' = [addr EXCEPT ![here] = SectionAddr(<<cur, Sym(here).shndx>>)]
    /\ Advance
    /\ UNCHANGED <<memory, far, results>>

(* insert_global_symbol and binary_tree_insert, for a symbol of an object.    *)
PublishName ==
    /\ AtSymbol("get_names") /\ Nameable(here) /\ Publishes(here)
    /\ gsyms[Hash[NameOf(here)]] = Null
    /\ gsyms' = [gsyms EXCEPT ![Hash[NameOf(here)]] = here]
    /\ addr' = [addr EXCEPT ![here] = OwnAddr(here)]
    /\ Advance
    /\ UNCHANGED <<memory, far, results>>

GetNamesAborts ==
    /\ AtSymbol("get_names")
    /\ \/ ~Nameable(here)
       \/ /\ Nameable(here) /\ Publishes(here)
          /\ gsyms[Hash[NameOf(here)]] # Null
    /\ Die("abort")
    /\ UNCHANGED <<names, memory, far, results>>

(* Mutant: the list grows at its head.                                        *)
MakeGotPrepends ==
    /\ PastSymbols("get_names")
    /\ gotProt' = [gotProt EXCEPT ![cur] = IF HasGot(cur) THEN "rw" ELSE @]
    /\ objects' = <<cur>> \o objects
    /\ IF todo = << >>
       THEN phase' = "idle" /\ UNCHANGED <<cur, todo>>
       ELSE phase' = "load_sections" /\ cur' = Head(todo) /\ todo' = Tail(todo)
    /\ UNCHANGED <<pos, names, got, prot, stubs, place, far, results>>

(* make_got maps one zeroed slot per global or weak symbol; processObject     *)
(* then chains the object onto the tail of the list, and loadArchive goes on  *)
(* with the next member.                                                      *)
MakeGot ==
    /\ PastSymbols("get_names")
    /\ gotProt' = [gotProt EXCEPT ![cur] = IF HasGot(cur) THEN "rw" ELSE @]
    /\ objects' = Append(objects, cur)
    /\ IF todo = << >>
       THEN phase' = "idle" /\ UNCHANGED <<cur, todo>>
       ELSE phase' = "load_sections" /\ cur' = Head(todo) /\ todo' = Tail(todo)
    /\ UNCHANGED <<pos, names, got, prot, stubs, place, far, results>>

------------------------------------------------------------------------------
(* The host's own symbols: insert_global_symbol called directly.              *)

(* Mutant: the host's symbol replaces an object's.                            *)
InsertHostSymbolOverwrites(n, weak) ==
    /\ phase = "idle"
    /\ weak => n \in SystemName
    /\ addr' = [addr EXCEPT ![<<Null, n>>] = IF weak THEN SystemAddr(n) ELSE HostAddr(n)]
    /\ gsyms' = [gsyms EXCEPT ![Hash[n]] = <<Null, n>>]
    /\ UNCHANGED <<control, memory, far, results>>

InsertHostSymbol(n, weak) ==
    /\ phase = "idle"
    /\ gsyms[Hash[n]] = Null
    /\ weak => n \in SystemName
    /\ addr' = [addr EXCEPT ![<<Null, n>>] = IF weak THEN SystemAddr(n) ELSE HostAddr(n)]
    /\ gsyms' = [gsyms EXCEPT ![Hash[n]] = <<Null, n>>]
    /\ UNCHANGED <<control, memory, far, results>>

InsertHostSymbolAborts(n, weak) ==
    /\ phase = "idle"
    /\ gsyms[Hash[n]] # Null \/ (weak /\ n \notin SystemName)
    /\ Die("abort")
    /\ UNCHANGED <<names, memory, far, results>>

(* lookupSymbol_: the global symbols first, then the system's.                *)
Lookup(n) ==
    IF gsyms[Hash[n]] # Null THEN addr[gsyms[Hash[n]]]
    ELSE IF n \in SystemName THEN SystemAddr(n) ELSE Null

------------------------------------------------------------------------------
(* Resolving.                                                                 *)

ResolveObject(o) ==
    /\ phase = "idle" /\ o \in Loaded /\ passes[o] < MaxPasses
    /\ phase' = "fill_got" /\ cur' = o /\ pos' = 1
    /\ UNCHANGED <<todo, objects, names, memory, far, results>>

(* Mutant: the address found by an earlier attempt is looked up again.        *)
GotAddrAgain(s) ==
    IF Sym(s).type = "NOTYPE" \/ Sym(s).bind = "WEAK"
    THEN Lookup(Sym(s).name) ELSE addr[s]

(* The address fill_got puts into the slot of s.                              *)
GotAddr(s) ==
    IF addr[s] = Null /\ (Sym(s).type = "NOTYPE" \/ Sym(s).bind = "WEAK")
    THEN Lookup(Sym(s).name) ELSE addr[s]

(* Mutant: the loop does not advance over a symbol without a slot.            *)
FillSkipStuck ==
    /\ AtSymbol("fill_got") /\ ~NeedGotSlot(here)
    /\ UNCHANGED vars

FillSkip ==
    /\ AtSymbol("fill_got") /\ ~NeedGotSlot(here)
    /\ Advance
    /\ UNCHANGED <<names, memory, far, results>>

FillSlot ==
    /\ AtSymbol("fill_got") /\ NeedGotSlot(here)
    /\ GotAddr(here) # Null /\ gotProt[cur] = "rw"
    /\ addr' = [addr EXCEPT ![here] = GotAddr(here)]
    /\ got' = [got EXCEPT ![here] = GotAddr(here)]
    /\ Advance
    /\ UNCHANGED <<gsyms, prot, gotProt, stubs, place, far, results>>

(* Mutant: the early return is lost.                                          *)
FillFailsGoesOn ==
    /\ AtSymbol("fill_got") /\ NeedGotSlot(here)
    /\ GotAddr(here) = Null
    /\ Advance
    /\ UNCHANGED <<names, memory, far, results>>

FillFails ==
    /\ AtSymbol("fill_got") /\ NeedGotSlot(here)
    /\ (GotAddr(here) = Null \/ gotProt[cur] = "unmapped")
    /\ addr' = [addr EXCEPT ![here] = GotAddr(here)]
    /\ Return("failure")
    /\ UNCHANGED <<gsyms, memory, far, passes, failures>>

(* The GOT was made read only by an earlier resolveObject.                    *)
FillFaults ==
    /\ AtSymbol("fill_got") /\ NeedGotSlot(here)
    /\ GotAddr(here) # Null /\ gotProt[cur] = "rx"
    /\ addr' = [addr EXCEPT ![here] = GotAddr(here)]
    /\ Die("fault")
    /\ UNCHANGED <<gsyms, memory, far, results>>

GotHolds(o) == \A j \in DOMAIN Symbols[o] :
                   NeedGotSlot(<<o, j>>) => got[<<o, j>>] = addr[<<o, j>>]

(* Symbols without a slot are looked at too.                                  *)
HasHigh(o) == \E j \in DOMAIN Symbols[o] : addr[<<o, j>>] \in High

(* The end of fill_got, and verify_got.                                       *)
VerifyGot ==
    /\ PastSymbols("fill_got")
    /\ IF GotHolds(cur) /\ ~HasHigh(cur) THEN GoTo("relocate", 1) ELSE Die("abort")
    /\ UNCHANGED <<names, memory, far, results>>

------------------------------------------------------------------------------
(* Relocating: compute_addend, encodeAddend, and the stubs of plt.c.          *)

AtReloc == phase = "relocate" /\ pos \in DOMAIN Relocs[cur]

RelocSkip ==
    /\ AtReloc /\ SectionKind(SecOf(here)) = "OTHER"
    /\ Advance
    /\ UNCHANGED <<names, memory, far, results>>

(* The relocations one of the two back ends refuses.                          *)
Refused(p) ==
    \/ Rel(p).type = "thumb"
    \/ (Arch = "arm64" /\ Rel(p).implicit)
    \/ (Rel(p).type = "got" /\ ~NeedGotSlot(SymOf(p)))

Relocatable == AtReloc /\ SectionKind(SecOf(here)) # "OTHER"

Accepted ==
    /\ Relocatable /\ ~Refused(here) /\ here \notin Unfit
    /\ addr[SymOf(here)] # Null

RelocFaults ==
    /\ Accepted /\ prot[SecOf(here)] # "rw"
    /\ Die("fault")
    /\ UNCHANGED <<names, memory, far, results>>

(* What the relocation asks for: S + A, or GOT(S) + A. The PC bias of arm     *)
(* cancels out and is left out.                                               *)
Wanted(p) ==
    Offset(IF Rel(p).type = "got" THEN GotSlot(SymOf(p)) ELSE addr[SymOf(p)],
           Rel(p).addend)

(* An implicit addend is read back from the place, so a place relocated once  *)
(* already yields a sum of two addresses.                                     *)
Rewritten(p) == Rel(p).implicit /\ place[p] # Null

Target(p) == IF Rewritten(p) THEN Stray(p, passes[p[1]]) ELSE Wanted(p)

WriteDirect ==
    /\ Accepted /\ prot[SecOf(here)] = "rw"
    /\ here \in far => Rewritten(here)
    /\ place' = [place EXCEPT ![here] = Target(here)]
    /\ Advance
    /\ UNCHANGED <<names, got, prot, gotProt, stubs, far, results>>

(* arm stores S + A in the stub, arm64 only S and adds A to the branch.       *)
(* Mutant: arm forgets to fold the addend into the stub.                      *)
StubTargetBare(p) == addr[SymOf(p)]

StubTarget(p) == IF Arch = "arm" THEN Target(p) ELSE addr[SymOf(p)]
StubAddend(p) == IF Arch = "arm" THEN 0 ELSE Rel(p).addend

(* Mutants: the search never succeeds; it takes any stub.                     *)
FindNoStub(s, a)  == {}
FindAnyStub(s, a) == DOMAIN stubs[s]

FindStub(s, a) == {k \in DOMAIN stubs[s] : stubs[s][k] = a}

BranchTo(k) ==
    place' = [place EXCEPT ![here] = Offset(StubAddr(SecOf(here), k), StubAddend(here))]

NeedsStub ==
    /\ Accepted /\ Rel(here).type = "branch"
    /\ here \in far \/ Rewritten(here)

(* A relocation is refused for its kind, its symbol, its place or its value,  *)
(* or because the stub found or made for it is out of reach.                  *)
RelocAborts ==
    /\ Relocatable
    /\ \/ Refused(here) \/ addr[SymOf(here)] = Null \/ here \in Unfit
       \/ /\ NeedsStub /\ here \in Remote
          /\ \/ prot[SecOf(here)] = "rw"
             \/ FindStub(SecOf(here), StubTarget(here)) # {}
    /\ Die("abort")
    /\ UNCHANGED <<names, memory, far, results>>

BranchesFar == NeedsStub /\ here \notin Remote /\ prot[SecOf(here)] = "rw"

ReuseStub ==
    /\ BranchesFar
    /\ \E k \in FindStub(SecOf(here), StubTarget(here)) : BranchTo(k)
    /\ Advance
    /\ UNCHANGED <<names, got, prot, gotProt, stubs, far, results>>

(* make_stub leaves 8 bytes between the room's start and the first stub, so   *)
(* the last stub counted ends 8 bytes behind the room: in a cramped section   *)
(* that is behind the mapped pages. A stub that was not counted is behind the *)
(* room altogether, and the rest of the last page may take it or not.         *)
Full(s)     == Len(stubs[s]) >= NumberOfStubs(s)
LastOne(s)  == Len(stubs[s]) + 1 = NumberOfStubs(s)
Spills(s)   == s \in Cramped /\ (LastOne(s) \/ Full(s))
MaySpill(s) == Full(s) \/ Spills(s)

MakeStub ==
    /\ BranchesFar /\ ~Spills(SecOf(here))
    /\ FindStub(SecOf(here), StubTarget(here)) = {}
    /\ stubs' = [stubs EXCEPT ![SecOf(here)] = Append(@, StubTarget(here))]
    /\ BranchTo(Len(stubs[SecOf(here)]) + 1)
    /\ Advance
    /\ UNCHANGED <<names, got, prot, gotProt, far, results>>

(* The stub is written to pages that are not the section's: unmapped, sealed  *)
(* by an earlier resolve, or somebody else's data.                            *)
MakeStubOverruns ==
    /\ NeedsStub /\ prot[SecOf(here)] = "rw" /\ MaySpill(SecOf(here))
    /\ FindStub(SecOf(here), StubTarget(here)) = {}
    /\ Die("fault")
    /\ UNCHANGED <<names, memory, far, results>>

RelocDone ==
    /\ phase = "relocate" /\ pos \notin DOMAIN Relocs[cur]
    /\ GoTo("mprotect", 1)
    /\ passes' = [passes EXCEPT ![cur] = @ + 1]
    /\ UNCHANGED <<names, memory, far, ret, failures>>

------------------------------------------------------------------------------
(* Protecting: mprotect_loaded_sections, then the GOT.                        *)

AtSection == phase = "mprotect" /\ pos \in DOMAIN Sections[cur]
AtGot     == phase = "mprotect" /\ pos \notin DOMAIN Sections[cur]

ProtectSkip ==
    /\ AtSection /\ ~Protectable(here)
    /\ Advance
    /\ UNCHANGED <<names, memory, far, results>>

ProtectSection ==
    /\ AtSection /\ Protectable(here)
    /\ prot' = [prot EXCEPT ![here] = ProtFlags(SectionKind(here))]
    /\ Advance
    /\ UNCHANGED <<names, got, gotProt, stubs, place, far, results>>

ProtectGot ==
    /\ AtGot
    /\ gotProt' = [gotProt EXCEPT ![cur] = IF HasGot(cur) THEN "rx" ELSE @]
    /\ Return("success")
    /\ UNCHANGED <<names, got, prot, stubs, place, far, passes, failures>>

(* Mutant: the result of mprotect is ignored.                                 *)
MprotectIgnored ==
    /\ (AtSection /\ Protectable(here)) \/ (AtGot /\ HasGot(cur))
    /\ failures < MaxFailures
    /\ failures' = failures + 1
    /\ IF AtSection THEN Advance /\ UNCHANGED ret ELSE Return("success")
    /\ UNCHANGED <<names, memory, far, passes>>

MprotectFails ==
    /\ (AtSection /\ Protectable(here)) \/ (AtGot /\ HasGot(cur))
    /\ failures < MaxFailures
    /\ failures' = failures + 1
    /\ Return("failure")
    /\ UNCHANGED <<names, memory, far, passes>>

------------------------------------------------------------------------------
Loading == \/ LoadSections \/ LoadSectionsAborts
           \/ KeepName \/ PublishName \/ GetNamesAborts \/ MakeGot

Relinking == \/ FillSkip \/ FillSlot \/ FillFails \/ FillFaults \/ VerifyGot
             \/ RelocSkip \/ RelocAborts \/ RelocFaults \/ WriteDirect
             \/ ReuseStub \/ MakeStub \/ MakeStubOverruns \/ RelocDone
             \/ ProtectSkip \/ ProtectSection \/ ProtectGot \/ MprotectFails

(* A step of the library, inside a call.                                      *)
Work == Loading \/ Relinking

(* A call of the host.                                                        *)
Call == \/ \E o \in Object : LoadObject(o) \/ ResolveObject(o)
        \/ \E a \in Archive : LoadArchive(a)
        \/ \E f \in Unreadable : LoadFails(f)
        \/ \E n \in HostName, weak \in BOOLEAN :
              InsertHostSymbol(n, weak) \/ InsertHostSymbolAborts(n, weak)

Next == Work \/ Call

Spec == Init /\ [][Next]_vars

(* The library runs on the caller's thread: a call, once made, is executed.   *)
FairSpec == Spec /\ WF_vars(Work)

------------------------------------------------------------------------------
(* Properties.                                                                *)

Phase == {"idle", "load_sections", "get_names", "fill_got", "relocate",
          "mprotect", "abort", "fault"}

(* Every variable keeps its type, and a running call has an object.           *)
TypeOK ==
    /\ phase \in Phase /\ pos \in Nat
    /\ cur \in Object \cup {Null}
    /\ phase \notin {"idle", "abort", "fault"} => cur \in Object
    /\ todo \in Seq(Object) /\ objects \in Seq(Object)
    /\ gsyms \in [HashKey -> SymId \cup {Null}]
    /\ addr \in [SymId -> Address \cup {Null}]
    /\ got \in [ObjectSym -> Address \cup {Null}]
    /\ prot \in [SecId -> {"unmapped", "rw", "r", "rx"}]
    /\ gotProt \in [Object -> {"unmapped", "rw", "rx"}]
    /\ stubs \in [SecId -> Seq(Address)]
    /\ place \in [RelId -> Address \cup {Null}]
    /\ far \in SUBSET Branch
    /\ ret \in [Object -> {"none", "success", "failure"}]
    /\ passes \in [Object -> Nat] /\ failures \in Nat

(* The call of resolveObject that last returned success for o is the last one *)
(* made: nothing is under way that may be undoing it.                         *)
Resolving(o) == cur = o /\ phase \in {"fill_got", "relocate", "mprotect", "abort", "fault"}
Settled(o) == ret[o] = "success" /\ ~Resolving(o)

(* Once an object is on the list every global definition it makes is what a   *)
(* lookup of that name finds, whatever else was loaded before or after.       *)
DefinitionsVisible ==
    \A s \in ObjectSym :
        s[1] \in Loaded /\ Publishes(s) => gsyms[Hash[NameOf(s)]] = s

(* A symbol's address, once found, is never changed: code relocated against   *)
(* it, in this object or another, stays right. fill_got on a second attempt   *)
(* must not look a cached symbol up again.                                    *)
AddrStable == [][\A s \in SymId : addr[s] # Null => addr'[s] = addr[s]]_vars

(* What the host was told by lookupSymbol_ stays true, unless the name came   *)
(* from the system and an object loaded later defines it too.                 *)
LookupStable ==
    [][\A n \in Name :
          \/ Lookup(n) \in {Null, Lookup(n)'}
          \/ n \in SystemName /\ gsyms[Hash[n]] = Null]_vars

(* Objects that use one name agree on its address, in whatever order they     *)
(* were loaded and resolved and however often a resolve failed in between.    *)
(* The exception is real: a name both the system and an object provide is     *)
(* bound to either, by the moment of the lookup.                              *)
OneBinding ==
    \A s, t \in ObjectSym :
        /\ NeedGotSlot(s) /\ NeedGotSlot(t) /\ NameOf(s) = NameOf(t)
        /\ addr[s] # Null /\ addr[t] # Null
        /\ NameOf(s) \notin SystemName
        => addr[s] = addr[t]

(* The table compares hashes, never names, so a use may be bound to another   *)
(* name's definition; but never where the right one is loaded: whoever has an *)
(* address for a name an object on the list defines has that definition's.    *)
BoundToDefinition ==
    \A s, t \in ObjectSym :
        /\ NeedGotSlot(s) /\ addr[s] # Null /\ NameOf(s) \notin SystemName
        /\ t[1] \in Loaded /\ Publishes(t) /\ NameOf(t) = NameOf(s)
        => addr[s] = OwnAddr(t)

(* When resolveObject has returned success, every GOT slot of the object      *)
(* holds its symbol's address and no code, constant or GOT page of it is      *)
(* writable any more, also if an earlier call failed half way.                *)
ResolvedIsSealed ==
    \A o \in Object : Settled(o) =>
        /\ GotHolds(o)
        /\ \A j \in DOMAIN Symbols[o] : NeedGotSlot(<<o, j>>) => got[<<o, j>>] # Null
        /\ HasGot(o) => gotProt[o] = "rx"
        /\ \A s \in SectionsOf(o) :
               Protectable(s) => prot[s] = ProtFlags(SectionKind(s))

(* Where a relocated place ends up: through a stub entered at its start, or   *)
(* directly.                                                                  *)
Lands(p) ==
    LET t == place[p] IN
    IF t[1] = "stub" /\ t[4] = 0 THEN stubs[t[2]][t[3]] ELSE t

Relocated(p) == SectionKind(SecOf(p)) # "OTHER"

(* The places the code promises something of after n relocations of their     *)
(* object. Two are left out: an implicit addend relocated again, and an arm64 *)
(* branch with an addend that needs a stub.                                   *)
Promised(p, n) ==
    /\ Relocated(p)
    /\ Rel(p).implicit => passes[p[1]] = n
    /\ (Arch = "arm64" /\ p \in far) => Rel(p).addend = 0

(* After a successful resolve every place reaches what its relocation asks    *)
(* for.                                                                       *)
PlacesRight ==
    \A p \in RelId : Settled(p[1]) /\ Promised(p, 1) => Lands(p) = Wanted(p)

(* What linking is for: code and data that use a name some loaded object      *)
(* defines reach that definition plus the addend, or through the GOT a slot   *)
(* that holds its address. This is across objects, whatever the order of      *)
(* loads and resolves, however often a resolve failed in between, and also    *)
(* when the definition came with a later object.                              *)
ReferencesRight ==
    \A p \in RelId, t \in ObjectSym :
        LET s == SymOf(p) IN
        /\ Settled(p[1]) /\ Promised(p, 1)
        /\ t[1] \in Loaded /\ Publishes(t)
        /\ NeedGotSlot(s) /\ NameOf(s) = NameOf(t) /\ NameOf(s) \notin SystemName
        => IF Rel(p).type = "got"
           THEN Lands(p) = Offset(GotSlot(s), Rel(p).addend) /\ got[s] = OwnAddr(t)
           ELSE Lands(p) = Offset(OwnAddr(t), Rel(p).addend)

(* The stubs made for a section fit the number load_sections left room for,   *)
(* unless places with implicit addends were relocated a second time.          *)
Redone(o) == passes[o] >= 2 \/ (passes[o] = 1 /\ cur = o /\ phase # "idle")
StubsReserved ==
    \A s \in SecId : Len(stubs[s]) > NumberOfStubs(s) =>
        /\ Redone(s[1])
        /\ \E p \in RelId : SecOf(p) = s /\ Rel(p).implicit

(* The session's stubs are a table of entry points, as those of Plt are: each *)
(* is handed out once, for one target, and is never moved or given another    *)
(* target, whatever fails and is tried again.                                 *)
EntriesOf(s) == {<<s, stubs[s][k], StubAddr(s, k)>> : k \in DOMAIN stubs[s]}

Entries == UNION {EntriesOf(s) : s \in SecId}

Table == INSTANCE StubTable
    WITH Section <- SecId, Goal <- Address, EntryPoint <- Address, entries <- Entries

ImplementsTable == Table!Spec

(* When memory is written that is protected, or not the section's. A first    *)
(* relocation does so only by the last stub counted for a cramped section:    *)
(* all memory it is meant to write is still writable, and no stub is made     *)
(* that was not counted. Otherwise a resolve is being repeated, or the        *)
(* archive reader overran a name.                                             *)
Crowded(o) == \E s \in SectionsOf(o) : s \in Cramped /\ LastOne(s)

FaultOnlyForCause ==
    phase = "fault" => \/ cur = Null /\ Unreadable \cap Archive # {}
                       \/ cur # Null /\ (passes[cur] >= 1 \/ Crowded(cur))

(* Why a call may abort once it has its file. With objects a compiler writes, *)
(* names that do not clash and a layout the relocations fit into, no assert   *)
(* can fail: every slot holds its symbol's address when verify_got compares   *)
(* them, and a relocation never meets a symbol without an address, because    *)
(* fill_got returned failure before. An object that does not fit is refused   *)
(* for its own symbols and relocations; a stub out of reach matters only to   *)
(* branches that are far, or relocated again.                                 *)
Malformed(o) ==
    \/ \E s \in SectionsOf(o) : Unloadable(s)
    \/ \E s \in ObjectSym : s[1] = o /\ ~Nameable(s)
    \/ \E p \in RelId : /\ p[1] = o /\ Relocated(p)
                        /\ Refused(p) \/ (~NeedGotSlot(SymOf(p)) /\ OwnAddr(SymOf(p)) = Null)
Clash ==
    \E s \in ObjectSym : /\ s[1] = cur /\ Publishes(s)
                         /\ gsyms[Hash[NameOf(s)]] \notin {Null, s}
Misfit(o) ==
    \/ HasHigh(o)
    \/ \E p \in RelId : /\ p[1] = o /\ Relocated(p)
                        /\ p \in Unfit \/ (p \in Remote /\ (p \in far \/ Rewritten(p)))

AbortOnlyForCause ==
    [][phase' = "abort" /\ phase \notin {"idle", "abort"} =>
           Malformed(cur) \/ Clash \/ Misfit(cur)]_vars

(* Every call returns to the host, or ends the process or its memory.         *)
CallsReturn ==
    phase \notin {"idle", "abort", "fault"} ~> phase \in {"idle", "abort", "fault"}

------------------------------------------------------------------------------
(* What comments of the code say, and the code does not do.                   *)

(* "This will be an upper bound, and we might not use all stubs" (plt/arm.c). *)
StubsUpperBound == \A s \in SecId : Len(stubs[s]) <= NumberOfStubs(s)

(* "// S+A-P" (reloc/arm64.c, of branches): a resolved branch reaches S + A.  *)
BranchesReachAddend ==
    \A p \in Branch : Settled(p[1]) => Lands(p) = Wanted(p)
=============================================================================
