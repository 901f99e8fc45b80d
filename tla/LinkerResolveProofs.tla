------------------------- MODULE LinkerResolveProofs -------------------------
(* What resolveObject leaves behind: theorems about the GOT, the protection,  *)
(* the relocated places and the stubs.                                        *)
EXTENDS LinkerProofs, FiniteSetTheorems

(* abort() and a fault end the process.                                        *)
LEMMA NoStepAfterEnd ==
    ASSUME Next
    PROVE  phase \notin {"abort", "fault"}
  BY DEF Next, Work, Loading, Relinking, Call, LoadSections, LoadSectionsAborts, KeepName,
         PublishName, GetNamesAborts, MakeGot, FillSkip, FillSlot, FillFails, FillFaults,
         VerifyGot, RelocSkip, RelocAborts, RelocFaults, MakeStubOverruns, WriteDirect, ReuseStub, MakeStub,
         RelocDone, ProtectSkip, ProtectSection, ProtectGot, MprotectFails, AtSymbol,
         PastSymbols, BranchesFar, Accepted, NeedsStub, Relocatable, AtReloc, AtSection, AtGot,
         LoadObject, LoadArchive, LoadFails, ResolveObject, InsertHostSymbol, InsertHostSymbolAborts

(* The addresses a step may find, and who finds them.                         *)
LEMMA AddrChange ==
    ASSUME TypeOK, [Next]_vars, NEW s \in SymId, addr'[s] # addr[s]
    PROVE  \/ /\ s = here /\ phase = "get_names" /\ Named(s)'
              /\ addr'[s] = OwnAddr(s) /\ s \in ObjectSym
           \/ /\ s = here /\ phase = "fill_got" /\ phase' # "get_names"
              /\ NeedGotSlot(s) /\ addr'[s] = GotAddr(s) /\ s \in ObjectSym
           \/ /\ phase = "idle" /\ s \in HostSym
              /\ addr'[s] \in {SystemAddr(s[2]), HostAddr(s[2])}
  <1> USE DEF GoTo, Advance, Die, Return, names
  <1>1. CASE KeepName \/ PublishName
    <2>1. /\ AtSymbol("get_names") /\ Advance /\ cur \in Object
          /\ addr' = [addr EXCEPT ![here] = OwnAddr(here)]
      BY <1>1 DEF KeepName, PublishName, AtSymbol, TypeOK
    <2>2. s = here /\ addr'[s] = OwnAddr(s)
      BY <2>1 DEF TypeOK
    <2>3. s \in ObjectSym /\ phase' = "get_names" /\ pos' = pos + 1 /\ pos \in Nat /\ cur' = cur
      BY <2>1, <2>2, HereIsSymbol DEF AtSymbol, TypeOK
    <2>4. Named(s)'
      BY <2>2, <2>3 DEF Named, here
    <2> QED
      BY <2>1, <2>2, <2>3, <2>4 DEF AtSymbol
  <1>2. CASE FillSlot \/ FillFails \/ FillFaults
    <2>1. /\ AtSymbol("fill_got") /\ NeedGotSlot(here) /\ phase' # "get_names"
          /\ addr' = [addr EXCEPT ![here] = GotAddr(here)] /\ cur \in Object
      BY <1>2 DEF FillSlot, FillFails, FillFaults, AtSymbol, TypeOK
    <2> QED
      BY <2>1, HereIsSymbol DEF TypeOK, AtSymbol
  <1>3. ASSUME NEW n \in HostName, NEW weak \in BOOLEAN, InsertHostSymbol(n, weak)
        PROVE  phase = "idle" /\ s \in HostSym /\ addr'[s] \in {SystemAddr(s[2]), HostAddr(s[2])}
    <2>1. s = <<Null, n>>
      BY <1>3 DEF InsertHostSymbol, TypeOK
    <2> QED
      BY <1>3, <2>1 DEF InsertHostSymbol, TypeOK, HostSym
  <1>4. ASSUME UNCHANGED addr PROVE FALSE
    BY <1>4
  <1>5. CASE Loading /\ ~(KeepName \/ PublishName)
    BY <1>4, <1>5 DEF Loading, LoadSections, LoadSectionsAborts, GetNamesAborts, MakeGot
  <1>6. CASE Relinking /\ ~(FillSlot \/ FillFails \/ FillFaults)
    BY <1>4, <1>6 DEF Relinking, FillSkip, VerifyGot, RelocSkip, RelocAborts, RelocFaults, MakeStubOverruns,
                      WriteDirect, ReuseStub, MakeStub, RelocDone, ProtectSkip,
                      ProtectSection, ProtectGot, MprotectFails
  <1>7. CASE Call
    BY <1>3, <1>4, <1>7 DEF Call, LoadObject, LoadArchive, LoadFails, ResolveObject, InsertHostSymbolAborts
  <1>8. CASE UNCHANGED vars
    BY <1>4, <1>8 DEF vars
  <1> QED
    BY <1>1, <1>2, <1>3, <1>5, <1>6, <1>7, <1>8 DEF Next, Work

(* A step names the symbol get_names stands at, or none.                      *)
LEMMA NamedStep ==
    ASSUME TypeOK, ChainInv, [Next]_vars, NEW s \in ObjectSym, Named(s)'
    PROVE  Named(s) \/ (s = here /\ s \in SymId /\ addr'[s] = OwnAddr(s))
  <1> USE DEF GoTo, Advance, Die, Return
  <1>1. CASE KeepName \/ PublishName
    <2>1. /\ AtSymbol("get_names") /\ Advance /\ cur \in Object
          /\ addr' = [addr EXCEPT ![here] = OwnAddr(here)]
      BY <1>1 DEF KeepName, PublishName, AtSymbol, TypeOK
    <2> QED
      BY <2>1, NamedNext, HereIsSymbol DEF TypeOK
  <1>2. CASE MakeGot
    BY <1>2, MakeGotNamed
  <1>3. CASE LoadSections
    BY <1>3, SymbolIndex DEF LoadSections, Named, Loaded
  <1>4. ASSUME phase' # "get_names", UNCHANGED objects
        PROVE  Named(s)
    BY <1>4 DEF Named, Loaded
  <1>5. CASE LoadSectionsAborts \/ GetNamesAborts
    BY <1>4, <1>5 DEF LoadSectionsAborts, GetNamesAborts
  <1>6. CASE Relinking
    BY <1>4, <1>6 DEF Relinking, FillSkip, FillSlot, FillFails, FillFaults, VerifyGot, RelocSkip,
                RelocAborts, RelocFaults, MakeStubOverruns, WriteDirect, ReuseStub, MakeStub, RelocDone,
                ProtectSkip, ProtectSection, ProtectGot, MprotectFails, AtSymbol, PastSymbols,
                BranchesFar, Accepted, NeedsStub, Relocatable, AtReloc, AtSection, AtGot
  <1>7. CASE Call
    BY <1>4, <1>7 DEF Call, LoadObject, LoadArchive, LoadFails, ResolveObject, InsertHostSymbol,
                InsertHostSymbolAborts, control
  <1>8. CASE UNCHANGED vars
    BY <1>8 DEF vars, control, Named, Loaded
  <1> QED
    BY <1>1, <1>2, <1>3, <1>5, <1>6, <1>7, <1>8 DEF Next, Work, Loading

LEMMA LocalStep ==
    ASSUME TypeOK, ChainInv, NamesInv, LocalInv, [Next]_vars
    PROVE  LocalInv'
  <1>1. phase # "abort" \/ UNCHANGED vars
    BY NoStepAfterEnd
  <1>2. CASE UNCHANGED vars
    BY <1>2 DEF vars, control, names, LocalInv, Named, Loaded
  <1>3. ASSUME phase # "abort", NEW s \in ObjectSym, Named(s)', ~NeedGotSlot(s)
        PROVE  addr'[s] = OwnAddr(s)
    <2>1. s \in SymId /\ s \notin HostSym
      BY SymbolData DEF SymId
    <2>2. CASE Named(s)
      BY <1>3, <2>1, <2>2, AddrChange DEF LocalInv
    <2>3. CASE ~Named(s)
      BY <1>3, <2>3, NamedStep
    <2> QED
      BY <2>2, <2>3
  <1>4. ASSUME NEW s \in SymId, addr'[s] # Null
        PROVE  addr'[s][1] # "stub"
    <2>1. CASE addr'[s] = addr[s]
      BY <1>4, <2>1 DEF LocalInv
    <2>2. CASE s \in ObjectSym /\ addr'[s] = OwnAddr(s)
      BY <1>4, <2>2 DEF OwnAddr, Start, SectionAddr, Offset
    <2>3. CASE s \in ObjectSym /\ addr'[s] = GotAddr(s)
      <3>1. Hash[Sym(s).name] \in HashKey
        BY <2>3, SymbolData
      <3>2. gsyms[Hash[Sym(s).name]] # Null => addr[gsyms[Hash[Sym(s).name]]][1] # "stub"
        BY <3>1 DEF TypeOK, NamesInv, GsymsSound, LocalInv
      <3> QED
        BY <1>4, <2>3, <3>2 DEF GotAddr, Lookup, SystemAddr, LocalInv
    <2>4. CASE addr'[s] \in {SystemAddr(s[2]), HostAddr(s[2])}
      BY <2>4 DEF SystemAddr, HostAddr
    <2> QED
      BY <2>1, <2>2, <2>3, <2>4, AddrChange
  <1> QED
    BY <1>1, <1>2, <1>3, <1>4 DEF LocalInv

------------------------------------------------------------------------------
(* What a step leaves alone.                                                  *)

Untouched(o) ==
    /\ \A s \in ObjectSym : s[1] = o => addr'[s] = addr[s] /\ got'[s] = got[s]
    /\ \A s \in SecId : s[1] = o => prot'[s] = prot[s] /\ stubs'[s] = stubs[s]
    /\ \A p \in RelId : p[1] = o => place'[p] = place[p]
    /\ gotProt'[o] = gotProt[o] /\ passes'[o] = passes[o]

(* resolveObject touches its own object only.                                 *)
LEMMA RelinkingTouches ==
    ASSUME TypeOK, Relinking, NEW o \in Object, o # cur
    PROVE  Untouched(o) /\ ret'[o] = ret[o]
  <1> USE DEF GoTo, Advance, Die, Return, names, memory, results, Untouched
  <1>1. CASE FillSkip \/ FillFaults \/ FillFails \/ FillSlot
    <2>1. \A s \in SymId : s[1] = o => s # here
      BY DEF here
    <2>2. \A s \in ObjectSym : s \in SymId
      BY DEF SymId
    <2> QED
      BY <1>1, <2>1, <2>2 DEF FillSkip, FillSlot, FillFails, FillFaults, TypeOK
  <1>2. CASE VerifyGot \/ RelocSkip \/ RelocAborts \/ RelocFaults \/ MakeStubOverruns \/ ProtectSkip
    BY <1>2 DEF VerifyGot, RelocSkip, RelocAborts, RelocFaults, MakeStubOverruns, ProtectSkip
  <1>3. CASE WriteDirect \/ ReuseStub \/ MakeStub
    <2>1. \A p \in RelId : p[1] = o => p # here
      BY DEF here
    <2>2. \A s \in SecId : s[1] = o => s # SecOf(here)
      BY DEF SecOf, here
    <2>3. /\ \A p \in RelId : p # here => place'[p] = place[p]
          /\ UNCHANGED <<addr, got, prot, gotProt, ret, passes>>
      BY <1>3 DEF WriteDirect, ReuseStub, MakeStub, BranchTo, TypeOK
    <2>4. \A s \in SecId : s # SecOf(here) => stubs'[s] = stubs[s]
      BY <1>3 DEF WriteDirect, ReuseStub, MakeStub, TypeOK
    <2> QED
      BY <2>1, <2>2, <2>3, <2>4
  <1>4. CASE RelocDone \/ ProtectGot \/ MprotectFails
    BY <1>4 DEF RelocDone, ProtectGot, MprotectFails, TypeOK
  <1>5. CASE ProtectSection
    <2>1. \A s \in SecId : s[1] = o => s # here
      BY DEF here
    <2> QED
      BY <1>5, <2>1 DEF ProtectSection, TypeOK
  <1> QED
    BY <1>1, <1>2, <1>3, <1>4, <1>5 DEF Relinking

LEMMA LoadingTouches ==
    ASSUME TypeOK, Loading, NEW o \in Object, o # cur
    PROVE  Untouched(o)
  <1> USE DEF names, memory, results, Untouched
  <1>1. CASE LoadSections
    BY <1>1 DEF LoadSections
  <1>2. CASE LoadSectionsAborts \/ GetNamesAborts
    BY <1>2 DEF LoadSectionsAborts, GetNamesAborts
  <1>3. CASE KeepName \/ PublishName
    <2>1. \A s \in ObjectSym : s \in SymId /\ (s[1] = o => s # here)
      BY DEF here, SymId
    <2> QED
      BY <1>3, <2>1 DEF KeepName, PublishName, TypeOK
  <1>4. CASE MakeGot
    BY <1>4 DEF MakeGot, TypeOK
  <1> QED
    BY <1>1, <1>2, <1>3, <1>4 DEF Loading

LEMMA CallTouches ==
    ASSUME TypeOK, Call, NEW o \in Object
    PROVE  Untouched(o) /\ phase = "idle" /\ UNCHANGED <<ret, objects>>
  <1> USE DEF names, memory, results, Untouched
  <1>1. ASSUME NEW b \in Object, LoadObject(b) \/ ResolveObject(b)
        PROVE  Untouched(o) /\ phase = "idle" /\ UNCHANGED <<ret, objects>>
    BY <1>1 DEF LoadObject, ResolveObject
  <1>2. ASSUME NEW a \in Archive, LoadArchive(a)
        PROVE  Untouched(o) /\ phase = "idle" /\ UNCHANGED <<ret, objects>>
    BY <1>2 DEF LoadArchive
  <1>3. ASSUME NEW n \in HostName, NEW weak \in BOOLEAN, InsertHostSymbol(n, weak)
        PROVE  Untouched(o) /\ phase = "idle" /\ UNCHANGED <<ret, objects>>
    <2>1. \A s \in ObjectSym : s \in SymId /\ s # <<Null, n>>
      BY SymbolData DEF SymId, HostSym
    <2> QED
      BY <1>3, <2>1 DEF InsertHostSymbol, control, TypeOK
  <1>4. ASSUME NEW n \in HostName, NEW weak \in BOOLEAN, InsertHostSymbolAborts(n, weak)
        PROVE  Untouched(o) /\ phase = "idle" /\ UNCHANGED <<ret, objects>>
    BY <1>4 DEF InsertHostSymbolAborts, Die, GoTo
  <1>5. ASSUME NEW f \in Unreadable, LoadFails(f)
        PROVE  Untouched(o) /\ phase = "idle" /\ UNCHANGED <<ret, objects>>
    BY <1>5 DEF LoadFails
  <1> QED
    BY <1>1, <1>2, <1>3, <1>4, <1>5 DEF Call

LEMMA LoadingPhases ==
    ASSUME Loading
    PROVE  phase \in LoadPhase /\ UNCHANGED ret
  BY DEF Loading, LoadSections, LoadSectionsAborts, KeepName, PublishName, GetNamesAborts,
         MakeGot, AtSymbol, PastSymbols, LoadPhase, results

LEMMA RelinkingPhases ==
    ASSUME Relinking
    PROVE  /\ phase \in ResolvePhase /\ UNCHANGED <<cur, objects>>
           /\ \/ phase' \in ResolvePhase \cup {"abort", "fault"}
              \/ ret' = [ret EXCEPT ![cur] = "failure"]
              \/ ProtectGot
  <1> USE DEF GoTo, Advance, Die, Return, ResolvePhase
  <1>1. CASE FillSkip \/ FillSlot \/ FillFails \/ FillFaults \/ VerifyGot
    BY <1>1 DEF FillSkip, FillSlot, FillFails, FillFaults, VerifyGot, AtSymbol, PastSymbols
  <1>2. CASE RelocSkip \/ RelocAborts \/ RelocFaults \/ MakeStubOverruns
    BY <1>2 DEF RelocSkip, RelocAborts, RelocFaults, MakeStubOverruns, Accepted, NeedsStub, Relocatable, AtReloc
  <1>3. CASE WriteDirect \/ ReuseStub \/ MakeStub \/ RelocDone
    BY <1>3 DEF WriteDirect, ReuseStub, MakeStub, RelocDone, BranchesFar, Accepted, NeedsStub,
                Relocatable, AtReloc
  <1>4. CASE ProtectSkip \/ ProtectSection \/ ProtectGot \/ MprotectFails
    BY <1>4 DEF ProtectSkip, ProtectSection, ProtectGot, MprotectFails, AtSection, AtGot
  <1> QED
    BY <1>1, <1>2, <1>3, <1>4 DEF Relinking

(* An object becomes settled at the end of its resolveObject, and nothing of  *)
(* it changes while it stays settled.                                         *)
LEMMA SettledStep ==
    ASSUME TypeOK, ChainInv, SealInv, [Next]_vars, NEW o \in Object, Settled(o)',
           ~(ProtectGot /\ o = cur)
    PROVE  Settled(o) /\ Untouched(o)
  <1>1. CASE Loading
    <2>1. phase \in LoadPhase /\ ret' = ret
      BY <1>1, LoadingPhases
    <2>2. o # cur
      BY <2>1 DEF Settled, SealInv, ChainInv
    <2> QED
      BY <1>1, <2>1, <2>2, LoadingTouches DEF Settled, Resolving
  <1>2. CASE Relinking
    <2>1. /\ phase \in ResolvePhase /\ UNCHANGED cur /\ cur \in Object
          /\ \/ phase' \in ResolvePhase \cup {"abort", "fault"}
             \/ ret' = [ret EXCEPT ![cur] = "failure"]
             \/ ProtectGot
      BY <1>2, RelinkingPhases DEF TypeOK, ResolvePhase
    <2>2. o # cur
      BY <2>1 DEF Settled, Resolving, ResolvePhase, TypeOK
    <2> QED
      BY <1>2, <2>2, RelinkingTouches DEF Settled, Resolving
  <1>3. CASE Call
    <2>1. Untouched(o) /\ phase = "idle" /\ ret' = ret
      BY <1>3, CallTouches
    <2> QED
      BY <2>1 DEF Settled, Resolving
  <1>4. CASE UNCHANGED vars
    BY <1>4 DEF vars, control, names, memory, results, Settled, Resolving, Untouched
  <1> QED
    BY <1>1, <1>2, <1>3, <1>4 DEF Next, Work

------------------------------------------------------------------------------
(* The GOT and the protection.                                                *)

LEMMA SectionIndex ==
    ASSUME NEW s \in SecId
    PROVE  /\ s[1] \in Object /\ s = <<s[1], s[2]>>
           /\ s[2] \in DOMAIN Sections[s[1]] /\ s[2] \in Nat /\ s[2] >= 1
  <1>1. PICK o \in Object : s \in {<<o, i>> : i \in DOMAIN Sections[o]}
    BY DEF SecId
  <1>2. PICK i \in DOMAIN Sections[o] : s = <<o, i>>
    BY <1>1
  <1>3. DOMAIN Sections[o] = 1..Len(Sections[o]) /\ Len(Sections[o]) \in Nat
    BY ObjectFiles
  <1> QED
    BY <1>2, <1>3

(* A loop that has left the range of a sequence has passed all of it.         *)
LEMMA LoopOver ==
    ASSUME TypeOK, ChainInv, NEW T, NEW q \in Seq(T), pos \notin DOMAIN q
    PROVE  \A i \in DOMAIN q : i < pos
  <1>1. DOMAIN q = 1..Len(q) /\ Len(q) \in Nat
    OBVIOUS
  <1>2. pos \in Nat /\ pos >= 1
    BY DEF TypeOK, ChainInv
  <1> QED
    BY <1>1, <1>2

FilledBefore(k) == \A s \in ObjectSym : s[1] = cur /\ s[2] < k /\ NeedGotSlot(s) => Filled(s)

LEMMA FillStep ==
    ASSUME TypeOK, ChainInv, SealInv, [Next]_vars, phase' = "fill_got"
    PROVE  FilledBefore(pos)'
  <1>1. CASE FillSkip \/ FillSlot
    <2>1. /\ AtSymbol("fill_got") /\ pos' = pos + 1 /\ cur' = cur /\ pos \in Nat
          /\ cur \in Object
      BY <1>1 DEF FillSkip, FillSlot, Advance, GoTo, AtSymbol, TypeOK
    <2>2. FilledBefore(pos)
      BY <2>1 DEF SealInv, FilledBefore, AtSymbol
    <2>3. here \in ObjectSym /\ here \in SymId
      BY <2>1, HereIsSymbol
    <2>4. \A s \in ObjectSym : s[1] = cur /\ s[2] < pos + 1 => s = here \/ s[2] < pos
      BY <2>1, SymbolData, SymbolIndex DEF here
    <2>5. CASE FillSkip
      BY <2>1, <2>2, <2>4, <2>5 DEF FillSkip, FilledBefore, Filled, names, memory
    <2>6. CASE FillSlot
      <3>1. addr'[here] = GotAddr(here) /\ got'[here] = GotAddr(here) /\ GotAddr(here) # Null
        BY <2>3, <2>6 DEF FillSlot, TypeOK
      <3>2. \A s \in ObjectSym : s # here => addr'[s] = addr[s] /\ got'[s] = got[s]
        BY <2>3, <2>6 DEF FillSlot, TypeOK, SymId
      <3> QED
        BY <2>1, <2>2, <2>4, <3>1, <3>2 DEF FilledBefore, Filled
    <2> QED
      BY <1>1, <2>5, <2>6
  <1>2. CASE Call
    <2>1. \E o \in Object : ResolveObject(o)
      BY <1>2 DEF Call, LoadObject, LoadArchive, LoadFails, InsertHostSymbol, InsertHostSymbolAborts, Die, GoTo,
                  control
    <2>2. pos' = 1
      BY <2>1 DEF ResolveObject
    <2> QED
      BY <2>2, SymbolIndex DEF FilledBefore
  <1>3. CASE UNCHANGED vars
    BY <1>3 DEF vars, control, names, memory, SealInv, FilledBefore, Filled
  <1>4. CASE Loading
    BY <1>4 DEF Loading, LoadSections, LoadSectionsAborts, KeepName, PublishName, GetNamesAborts,
                MakeGot, Advance, Die, GoTo, AtSymbol
  <1>5. CASE Relinking /\ ~(FillSkip \/ FillSlot)
    BY <1>5 DEF Relinking, FillFails, FillFaults, VerifyGot, RelocSkip, RelocAborts, RelocFaults, MakeStubOverruns,
                WriteDirect, ReuseStub, MakeStub, RelocDone, ProtectSkip, ProtectSection,
                ProtectGot, MprotectFails, BranchesFar, Accepted, NeedsStub, Relocatable, AtReloc, AtSection,
                AtGot, Advance, Die, Return, GoTo
  <1> QED
    BY <1>1, <1>2, <1>3, <1>4, <1>5 DEF Next, Work

(* verify_got never finds a slot that differs.                                *)
LEMMA GotVerified ==
    ASSUME TypeOK, ChainInv, SealInv, PastSymbols("fill_got")
    PROVE  GotFilled(cur) /\ GotHolds(cur)
  <1>1. phase = "fill_got" /\ cur \in Object /\ pos \notin DOMAIN Symbols[cur]
    BY DEF PastSymbols, TypeOK
  <1>2. Symbols[cur] \in Seq(ElfSym)
    BY <1>1, ObjectFiles
  <1>3. \A j \in DOMAIN Symbols[cur] : j < pos
    BY <1>1, <1>2, LoopOver
  <1>4. GotFilled(cur)
    BY <1>1, <1>3, SymbolIndex DEF SealInv, GotFilled
  <1>5. \A j \in DOMAIN Symbols[cur] : <<cur, j>> \in ObjectSym
    BY <1>1 DEF ObjectSym
  <1> QED
    BY <1>4, <1>5 DEF GotFilled, GotHolds, Filled

LEMMA GotFilledStep ==
    ASSUME TypeOK, ChainInv, SealInv, [Next]_vars, phase' \in {"relocate", "mprotect"}
    PROVE  GotFilled(cur)'
  <1>1. CASE VerifyGot
    BY <1>1, GotVerified DEF VerifyGot, GotFilled, Filled, Die, GoTo, names, memory
  <1>2. ASSUME phase \in {"relocate", "mprotect"}, UNCHANGED <<cur, addr, got>>
        PROVE  GotFilled(cur)'
    BY <1>2 DEF SealInv, GotFilled, Filled
  <1>3. CASE RelocSkip \/ RelocDone \/ WriteDirect \/ ReuseStub \/ MakeStub
    BY <1>2, <1>3 DEF RelocSkip, RelocDone, WriteDirect, ReuseStub, MakeStub, BranchesFar, Accepted, NeedsStub,
                Relocatable, AtReloc, Advance, GoTo, names, memory
  <1>4. CASE ProtectSkip \/ ProtectSection
    BY <1>2, <1>4 DEF ProtectSkip, ProtectSection, AtSection, Advance, GoTo, names, memory
  <1>5. CASE UNCHANGED vars
    BY <1>2, <1>5 DEF vars, control, names, memory
  <1>6. CASE Loading
    BY <1>6 DEF Loading, LoadSections, LoadSectionsAborts, KeepName, PublishName, GetNamesAborts,
                MakeGot, Advance, Die, GoTo, AtSymbol
  <1>7. CASE Call
    BY <1>7 DEF Call, LoadObject, LoadArchive, LoadFails, ResolveObject, InsertHostSymbol,
                InsertHostSymbolAborts, Die, GoTo, control
  <1>8. CASE FillSkip \/ FillSlot \/ FillFails \/ FillFaults \/ RelocAborts \/ RelocFaults \/ MakeStubOverruns
             \/ ProtectGot \/ MprotectFails
    BY <1>8 DEF FillSkip, FillSlot, FillFails, FillFaults, RelocAborts, RelocFaults, MakeStubOverruns, ProtectGot,
                MprotectFails, AtSymbol, Advance, Die, Return, GoTo
  <1> QED
    BY <1>1, <1>3, <1>4, <1>5, <1>6, <1>7, <1>8 DEF Next, Work, Relinking

ProtectedBefore(k) == \A s \in SecId : s[1] = cur /\ s[2] < k => Protected(s)

LEMMA ProtectStep ==
    ASSUME TypeOK, ChainInv, SealInv, [Next]_vars, phase' = "mprotect"
    PROVE  ProtectedBefore(pos)'
  <1>1. CASE RelocDone
    BY <1>1, SectionIndex DEF RelocDone, GoTo, ProtectedBefore
  <1>2. CASE ProtectSkip \/ ProtectSection
    <2>1. /\ phase = "mprotect" /\ pos' = pos + 1 /\ cur' = cur /\ pos \in Nat
          /\ ProtectedBefore(pos)
      BY <1>2 DEF ProtectSkip, ProtectSection, AtSection, Advance, GoTo, TypeOK, SealInv,
                  ProtectedBefore
    <2>2. \A s \in SecId : s[1] = cur /\ s[2] < pos + 1 => s = here \/ s[2] < pos
      BY <2>1, SectionIndex DEF here
    <2>3. CASE ProtectSkip
      BY <2>1, <2>2, <2>3 DEF ProtectSkip, ProtectedBefore, Protected, memory
    <2>4. CASE ProtectSection
      <3>1. \A s \in SecId :
               prot'[s] = IF s = here THEN ProtFlags(SectionKind(here)) ELSE prot[s]
        BY <2>4 DEF ProtectSection, TypeOK
      <3> QED
        BY <2>1, <2>2, <3>1 DEF ProtectedBefore, Protected
    <2> QED
      BY <1>2, <2>3, <2>4
  <1>3. CASE UNCHANGED vars
    BY <1>3 DEF vars, control, memory, SealInv, ProtectedBefore, Protected
  <1>4. CASE Loading
    BY <1>4 DEF Loading, LoadSections, LoadSectionsAborts, KeepName, PublishName, GetNamesAborts,
                MakeGot, Advance, Die, GoTo, AtSymbol
  <1>5. CASE Call
    BY <1>5 DEF Call, LoadObject, LoadArchive, LoadFails, ResolveObject, InsertHostSymbol,
                InsertHostSymbolAborts, Die, GoTo, control
  <1>6. CASE Relinking /\ ~(RelocDone \/ ProtectSkip \/ ProtectSection)
    BY <1>6 DEF Relinking, FillSkip, FillSlot, FillFails, FillFaults, VerifyGot, RelocSkip,
                RelocAborts, RelocFaults, MakeStubOverruns, WriteDirect, ReuseStub, MakeStub, ProtectGot,
                MprotectFails, BranchesFar, Accepted, NeedsStub, Relocatable, AtReloc, AtSymbol,
                Advance, Die, Return, GoTo
  <1> QED
    BY <1>1, <1>2, <1>3, <1>4, <1>5, <1>6 DEF Next, Work

(* The end of resolveObject.                                                  *)
LEMMA SealedAtEnd ==
    ASSUME TypeOK, ChainInv, SealInv, ProtectGot
    PROVE  Sealed(cur)'
  <1>1. /\ phase = "mprotect" /\ cur \in Object /\ pos \notin DOMAIN Sections[cur]
        /\ gotProt' = [gotProt EXCEPT ![cur] = IF HasGot(cur) THEN "rx" ELSE @]
        /\ UNCHANGED <<addr, got, prot, cur>>
    BY DEF ProtectGot, AtGot, Return, GoTo, names, TypeOK
  <1>2. Sections[cur] \in Seq(Header)
    BY <1>1, ObjectFiles
  <1>3. \A i \in DOMAIN Sections[cur] : i < pos
    BY <1>1, <1>2, LoopOver
  <1>4. \A s \in SecId : s[1] = cur => Protected(s)
    BY <1>1, <1>3, SectionIndex DEF SealInv
  <1>5. GotFilled(cur)
    BY <1>1 DEF SealInv
  <1>6. HasGot(cur) => gotProt'[cur] = "rx"
    BY <1>1 DEF TypeOK
  <1> QED
    BY <1>1, <1>4, <1>5, <1>6 DEF Sealed, GotFilled, Filled, Protected

LEMMA ReturnedIsLoaded ==
    ASSUME TypeOK, ChainInv, SealInv, [Next]_vars, NEW o \in Object, ret'[o] # "none"
    PROVE  o \in Loaded'
  <1>1. CASE Relinking
    <2>1. phase \in ResolvePhase /\ UNCHANGED objects
      BY <1>1, RelinkingPhases
    <2>2. cur \in Loaded /\ Loaded' = Loaded
      BY <2>1 DEF ChainInv, Loaded
    <2>3. o # cur => ret'[o] = ret[o]
      BY <1>1, RelinkingTouches
    <2> QED
      BY <2>2, <2>3 DEF SealInv
  <1>2. CASE Loading
    <2>1. UNCHANGED ret
      BY <1>2, LoadingPhases
    <2>2. Loaded \subseteq Loaded'
      <3>1. CASE MakeGot
        BY <3>1, ChainGrows
      <3>2. CASE ~MakeGot
        BY <1>2, <3>2 DEF Loading, LoadSections, LoadSectionsAborts, KeepName, PublishName,
                          GetNamesAborts, Advance, Die, GoTo, Loaded
      <3> QED
        BY <3>1, <3>2
    <2> QED
      BY <2>1, <2>2 DEF SealInv
  <1>3. CASE Call
    BY <1>3, CallTouches DEF SealInv, Loaded
  <1>4. CASE UNCHANGED vars
    BY <1>4 DEF vars, control, results, SealInv, Loaded
  <1> QED
    BY <1>1, <1>2, <1>3, <1>4 DEF Next, Work

LEMMA SealStep ==
    ASSUME TypeOK, ChainInv, SealInv, [Next]_vars
    PROVE  SealInv'
  <1>1. phase' = "fill_got" => FilledBefore(pos)'
    BY FillStep
  <1>2. phase' \in {"relocate", "mprotect"} => GotFilled(cur)'
    BY GotFilledStep
  <1>3. phase' = "mprotect" => ProtectedBefore(pos)'
    BY ProtectStep
  <1>4. \A o \in Object : ret'[o] # "none" => o \in Loaded'
    BY ReturnedIsLoaded
  <1>5. ASSUME NEW o \in Object, Settled(o)'
        PROVE  Sealed(o)'
    <2>1. CASE ProtectGot /\ o = cur
      <3>1. Sealed(cur)' /\ cur' = cur
        BY <2>1, SealedAtEnd DEF ProtectGot, Return, GoTo
      <3> QED
        BY <2>1, <3>1
    <2>2. CASE ~(ProtectGot /\ o = cur)
      <3>1. Settled(o) /\ Untouched(o)
        BY <1>5, <2>2, SettledStep
      <3>2. Sealed(o)
        BY <3>1 DEF SealInv
      <3> QED
        BY <3>1, <3>2 DEF Untouched, Sealed, GotFilled, Filled, Protected
    <2> QED
      BY <2>1, <2>2
  <1> QED
    BY <1>1, <1>2, <1>3, <1>4, <1>5 DEF SealInv, FilledBefore, ProtectedBefore

------------------------------------------------------------------------------
(* The relocated places.                                                      *)

LEMMA RelocIndex ==
    ASSUME NEW p \in RelId
    PROVE  /\ p[1] \in Object /\ p = <<p[1], p[2]>>
           /\ p[2] \in DOMAIN Relocs[p[1]] /\ p[2] \in Nat /\ p[2] >= 1
           /\ Rel(p) \in ElfRel
           /\ SymOf(p) \in ObjectSym /\ SymOf(p) \in SymId /\ SymOf(p)[1] = p[1]
           /\ SecOf(p) \in SecId /\ SecOf(p)[1] = p[1]
  <1>1. PICK o \in Object : p \in {<<o, r>> : r \in DOMAIN Relocs[o]}
    BY DEF RelId
  <1>2. PICK r \in DOMAIN Relocs[o] : p = <<o, r>>
    BY <1>1
  <1>3. Relocs[o] \in Seq(ElfRel) /\ SymOf(p) \in ObjectSym /\ SecOf(p) \in SecId
    BY ObjectFiles
  <1>4. DOMAIN Relocs[o] = 1..Len(Relocs[o]) /\ Len(Relocs[o]) \in Nat
    BY <1>3
  <1> QED
    BY <1>2, <1>3, <1>4 DEF SymId, SymOf, SecOf, Rel

(* The layout never changes.                                                  *)
LEMMA FarKept ==
    ASSUME [Next]_vars
    PROVE  far' = far
  BY DEF Next, Work, Loading, Relinking, Call, LoadSections, LoadSectionsAborts, KeepName,
         PublishName, GetNamesAborts, MakeGot, FillSkip, FillSlot, FillFails, FillFaults,
         VerifyGot, RelocSkip, RelocAborts, RelocFaults, MakeStubOverruns, WriteDirect, ReuseStub, MakeStub,
         RelocDone, ProtectSkip, ProtectSection, ProtectGot, MprotectFails, LoadObject,
         LoadArchive, LoadFails, ResolveObject, InsertHostSymbol, InsertHostSymbolAborts, vars

LEMMA ReachesKept ==
    ASSUME NEW p \in RelId, Reaches(p), place'[p] = place[p],
           addr'[SymOf(p)] = addr[SymOf(p)],
           \A k \in DOMAIN stubs[SecOf(p)] :
               k \in DOMAIN stubs'[SecOf(p)] /\ stubs'[SecOf(p)][k] = stubs[SecOf(p)][k]
    PROVE  Reaches(p)'
  <1>1. Wanted(p)' = Wanted(p)
    BY DEF Wanted
  <1>2. Lands(p)' = Lands(p)
    BY DEF Lands, Reaches
  <1> QED
    BY <1>1, <1>2 DEF Reaches

(* A place not relocated before is not read back.                             *)
LEMMA FirstTime ==
    ASSUME TypeOK, PlaceInv, Accepted, Promised(here, 0)
    PROVE  /\ here \in RelId /\ here[1] = cur /\ here[2] = pos
           /\ ~Rewritten(here) /\ Target(here) = Wanted(here)
  <1>1. phase = "relocate" /\ cur \in Object /\ pos \in DOMAIN Relocs[cur]
    BY DEF Accepted, Relocatable, AtReloc, TypeOK
  <1>2. here \in RelId /\ here[1] = cur /\ here[2] = pos /\ pos \in Nat
    BY <1>1, RelocIds DEF here, TypeOK
  <1>3. ~Rewritten(here)
    BY <1>1, <1>2 DEF Promised, PlaceInv, Rewritten
  <1> QED
    BY <1>2, <1>3 DEF Target

LEMMA ReachedDirectly ==
    ASSUME TypeOK, LocalInv, PlaceInv, WriteDirect, NEW p \in RelId, p = here, Promised(p, 0)
    PROVE  Reaches(p)'
  <1>1. /\ Accepted /\ place' = [place EXCEPT ![p] = Target(p)]
        /\ UNCHANGED <<addr, stubs>>
    BY DEF WriteDirect, names
  <1>2. Target(p) = Wanted(p)
    BY <1>1, FirstTime
  <1>3. addr[SymOf(p)] # Null /\ addr[SymOf(p)][1] # "stub"
    BY <1>1, RelocIndex DEF Accepted, NeedsStub, LocalInv
  <1>4. place'[p] = Wanted(p) /\ Wanted(p)[1] # "stub" /\ Wanted(p)' = Wanted(p)
    BY <1>1, <1>2, <1>3 DEF TypeOK, Wanted, GotSlot, Offset
  <1> QED
    BY <1>1, <1>3, <1>4 DEF Reaches, Lands

LEMMA OffsetZero ==
    ASSUME NEW a \in Address
    PROVE  Offset(a, 0) = a
  BY DEF Offset, Address

LEMMA ReachedByStub ==
    ASSUME TypeOK, PlaceInv, BranchesFar, NEW p \in RelId, p = here, Promised(p, 0),
           NEW k \in Nat, BranchTo(k), UNCHANGED addr,
           k \in DOMAIN stubs'[SecOf(p)], stubs'[SecOf(p)][k] = StubTarget(p)
    PROVE  Reaches(p)'
  <1>1. /\ Accepted /\ Rel(p).type = "branch" /\ (p \in far \/ Rewritten(p))
        /\ addr[SymOf(p)] # Null
        /\ place' = [place EXCEPT ![p] = Offset(StubAddr(SecOf(p), k), StubAddend(p))]
    BY DEF BranchesFar, Accepted, NeedsStub, BranchTo
  <1>2. ~Rewritten(p) /\ Target(p) = Wanted(p) /\ p \in far
    BY <1>1, FirstTime
  <1>3. addr[SymOf(p)] \in Address
    BY <1>1, RelocIndex DEF TypeOK
  <1>4. StubAddend(p) = 0 /\ StubTarget(p) = Wanted(p)
    BY <1>1, <1>2, <1>3, OffsetZero, Host DEF Promised, StubAddend, StubTarget, Wanted
  <1>5. place'[p] = <<"stub", SecOf(p), k, 0>>
    BY <1>1, <1>4 DEF StubAddr, Offset, TypeOK
  <1>6. Wanted(p)' = Wanted(p)
    BY DEF Wanted
  <1> QED
    BY <1>1, <1>4, <1>5, <1>6 DEF Reaches, Lands

(* A relocation that is written reaches its target.                           *)
LEMMA ReachedNow ==
    ASSUME TypeOK, LocalInv, PlaceInv, WriteDirect \/ ReuseStub \/ MakeStub,
           NEW p \in RelId, p = here, Promised(p, 0)
    PROVE  Reaches(p)'
  <1>1. CASE WriteDirect
    BY <1>1, ReachedDirectly
  <1>2. stubs[SecOf(p)] \in Seq(Address)
    BY RelocIndex DEF TypeOK
  <1>3. CASE ReuseStub
    <2>1. PICK k \in FindStub(SecOf(p), StubTarget(p)) : BranchTo(k)
      BY <1>3 DEF ReuseStub
    <2>2. k \in Nat /\ k \in DOMAIN stubs[SecOf(p)] /\ stubs[SecOf(p)][k] = StubTarget(p)
      BY <1>2, <2>1 DEF FindStub
    <2> QED
      BY <1>3, <2>1, <2>2, ReachedByStub DEF ReuseStub, names
  <1>4. CASE MakeStub
    <2> DEFINE q == stubs[SecOf(p)]
               k == Len(q) + 1
    <2>1. stubs' = [stubs EXCEPT ![SecOf(p)] = Append(q, StubTarget(p))] /\ BranchTo(k)
      BY <1>4 DEF MakeStub
    <2>2. stubs'[SecOf(p)] = Append(q, StubTarget(p))
      BY <2>1, RelocIndex DEF TypeOK
    <2>3. k \in Nat /\ k \in DOMAIN stubs'[SecOf(p)] /\ stubs'[SecOf(p)][k] = StubTarget(p)
      BY <1>2, <2>2
    <2> HIDE DEF k, q
    <2> QED
      BY <1>4, <2>1, <2>3, ReachedByStub DEF MakeStub, names
  <1> QED
    BY <1>1, <1>3, <1>4

(* Stubs are only appended.                                                   *)
LEMMA StubsGrow ==
    ASSUME TypeOK, MakeStub, NEW s \in SecId
    PROVE  /\ s # SecOf(here) => stubs'[s] = stubs[s]
           /\ s = SecOf(here) => stubs'[s] = Append(stubs[s], StubTarget(here))
           /\ \A k \in DOMAIN stubs[s] : k \in DOMAIN stubs'[s] /\ stubs'[s][k] = stubs[s][k]
  <1>1. /\ cur \in Object /\ pos \in DOMAIN Relocs[cur] /\ addr[SymOf(here)] # Null
        /\ stubs' = [stubs EXCEPT ![SecOf(here)] = Append(@, StubTarget(here))]
    BY DEF MakeStub, BranchesFar, Accepted, NeedsStub, Relocatable, AtReloc, TypeOK
  <1>2. stubs[s] \in Seq(Address) /\ StubTarget(here) \in Address
    BY <1>1, TargetType DEF TypeOK
  <1>3. /\ s # SecOf(here) => stubs'[s] = stubs[s]
        /\ s = SecOf(here) => stubs'[s] = Append(stubs[s], StubTarget(here))
    BY <1>1 DEF TypeOK
  <1>4. \A k \in DOMAIN stubs[s] :
            /\ k \in DOMAIN Append(stubs[s], StubTarget(here))
            /\ Append(stubs[s], StubTarget(here))[k] = stubs[s][k]
    BY <1>2, AppendProperties
  <1> QED
    BY <1>3, <1>4

(* Which steps write a place or a stub, and which move through the entries.   *)
LEMMA WriteStep ==
    ASSUME TypeOK, [Next]_vars
    PROVE  \/ /\ WriteDirect \/ ReuseStub \/ MakeStub
              /\ phase = "relocate" /\ phase' = "relocate" /\ pos' = pos + 1
              /\ UNCHANGED <<cur, addr, passes>>
              /\ \A p \in RelId : p # here => place'[p] = place[p]
              /\ \A s \in SecId : \A k \in DOMAIN stubs[s] :
                    k \in DOMAIN stubs'[s] /\ stubs'[s][k] = stubs[s][k]
           \/ UNCHANGED <<place, stubs>>
  <1>1. CASE WriteDirect \/ ReuseStub \/ MakeStub
    <2>1. /\ phase = "relocate" /\ phase' = "relocate" /\ pos' = pos + 1
          /\ UNCHANGED <<cur, addr, passes>>
          /\ \A p \in RelId : p # here => place'[p] = place[p]
      BY <1>1 DEF WriteDirect, ReuseStub, MakeStub, BranchTo, BranchesFar, Accepted, NeedsStub, Relocatable,
                  AtReloc, Advance, GoTo, names, results, TypeOK
    <2>2. \A s \in SecId : \A k \in DOMAIN stubs[s] :
              k \in DOMAIN stubs'[s] /\ stubs'[s][k] = stubs[s][k]
      BY <1>1, StubsGrow DEF WriteDirect, ReuseStub
    <2> QED
      BY <1>1, <2>1, <2>2
  <1>2. CASE Loading
    BY <1>2 DEF Loading, LoadSections, LoadSectionsAborts, KeepName, PublishName, GetNamesAborts,
                MakeGot, memory
  <1>3. CASE Relinking /\ ~(WriteDirect \/ ReuseStub \/ MakeStub)
    BY <1>3 DEF Relinking, FillSkip, FillSlot, FillFails, FillFaults, VerifyGot, RelocSkip,
                RelocAborts, RelocFaults, MakeStubOverruns, RelocDone, ProtectSkip, ProtectSection, ProtectGot,
                MprotectFails, memory
  <1>4. CASE Call
    BY <1>4 DEF Call, LoadObject, LoadArchive, LoadFails, ResolveObject, InsertHostSymbol,
                InsertHostSymbolAborts, memory
  <1>5. CASE UNCHANGED vars
    BY <1>5 DEF vars, memory
  <1> QED
    BY <1>1, <1>2, <1>3, <1>4, <1>5 DEF Next, Work

LEMMA RelocateStep ==
    ASSUME TypeOK, ChainInv, [Next]_vars, phase = "relocate"
    PROVE  /\ UNCHANGED <<cur, addr>>
           /\ \/ phase' \in {"abort", "fault"} /\ UNCHANGED <<pos, passes>>
              \/ phase' = "relocate" /\ UNCHANGED <<pos, passes>> /\ UNCHANGED vars
              \/ /\ phase' = "relocate" /\ pos' = pos + 1 /\ UNCHANGED passes
                 /\ RelocSkip \/ WriteDirect \/ ReuseStub \/ MakeStub
              \/ /\ phase' = "mprotect" /\ pos \notin DOMAIN Relocs[cur]
                 /\ passes' = [passes EXCEPT ![cur] = @ + 1] /\ UNCHANGED <<place, stubs>>
  <1> USE DEF GoTo, Advance, Die, names, results
  <1>1. CASE RelocSkip \/ RelocAborts \/ RelocFaults \/ MakeStubOverruns
    BY <1>1 DEF RelocSkip, RelocAborts, RelocFaults, MakeStubOverruns
  <1>2. CASE WriteDirect \/ ReuseStub \/ MakeStub
    BY <1>2 DEF WriteDirect, ReuseStub, MakeStub
  <1>3. CASE RelocDone
    BY <1>3 DEF RelocDone, memory
  <1>4. CASE UNCHANGED vars
    BY <1>4 DEF vars, control
  <1>5. ~(Loading \/ Call)
    BY DEF Loading, LoadSections, LoadSectionsAborts, KeepName, PublishName, GetNamesAborts,
           MakeGot, AtSymbol, PastSymbols, Call, LoadObject, LoadArchive, LoadFails, ResolveObject,
           InsertHostSymbol, InsertHostSymbolAborts
  <1>6. ~(FillSkip \/ FillSlot \/ FillFails \/ FillFaults \/ VerifyGot \/ ProtectSkip
          \/ ProtectSection \/ ProtectGot \/ MprotectFails)
    BY DEF FillSkip, FillSlot, FillFails, FillFaults, VerifyGot, ProtectSkip, ProtectSection,
           ProtectGot, MprotectFails, AtSymbol, PastSymbols, AtSection, AtGot
  <1> QED
    BY <1>1, <1>2, <1>3, <1>4, <1>5, <1>6 DEF Next, Work, Relinking

(* The relocations of an object are counted, never uncounted.                 *)
LEMMA PassesGrow ==
    ASSUME TypeOK, [Next]_vars, NEW o \in Object
    PROVE  passes'[o] \in {passes[o], passes[o] + 1} /\ passes[o] \in Nat
  <1>1. CASE RelocDone
    BY <1>1 DEF RelocDone, TypeOK
  <1>2. CASE Next /\ ~RelocDone
    BY <1>2 DEF Next, Work, Loading, Relinking, Call, LoadSections, LoadSectionsAborts, KeepName,
         PublishName, GetNamesAborts, MakeGot, FillSkip, FillSlot, FillFails, FillFaults,
         VerifyGot, RelocSkip, RelocAborts, RelocFaults, MakeStubOverruns, WriteDirect, ReuseStub, MakeStub,
         ProtectSkip, ProtectSection, ProtectGot, MprotectFails, LoadObject,
         LoadArchive, LoadFails, ResolveObject, InsertHostSymbol, InsertHostSymbolAborts, results, TypeOK
  <1>3. CASE UNCHANGED vars
    BY <1>3 DEF vars, results, TypeOK
  <1> QED
    BY <1>1, <1>2, <1>3

LEMMA FreshPlaces ==
    ASSUME TypeOK, ChainInv, PlaceInv, [Next]_vars, phase' \notin {"abort", "fault"},
           NEW p \in RelId, passes'[p[1]] = 0,
           ~(phase' = "relocate" /\ p[1] = cur' /\ p[2] < pos')
    PROVE  place'[p] = Null
  <1>1. passes[p[1]] = 0
    BY PassesGrow, RelocIndex
  <1>2. p[2] \in Nat /\ pos \in Nat /\ p[1] \in Object
    BY RelocIndex DEF TypeOK
  <1>3. phase \notin {"abort", "fault"}
    BY NoStepAfterEnd DEF vars, control
  <1>4. ~(phase = "relocate" /\ p[1] = cur /\ p[2] < pos)
    <2> SUFFICES ASSUME phase = "relocate", p[1] = cur, p[2] < pos PROVE FALSE
      OBVIOUS
    <2>1. phase' # "relocate"
      BY <1>2, RelocateStep DEF vars, control
    <2>2. passes'[cur] = passes[cur] + 1 /\ passes[cur] \in Nat
      BY <1>2, <2>1, RelocateStep DEF TypeOK
    <2> QED
      BY <2>2
  <1>5. place[p] = Null
    BY <1>1, <1>3, <1>4 DEF PlaceInv
  <1>6. place'[p] = place[p]
    <2>1. CASE UNCHANGED place
      BY <2>1
    <2>2. CASE ~UNCHANGED place
      BY <1>2, <2>2, WriteStep DEF here
    <2> QED
      BY <2>1, <2>2
  <1> QED
    BY <1>5, <1>6

LEMMA PlacesRelocated ==
    ASSUME TypeOK, ChainInv, LocalInv, PlaceInv, [Next]_vars, phase' = "relocate",
           NEW p \in RelId, p[1] = cur', p[2] < pos', Promised(p, 0)'
    PROVE  Reaches(p)'
  <1>1. p[2] \in Nat /\ p[2] >= 1 /\ pos \in Nat /\ p = <<p[1], p[2]>> /\ p[1] \in Object
        /\ SymOf(p) \in SymId /\ SecOf(p) \in SecId
    BY RelocIndex DEF TypeOK
  <1>2. phase = "relocate"
    <2>1. phase # "relocate" => (VerifyGot /\ pos' = 1)
      BY DEF Next, Work, Loading, Relinking, Call, LoadSections, LoadSectionsAborts, KeepName,
         PublishName, GetNamesAborts, MakeGot, FillSkip, FillSlot, FillFails, FillFaults,
         VerifyGot, RelocSkip, RelocAborts, RelocFaults, MakeStubOverruns, WriteDirect, ReuseStub, MakeStub,
         RelocDone, ProtectSkip, ProtectSection, ProtectGot, MprotectFails, AtSymbol,
         PastSymbols, BranchesFar, Accepted, NeedsStub, Relocatable, AtReloc, AtSection, AtGot,
         LoadObject, LoadArchive, LoadFails, ResolveObject, InsertHostSymbol, InsertHostSymbolAborts,
         GoTo, Advance, Die, Return, vars, control
    <2> QED
      BY <1>1, <2>1
  <1>3. UNCHANGED <<cur, addr, passes>> /\ pos' \in {pos, pos + 1}
    BY <1>2, RelocateStep
  <1>4. Promised(p, 0)
    BY <1>3, FarKept DEF Promised
  <1>5. CASE p[2] < pos
    <2>1. Reaches(p)
      BY <1>2, <1>3, <1>4, <1>5 DEF PlaceInv
    <2>2. place'[p] = place[p]
      BY <1>1, <1>5, WriteStep DEF here
    <2>3. \A k \in DOMAIN stubs[SecOf(p)] :
             k \in DOMAIN stubs'[SecOf(p)] /\ stubs'[SecOf(p)][k] = stubs[SecOf(p)][k]
      BY <1>1, WriteStep
    <2> QED
      BY <1>3, <2>1, <2>2, <2>3, ReachesKept
  <1>6. CASE ~(p[2] < pos)
    <2>1. p = here /\ pos' = pos + 1
      BY <1>1, <1>3, <1>6 DEF here
    <2>2. ~RelocSkip
      BY <1>4, <2>1 DEF RelocSkip, Promised, Relocated
    <2>3. ~UNCHANGED vars
      BY <1>1, <2>1 DEF vars, control
    <2>4. WriteDirect \/ ReuseStub \/ MakeStub
      BY <1>2, <2>2, <2>3, RelocateStep
    <2> QED
      BY <1>4, <2>1, <2>4, ReachedNow
  <1> QED
    BY <1>5, <1>6

LEMMA PlacesAtProtect ==
    ASSUME TypeOK, ChainInv, PlaceInv, [Next]_vars, phase' = "mprotect",
           NEW p \in RelId, p[1] = cur', Promised(p, 1)'
    PROVE  Reaches(p)'
  <1>1. p[1] \in Object /\ p[2] \in DOMAIN Relocs[p[1]]
        /\ SymOf(p) \in SymId /\ SecOf(p) \in SecId
    BY RelocIndex
  <1>2. CASE phase = "relocate"
    <2>1. /\ UNCHANGED <<cur, addr, place, stubs>> /\ pos \notin DOMAIN Relocs[cur]
          /\ passes' = [passes EXCEPT ![cur] = @ + 1]
      BY <1>2, RelocateStep
    <2>2. Relocs[cur] \in Seq(ElfRel)
      BY <1>1, <2>1, ObjectFiles
    <2>3. p[2] < pos
      BY <1>1, <2>1, <2>2, LoopOver
    <2>4. Promised(p, 0)
      BY <1>1, <2>1, FarKept DEF Promised, TypeOK
    <2>5. Reaches(p)
      BY <1>2, <2>1, <2>3, <2>4 DEF PlaceInv
    <2> QED
      BY <2>1, <2>5, ReachesKept
  <1>3. CASE phase # "relocate"
    <2>1. phase = "mprotect" /\ UNCHANGED <<cur, addr, place, stubs, passes>>
      BY <1>3 DEF Next, Work, Loading, Relinking, Call, LoadSections, LoadSectionsAborts, KeepName,
         PublishName, GetNamesAborts, MakeGot, FillSkip, FillSlot, FillFails, FillFaults,
         VerifyGot, RelocSkip, RelocAborts, RelocFaults, MakeStubOverruns, WriteDirect, ReuseStub, MakeStub,
         RelocDone, ProtectSkip, ProtectSection, ProtectGot, MprotectFails, AtSymbol,
         PastSymbols, BranchesFar, Accepted, NeedsStub, Relocatable, AtReloc, AtSection, AtGot,
         LoadObject, LoadArchive, LoadFails, ResolveObject, InsertHostSymbol, InsertHostSymbolAborts,
         GoTo, Advance, Die, Return, vars, control, names, memory, results
    <2>2. Promised(p, 1)
      BY <2>1, FarKept DEF Promised
    <2>3. Reaches(p)
      BY <2>1, <2>2 DEF PlaceInv
    <2> QED
      BY <2>1, <2>3, ReachesKept
  <1> QED
    BY <1>2, <1>3

LEMMA PlacesSettled ==
    ASSUME TypeOK, ChainInv, SealInv, PlaceInv, [Next]_vars,
           NEW p \in RelId, Settled(p[1])', Promised(p, 1)'
    PROVE  Reaches(p)'
  <1>1. /\ p[1] \in Object /\ SymOf(p) \in ObjectSym /\ SymOf(p)[1] = p[1]
        /\ SecOf(p) \in SecId /\ SecOf(p)[1] = p[1]
    BY RelocIndex
  <1>2. CASE ProtectGot /\ p[1] = cur
    <2>1. phase = "mprotect" /\ UNCHANGED <<addr, place, stubs, passes>>
      BY <1>2 DEF ProtectGot, AtGot, names
    <2>2. Promised(p, 1)
      BY <2>1, FarKept DEF Promised
    <2>3. Reaches(p)
      BY <1>2, <2>1, <2>2 DEF PlaceInv
    <2> QED
      BY <2>1, <2>3, ReachesKept
  <1>3. CASE ~(ProtectGot /\ p[1] = cur)
    <2>1. Settled(p[1]) /\ Untouched(p[1])
      BY <1>1, <1>3, SettledStep
    <2>2. Promised(p, 1)
      BY <2>1, FarKept DEF Promised, Untouched
    <2>3. Reaches(p)
      BY <2>1, <2>2 DEF PlaceInv
    <2> QED
      BY <1>1, <2>1, <2>3, ReachesKept DEF Untouched
  <1> QED
    BY <1>2, <1>3

LEMMA PlaceStep ==
    ASSUME TypeOK, ChainInv, LocalInv, SealInv, PlaceInv, [Next]_vars
    PROVE  PlaceInv'
  BY FreshPlaces, PlacesRelocated, PlacesAtProtect, PlacesSettled DEF PlaceInv

------------------------------------------------------------------------------
(* The stubs.                                                                 *)

LEMMA AppendDistinct ==
    ASSUME NEW T, NEW q \in Seq(T), NEW t \in T,
           \A i, k \in DOMAIN q : q[i] = q[k] => i = k,
           \A i \in DOMAIN q : q[i] # t
    PROVE  \A i, k \in DOMAIN Append(q, t) : Append(q, t)[i] = Append(q, t)[k] => i = k
  <1>1. DOMAIN Append(q, t) = 1..(Len(q) + 1) /\ DOMAIN q = 1..Len(q) /\ Len(q) \in Nat
    BY AppendProperties
  <1>2. /\ Append(q, t)[Len(q) + 1] = t
        /\ \A i \in 1..Len(q) : Append(q, t)[i] = q[i]
    BY AppendProperties
  <1>3. \A i \in DOMAIN Append(q, t) : i \in DOMAIN q \/ i = Len(q) + 1
    BY <1>1
  <1> QED
    BY <1>1, <1>2, <1>3

LEMMA StubsChange ==
    ASSUME TypeOK, [Next]_vars, ~MakeStub
    PROVE  UNCHANGED stubs
  <1>1. CASE WriteDirect \/ ReuseStub
    BY <1>1 DEF WriteDirect, ReuseStub
  <1>2. CASE ~(WriteDirect \/ ReuseStub)
    BY <1>2, WriteStep
  <1> QED
    BY <1>1, <1>2

LEMMA DistinctStep ==
    ASSUME TypeOK, StubsDistinct, [Next]_vars
    PROVE  StubsDistinct'
  <1>1. CASE MakeStub
    <2> SUFFICES ASSUME NEW s \in SecId, NEW i \in DOMAIN stubs'[s], NEW k \in DOMAIN stubs'[s],
                        stubs'[s][i] = stubs'[s][k]
                 PROVE  i = k
      BY DEF StubsDistinct
    <2> DEFINE t == StubTarget(here)
    <2>1. /\ stubs[s] \in Seq(Address) /\ t \in Address
          /\ s # SecOf(here) => stubs'[s] = stubs[s]
          /\ s = SecOf(here) => stubs'[s] = Append(stubs[s], t)
      BY <1>1, StubsGrow, TargetType
         DEF TypeOK, MakeStub, BranchesFar, Accepted, NeedsStub, Relocatable, AtReloc
    <2>2. CASE s # SecOf(here)
      BY <2>1, <2>2 DEF StubsDistinct
    <2>3. CASE s = SecOf(here)
      <3>1. \A j \in DOMAIN stubs[s] : stubs[s][j] # t
        BY <1>1, <2>3 DEF MakeStub, FindStub
      <3>2. \A j, l \in DOMAIN stubs[s] : stubs[s][j] = stubs[s][l] => j = l
        BY DEF StubsDistinct
      <3>3. \A j, l \in DOMAIN Append(stubs[s], t) :
                Append(stubs[s], t)[j] = Append(stubs[s], t)[l] => j = l
        BY <2>1, <3>1, <3>2, AppendDistinct
      <3> QED
        BY <2>1, <2>3, <3>3
    <2> QED
      BY <2>2, <2>3
  <1>2. CASE ~MakeStub
    <2>1. UNCHANGED stubs
      BY <1>2, StubsChange
    <2> QED
      BY <2>1 DEF StubsDistinct
  <1> QED
    BY <1>1, <1>2

(* Once implicit addends are read a second time, that stays so.               *)
LEMMA RedoingStep ==
    ASSUME TypeOK, ChainInv, [Next]_vars, NEW o \in Object, Redoing(o)
    PROVE  Redoing(o)'
  <1>1. passes'[o] \in {passes[o], passes[o] + 1} /\ passes[o] \in Nat
    BY PassesGrow
  <1>2. CASE passes[o] >= 2
    BY <1>1, <1>2 DEF Redoing
  <1>3. CASE passes[o] = 1 /\ cur = o /\ phase = "relocate"
    BY <1>1, <1>3, RelocateStep DEF Redoing, TypeOK
  <1>4. CASE passes[o] = 1 /\ cur = o /\ phase \in {"abort", "fault"}
    BY <1>1, <1>4, NoStepAfterEnd DEF Redoing, vars, control, results
  <1> QED
    BY <1>2, <1>3, <1>4 DEF Redoing

LEMMA MadeForKept ==
    ASSUME AddrStep, NEW s \in SecId, NEW a, NEW r \in DOMAIN Relocs[s[1]], MadeFor(s, a, r)
    PROVE  MadeFor(s, a, r)'
  <1> DEFINE p == <<s[1], r>>
  <1>1. p \in RelId
    BY SectionIndex DEF RelId
  <1>2. SymOf(p) \in SymId /\ addr[SymOf(p)] # Null
    BY <1>1, RelocIndex DEF MadeFor
  <1>3. addr'[SymOf(p)] = addr[SymOf(p)]
    BY <1>2 DEF AddrStep
  <1> QED
    BY <1>2, <1>3 DEF MadeFor, Wanted

LEMMA StubStep ==
    ASSUME TypeOK, ChainInv, NamesInv, PlaceInv, StubInv, [Next]_vars
    PROVE  StubInv'
  <1>1. AddrStep
    BY NamesStep
  <1>2. StubsDistinct'
    BY DistinctStep DEF StubInv
  <1> DEFINE Exempt(s) == Redoing(s[1]) /\ \E p \in RelId : SecOf(p) = s /\ Rel(p).implicit
             Made(s) == \A k \in DOMAIN stubs[s] :
                           \E r \in DOMAIN Relocs[s[1]] : MadeFor(s, stubs[s][k], r)
  <1>3. ASSUME NEW s \in SecId
        PROVE  Exempt(s)' \/ Made(s)'
    <2>1. CASE Exempt(s)
      BY <1>3, <2>1, RedoingStep, SectionIndex
    <2>2. CASE Made(s) /\ stubs'[s] = stubs[s]
      BY <1>1, <1>3, <2>2, MadeForKept
    <2>3. CASE Made(s) /\ stubs'[s] # stubs[s]
      <3>1. MakeStub
        BY <2>3, WriteStep DEF WriteDirect, ReuseStub
      <3>2. /\ Accepted /\ phase = "relocate" /\ cur \in Object /\ pos \in DOMAIN Relocs[cur]
            /\ Rel(here).type = "branch" /\ addr[SymOf(here)] # Null
            /\ UNCHANGED <<cur, addr, passes>> /\ phase' = "relocate"
        BY <3>1 DEF MakeStub, BranchesFar, Accepted, NeedsStub, Relocatable, AtReloc, Advance, GoTo, names,
                    results, TypeOK
      <3>3. /\ here \in RelId /\ here[1] = cur /\ here[2] = pos /\ pos \in Nat
            /\ here = <<cur, pos>>
        BY <3>2, RelocIds DEF here, TypeOK
      <3>4. /\ s = SecOf(here) /\ s[1] = cur
            /\ stubs'[s] = Append(stubs[s], StubTarget(here))
        BY <1>3, <2>3, <3>1, <3>3, StubsGrow DEF SecOf
      <3>5. CASE Rewritten(here)
        <4>1. place[here] # Null /\ Rel(here).implicit
          BY <3>5 DEF Rewritten
        <4>2. passes[cur] # 0
          BY <3>2, <3>3, <4>1 DEF PlaceInv
        <4>3. Redoing(s[1])'
          BY <3>2, <3>4, <4>2 DEF Redoing, TypeOK
        <4> QED
          BY <3>3, <3>4, <4>1, <4>3
      <3>6. CASE ~Rewritten(here)
        <4>1. StubTarget(here) = IF Arch = "arm" THEN Wanted(here) ELSE addr[SymOf(here)]
          BY <3>6 DEF StubTarget, Target
        <4>2. MadeFor(s, StubTarget(here), pos)
          BY <3>2, <3>3, <3>4, <4>1 DEF MadeFor, SecOf, NeedStub
        <4>3. pos \in DOMAIN Relocs[s[1]] /\ stubs[s] \in Seq(Address)
          BY <1>3, <3>2, <3>4 DEF TypeOK
        <4>4. ASSUME NEW k \in DOMAIN Append(stubs[s], StubTarget(here))
              PROVE  \E r \in DOMAIN Relocs[s[1]] :
                         MadeFor(s, Append(stubs[s], StubTarget(here))[k], r)
          <5>1. \/ k \in DOMAIN stubs[s] /\ Append(stubs[s], StubTarget(here))[k] = stubs[s][k]
                \/ Append(stubs[s], StubTarget(here))[k] = StubTarget(here)
            BY <4>3
          <5> QED
            BY <2>3, <4>2, <4>3, <5>1
        <4>5. ASSUME NEW k \in DOMAIN stubs'[s]
              PROVE  \E r \in DOMAIN Relocs[s[1]] : MadeFor(s, stubs[s][k], r)'
          <5>1. PICK r \in DOMAIN Relocs[s[1]] : MadeFor(s, stubs'[s][k], r)
            BY <3>4, <4>4
          <5>2. addr' = addr
            BY <3>2
          <5> QED
            BY <5>1, <5>2 DEF MadeFor, Wanted
        <4> QED
          BY <4>5
      <3> QED
        BY <3>5, <3>6
    <2> QED
      BY <1>3, <2>1, <2>2, <2>3 DEF StubInv
  <1> QED
    BY <1>2, <1>3 DEF StubInv

------------------------------------------------------------------------------
(* The second half of the inductive invariant.                                *)

LEMMA InitResolveInv == Init => ResolveInv
  <1> SUFFICES ASSUME Init PROVE ResolveInv
    OBVIOUS
  <1> USE DEF Init
  <1>1. Loaded = {}
    BY DEF Loaded
  <1>2. LocalInv
    BY <1>1 DEF LocalInv, Named
  <1>3. SealInv
    BY DEF SealInv, Settled
  <1>4. PlaceInv
    BY DEF PlaceInv, Settled, RelId
  <1>5. StubInv
    BY DEF StubInv, StubsDistinct
  <1> QED
    BY <1>2, <1>3, <1>4, <1>5 DEF ResolveInv

LEMMA ResolveStep == TypeOK /\ SessionInv /\ ResolveInv /\ [Next]_vars => ResolveInv'
  BY LocalStep, SealStep, PlaceStep, StubStep DEF SessionInv, NamesInv, ResolveInv

(* What a resolve leaves behind is kept in every session.                     *)
THEOREM ResolveInvariant == Spec => []ResolveInv
  <1>1. TypeOK /\ SessionInv /\ ResolveInv /\ [Next]_vars => ResolveInv'
    BY ResolveStep
  <1> QED
    BY <1>1, InitResolveInv, TypeCorrect, SessionInvariant, PTL DEF Spec

(* An object that was resolved is sealed: GOT, code and constants.            *)
THEOREM ResolvedStaysSealed == Spec => []ResolvedIsSealed
  <1>1. ResolveInv => ResolvedIsSealed
    <2> SUFFICES ASSUME ResolveInv, NEW o \in Object, Settled(o)
                 PROVE  /\ GotHolds(o)
                        /\ \A j \in DOMAIN Symbols[o] :
                               NeedGotSlot(<<o, j>>) => got[<<o, j>>] # Null
                        /\ HasGot(o) => gotProt[o] = "rx"
                        /\ \A s \in SectionsOf(o) :
                               Protectable(s) => prot[s] = ProtFlags(SectionKind(s))
      BY DEF ResolvedIsSealed
    <2>1. Sealed(o)
      BY DEF ResolveInv, SealInv
    <2>2. \A j \in DOMAIN Symbols[o] : <<o, j>> \in ObjectSym
      BY DEF ObjectSym
    <2>3. \A s \in SectionsOf(o) : s \in SecId /\ s[1] = o
      BY DEF SectionsOf, SecId
    <2> QED
      BY <2>1, <2>2, <2>3 DEF Sealed, GotFilled, Filled, Protected, GotHolds
  <1> QED
    BY <1>1, ResolveInvariant, PTL

(* Every place the code promises to relocate reaches its target.              *)
THEOREM PlacesAlwaysRight == Spec => []PlacesRight
  <1>1. ResolveInv => PlacesRight
    BY DEF ResolveInv, PlaceInv, Reaches, PlacesRight
  <1> QED
    BY <1>1, ResolveInvariant, PTL

(* Every use of a name in resolved code and data reaches the definition that  *)
(* a loaded object makes of it, or a slot that holds its address.             *)
THEOREM ReferencesAlwaysRight == Spec => []ReferencesRight
  <1>1. ResolveInv /\ BoundToDefinition => ReferencesRight
    <2> SUFFICES ASSUME ResolveInv, BoundToDefinition,
                        NEW p \in RelId, NEW t \in ObjectSym, NEW s, s = SymOf(p),
                        Settled(p[1]), Promised(p, 1), t[1] \in Loaded, Publishes(t),
                        NeedGotSlot(s), NameOf(s) = NameOf(t), NameOf(s) \notin SystemName
                 PROVE  IF Rel(p).type = "got"
                        THEN Lands(p) = Offset(GotSlot(s), Rel(p).addend) /\ got[s] = OwnAddr(t)
                        ELSE Lands(p) = Offset(OwnAddr(t), Rel(p).addend)
      BY DEF ReferencesRight
    <2>1. s \in ObjectSym /\ s[1] = p[1]
      BY ObjectFiles DEF SymOf
    <2>2. p[1] \in Object
      BY <2>1, SymbolData
    <2>3. Reaches(p)
      BY DEF ResolveInv, PlaceInv
    <2>4. addr[s] = OwnAddr(t)
      BY <2>1, <2>3 DEF Reaches, BoundToDefinition
    <2>5. got[s] = addr[s]
      BY <2>1, <2>2 DEF ResolveInv, SealInv, Sealed, GotFilled, Filled
    <2> QED
      BY <2>3, <2>4, <2>5 DEF Reaches, Wanted
  <1> QED
    BY <1>1, ResolveInvariant, BoundToDefinitionAlways, PTL

(* A target has one stub per section.                                         *)
THEOREM StubsAlwaysDistinct == Spec => []StubsDistinct
  <1>1. ResolveInv => StubsDistinct
    BY DEF ResolveInv, StubInv
  <1> QED
    BY <1>1, ResolveInvariant, PTL

------------------------------------------------------------------------------
(* The stubs are a table of entry points.                                     *)

Entry(s, k) == <<s, stubs[s][k], StubAddr(s, k)>>

LEMMA EntriesAre ==
    \A e : e \in Entries <=> \E s \in SecId : \E k \in DOMAIN stubs[s] : e = Entry(s, k)
  BY DEF Entries, EntriesOf, Entry

LEMMA EntriesWillBe ==
    \A e : e \in Entries' <=> \E s \in SecId : \E k \in DOMAIN stubs'[s] : e = Entry(s, k)'
  BY DEF Entries, EntriesOf, Entry

LEMMA MakeEntry ==
    ASSUME TypeOK, MakeStub
    PROVE  Table!Next
  <1>a. PICK s, t, n : s = SecOf(here) /\ t = StubTarget(here) /\ n = Len(stubs[s])
    OBVIOUS
  <1> DEFINE e == <<s, t, StubAddr(s, n + 1)>>
  <1>1. /\ s \in SecId /\ t \in Address /\ stubs[s] \in Seq(Address)
        /\ stubs'[s] = Append(stubs[s], t) /\ n \in Nat
        /\ \A r \in SecId : r # s => stubs'[r] = stubs[r]
    BY <1>a, StubsGrow, TargetType, RelocIds DEF TypeOK, MakeStub, BranchesFar, Accepted, NeedsStub, Relocatable, AtReloc
  <1>2. \A k \in DOMAIN stubs[s] : stubs[s][k] # t
    BY <1>a DEF MakeStub, FindStub
  <1>3. /\ DOMAIN stubs[s] = 1..n /\ DOMAIN stubs'[s] = 1..(n + 1) /\ stubs'[s][n + 1] = t
        /\ \A k \in 1..n : stubs'[s][k] = stubs[s][k]
    BY <1>a, <1>1, AppendProperties
  <1>4. e \in SecId \X Address \X Address
    <2>1. StubAddr(s, n + 1) \in Address
      BY <1>1 DEF StubAddr, Address
    <2> QED
      BY <1>1, <2>1
  <1>5. e \in Entries'
    <2>1. n + 1 \in DOMAIN stubs'[s] /\ e = Entry(s, n + 1)'
      BY <1>1, <1>3 DEF Entry, StubAddr
    <2> QED
      BY <1>1, <2>1, EntriesWillBe
  <1>6. ASSUME NEW f \in Entries
        PROVE  f \in Entries' /\ ~(f[1] = e[1] /\ f[2] = e[2]) /\ f[3] # e[3]
    <2>a. PICK r \in SecId : \E k \in DOMAIN stubs[r] : f = Entry(r, k)
      BY EntriesAre
    <2>1. PICK k \in DOMAIN stubs[r] : f = Entry(r, k)
      BY <2>a
    <2>2. k \in DOMAIN stubs'[r] /\ stubs'[r][k] = stubs[r][k]
      BY <1>1, <1>3
    <2>3. r = s => k # n + 1 /\ stubs[r][k] # t
      BY <1>1, <1>2, <1>3
    <2>4. f = Entry(r, k)'
      BY <2>1, <2>2 DEF Entry, StubAddr
    <2>5. f \in Entries'
      BY <2>2, <2>4, EntriesWillBe
    <2> QED
      BY <2>1, <2>3, <2>5 DEF Entry, StubAddr
  <1>7. ASSUME NEW f \in Entries', f # e PROVE f \in Entries
    <2>a. PICK r \in SecId : \E k \in DOMAIN stubs'[r] : f = Entry(r, k)'
      BY EntriesWillBe
    <2>1. PICK k \in DOMAIN stubs'[r] : f = Entry(r, k)'
      BY <2>a
    <2>2. ~(r = s /\ k = n + 1)
      BY <1>3, <1>7, <2>1 DEF Entry, StubAddr
    <2>3. k \in DOMAIN stubs[r] /\ stubs'[r][k] = stubs[r][k]
      BY <1>1, <1>3, <2>2
    <2>4. f = Entry(r, k)
      BY <2>1, <2>3 DEF Entry, StubAddr
    <2> QED
      BY <2>3, <2>4, EntriesAre
  <1>8. Entries' = Entries \cup {e}
    BY <1>5, <1>6, <1>7
  <1> HIDE DEF e
  <1>9. Table!Make(e)
    BY <1>4, <1>6, <1>8 DEF Table!Make
  <1> QED
    BY <1>5, <1>9 DEF Table!Next

(* The stubs of a session are entry points that are handed out one per        *)
(* section and target and never change, through failures and retries.         *)
THEOREM StubsImplementTable == Spec => ImplementsTable
  <1>1. Init => Table!Init
    <2> SUFFICES ASSUME Init PROVE Entries = {}
      BY DEF Table!Init
    <2>1. \A s \in SecId : stubs[s] = << >>
      BY DEF Init
    <2> QED
      BY <2>1, EntriesAre
  <1>2. ASSUME TypeOK, [Next]_vars PROVE [Table!Next]_Entries
    <2>1. CASE MakeStub
      BY <1>2, <2>1, MakeEntry
    <2>2. CASE ~MakeStub
      <3>1. stubs' = stubs
        BY <1>2, <2>2, StubsChange
      <3>2. \A s, k : Entry(s, k)' = Entry(s, k)
        BY <3>1 DEF Entry, StubAddr
      <3>3. \A e : e \in Entries' <=> e \in Entries
        BY <3>1, <3>2, EntriesAre, EntriesWillBe
      <3> QED
        BY <3>3
    <2> QED
      BY <2>1, <2>2
  <1> QED
    BY <1>1, <1>2, TypeCorrect, PTL DEF Spec, ImplementsTable, Table!Spec

------------------------------------------------------------------------------
(* The room for stubs.                                                        *)

LEMMA FiniteIntervals == \A n \in Nat : IsFiniteSet(1..n)
  BY FS_Interval

(* Distinct targets are those of distinct relocations, so they are no more    *)
(* than load_sections counted.                                                *)
LEMMA TargetsCounted ==
    ASSUME NEW s \in SecId, NEW q \in Seq(Address),
           \A i, k \in DOMAIN q : q[i] = q[k] => i = k,
           \A k \in DOMAIN q : \E r \in DOMAIN Relocs[s[1]] : MadeFor(s, q[k], r)
    PROVE  Len(q) <= NumberOfStubs(s)
  <1> DEFINE R == {r \in DOMAIN Relocs[s[1]] :
                      Relocs[s[1]][r].sec = s[2] /\ NeedStub(Relocs[s[1]][r])}
             D == 1..Len(q)
             W(k) == CHOOSE r \in DOMAIN Relocs[s[1]] : MadeFor(s, q[k], r)
             f == [k \in D |-> W(k)]
             Aim(r) == IF Arch = "arm" THEN Wanted(<<s[1], r>>) ELSE addr[SymOf(<<s[1], r>>)]
  <1>1. /\ DOMAIN q = D /\ Len(q) \in Nat
        /\ DOMAIN Relocs[s[1]] = 1..Len(Relocs[s[1]]) /\ Len(Relocs[s[1]]) \in Nat
    <2>1. Relocs[s[1]] \in Seq(ElfRel)
      BY SectionIndex, ObjectFiles
    <2> QED
      BY <2>1
  <1>2. ASSUME NEW k \in D
        PROVE  W(k) \in DOMAIN Relocs[s[1]] /\ MadeFor(s, q[k], W(k))
    <2>1. k \in DOMAIN q
      BY <1>1
    <2>2. \E r \in DOMAIN Relocs[s[1]] : MadeFor(s, q[k], r)
      BY <2>1
    <2> QED
      BY <2>2
  <1>3. \A k \in D : W(k) \in R /\ q[k] = Aim(W(k))
    BY <1>2 DEF MadeFor, Rel
  <1>4. \A i, k \in D : W(i) = W(k) => i = k
    <2> SUFFICES ASSUME NEW i \in D, NEW k \in D, W(i) = W(k) PROVE i = k
      OBVIOUS
    <2>1. q[i] = Aim(W(i)) /\ q[k] = Aim(W(k))
      BY <1>3, Zenon
    <2>2. q[i] = q[k]
      <3> HIDE DEF Aim, W
      <3> QED
        BY <2>1
    <2> QED
      BY <1>1, <2>2
  <1> HIDE DEF W, R
  <1>5. f \in Injection(D, R)
    BY <1>3, <1>4 DEF Injection, IsInjective
  <1>6. R \in SUBSET (1..Len(Relocs[s[1]]))
    BY <1>1 DEF R
  <1>7. IsFiniteSet(R)
    BY <1>1, <1>6, FiniteIntervals, FS_Subset
  <1>8. Cardinality(D) <= Cardinality(R)
    BY <1>5, <1>7, FS_Injection
  <1>9. Cardinality(D) = Len(q)
    <2>1. \A n \in Nat : Cardinality(1..n) = n
      BY FS_Interval
    <2> QED
      BY <1>1, <2>1
  <1> QED
    BY <1>8, <1>9 DEF NumberOfStubs, R

LEMMA RoomType ==
    ASSUME NEW s \in SecId
    PROVE  NumberOfStubs(s) \in Nat
  <1> DEFINE R == {r \in DOMAIN Relocs[s[1]] :
                      Relocs[s[1]][r].sec = s[2] /\ NeedStub(Relocs[s[1]][r])}
  <1>1. DOMAIN Relocs[s[1]] = 1..Len(Relocs[s[1]]) /\ Len(Relocs[s[1]]) \in Nat
    BY SectionIndex, ObjectFiles
  <1>2. R \in SUBSET (1..Len(Relocs[s[1]]))
    BY <1>1
  <1>3. NumberOfStubs(s) = Cardinality(R)
    BY DEF NumberOfStubs
  <1> HIDE DEF R
  <1>4. IsFiniteSet(R)
    BY <1>1, <1>2, FiniteIntervals, FS_Subset
  <1> QED
    BY <1>3, <1>4, FS_CardinalityType

(* The room load_sections reserves is enough, unless implicit addends are     *)
(* read a second time.                                                        *)
THEOREM StubsAlwaysReserved == Spec => []StubsReserved
  <1>1. TypeOK /\ ResolveInv => StubsReserved
    <2> SUFFICES ASSUME TypeOK, ResolveInv, NEW s \in SecId, Len(stubs[s]) > NumberOfStubs(s)
                 PROVE  /\ Redone(s[1])
                        /\ \E p \in RelId : SecOf(p) = s /\ Rel(p).implicit
      BY DEF StubsReserved
    <2>1. stubs[s] \in Seq(Address) /\ Len(stubs[s]) \in Nat /\ NumberOfStubs(s) \in Nat
      BY RoomType, SectionIndex DEF TypeOK
    <2>2. ~(Len(stubs[s]) <= NumberOfStubs(s))
      BY <2>1
    <2> QED
      BY <2>1, <2>2, TargetsCounted DEF ResolveInv, StubInv, StubsDistinct, Redoing, Redone
  <1> QED
    BY <1>1, TypeCorrect, ResolveInvariant, PTL

(* A stub made in a first relocation was counted.                             *)
LEMMA StubIsCounted ==
    ASSUME TypeOK, ResolveInv, NeedsStub, passes[cur] = 0,
           FindStub(SecOf(here), StubTarget(here)) = {}
    PROVE  /\ SecOf(here) \in SecId /\ SecOf(here)[1] = cur
           /\ Len(stubs[SecOf(here)]) + 1 <= NumberOfStubs(SecOf(here))
  <1>1. /\ phase = "relocate" /\ cur \in Object /\ pos \in DOMAIN Relocs[cur]
        /\ Rel(here).type = "branch" /\ addr[SymOf(here)] # Null
    BY DEF NeedsStub, Accepted, Relocatable, AtReloc, TypeOK
  <1>a. PICK s, t, q : s = SecOf(here) /\ t = StubTarget(here) /\ q = stubs[s]
    OBVIOUS
  <1>2. /\ here \in RelId /\ here = <<cur, pos>> /\ pos \in Nat
        /\ s \in SecId /\ s[1] = cur
    BY <1>1, <1>a, RelocIds DEF here, TypeOK, SecOf
  <1>3. q \in Seq(Address) /\ t \in Address /\ Len(q) \in Nat
    BY <1>1, <1>2, <1>a, TargetType DEF TypeOK
  <1>4. ~Rewritten(here)
    BY <1>1, <1>2 DEF ResolveInv, PlaceInv, Rewritten
  <1>5. t = IF Arch = "arm" THEN Wanted(here) ELSE addr[SymOf(here)]
    BY <1>4, <1>a DEF StubTarget, Target
  <1>6. MadeFor(s, t, pos) /\ pos \in DOMAIN Relocs[s[1]]
    BY <1>1, <1>2, <1>5, <1>a DEF MadeFor, SecOf, NeedStub
  <1>7. \A k \in DOMAIN q : \E r \in DOMAIN Relocs[s[1]] : MadeFor(s, q[k], r)
    BY <1>1, <1>2, <1>a DEF ResolveInv, StubInv, Redoing
  <1>8. \A i, k \in DOMAIN q : q[i] = q[k] => i = k
    BY <1>2, <1>a DEF ResolveInv, StubInv, StubsDistinct
  <1>9. \A k \in DOMAIN q : q[k] # t
    BY <1>a DEF FindStub
  <1> DEFINE w == Append(q, t)
  <1>10. /\ w \in Seq(Address) /\ Len(w) = Len(q) + 1
         /\ \A k \in DOMAIN w : (k \in DOMAIN q /\ w[k] = q[k]) \/ (k = Len(q) + 1 /\ w[k] = t)
    BY <1>3
  <1> HIDE DEF w
  <1>11. \A i, k \in DOMAIN w : w[i] = w[k] => i = k
    BY <1>8, <1>9, <1>10
  <1>12. \A k \in DOMAIN w : \E r \in DOMAIN Relocs[s[1]] : MadeFor(s, w[k], r)
    BY <1>6, <1>7, <1>10
  <1>13. Len(w) <= NumberOfStubs(s)
    BY <1>2, <1>10, <1>11, <1>12, TargetsCounted
  <1> QED
    BY <1>2, <1>10, <1>13, <1>a

(* Why a step writes where it must not.                                       *)
LEMMA FaultStep ==
    ASSUME TypeOK, SessionInv, ResolveInv, FaultOnlyForCause, [Next]_vars
    PROVE  FaultOnlyForCause'
  <1> SUFFICES ASSUME phase' = "fault"
               PROVE  \/ cur' = Null /\ Unreadable \cap Archive # {}
                      \/ cur' # Null /\ (passes'[cur'] >= 1 \/ Crowded(cur)')
    BY DEF FaultOnlyForCause
  <1> USE DEF GoTo, Advance, Die, Return
  <1>1. CASE phase = "fault"
    <2>1. UNCHANGED vars
      BY <1>1, NoStepAfterEnd
    <2>2. UNCHANGED <<cur, passes, stubs>>
      BY <2>1 DEF vars, control, memory, results
    <2> QED
      BY <1>1, <2>2 DEF FaultOnlyForCause, Crowded, LastOne
  <1>2. ASSUME cur \in Object, UNCHANGED <<cur, passes, stubs>>, passes[cur] >= 1 \/ Crowded(cur)
        PROVE  cur' # Null /\ (passes'[cur'] >= 1 \/ Crowded(cur)')
    BY <1>2, NullIsNothing DEF Crowded, LastOne
  <1>3. CASE FillFaults
    <2>1. cur \in Object /\ gotProt[cur] = "rx"
      BY <1>3 DEF FillFaults, AtSymbol, TypeOK
    <2>2. passes[cur] >= 1
      BY <2>1 DEF SessionInv, WritableInv, TypeOK
    <2> QED
      BY <1>2, <1>3, <2>1, <2>2 DEF FillFaults, memory, results
  <1>4. CASE RelocFaults
    <2>1. cur \in Object
      BY <1>4 DEF RelocFaults, Accepted, Relocatable, AtReloc, TypeOK
    <2>2. passes[cur] >= 1
      BY <1>4, FirstRelocation DEF RelocFaults, SessionInv
    <2> QED
      BY <1>2, <1>4, <2>1, <2>2 DEF RelocFaults, memory, results
  <1>5. CASE MakeStubOverruns
    <2>1. cur \in Object /\ passes[cur] \in Nat
      BY <1>5 DEF MakeStubOverruns, NeedsStub, Accepted, Relocatable, AtReloc, TypeOK
    <2>2. ASSUME passes[cur] = 0 PROVE Crowded(cur)
      <3> DEFINE s == SecOf(here)
      <3>1. /\ s \in SecId /\ s[1] = cur /\ Len(stubs[s]) + 1 <= NumberOfStubs(s)
        BY <1>5, <2>2, StubIsCounted DEF MakeStubOverruns
      <3>2. MaySpill(s)
        BY <1>5 DEF MakeStubOverruns
      <3>3. Len(stubs[s]) \in Nat /\ NumberOfStubs(s) \in Nat
        <4>1. stubs[s] \in Seq(Address)
          BY <3>1 DEF TypeOK
        <4> QED
          BY <3>1, <4>1, RoomType
      <3>4. s \in SectionsOf(cur)
        BY <3>1 DEF SecId, SectionsOf
      <3> HIDE DEF s
      <3>5. s \in Cramped /\ LastOne(s)
        BY <3>1, <3>2, <3>3 DEF MaySpill, Spills, Full, LastOne
      <3> QED
        BY <3>4, <3>5 DEF Crowded
    <2> QED
      BY <1>2, <1>5, <2>1, <2>2 DEF MakeStubOverruns, memory, results
  <1>6. ASSUME NEW f \in Unreadable, LoadFails(f)
        PROVE  cur' = Null /\ Unreadable \cap Archive # {}
    BY <1>6 DEF LoadFails
  <1>7. phase # "fault" =>
            \/ FillFaults \/ RelocFaults \/ MakeStubOverruns
            \/ \E f \in Unreadable : LoadFails(f)
    BY DEF Next, Work, Loading, Relinking, LoadSections, LoadSectionsAborts, KeepName, PublishName,
           GetNamesAborts, MakeGot, FillSkip, FillSlot, FillFails, VerifyGot, RelocSkip, RelocAborts,
           WriteDirect, ReuseStub, MakeStub, RelocDone, ProtectSkip, ProtectSection, ProtectGot,
           MprotectFails, Call, LoadObject, LoadArchive, ResolveObject, InsertHostSymbol,
           InsertHostSymbolAborts, vars, control
  <1> QED
    BY <1>1, <1>3, <1>4, <1>5, <1>6, <1>7

(* Memory that is protected, or not the section's, is written by a repeated   *)
(* resolve, by the last stub counted for a cramped section, or by the archive *)
(* reader, and by nothing else.                                               *)
THEOREM FaultsOnlyForCause == Spec => []FaultOnlyForCause
  <1>1. Init => FaultOnlyForCause
    BY DEF Init, FaultOnlyForCause
  <1>2. TypeOK /\ SessionInv /\ ResolveInv /\ FaultOnlyForCause /\ [Next]_vars => FaultOnlyForCause'
    BY FaultStep
  <1> QED
    BY <1>1, <1>2, TypeCorrect, SessionInvariant, ResolveInvariant, PTL DEF Spec

(* Why a step aborts.                                                         *)
LEMMA AbortStep ==
    ASSUME TypeOK, SessionInv, ResolveInv, Next, phase' = "abort", phase # "idle"
    PROVE  Malformed(cur) \/ Clash \/ (phase \in {"fill_got", "relocate"} /\ Misfit(cur))
  <1> SUFFICES ASSUME ~Malformed(cur), ~Clash,
                      ~(phase \in {"fill_got", "relocate"} /\ Misfit(cur))
               PROVE  FALSE
    OBVIOUS
  <1> USE DEF GoTo, Advance, Die, Return
  <1>1. ~LoadSectionsAborts
    BY DEF LoadSectionsAborts, Malformed
  <1>2. ~GetNamesAborts
    <2> SUFFICES ASSUME GetNamesAborts PROVE FALSE
      OBVIOUS
    <2>1. /\ AtSymbol("get_names")
          /\ \/ ~Nameable(here)
             \/ Publishes(here) /\ gsyms[Hash[NameOf(here)]] # Null
      BY DEF GetNamesAborts
    <2>2. /\ here \in ObjectSym /\ here[1] = cur
          /\ \A h \in HashKey : gsyms[h] # here
      BY <2>1, HereIsFresh DEF SessionInv, NamesInv, here
    <2>3. Hash[NameOf(here)] \in HashKey
      BY <2>2, SymbolData
    <2> QED
      BY <2>1, <2>2, <2>3 DEF Malformed, Clash
  <1>3. ~VerifyGot
    BY GotVerified DEF VerifyGot, PastSymbols, SessionInv, ResolveInv, Misfit
  <1>4. ~RelocAborts
    <2> SUFFICES ASSUME RelocAborts PROVE FALSE
      OBVIOUS
    <2>1. /\ phase = "relocate" /\ cur \in Object /\ pos \in DOMAIN Relocs[cur]
          /\ SectionKind(SecOf(here)) # "OTHER"
          /\ \/ Refused(here) \/ addr[SymOf(here)] = Null \/ here \in Unfit
             \/ here \in Remote /\ (here \in far \/ Rewritten(here))
      BY DEF RelocAborts, NeedsStub, Relocatable, AtReloc, TypeOK
    <2>2. here \in RelId /\ here[1] = cur
      BY <2>1, RelocIds
    <2>3. /\ ~Refused(here) /\ addr[SymOf(here)] = Null
          /\ NeedGotSlot(SymOf(here)) \/ OwnAddr(SymOf(here)) # Null
      BY <2>1, <2>2 DEF Malformed, Misfit, Relocated
    <2>4. /\ SymOf(here) \in ObjectSym /\ SymOf(here)[1] = cur
          /\ cur \in Loaded
      BY <2>1, <2>2, RelocIndex DEF SessionInv, ChainInv, ResolvePhase
    <2>5. NeedGotSlot(SymOf(here)) => addr[SymOf(here)] # Null
      BY <2>1, <2>4 DEF ResolveInv, SealInv, GotFilled, Filled
    <2>6. ~NeedGotSlot(SymOf(here)) => addr[SymOf(here)] = OwnAddr(SymOf(here))
      BY <2>1, <2>4 DEF ResolveInv, LocalInv, Named
    <2> QED
      BY <2>3, <2>5, <2>6
  <1>5. ~Call
    BY CallTouches, TypeOK DEF Call, LoadObject, LoadArchive, LoadFails, ResolveObject, InsertHostSymbol,
       InsertHostSymbolAborts
  <1>6. Loading => LoadSectionsAborts \/ GetNamesAborts
    BY DEF Loading, LoadSections, KeepName, PublishName, MakeGot, AtSymbol
  <1>7. Relinking => VerifyGot \/ RelocAborts
    BY DEF Relinking, FillSkip, FillSlot, FillFails, FillFaults, RelocSkip, RelocFaults, MakeStubOverruns,
           WriteDirect, ReuseStub, MakeStub, RelocDone, ProtectSkip, ProtectSection, ProtectGot,
           MprotectFails, AtSymbol, BranchesFar, Accepted, NeedsStub, Relocatable, AtReloc, AtSection
  <1> QED
    BY <1>1, <1>2, <1>3, <1>4, <1>5, <1>6, <1>7 DEF Next, Work

(* A call that has its file aborts for a malformed object, a clash of names,  *)
(* or an object whose own symbols and relocations do not fit the layout,      *)
(* never because an earlier function left something undone.                   *)
THEOREM AbortsOnlyForCause == Spec => AbortOnlyForCause
  <1>1. TypeOK /\ SessionInv /\ ResolveInv /\ [Next]_vars
        => [phase' = "abort" /\ phase \notin {"idle", "abort"} =>
               Malformed(cur) \/ Clash \/ Misfit(cur)]_vars
    BY AbortStep
  <1> QED
    BY <1>1, TypeCorrect, SessionInvariant, ResolveInvariant, PTL DEF Spec, AbortOnlyForCause

------------------------------------------------------------------------------
(* How long a call can take.                                                  *)

InCall == phase \notin {"idle", "abort", "fault"}
Looping == phase \in {"get_names", "fill_got", "relocate", "mprotect"}

(* What is left of a call: members of the archive, functions for the object,  *)
(* and rounds of the function's loop.                                         *)
Stage == IF phase = "fill_got" THEN 3
         ELSE IF phase \in {"load_sections", "relocate"} THEN 2
         ELSE IF phase \in {"get_names", "mprotect"} THEN 1 ELSE 0

Looped == IF phase \in {"get_names", "fill_got"} THEN Len(Symbols[cur])
          ELSE IF phase = "relocate" THEN Len(Relocs[cur]) ELSE Len(Sections[cur])

Rounds == IF Looping THEN Looped + 1 - pos ELSE 0

Left == <<Len(todo), Stage, Rounds>>

Below(a, b) == \/ a[1] < b[1]
               \/ a[1] = b[1] /\ a[2] < b[2]
               \/ a[1] = b[1] /\ a[2] = b[2] /\ a[3] < b[3]

(* Every step of the library takes its call closer to the end, in the order   *)
(* of triples of natural numbers, in which nothing decreases forever.         *)
CallShrinks ==
    [][InCall => /\ Left \in Nat \X Nat \X Nat /\ Left' \in Nat \X Nat \X Nat
                  /\ Below(Left', Left)]_vars

(* A loop's position never gets past the end of its table.                    *)
PosInv == Looping => pos \in 1..(Looped + 1)

Goes(from, to) == phase = from /\ phase' = to /\ pos' = 1 /\ UNCHANGED <<cur, todo>>

(* The ways a step inside a call can go.                                      *)
NextRound    == /\ Looping /\ pos \in 1..Looped /\ pos' = pos + 1
                /\ UNCHANGED <<phase, cur, todo>>
NextFunction == \/ Goes("load_sections", "get_names")
                \/ Goes("fill_got", "relocate") \/ Goes("relocate", "mprotect")
NextMember   == /\ phase = "get_names" /\ phase' = "load_sections"
                /\ todo # << >> /\ todo' = Tail(todo)
Ends         == phase' \in {"idle", "abort", "fault"} /\ InCall /\ todo' = todo

LEMMA Tables ==
    ASSUME NEW o \in Object
    PROVE  /\ DOMAIN Symbols[o] = 1..Len(Symbols[o]) /\ Len(Symbols[o]) \in Nat
           /\ DOMAIN Relocs[o] = 1..Len(Relocs[o]) /\ Len(Relocs[o]) \in Nat
           /\ DOMAIN Sections[o] = 1..Len(Sections[o]) /\ Len(Sections[o]) \in Nat
  <1>1. Symbols[o] \in Seq(ElfSym) /\ Relocs[o] \in Seq(ElfRel) /\ Sections[o] \in Seq(Header)
    BY ObjectFiles
  <1> QED
    BY <1>1

LEMMA WorkGoes ==
    ASSUME TypeOK, Work
    PROVE  NextRound \/ NextFunction \/ NextMember \/ Ends
  <1> USE DEF GoTo, Advance, Die, Return, Ends, InCall
  <1>1. CASE LoadSections \/ LoadSectionsAborts
    BY <1>1 DEF LoadSections, LoadSectionsAborts, NextFunction, Goes
  <1>2. ASSUME AtSymbol(phase), phase \in {"get_names", "fill_got"}, Advance PROVE NextRound
    <2>1. cur \in Object
      BY <1>2 DEF TypeOK
    <2> QED
      BY <1>2, <2>1, Tables DEF AtSymbol, NextRound, Looping, Looped
  <1>3. CASE KeepName \/ PublishName
    BY <1>2, <1>3 DEF KeepName, PublishName, AtSymbol
  <1>4. CASE GetNamesAborts
    BY <1>4 DEF GetNamesAborts, AtSymbol
  <1>5. CASE MakeGot
    BY <1>5 DEF MakeGot, PastSymbols, NextMember
  <1>6. CASE FillSkip \/ FillSlot
    BY <1>2, <1>6 DEF FillSkip, FillSlot, AtSymbol
  <1>7. CASE FillFails \/ FillFaults \/ VerifyGot
    BY <1>7 DEF FillFails, FillFaults, VerifyGot, AtSymbol, PastSymbols, NextFunction, Goes
  <1>8. ASSUME AtReloc, Advance PROVE NextRound
    <2>1. cur \in Object
      BY <1>8 DEF TypeOK, AtReloc
    <2> QED
      BY <1>8, <2>1, Tables DEF AtReloc, NextRound, Looping, Looped
  <1>9. CASE RelocSkip \/ WriteDirect \/ ReuseStub \/ MakeStub
    BY <1>8, <1>9 DEF RelocSkip, WriteDirect, ReuseStub, MakeStub, BranchesFar, Accepted, NeedsStub,
                      Relocatable
  <1>10. CASE RelocAborts \/ RelocFaults \/ MakeStubOverruns \/ RelocDone
    BY <1>10 DEF RelocAborts, RelocFaults, MakeStubOverruns, RelocDone, Accepted, NeedsStub, Relocatable, AtReloc,
                 NextFunction, Goes
  <1>11. CASE ProtectSkip \/ ProtectSection
    <2>1. AtSection /\ Advance
      BY <1>11 DEF ProtectSkip, ProtectSection
    <2>2. cur \in Object
      BY <2>1 DEF TypeOK, AtSection
    <2> QED
      BY <2>1, <2>2, Tables DEF AtSection, NextRound, Looping, Looped
  <1>12. CASE ProtectGot \/ MprotectFails
    BY <1>12 DEF ProtectGot, MprotectFails, AtSection, AtGot
  <1> QED
    BY <1>1, <1>3, <1>4, <1>5, <1>6, <1>7, <1>9, <1>10, <1>11, <1>12 DEF Work, Loading, Relinking

LEMMA PosStep ==
    ASSUME TypeOK, TypeOK', PosInv, [Next]_vars
    PROVE  PosInv'
  <1> SUFFICES ASSUME Looping' PROVE pos' \in 1..(Looped' + 1)
    BY DEF PosInv
  <1>1. cur' \in Object /\ Looped' \in Nat
    <2>1. cur' \in Object
      BY DEF TypeOK, Looping
    <2> QED
      BY <2>1, Tables DEF Looped
  <1>2. CASE pos' = 1
    <2>1. \A n \in Nat : 1 \in 1..(n + 1)
      OBVIOUS
    <2> QED
      BY <1>1, <1>2, <2>1
  <1>3. CASE NextRound
    <2>1. Looped' = Looped
      BY <1>3 DEF NextRound, Looped
    <2> QED
      BY <1>1, <1>3, <2>1 DEF NextRound
  <1>4. CASE UNCHANGED <<phase, cur, pos>>
    BY <1>4 DEF PosInv, Looping, Looped
  <1>5. CASE Work
    BY <1>2, <1>3, <1>5, WorkGoes DEF NextFunction, Goes, NextMember, Ends, Looping
  <1>6. CASE Call
    BY <1>2, <1>4, <1>6 DEF Call, LoadObject, LoadArchive, LoadFails, ResolveObject, InsertHostSymbol,
                            InsertHostSymbolAborts, Die, GoTo, control, Looping
  <1> QED
    BY <1>4, <1>5, <1>6 DEF Next, vars, control

LEMMA LeftType == TypeOK /\ PosInv => Left \in Nat \X Nat \X Nat
  <1> SUFFICES ASSUME TypeOK, PosInv PROVE Left \in Nat \X Nat \X Nat
    OBVIOUS
  <1>1. Len(todo) \in Nat /\ Stage \in Nat
    BY DEF TypeOK, Stage
  <1>2. CASE Looping
    <2>1. cur \in Object
      BY <1>2 DEF TypeOK, Looping
    <2>2. Looped \in Nat
      BY <2>1, Tables DEF Looped
    <2> QED
      BY <1>1, <1>2, <2>2 DEF PosInv, Rounds, Left
  <1> QED
    BY <1>1, <1>2 DEF Rounds, Left

LEMMA WorkShrinks ==
    ASSUME TypeOK, PosInv, Work
    PROVE  Below(Left', Left)
  <1>2. CASE NextRound
    <2>1. Looped' = Looped /\ Stage' = Stage
      BY <1>2 DEF NextRound, Looped, Stage
    <2>2. Rounds = Looped + 1 - pos /\ Rounds' = Looped + 1 - (pos + 1)
      BY <1>2, <2>1 DEF NextRound, Rounds, Looping
    <2>3. Looped \in Nat
      <3>1. cur \in Object
        BY <1>2 DEF NextRound, TypeOK, Looping
      <3> QED
        BY <3>1, Tables DEF Looped
    <2>4. Rounds' < Rounds
      BY <1>2, <2>2, <2>3 DEF NextRound
    <2> QED
      BY <1>2, <2>1, <2>4 DEF NextRound, Left, Below
  <1>3. CASE NextFunction \/ Ends
    <2>1. Stage' < Stage /\ todo' = todo
      BY <1>3 DEF NextFunction, Goes, Ends, InCall, Stage, TypeOK, Phase
    <2> QED
      BY <2>1 DEF Left, Below
  <1>4. CASE NextMember
    <2>1. Len(todo') < Len(todo)
      BY <1>4, HeadTailProperties DEF NextMember, TypeOK
    <2> QED
      BY <2>1 DEF Left, Below
  <1> QED
    BY <1>2, <1>3, <1>4, WorkGoes

LEMMA PosInRange == Spec => []PosInv
  <1>1. Init => PosInv
    BY DEF Init, PosInv, Looping
  <1> QED
    BY <1>1, PosStep, TypeCorrect, PTL DEF Spec

(* No call of the library goes on forever: each of its steps makes what is    *)
(* left of the call smaller, for archives, tables and failures of any number. *)
THEOREM CallsShrink == Spec => CallShrinks
  <1>1. ASSUME TypeOK, PosInv, [Next]_vars, ~UNCHANGED vars, InCall
        PROVE  Below(Left', Left)
    <2>1. Work
      BY <1>1 DEF Next, Call, LoadObject, LoadArchive, LoadFails, ResolveObject, InsertHostSymbol,
                  InsertHostSymbolAborts, InCall
    <2> QED
      BY <1>1, <2>1, WorkShrinks
  <1>2. (TypeOK /\ PosInv => Left \in Nat \X Nat \X Nat)
        /\ (TypeOK /\ PosInv => Left \in Nat \X Nat \X Nat)'
    BY LeftType, PTL
  <1>3. TypeOK /\ TypeOK' /\ PosInv /\ PosInv' /\ [Next]_vars =>
            [InCall => /\ Left \in Nat \X Nat \X Nat /\ Left' \in Nat \X Nat \X Nat
                        /\ Below(Left', Left)]_vars
    BY <1>1, <1>2
  <1> QED
    BY <1>3, PosInRange, TypeCorrect, PTL DEF Spec, CallShrinks
=============================================================================
