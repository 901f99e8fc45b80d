---------------------------- MODULE LinkerProofs ----------------------------
(* Theorems about a session of the linker, for every set of object files.     *)
EXTENDS LinkerInv, SequenceTheorems, TLAPS

(* A symbol the position of a loop stands at is one of the object's.          *)
LEMMA HereIsSymbol ==
    ASSUME NEW ph, cur \in Object, AtSymbol(ph)
    PROVE  here \in ObjectSym /\ here \in SymId
  BY DEF AtSymbol, here, ObjectSym, SymId

LEMMA SymbolData ==
    ASSUME NEW s \in ObjectSym
    PROVE  /\ Sym(s) \in ElfSym
           /\ s[1] \in Object /\ s = <<s[1], s[2]>>
           /\ s \notin HostSym
           /\ NameOf(s) = Sym(s).name
           /\ Hash[NameOf(s)] \in HashKey
  <1>1. PICK o \in Object : s \in {<<o, j>> : j \in DOMAIN Symbols[o]}
    BY DEF ObjectSym
  <1>2. PICK j \in DOMAIN Symbols[o] : s = <<o, j>>
    BY <1>1
  <1>3. Symbols[o] \in Seq(ElfSym)
    BY ObjectFiles
  <1>4. Sym(s) \in ElfSym
    BY <1>2, <1>3 DEF Sym
  <1>5. s \notin HostSym
    BY <1>2, NullIsNothing DEF HostSym
  <1>6. Sym(s).name \in Name
    BY <1>4 DEF ElfSym
  <1> QED
    BY <1>2, <1>4, <1>5, <1>6 DEF NameOf, HashKey

LEMMA OffsetType ==
    ASSUME NEW a \in Address, NEW d \in Int
    PROVE  Offset(a, d) \in Address
  BY DEF Offset, Address

LEMMA SectionAddrType ==
    ASSUME NEW s \in SecId
    PROVE  SectionAddr(s) \in Address
  BY DEF SectionAddr, Address

LEMMA OwnAddrType ==
    ASSUME NEW s \in ObjectSym, Nameable(s)
    PROVE  OwnAddr(s) \in Address \cup {Null}
  <1> DEFINE sec == <<s[1], Sym(s).shndx>>
  <1>1. CASE sec \in SecId
    <2>1. Start(sec) \in Address \cup {Null}
      BY <1>1, SectionAddrType DEF Start
    <2>2. Sym(s).value \in Int
      BY SymbolData DEF ElfSym
    <2> QED
      BY <2>1, <2>2, OffsetType DEF OwnAddr
  <1>2. CASE sec \notin SecId
    BY <1>2, ObjectFiles DEF OwnAddr, Nameable
  <1> QED
    BY <1>1, <1>2

LEMMA NamedAddrType ==
    ASSUME NEW n \in Name
    PROVE  SystemAddr(n) \in Address /\ HostAddr(n) \in Address
  BY DEF SystemAddr, HostAddr, Address

------------------------------------------------------------------------------
(* Type correctness.                                                          *)

LEMMA InitTypeOK == Init => TypeOK
  BY NullIsNothing DEF Init, TypeOK, Phase, Branch

LEMMA LookupType ==
    ASSUME TypeOK, NEW n \in Name
    PROVE  Lookup(n) \in Address \cup {Null}
  BY NamedAddrType DEF Lookup, TypeOK, HashKey

LEMMA GotAddrType ==
    ASSUME TypeOK, NEW s \in ObjectSym
    PROVE  GotAddr(s) \in Address \cup {Null}
  BY LookupType, SymbolData DEF GotAddr, TypeOK, ElfSym, SymId

LEMMA LoadingTypeOK == TypeOK /\ Loading => TypeOK'
  <1> SUFFICES ASSUME TypeOK, Loading PROVE TypeOK'
    OBVIOUS
  <1> USE DEF GoTo, Advance, Die, names, memory, results, Phase
  <1>1. CASE LoadSections
    BY <1>1 DEF LoadSections, TypeOK
  <1>2. CASE LoadSectionsAborts
    BY <1>2 DEF LoadSectionsAborts, TypeOK
  <1>3. CASE KeepName
    BY <1>3, HereIsSymbol, OwnAddrType DEF KeepName, AtSymbol, TypeOK
  <1>4. CASE PublishName
    BY <1>4, HereIsSymbol, OwnAddrType, SymbolData DEF PublishName, AtSymbol, TypeOK
  <1>5. CASE GetNamesAborts
    BY <1>5 DEF GetNamesAborts, TypeOK
  <1>6. CASE MakeGot
    <2>1. cur \in Object /\ todo \in Seq(Object) /\ objects \in Seq(Object)
      BY <1>6 DEF MakeGot, PastSymbols, TypeOK
    <2>2. objects' \in Seq(Object)
      BY <1>6, <2>1 DEF MakeGot
    <2>3. todo' \in Seq(Object) /\ cur' \in Object
      BY <1>6, <2>1, HeadTailProperties DEF MakeGot
    <2>4. phase' \in {"idle", "load_sections"}
      BY <1>6 DEF MakeGot
    <2>5. gotProt' \in [Object -> {"unmapped", "rw", "rx"}]
      BY <1>6 DEF MakeGot, TypeOK
    <2> QED
      BY <1>6, <2>2, <2>3, <2>4, <2>5 DEF MakeGot, TypeOK
  <1> QED
    BY <1>1, <1>2, <1>3, <1>4, <1>5, <1>6 DEF Loading

LEMMA RelocIds ==
    ASSUME cur \in Object, pos \in DOMAIN Relocs[cur]
    PROVE  /\ here \in RelId /\ here[1] = cur
           /\ SecOf(here) \in SecId /\ SymOf(here) \in ObjectSym
           /\ SymOf(here) \in SymId
           /\ Rel(here).addend \in Int
  <1>1. here \in RelId
    BY DEF here, RelId
  <1>2. Rel(here) \in ElfRel
    BY ObjectFiles DEF here, Rel
  <1> QED
    BY <1>1, <1>2, ObjectFiles DEF ElfRel, SymId, here

LEMMA TargetType ==
    ASSUME TypeOK, cur \in Object, pos \in DOMAIN Relocs[cur], addr[SymOf(here)] # Null
    PROVE  /\ Target(here) \in Address
           /\ StubTarget(here) \in Address
           /\ StubAddend(here) \in Int
  <1>1. addr[SymOf(here)] \in Address
    BY RelocIds DEF TypeOK
  <1>2. GotSlot(SymOf(here)) \in Address
    BY RelocIds DEF GotSlot, Address
  <1>3. Wanted(here) \in Address
    BY <1>1, <1>2, RelocIds, OffsetType DEF Wanted
  <1>4. Stray(here, passes[here[1]]) \in Address
    BY RelocIds DEF Stray, Address, TypeOK
  <1> QED
    BY <1>1, <1>3, <1>4, RelocIds DEF Target, StubTarget, StubAddend

LEMMA BranchToType ==
    ASSUME TypeOK, cur \in Object, pos \in DOMAIN Relocs[cur], addr[SymOf(here)] # Null,
           NEW k \in Nat, BranchTo(k)
    PROVE  place' \in [RelId -> Address \cup {Null}]
  <1>1. StubAddr(SecOf(here), k) \in Address
    BY RelocIds DEF StubAddr, Address
  <1>2. Offset(StubAddr(SecOf(here), k), StubAddend(here)) \in Address
    BY <1>1, TargetType, OffsetType
  <1> QED
    BY <1>2 DEF BranchTo, TypeOK

LEMMA RelinkingTypeOK == TypeOK /\ Relinking => TypeOK'
  <1> SUFFICES ASSUME TypeOK, Relinking PROVE TypeOK'
    OBVIOUS
  <1> USE DEF GoTo, Advance, Die, Return, names, memory, results, Phase
  <1>1. CASE FillSkip
    BY <1>1 DEF FillSkip, AtSymbol, TypeOK
  <1>2. CASE FillSlot
    BY <1>2, HereIsSymbol, GotAddrType DEF FillSlot, AtSymbol, TypeOK
  <1>3. CASE FillFails
    BY <1>3, HereIsSymbol, GotAddrType DEF FillFails, AtSymbol, TypeOK
  <1>4. CASE FillFaults
    BY <1>4, HereIsSymbol, GotAddrType DEF FillFaults, AtSymbol, TypeOK
  <1>5. CASE VerifyGot
    BY <1>5 DEF VerifyGot, PastSymbols, TypeOK
  <1>6. CASE RelocSkip
    BY <1>6 DEF RelocSkip, AtReloc, TypeOK
  <1>7. CASE RelocAborts
    BY <1>7 DEF RelocAborts, Relocatable, AtReloc, TypeOK
  <1>8. CASE RelocFaults \/ MakeStubOverruns
    BY <1>8 DEF RelocFaults, MakeStubOverruns, NeedsStub, Accepted, Relocatable, AtReloc, TypeOK
  <1>9. CASE WriteDirect
    <2>1. cur \in Object /\ pos \in DOMAIN Relocs[cur] /\ addr[SymOf(here)] # Null
      BY <1>9 DEF WriteDirect, Accepted, NeedsStub, Relocatable, AtReloc, TypeOK
    <2>2. place' \in [RelId -> Address \cup {Null}]
      BY <1>9, <2>1, TargetType DEF WriteDirect, TypeOK
    <2> QED
      BY <1>9, <2>1, <2>2 DEF WriteDirect, Accepted, NeedsStub, Relocatable, AtReloc, TypeOK
  <1>10. CASE ReuseStub
    <2>1. /\ phase = "relocate" /\ cur \in Object /\ pos \in DOMAIN Relocs[cur]
          /\ addr[SymOf(here)] # Null
      BY <1>10 DEF ReuseStub, BranchesFar, Accepted, NeedsStub, Relocatable, AtReloc, TypeOK
    <2>2. \A k \in FindStub(SecOf(here), StubTarget(here)) : k \in Nat
      BY <2>1, RelocIds DEF FindStub, TypeOK
    <2>3. place' \in [RelId -> Address \cup {Null}]
      BY <1>10, <2>1, <2>2, BranchToType DEF ReuseStub
    <2> QED
      BY <1>10, <2>1, <2>3 DEF ReuseStub, TypeOK
  <1>11. CASE MakeStub
    <2>1. /\ phase = "relocate" /\ cur \in Object /\ pos \in DOMAIN Relocs[cur]
          /\ addr[SymOf(here)] # Null
      BY <1>11 DEF MakeStub, BranchesFar, Accepted, NeedsStub, Relocatable, AtReloc, TypeOK
    <2>2. stubs[SecOf(here)] \in Seq(Address) /\ StubTarget(here) \in Address
      BY <2>1, RelocIds, TargetType DEF TypeOK
    <2>3. place' \in [RelId -> Address \cup {Null}]
      BY <1>11, <2>1, <2>2, BranchToType DEF MakeStub
    <2>4. Append(stubs[SecOf(here)], StubTarget(here)) \in Seq(Address)
      BY <2>2
    <2>5. stubs' \in [SecId -> Seq(Address)]
      BY <1>11, <2>4 DEF MakeStub, TypeOK
    <2> QED
      BY <1>11, <2>1, <2>3, <2>5 DEF MakeStub, TypeOK
  <1>12. CASE RelocDone
    BY <1>12 DEF RelocDone, TypeOK
  <1>13. CASE ProtectSkip
    BY <1>13 DEF ProtectSkip, AtSection, TypeOK
  <1>14. CASE ProtectSection
    <2>1. ProtFlags(SectionKind(here)) \in {"rx", "rw", "r"}
      BY DEF ProtFlags
    <2>2. prot' \in [SecId -> {"unmapped", "rw", "r", "rx"}]
      BY <1>14, <2>1 DEF ProtectSection, TypeOK
    <2> QED
      BY <1>14, <2>2 DEF ProtectSection, AtSection, TypeOK
  <1>15. CASE ProtectGot
    BY <1>15 DEF ProtectGot, AtGot, TypeOK
  <1>16. CASE MprotectFails
    BY <1>16 DEF MprotectFails, AtSection, AtGot, TypeOK
  <1> QED
    BY <1>1, <1>2, <1>3, <1>4, <1>5, <1>6, <1>7, <1>8, <1>9, <1>10, <1>11, <1>12,
       <1>13, <1>14, <1>15, <1>16 DEF Relinking

LEMMA CallTypeOK == TypeOK /\ Call => TypeOK'
  <1> SUFFICES ASSUME TypeOK, Call PROVE TypeOK'
    OBVIOUS
  <1> USE DEF control, names, memory, results, Phase
  <1>1. ASSUME NEW o \in Object, LoadObject(o) PROVE TypeOK'
    BY <1>1 DEF LoadObject, TypeOK
  <1>2. ASSUME NEW o \in Object, ResolveObject(o) PROVE TypeOK'
    BY <1>2 DEF ResolveObject, TypeOK
  <1>3. ASSUME NEW a \in Archive, LoadArchive(a) PROVE TypeOK'
    <2>1. Members[a] \in Seq(Object) /\ Members[a] # << >>
      BY <1>3, ArchiveFiles DEF LoadArchive
    <2>2. Head(Members[a]) \in Object /\ Tail(Members[a]) \in Seq(Object)
      BY <2>1, HeadTailProperties
    <2> QED
      BY <1>3, <2>2 DEF LoadArchive, TypeOK
  <1>4. ASSUME NEW n \in HostName, NEW weak \in BOOLEAN, InsertHostSymbol(n, weak)
        PROVE  TypeOK'
    <2>1. n \in Name /\ Hash[n] \in HashKey /\ <<Null, n>> \in SymId
      BY Host DEF HashKey, SymId, HostSym
    <2> QED
      BY <1>4, <2>1, NamedAddrType DEF InsertHostSymbol, TypeOK
  <1>5. ASSUME NEW n \in HostName, NEW weak \in BOOLEAN, InsertHostSymbolAborts(n, weak)
        PROVE  TypeOK'
    BY <1>5 DEF InsertHostSymbolAborts, Die, GoTo, TypeOK
  <1>6. ASSUME NEW f \in Unreadable, LoadFails(f) PROVE TypeOK'
    BY <1>6 DEF LoadFails, TypeOK
  <1> QED
    BY <1>1, <1>2, <1>3, <1>4, <1>5, <1>6 DEF Call

(* Every variable keeps its type, in every session.                           *)
THEOREM TypeCorrect == Spec => []TypeOK
  <1>1. TypeOK /\ [Next]_vars => TypeOK'
    <2>1. TypeOK /\ UNCHANGED vars => TypeOK'
      BY DEF TypeOK, vars, control, names, memory, results
    <2> QED
      BY <2>1, LoadingTypeOK, RelinkingTypeOK, CallTypeOK DEF Next, Work
  <1> QED
    BY <1>1, InitTypeOK, PTL DEF Spec

------------------------------------------------------------------------------
(* The inductive invariant.                                                   *)

LEMMA InitSessionInv == Init => SessionInv
  <1> SUFFICES ASSUME Init PROVE SessionInv
    OBVIOUS
  <1> USE DEF Init
  <1>1. Loaded = {}
    BY DEF Loaded
  <1>2. ChainInv
    BY <1>1 DEF ChainInv, LoadPhase, ResolvePhase
  <1>3. FreshInv
    BY DEF FreshInv, SymId, HostSym
  <1>4. GsymsSound
    BY DEF GsymsSound
  <1>5. PublishedInv
    BY <1>1 DEF PublishedInv, Named
  <1>6. BoundInv
    BY DEF BoundInv, SymId
  <1>7. WritableInv
    BY <1>1 DEF WritableInv, LoadedSections
  <1> QED
    BY <1>2, <1>3, <1>4, <1>5, <1>6, <1>7 DEF SessionInv

NamesInv == FreshInv /\ GsymsSound /\ PublishedInv /\ BoundInv

(* No address, once found, changes in this step.                              *)
AddrStep == \A s \in SymId : addr[s] # Null => addr'[s] = addr[s]

(* A step that leaves the table and the addresses alone, and names nothing.   *)
LEMMA NamesKept ==
    ASSUME NamesInv, UNCHANGED names, phase # "abort",
           \A s \in ObjectSym : Named(s)' => Named(s),
           phase' # "abort" => \A s \in ObjectSym : Named(s) => Named(s)'
    PROVE  NamesInv' /\ AddrStep
  <1>1. UNCHANGED <<gsyms, addr>>
    BY DEF names
  <1>2. FreshInv'
    BY <1>1 DEF NamesInv, FreshInv
  <1>3. GsymsSound'
    BY <1>1 DEF NamesInv, GsymsSound
  <1>4. PublishedInv'
    BY <1>1 DEF NamesInv, PublishedInv
  <1>5. BoundInv'
    BY <1>1 DEF NamesInv, BoundInv
  <1> QED
    BY <1>1, <1>2, <1>3, <1>4, <1>5 DEF NamesInv, AddrStep

(* The same, for a step outside get_names.                                    *)
LEMMA NamesOutside ==
    ASSUME NamesInv, UNCHANGED <<names, objects>>,
           phase \notin {"get_names", "abort"}, phase' # "get_names"
    PROVE  NamesInv' /\ AddrStep
  <1>1. UNCHANGED names
    OBVIOUS
  <1>2. \A s \in ObjectSym : Named(s)' <=> Named(s)
    BY DEF Named, Loaded
  <1> QED
    BY <1>1, <1>2, NamesKept

(* fill_got gives a symbol without an address the one it looks up, and leaves *)
(* every other symbol alone.                                                  *)
LEMMA NamesFilled ==
    ASSUME TypeOK, NamesInv, phase = "fill_got", cur \in Loaded,
           here \in ObjectSym, NeedGotSlot(here),
           addr' = [addr EXCEPT ![here] = GotAddr(here)],
           UNCHANGED <<gsyms, objects>>, phase' # "get_names"
    PROVE  NamesInv' /\ AddrStep
  <1>1. here \in SymId /\ here[1] = cur
    BY DEF SymId, here
  <1>2. addr \in [SymId -> Address \cup {Null}]
    BY DEF TypeOK
  <1>3. AddrStep
    BY <1>1, <1>2 DEF AddrStep, GotAddr
  <1>4. \A s \in ObjectSym : Named(s)' <=> Named(s)
    BY DEF Named, Loaded
  <1>5. Named(here)
    BY <1>1 DEF Named
  <1>6. \A s \in SymId : s # here => addr'[s] = addr[s]
    BY <1>1, <1>2
  <1>7. \A n \in HostName : <<Null, n>> \in SymId /\ <<Null, n>> # here
    BY SymbolData DEF SymId, HostSym
  <1>8. FreshInv'
    BY <1>4, <1>5, <1>6, <1>7 DEF NamesInv, FreshInv, SymId
  <1>9. GsymsSound'
    <2> SUFFICES ASSUME NEW h \in HashKey, gsyms[h] # Null
                 PROVE  (/\ Hash[NameOf(gsyms[h])] = h
                         /\ addr'[gsyms[h]] # Null
                         /\ gsyms[h] \in ObjectSym =>
                               Publishes(gsyms[h]) /\ addr'[gsyms[h]] = OwnAddr(gsyms[h]))
      BY DEF GsymsSound
    <2>1. gsyms[h] \in SymId
      BY DEF TypeOK
    <2> QED
      BY <1>3, <2>1 DEF NamesInv, GsymsSound, AddrStep
  <1>10. PublishedInv'
    BY <1>3, <1>4 DEF NamesInv, PublishedInv, AddrStep, SymId, Publishes
  <1>11. BoundInv'
    <2> SUFFICES ASSUME NEW s \in ObjectSym, NeedGotSlot(s), addr'[s] # Null,
                        NameOf(s) \notin SystemName
                 PROVE  /\ gsyms[Hash[NameOf(s)]] # Null
                        /\ addr'[s] = addr'[gsyms[Hash[NameOf(s)]]]
      BY DEF BoundInv
    <2> DEFINE e == gsyms[Hash[NameOf(s)]]
    <2>1. s \in SymId /\ Hash[NameOf(s)] \in HashKey /\ NameOf(s) = Sym(s).name
      BY SymbolData DEF SymId
    <2>2. e # Null => e \in SymId /\ addr[e] # Null
      BY <2>1 DEF TypeOK, NamesInv, GsymsSound
    <2>3. e # Null => addr'[e] = addr[e]
      BY <1>3, <2>2 DEF AddrStep
    <2>4. CASE addr[s] # Null
      BY <1>3, <2>1, <2>3, <2>4 DEF NamesInv, BoundInv, AddrStep
    <2>5. CASE addr[s] = Null
      <3>1. s = here
        BY <1>6, <2>1, <2>5
      <3>2. addr'[s] = GotAddr(s)
        BY <1>1, <1>2, <3>1
      <3>3. addr'[s] = Lookup(Sym(s).name)
        BY <2>5, <3>2 DEF GotAddr
      <3> QED
        BY <2>1, <2>3, <3>3 DEF Lookup
    <2> QED
      BY <2>4, <2>5
  <1> QED
    BY <1>3, <1>8, <1>9, <1>10, <1>11 DEF NamesInv

(* get_names: the symbol it stands at has no address yet.                     *)
LEMMA HereIsFresh ==
    ASSUME TypeOK, ChainInv, NamesInv, AtSymbol("get_names")
    PROVE  /\ here \in ObjectSym /\ here \in SymId /\ here = <<cur, pos>>
           /\ addr[here] = Null
           /\ \A h \in HashKey : gsyms[h] # here
  <1>1. cur \in Object /\ phase = "get_names" /\ cur \notin Loaded /\ pos \in Nat
    BY DEF AtSymbol, TypeOK, ChainInv, LoadPhase
  <1>2. here \in ObjectSym /\ here \in SymId /\ here = <<cur, pos>>
    BY <1>1, HereIsSymbol DEF here
  <1>3. ~Named(here)
    BY <1>1, <1>2 DEF Named
  <1>4. addr[here] = Null
    BY <1>1, <1>2, <1>3 DEF NamesInv, FreshInv
  <1> QED
    BY <1>2, <1>4, NullIsNothing DEF NamesInv, GsymsSound

(* The position of get_names moves past the symbol, and past no other.        *)
LEMMA NamedNext ==
    ASSUME TypeOK, ChainInv, AtSymbol("get_names"), Advance
    PROVE  \A s \in ObjectSym : Named(s)' <=> (Named(s) \/ s = here)
  <1>1. /\ phase = "get_names" /\ phase' = "get_names" /\ pos' = pos + 1 /\ pos \in Nat
        /\ UNCHANGED <<cur, objects>>
    BY DEF AtSymbol, Advance, GoTo, TypeOK
  <1> SUFFICES ASSUME NEW s \in ObjectSym PROVE Named(s)' <=> (Named(s) \/ s = here)
    OBVIOUS
  <1>2. s = <<s[1], s[2]>> /\ s[2] \in Nat
    <2>1. PICK o \in Object : s \in {<<o, j>> : j \in DOMAIN Symbols[o]}
      BY DEF ObjectSym
    <2>2. PICK j \in DOMAIN Symbols[o] : s = <<o, j>>
      BY <2>1
    <2>3. DOMAIN Symbols[o] \subseteq Nat
      BY ObjectFiles
    <2> QED
      BY <2>2, <2>3
  <1>3. s = here <=> (s[1] = cur /\ s[2] = pos)
    BY <1>2 DEF here
  <1> QED
    BY <1>1, <1>2, <1>3 DEF Named, Loaded

LEMMA KeepNameNames ==
    ASSUME TypeOK, ChainInv, NamesInv, KeepName
    PROVE  NamesInv' /\ AddrStep
  <1>1. /\ AtSymbol("get_names") /\ Advance /\ ~Publishes(here) /\ Nameable(here)
        /\ addr' = [addr EXCEPT ![here] = OwnAddr(here)] /\ gsyms' = gsyms
    BY DEF KeepName
  <1>2. /\ here \in ObjectSym /\ here \in SymId /\ addr[here] = Null
        /\ \A h \in HashKey : gsyms[h] # here
    BY <1>1, HereIsFresh
  <1>3. addr \in [SymId -> Address \cup {Null}]
    BY DEF TypeOK
  <1>4. addr'[here] = OwnAddr(here) /\ \A s \in SymId : s # here => addr'[s] = addr[s]
    BY <1>1, <1>2, <1>3
  <1>5. AddrStep
    BY <1>2, <1>4 DEF AddrStep
  <1>6. \A s \in ObjectSym : Named(s)' <=> (Named(s) \/ s = here)
    BY <1>1, NamedNext
  <1>7. phase = "get_names" /\ phase' = "get_names"
    BY <1>1 DEF AtSymbol, Advance, GoTo
  <1>8. \A h \in HashKey : gsyms[h] # Null => gsyms[h] \in SymId /\ addr'[gsyms[h]] = addr[gsyms[h]]
    BY <1>2, <1>4 DEF TypeOK
  <1>9. FreshInv'
    <2>1. \A n \in HostName : <<Null, n>> \in SymId /\ <<Null, n>> # here
      BY <1>2, SymbolData DEF SymId, HostSym
    <2> QED
      BY <1>1, <1>4, <1>6, <1>7, <2>1 DEF NamesInv, FreshInv, SymId
  <1>10. GsymsSound'
    BY <1>1, <1>8 DEF NamesInv, GsymsSound
  <1>11. PublishedInv'
    BY <1>1, <1>4, <1>6 DEF NamesInv, PublishedInv, SymId, Publishes
  <1>12. BoundInv'
    <2>1. ~(NeedGotSlot(here) /\ addr'[here] # Null)
      BY <1>1, <1>2, <1>4, ObjectFiles DEF NeedGotSlot, OwnAddr, Publishes
    <2>2. \A s \in ObjectSym : s \in SymId /\ Hash[NameOf(s)] \in HashKey
      BY SymbolData DEF SymId
    <2> QED
      BY <1>1, <1>4, <1>8, <2>1, <2>2 DEF NamesInv, BoundInv
  <1> QED
    BY <1>5, <1>9, <1>10, <1>11, <1>12 DEF NamesInv

LEMMA PublishNameNames ==
    ASSUME TypeOK, ChainInv, NamesInv, PublishName
    PROVE  NamesInv' /\ AddrStep
  <1> DEFINE k == Hash[NameOf(here)]
  <1>1. /\ AtSymbol("get_names") /\ Advance /\ Publishes(here) /\ gsyms[k] = Null
        /\ addr' = [addr EXCEPT ![here] = OwnAddr(here)]
        /\ gsyms' = [gsyms EXCEPT ![k] = here]
    BY DEF PublishName
  <1>2. /\ here \in ObjectSym /\ here \in SymId /\ addr[here] = Null
        /\ \A h \in HashKey : gsyms[h] # here
    BY <1>1, HereIsFresh
  <1>3. k \in HashKey
    BY <1>2, SymbolData
  <1>4. addr'[here] = OwnAddr(here) /\ \A s \in SymId : s # here => addr'[s] = addr[s]
    BY <1>1, <1>2 DEF TypeOK
  <1>5. AddrStep
    BY <1>2, <1>4 DEF AddrStep
  <1>6. \A s \in ObjectSym : Named(s)' <=> (Named(s) \/ s = here)
    BY <1>1, NamedNext
  <1>7. phase = "get_names" /\ phase' = "get_names"
    BY <1>1 DEF AtSymbol, Advance, GoTo
  <1>8. gsyms'[k] = here /\ \A h \in HashKey : h # k => gsyms'[h] = gsyms[h]
    BY <1>1, <1>3 DEF TypeOK
  <1>9. \A h \in HashKey : gsyms[h] # Null =>
            h # k /\ gsyms[h] \in SymId /\ addr'[gsyms[h]] = addr[gsyms[h]]
    BY <1>1, <1>2, <1>4 DEF TypeOK
  <1>10. \A s \in ObjectSym : s \in SymId /\ Hash[NameOf(s)] \in HashKey
    BY SymbolData DEF SymId
  <1>11. here # Null
    BY <1>2, NullIsNothing
  <1>12. FreshInv'
    <2>1. \A n \in HostName : <<Null, n>> \in SymId /\ <<Null, n>> # here /\ Hash[n] \in HashKey
      BY <1>2, SymbolData, Host DEF SymId, HostSym, HashKey
    <2>2. \A n \in HostName : addr'[<<Null, n>>] # Null => gsyms'[Hash[n]] # Null
      BY <1>4, <1>8, <1>9, <1>11, <2>1 DEF NamesInv, FreshInv
    <2>3. \A s \in ObjectSym : addr'[s] # Null => Named(s)'
      BY <1>4, <1>6, <1>7, <1>10 DEF NamesInv, FreshInv
    <2> QED
      BY <2>2, <2>3 DEF FreshInv
  <1>13. GsymsSound'
    <2> SUFFICES ASSUME NEW h \in HashKey, gsyms'[h] # Null
                 PROVE  (/\ Hash[NameOf(gsyms'[h])] = h
                         /\ addr'[gsyms'[h]] # Null
                         /\ gsyms'[h] \in ObjectSym =>
                               Publishes(gsyms'[h]) /\ addr'[gsyms'[h]] = OwnAddr(gsyms'[h]))
      BY DEF GsymsSound
    <2>1. CASE h = k
      BY <1>1, <1>4, <1>8, <2>1 DEF Publishes
    <2>2. CASE h # k
      BY <1>8, <1>9, <2>2 DEF NamesInv, GsymsSound
    <2> QED
      BY <2>1, <2>2
  <1>14. PublishedInv'
    <2> SUFFICES ASSUME NEW s \in ObjectSym, Named(s)', Publishes(s)
                 PROVE  gsyms'[Hash[NameOf(s)]] = s /\ addr'[s] = OwnAddr(s)
      BY DEF PublishedInv
    <2>1. CASE s = here
      BY <1>4, <1>8, <2>1
    <2>2. CASE s # here
      <3>1. gsyms[Hash[NameOf(s)]] = s /\ addr[s] = OwnAddr(s)
        BY <1>6, <2>2 DEF NamesInv, PublishedInv
      <3>2. s # Null
        BY <1>10, NullIsNothing
      <3> QED
        BY <1>4, <1>8, <1>9, <1>10, <2>2, <3>1, <3>2
    <2> QED
      BY <2>1, <2>2
  <1>15. BoundInv'
    <2> SUFFICES ASSUME NEW s \in ObjectSym, NeedGotSlot(s), addr'[s] # Null,
                        NameOf(s) \notin SystemName
                 PROVE  /\ gsyms'[Hash[NameOf(s)]] # Null
                        /\ addr'[s] = addr'[gsyms'[Hash[NameOf(s)]]]
      BY DEF BoundInv
    <2>1. CASE s = here
      BY <1>8, <1>11, <2>1
    <2>2. CASE s # here
      BY <1>4, <1>8, <1>9, <1>10, <2>2 DEF NamesInv, BoundInv
    <2> QED
      BY <2>1, <2>2
  <1> QED
    BY <1>5, <1>12, <1>13, <1>14, <1>15 DEF NamesInv

LEMMA InsertHostSymbolNames ==
    ASSUME TypeOK, NamesInv, NEW n \in HostName, NEW weak \in BOOLEAN,
           InsertHostSymbol(n, weak)
    PROVE  NamesInv' /\ AddrStep
  <1> DEFINE k == Hash[n]
             x == <<Null, n>>
             a == IF weak THEN SystemAddr(n) ELSE HostAddr(n)
  <1>1. /\ phase = "idle" /\ gsyms[k] = Null
        /\ addr' = [addr EXCEPT ![x] = a] /\ gsyms' = [gsyms EXCEPT ![k] = x]
        /\ UNCHANGED control
    BY DEF InsertHostSymbol
  <1>2. n \in Name /\ k \in HashKey /\ x \in SymId /\ x \in HostSym /\ x # Null
    BY Host, NullIsNothing DEF HashKey, SymId, HostSym
  <1>3. x \notin ObjectSym
    BY <1>2, SymbolData
  <1>4. addr[x] = Null
    BY <1>1 DEF NamesInv, FreshInv
  <1>5. a \in Address /\ a # Null
    BY <1>2, NamedAddrType, NullIsNothing
  <1>6. addr'[x] = a /\ \A s \in SymId : s # x => addr'[s] = addr[s]
    BY <1>1, <1>2 DEF TypeOK
  <1>7. AddrStep
    BY <1>4, <1>6 DEF AddrStep
  <1>8. gsyms'[k] = x /\ \A h \in HashKey : h # k => gsyms'[h] = gsyms[h]
    BY <1>1, <1>2 DEF TypeOK
  <1>9. \A h \in HashKey : gsyms[h] # Null =>
            h # k /\ gsyms[h] \in SymId /\ addr'[gsyms[h]] = addr[gsyms[h]]
    BY <1>1, <1>7 DEF TypeOK, NamesInv, GsymsSound, AddrStep
  <1>10. \A s \in ObjectSym : s \in SymId /\ s # x /\ s # Null /\ Hash[NameOf(s)] \in HashKey
    BY <1>3, SymbolData, NullIsNothing DEF SymId
  <1>11. \A s \in ObjectSym : Named(s)' <=> Named(s)
    BY <1>1 DEF Named, Loaded, control
  <1>12. FreshInv'
    <2>1. \A m \in HostName : <<Null, m>> \in SymId /\ Hash[m] \in HashKey
      BY Host DEF SymId, HostSym, HashKey
    <2>2. \A m \in HostName : addr'[<<Null, m>>] # Null => gsyms'[Hash[m]] # Null
      BY <1>2, <1>6, <1>8, <1>9, <2>1 DEF NamesInv, FreshInv
    <2>3. \A s \in ObjectSym : addr'[s] # Null => Named(s)'
      BY <1>1, <1>6, <1>10, <1>11 DEF NamesInv, FreshInv
    <2> QED
      BY <2>2, <2>3 DEF FreshInv
  <1>13. GsymsSound'
    <2> SUFFICES ASSUME NEW h \in HashKey, gsyms'[h] # Null
                 PROVE  (/\ Hash[NameOf(gsyms'[h])] = h
                         /\ addr'[gsyms'[h]] # Null
                         /\ gsyms'[h] \in ObjectSym =>
                               Publishes(gsyms'[h]) /\ addr'[gsyms'[h]] = OwnAddr(gsyms'[h]))
      BY DEF GsymsSound
    <2>1. NameOf(x) = n
      BY <1>2 DEF NameOf
    <2>2. CASE h = k
      BY <1>3, <1>5, <1>6, <1>8, <2>1, <2>2
    <2>3. CASE h # k
      BY <1>8, <1>9, <2>3 DEF NamesInv, GsymsSound
    <2> QED
      BY <2>2, <2>3
  <1>14. PublishedInv'
    BY <1>6, <1>8, <1>9, <1>10, <1>11 DEF NamesInv, PublishedInv
  <1>15. BoundInv'
    BY <1>6, <1>8, <1>9, <1>10 DEF NamesInv, BoundInv
  <1> QED
    BY <1>7, <1>12, <1>13, <1>14, <1>15 DEF NamesInv

LEMMA SymbolIndex ==
    ASSUME NEW s \in ObjectSym
    PROVE  s[2] \in DOMAIN Symbols[s[1]] /\ s[2] \in Nat /\ s[2] >= 1
  <1>1. PICK o \in Object : s \in {<<o, j>> : j \in DOMAIN Symbols[o]}
    BY DEF ObjectSym
  <1>2. PICK j \in DOMAIN Symbols[o] : s = <<o, j>>
    BY <1>1
  <1>3. DOMAIN Symbols[o] = 1..Len(Symbols[o]) /\ Len(Symbols[o]) \in Nat
    BY ObjectFiles
  <1> QED
    BY <1>2, <1>3

(* make_got chains the object onto the list, which thereby holds one more.    *)
LEMMA ChainGrows ==
    ASSUME TypeOK, MakeGot
    PROVE  Loaded' = Loaded \cup {cur}
  <1>1. cur \in Object /\ objects \in Seq(Object) /\ objects' = Append(objects, cur)
    BY DEF MakeGot, PastSymbols, TypeOK
  <1>2. DOMAIN objects' = 1..(Len(objects) + 1) /\ DOMAIN objects = 1..Len(objects)
    BY <1>1, AppendProperties
  <1>3. Len(objects) \in Nat
    BY <1>1
  <1>4. /\ objects'[Len(objects) + 1] = cur
        /\ \A i \in 1..Len(objects) : objects'[i] = objects[i]
    BY <1>1, AppendProperties
  <1>5. DOMAIN objects' = DOMAIN objects \cup {Len(objects) + 1}
    BY <1>2, <1>3
  <1> QED
    BY <1>2, <1>4, <1>5 DEF Loaded

(* Every symbol of the object is named by then.                               *)
LEMMA MakeGotNamed ==
    ASSUME TypeOK, ChainInv, MakeGot
    PROVE  \A s \in ObjectSym : Named(s)' <=> Named(s)
  <1>1. /\ phase = "get_names" /\ cur \in Object /\ pos \notin DOMAIN Symbols[cur]
        /\ phase' \in {"idle", "load_sections"}
    BY DEF MakeGot, PastSymbols, TypeOK
  <1>2. DOMAIN Symbols[cur] = 1..Len(Symbols[cur]) /\ Len(Symbols[cur]) \in Nat
    BY <1>1, ObjectFiles
  <1>3. pos \in Nat /\ pos >= 1
    BY DEF TypeOK, ChainInv
  <1>4. \A s \in ObjectSym : s[1] = cur => s[2] < pos
    BY <1>1, <1>2, <1>3, SymbolIndex
  <1> QED
    BY <1>1, <1>4, ChainGrows DEF Named

LEMMA LoadingNames ==
    ASSUME TypeOK, ChainInv, NamesInv, Loading
    PROVE  NamesInv' /\ AddrStep
  <1>1. CASE LoadSections
    <2>1. /\ phase = "load_sections" /\ phase' = "get_names" /\ pos' = 1
          /\ UNCHANGED <<names, objects, cur>>
      BY <1>1 DEF LoadSections, GoTo, names
    <2>2. \A s \in ObjectSym : Named(s)' <=> Named(s)
      BY <2>1, SymbolIndex DEF Named, Loaded
    <2> QED
      BY <2>1, <2>2, NamesKept
  <1>2. CASE LoadSectionsAborts
    BY <1>2, NamesOutside DEF LoadSectionsAborts, Die, GoTo
  <1>3. CASE KeepName
    BY <1>3, KeepNameNames
  <1>4. CASE PublishName
    BY <1>4, PublishNameNames
  <1>5. CASE GetNamesAborts
    <2>1. phase = "get_names" /\ phase' = "abort" /\ UNCHANGED <<names, objects>>
      BY <1>5 DEF GetNamesAborts, AtSymbol, Die, GoTo
    <2>2. \A s \in ObjectSym : Named(s)' => Named(s)
      BY <2>1 DEF Named, Loaded
    <2> QED
      BY <2>1, <2>2, NamesKept
  <1>6. CASE MakeGot
    BY <1>6, MakeGotNamed, NamesKept DEF MakeGot, PastSymbols
  <1> QED
    BY <1>1, <1>2, <1>3, <1>4, <1>5, <1>6 DEF Loading

LEMMA RelinkingNames ==
    ASSUME TypeOK, ChainInv, NamesInv, Relinking
    PROVE  NamesInv' /\ AddrStep
  <1> USE DEF GoTo, Advance, Die, Return, names
  <1>1. ASSUME AtSymbol("fill_got"), NeedGotSlot(here),
               addr' = [addr EXCEPT ![here] = GotAddr(here)],
               UNCHANGED <<gsyms, objects>>, phase' # "get_names"
        PROVE  NamesInv' /\ AddrStep
    <2>1. phase = "fill_got" /\ cur \in Object /\ cur \in Loaded
      BY <1>1 DEF AtSymbol, TypeOK, ChainInv, ResolvePhase
    <2> QED
      BY <1>1, <2>1, HereIsSymbol, NamesFilled
  <1>2. CASE FillSlot
    BY <1>1, <1>2 DEF FillSlot, AtSymbol
  <1>3. CASE FillFails
    BY <1>1, <1>3 DEF FillFails
  <1>4. CASE FillFaults
    BY <1>1, <1>4 DEF FillFaults
  <1>5. CASE FillSkip
    BY <1>5, NamesOutside DEF FillSkip, AtSymbol
  <1>6. CASE VerifyGot
    BY <1>6, NamesOutside DEF VerifyGot, PastSymbols
  <1>7. CASE RelocSkip \/ RelocAborts \/ RelocFaults \/ MakeStubOverruns
    BY <1>7, NamesOutside
       DEF RelocSkip, RelocAborts, RelocFaults, MakeStubOverruns, Accepted, NeedsStub, Relocatable, AtReloc
  <1>8. CASE WriteDirect \/ ReuseStub \/ MakeStub
    BY <1>8, NamesOutside
       DEF WriteDirect, ReuseStub, MakeStub, BranchesFar, Accepted, NeedsStub, Relocatable, AtReloc
  <1>9. CASE RelocDone
    BY <1>9, NamesOutside DEF RelocDone
  <1>10. CASE ProtectSkip \/ ProtectSection \/ ProtectGot
    BY <1>10, NamesOutside DEF ProtectSkip, ProtectSection, ProtectGot, AtSection, AtGot
  <1>11. CASE MprotectFails
    BY <1>11, NamesOutside DEF MprotectFails, AtSection, AtGot
  <1> QED
    BY <1>2, <1>3, <1>4, <1>5, <1>6, <1>7, <1>8, <1>9, <1>10, <1>11 DEF Relinking

LEMMA CallNames ==
    ASSUME TypeOK, NamesInv, Call
    PROVE  NamesInv' /\ AddrStep
  <1>1. ASSUME NEW o \in Object, LoadObject(o) \/ ResolveObject(o)
        PROVE  NamesInv' /\ AddrStep
    BY <1>1, NamesOutside DEF LoadObject, ResolveObject
  <1>2. ASSUME NEW a \in Archive, LoadArchive(a)
        PROVE  NamesInv' /\ AddrStep
    BY <1>2, NamesOutside DEF LoadArchive
  <1>3. ASSUME NEW n \in HostName, NEW weak \in BOOLEAN, InsertHostSymbol(n, weak)
        PROVE  NamesInv' /\ AddrStep
    BY <1>3, InsertHostSymbolNames
  <1>4. ASSUME NEW n \in HostName, NEW weak \in BOOLEAN, InsertHostSymbolAborts(n, weak)
        PROVE  NamesInv' /\ AddrStep
    BY <1>4, NamesOutside DEF InsertHostSymbolAborts, Die, GoTo
  <1>5. ASSUME NEW f \in Unreadable, LoadFails(f)
        PROVE  NamesInv' /\ AddrStep
    BY <1>5, NamesOutside DEF LoadFails
  <1> QED
    BY <1>1, <1>2, <1>3, <1>4, <1>5 DEF Call

(* What the names of a session promise survives every step.                   *)
LEMMA NamesStep ==
    ASSUME TypeOK, ChainInv, NamesInv, [Next]_vars
    PROVE  NamesInv' /\ AddrStep
  <1>1. CASE UNCHANGED vars
    <2>1. UNCHANGED <<control, names>>
      BY <1>1 DEF vars
    <2>2. \A s \in ObjectSym : Named(s)' <=> Named(s)
      BY <2>1 DEF Named, Loaded, control
    <2> QED
      BY <2>1, <2>2 DEF NamesInv, AddrStep, FreshInv, GsymsSound, PublishedInv, BoundInv,
                        names, control
  <1> QED
    BY <1>1, LoadingNames, RelinkingNames, CallNames DEF Next, Work

LEMMA ChainKept ==
    ASSUME ChainInv, UNCHANGED <<cur, todo, objects>>, pos' >= 1,
           phase' \in ResolvePhase => phase \in ResolvePhase,
           phase' \in LoadPhase => phase \in LoadPhase
    PROVE  ChainInv'
  BY DEF ChainInv, Loaded

LEMMA LoadingChain ==
    ASSUME TypeOK, ChainInv, Loading
    PROVE  ChainInv'
  <1> USE DEF GoTo, Advance, Die, LoadPhase, ResolvePhase
  <1>1. CASE LoadSections \/ LoadSectionsAborts
    BY <1>1, ChainKept DEF LoadSections, LoadSectionsAborts, ChainInv
  <1>2. CASE KeepName \/ PublishName \/ GetNamesAborts
    <2>1. /\ phase = "get_names" /\ phase' \in {"get_names", "abort"}
          /\ pos' \in {pos, pos + 1} /\ UNCHANGED <<cur, todo, objects>>
      BY <1>2 DEF KeepName, PublishName, GetNamesAborts, AtSymbol
    <2>2. pos' >= 1
      BY <2>1 DEF TypeOK, ChainInv
    <2> QED
      BY <2>1, <2>2, ChainKept
  <1>3. CASE MakeGot
    <2>1. Loaded' = Loaded \cup {cur} /\ phase = "get_names" /\ todo \in Seq(Object)
          /\ pos' = pos /\ pos >= 1
      BY <1>3, ChainGrows DEF MakeGot, PastSymbols, TypeOK, ChainInv
    <2>2. CASE todo = << >>
      BY <1>3, <2>1, <2>2 DEF MakeGot, ChainInv
    <2>3. CASE todo # << >>
      <3>1. phase' = "load_sections" /\ cur' = Head(todo) /\ todo' = Tail(todo)
        BY <1>3, <2>3 DEF MakeGot
      <3>2. /\ 1 \in DOMAIN todo /\ Head(todo) = todo[1]
            /\ \A i \in DOMAIN Tail(todo) :
                  i + 1 \in DOMAIN todo /\ Tail(todo)[i] = todo[i + 1] /\ i \in Nat /\ i >= 1
        BY <2>1, <2>3, HeadTailProperties
      <3>3. /\ \A i \in DOMAIN todo : todo[i] \notin Loaded \cup {cur}
            /\ \A i, k \in DOMAIN todo : todo[i] = todo[k] => i = k
        BY <2>1 DEF ChainInv
      <3>4. cur' \notin Loaded'
        BY <2>1, <3>1, <3>2, <3>3
      <3>5. \A i \in DOMAIN todo' : todo'[i] \notin Loaded' \cup {cur'}
        <4> SUFFICES ASSUME NEW i \in DOMAIN Tail(todo)
                     PROVE  Tail(todo)[i] \notin Loaded' \cup {cur'}
          BY <3>1
        <4>1. Tail(todo)[i] = todo[i + 1] /\ i + 1 \in DOMAIN todo /\ i + 1 # 1
          BY <3>2
        <4>2. todo[i + 1] # todo[1]
          BY <3>2, <3>3, <4>1
        <4> QED
          BY <2>1, <3>1, <3>2, <3>3, <4>1, <4>2
      <3>6. \A i, k \in DOMAIN todo' : todo'[i] = todo'[k] => i = k
        <4> SUFFICES ASSUME NEW i \in DOMAIN Tail(todo), NEW k \in DOMAIN Tail(todo),
                            Tail(todo)[i] = Tail(todo)[k]
                     PROVE  i = k
          BY <3>1
        <4>1. i + 1 = k + 1
          BY <3>2, <3>3
        <4> QED
          BY <3>2, <4>1
      <3> QED
        BY <2>1, <3>1, <3>4, <3>5, <3>6 DEF ChainInv
    <2> QED
      BY <2>2, <2>3
  <1> QED
    BY <1>1, <1>2, <1>3 DEF Loading

LEMMA RelinkingChain ==
    ASSUME TypeOK, ChainInv, Relinking
    PROVE  ChainInv'
  <1> USE DEF GoTo, Advance, Die, Return, LoadPhase, ResolvePhase
  <1>1. /\ phase \in ResolvePhase /\ phase' \notin LoadPhase
        /\ UNCHANGED <<cur, todo, objects>> /\ pos' \in {pos, pos + 1, 1}
    <2>1. CASE FillSkip \/ FillSlot \/ FillFails \/ FillFaults \/ VerifyGot
      BY <2>1 DEF FillSkip, FillSlot, FillFails, FillFaults, VerifyGot, AtSymbol, PastSymbols
    <2>2. CASE RelocSkip \/ RelocAborts \/ RelocFaults \/ MakeStubOverruns
      BY <2>2 DEF RelocSkip, RelocAborts, RelocFaults, MakeStubOverruns, Accepted, NeedsStub, Relocatable, AtReloc
    <2>3. CASE WriteDirect \/ ReuseStub \/ MakeStub \/ RelocDone
      BY <2>3 DEF WriteDirect, ReuseStub, MakeStub, RelocDone, BranchesFar, Accepted, NeedsStub,
                  Relocatable, AtReloc
    <2>4. CASE ProtectSkip \/ ProtectSection \/ ProtectGot \/ MprotectFails
      BY <2>4 DEF ProtectSkip, ProtectSection, ProtectGot, MprotectFails, AtSection, AtGot
    <2> QED
      BY <2>1, <2>2, <2>3, <2>4 DEF Relinking
  <1>2. pos' >= 1
    BY <1>1 DEF TypeOK, ChainInv
  <1> QED
    BY <1>1, <1>2, ChainKept

LEMMA CallChain ==
    ASSUME TypeOK, ChainInv, Call
    PROVE  ChainInv'
  <1> USE DEF LoadPhase, ResolvePhase
  <1>1. ASSUME NEW o \in Object, LoadObject(o) PROVE ChainInv'
    BY <1>1 DEF LoadObject, ChainInv, Loaded
  <1>2. ASSUME NEW o \in Object, ResolveObject(o) PROVE ChainInv'
    BY <1>2 DEF ResolveObject, ChainInv, Loaded
  <1>3. ASSUME NEW a \in Archive, LoadArchive(a) PROVE ChainInv'
    <2> DEFINE m == Members[a]
    <2>1. m \in Seq(Object) /\ m # << >>
      BY <1>3, ArchiveFiles DEF LoadArchive
    <2>2. \A i, k \in DOMAIN m : m[i] = m[k] => i = k
      BY ArchiveFiles
    <2>3. /\ \A i \in DOMAIN m : m[i] \notin Loaded
          /\ phase' = "load_sections" /\ cur' = Head(m) /\ todo' = Tail(m)
          /\ UNCHANGED <<pos, objects>>
      BY <1>3 DEF LoadArchive
    <2>4. /\ 1 \in DOMAIN m /\ Head(m) = m[1]
          /\ \A i \in DOMAIN Tail(m) :
                i + 1 \in DOMAIN m /\ Tail(m)[i] = m[i + 1] /\ i \in Nat /\ i >= 1
      BY <2>1, HeadTailProperties
    <2>5. Loaded' = Loaded
      BY <2>3 DEF Loaded
    <2>6. \A i \in DOMAIN todo' : todo'[i] \notin Loaded' \cup {cur'}
      <3> SUFFICES ASSUME NEW i \in DOMAIN Tail(m)
                   PROVE  Tail(m)[i] \notin Loaded \cup {m[1]}
        BY <2>3, <2>4, <2>5
      <3>1. Tail(m)[i] = m[i + 1] /\ i + 1 \in DOMAIN m /\ i + 1 # 1
        BY <2>4
      <3> QED
        BY <2>2, <2>3, <2>4, <3>1
    <2>7. \A i, k \in DOMAIN todo' : todo'[i] = todo'[k] => i = k
      <3> SUFFICES ASSUME NEW i \in DOMAIN Tail(m), NEW k \in DOMAIN Tail(m),
                          Tail(m)[i] = Tail(m)[k]
                   PROVE  i = k
        BY <2>3
      <3>1. i + 1 = k + 1
        BY <2>2, <2>4
      <3> QED
        BY <2>4, <3>1
    <2> QED
      BY <2>3, <2>4, <2>5, <2>6, <2>7 DEF ChainInv
  <1>4. ASSUME NEW n \in HostName, NEW weak \in BOOLEAN,
               InsertHostSymbol(n, weak) \/ InsertHostSymbolAborts(n, weak)
        PROVE  ChainInv'
    <2>1. UNCHANGED <<cur, pos, todo, objects>> /\ phase' \in {"idle", "abort"}
      BY <1>4 DEF InsertHostSymbol, InsertHostSymbolAborts, Die, GoTo, control
    <2> QED
      BY <2>1, ChainKept DEF ChainInv
  <1>5. ASSUME NEW f \in Unreadable, LoadFails(f) PROVE ChainInv'
    BY <1>5 DEF LoadFails, ChainInv, Loaded
  <1> QED
    BY <1>1, <1>2, <1>3, <1>4, <1>5 DEF Call

------------------------------------------------------------------------------
(* Memory stays writable until an object was relocated once.                  *)

LEMMA WritableKept ==
    ASSUME WritableInv, UNCHANGED <<prot, gotProt, passes, objects>>,
           phase' \in {"mprotect", "get_names"} => phase' = phase /\ cur' = cur
    PROVE  WritableInv'
  <1>1. \A s \in SecId : LoadedSections(s[1])' => LoadedSections(s[1])
    BY DEF LoadedSections, Loaded
  <1> QED
    BY <1>1 DEF WritableInv

LEMMA LoadingWritable ==
    ASSUME TypeOK, ChainInv, WritableInv, Loading
    PROVE  WritableInv'
  <1> USE DEF GoTo, Advance, Die
  <1>1. CASE LoadSections
    <2>1. /\ phase = "load_sections" /\ phase' = "get_names"
          /\ UNCHANGED <<cur, objects, gotProt, passes>>
          /\ \A s \in SectionsOf(cur) : ~Unloadable(s)
          /\ prot' = [s \in SecId |->
                        IF s[1] = cur /\ ~Empty(s) /\ SectionKind(s) # "OTHER"
                        THEN "rw" ELSE prot[s]]
      BY <1>1 DEF LoadSections, results
    <2>2. \A s \in SecId : s[1] = cur => s \in SectionsOf(cur)
      BY DEF SecId, SectionsOf
    <2>3. \A s \in SecId : LoadedSections(s[1])' => (LoadedSections(s[1]) \/ s[1] = cur)
      BY <2>1 DEF LoadedSections, Loaded
    <2> QED
      BY <2>1, <2>2, <2>3 DEF WritableInv
  <1>2. CASE LoadSectionsAborts \/ GetNamesAborts
    BY <1>2, WritableKept DEF LoadSectionsAborts, GetNamesAborts, memory, results
  <1>3. CASE KeepName \/ PublishName
    BY <1>3, WritableKept DEF KeepName, PublishName, AtSymbol, memory, results
  <1>4. CASE MakeGot
    <2>1. /\ phase = "get_names" /\ phase' \in {"idle", "load_sections"}
          /\ cur \in Object /\ UNCHANGED <<prot, passes>>
          /\ gotProt' = [gotProt EXCEPT ![cur] = IF HasGot(cur) THEN "rw" ELSE @]
      BY <1>4 DEF MakeGot, PastSymbols, TypeOK, results
    <2>2. \A s \in SecId : LoadedSections(s[1])' => LoadedSections(s[1])
      BY <1>4, <2>1, ChainGrows DEF LoadedSections
    <2>3. \A o \in Object : gotProt'[o] = "rx" => gotProt[o] = "rx"
      BY <2>1 DEF TypeOK
    <2> QED
      BY <2>1, <2>2, <2>3 DEF WritableInv
  <1> QED
    BY <1>1, <1>2, <1>3, <1>4 DEF Loading

(* A relocation of an object not yet complete finds its section writable.     *)
LEMMA FirstRelocation ==
    ASSUME TypeOK, ChainInv, WritableInv, Accepted, prot[SecOf(here)] # "rw"
    PROVE  passes[cur] >= 1
  <1>1. /\ phase = "relocate" /\ cur \in Object /\ pos \in DOMAIN Relocs[cur]
        /\ SectionKind(SecOf(here)) # "OTHER"
    BY DEF Accepted, Relocatable, AtReloc, TypeOK
  <1>2. here \in RelId /\ here[1] = cur /\ SecOf(here) \in SecId
    BY <1>1, RelocIds
  <1>3. SecOf(here)[1] = cur /\ Sec(SecOf(here)).size > 0
    BY <1>2, ObjectFiles DEF SecOf
  <1>4. ~Empty(SecOf(here))
    BY <1>3 DEF Empty
  <1>5. LoadedSections(cur)
    BY <1>1 DEF LoadedSections, ChainInv, ResolvePhase
  <1>6. passes[cur] # 0
    BY <1>1, <1>2, <1>3, <1>4, <1>5 DEF WritableInv
  <1> QED
    BY <1>1, <1>6 DEF TypeOK

LEMMA RelinkingWritable ==
    ASSUME TypeOK, ChainInv, WritableInv, Relinking
    PROVE  WritableInv'
  <1> USE DEF GoTo, Advance, Die, Return, memory, results
  <1>1. CASE FillSkip \/ FillSlot \/ FillFails \/ FillFaults \/ VerifyGot
    BY <1>1, WritableKept
       DEF FillSkip, FillSlot, FillFails, FillFaults, VerifyGot, AtSymbol, PastSymbols
  <1>2. CASE RelocSkip \/ RelocAborts \/ RelocFaults \/ MakeStubOverruns
    BY <1>2, WritableKept DEF RelocSkip, RelocAborts, RelocFaults, MakeStubOverruns,
                              NeedsStub, Accepted, Relocatable, AtReloc
  <1>3. CASE WriteDirect \/ ReuseStub \/ MakeStub
    BY <1>3, WritableKept
       DEF WriteDirect, ReuseStub, MakeStub, BranchesFar, Accepted, NeedsStub, Relocatable, AtReloc
  <1>4. CASE RelocDone
    <2>1. /\ phase = "relocate" /\ phase' = "mprotect" /\ cur \in Object
          /\ passes' = [passes EXCEPT ![cur] = @ + 1]
          /\ UNCHANGED <<cur, objects, prot, gotProt>>
      BY <1>4 DEF RelocDone, TypeOK
    <2>2. passes'[cur] >= 1 /\ \A o \in Object : passes'[o] = 0 => passes[o] = 0
      BY <2>1 DEF TypeOK
    <2>3. \A s \in SecId : s[1] \in Object
      BY DEF SecId
    <2>4. \A s \in SecId : LoadedSections(s[1])' => LoadedSections(s[1])
      BY <2>1 DEF LoadedSections, Loaded
    <2> QED
      BY <2>1, <2>2, <2>3, <2>4 DEF WritableInv
  <1>5. CASE ProtectSkip \/ MprotectFails
    BY <1>5, WritableKept DEF ProtectSkip, MprotectFails, AtSection, AtGot
  <1>6. CASE ProtectSection
    <2>1. /\ phase = "mprotect" /\ phase' = "mprotect"
          /\ prot' = [prot EXCEPT ![here] = ProtFlags(SectionKind(here))]
          /\ UNCHANGED <<cur, objects, gotProt, passes>>
      BY <1>6 DEF ProtectSection, AtSection
    <2>2. passes[cur] >= 1 /\ passes[cur] # 0
      BY <2>1 DEF WritableInv, TypeOK
    <2>3. \A s \in SecId : s[1] # cur => prot'[s] = prot[s]
      BY <2>1 DEF here, TypeOK
    <2>4. \A s \in SecId : LoadedSections(s[1])' => LoadedSections(s[1])
      BY <2>1 DEF LoadedSections, Loaded
    <2> QED
      BY <2>1, <2>2, <2>3, <2>4 DEF WritableInv
  <1>7. CASE ProtectGot
    <2>1. /\ phase = "mprotect" /\ phase' = "idle"
          /\ gotProt' = [gotProt EXCEPT ![cur] = IF HasGot(cur) THEN "rx" ELSE @]
          /\ UNCHANGED <<cur, objects, prot, passes>>
      BY <1>7 DEF ProtectGot, AtGot
    <2>2. passes[cur] >= 1 /\ passes[cur] # 0
      BY <2>1 DEF WritableInv, TypeOK
    <2>3. \A o \in Object : o # cur => gotProt'[o] = gotProt[o]
      BY <2>1 DEF TypeOK
    <2>4. \A s \in SecId : LoadedSections(s[1])' => LoadedSections(s[1])
      BY <2>1 DEF LoadedSections, Loaded
    <2> QED
      BY <2>1, <2>2, <2>3, <2>4 DEF WritableInv
  <1> QED
    BY <1>1, <1>2, <1>3, <1>4, <1>5, <1>6, <1>7 DEF Relinking

LEMMA CallWritable ==
    ASSUME WritableInv, Call
    PROVE  WritableInv'
  <1> USE DEF memory, results
  <1>1. ASSUME NEW o \in Object, LoadObject(o) \/ ResolveObject(o) PROVE WritableInv'
    BY <1>1, WritableKept DEF LoadObject, ResolveObject
  <1>2. ASSUME NEW a \in Archive, LoadArchive(a) PROVE WritableInv'
    BY <1>2, WritableKept DEF LoadArchive
  <1>3. ASSUME NEW f \in Unreadable, LoadFails(f) PROVE WritableInv'
    BY <1>3, WritableKept DEF LoadFails
  <1>4. ASSUME NEW n \in HostName, NEW weak \in BOOLEAN,
               InsertHostSymbol(n, weak) \/ InsertHostSymbolAborts(n, weak)
        PROVE  WritableInv'
    BY <1>4, WritableKept DEF InsertHostSymbol, InsertHostSymbolAborts, Die, GoTo, control
  <1> QED
    BY <1>1, <1>2, <1>3, <1>4 DEF Call

LEMMA SessionStep == TypeOK /\ SessionInv /\ [Next]_vars => SessionInv'
  <1> SUFFICES ASSUME TypeOK, SessionInv, [Next]_vars PROVE SessionInv'
    OBVIOUS
  <1>1. ChainInv /\ NamesInv /\ WritableInv
    BY DEF SessionInv, NamesInv
  <1>2. NamesInv'
    BY <1>1, NamesStep
  <1>3. ChainInv' /\ WritableInv'
    <2>1. CASE UNCHANGED vars
      BY <1>1, <2>1 DEF vars, control, memory, results, ChainInv, WritableInv, Loaded,
                        LoadedSections
    <2>2. CASE Next
      BY <1>1, <2>2, LoadingChain, RelinkingChain, CallChain,
         LoadingWritable, RelinkingWritable, CallWritable DEF Next, Work
    <2> QED
      BY <2>1, <2>2
  <1> QED
    BY <1>2, <1>3 DEF SessionInv, NamesInv

(* The inductive invariant holds in every session.                            *)
THEOREM SessionInvariant == Spec => []SessionInv
  <1>1. TypeOK /\ SessionInv /\ [Next]_vars => SessionInv'
    BY SessionStep
  <1> QED
    BY <1>1, InitSessionInv, TypeCorrect, PTL DEF Spec

------------------------------------------------------------------------------
(* What the invariant gives.                                                  *)

(* Whatever the table holds has that hash and the address of its definition.  *)
THEOREM GsymsAlwaysSound == Spec => []GsymsSound
  <1>1. SessionInv => GsymsSound
    BY DEF SessionInv
  <1> QED
    BY <1>1, SessionInvariant, PTL

(* The definitions of every loaded object stay visible.                       *)
THEOREM DefinitionsStayVisible == Spec => []DefinitionsVisible
  <1>1. SessionInv => DefinitionsVisible
    BY DEF SessionInv, PublishedInv, DefinitionsVisible, Named
  <1> QED
    BY <1>1, SessionInvariant, PTL

(* No step changes an address that was found.                                 *)
THEOREM AddressesStable == Spec => AddrStable
  <1>1. TypeOK /\ SessionInv /\ [Next]_vars
        => [\A s \in SymId : addr[s] # Null => addr'[s] = addr[s]]_vars
    BY NamesStep DEF AddrStep, SessionInv, NamesInv
  <1> QED
    BY <1>1, TypeCorrect, SessionInvariant, PTL DEF Spec, AddrStable

(* No step takes an entry out of the table or replaces it.                    *)
LEMMA TableGrows ==
    ASSUME TypeOK, Next, NEW h \in HashKey, gsyms[h] # Null
    PROVE  gsyms'[h] = gsyms[h]
  <1>1. CASE PublishName
    BY <1>1 DEF PublishName, TypeOK
  <1>2. CASE Loading /\ ~PublishName
    BY <1>2 DEF Loading, LoadSections, LoadSectionsAborts, KeepName, GetNamesAborts, MakeGot, names
  <1>3. CASE Relinking
    BY <1>3 DEF Relinking, FillSkip, FillSlot, FillFails, FillFaults, VerifyGot, RelocSkip,
                RelocAborts, RelocFaults, MakeStubOverruns, WriteDirect, ReuseStub, MakeStub, RelocDone,
                ProtectSkip, ProtectSection, ProtectGot, MprotectFails, names
  <1>4. ASSUME NEW n \in HostName, NEW weak \in BOOLEAN, InsertHostSymbol(n, weak)
        PROVE  gsyms'[h] = gsyms[h]
    BY <1>4 DEF InsertHostSymbol, TypeOK
  <1>5. ASSUME NEW n \in HostName, NEW weak \in BOOLEAN, InsertHostSymbolAborts(n, weak)
        PROVE  gsyms'[h] = gsyms[h]
    BY <1>5 DEF InsertHostSymbolAborts, names
  <1>6. ASSUME NEW o \in Object, LoadObject(o) \/ ResolveObject(o)
        PROVE  gsyms'[h] = gsyms[h]
    BY <1>6 DEF LoadObject, ResolveObject, names
  <1>7. ASSUME NEW a \in Archive, LoadArchive(a)
        PROVE  gsyms'[h] = gsyms[h]
    BY <1>7 DEF LoadArchive, names
  <1>8. ASSUME NEW f \in Unreadable, LoadFails(f)
        PROVE  gsyms'[h] = gsyms[h]
    BY <1>8 DEF LoadFails, names
  <1> QED
    BY <1>1, <1>2, <1>3, <1>4, <1>5, <1>6, <1>7, <1>8 DEF Next, Work, Call

(* A successful lookup keeps its answer, unless it came from the system.      *)
THEOREM LookupsStable == Spec => LookupStable
  <1> DEFINE A(n) == \/ Lookup(n) \in {Null, Lookup(n)'}
                     \/ n \in SystemName /\ gsyms[Hash[n]] = Null
  <1>1. TypeOK /\ SessionInv /\ [Next]_vars => [\A n \in Name : A(n)]_vars
    <2> SUFFICES ASSUME TypeOK, SessionInv, Next, NEW n \in Name, gsyms[Hash[n]] # Null
                 PROVE  Lookup(n) = Lookup(n)'
      BY DEF Lookup
    <2>1. Hash[n] \in HashKey
      BY DEF HashKey
    <2>2. gsyms'[Hash[n]] = gsyms[Hash[n]]
      BY <2>1, TableGrows
    <2>3. gsyms[Hash[n]] \in SymId /\ addr[gsyms[Hash[n]]] # Null
      BY <2>1 DEF TypeOK, SessionInv, GsymsSound
    <2>4. AddrStep
      BY NamesStep DEF SessionInv, NamesInv
    <2> QED
      BY <2>2, <2>3, <2>4 DEF Lookup, AddrStep
  <1> QED
    BY <1>1, TypeCorrect, SessionInvariant, PTL DEF Spec, LookupStable

(* Objects agree on the address of a name the system does not have.           *)
THEOREM OneBindingAlways == Spec => []OneBinding
  <1>1. SessionInv => OneBinding
    BY DEF SessionInv, BoundInv, OneBinding
  <1> QED
    BY <1>1, SessionInvariant, PTL

(* An object that has an address for a name has the address of the loaded     *)
(* definition of that name, also when other names share its hash.             *)
THEOREM BoundToDefinitionAlways == Spec => []BoundToDefinition
  <1>1. SessionInv => BoundToDefinition
    <2>1. SUFFICES ASSUME SessionInv, NEW s \in ObjectSym, NEW t \in ObjectSym,
                        NeedGotSlot(s), addr[s] # Null, NameOf(s) \notin SystemName,
                        t[1] \in Loaded, Publishes(t), NameOf(t) = NameOf(s)
                 PROVE  addr[s] = OwnAddr(t)
      BY DEF BoundToDefinition
    <2>2. addr[s] = addr[gsyms[Hash[NameOf(s)]]]
      BY <2>1 DEF SessionInv, BoundInv
    <2>3. gsyms[Hash[NameOf(t)]] = t /\ addr[t] = OwnAddr(t)
      BY <2>1 DEF SessionInv, PublishedInv, Named
    <2> QED
      BY <2>1, <2>2, <2>3
  <1> QED
    BY <1>1, SessionInvariant, PTL
=============================================================================
