------------------------------ MODULE LinkerInv ------------------------------
(* The inductive invariant of a session: what get_names, fill_got and         *)
(* mprotect leave behind for the calls that come later, which the safety      *)
(* properties of Linker follow from.                                          *)
EXTENDS Linker

LoadPhase    == {"load_sections", "get_names"}
ResolvePhase == {"fill_got", "relocate", "mprotect"}

(* The object being loaded, and those of the archive to follow, are not on    *)
(* the list yet; an object being resolved is.                                 *)
ChainInv ==
    /\ pos >= 1
    /\ phase \in ResolvePhase => cur \in Loaded
    /\ phase \in LoadPhase =>
           /\ cur \notin Loaded
           /\ \A i \in DOMAIN todo : todo[i] \notin Loaded \cup {cur}
           /\ \A i, k \in DOMAIN todo : todo[i] = todo[k] => i = k

(* get_names is past the symbol.                                              *)
Named(s) == \/ s[1] \in Loaded
            \/ phase = "get_names" /\ s[1] = cur /\ s[2] < pos

(* An address or a table entry exists only for what was named or inserted.    *)
FreshInv ==
    /\ phase # "abort" => \A s \in ObjectSym : addr[s] # Null => Named(s)
    /\ \A n \in HostName : addr[<<Null, n>>] # Null => gsyms[Hash[n]] # Null

(* What the tree holds under a hash is a definition of a name with that hash, *)
(* and its address is the one the defining section was loaded at: a lookup    *)
(* that succeeds never returns a null or an unrelated pointer.                *)
GsymsSound ==
    \A h \in HashKey : LET s == gsyms[h] IN
        s # Null => /\ Hash[NameOf(s)] = h
                    /\ addr[s] # Null
                    /\ s \in ObjectSym => Publishes(s) /\ addr[s] = OwnAddr(s)

PublishedInv ==
    \A s \in ObjectSym : Named(s) /\ Publishes(s) =>
        gsyms[Hash[NameOf(s)]] = s /\ addr[s] = OwnAddr(s)

(* A name the system does not have is bound through the table: whoever has an *)
(* address for it has the address of the entry.                               *)
BoundInv ==
    \A s \in ObjectSym :
        /\ NeedGotSlot(s) /\ addr[s] # Null /\ NameOf(s) \notin SystemName
        => /\ gsyms[Hash[NameOf(s)]] # Null
           /\ addr[s] = addr[gsyms[Hash[NameOf(s)]]]

(* Until its first relocation is complete an object's memory is writable.     *)
LoadedSections(o) == o \in Loaded \/ (phase = "get_names" /\ o = cur)
WritableInv ==
    /\ \A s \in SecId : LoadedSections(s[1]) =>
           /\ ~Unloadable(s)
           /\ (passes[s[1]] = 0 /\ ~Empty(s) /\ SectionKind(s) # "OTHER") => prot[s] = "rw"
    /\ \A o \in Object : passes[o] = 0 => gotProt[o] # "rx"
    /\ phase = "mprotect" => passes[cur] >= 1

SessionInv ==
    ChainInv /\ FreshInv /\ GsymsSound /\ PublishedInv /\ BoundInv /\ WritableInv

------------------------------------------------------------------------------
(* A symbol without a slot keeps what get_names gave it, and no address is    *)
(* that of a stub.                                                            *)
LocalInv ==
    /\ phase # "abort" =>
           \A s \in ObjectSym : Named(s) /\ ~NeedGotSlot(s) => addr[s] = OwnAddr(s)
    /\ \A s \in SymId : addr[s] # Null => addr[s][1] # "stub"

(* fill_got has filled the slots before the position, and the steps after it  *)
(* find all of them filled; mprotect has protected the sections before it.    *)
Filled(s)     == got[s] = addr[s] /\ addr[s] # Null
GotFilled(o)  == \A s \in ObjectSym : s[1] = o /\ NeedGotSlot(s) => Filled(s)
Protected(s)  == Protectable(s) => prot[s] = ProtFlags(SectionKind(s))
Sealed(o)     == /\ GotFilled(o)
                 /\ HasGot(o) => gotProt[o] = "rx"
                 /\ \A s \in SecId : s[1] = o => Protected(s)

SealInv ==
    /\ \A o \in Object : ret[o] # "none" => o \in Loaded
    /\ phase = "fill_got" => \A s \in ObjectSym :
           s[1] = cur /\ s[2] < pos /\ NeedGotSlot(s) => Filled(s)
    /\ phase \in {"relocate", "mprotect"} => GotFilled(cur)
    /\ phase = "mprotect" => \A s \in SecId : s[1] = cur /\ s[2] < pos => Protected(s)
    /\ \A o \in Object : Settled(o) => Sealed(o)

------------------------------------------------------------------------------
(* A place that reaches its target, and goes on doing so when stubs are       *)
(* appended and addresses found.                                              *)
Reaches(p) ==
    /\ addr[SymOf(p)] # Null /\ Lands(p) = Wanted(p)
    /\ place[p][1] = "stub" => /\ place[p][2] = SecOf(p)
                               /\ place[p][3] \in DOMAIN stubs[SecOf(p)]

PlaceInv ==
    /\ phase \notin {"abort", "fault"} => \A p \in RelId :
           /\ passes[p[1]] = 0
           /\ ~(phase = "relocate" /\ p[1] = cur /\ p[2] < pos)
           => place[p] = Null
    /\ phase = "relocate" => \A p \in RelId :
           p[1] = cur /\ p[2] < pos /\ Promised(p, 0) => Reaches(p)
    /\ phase = "mprotect" => \A p \in RelId : p[1] = cur /\ Promised(p, 1) => Reaches(p)
    /\ \A p \in RelId : Settled(p[1]) /\ Promised(p, 1) => Reaches(p)

(* Two branches to one target share its stub: the list never holds a target   *)
(* twice, also over several attempts.                                         *)
StubsDistinct ==
    \A s \in SecId : \A i, k \in DOMAIN stubs[s] : stubs[s][i] = stubs[s][k] => i = k

(* Every stub was made for a relocation that load_sections counted, unless    *)
(* implicit addends were read a second time.                                  *)
MadeFor(s, a, r) ==
    LET p == <<s[1], r>> IN
    /\ Rel(p).sec = s[2] /\ NeedStub(Rel(p)) /\ addr[SymOf(p)] # Null
    /\ a = IF Arch = "arm" THEN Wanted(p) ELSE addr[SymOf(p)]

Redoing(o) ==
    \/ passes[o] >= 2
    \/ passes[o] = 1 /\ cur = o /\ phase \in {"relocate", "abort", "fault"}

StubInv ==
    /\ StubsDistinct
    /\ \A s \in SecId :
           \/ Redoing(s[1]) /\ \E p \in RelId : SecOf(p) = s /\ Rel(p).implicit
           \/ \A k \in DOMAIN stubs[s] :
                 \E r \in DOMAIN Relocs[s[1]] : MadeFor(s, stubs[s][k], r)

ResolveInv == LocalInv /\ SealInv /\ PlaceInv /\ StubInv
=============================================================================
