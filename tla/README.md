# liblink in TLA+

liblink is a small run-time linker for ELF relocatable objects on arm and arm64: a
host program loads object files and archives into its own process, resolves them
against each other and against the libraries it already runs with, and calls into
the result. This directory holds a TLA+ model of it, what TLC checks of the model,
and what TLAPS proves of it.

## 1. Inventory

| component | code | state it keeps | operations |
|---|---|---|---|
| session | `Elf.c` 237-325, `Linker.c` | `LINKER.objects` (a list), `LINKER.gsyms` (a tree) | `loadObject`, `loadArchive`, `resolveObject`, `insert_global_symbol`, `lookupSymbol_` |
| object loading | `Elf.c` 30-235, 335-551, 660-739 | an `ObjectCode`: sections with their memory, symbols with `addr`, relocation tables | `ocInit`, `load_sections`, `get_names` |
| global symbol tree | `BinaryTree.c`, `Hash.c` | nodes `key`, `value`, `left`, `right` | `binary_tree_insert`, `binary_tree_lookup` |
| GOT | `elf/got.c` | a page of slots per object, `symbol->got_addr` | `make_got`, `fill_got`, `verify_got` |
| stubs (PLT) | `elf/plt.c`, `elf/plt/` | `info->stubs`, `info->nstubs` per section, and the code of the stubs | `numberOfStubsForSection`, `find_stub`, `make_stub` |
| relocation | `elf/reloc.c`, `elf/reloc/` | the words of the sections | `decodeAddend`, `compute_addend`, `encodeAddend`, `relocate_object_code` |
| memory protection | `Elf.c` 607-658 | the pages' protection | `mprotect_object_code` |
| archive reader | `Ar.c` | a file position, the name table, the list of members | `read_archive` |
| test programs | `Tests.c` | none of their own | sequences of the calls above |
| debugging | `debug.c`, `elf/luts.c` | none | printing, read-only searches |

How they interact. There is one thread, and there are no callbacks: every function
runs to its end on the caller's thread. `loadObject` maps the file, builds an
`ObjectCode` (`ocInit`) and passes it through `processObject`: `load_sections` maps
memory for each section, with room for its stubs behind it; `get_names` gives every
symbol its address and inserts the global ones into `LINKER.gsyms`; `make_got` maps a
GOT; the object is chained onto `LINKER.objects`. `loadArchive` does so for each
member `read_archive` finds, once that has returned. `resolveObject` then calls `fill_got` (which looks
missing addresses up in `gsyms` and then with `dlsym`), `verify_got`,
`relocate_object_code` and `mprotect_object_code`. State is shared through the symbol
table: an object's symbols point into its sections, other objects' GOT slots, data and
stubs point at those addresses.

What is hard. Not concurrency: the order in which the host calls, and what an early
return leaves behind. `fill_got` fails at the first name it cannot find and keeps what
it found so far; `mprotect` may fail between two sections, after the code has been
rewritten; the host may try again, and nothing in an `ObjectCode` records how far the
last attempt came (`oc->status` never becomes RESOLVED). A name may be provided by the
system, by an object loaded later, by the host, or by two of them. Errors are reported
in three ways: by a return value, by `abort()` or a failed assert, and by the kernel
when read-only memory is written.

What makes each component correct:

* session: a lookup finds what was defined, and goes on doing so; objects that use one
  name agree on its address in whatever order they were loaded and resolved; a resolved
  object is sealed; a session aborts only for a reason the inputs give.
* tree: it is a map that only grows, and its walks end.
* GOT and relocation: every slot holds, and every place reaches, what the relocation
  asks for, also after failed attempts.
* stubs: no branch gets another one's stub; stubs fit the room set aside for them.
  A stub's instructions lead to its target; who may write over them, and over a
  neighbour's code, is known.
* relocation arithmetic: the fields of an instruction, taken together as the processor
  does, address S + A; what does not fit is refused, and nothing else is.
* protection: nothing is written after it was protected, until somebody resolves again.
* archive reader: it returns every complete object of the file once and in order, ends
  on every file, and fails only for something in the file.
* test programs: one that passes has linked all it loaded; one that does not has a
  reason in its files.

## 2. Modules

```
SymbolMap                 what the global symbol table promises
   ^ implemented by
SymbolTree  <- SymbolTreeProofs
                          (Linker uses the map: gsyms)
Linker  <- LinkerInv  <- MCLinker            (runs)
   ^                  <- LinkerProofs <- LinkerResolveProofs
   | hosts of
LinkerTests  <- MCLinkerTests, LinkerTestsProofs
                          (what Linker takes as given, in detail:)
StubTable                 what stubs promise the code around them
   ^ implemented by Linker, with symbolic addresses, and by
Plt       <- MCPlt, PltProofs             where stubs lie, what their instructions do
Encode    <- MCEncode, EncodeProofs       the arithmetic of a relocation
ArReader  <- MCArReader, ArReaderProofs   how an archive becomes the list Members
Arithmetic                facts about numbers for the proofs of the last two
```

**Linker** models a session. `phase` is the function running (`load_sections`,
`get_names`, `fill_got`, `relocate`, `mprotect`; `idle` between calls; `abort` and
`fault` are the two ends of a process), `cur` the `ObjectCode` it works on, `pos` the
position of its loop. Every loop over symbols, relocations or sections is one action
per way an iteration can go, so that a failure in the middle is a state:

| code | actions |
|---|---|
| `loadObject`, `loadArchive`, `processObject` | `LoadObject`, `LoadArchive`, `LoadFails`, `LoadSections`, `LoadSectionsAborts`, `MakeGot` |
| `get_names`, `insert_global_symbol` | `KeepName`, `PublishName`, `GetNamesAborts`; for the host's own symbols `InsertHostSymbol`, `InsertHostSymbolAborts` |
| `lookupSymbol_` | the operator `Lookup` |
| `fill_got`, `verify_got` | `ResolveObject`, `FillSkip`, `FillSlot`, `FillFails`, `FillFaults`, `VerifyGot` |
| `relocate_object_code`, `find_stub`, `make_stub` | `RelocSkip`, `RelocAborts`, `RelocFaults`, `WriteDirect`, `ReuseStub`, `MakeStub`, `MakeStubOverruns`, `RelocDone` |
| `mprotect_object_code` | `ProtectSkip`, `ProtectSection`, `ProtectGot`, `MprotectFails` |

The objects are constants: section headers, symbols and relocations, in the order of
the file (`Sections`, `Symbols`, `Relocs`). Data are abstracted to what the properties
tell apart. Addresses are symbolic, `<<kind, where, index, offset>>`: two mappings never
overlap, so two sections, slots or stubs are two addresses. The words of a section are
`place[p]`: what the place of relocation `p` points at. The numbers that decide whether
a branch reaches its target are the layout the kernel chose, hence the set `far`,
arbitrary and fixed at the start. What else the files and the layout make impossible, and
the code only asserts, or does not look at, is in constants:

| constant | what the code does of it |
|---|---|
| `Unreadable` | the file cannot be opened, or `read_archive` aborts or writes behind its name buffer: `LoadFails`, before any object is made |
| `Unfit` | a place or a value an assert of `decodeAddend`, `compute_addend` or `encodeAddend` refuses: `RelocAborts` |
| `Remote` | branches out of reach of the stub found or made for them (`arm64.c` 217-219, `arm.c` 218): `RelocAborts` |
| `High` | addresses `verify_got` asserts against (`got.c` 123): `VerifyGot` aborts |
| `Cramped` | sections whose pages end before their last stub does (`plt.c` 48): `MakeStubOverruns` faults |

A stub that was not counted, which a retry on arm can make, may or may not find room in the
last page: both are steps. A session is followed up to the fault; what a stub written over the
end of its pages does to its neighbour is in Plt. The relocation types fall into four kinds: `branch`
(JUMP24, CALL, JUMP26, CALL26), `data` (absolute, relative and page forms of S + A),
`got` (the GOT forms) and `thumb` (counted for stubs, refused by `decodeAddend`). An
`implicit` addend is read back from the place, so a place relocated twice yields a sum
of two addresses, which names nothing (`Stray`). The PC bias of arm is added to and
taken off both sides of every use and is left out.

**LinkerInv** states the inductive invariants, in two layers: `SessionInv` (the list,
the table, the addresses, memory still writable) and `ResolveInv` (slots, protection,
places, stubs). **MCLinker** is for TLC: object files in the shape compilers give them.

**SymbolTree** models `BinaryTree.c`, one step per iteration of its loops. A node is
its number in the order of insertion; `span` is a history variable, the interval of
keys that can be found at or below a node. **SymbolMap** is the abstract map.

**LinkerTests** makes the tests of `Tests.c` hosts of a Linker. A program is a sequence
of statements, one per call, in the order of the test: load, resolve or abort, walk
`o->next` and resolve, insert, list, look up and check (`Need`) or look up and use
(`Use`). `HostStep` has an action per statement and way it can go; between the calls the
steps are those of `Linker!Work`. `outcome` tells a test that passed from one that
called `abort` itself or used a null pointer (`crashed`); a process that ends inside a
call has `phase` `abort` or `fault`. `CannotLoad` is a file that is missing, or that kills
its reader. What the tests check before they use it is left out.
`Programs` assumes of a program what the six tests have in common (`IsTest`): all that is
loaded is resolved by a later statement, and nothing twice.

**Plt** looks at stubs with numbers for addresses. Memory is words; `LoadSection` maps
whole pages for code and stub room wherever there are free ones. Relocation writes a
section's branches in order: `BranchDirect`, `ReuseStub` and `MakeStub` each end with the write
of `encodeAddend`, which keeps the upper bits of the word, so that a branch written over a
spilled stub leaves a mixture (`Written`). `RelocateOther` is any other relocation of the section,
of which only the word it writes matters. `MakeStub` first writes the
instructions of `make_stub_arm` or `make_stub_arm64` at the address `make_stub` computes,
into whatever is mapped there, and `MakeStubFaults` if some word cannot be written. `Protect` seals
the pages; `ProtectFails` leaves them writable, and the next resolve starts over: on arm, with
REL relocations, it then reads its own branches as addends, which add up to any of the addresses
`Stray`. A word is an instruction with its halfword and immediate as encoded, and
`Arrives(a)` runs the instructions at `a` as the processor would. Sections are relocated
in any interleaving, which is more than `resolveObject` does, and covers it. **StubTable** is the
abstract view: a set of entry points that only grows, one per section and target.

**Encode** takes one relocation, or the pair of them that forms an address, through
`decodeAddend`, `compute_addend` and `encodeAddend` with integers of given widths;
`PairReached`, `BranchReached` and `DataRead` are what the processor makes of the fields
that result. The operators `Signed` and `IsInt` are `sign_extend32`, `is_int32` and
`is_int64`. A stub is an address at some distance; `target` is what `find_stub` and `make_stub`
are asked to lead it to, with the bias of arm put back. Every assert is an abort: the H bit of
a `blx`, the address of a stub, alignments, ranges.

**ArReader** is `read_archive` on a stream: a position, an end-of-file flag which only a
short read sets, and a file that can end at any byte. One action per way a round of the
loop can go. A name is reduced to how its header gives it, its length, and whether it ends in
`.o` or `_o`. `fileName` has room for 64 bytes: a name from the table that fills it aborts
(`NameAborts`), a name in front of the body is read over its end (`NameOverflows`, status
`overflow`, after which nothing is promised).

Definitions named after a mutation ("Mutant: ..." in their comment) are not part of the
model: each is one plausible bug of the definition below it, and PROJECT.json says
which property it breaks.

## 3. What the runs check

| run | properties | what it shows |
|---|---|---|
| `session_arm64` (183 696 states) | `TypeOK`, `SessionInv`, `ResolvedIsSealed`, `PlacesRight`, `ReferencesRight`, `AddrStable`, `CallsReturn` | an object, an archive of two, one that kills its reader, a host symbol and a name the system has too, called in every order, with retries after failures, a failing mprotect, and a second resolve |
| `session_arm` (296 448) | `ResolveInv`, `PlacesRight`, `StubsReserved`, `FaultOnlyForCause`, `ImplementsTable` | implicit addends; stubs shared and not shared; private data only; a cramped section; retries after a failing mprotect |
| `clashes` (184 312) | `DefinitionsVisible`, `OneBinding`, `BoundToDefinition`, `LookupStable`, `AbortOnlyForCause` | several definitions of a name, two names with one hash, host symbols, object files the loader refuses, and a layout that does not fit: an address above 48 bits, a stub and a value out of range |
| `tests` (33 936) | `PassMeansLinked`, `TestFailsOnlyForCause`, `TestsEnd` | the tests with the files they expect, and with files that are missing, lack a definition, repeat one, refer to each other in a circle, or do not fit the layout |
| `tree` (61 649) | `TypeOK`, `TreeInv`, `ImplementsMap`, `WalkDescends`, `CallsEnd` | every order of inserting four keys, repeated ones, every lookup in between |
| `archive` (348 502) | `TypeOK`, `Complete`, `FailsOnlyForCause`, `WellFormedLoads`, `Returns` | every archive of up to three members, with short names, names of 64 bytes and longer ones, cut off at every byte |
| `plt` (41 139) | `TypeOK`, `BranchesArrive`, `CodeIntact`, `FaultOnlyCramped`, `StubsInv`, `ImplementsTable` | two sections in every placement and order, every choice of branches out of reach, a failing mprotect and the retry, arm and arm64 |
| `encode` (775 428) | `TypeOK`, `Addresses`, `StubOnlyOutOfReach`, `RefusedOnlyForCause` | every kind of relocation at the edges of pages and ranges |
| `stub_bound_comment`, `branch_addend_comment`, `stub_room_comment`, `got_page_comment` | one each | four comments the code does not do (section 6) |

Bounds. `MaxPasses = 2` lets an object be relocated twice, the first time the code
sees its own output; a third time is like the second for everything but the history
counter `passes` (`Rewritten` asks only whether the place was written). `MaxFailures = 1`
puts one failing mprotect at any of the calls; later failures only lengthen the
same retry. Three objects are enough for a use, a definition in an archive and a second
definition; in `clashes` and `tests` a relocation, a branch, an address and a section do
not fit; the images give each object two or three sections and up to five
relocations so that a section has two different stubs, a shared one, and a relocation in
a section that is skipped. In `tree`, four keys give every shape of tree with paths of up to
four nodes. In `plt`, pages have 64 bytes so that two stubs can fill a page, leave room or
run over its end by 4 or by 8 bytes, and four pages leave the kernel a choice of
neighbours. There are two sections, each cramped on one of the builds and each beginning with a
branch, so that either can spill into the other's first branch or fault; behind that of one is a
word of another relocation; one reads implicit addends;
a retry leads to one stray address, as every further one would only make one stub more.
In `encode`, words have 10 and 8 bits instead of 64 and 32, pages 32 bytes and branches 6
bits, in the order of the real widths, so that every displacement around each range is
tried; nothing in the code depends on the widths but their order, and `Widths` states it.
In `archive`, three members are enough for a table, the member that needs it and a
second table, and for an odd member before and behind another; its names stop on both sides of
the 64 bytes. The runs stop where the process ends or the
bounds are used up, so deadlock is not an error in them.

Fairness. `FairSpec` is weak fairness of `Work`, the steps inside a call: the library
runs on its caller's thread, waits for nothing, and a call once made is executed. The
host is under no fairness: it may stop calling. The same holds of `Walk` in SymbolTree.
`TestSpec` and the specification of ArReader are fair to their whole next-state relation:
one thread runs the test, or the call, and waits for nothing.

## 4. What is proved

For every value of the constants, that is for all object files, archives, names, hashes
(colliding or not), layouts, widths and numbers of failures:

| theorem | module |
|---|---|
| `TypeCorrect`, `SessionInvariant`, `GsymsAlwaysSound`, `DefinitionsStayVisible`, `AddressesStable`, `LookupsStable`, `OneBindingAlways`, `BoundToDefinitionAlways` | LinkerProofs |
| `ResolveInvariant`, `ResolvedStaysSealed`, `PlacesAlwaysRight`, `ReferencesAlwaysRight`, `StubsAlwaysDistinct`, `StubsImplementTable`, `StubsAlwaysReserved`, `FaultsOnlyForCause`, `AbortsOnlyForCause`, `CallsShrink` | LinkerResolveProofs |
| `TestsAreSessions`, `TestInvariant`, `PassAlwaysMeansLinked`, `TestsFailOnlyForCause`, `LinkableNeverFails`, `TestsShrink`, `TestsAreTests` | LinkerTestsProofs |
| `TypeCorrect`, `TreeInvariant`, `WalksDescend`, `TreeImplementsMap` | SymbolTreeProofs |
| `TypeCorrect`, `StubsInvariant`, `BranchesAlwaysArrive`, `CodeAlwaysIntact`, `FaultsOnlyIfCramped`, `StubsImplementTable` | PltProofs |
| `TypeCorrect`, `RelocInvariant`, `AlwaysAddresses`, `StubsOnlyOutOfReach`, `RefusalsOnlyForCause` | EncodeProofs |
| `TypeCorrect`, `ReaderInvariant`, `AlwaysComplete`, `AlwaysFailsForCause`, `WellFormedNeverRefused`, `ReadsShrink` | ArReaderProofs |

So every invariant and every safety property of an action that a passing run checks is
a theorem.

Assumptions. `ObjectFiles`: relocations name symbols and sections of their own object
and never a bss section; a section symbol is local and names a section; a symbol's
value is within its section. `ArchiveFiles`: an archive that can be read has a member, and each member is
an object of its own. `Layout` (Linker): what does not fit is a relocation, a branch, an address,
a section; on arm no address has more than 32 bits, and of the relocations only an implicit `blx`
is refused for its place; on arm64 a branch is refused for its stub only. `Host`: `Hash` is a function of the name, `Arch` one of the two.
`NullIsNothing` and `NullAssumption`: the null pointer is no object, symbol or address.
`Layout` (Plt): sections are not empty and hold whole instructions, their branches lie inside
them, each at a place of its own that no other relocation writes, addresses on arm have 32 bits, a page is a multiple of
8 bytes; nothing is assumed of how many sections, stubs or pages there are.
`Widths` (Encode): words, pages and branch fields have the order of their real widths,
places and stubs lie at multiples of 4, addresses in the word. `Archives` (ArReader): a
name that is part of a body is no longer than the body. `Programs` and `Files`
(LinkerTests): a program has the shape of a test, which `TestsAreTests` proves of each of
the six for all files it may be given; and the files are as a compiler writes them: no
object is malformed or has two definitions of a name, an undefined symbol has no type or
is weak, and the names used have different hashes.
TLC evaluates them in every run of the module that states them.

The argument for a session. None of the properties is inductive. *SessionInv* adds what
they rest on: an object being loaded is not on the list (`ChainInv`), nothing has an
address before `get_names` reached it (`FreshInv`), every named global definition is
in the table at its own address (`PublishedInv`), and whoever has an address for a name
the system lacks has the table's (`BoundInv`). From these follow `OneBinding` (two
users compare through the table entry), `BoundToDefinition` (the entry is the definition,
if one is loaded: a second name with its hash would have aborted), `DefinitionsVisible`, `LookupStable` (an entry
never changes, and has its address when it is made) and `AddrStable`; `WritableInv`
says that an object's memory is writable until it was relocated once. *ResolveInv* then follows `resolveObject` step by step: the slots before
the position are filled (`SealInv`), places before it reach their targets and stay
right because stubs are only appended and addresses never change (`PlaceInv`), and each
stub of a section was made for a relocation that was counted (`StubInv`), from which an
injection into the counted relocations gives `StubsReserved`. With `WritableInv` it gives
`FaultOnlyForCause`: a first relocation finds its memory writable, and a stub it makes is one of
those counted, so that it leaves the section's pages only as the last one of a cramped section.
`AbortsOnlyForCause` needs
both: `verify_got` cannot fail because the slots are filled, and no relocation meets a
null address because `fill_got` would have failed; what remains are the asserts on the object
itself, on a clash, and on the layout (`Misfit`). The two layers meet in
`ReferencesRight`: *ResolveInv* says that a place reaches the address its object has for
the name, *SessionInv* that this is the definition's. That stubs are distinct and only
appended makes every step of a session one of `StubTable` or a stutter
(`StubsImplementTable`).

The argument for the tests. `TestsAreSessions` maps every step of a test to one of a
session or to none, so what is proved of sessions holds in tests. *TestInv* adds what the
order of the calls gives: the list has what the statements loaded so far, each object
once and an archive's first member before its others (`ListInv`); so a walk that began there
comes to all of them, and what it has passed is settled (`LinkInv`). No object is
resolved twice (`OnceInv`), since walks resolve only what was loaded before them and a
later statement only what was loaded after; `FaultOnlyForCause` then leaves the archive reader
and cramped sections as causes of a fault. A
name that is looked up in vain is undefined, since `DefinitionsVisible` has every definition in
the table (`CauseInv`). The proof corrected the property: a duplicate name was first
looked for in the statement `program[line]`, which may be an insertion that has nothing
to do with a load that just aborted, or may not exist.

`LinkableNeverFails` says the same of the files alone, without a look at the session: if
each name is defined once, and before a statement looks it up or resolves an object that uses
it, each file can be read, and the objects fit the layout (`Fits`: no cramped section, no
relocation, branch or address an assert refuses; together, `Linkable`), nothing fails. `OriginInv` ties the two together: what is loaded and what
the host has defined come from the statements before the next one, also where the process
ended inside a call. Of the programs in `tests`, TLC finds those that pass to be linkable,
and the tests of `Tests.c` with the files they expect are among them.

The argument for the tree. `TreeInv` says that a child's interval is the part of its
parent's its side leaves it, that a free place has none of the tree's keys in its
interval, and that two free places have no key in common; a walk's key is always in the
interval of its node. Thus a walk that reaches a null pointer has shown the key absent,
and linking a node there leaves one place for every key. The
refinement `TreeImplementsMap` maps the nodes to the map they stand for; a step down
is a stutter, a linked node an insertion, a found node or a null pointer an answer.

The argument for stubs. `StubsInv`: the pages of two sections are disjoint; stub k of a
section is at `StubAt(s, k)` and each of its words is its instruction, unless another section
writes that word too; the word of a branch is the code as loaded before the branch is relocated
and a branch after, direct or to a stub for its target, with the same exception. Only one's own
retry on arm makes more stubs than there are branches (`OneStub`: each stub made before was
asked for by a branch). So without retries the last stub ends at most 8 bytes behind
the section's pages, and only where these are full to the last 8 bytes: this gives `CodeIntact`
and `FaultOnlyCramped`. Words that are shared are the exception of `BranchesArrive` and
`ImplementsTable`, and a real one: the words of the neighbour's first relocations lie in these 8 bytes, and
whichever of the two is written last damages the other.

The argument for the arithmetic of a relocation. `Signed(w, x)` is the one number of w
bits that is congruent to x, a sum of fields is congruent to the value they were taken
from, and a displacement that fits its width is determined by what it reaches: so what is
encoded reaches S + A (`Addresses`), and what does not fit could not be encoded at all
(`StubOnlyOutOfReach`, `RefusedOnlyForCause`). `RelocInv` carries this through the
steps: the addend read is the object file's, before the second instruction of a pair is
relocated the first forms the page, and a stub is made for the address the branch asked for.

The argument for archives. `ReaderInv`: between two members the stream is at the next
header, or at the byte of padding in front of it; each object before is on the list and
was there to its last byte; and the call returns only where no header is left. That the
recursion of `HeaderPos`, like that of `Pow2` in Encode, defines a function is proved
from the least number for which it would not.

TLC agreed to each of these invariants before it was proved; `ReaderInv`, `RelocInv` and
`TestInv` are in no run's list and stand in the proof modules, as their theorems say more.

Liveness is out of the provers' reach, but what it rests on is not: the measure that every
step makes smaller. Inside a call it is a triple (`CallsShrink`): the members of the archive
still to come, which of the call's functions is running, and the rounds its loop has left. In a
walk of the tree it is the node (`WalksDescend`), in the reader the stream's distance from
the end of the file (`ReadsShrink`). In a test it is a triple as well, and then the call's
(`TestsShrink`): the statements left, whether the statement that resolves has made its first
call, and the objects its walk has ahead on the list. What is left to TLC is that the
fairness of section 3 then takes the steps. `WellFormedLoads` says two things, that an
archive `ar` writes ends no process and that the call returns: `WellFormedNeverRefused`
proves the first, and TLC checks both.

Only model-checked, then: `CallsReturn`, `CallsEnd`, `TestsEnd`, `WellFormedLoads` and `Returns`, as liveness properties, and the four violations.

## 5. What the properties do not promise

Each exception in a property is a behaviour of the code, not a convenience:

* `OneBinding`, `LookupStable`, `ReferencesRight` except names the system also provides: which definition
  such a name is bound to depends on when it is first looked up (`Linker.c` 66). Two objects
  that use it may disagree, and no property says they do not.
* `PlacesRight` and `ReferencesRight` except implicit addends relocated a second time, and
  arm64 branches with an addend that need a stub (section 6).
* `StubsReserved` excepts the same second relocation.
* `FaultOnlyForCause`: resolving a resolved object again does end in a fault, at the
  first write to its GOT or code; so may the last stub of a cramped section, on a first resolve,
  and an archive with an overlong name.
* `AbortOnlyForCause`, `TestFailsOnlyForCause`: that a value fits its instruction, a stub is in
  reach and an address has 48 bits is asserted in the middle of a resolve (`Misfit`).
* `BoundToDefinition` promises nothing for a name that no loaded object defines: a use of it
  is bound to another name's definition if their hashes collide, and the host is not told.
* `FaultOnlyCramped`, `CodeIntact`: a section whose code and stubs fill its last page to
  within 8 bytes may fault, or write over the section mapped next (section 6); after a failed
  mprotect on arm any section may, since it makes stubs that were not counted.
* `BranchesArrive`, `ImplementsTable` (Plt) and the words in `StubsInv`: two sections that write
  one word, as above. A stub that spilled is overwritten when its neighbour is relocated after it.
* `Addresses`: branches hold multiples of 4, so a branch to another address is not looked
  at; arm64 branches with an addend through a stub; prel31 sums that do not fit (section 6), and
  the bit above a prel31, a flag of the unwind table which the code overwrites.
* `RefusedOnlyForCause`: an `adrp` can reach twice as far as the assert allows (section 6).
* `FailsOnlyForCause`, `WellFormedLoads`: names of 64 bytes and more (`Ar.c` 110, 114).
* `FailsOnlyForCause`: `Ar.c` does not skip the padding behind a member of odd size, so an
  archive with one anywhere but last ends the process; and one that is cut off between
  members, or in one that is skipped, is taken for a shorter archive.
* `TestFailsOnlyForCause`: a test whose files define nothing dies in `list_global_symbols`.
* bss and sections of other kinds keep their protection (`Protectable`).

## 6. Findings

* `elf/plt.c` 48: the last stub ends 8 bytes behind the space that was allocated for it
  next to the section (`stub_room_comment`). In a section that is cramped it is written to what is
  mapped next, or faults, and the neighbour's own relocation can destroy it afterwards.
* `Elf.c` 248 says "prepend oc to the known objects" and appends. The tests depend on the
  appending: the mutant of `PassMeansLinked` prepends.
* `elf/plt/arm.c` 13: the number of stubs is not an upper bound when a resolve is
  repeated after mprotect failed, on arm (`stub_bound_comment`).
* `elf/reloc/arm64.c` 194: a branch to S + A through a stub goes A bytes into the stub
  (`branch_addend_comment`).
* `elf/reloc/arm64.c` 96 asserts half the range for GOT pages that the comment at line 233 states
  and the instruction has (`got_page_comment`).

Seen while modelling, without a run of their own:

* `Elf.c` 698 says of weak symbols "address will be resolved in insert_global_symbol", which they
  never reach (716): a weak definition is invisible to every object. Linker has it so, and the
  mutant of `OneBinding` is a weak definition with an address.
* `elf/reloc/arm.c` 128: a PREL31 sum beyond 31 bits is written without the overflow check that the
  TODO in front of it names, and read as another: the exception of `Addresses`.

## 7. Not modelled, and the plan

Left out: failing `mmap` and `calloc` (they abort or are unchecked): memory and file handles do
not run out;
`dlopen` by the host during a session (`SystemName` is fixed: the names the system has
when the session begins), unloading (no such call; `free_got` and `free_stubs` are never
called), logging, and the hash function, of which only that it is a function matters.
`debug.c` and `elf/luts.c` print and search for a person at a debugger and change nothing;
`elf/compat.h`, `elf/target.h` and `Types.h` are constants and types, which appear where they
are used. The tests' processes are modelled one test at a time; the program that runs
them is not in the repository. A `GlobalSymbol` of the host on the stack of a function
that has returned (`Linker.c` 29) is outside: host symbols live as long as the session.
`Encode` has the numbers of one relocation and `Plt` those of stubs, but `Linker` keeps
its symbolic addresses: that it is implemented by the two is argued, not checked, but for the stubs, of which both
implement `StubTable`.

Planned, in this order:

1. Linker over SymbolTree directly, through the refinement.
2. The symbolic addresses of Linker related to the numbers of Plt and Encode: a place that
   Linker says reaches its target, and a stub it counts, as theorems over both.
