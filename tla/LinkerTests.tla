---------------------------- MODULE LinkerTests ----------------------------
(* The programs of Tests.c, the library's only hosts in the repository: each  *)
(* makes its calls in a fixed order, checks some of the results and not       *)
(* others, and runs the code it linked. A host and the library share one      *)
(* thread; the steps of a call are those of Linker.                           *)
EXTENDS Linker

(* The statements of a program.                                               *)
Load(o)    == [op |-> "load", arg |-> o]          \* loadObject
LoadAll(a) == [op |-> "archive", arg |-> a]       \* loadArchive
Insert(n)  == [op |-> "insert", arg |-> n]        \* insert_global_symbol
Resolve(o) == [op |-> "resolve", arg |-> o]       \* if(resolveObject(o)) abort()
Walk(a)    == [op |-> "walk", arg |-> a]          \* the same for o, o->next, ...
WalkAll    == [op |-> "walk", arg |-> Null]       \* the same from LINKER.objects
List       == [op |-> "list", arg |-> Null]       \* list_global_symbols
Need(n)    == [op |-> "need", arg |-> n]          \* lookupSymbol_, or abort()
Use(n)     == [op |-> "use", arg |-> n]           \* lookupSymbol_, not checked

(* The programs, given the files they find. What is looked up and checked     *)
(* against NULL before its use is left out: it cannot fail.                   *)
testSimple(lib) == <<Load(lib), Resolve(lib), List, Use("myglob")>>

Counting == <<List, Use("glob"), Use("square"), Use("inc"), Use("quad"), Use("double_inc")>>
testMultiple(a, b, c) ==
    <<Load(a), Load(b), Load(c), Resolve(a), Resolve(b), Resolve(c)>> \o Counting
testArchive(lib)      == <<LoadAll(lib), Walk(lib)>> \o Counting
testGlobalReloc(lib)  == <<LoadAll(lib), Walk(lib), List>>

testRelocCounter(counter) == <<Load(counter), Resolve(counter), List, Need("startCounter")>>

testLoadHS(archives, counter) ==
    [i \in DOMAIN archives |-> LoadAll(archives[i])]
    \o <<Insert("__exidx_start"), Insert("__exidx_end"), Insert("atexit"), WalkAll,
         Need("hs_init"), Need("memcpy"),
         Load(counter), Resolve(counter), Need("startCounter"), Need("helloWorld"),
         Use("setLineBuffering")>>

CONSTANT Program   \* the programs run, each in a process of its own

Statement ==
    {Load(o) : o \in Object} \cup {Resolve(o) : o \in Object}
    \cup {LoadAll(l) : l \in Archive} \cup {Walk(l) : l \in Archive}
    \cup {Insert(n) : n \in HostName} \cup {Need(n) : n \in Name} \cup {Use(n) : n \in Name}
    \cup {WalkAll, List}

IsLoad(st)    == st.op \in {"load", "archive"}
IsResolve(st) == st.op \in {"resolve", "walk"}

(* Statement st resolves all that statement ld loaded before it.              *)
Links(st, ld) ==
    \/ st = WalkAll
    \/ \E o \in Object : ld = Load(o) /\ st = Resolve(o)
    \/ \E l \in Archive : ld = LoadAll(l) /\ st = Walk(l)

(* What the tests have in common: all that is loaded is resolved afterwards,  *)
(* and nothing twice.                                                         *)
IsTest(p) ==
    /\ p \in Seq(Statement)
    /\ \A i \in DOMAIN p : IsLoad(p[i]) => \E k \in DOMAIN p : i < k /\ Links(p[k], p[i])
    /\ \A i, k \in DOMAIN p : i < k /\ IsResolve(p[i]) /\ IsResolve(p[k]) =>
           /\ p[k].op = "resolve" /\ p[i] # p[k]
           /\ p[i].op = "walk" => \E j \in i..k : p[j] = Load(p[k].arg)

ASSUME Programs == \A p \in Program : IsTest(p)

(* The files the tests are built with: what a compiler writes, and names      *)
(* whose hashes differ.                                                       *)
ASSUME Files ==
    /\ \A o \in Object : ~Malformed(o)
    /\ \A s \in ObjectSym : NeedGotSlot(s) /\ OwnAddr(s) = Null =>
           Sym(s).type = "NOTYPE" \/ Sym(s).bind = "WEAK"
    /\ \A s, t \in ObjectSym : s[1] = t[1] /\ Publishes(s) /\ Publishes(t) =>
           (Sym(s).name = Sym(t).name => s = t)
    /\ \A m, n \in Name : Hash[m] = Hash[n] => m = n

VARIABLES
    program,   \* the program that runs (never changes)
    line,      \* its next statement
    called,    \* the object it called resolveObject on and waits for
    outcome    \* "running", "passed", "aborted", "crashed"

host  == <<program, line, called, outcome>>
tvars == <<vars, host>>

TestInit == Init /\ program \in Program /\ line = 1 /\ called = Null /\ outcome = "running"

Running == outcome = "running" /\ phase = "idle"

At(op) == Running /\ called = Null /\ line \in DOMAIN program /\ program[line].op = op
arg    == program[line].arg

Done      == line' = line + 1 /\ UNCHANGED <<program, called, outcome>>
EndAs(how) == outcome' = how /\ UNCHANGED <<program, line, called>>

Loads   == \/ At("load") /\ LoadObject(arg) /\ Done
           \/ At("archive") /\ LoadArchive(arg) /\ Done

(* The file is not there, or kills its reader, and the process with it.       *)
CannotLoad == (At("load") \/ At("archive")) /\ LoadFails(arg) /\ UNCHANGED host

Inserts == /\ At("insert")
           /\ \/ InsertHostSymbol(arg, FALSE) /\ Done
              \/ InsertHostSymbolAborts(arg, FALSE) /\ UNCHANGED host

CallResolve(o) ==
    /\ ResolveObject(o)
    /\ called' = o /\ UNCHANGED <<program, line, outcome>>

(* The object a resolve statement starts with.                                *)
First == IF program[line].op = "resolve" THEN arg
         ELSE IF arg # Null THEN Head(Members[arg]) ELSE Head(objects)

Resolves == (At("resolve") \/ At("walk")) /\ CallResolve(First)

(* o->next, for the walks.                                                    *)
Successors(o) == {objects[i + 1] : i \in {k \in DOMAIN objects : objects[k] = o /\ k < Len(objects)}}
WalksOn == program[line].op = "walk" /\ Successors(called) # {}

NextResolve ==
    /\ Running /\ called # Null /\ ret[called] = "success" /\ WalksOn
    /\ \E o \in Successors(called) : CallResolve(o)

ResolvesDone ==
    /\ Running /\ called # Null /\ ret[called] = "success" /\ ~WalksOn
    /\ line' = line + 1 /\ called' = Null
    /\ UNCHANGED <<program, outcome, vars>>

ResolveAborts ==
    /\ Running /\ called # Null /\ ret[called] = "failure"
    /\ EndAs("aborted") /\ UNCHANGED vars

(* walk() starts from the root of the tree, which may not be there.           *)
Lists ==
    /\ At("list")
    /\ IF \E h \in HashKey : gsyms[h] # Null THEN Done ELSE EndAs("crashed")
    /\ UNCHANGED vars

LooksUp ==
    /\ At("need") \/ At("use")
    /\ IF Lookup(arg) # Null THEN Done
       ELSE EndAs(IF program[line].op = "need" THEN "aborted" ELSE "crashed")
    /\ UNCHANGED vars

Passes ==
    /\ Running /\ called = Null /\ line \notin DOMAIN program
    /\ EndAs("passed") /\ UNCHANGED vars

HostStep == \/ Loads \/ CannotLoad \/ Inserts \/ Resolves \/ NextResolve \/ ResolvesDone
            \/ ResolveAborts \/ Lists \/ LooksUp \/ Passes

TestNext == HostStep \/ (Work /\ UNCHANGED host)

(* One thread, and nothing it waits for.                                      *)
TestSpec == TestInit /\ [][TestNext]_tvars /\ WF_tvars(TestNext)

------------------------------------------------------------------------------
(* A test that passes has linked every object it loaded, the members of an    *)
(* archive it only knows the first of included, and every name it uses has an *)
(* address.                                                                   *)
PassMeansLinked ==
    outcome = "passed" =>
        /\ \A o \in Loaded : Settled(o)
        /\ \A i \in DOMAIN program : program[i].op \in {"need", "use"} => Lookup(program[i].arg) # Null

Defines(s) == IF s \in HostSym THEN addr[s] # Null ELSE s[1] \in Loaded /\ Publishes(s)
Undefined(n) == n \notin SystemName /\ ~\E s \in SymId : NameOf(s) = n /\ Defines(s)

(* A name being published is defined already.                                *)
Duplicate ==
    \E s \in SymId : Defines(s) /\
        \/ line \in DOMAIN program /\ program[line] = Insert(NameOf(s))
        \/ \E t \in ObjectSym : t[1] = cur /\ t # s /\ Publishes(t) /\ NameOf(t) = NameOf(s)

(* The object being resolved uses a name nobody defines.                      *)
UsesUndefined(o) == \E s \in ObjectSym : s[1] = o /\ NeedGotSlot(s) /\ Undefined(NameOf(s))

(* The file being loaded cannot be read.                                      *)
Unread == line \in DOMAIN program /\ IsLoad(program[line]) /\ arg \in Unreadable

(* A test ends without passing only if a file cannot be read, mprotect        *)
(* failed, a name is defined twice, one that the test or its objects use is   *)
(* not defined at all, or the layout does not suit the object being resolved: *)
(* that objects refer to each other in a circle, or ahead of their loading,   *)
(* is no reason. It writes where it must not only in the archive reader, or   *)
(* by the last stub counted for a cramped section.                            *)
TestFailsOnlyForCause ==
    /\ phase = "fault" => Unread \/ Crowded(called)
    /\ phase = "abort" => Duplicate \/ Unread \/ Misfit(called)
    /\ outcome \in {"aborted", "crashed"} =>
        \/ failures > 0
        \/ program[line].op \in {"need", "use"} /\ Undefined(arg)
        \/ program[line].op = "list" /\ \A s \in SymId : ~Defines(s)
        \/ UsesUndefined(called)

(* Every test comes to its end, or its process dies inside a call.            *)
TestsEnd == <>(outcome # "running" \/ phase \in {"abort", "fault"})
=============================================================================
