-------------------------- MODULE LinkerTestsProofs --------------------------
(* Theorems about the test programs, for every set of object files as a       *)
(* compiler writes them.                                                      *)
EXTENDS LinkerTests, LinkerResolveProofs

------------------------------------------------------------------------------
(* The inductive invariant of a test.                                         *)

HostTypeOK ==
    /\ program \in Program /\ line \in Nat /\ line >= 1
    /\ called \in Object \cup {Null} /\ outcome \in {"running", "passed", "aborted", "crashed"}

InLoad    == phase \in {"load_sections", "get_names"}
InResolve == phase \in {"fill_got", "relocate", "mprotect"}

(* The host waits for the call it made, in the statement that made it.        *)
WaitInv ==
    /\ phase # "idle" => outcome = "running"
    /\ outcome = "passed" => line \notin DOMAIN program
    /\ InResolve \/ (phase = "fault" /\ cur # Null) => called # Null
    /\ called # Null =>
           /\ cur = called /\ called \in Loaded /\ ~InLoad
           /\ outcome \in {"running", "aborted"}
           /\ line \in DOMAIN program /\ IsResolve(program[line])
           /\ program[line].op = "resolve" => called = program[line].arg

Arriving    == IF InLoad THEN {cur} \cup {todo[i] : i \in DOMAIN todo} ELSE {}
MembersOf(l) == {Members[l][i] : i \in DOMAIN Members[l]}
LoadedBy(st) == {o \in Object : \/ st = Load(o)
                                \/ \E l \in Archive : st = LoadAll(l) /\ o \in MembersOf(l)}

(* o lies behind the head of the archive, or is it.                           *)
Behind(o, l) == \E h, k \in DOMAIN objects : h <= k /\ objects[h] = Head(Members[l]) /\ objects[k] = o

(* The list has each object that was loaded once, an archive's head first.    *)
ListInv ==
    /\ \A i, k \in DOMAIN objects : objects[i] = objects[k] => i = k
    /\ phase \notin {"abort", "fault"} => \A o \in Object :
           o \in Loaded \cup Arriving <=>
               \E i \in DOMAIN program : i < line /\ o \in LoadedBy(program[i])
    /\ \A l \in Archive : \A o \in MembersOf(l) : o \in Loaded => Behind(o, l)
    /\ InLoad => \A l \in Archive : \A o \in MembersOf(l) :
           /\ o = cur => o = Head(Members[l]) \/ Head(Members[l]) \in Loaded
           /\ \A i \in DOMAIN todo : o = todo[i] =>
                  o # Head(Members[l]) /\ Head(Members[l]) \in Loaded \cup {cur}

(* A walk has passed o.                                                       *)
Before(o) == \E k, c \in DOMAIN objects : k < c /\ objects[k] = o /\ objects[c] = called
Walking   == called # Null /\ program[line].op = "walk"

(* What earlier statements resolve, and the walk that is under way has        *)
(* passed, is settled.                                                        *)
LinkInv == outcome # "aborted" /\ phase \notin {"abort", "fault"} =>
    /\ \A i, k \in DOMAIN program : i < k /\ k < line /\ Links(program[k], program[i]) =>
           \A o \in LoadedBy(program[i]) : o = called \/ Settled(o)
    /\ Walking => \A o \in Object :
           Before(o) /\ (program[line].arg # Null => Behind(o, program[line].arg)) => Settled(o)

(* resolveObject was called for o.                                            *)
Touched(o) == ret[o] # "none" \/ passes[o] # 0

(* That happens once, in the statement of o or a walk.                        *)
OnceInv ==
    /\ \A o \in Object : Touched(o) =>
           /\ o \in Loaded
           /\ \/ o = called
              \/ Walking /\ Before(o)
              \/ \E i \in DOMAIN program : i < line /\
                     \/ program[i] = Resolve(o)
                     \/ program[i].op = "walk" /\ \A j \in i..(line - 1) : program[j] # Load(o)
    /\ InResolve => ret[cur] = "none"
    /\ phase \in {"fill_got", "relocate", "fault"} /\ cur # Null => passes[cur] = 0

LookInv ==
    \A i \in DOMAIN program : i < line /\ program[i].op \in {"need", "use"} =>
        Lookup(program[i].arg) # Null

(* Why a resolve failed, or the process died.                                 *)
CauseInv ==
    /\ \A o \in Loaded : HasGot(o) => gotProt[o] # "unmapped"
    /\ phase = "idle" /\ called # Null /\ ret[called] = "failure" =>
           failures > 0 \/ UsesUndefined(called)
    /\ phase = "abort" => Duplicate \/ Unread \/ Misfit(called)
    /\ phase = "fault" => cur # Null \/ Unread

TestInv == HostTypeOK /\ WaitInv /\ ListInv /\ LinkInv /\ OnceInv /\ LookInv /\ CauseInv


------------------------------------------------------------------------------
(* Programs.                                                                  *)

LEMMA StatementShape ==
    ASSUME NEW st \in Statement
    PROVE  /\ st.op = "load" => st.arg \in Object /\ st = Load(st.arg)
           /\ st.op = "archive" => st.arg \in Archive /\ st = LoadAll(st.arg)
           /\ st.op = "resolve" => st.arg \in Object /\ st = Resolve(st.arg)
           /\ st.op = "walk" /\ st.arg # Null => st.arg \in Archive /\ st = Walk(st.arg)
           /\ st.op = "walk" /\ st.arg = Null => st = WalkAll
           /\ st.op = "insert" => st.arg \in HostName /\ st = Insert(st.arg)
           /\ st.op \in {"need", "use"} => st.arg \in Name
  <1>1. \/ \E o \in Object : st = Load(o) \/ st = Resolve(o)
        \/ \E l \in Archive : st = LoadAll(l) \/ st = Walk(l)
        \/ \E n \in HostName : st = Insert(n)
        \/ \E n \in Name : st = Need(n) \/ st = Use(n)
        \/ st = WalkAll \/ st = List
    BY DEF Statement
  <1> QED
    BY <1>1 DEF Load, LoadAll, Resolve, Walk, Insert, Need, Use, WalkAll, List

LEMMA ProgramLine ==
    ASSUME NEW p \in Program
    PROVE  \A i \in DOMAIN p : i \in Nat /\ i >= 1 /\ p[i] \in Statement
  <1>1. p \in Seq(Statement)
    BY Programs DEF IsTest
  <1> QED
    BY <1>1

(* What a statement loads.                                                    *)
LEMMA LoadedByShape ==
    ASSUME NEW st \in Statement
    PROVE  /\ st.op = "load" => LoadedBy(st) = {st.arg}
           /\ st.op = "archive" => LoadedBy(st) = MembersOf(st.arg)
           /\ ~IsLoad(st) => LoadedBy(st) = {}
  <1>1. CASE st.op = "load"
    <2>1. st.arg \in Object /\ st = Load(st.arg)
      BY <1>1, StatementShape
    <2>2. \A o : st = Load(o) <=> o = st.arg
      BY <2>1 DEF Load
    <2>3. \A l : st # LoadAll(l)
      BY <1>1 DEF LoadAll
    <2> QED
      BY <1>1, <2>1, <2>2, <2>3 DEF LoadedBy, IsLoad
  <1>2. CASE st.op = "archive"
    <2>1. st.arg \in Archive /\ st = LoadAll(st.arg)
      BY <1>2, StatementShape
    <2>2. \A l : st = LoadAll(l) <=> l = st.arg
      BY <2>1 DEF LoadAll
    <2>3. \A o : st # Load(o)
      BY <1>2 DEF Load
    <2>4. MembersOf(st.arg) \subseteq Object
      BY <2>1, ArchiveFiles DEF MembersOf
    <2> QED
      BY <1>2, <2>1, <2>2, <2>3, <2>4 DEF LoadedBy, IsLoad
  <1>3. CASE ~IsLoad(st)
    <2>1. (\A o : st # Load(o)) /\ (\A l : st # LoadAll(l))
      BY <1>3 DEF Load, LoadAll, IsLoad
    <2> QED
      BY <1>3, <2>1 DEF LoadedBy, IsLoad
  <1> QED
    BY <1>1, <1>2, <1>3 DEF IsLoad

------------------------------------------------------------------------------
(* A test is a session.                                                       *)

LEMMA ListInObjects ==
    ASSUME TypeOK
    PROVE  /\ Loaded \subseteq Object
           /\ \A i \in DOMAIN objects : i \in Nat /\ i >= 1 /\ objects[i] \in Object
           /\ DOMAIN objects = 1..Len(objects) /\ Len(objects) \in Nat
  <1>1. objects \in Seq(Object)
    BY DEF TypeOK
  <1> QED
    BY <1>1 DEF Loaded

(* Whatever the host does is a call of the library, or none.                  *)
LEMMA HostSteps ==
    ASSUME TypeOK, HostTypeOK, HostStep
    PROVE  /\ Call \/ UNCHANGED vars
           /\ HostTypeOK'
  <1> USE DEF HostTypeOK
  <1>0. line \in DOMAIN program => program[line] \in Statement
    BY ProgramLine
  <1>1. CASE Loads
    <2>1. \/ At("load") /\ LoadObject(arg) /\ Done
          \/ At("archive") /\ LoadArchive(arg) /\ Done
      BY <1>1 DEF Loads
    <2> QED
      BY <2>1, <1>0, StatementShape DEF At, arg, Done, Call
  <1>11. CASE CannotLoad
    BY <1>11 DEF CannotLoad, LoadFails, Call, host
  <1>2. CASE Inserts
    <2>1. /\ At("insert")
          /\ \/ InsertHostSymbol(arg, FALSE) /\ Done
             \/ InsertHostSymbolAborts(arg, FALSE) /\ UNCHANGED host
      BY <1>2 DEF Inserts
    <2>2. arg \in HostName
      BY <2>1, <1>0, StatementShape DEF At, arg
    <2>3. CASE InsertHostSymbol(arg, FALSE) /\ Done
      <3>1. Call
        BY <2>2, <2>3 DEF Call
      <3> QED
        BY <2>3, <3>1 DEF Done
    <2>4. CASE InsertHostSymbolAborts(arg, FALSE) /\ UNCHANGED host
      <3>1. Call
        BY <2>2, <2>4 DEF Call
      <3> QED
        BY <2>4, <3>1 DEF host
    <2> QED
      BY <2>1, <2>3, <2>4
  <1>3. ASSUME NEW o, CallResolve(o) PROVE Call /\ HostTypeOK'
    <2>1. o \in Object
      BY <1>3, ListInObjects DEF CallResolve, ResolveObject
    <2> QED
      BY <1>3, <2>1 DEF CallResolve, Call
  <1>4. CASE Resolves
    BY <1>4, <1>3 DEF Resolves
  <1>5. CASE NextResolve
    BY <1>5, <1>3 DEF NextResolve
  <1>6. CASE ResolvesDone
    BY <1>6 DEF ResolvesDone
  <1>7. CASE ResolveAborts
    BY <1>7 DEF ResolveAborts, EndAs
  <1>8. CASE Lists
    BY <1>8 DEF Lists, EndAs, Done
  <1>9. CASE LooksUp
    BY <1>9 DEF LooksUp, EndAs, Done
  <1>10. CASE Passes
    BY <1>10 DEF Passes, EndAs
  <1> QED
    BY <1>1, <1>2, <1>4, <1>5, <1>6, <1>7, <1>8, <1>9, <1>10, <1>11 DEF HostStep

LEMMA TestNextIsNext ==
    ASSUME TypeOK, HostTypeOK, [TestNext]_tvars
    PROVE  [Next]_vars /\ TypeOK' /\ HostTypeOK'
  <1>1. CASE HostStep
    <2>1. Call \/ UNCHANGED vars
      BY <1>1, HostSteps
    <2>2. UNCHANGED vars => TypeOK'
      BY DEF TypeOK, vars, control, names, memory, results
    <2> QED
      BY <1>1, <2>1, <2>2, HostSteps, CallTypeOK DEF Next
  <1>2. CASE Work /\ UNCHANGED host
    BY <1>2, LoadingTypeOK, RelinkingTypeOK DEF Next, Work, host, HostTypeOK
  <1>3. CASE UNCHANGED tvars
    BY <1>3 DEF tvars, host, HostTypeOK, TypeOK, vars, control, names, memory, results
  <1> QED
    BY <1>1, <1>2, <1>3 DEF TestNext

LEMMA TestTypeCorrect == TestSpec => [](TypeOK /\ HostTypeOK)
  <1>1. TestInit => TypeOK /\ HostTypeOK
    BY InitTypeOK DEF TestInit, HostTypeOK
  <1>2. TypeOK /\ HostTypeOK /\ [TestNext]_tvars => TypeOK' /\ HostTypeOK'
    BY TestNextIsNext
  <1> QED
    BY <1>1, <1>2, PTL DEF TestSpec

(* The tests of Tests.c call the library as Linker allows a host to, so all   *)
(* that is proved of sessions holds in them.                                  *)
THEOREM TestsAreSessions == TestSpec => Spec
  <1>1. TestInit => Init
    BY DEF TestInit
  <1>2. TypeOK /\ HostTypeOK /\ [TestNext]_tvars => [Next]_vars
    BY TestNextIsNext
  <1> QED
    BY <1>1, <1>2, TestTypeCorrect, PTL DEF TestSpec, Spec

------------------------------------------------------------------------------
(* What the steps do to the objects.                                          *)

LEMMA LoadingEffect ==
    ASSUME TypeOK, Loading
    PROVE  /\ InLoad /\ cur \in Object
           /\ UNCHANGED <<ret, passes, failures>>
           /\ \/ MakeGot
              \/ UNCHANGED <<cur, todo, objects, gotProt>> /\ phase' \in {"get_names", "abort"}
  <1> USE DEF InLoad, GoTo, Advance, Die, AtSymbol, PastSymbols, names, memory, results
  <1>1. CASE LoadSections \/ LoadSectionsAborts
    BY <1>1 DEF LoadSections, LoadSectionsAborts, TypeOK
  <1>2. CASE KeepName \/ PublishName \/ GetNamesAborts
    BY <1>2 DEF KeepName, PublishName, GetNamesAborts, TypeOK
  <1>3. CASE MakeGot
    BY <1>3 DEF MakeGot, TypeOK
  <1> QED
    BY <1>1, <1>2, <1>3 DEF Loading

LEMMA MakeGotEffect ==
    ASSUME TypeOK, MakeGot
    PROVE  /\ phase = "get_names" /\ cur \in Object
           /\ Loaded' = Loaded \cup {cur}
           /\ Len(objects') = Len(objects) + 1 /\ objects'[Len(objects) + 1] = cur
           /\ \A i \in DOMAIN objects : objects'[i] = objects[i]
           /\ DOMAIN objects' = DOMAIN objects \cup {Len(objects) + 1}
           /\ todo = << >> => phase' = "idle" /\ UNCHANGED <<cur, todo>>
           /\ todo # << >> => /\ phase' = "load_sections" /\ cur' = todo[1]
                              /\ todo' = Tail(todo)
           /\ UNCHANGED <<gsyms, addr>>
           /\ gotProt' = [gotProt EXCEPT ![cur] = IF HasGot(cur) THEN "rw" ELSE @]
  <1>1. /\ phase = "get_names" /\ cur \in Object
        /\ objects \in Seq(Object) /\ todo \in Seq(Object)
    BY DEF MakeGot, PastSymbols, TypeOK
  <1>2. objects' = Append(objects, cur)
    BY DEF MakeGot
  <1>3. Head(todo) = todo[1]
    OBVIOUS
  <1>4. /\ Len(objects') = Len(objects) + 1 /\ objects'[Len(objects) + 1] = cur
        /\ \A i \in DOMAIN objects : objects'[i] = objects[i]
        /\ DOMAIN objects' = DOMAIN objects \cup {Len(objects) + 1}
    BY <1>1, <1>2
  <1>5. Loaded' = Loaded \cup {cur}
    BY ChainGrows
  <1>6. /\ todo = << >> => phase' = "idle" /\ UNCHANGED <<cur, todo>>
        /\ todo # << >> => /\ phase' = "load_sections" /\ cur' = Head(todo)
                           /\ todo' = Tail(todo)
        /\ UNCHANGED <<gsyms, addr>>
        /\ gotProt' = [gotProt EXCEPT ![cur] = IF HasGot(cur) THEN "rw" ELSE @]
    BY DEF MakeGot, names
  <1> QED
    BY <1>1, <1>3, <1>4, <1>5, <1>6

(* The members still to be loaded, while one of them arrives.                 *)
LEMMA TodoShrinks ==
    ASSUME TypeOK, MakeGot, todo # << >>
    PROVE  /\ \A i \in DOMAIN todo' : i + 1 \in DOMAIN todo /\ todo'[i] = todo[i + 1]
           /\ {todo[i] : i \in DOMAIN todo} = {cur'} \cup {todo'[i] : i \in DOMAIN todo'}
  <1>1. todo \in Seq(Object) /\ todo' = Tail(todo) /\ cur' = todo[1]
    BY MakeGotEffect DEF TypeOK
  <1>2. /\ DOMAIN todo = 1..Len(todo) /\ Len(todo) \in Nat /\ Len(todo) >= 1
        /\ DOMAIN todo' = 1..(Len(todo) - 1)
        /\ \A i \in 1..(Len(todo) - 1) : todo'[i] = todo[i + 1]
    BY <1>1, EmptySeq
  <1>3. \A i \in DOMAIN todo : i = 1 \/ (i - 1 \in DOMAIN todo' /\ todo'[i - 1] = todo[i])
    BY <1>2
  <1>4. 1 \in DOMAIN todo
    BY <1>2
  <1>5. \A i \in DOMAIN todo' : i + 1 \in DOMAIN todo /\ todo'[i] = todo[i + 1]
    BY <1>2
  <1> QED
    BY <1>1, <1>3, <1>4, <1>5

LEMMA RelinkingEffect ==
    ASSUME TypeOK, Relinking
    PROVE  /\ InResolve /\ cur \in Object
           /\ UNCHANGED <<cur, todo, objects, gsyms>>
           /\ phase' \in {"fill_got", "relocate", "mprotect", "idle", "abort", "fault"}
           /\ phase' \in {"fill_got", "relocate", "fault"} =>
                  phase \in {"fill_got", "relocate"} /\ passes' = passes
           /\ phase' = "idle" => \/ ret' = [ret EXCEPT ![cur] = "success"]
                                 \/ ret' = [ret EXCEPT ![cur] = "failure"]
           /\ phase' # "idle" => ret' = ret
           /\ passes' = passes \/ passes' = [passes EXCEPT ![cur] = @ + 1]
  <1> USE DEF InResolve, GoTo, Advance, Die, Return, AtSymbol, PastSymbols, AtReloc, Relocatable,
              Accepted, NeedsStub, BranchesFar, AtSection, AtGot, names, memory, results
  <1>1. CASE FillSkip \/ FillSlot \/ FillFails \/ FillFaults \/ VerifyGot
    BY <1>1 DEF FillSkip, FillSlot, FillFails, FillFaults, VerifyGot, TypeOK
  <1>2. CASE RelocSkip \/ RelocAborts \/ RelocFaults \/ MakeStubOverruns \/ WriteDirect \/ ReuseStub \/ MakeStub
    BY <1>2 DEF RelocSkip, RelocAborts, RelocFaults, MakeStubOverruns, WriteDirect, ReuseStub, MakeStub, TypeOK
  <1>3. CASE RelocDone
    BY <1>3 DEF RelocDone, TypeOK
  <1>4. CASE ProtectSkip \/ ProtectSection \/ ProtectGot \/ MprotectFails
    BY <1>4 DEF ProtectSkip, ProtectSection, ProtectGot, MprotectFails, TypeOK
  <1> QED
    BY <1>1, <1>2, <1>3, <1>4 DEF Relinking

------------------------------------------------------------------------------
(* What the statements do.                                                    *)

LEMMA HeadAndTail ==
    ASSUME NEW l \in Archive, Members[l] # << >>
    PROVE  LET m == Members[l] IN
           /\ m \in Seq(Object) /\ Len(m) \in Nat /\ Len(m) >= 1 /\ DOMAIN m = 1..Len(m)
           /\ Head(m) = m[1] /\ m[1] \in Object /\ m[1] \in MembersOf(l)
           /\ DOMAIN Tail(m) = 1..(Len(m) - 1)
           /\ \A i \in 1..(Len(m) - 1) : Tail(m)[i] = m[i + 1]
           /\ {m[1]} \cup {Tail(m)[i] : i \in DOMAIN Tail(m)} = MembersOf(l)
  <1> DEFINE m == Members[l]
  <1>1. m \in Seq(Object) /\ m # << >>
    BY ArchiveFiles
  <1>2. MembersOf(l) = {m[i] : i \in DOMAIN m}
    BY DEF MembersOf
  <1> HIDE DEF m
  <1>3. /\ Len(m) \in Nat /\ Len(m) >= 1 /\ DOMAIN m = 1..Len(m)
        /\ Head(m) = m[1] /\ m[1] \in Object
        /\ DOMAIN Tail(m) = 1..(Len(m) - 1)
        /\ \A i \in 1..(Len(m) - 1) : Tail(m)[i] = m[i + 1]
    BY <1>1, EmptySeq
  <1>4. \A i \in DOMAIN m : i = 1 \/ (i - 1 \in DOMAIN Tail(m) /\ Tail(m)[i - 1] = m[i])
    BY <1>3
  <1>5. 1 \in DOMAIN m /\ \A i \in DOMAIN Tail(m) : i + 1 \in DOMAIN m /\ Tail(m)[i] = m[i + 1]
    BY <1>3
  <1>6. {m[1]} \cup {Tail(m)[i] : i \in DOMAIN Tail(m)} = {m[i] : i \in DOMAIN m}
    <2>1. ASSUME NEW i \in DOMAIN m
          PROVE  m[i] \in {m[1]} \cup {Tail(m)[j] : j \in DOMAIN Tail(m)}
      BY <1>4
    <2>2. \A i \in DOMAIN Tail(m) : Tail(m)[i] \in {m[j] : j \in DOMAIN m}
      BY <1>5
    <2> QED
      BY <1>5, <2>1, <2>2
  <1>7. m[1] \in {m[i] : i \in DOMAIN m}
    BY <1>5
  <1> QED
    BY <1>1, <1>2, <1>3, <1>6, <1>7 DEF m

(* A member is of one archive, and at one place of it.                        *)
LEMMA OneArchive ==
    ASSUME NEW l \in Archive, NEW k \in Archive, NEW o, o \in MembersOf(l), o \in MembersOf(k)
    PROVE  l = k
  BY ArchiveFiles DEF MembersOf

LEMMA LoadStarts ==
    ASSUME TypeOK, HostTypeOK, Loads
    PROVE  /\ phase = "idle" /\ called = Null /\ outcome = "running" /\ line \in DOMAIN program
           /\ IsLoad(program[line])
           /\ phase' = "load_sections" /\ cur' \in Object /\ line' = line + 1
           /\ UNCHANGED <<program, called, outcome, objects, gsyms, addr, gotProt, ret, passes,
                          failures>>
           /\ {cur'} \cup {todo'[i] : i \in DOMAIN todo'} = LoadedBy(program[line])
           /\ \A o \in LoadedBy(program[line]) : o \notin Loaded
           /\ \A l \in Archive : \A o \in MembersOf(l) :
                  /\ o = cur' => o = Head(Members[l])
                  /\ \A i \in DOMAIN todo' :
                         o = todo'[i] => o # Head(Members[l]) /\ Head(Members[l]) = cur'
  <1>0. line \in DOMAIN program => program[line] \in Statement
    BY ProgramLine DEF HostTypeOK
  <1>1. CASE At("load") /\ LoadObject(arg) /\ Done
    <2>1. /\ line \in DOMAIN program /\ program[line].op = "load" /\ arg \in Object
          /\ LoadedBy(program[line]) = {arg}
      BY <1>0, <1>1, StatementShape, LoadedByShape DEF At, arg
    <2>2. todo' = << >> /\ cur' = arg /\ arg \notin Loaded
      BY <1>1 DEF LoadObject
    <2>3. \A l \in Archive : arg \notin MembersOf(l)
      BY <1>1 DEF LoadObject, MembersOf
    <2>4. DOMAIN todo' = {}
      BY <2>2
    <2>5. /\ \A l \in Archive : \A o \in MembersOf(l) :
                  /\ o = cur' => o = Head(Members[l])
                  /\ \A i \in DOMAIN todo' :
                         o = todo'[i] => o # Head(Members[l]) /\ Head(Members[l]) = cur'
      BY <2>2, <2>3, <2>4
    <2>6. {cur'} \cup {todo'[i] : i \in DOMAIN todo'} = LoadedBy(program[line])
      BY <2>1, <2>2, <2>4
    <2> QED
      BY <1>1, <2>1, <2>2, <2>5, <2>6
         DEF LoadObject, At, Running, Done, IsLoad, names, memory, results
  <1>2. CASE At("archive") /\ LoadArchive(arg) /\ Done
    <2>1. /\ line \in DOMAIN program /\ program[line].op = "archive" /\ arg \in Archive
          /\ LoadedBy(program[line]) = MembersOf(arg) /\ Members[arg] # << >>
      BY <1>0, <1>2, StatementShape, LoadedByShape, ArchiveFiles DEF At, arg, LoadArchive
    <2>2. /\ cur' = Head(Members[arg]) /\ todo' = Tail(Members[arg])
          /\ \A o \in MembersOf(arg) : o \notin Loaded
      BY <1>2 DEF LoadArchive, MembersOf
    <2>3. ASSUME NEW l \in Archive, NEW o \in MembersOf(l)
          PROVE  /\ o = cur' => o = Head(Members[l])
                 /\ \A i \in DOMAIN todo' :
                        o = todo'[i] => o # Head(Members[l]) /\ Head(Members[l]) = cur'
      <3>1. o = cur' => l = arg
        BY <2>1, <2>2, <2>3, HeadAndTail, OneArchive
      <3>2. ASSUME NEW i \in DOMAIN todo', o = todo'[i]
            PROVE  o # Head(Members[l]) /\ Head(Members[l]) = cur'
        <4>1. o \in MembersOf(arg)
          BY <2>1, <2>2, <3>2, HeadAndTail
        <4>2. l = arg
          BY <2>1, <4>1, OneArchive
        <4>3. /\ i \in 1..(Len(Members[l]) - 1) /\ o = Members[l][i + 1]
              /\ Head(Members[l]) = Members[l][1]
              /\ Len(Members[l]) \in Nat /\ DOMAIN Members[l] = 1..Len(Members[l])
          BY <2>2, <3>2, <4>2, HeadAndTail
        <4>4. 1 \in DOMAIN Members[l] /\ i + 1 \in DOMAIN Members[l] /\ i + 1 # 1
          BY <4>3
        <4>5. Members[l][i + 1] # Members[l][1]
          BY <4>4, ArchiveFiles
        <4> QED
          BY <2>2, <4>2, <4>3, <4>5
      <3> QED
        BY <2>2, <3>1, <3>2
    <2>4. {cur'} \cup {todo'[i] : i \in DOMAIN todo'} = LoadedBy(program[line])
      BY <2>1, <2>2, HeadAndTail
    <2>5. cur' \in Object
      BY <2>1, <2>2, HeadAndTail
    <2> QED
      BY <1>2, <2>1, <2>2, <2>3, <2>4, <2>5
         DEF LoadArchive, At, Running, Done, IsLoad, names, memory, results
  <1> QED
    BY <1>1, <1>2 DEF Loads

LEMMA CannotLoadSteps ==
    ASSUME HostTypeOK, CannotLoad
    PROVE  /\ phase = "idle" /\ called = Null /\ outcome = "running" /\ Unread
           /\ phase' \in {"abort", "fault"} /\ cur' = Null
           /\ UNCHANGED <<program, line, called, outcome>>
           /\ UNCHANGED <<todo, objects, gsyms, addr, gotProt, ret, passes, failures>>
  BY DEF CannotLoad, LoadFails, At, Running, Unread, IsLoad, host, names, memory, results

LEMMA InsertSteps ==
    ASSUME TypeOK, HostTypeOK, Inserts
    PROVE  /\ phase = "idle" /\ called = Null /\ outcome = "running" /\ line \in DOMAIN program
           /\ arg \in HostName /\ program[line] = Insert(arg)
           /\ UNCHANGED <<cur, todo, objects, gotProt, ret, passes, failures, program, called,
                          outcome>>
           /\ \/ phase' = "idle" /\ line' = line + 1
              \/ /\ phase' = "abort" /\ line' = line /\ UNCHANGED <<gsyms, addr>>
                 /\ gsyms[Hash[arg]] # Null
  <1>1. /\ At("insert")
        /\ \/ InsertHostSymbol(arg, FALSE) /\ Done
           \/ InsertHostSymbolAborts(arg, FALSE) /\ UNCHANGED host
    BY DEF Inserts
  <1>2. line \in DOMAIN program /\ program[line] \in Statement
    BY <1>1, ProgramLine DEF At, HostTypeOK
  <1>3. arg \in HostName /\ program[line] = Insert(arg)
    BY <1>1, <1>2, StatementShape DEF At, arg
  <1>4. CASE InsertHostSymbol(arg, FALSE) /\ Done
    BY <1>1, <1>2, <1>3, <1>4
       DEF InsertHostSymbol, Done, At, Running, control, memory, results
  <1>5. CASE InsertHostSymbolAborts(arg, FALSE) /\ UNCHANGED host
    BY <1>1, <1>2, <1>3, <1>5
       DEF InsertHostSymbolAborts, host, At, Running, Die, GoTo, names, memory, results
  <1> QED
    BY <1>1, <1>4, <1>5

LEMMA CallStarts ==
    ASSUME TypeOK, HostTypeOK, NEW o, CallResolve(o)
    PROVE  /\ phase = "idle" /\ phase' = "fill_got" /\ o \in Loaded /\ o \in Object
           /\ cur' = o /\ called' = o
           /\ UNCHANGED <<todo, objects, gsyms, addr, gotProt, ret, passes, failures, program, line,
                          outcome>>
  BY ListInObjects DEF CallResolve, ResolveObject, names, memory, results

(* The statements that only look change nothing of the session.               *)
Looks == ResolvesDone \/ ResolveAborts \/ Lists \/ LooksUp \/ Passes

LEMMA LookSteps ==
    ASSUME HostTypeOK, Looks
    PROVE  /\ phase = "idle" /\ outcome = "running" /\ UNCHANGED <<vars, program>>
           /\ \/ ResolvesDone /\ line' = line + 1 /\ called' = Null /\ outcome' = "running"
              \/ ResolveAborts /\ UNCHANGED <<line, called>> /\ outcome' = "aborted"
              \/ /\ called = Null /\ called' = Null
                 /\ \/ /\ line \in DOMAIN program /\ ~IsLoad(program[line])
                       /\ ~IsResolve(program[line])
                       /\ line' = line + 1 /\ outcome' = "running"
                    \/ /\ line' = line /\ outcome' \in {"aborted", "crashed", "passed"}
                       /\ outcome' = "passed" => line \notin DOMAIN program
  <1>1. CASE ResolvesDone \/ ResolveAborts
    BY <1>1 DEF ResolvesDone, ResolveAborts, Running, EndAs
  <1>2. CASE Lists
    BY <1>2 DEF Lists, At, Running, EndAs, Done, IsLoad, IsResolve
  <1>3. CASE LooksUp
    BY <1>3 DEF LooksUp, At, Running, EndAs, Done, IsLoad, IsResolve
  <1>4. CASE Passes
    BY <1>4 DEF Passes, Running, EndAs
  <1> QED
    BY <1>1, <1>2, <1>3, <1>4 DEF Looks

(* A statement that resolves, called for the first time or for the next       *)
(* object of its walk.                                                        *)
Calls == Resolves \/ NextResolve

LEMMA TestStep ==
    ASSUME TypeOK, TestNext
    PROVE  \/ Loads \/ CannotLoad \/ Inserts \/ Calls \/ Looks
           \/ Loading /\ UNCHANGED host
           \/ Relinking /\ UNCHANGED host
  BY DEF TestNext, HostStep, Calls, Looks, Work

LEMMA CallSteps ==
    ASSUME TypeOK, HostTypeOK, WaitInv, Calls
    PROVE  /\ outcome = "running" /\ line \in DOMAIN program /\ program[line] \in Statement
           /\ IsResolve(program[line])
           /\ \E o \in Object : CallResolve(o)
           /\ \/ /\ called = Null /\ CallResolve(First)
                 /\ program[line].op = "resolve" => First = arg
              \/ /\ called # Null /\ ret[called] = "success" /\ program[line].op = "walk"
                 /\ \E o \in Successors(called) : CallResolve(o)
  <1>1. CASE Resolves
    <2>1. (At("resolve") \/ At("walk")) /\ CallResolve(First)
      BY <1>1 DEF Resolves
    <2>2. First \in Object
      BY <2>1, CallStarts
    <2>3. program[line].op = "resolve" => First = arg
      BY DEF First
    <2> QED
      BY <2>1, <2>2, <2>3, ProgramLine DEF At, Running, IsResolve, HostTypeOK
  <1>2. CASE NextResolve
    <2>1. /\ Running /\ called # Null /\ ret[called] = "success" /\ program[line].op = "walk"
          /\ \E o \in Successors(called) : CallResolve(o)
      BY <1>2 DEF NextResolve, WalksOn
    <2>2. \A o : CallResolve(o) => o \in Object
      BY CallStarts
    <2> QED
      BY <2>1, <2>2, ProgramLine DEF Running, WaitInv, HostTypeOK
  <1> QED
    BY <1>1, <1>2 DEF Calls

LEMMA WaitStep ==
    ASSUME TypeOK, HostTypeOK, WaitInv, TestNext
    PROVE  WaitInv'
  <1>1. CASE Loads
    BY <1>1, LoadStarts DEF WaitInv, InLoad, InResolve
  <1>7. CASE CannotLoad
    BY <1>7, CannotLoadSteps DEF WaitInv, InLoad, InResolve
  <1>2. CASE Inserts
    BY <1>2, InsertSteps DEF WaitInv, InLoad, InResolve
  <1>3. CASE Calls
    <2>1. PICK o \in Object : CallResolve(o)
      BY <1>3, CallSteps
    <2>2. /\ phase' = "fill_got" /\ o \in Loaded /\ cur' = o /\ called' = o
          /\ UNCHANGED <<objects, program, line, outcome>>
      BY <2>1, CallStarts
    <2>3. Loaded' = Loaded
      BY <2>2 DEF Loaded
    <2>4. /\ line \in DOMAIN program /\ IsResolve(program[line]) /\ outcome = "running"
      BY <1>3, CallSteps
    <2>5. program[line].op = "resolve" => o = program[line].arg
      <3>1. ASSUME program[line].op = "resolve" PROVE CallResolve(First) /\ First = arg
        BY <1>3, <3>1, CallSteps
      <3>2. ASSUME CallResolve(First) PROVE First = o
        BY <2>2, <3>2, CallStarts
      <3> QED
        BY <3>1, <3>2 DEF arg
    <2>6. o # Null
      BY NullIsNothing
    <2> QED
      BY <2>2, <2>3, <2>4, <2>5, <2>6 DEF WaitInv, InLoad, InResolve
  <1>4. CASE Looks
    <2>1. UNCHANGED <<phase, cur, objects, program>>
      BY <1>4, LookSteps DEF vars, control
    <2>2. Loaded' = Loaded
      BY <2>1 DEF Loaded
    <2> QED
      BY <1>4, <2>1, <2>2, LookSteps DEF WaitInv, InLoad, InResolve
  <1>5. CASE Loading /\ UNCHANGED host
    <2>1. InLoad /\ phase' \notin {"fill_got", "relocate", "mprotect", "fault"}
      BY <1>5, LoadingEffect, MakeGotEffect
    <2> QED
      BY <1>5, <2>1 DEF WaitInv, InLoad, InResolve, host
  <1>6. CASE Relinking /\ UNCHANGED host
    <2>1. /\ InResolve /\ UNCHANGED <<cur, objects>>
          /\ phase' \in {"fill_got", "relocate", "mprotect", "idle", "abort", "fault"}
      BY <1>6, RelinkingEffect
    <2>2. Loaded' = Loaded
      BY <2>1 DEF Loaded
    <2> QED
      BY <1>6, <2>1, <2>2 DEF WaitInv, InLoad, InResolve, host
  <1> QED
    BY <1>1, <1>2, <1>3, <1>4, <1>5, <1>6, <1>7, TestStep

------------------------------------------------------------------------------
(* The list of objects.                                                       *)

LEMMA CoverageStep ==
    ASSUME TypeOK, HostTypeOK, WaitInv, ListInv, TestNext, phase' \notin {"abort", "fault"},
           NEW o \in Object
    PROVE  o \in Loaded' \cup Arriving' <=>
               \E i \in DOMAIN program' : i < line' /\ o \in LoadedBy(program'[i])
  <1> DEFINE Cov == \E i \in DOMAIN program : i < line /\ o \in LoadedBy(program[i])
  <1>0. phase \notin {"abort", "fault"} => (o \in Loaded \cup Arriving <=> Cov)
    BY DEF ListInv
  <1>1. \A i \in DOMAIN program : i \in Nat
    BY ProgramLine DEF HostTypeOK
  <1>2. line \in Nat
    BY DEF HostTypeOK
  <1>3. ASSUME UNCHANGED <<program, line>>, Loaded' \cup Arriving' = Loaded \cup Arriving,
               phase \notin {"abort", "fault"}
        PROVE  o \in Loaded' \cup Arriving' <=>
                   \E i \in DOMAIN program' : i < line' /\ o \in LoadedBy(program'[i])
    BY <1>0, <1>3
  <1>4. ASSUME program' = program, line' = line + 1, line \in DOMAIN program,
               Loaded' \cup Arriving' = Loaded \cup Arriving \cup LoadedBy(program[line]),
               phase \notin {"abort", "fault"}
        PROVE  o \in Loaded' \cup Arriving' <=>
                   \E i \in DOMAIN program' : i < line' /\ o \in LoadedBy(program'[i])
    <2>1. \A i \in DOMAIN program : i < line + 1 <=> (i < line \/ i = line)
      BY <1>1, <1>2
    <2> QED
      BY <1>0, <1>4, <2>1
  <1>5. ASSUME line \in DOMAIN program, ~IsLoad(program[line]) PROVE LoadedBy(program[line]) = {}
    BY <1>5, ProgramLine, LoadedByShape DEF HostTypeOK
  <1>6. objects' = objects => Loaded' = Loaded
    BY DEF Loaded
  <1>7. CASE Loads
    <2>1. Arriving = {} /\ Arriving' = LoadedBy(program[line])
      BY <1>7, LoadStarts DEF Arriving, InLoad
    <2> QED
      BY <1>4, <1>6, <1>7, <2>1, LoadStarts
  <1>8. CASE Inserts
    <2>1. ~IsLoad(program[line])
      BY <1>8, InsertSteps DEF Insert, IsLoad
    <2>2. Arriving = {} /\ Arriving' = {}
      BY <1>8, InsertSteps DEF Arriving, InLoad
    <2> QED
      BY <1>4, <1>5, <1>6, <1>8, <2>1, <2>2, InsertSteps
  <1>9. CASE Calls
    <2>1. PICK c \in Object : CallResolve(c)
      BY <1>9, CallSteps
    <2>2. /\ phase = "idle" /\ phase' = "fill_got" /\ UNCHANGED <<objects, program, line>>
      BY <2>1, CallStarts
    <2> QED
      BY <1>3, <1>6, <2>2 DEF Arriving, InLoad
  <1>10. CASE Looks
    <2>1. phase = "idle" /\ UNCHANGED <<phase, objects, program>>
      BY <1>10, LookSteps DEF vars, control
    <2>2. Arriving = {} /\ Arriving' = {}
      BY <2>1 DEF Arriving, InLoad
    <2>3. ResolvesDone => line \in DOMAIN program /\ IsResolve(program[line])
      BY DEF ResolvesDone, WaitInv
    <2>4. IsResolve(program[line]) => ~IsLoad(program[line])
      BY DEF IsResolve, IsLoad
    <2> QED
      BY <1>3, <1>4, <1>5, <1>6, <1>10, <2>1, <2>2, <2>3, <2>4, LookSteps
  <1>11. CASE Loading /\ UNCHANGED host
    <2>1. InLoad
      BY <1>11, LoadingEffect
    <2>2. CASE MakeGot
      <3>1. Loaded' = Loaded \cup {cur}
        BY <2>2, MakeGotEffect
      <3>2. CASE todo = << >>
        <4>1. Arriving = {cur} /\ Arriving' = {}
          BY <2>1, <2>2, <3>2, MakeGotEffect DEF Arriving, InLoad
        <4> QED
          BY <1>3, <1>11, <2>1, <3>1, <4>1 DEF host, InLoad
      <3>3. CASE todo # << >>
        <4>1. Arriving = {cur} \cup Arriving'
          BY <2>1, <2>2, <3>3, MakeGotEffect, TodoShrinks DEF Arriving, InLoad
        <4>2. Loaded' \cup Arriving' = Loaded \cup Arriving
          BY <3>1, <4>1
        <4> QED
          BY <1>3, <1>11, <2>1, <4>2 DEF host, InLoad
      <3> QED
        BY <3>2, <3>3
    <2>3. CASE UNCHANGED <<cur, todo, objects>> /\ phase' = "get_names"
      <3>1. Arriving' = Arriving
        BY <2>1, <2>3 DEF Arriving, InLoad
      <3> QED
        BY <1>3, <1>6, <1>11, <2>1, <2>3, <3>1 DEF host, InLoad
    <2> QED
      BY <1>11, <2>2, <2>3, LoadingEffect
  <1>12. CASE Relinking /\ UNCHANGED host
    <2>1. InResolve /\ objects' = objects /\ phase' \notin {"load_sections", "get_names"}
      BY <1>12, RelinkingEffect
    <2>2. Arriving = {} /\ Arriving' = {}
      BY <2>1 DEF Arriving, InLoad, InResolve
    <2> QED
      BY <1>3, <1>6, <1>12, <2>1, <2>2 DEF host, InResolve
  <1> QED
    BY <1>7, <1>8, <1>9, <1>10, <1>11, <1>12, TestStep, CannotLoadSteps

LEMMA ListKept ==
    ASSUME UNCHANGED objects
    PROVE  /\ Loaded' = Loaded
           /\ \A o \in Object, l \in Archive : Behind(o, l)' <=> Behind(o, l)
  BY DEF Loaded, Behind

Distinct == \A i, k \in DOMAIN objects : objects[i] = objects[k] => i = k
HeadsLoaded == \A l \in Archive : \A o \in MembersOf(l) : o \in Loaded => Behind(o, l)
HeadsArrive == InLoad => \A l \in Archive : \A o \in MembersOf(l) :
    /\ o = cur => o = Head(Members[l]) \/ Head(Members[l]) \in Loaded
    /\ \A i \in DOMAIN todo : o = todo[i] =>
           o # Head(Members[l]) /\ Head(Members[l]) \in Loaded \cup {cur}

(* A new object goes to the end of the list.                                  *)
LEMMA ListGrows ==
    ASSUME TypeOK, ChainInv, Distinct, HeadsLoaded, HeadsArrive, MakeGot
    PROVE  Distinct' /\ HeadsLoaded' /\ HeadsArrive'
  <1> DEFINE n == Len(objects)
  <1>1. /\ n \in Nat /\ DOMAIN objects = 1..n
        /\ \A i \in DOMAIN objects : i \in Nat /\ objects[i] \in Loaded
    BY ListInObjects DEF Loaded
  <1>2. /\ objects'[n + 1] = cur /\ \A i \in DOMAIN objects : objects'[i] = objects[i]
        /\ DOMAIN objects' = DOMAIN objects \cup {n + 1}
        /\ phase = "get_names" /\ Loaded' = Loaded \cup {cur}
    BY MakeGotEffect
  <1>3. cur \notin Loaded
    BY <1>2 DEF ChainInv, LoadPhase
  <1> HIDE DEF n
  <1>4. Distinct'
    BY <1>1, <1>2, <1>3 DEF Distinct
  <1>5. ASSUME NEW l \in Archive, NEW o \in MembersOf(l), o \in Loaded'
        PROVE  Behind(o, l)'
    <2>1. \A x : x \in Loaded => \E h \in DOMAIN objects : objects[h] = x
      BY DEF Loaded
    <2>2. CASE o \in Loaded
      <3>1. PICK h, k \in DOMAIN objects :
                h <= k /\ objects[h] = Head(Members[l]) /\ objects[k] = o
        BY <1>5, <2>2 DEF HeadsLoaded, Behind
      <3>2. /\ h \in DOMAIN objects' /\ k \in DOMAIN objects'
            /\ objects'[h] = Head(Members[l]) /\ objects'[k] = o
        BY <1>2, <3>1
      <3> QED
        BY <3>1, <3>2 DEF Behind
    <2>3. CASE o = cur
      <3>1. o = Head(Members[l]) \/ Head(Members[l]) \in Loaded
        BY <1>2, <1>5, <2>3 DEF HeadsArrive, InLoad
      <3>2. PICK h \in DOMAIN objects' : h <= n + 1 /\ objects'[h] = Head(Members[l])
        <4>1. CASE o = Head(Members[l])
          BY <1>1, <1>2, <2>3, <4>1
        <4>2. CASE Head(Members[l]) \in Loaded
          BY <1>1, <1>2, <2>1, <4>2
        <4> QED
          BY <3>1, <4>1, <4>2
      <3>3. n + 1 \in DOMAIN objects' /\ objects'[n + 1] = o
        BY <1>2, <2>3
      <3> QED
        BY <3>2, <3>3 DEF Behind
    <2> QED
      BY <1>2, <1>5, <2>2, <2>3
  <1>6. HeadsArrive'
    <2>1. CASE todo = << >>
      BY <2>1, MakeGotEffect DEF HeadsArrive, InLoad
    <2>2. CASE todo # << >>
      <3>1. /\ \A i \in DOMAIN todo' : i + 1 \in DOMAIN todo /\ todo'[i] = todo[i + 1]
            /\ cur' \in {todo[i] : i \in DOMAIN todo}
        BY <2>2, TodoShrinks
      <3>2. PICK j \in DOMAIN todo : cur' = todo[j]
        BY <3>1
      <3>3. ASSUME NEW l \in Archive, NEW o \in MembersOf(l), NEW i \in DOMAIN todo, o = todo[i]
            PROVE  o # Head(Members[l]) /\ Head(Members[l]) \in Loaded'
        BY <1>2, <3>3 DEF HeadsArrive, InLoad
      <3> QED
        BY <3>1, <3>2, <3>3 DEF HeadsArrive
    <2> QED
      BY <2>1, <2>2
  <1> QED
    BY <1>4, <1>5, <1>6 DEF HeadsLoaded

LEMMA ListStep ==
    ASSUME TypeOK, ChainInv, HostTypeOK, WaitInv, ListInv, TestNext
    PROVE  ListInv'
  <1>1. phase' \notin {"abort", "fault"} => \A o \in Object :
            o \in Loaded' \cup Arriving' <=>
                \E i \in DOMAIN program' : i < line' /\ o \in LoadedBy(program'[i])
    BY CoverageStep
  <1>2. Distinct /\ HeadsLoaded /\ HeadsArrive
    BY DEF ListInv, Distinct, HeadsLoaded, HeadsArrive
  <1>3. \A l \in Archive : MembersOf(l) \subseteq Object
    BY ArchiveFiles DEF MembersOf
  <1>4. UNCHANGED objects => Distinct' /\ HeadsLoaded'
    BY <1>2, <1>3, ListKept DEF Distinct, HeadsLoaded
  <1>5. Distinct' /\ HeadsLoaded' /\ HeadsArrive'
    <2>1. CASE Loads
      BY <1>4, <2>1, LoadStarts DEF HeadsArrive
    <2>2. CASE Inserts
      BY <1>4, <2>2, InsertSteps DEF HeadsArrive, InLoad
    <2>7. CASE CannotLoad
      BY <1>4, <2>7, CannotLoadSteps DEF HeadsArrive, InLoad
    <2>3. CASE Calls
      <3>1. PICK c \in Object : CallResolve(c)
        BY <2>3, CallSteps
      <3> QED
        BY <1>4, <3>1, CallStarts DEF HeadsArrive, InLoad
    <2>4. CASE Looks
      <3>1. phase = "idle" /\ UNCHANGED <<phase, objects>>
        BY <2>4, LookSteps DEF vars, control
      <3> QED
        BY <1>4, <3>1 DEF HeadsArrive, InLoad
    <2>5. CASE Loading /\ UNCHANGED host
      <3>1. CASE MakeGot
        BY <1>2, <3>1, ListGrows
      <3>2. CASE UNCHANGED <<cur, todo, objects>> /\ phase' \in {"get_names", "abort"}
        <4>1. InLoad /\ Loaded' = Loaded
          BY <2>5, <3>2, LoadingEffect, ListKept
        <4> QED
          BY <1>2, <1>4, <3>2, <4>1 DEF HeadsArrive
      <3> QED
        BY <2>5, <3>1, <3>2, LoadingEffect
    <2>6. CASE Relinking /\ UNCHANGED host
      <3>1. objects' = objects /\ phase' \notin {"load_sections", "get_names"}
        BY <2>6, RelinkingEffect
      <3> QED
        BY <1>4, <3>1 DEF HeadsArrive, InLoad
    <2> QED
      BY <2>1, <2>2, <2>3, <2>4, <2>5, <2>6, <2>7, TestStep
  <1> QED
    BY <1>1, <1>5 DEF ListInv, Distinct, HeadsLoaded, HeadsArrive

------------------------------------------------------------------------------
(* Nothing is resolved twice.                                                 *)

OnceSoFar(o) ==
    \E i \in DOMAIN program : i < line /\
        \/ program[i] = Resolve(o)
        \/ program[i].op = "walk" /\ \A j \in i..(line - 1) : program[j] # Load(o)

TouchInv == \A o \in Object : Touched(o) =>
    o \in Loaded /\ (o = called \/ (Walking /\ Before(o)) \/ OnceSoFar(o))

LEMMA OnceKept ==
    ASSUME HostTypeOK, NEW o, OnceSoFar(o), UNCHANGED program,
           line' = line \/ (line' = line + 1 /\ program[line] # Load(o))
    PROVE  OnceSoFar(o)'
  <1>1. PICK i \in DOMAIN program : i < line /\
            \/ program[i] = Resolve(o)
            \/ program[i].op = "walk" /\ \A j \in i..(line - 1) : program[j] # Load(o)
    BY DEF OnceSoFar
  <1>2. i \in Nat /\ line \in Nat
    BY ProgramLine DEF HostTypeOK
  <1>3. CASE line' = line
    BY <1>1, <1>3 DEF OnceSoFar
  <1>4. CASE line' = line + 1 /\ program[line] # Load(o)
    <2>1. i < line'
      BY <1>1, <1>2, <1>4
    <2>2. \A j \in i..(line' - 1) : j \in i..(line - 1) \/ j = line
      BY <1>2, <1>4
    <2>3. \/ program[i] = Resolve(o)
          \/ program[i].op = "walk" /\ \A j \in i..(line' - 1) : program[j] # Load(o)
      BY <1>1, <1>4, <2>2
    <2> QED
      BY <2>1, <2>3 DEF OnceSoFar
  <1> QED
    BY <1>3, <1>4

(* A statement that resolves o does so for the first time.                    *)
LEMMA NotOnceYet ==
    ASSUME HostTypeOK, line \in DOMAIN program, NEW o,
           \/ program[line].op = "walk"
           \/ program[line] = Resolve(o)
    PROVE  ~OnceSoFar(o)
  <1> SUFFICES ASSUME OnceSoFar(o) PROVE FALSE
    OBVIOUS
  <1>1. PICK i \in DOMAIN program : i < line /\
            \/ program[i] = Resolve(o)
            \/ program[i].op = "walk" /\ \A j \in i..(line - 1) : program[j] # Load(o)
    BY DEF OnceSoFar
  <1>2. i \in Nat /\ line \in Nat
    BY ProgramLine DEF HostTypeOK
  <1>3. IsResolve(program[i]) /\ IsResolve(program[line])
    BY <1>1 DEF IsResolve, Resolve
  <1>4. /\ program[line].op = "resolve" /\ program[i] # program[line]
        /\ program[i].op = "walk" => \E j \in i..line : program[j] = Load(program[line].arg)
    BY <1>1, <1>3, Programs DEF IsTest, HostTypeOK
  <1>5. program[line] = Resolve(o) /\ program[line].arg = o
    BY <1>4 DEF Resolve
  <1>6. PICK j \in i..line : program[j] = Load(o)
    BY <1>1, <1>4, <1>5
  <1>7. j # line
    BY <1>5, <1>6 DEF Load, Resolve
  <1>8. j \in i..(line - 1)
    BY <1>2, <1>6, <1>7
  <1>9. program[i].op # "walk"
    BY <1>1, <1>6, <1>8 DEF Resolve
  <1> QED
    BY <1>1, <1>4, <1>5, <1>9

(* The next object of a walk is the one behind the object it is at.           *)
LEMMA WalkAdvances ==
    ASSUME TypeOK, Distinct, called # Null, NEW o \in Successors(called),
           UNCHANGED objects, called' = o
    PROVE  /\ o # called /\ ~Before(o)
           /\ \A x : (x = called \/ Before(x)) <=> Before(x)'
  <1>1. PICK c \in DOMAIN objects : objects[c] = called /\ c < Len(objects) /\ o = objects[c + 1]
    BY DEF Successors
  <1>2. /\ DOMAIN objects = 1..Len(objects) /\ Len(objects) \in Nat
        /\ c + 1 \in DOMAIN objects
    BY <1>1, ListInObjects
  <1>3. o # called
    BY <1>1, <1>2 DEF Distinct
  <1>4. \A k \in DOMAIN objects : (objects[k] = called => k = c) /\ (objects[k] = o => k = c + 1)
    BY <1>1, <1>2 DEF Distinct
  <1>5. ~Before(o)
    BY <1>1, <1>2, <1>4 DEF Before
  <1>6. ASSUME NEW x PROVE (x = called \/ Before(x)) <=> Before(x)'
    <2>1. Before(x) <=> \E k \in DOMAIN objects : k < c /\ objects[k] = x
      BY <1>1, <1>4 DEF Before
    <2>2. Before(x)' <=> \E k \in DOMAIN objects : k < c + 1 /\ objects[k] = x
      BY <1>1, <1>2, <1>4 DEF Before
    <2>3. \A k \in DOMAIN objects : k < c + 1 <=> (k < c \/ k = c)
      BY <1>1, <1>2
    <2> QED
      BY <1>1, <2>1, <2>2, <2>3
  <1> QED
    BY <1>3, <1>5, <1>6

LEMMA FirstCall ==
    ASSUME TypeOK, HostTypeOK, WaitInv, Distinct, TouchInv, Calls, NEW o \in Object, CallResolve(o)
    PROVE  ~Touched(o)
  <1>1. /\ line \in DOMAIN program /\ program[line] \in Statement /\ IsResolve(program[line])
    BY CallSteps
  <1>2. cur' = o
    BY CallStarts
  <1>3. CASE called = Null /\ CallResolve(First) /\ (program[line].op = "resolve" => First = arg)
    <2>1. First = o
      BY <1>2, <1>3, CallStarts
    <2>2. program[line].op = "walk" \/ program[line] = Resolve(o)
      BY <1>1, <1>3, <2>1, StatementShape DEF IsResolve, arg
    <2>3. o # called /\ ~Walking
      BY <1>3, NullIsNothing DEF Walking
    <2> QED
      BY <1>1, <2>2, <2>3, NotOnceYet DEF TouchInv
  <1>4. ASSUME called # Null, program[line].op = "walk", NEW x \in Successors(called), CallResolve(x)
        PROVE  ~Touched(o)
    <2>1. x = o /\ objects' = objects /\ called' = o
      BY <1>2, <1>4, CallStarts
    <2>2. o # called /\ ~Before(o)
      BY <1>4, <2>1, WalkAdvances
    <2> QED
      BY <1>1, <1>4, <2>2, NotOnceYet DEF TouchInv
  <1> QED
    BY <1>3, <1>4, CallSteps

LEMMA TouchStep ==
    ASSUME TypeOK, HostTypeOK, WaitInv, Distinct, TouchInv, TestNext
    PROVE  TouchInv'
  <1>1. ASSUME UNCHANGED <<ret, passes, objects>>
        PROVE  Loaded' = Loaded /\ \A o \in Object : Touched(o)' <=> Touched(o)
    BY <1>1 DEF Loaded, Touched
  <1>2. ASSUME called = Null, NEW o \in Object, Touched(o)
        PROVE  o \in Loaded /\ OnceSoFar(o)
    BY <1>2, NullIsNothing DEF TouchInv, Walking
  <1>3. CASE Loads
    <2>1. ASSUME NEW o \in Object, Touched(o)' PROVE OnceSoFar(o)' /\ o \in Loaded'
      <3>1. Touched(o) /\ called = Null
        BY <1>1, <1>3, <2>1, LoadStarts
      <3>2. o \in Loaded /\ OnceSoFar(o)
        BY <1>2, <3>1
      <3>3. o \notin LoadedBy(program[line])
        BY <1>3, <3>2, LoadStarts
      <3>4. program[line] # Load(o)
        BY <3>3 DEF LoadedBy
      <3> QED
        BY <1>1, <1>3, <3>2, <3>4, LoadStarts, OnceKept
    <2> QED
      BY <2>1 DEF TouchInv
  <1>9. CASE CannotLoad
    <2>1. ASSUME NEW o \in Object, Touched(o)' PROVE OnceSoFar(o)' /\ o \in Loaded'
      <3>1. o \in Loaded /\ OnceSoFar(o)
        BY <1>1, <1>2, <1>9, <2>1, CannotLoadSteps
      <3> QED
        BY <1>1, <1>9, <3>1, CannotLoadSteps, OnceKept
    <2> QED
      BY <2>1 DEF TouchInv
  <1>4. CASE Inserts
    <2>1. \A o : program[line] # Load(o)
      BY <1>4, InsertSteps DEF Insert, Load
    <2>2. ASSUME NEW o \in Object, Touched(o)' PROVE OnceSoFar(o)' /\ o \in Loaded'
      <3>1. o \in Loaded /\ OnceSoFar(o)
        BY <1>1, <1>2, <1>4, <2>2, InsertSteps
      <3> QED
        BY <1>1, <1>4, <2>1, <3>1, InsertSteps, OnceKept
    <2> QED
      BY <2>2 DEF TouchInv
  <1>5. CASE Calls
    <2>1. PICK c \in Object : CallResolve(c)
      BY <1>5, CallSteps
    <2>2. UNCHANGED <<ret, passes, objects, program, line>> /\ called' = c
      BY <2>1, CallStarts
    <2>3. CASE called = Null
      BY <1>1, <1>2, <2>2, <2>3, OnceKept DEF TouchInv
    <2>4. ASSUME called # Null, program[line].op = "walk", NEW x \in Successors(called), CallResolve(x)
          PROVE  TouchInv'
      <3>1. x = c
        BY <2>2, <2>4, CallStarts
      <3>2. \A o : (o = called \/ Before(o)) <=> Before(o)'
        BY <2>2, <2>4, <3>1, WalkAdvances
      <3>3. Walking'
        BY <2>2, <2>1, <2>4, NullIsNothing DEF Walking
      <3> QED
        BY <1>1, <2>2, <3>2, <3>3, OnceKept DEF TouchInv
    <2> QED
      BY <1>5, <2>3, <2>4, CallSteps
  <1>6. CASE Looks
    <2>0. UNCHANGED <<ret, passes, objects, program>>
      BY <1>6, LookSteps DEF vars, control, results
    <2>1. CASE ResolvesDone /\ line' = line + 1 /\ called' = Null
      <3>1. /\ line \in DOMAIN program /\ program[line] \in Statement /\ called \in Object
            /\ IsResolve(program[line])
            /\ program[line].op = "resolve" => called = program[line].arg
        BY <2>1, ProgramLine DEF ResolvesDone, WaitInv, HostTypeOK
      <3>2. \A o : program[line] # Load(o)
        BY <3>1 DEF IsResolve, Load
      <3>3. line \in Nat /\ line < line + 1 /\ line..(line + 1 - 1) = {line}
        BY DEF HostTypeOK
      <3>4. ASSUME NEW o \in Object, o = called \/ Walking PROVE OnceSoFar(o)'
        <4>1. program[line] = Resolve(o) \/ program[line].op = "walk"
          BY <3>1, <3>4, StatementShape DEF Walking, IsResolve
        <4> QED
          BY <2>0, <2>1, <3>1, <3>2, <3>3, <4>1 DEF OnceSoFar
      <3> QED
        BY <1>1, <2>0, <2>1, <3>2, <3>4, OnceKept DEF TouchInv
    <2>2. CASE UNCHANGED <<line, called>>
      <3>1. Walking' = Walking /\ \A o : Before(o)' <=> Before(o)
        BY <2>0, <2>2 DEF Walking, Before
      <3> QED
        BY <1>1, <2>0, <2>2, <3>1, OnceKept DEF TouchInv
    <2>3. CASE called = Null /\ ~IsLoad(program[line]) /\ line' = line + 1
      <3>1. \A o : program[line] # Load(o)
        BY <2>3 DEF IsLoad, Load
      <3> QED
        BY <1>1, <1>2, <2>0, <2>3, <3>1, OnceKept DEF TouchInv
    <2> QED
      BY <1>6, <2>1, <2>2, <2>3, LookSteps
  <1>7. CASE Loading /\ UNCHANGED host
    <2>1. called = Null /\ UNCHANGED <<ret, passes, program, line>>
      BY <1>7, LoadingEffect DEF WaitInv, host
    <2>2. Loaded \subseteq Loaded'
      BY <1>7, LoadingEffect, MakeGotEffect, ListKept
    <2> QED
      BY <1>2, <2>1, <2>2, OnceKept DEF TouchInv, Touched
  <1>8. CASE Relinking /\ UNCHANGED host
    <2>1. /\ UNCHANGED <<objects, program, line, called>>
          /\ \A o \in Object : Touched(o)' => Touched(o) \/ o = cur
      BY <1>8, RelinkingEffect DEF host, Touched, TypeOK
    <2>2. cur = called /\ cur \in Loaded
      BY <1>8, RelinkingEffect DEF WaitInv
    <2>3. Loaded' = Loaded /\ Walking' = Walking /\ \A o : Before(o)' <=> Before(o)
      BY <2>1 DEF Loaded, Walking, Before
    <2> QED
      BY <2>1, <2>2, <2>3, OnceKept DEF TouchInv
  <1> QED
    BY <1>3, <1>4, <1>5, <1>6, <1>7, <1>8, <1>9, TestStep

LEMMA OnceStep ==
    ASSUME TypeOK, HostTypeOK, WaitInv, Distinct, OnceInv, TestNext
    PROVE  OnceInv'
  <1>1. TouchInv
    BY DEF OnceInv, TouchInv, OnceSoFar
  <1>2. TouchInv'
    BY <1>1, TouchStep
  <1>3. /\ InResolve' => ret'[cur'] = "none"
        /\ phase' \in {"fill_got", "relocate", "fault"} /\ cur' # Null => passes'[cur'] = 0
    <2>1. CASE Calls
      <3>1. PICK o \in Object : CallResolve(o)
        BY <2>1, CallSteps
      <3>2. ~Touched(o)
        BY <1>1, <2>1, <3>1, FirstCall
      <3> QED
        BY <3>1, <3>2, CallStarts DEF Touched
    <2>2. CASE Loads \/ CannotLoad \/ Inserts
      BY <2>2, LoadStarts, CannotLoadSteps, InsertSteps DEF InResolve
    <2>3. CASE Looks
      <3>1. phase' = "idle"
        BY <2>3, LookSteps DEF vars, control
      <3> QED
        BY <3>1 DEF InResolve
    <2>4. CASE Loading
      BY <2>4, LoadingEffect, MakeGotEffect DEF InResolve
    <2>5. CASE Relinking
      <3>1. InResolve /\ cur \in Object /\ cur # Null /\ cur' = cur
        BY <2>5, RelinkingEffect, NullIsNothing
      <3> QED
        BY <2>5, <3>1, RelinkingEffect DEF OnceInv, InResolve
    <2> QED
      BY <2>1, <2>2, <2>3, <2>4, <2>5, TestStep
  <1> QED
    BY <1>2, <1>3 DEF OnceInv, TouchInv, OnceSoFar

------------------------------------------------------------------------------
(* What is resolved stays so.                                                 *)

PairsSettled ==
    \A i, k \in DOMAIN program : i < k /\ k < line /\ Links(program[k], program[i]) =>
        \A o \in LoadedBy(program[i]) : o = called \/ Settled(o)
Walked(o) == Before(o) /\ (program[line].arg # Null => Behind(o, program[line].arg))
WalkSettled == Walking => \A o \in Object : Walked(o) => Settled(o)

LEMMA LinksResolve ==
    ASSUME NEW st, NEW ld, Links(st, ld)
    PROVE  IsResolve(st)
  BY DEF Links, IsResolve, WalkAll, Resolve, Walk

LEMMA LoadedByObjects ==
    ASSUME NEW st, NEW o \in LoadedBy(st)
    PROVE  o \in Object
  BY DEF LoadedBy

(* Between the statements that resolve.                                       *)
LEMMA PairsKept ==
    ASSUME HostTypeOK, called = Null, PairsSettled, UNCHANGED <<program, called>>,
           line' = line \/ (line' = line + 1 /\ line \in DOMAIN program /\ ~IsResolve(program[line])),
           \A o \in Object : Settled(o) => Settled(o)'
    PROVE  PairsSettled' /\ WalkSettled'
  <1>1. ASSUME NEW i \in DOMAIN program, NEW k \in DOMAIN program, i < k, k < line',
               Links(program[k], program[i]), NEW o \in LoadedBy(program[i])
        PROVE  Settled(o)'
    <2>1. k \in Nat /\ line \in Nat
      BY ProgramLine DEF HostTypeOK
    <2>2. IsResolve(program[k])
      BY <1>1, LinksResolve
    <2>3. k < line
      BY <1>1, <2>1, <2>2
    <2>4. o \in Object /\ o # called
      BY <1>1, LoadedByObjects, NullIsNothing
    <2> QED
      BY <1>1, <2>3, <2>4 DEF PairsSettled
  <1> QED
    BY <1>1 DEF PairsSettled, WalkSettled, Walking

(* The first object of a statement has nothing of the walk before it.         *)
LEMMA WalkStarts ==
    ASSUME TypeOK, Distinct, First \in Loaded, program[line].op = "walk", UNCHANGED objects,
           UNCHANGED <<program, line>>, called' = First, NEW x \in Object
    PROVE  ~(Before(x)' /\ (program[line].arg # Null => Behind(x, program[line].arg)'))
  <1> SUFFICES ASSUME Before(x)', program[line].arg # Null => Behind(x, program[line].arg)'
               PROVE  FALSE
    OBVIOUS
  <1>1. PICK k, c \in DOMAIN objects : k < c /\ objects[k] = x /\ objects[c] = First
    BY DEF Before
  <1>2. \A i \in DOMAIN objects : i \in Nat /\ i >= 1
    BY ListInObjects
  <1>3. CASE program[line].arg = Null
    <2>1. First = Head(objects)
      BY <1>3 DEF First, arg
    <2>2. Head(objects) = objects[1] /\ 1 \in DOMAIN objects
      BY <1>1, <1>2, ListInObjects
    <2>3. c = 1
      BY <1>1, <2>1, <2>2 DEF Distinct
    <2> QED
      BY <1>1, <1>2, <2>3
  <1>4. CASE program[line].arg # Null
    <2>1. First = Head(Members[program[line].arg])
      BY <1>4 DEF First, arg
    <2>2. PICK h, j \in DOMAIN objects : h <= j /\ objects[h] = First /\ objects[j] = x
      BY <1>4, <2>1 DEF Behind
    <2>3. h = c /\ j = k
      BY <1>1, <2>2 DEF Distinct
    <2> QED
      BY <1>1, <1>2, <2>2, <2>3
  <1> QED
    BY <1>3, <1>4

LEMMA SettledAtCall ==
    ASSUME TypeOK, HostTypeOK, NEW c, CallResolve(c), NEW o \in Object, o # c, ret[o] = "success"
    PROVE  Settled(o)'
  BY CallStarts DEF Settled, Resolving

LEMMA LinkAtCall ==
    ASSUME TypeOK, HostTypeOK, WaitInv, Distinct, PairsSettled, WalkSettled, Calls
    PROVE  PairsSettled' /\ WalkSettled'
  <1>1. PICK c \in Object : CallResolve(c)
    BY CallSteps
  <1>2. /\ phase = "idle" /\ called' = c /\ c \in Loaded
        /\ UNCHANGED <<objects, ret, program, line>>
    BY <1>1, CallStarts
  <1>3. \A o \in Object : o # c /\ Settled(o) => Settled(o)'
    BY <1>1, SettledAtCall DEF Settled
  <1>4. CASE called = Null /\ CallResolve(First)
    <2>1. First = c
      BY <1>2, <1>4, CallStarts
    <2>2. PairsSettled'
      BY <1>2, <1>3, <1>4, LoadedByObjects, NullIsNothing DEF PairsSettled
    <2>3. \A x \in Object : ~(Walking /\ Walked(x))'
      BY <1>2, <2>1, WalkStarts DEF Walking, Walked
    <2> QED
      BY <2>2, <2>3 DEF WalkSettled
  <1>5. ASSUME called # Null, ret[called] = "success", program[line].op = "walk",
               NEW x \in Successors(called), CallResolve(x)
        PROVE  PairsSettled' /\ WalkSettled'
    <2>1. x = c
      BY <1>2, <1>5, CallStarts
    <2>2. /\ c # called /\ ~Before(c)
          /\ \A o : (o = called \/ Before(o)) <=> Before(o)'
      BY <1>2, <1>5, <2>1, WalkAdvances
    <2>3. \A o \in Object : o = called => Settled(o)'
      BY <1>1, <1>5, <2>2, SettledAtCall
    <2>4. PairsSettled'
      BY <1>2, <1>3, <2>3, LoadedByObjects DEF PairsSettled
    <2>5. ASSUME NEW o \in Object, Walked(o)' PROVE Settled(o)'
      <3>1. /\ o = called \/ Before(o)
            /\ program[line].arg # Null => Behind(o, program[line].arg)
        BY <1>2, <2>2, <2>5 DEF Walked, Behind
      <3>2. o # called => Walked(o) /\ o # c
        BY <2>2, <3>1 DEF Walked
      <3>3. Walking
        BY <1>5 DEF Walking
      <3> QED
        BY <1>3, <2>3, <3>2, <3>3 DEF WalkSettled
    <2> QED
      BY <2>4, <2>5 DEF WalkSettled
  <1> QED
    BY <1>4, <1>5, CallSteps

(* A statement that is done has resolved all it was to.                       *)
LEMMA StatementResolves ==
    ASSUME TypeOK, HostTypeOK, WaitInv, ListInv, WalkSettled, ResolvesDone,
           NEW i \in DOMAIN program, i < line, Links(program[line], program[i]),
           NEW o \in LoadedBy(program[i])
    PROVE  Settled(o)
  <1>0. program[i] \in Statement
    BY ProgramLine DEF HostTypeOK
  <1>1. /\ called # Null /\ ret[called] = "success" /\ phase = "idle" /\ ~WalksOn
        /\ line \in DOMAIN program
    BY DEF ResolvesDone, Running, WaitInv
  <1>2. Settled(called) /\ called \in Loaded /\ called \in Object
    BY <1>1 DEF Settled, Resolving, WaitInv, HostTypeOK
  <1>3. o \in Object /\ o \in Loaded
    <2>1. o \in Object /\ o \in Loaded \cup Arriving
      BY <1>1, LoadedByObjects DEF ListInv
    <2> QED
      BY <1>1, <2>1 DEF Arriving, InLoad
  <1>4. ASSUME program[line].op = "walk",
               program[line].arg # Null => Behind(o, program[line].arg)
        PROVE  Settled(o)
    <2>1. PICK c \in DOMAIN objects : objects[c] = called
      BY <1>2 DEF Loaded
    <2>2. PICK k \in DOMAIN objects : objects[k] = o
      BY <1>3 DEF Loaded
    <2>3. Successors(called) = {}
      BY <1>1, <1>4 DEF WalksOn
    <2>4. ~(c < Len(objects))
      BY <2>1, <2>3 DEF Successors
    <2>5. k = c \/ k < c
      BY <2>4, ListInObjects
    <2>6. o = called \/ Walked(o)
      BY <1>4, <2>1, <2>2, <2>5 DEF Before, Walked
    <2> QED
      BY <1>1, <1>2, <1>3, <1>4, <2>6 DEF WalkSettled, Walking
  <1>5. CASE program[line] = WalkAll
    BY <1>4, <1>5 DEF WalkAll
  <1>6. ASSUME NEW x \in Object, program[i] = Load(x), program[line] = Resolve(x)
        PROVE  Settled(o)
    <2>1. o = x
      BY <1>0, <1>6, LoadedByShape DEF Load
    <2>2. called = x
      BY <1>1, <1>6 DEF WaitInv, Resolve
    <2> QED
      BY <1>2, <2>1, <2>2
  <1>7. ASSUME NEW l \in Archive, program[i] = LoadAll(l), program[line] = Walk(l)
        PROVE  Settled(o)
    <2>1. program[line].op = "walk" /\ program[line].arg = l
      BY <1>7 DEF Walk
    <2>2. o \in MembersOf(l)
      BY <1>0, <1>7, LoadedByShape DEF LoadAll
    <2>3. Behind(o, l)
      BY <1>3, <2>2 DEF ListInv
    <2> QED
      BY <1>4, <2>1, <2>3
  <1> QED
    BY <1>5, <1>6, <1>7 DEF Links

LEMMA LinkStep ==
    ASSUME TypeOK, HostTypeOK, WaitInv, ListInv, LinkInv, TestNext
    PROVE  LinkInv'
  <1> SUFFICES ASSUME outcome' # "aborted", phase' \notin {"abort", "fault"}
               PROVE  PairsSettled' /\ WalkSettled'
    BY DEF LinkInv, PairsSettled, WalkSettled, Walked
  <1>1. Distinct
    BY DEF ListInv, Distinct
  <1>2. outcome # "aborted" /\ phase \notin {"abort", "fault"} => PairsSettled /\ WalkSettled
    BY DEF LinkInv, PairsSettled, WalkSettled, Walked
  <1>3. ASSUME ret' = ret, phase' \notin {"fill_got", "relocate", "mprotect"}
        PROVE  \A o : Settled(o) => Settled(o)'
    BY <1>3 DEF Settled, Resolving
  <1>4. IsLoad(program[line]) \/ program[line].op = "insert" => ~IsResolve(program[line])
    BY DEF IsLoad, IsResolve
  <1>5. CASE Loads
    BY <1>2, <1>3, <1>4, <1>5, LoadStarts, PairsKept
  <1>6. CASE Inserts
    <2>1. program[line].op = "insert"
      BY <1>6, InsertSteps DEF Insert
    <2> QED
      BY <1>2, <1>3, <1>4, <1>6, <2>1, InsertSteps, PairsKept
  <1>7. CASE Calls
    <2>1. phase = "idle" /\ outcome = "running"
      BY <1>7, CallSteps, CallStarts
    <2> QED
      BY <1>1, <1>2, <1>7, <2>1, LinkAtCall
  <1>8. CASE Looks
    <2>1. /\ phase = "idle" /\ outcome = "running" /\ UNCHANGED <<phase, cur, ret, objects, program>>
      BY <1>8, LookSteps DEF vars, control, results
    <2>2. PairsSettled /\ WalkSettled
      BY <1>2, <2>1
    <2>3. \A o : Settled(o) => Settled(o)'
      BY <1>3, <2>1
    <2>4. CASE ResolvesDone /\ line' = line + 1 /\ called' = Null
      <3>1. Settled(called) /\ line \in Nat
        BY <2>1, <2>4 DEF ResolvesDone, Settled, Resolving, HostTypeOK
      <3>2. ASSUME NEW i \in DOMAIN program, NEW k \in DOMAIN program, i < k, k < line',
                   Links(program[k], program[i]), NEW o \in LoadedBy(program[i])
            PROVE  Settled(o)
        <4>1. k \in Nat
          BY ProgramLine DEF HostTypeOK
        <4>2. CASE k < line
          BY <2>2, <3>1, <3>2, <4>2 DEF PairsSettled
        <4>3. CASE k = line
          BY <2>2, <2>4, <3>2, <4>3, StatementResolves
        <4> QED
          BY <2>4, <3>1, <3>2, <4>1, <4>2, <4>3
      <3>3. PairsSettled'
        BY <2>1, <2>3, <3>2 DEF PairsSettled
      <3> QED
        BY <2>4, <3>3 DEF WalkSettled, Walking
    <2>5. CASE /\ called = Null /\ called' = Null
               /\ \/ line' = line
                  \/ /\ line \in DOMAIN program /\ ~IsResolve(program[line])
                     /\ line' = line + 1
      BY <2>1, <2>2, <2>3, <2>5, PairsKept
    <2> QED
      BY <1>8, <2>4, <2>5, LookSteps
  <1>9. CASE Loading /\ UNCHANGED host
    <2>1. /\ called = Null /\ outcome = "running" /\ InLoad /\ ret' = ret
          /\ UNCHANGED <<program, called, line>>
      BY <1>9, LoadingEffect DEF WaitInv, InLoad, host
    <2>2. phase' \notin {"fill_got", "relocate", "mprotect"}
      BY <1>9, LoadingEffect, MakeGotEffect
    <2> QED
      BY <1>2, <1>3, <2>1, <2>2, PairsKept DEF InLoad
  <1>10. CASE Relinking /\ UNCHANGED host
    <2>1. /\ InResolve /\ UNCHANGED <<cur, objects, program, called, line>>
          /\ \A o \in Object : o # cur => ret'[o] = ret[o]
      BY <1>10, RelinkingEffect DEF host, TypeOK
    <2>2. cur = called /\ outcome = "running" /\ called # Null
      BY <2>1 DEF WaitInv, InResolve
    <2>3. \A o \in Object : o # called /\ Settled(o) => Settled(o)'
      BY <2>1, <2>2 DEF Settled, Resolving
    <2>4. PairsSettled /\ WalkSettled
      BY <1>2, <2>1, <2>2 DEF InResolve
    <2>5. PairsSettled'
      BY <2>1, <2>3, <2>4, LoadedByObjects DEF PairsSettled
    <2>6. ~Before(called)
      BY <1>1, ListInObjects DEF Before, Distinct
    <2>7. \A o \in Object : Walked(o)' <=> Walked(o)
      BY <2>1 DEF Walked, Before, Behind
    <2>8. \A o \in Object : Walked(o) => o # called
      BY <2>6 DEF Walked
    <2>9. Walking' => Walking
      BY <2>1 DEF Walking
    <2>10. WalkSettled'
      BY <2>3, <2>4, <2>7, <2>8, <2>9 DEF WalkSettled
    <2> QED
      BY <2>5, <2>10
  <1> QED
    BY <1>5, <1>6, <1>7, <1>8, <1>9, <1>10, TestStep, CannotLoadSteps

------------------------------------------------------------------------------
(* Names that were found, and those that are not defined.                     *)

LEMMA SystemAddrFound == \A n \in Name : SystemAddr(n) # Null
  BY NamedAddrType, NullIsNothing

LEMMA NamesOfSymbols ==
    ASSUME NEW s \in SymId
    PROVE  NameOf(s) \in Name /\ Hash[NameOf(s)] \in HashKey
  <1>1. CASE s \in HostSym
    BY <1>1, Host DEF HostSym, NameOf, HashKey
  <1>2. CASE s \in ObjectSym
    BY <1>2, SymbolData DEF ElfSym
  <1> QED
    BY <1>1, <1>2 DEF SymId

LEMMA FoundStaysFound ==
    ASSUME TypeOK, SessionInv, SessionInv', [Next]_vars, NEW n \in Name, Lookup(n) # Null
    PROVE  Lookup(n)' # Null
  <1>1. Hash[n] \in HashKey
    BY DEF HashKey
  <1>2. gsyms[Hash[n]] # Null \/ n \in SystemName
    BY DEF Lookup
  <1>3. gsyms[Hash[n]] # Null => gsyms'[Hash[n]] # Null
    BY <1>1, TableGrows DEF vars, names
  <1>4. gsyms'[Hash[n]] # Null => addr'[gsyms'[Hash[n]]] # Null
    BY <1>1 DEF SessionInv, GsymsSound
  <1> QED
    BY <1>2, <1>3, <1>4, SystemAddrFound DEF Lookup

LEMMA LookStep ==
    ASSUME TypeOK, SessionInv, SessionInv', HostTypeOK, WaitInv, LookInv, TestNext
    PROVE  LookInv'
  <1>1. [Next]_vars
    BY TestNextIsNext
  <1>2. ASSUME NEW i \in DOMAIN program, i < line, program[i].op \in {"need", "use"},
               NEW n, n = program[i].arg
        PROVE  Lookup(n)' # Null
    <2>1. n \in Name /\ Lookup(n) # Null
      BY <1>2, ProgramLine, StatementShape DEF LookInv, HostTypeOK
    <2> QED
      BY <1>1, <2>1, FoundStaysFound
  <1>3. ASSUME UNCHANGED program,
               \/ line' = line
               \/ line' = line + 1 /\ program[line].op \notin {"need", "use"}
        PROVE  LookInv'
    <2>1. \A i \in DOMAIN program : i \in Nat /\ line \in Nat
      BY ProgramLine DEF HostTypeOK
    <2>2. \A i \in DOMAIN program :
              i < line' /\ program[i].op \in {"need", "use"} => i < line
      BY <1>3, <2>1
    <2> QED
      BY <1>2, <1>3, <2>2 DEF LookInv, Lookup
  <1>4. CASE Loads
    BY <1>3, <1>4, LoadStarts DEF IsLoad
  <1>5. CASE Inserts
    BY <1>3, <1>5, InsertSteps DEF Insert
  <1>6. CASE Calls
    BY <1>3, <1>6, CallSteps, CallStarts
  <1>7. CASE ResolvesDone
    <2>1. program[line].op \in {"resolve", "walk"} /\ line' = line + 1 /\ program' = program
      BY <1>7 DEF ResolvesDone, WaitInv, IsResolve
    <2> QED
      BY <1>3, <2>1
  <1>8. CASE ResolveAborts \/ Passes
    BY <1>3, <1>8 DEF ResolveAborts, Passes, EndAs
  <1>9. CASE Lists
    BY <1>3, <1>9 DEF Lists, At, EndAs, Done
  <1>10. CASE LooksUp
    <2>1. CASE Lookup(arg) # Null /\ Done /\ UNCHANGED vars
      <3>1. \A n : n = program[line].arg => Lookup(n)' # Null
        BY <2>1 DEF arg, vars, names, Lookup
      <3>2. \A i \in DOMAIN program : i \in Nat /\ line \in Nat
        BY ProgramLine DEF HostTypeOK
      <3>3. \A i \in DOMAIN program : i < line + 1 => i < line \/ i = line
        BY <3>2
      <3> QED
        BY <1>2, <2>1, <3>1, <3>3 DEF LookInv, Done, Lookup
    <2>2. CASE UNCHANGED <<program, line>>
      BY <1>3, <2>2
    <2> QED
      BY <1>10, <2>1, <2>2 DEF LooksUp, EndAs
  <1>11. CASE UNCHANGED host
    BY <1>3, <1>11 DEF host
  <1> QED
    BY <1>4, <1>5, <1>6, <1>7, <1>8, <1>9, <1>10, <1>11, TestStep DEF Looks, CannotLoad

(* A definition is in the table, so a name that is not found has none.        *)
LEMMA DefinedIsPublished ==
    ASSUME SessionInv, NEW s \in SymId, Defines(s)
    PROVE  gsyms[Hash[NameOf(s)]] # Null
  <1>1. CASE s \in HostSym
    <2>1. PICK n \in HostName : s = <<Null, n>>
      BY <1>1 DEF HostSym
    <2>2. NameOf(s) = n /\ addr[<<Null, n>>] # Null
      BY <1>1, <2>1 DEF NameOf, Defines
    <2> QED
      BY <2>2 DEF SessionInv, FreshInv
  <1>2. CASE s \in ObjectSym
    <2>1. s[1] \in Loaded /\ Publishes(s)
      BY <1>2, SymbolData DEF Defines
    <2>2. gsyms[Hash[NameOf(s)]] = s
      BY <1>2, <2>1 DEF SessionInv, PublishedInv, Named
    <2>3. s # Null
      BY NullIsNothing
    <2> QED
      BY <2>2, <2>3
  <1> QED
    BY <1>1, <1>2 DEF SymId

LEMMA NotFoundIsUndefined ==
    ASSUME SessionInv, NEW n \in Name, Lookup(n) = Null
    PROVE  Undefined(n)
  <1>1. Hash[n] \in HashKey
    BY DEF HashKey
  <1>2. gsyms[Hash[n]] = Null /\ n \notin SystemName
    BY <1>1, SystemAddrFound DEF Lookup, SessionInv, GsymsSound
  <1> QED
    BY <1>2, DefinedIsPublished DEF Undefined

(* Whatever the table has under a name's hash, outside the object that is     *)
(* being loaded, is a definition of the name.                                 *)
LEMMA EntryDefines ==
    ASSUME TypeOK, SessionInv, phase # "abort", NEW n \in Name, gsyms[Hash[n]] # Null
    PROVE  LET t == gsyms[Hash[n]] IN
           /\ t \in SymId /\ NameOf(t) = n
           /\ Defines(t) \/ (phase = "get_names" /\ t \in ObjectSym /\ t[1] = cur /\ Publishes(t))
  <1> DEFINE t == gsyms[Hash[n]]
  <1>1. Hash[n] \in HashKey
    BY DEF HashKey
  <1>2. t \in SymId /\ Hash[NameOf(t)] = Hash[n] /\ addr[t] # Null
    BY <1>1 DEF TypeOK, SessionInv, GsymsSound
  <1>3. t \in ObjectSym => Publishes(t)
    BY <1>1, <1>2 DEF SessionInv, GsymsSound
  <1>4. t \in ObjectSym => t[1] \in Loaded \/ (phase = "get_names" /\ t[1] = cur)
    BY <1>2 DEF SessionInv, FreshInv, Named
  <1> HIDE DEF t
  <1>5. NameOf(t) = n
    BY <1>2, NamesOfSymbols, Files
  <1>6. t \in HostSym => Defines(t)
    BY <1>2 DEF Defines
  <1>7. t \in ObjectSym /\ t[1] \in Loaded => Defines(t)
    BY <1>3, SymbolData DEF Defines
  <1> QED
    BY <1>2, <1>3, <1>4, <1>5, <1>6, <1>7 DEF SymId, t

------------------------------------------------------------------------------
(* Why a test ends.                                                           *)

LEMMA FillFailsUndefined ==
    ASSUME TypeOK, SessionInv, FillFails,
           HasGot(cur) => gotProt[cur] # "unmapped"
    PROVE  UsesUndefined(cur)
  <1>1. /\ phase = "fill_got" /\ cur \in Object /\ pos \in DOMAIN Symbols[cur]
        /\ here \in ObjectSym /\ here[1] = cur /\ NeedGotSlot(here)
        /\ GotAddr(here) = Null \/ gotProt[cur] = "unmapped"
    BY HereIsSymbol DEF FillFails, AtSymbol, TypeOK, here
  <1>2. HasGot(cur)
    BY <1>1 DEF HasGot, here
  <1>3. GotAddr(here) = Null
    BY <1>1, <1>2
  <1>4. addr[here] = Null
    BY <1>3 DEF GotAddr
  <1>5. /\ cur \in Loaded /\ Sym(here) \in ElfSym /\ NameOf(here) = Sym(here).name
    BY <1>1, SymbolData DEF SessionInv, ChainInv, ResolvePhase
  <1>6. ~Publishes(here)
    BY <1>1, <1>4, <1>5 DEF SessionInv, PublishedInv, Named, Publishes
  <1>7. OwnAddr(here) = Null \/ Sym(here).bind = "WEAK"
    BY <1>1, <1>6 DEF Publishes, NeedGotSlot
  <1>8. Sym(here).type = "NOTYPE" \/ Sym(here).bind = "WEAK"
    BY <1>1, <1>7, Files
  <1>9. Lookup(NameOf(here)) = Null
    BY <1>3, <1>4, <1>5, <1>8 DEF GotAddr
  <1>10. NameOf(here) \in Name
    BY <1>5 DEF ElfSym
  <1> QED
    BY <1>1, <1>9, <1>10, NotFoundIsUndefined DEF UsesUndefined

(* A resolve that fails leaves the definitions alone.                         *)
LEMMA FailureEffect ==
    ASSUME TypeOK, Relinking, phase' = "idle", ret'[cur] = "failure"
    PROVE  \/ FillFails /\ \A s \in SymId : Defines(s)' <=> Defines(s)
           \/ failures' > 0
  <1>1. FillFails \/ ProtectGot \/ MprotectFails
    BY DEF Relinking, FillSkip, FillSlot, FillFaults, VerifyGot, RelocSkip, RelocAborts, RelocFaults, MakeStubOverruns,
           WriteDirect, ReuseStub, MakeStub, RelocDone, ProtectSkip, ProtectSection, GoTo, Advance,
           Die, AtSymbol, PastSymbols, AtReloc, Relocatable, Accepted, NeedsStub, BranchesFar, AtSection
  <1>2. ~ProtectGot
    <2>1. cur \in Object
      BY RelinkingEffect
    <2> QED
      BY <2>1 DEF ProtectGot, Return, TypeOK
  <1>3. CASE MprotectFails
    BY <1>3 DEF MprotectFails, TypeOK
  <1>4. CASE FillFails
    <2>1. here \in ObjectSym /\ addr' = [addr EXCEPT ![here] = GotAddr(here)] /\ objects' = objects
      BY <1>4, HereIsSymbol DEF FillFails, AtSymbol, TypeOK, Return, GoTo
    <2>2. here \notin HostSym
      BY <2>1, SymbolData
    <2>3. \A s \in HostSym : addr'[s] = addr[s]
      BY <2>1, <2>2 DEF TypeOK, SymId
    <2>4. Loaded' = Loaded
      BY <2>1 DEF Loaded
    <2> QED
      BY <1>4, <2>3, <2>4 DEF Defines
  <1> QED
    BY <1>1, <1>2, <1>3, <1>4

LEMMA GotStaysMapped ==
    ASSUME TypeOK, Loading \/ Relinking, NEW o \in Object, gotProt[o] # "unmapped"
    PROVE  gotProt'[o] # "unmapped"
  <1> USE DEF memory, TypeOK
  <1>1. CASE Loading
    BY <1>1 DEF Loading, LoadSections, LoadSectionsAborts, KeepName, PublishName, GetNamesAborts, MakeGot
  <1>2. CASE Relinking
    BY <1>2 DEF Relinking, FillSkip, FillSlot, FillFails, FillFaults, VerifyGot, RelocSkip,
           RelocAborts, RelocFaults, MakeStubOverruns, WriteDirect, ReuseStub, MakeStub, RelocDone, ProtectSkip,
           ProtectSection, ProtectGot, MprotectFails
  <1> QED
    BY <1>1, <1>2

GotsMapped == \A o \in Loaded : HasGot(o) => gotProt[o] # "unmapped"

LEMMA GotsStep ==
    ASSUME TypeOK, HostTypeOK, WaitInv, GotsMapped, TestNext
    PROVE  GotsMapped'
  <1>1. UNCHANGED <<objects, gotProt>> => GotsMapped'
    BY DEF GotsMapped, Loaded
  <1>2. CASE Loads \/ CannotLoad \/ Inserts
    BY <1>1, <1>2, LoadStarts, CannotLoadSteps, InsertSteps
  <1>3. CASE Calls
    BY <1>1, <1>3, CallSteps, CallStarts
  <1>4. CASE Looks
    BY <1>1, <1>4, LookSteps DEF vars, control, memory
  <1>5. CASE Loading
    <2>1. CASE MakeGot
      <3>1. /\ Loaded' = Loaded \cup {cur} /\ cur \in Object
            /\ gotProt' = [gotProt EXCEPT ![cur] = IF HasGot(cur) THEN "rw" ELSE @]
        BY <2>1, MakeGotEffect
      <3> QED
        BY <1>5, <3>1, GotStaysMapped, ListInObjects DEF GotsMapped, TypeOK
    <2> QED
      BY <1>1, <1>5, <2>1, LoadingEffect
  <1>6. CASE Relinking
    <2>1. Loaded' = Loaded
      BY <1>6, RelinkingEffect, ListKept
    <2> QED
      BY <1>6, <2>1, GotStaysMapped, ListInObjects DEF GotsMapped
  <1> QED
    BY <1>2, <1>3, <1>4, <1>5, <1>6, TestStep

LEMMA ResolveFailsForCause ==
    ASSUME TypeOK, SessionInv, HostTypeOK, WaitInv, CauseInv, TestNext,
           phase' = "idle", called' # Null, ret'[called'] = "failure"
    PROVE  failures' > 0 \/ UsesUndefined(called)'
  <1>1. CASE Loads \/ CannotLoad \/ Inserts
    BY <1>1, LoadStarts, CannotLoadSteps, InsertSteps
  <1>2. CASE Calls
    BY <1>2, CallSteps, CallStarts
  <1>3. CASE Looks
    <2>1. /\ phase = "idle" /\ called' = called
          /\ UNCHANGED <<ret, failures, addr, objects>>
      BY <1>3, LookSteps DEF vars, control, names, results
    <2>2. failures > 0 \/ UsesUndefined(called)
      BY <2>1 DEF CauseInv
    <2> QED
      BY <2>1, <2>2 DEF UsesUndefined, Undefined, Defines, Loaded
  <1>4. CASE Loading /\ UNCHANGED host
    BY <1>4, LoadingEffect DEF WaitInv, host
  <1>5. CASE Relinking /\ UNCHANGED host
    <2>1. cur = called /\ called' = called /\ called \in Loaded /\ called' = cur
      BY <1>5, RelinkingEffect DEF WaitInv, host
    <2>2. CASE FillFails /\ \A s \in SymId : Defines(s)' <=> Defines(s)
      <3>1. UsesUndefined(cur)
        BY <2>1, <2>2, FillFailsUndefined DEF CauseInv
      <3>2. PICK s \in ObjectSym : s[1] = called /\ NeedGotSlot(s) /\ Undefined(NameOf(s))
        BY <2>1, <3>1 DEF UsesUndefined
      <3>3. Undefined(NameOf(s))'
        BY <2>2, <3>2 DEF Undefined
      <3> QED
        BY <2>1, <3>2, <3>3 DEF UsesUndefined
    <2>3. CASE failures' > 0
      BY <2>3
    <2> QED
      BY <1>5, <2>1, <2>2, <2>3, FailureEffect
  <1> QED
    BY <1>1, <1>2, <1>3, <1>4, <1>5, TestStep

LEMMA AbortChangesNoNames ==
    ASSUME TypeOK, Work, phase' = "abort"
    PROVE  UNCHANGED <<addr, objects, cur, far, place>>
  <1>1. CASE Loading
    BY <1>1 DEF Loading, LoadSections, LoadSectionsAborts, KeepName, PublishName, GetNamesAborts,
                MakeGot, Die, GoTo, Advance, AtSymbol, names, memory
  <1>2. CASE Relinking
    BY <1>2 DEF Relinking, FillSkip, FillSlot, FillFails, FillFaults, VerifyGot, RelocSkip,
                RelocAborts, RelocFaults, MakeStubOverruns, WriteDirect, ReuseStub, MakeStub, RelocDone, ProtectSkip,
                ProtectSection, ProtectGot, MprotectFails, Die, GoTo, Advance, Return, AtSymbol,
                PastSymbols, AtReloc, Relocatable, Accepted, NeedsStub, BranchesFar, AtSection, names,
                memory
  <1> QED
    BY <1>1, <1>2 DEF Work

LEMMA AbortHasCause ==
    ASSUME TypeOK, SessionInv, ResolveInv, HostTypeOK, WaitInv, TestNext, phase' = "abort"
    PROVE  (Duplicate \/ Unread \/ Misfit(called))'
  <1>1. ASSUME NEW t \in SymId, Defines(t), UNCHANGED <<addr, objects, program, line, cur>>,
               \/ line \in DOMAIN program /\ program[line] = Insert(NameOf(t))
               \/ \E s \in ObjectSym : s[1] = cur /\ s # t /\ Publishes(s) /\ NameOf(s) = NameOf(t)
        PROVE  Duplicate'
    BY <1>1 DEF Duplicate, Defines, Loaded
  <1>2. CASE Inserts
    <2>1. /\ phase = "idle" /\ line \in DOMAIN program /\ arg \in HostName
          /\ program[line] = Insert(arg) /\ gsyms[Hash[arg]] # Null
          /\ UNCHANGED <<addr, objects, program, line, cur>>
      BY <1>2, InsertSteps
    <2>2. arg \in Name
      BY <2>1, Host
    <2>3. PICK t \in SymId : NameOf(t) = arg /\ Defines(t)
      BY <2>1, <2>2, EntryDefines
    <2> QED
      BY <1>1, <2>1, <2>3
  <1>3. CASE Work /\ UNCHANGED host
    <2>1. phase # "idle"
      BY <1>3, LoadingEffect, RelinkingEffect DEF Work, InLoad, InResolve
    <2>2. phase # "abort"
      BY <1>3, LoadingEffect, RelinkingEffect DEF Work, InLoad, InResolve
    <2>3. cur \in Object
      BY <1>3, LoadingEffect, RelinkingEffect DEF Work
    <2>4. SUFFICES ASSUME Clash PROVE Duplicate'
      <3>1. Clash \/ (phase \in {"fill_got", "relocate"} /\ Misfit(cur))
        BY <1>3, <2>1, <2>3, AbortStep, Files DEF Next
      <3>2. ASSUME phase \in {"fill_got", "relocate"}, Misfit(cur) PROVE Misfit(called)'
        <4>1. cur = called /\ UNCHANGED <<addr, far, place, called>>
          BY <1>3, <3>2, AbortChangesNoNames DEF WaitInv, InResolve, host
        <4> QED
          BY <3>2, <4>1 DEF Misfit, HasHigh, Rewritten
      <3> QED
        BY <3>1, <3>2
    <2>5. PICK s \in ObjectSym : /\ s[1] = cur /\ Publishes(s)
                                 /\ gsyms[Hash[NameOf(s)]] # Null /\ gsyms[Hash[NameOf(s)]] # s
      BY <2>4 DEF Clash
    <2>6. NameOf(s) \in Name
      BY NamesOfSymbols DEF SymId
    <2>7. PICK t \in SymId : t # s /\ NameOf(t) = NameOf(s) /\
              (Defines(t) \/ (t \in ObjectSym /\ t[1] = cur /\ Publishes(t)))
      BY <2>2, <2>5, <2>6, EntryDefines
    <2>8. Defines(t)
      BY <2>5, <2>7, SymbolData, Files
    <2>9. UNCHANGED <<addr, objects, cur, program, line>>
      BY <1>3, AbortChangesNoNames DEF host
    <2> QED
      BY <1>1, <2>5, <2>7, <2>8, <2>9
  <1>4. CASE Loads \/ Calls
    BY <1>4, LoadStarts, CallSteps, CallStarts
  <1>5. CASE Looks
    BY <1>5, LookSteps DEF vars, control
  <1>6. CASE CannotLoad
    BY <1>6, CannotLoadSteps DEF Unread, arg
  <1> QED
    BY <1>2, <1>3, <1>4, <1>5, <1>6, TestStep DEF Work

LEMMA FaultHasCause ==
    ASSUME TypeOK, HostTypeOK, WaitInv, TestNext, phase' = "fault"
    PROVE  (cur # Null \/ Unread)'
  <1>1. CASE CannotLoad
    BY <1>1, CannotLoadSteps DEF Unread, arg
  <1>2. CASE Relinking
    BY <1>2, RelinkingEffect, NullIsNothing
  <1>3. ~Loads /\ ~Inserts /\ ~Calls /\ ~Looks
    BY LoadStarts, InsertSteps, CallSteps, CallStarts, LookSteps DEF vars, control
  <1>4. ~Loading
    BY LoadingEffect, MakeGotEffect
  <1> QED
    BY <1>1, <1>2, <1>3, <1>4, TestStep

LEMMA CauseStep ==
    ASSUME TypeOK, SessionInv, ResolveInv, HostTypeOK, WaitInv, CauseInv, TestNext
    PROVE  CauseInv'
  <1>1. GotsMapped
    BY DEF CauseInv, GotsMapped
  <1>2. GotsMapped'
    BY <1>1, GotsStep
  <1> QED
    BY <1>2, ResolveFailsForCause, AbortHasCause, FaultHasCause DEF CauseInv, GotsMapped

------------------------------------------------------------------------------
(* The theorems.                                                              *)

LEMMA InitTestInv == TestInit => TestInv
  <1> SUFFICES ASSUME TestInit PROVE TestInv
    OBVIOUS
  <1>1. /\ phase = "idle" /\ objects = << >> /\ called = Null /\ outcome = "running" /\ line = 1
        /\ program \in Program /\ ret = [o \in Object |-> "none"]
        /\ passes = [o \in Object |-> 0]
    BY DEF TestInit, Init
  <1>2. Loaded = {} /\ DOMAIN objects = {}
    BY <1>1 DEF Loaded
  <1>3. \A i \in DOMAIN program : ~(i < line)
    BY <1>1, ProgramLine
  <1>4. Arriving = {} /\ ~InLoad /\ ~InResolve
    BY <1>1 DEF Arriving, InLoad, InResolve
  <1>5. HostTypeOK
    BY <1>1 DEF HostTypeOK
  <1>6. WaitInv
    BY <1>1, <1>4 DEF WaitInv
  <1>7. ListInv
    BY <1>2, <1>3, <1>4 DEF ListInv
  <1>8. \A i, k \in DOMAIN program : ~(k < line)
    BY <1>3
  <1>9. LinkInv
    BY <1>1, <1>8 DEF LinkInv, Walking
  <1>10. OnceInv
    BY <1>1, <1>4 DEF OnceInv, Touched
  <1>11. LookInv
    BY <1>3 DEF LookInv
  <1>12. CauseInv
    BY <1>1, <1>2 DEF CauseInv
  <1> QED
    BY <1>5, <1>6, <1>7, <1>9, <1>10, <1>11, <1>12 DEF TestInv

LEMMA TestInvKept ==
    ASSUME TypeOK, TestInv, UNCHANGED tvars
    PROVE  TestInv'
  <1> USE DEF tvars, host, vars, control, names, memory, results
  <1>1. HostTypeOK'
    BY DEF TestInv, HostTypeOK
  <1>2. WaitInv'
    BY DEF TestInv, WaitInv, InLoad, InResolve, Loaded
  <1>3. ListInv'
    BY DEF TestInv, ListInv, InLoad, Loaded, Arriving, Behind
  <1>4. LinkInv'
    BY DEF TestInv, LinkInv, Walking, Before, Behind, Settled, Resolving
  <1>5. OnceInv'
    BY DEF TestInv, OnceInv, Walking, Before, Loaded, InResolve, Touched
  <1>6. LookInv'
    BY DEF TestInv, LookInv, Lookup
  <1>7. CauseInv'
    BY DEF TestInv, CauseInv, Loaded, UsesUndefined, Undefined, Defines, Duplicate, Unread, Misfit,
           HasHigh, Rewritten, arg
  <1> QED
    BY <1>1, <1>2, <1>3, <1>4, <1>5, <1>6, <1>7 DEF TestInv

(* What a test has loaded, resolved, found and failed at, at every step.      *)
THEOREM TestInvariant == TestSpec => []TestInv
  <1>1. TypeOK /\ SessionInv /\ SessionInv' /\ ResolveInv /\ TestInv /\ [TestNext]_tvars => TestInv'
    <2> SUFFICES ASSUME TypeOK, SessionInv, SessionInv', ResolveInv, TestInv, TestNext
                 PROVE  TestInv'
      BY TestInvKept
    <2>1. HostTypeOK' /\ WaitInv'
      BY TestNextIsNext, WaitStep DEF TestInv
    <2>2. ListInv'
      BY ListStep DEF TestInv, SessionInv
    <2>3. LinkInv'
      BY LinkStep DEF TestInv
    <2>4. OnceInv'
      BY OnceStep DEF TestInv, ListInv, Distinct
    <2>5. LookInv'
      BY LookStep DEF TestInv
    <2>6. CauseInv'
      BY CauseStep DEF TestInv
    <2> QED
      BY <2>1, <2>2, <2>3, <2>4, <2>5, <2>6 DEF TestInv
  <1> QED
    BY <1>1, InitTestInv, TestsAreSessions, TypeCorrect, SessionInvariant, ResolveInvariant, PTL
       DEF TestSpec

(* A test that passes has linked every object it loaded.                      *)
THEOREM PassAlwaysMeansLinked == TestSpec => []PassMeansLinked
  <1>1. TypeOK /\ TestInv => PassMeansLinked
    <2> SUFFICES ASSUME TypeOK, TestInv, outcome = "passed"
                 PROVE  /\ \A o \in Loaded : Settled(o)
                        /\ \A i \in DOMAIN program : program[i].op \in {"need", "use"} =>
                               Lookup(program[i].arg) # Null
      BY DEF PassMeansLinked
    <2>1. /\ phase = "idle" /\ called = Null /\ line \notin DOMAIN program
          /\ program \in Seq(Statement) /\ line \in Nat /\ line >= 1
      BY Programs DEF IsTest, TestInv, WaitInv, HostTypeOK
    <2>2. \A i \in DOMAIN program : i < line
      BY <2>1
    <2>3. ASSUME NEW o \in Object, o \in Loaded PROVE Settled(o)
      <3>1. PICK i \in DOMAIN program : o \in LoadedBy(program[i])
        BY <2>1, <2>3 DEF TestInv, ListInv
      <3>2. IsLoad(program[i])
        BY <3>1, ProgramLine, LoadedByShape DEF TestInv, HostTypeOK
      <3>3. PICK k \in DOMAIN program : i < k /\ Links(program[k], program[i])
        BY <3>2, Programs DEF IsTest, TestInv, HostTypeOK
      <3>4. o = called \/ Settled(o)
        BY <2>1, <2>2, <3>1, <3>3 DEF TestInv, LinkInv
      <3> QED
        BY <2>1, <2>3, <3>4, NullIsNothing
    <2> QED
      BY <2>2, <2>3, ListInObjects DEF TestInv, LookInv
  <1> QED
    BY <1>1, TestInvariant, TestTypeCorrect, PTL

LEMMA EndStep ==
    ASSUME TypeOK, SessionInv, TestInv, TestNext,
           outcome' \in {"aborted", "crashed"}
    PROVE  (\/ failures > 0
            \/ program[line].op \in {"need", "use"} /\ Undefined(arg)
            \/ program[line].op = "list" /\ \A s \in SymId : ~Defines(s)
            \/ UsesUndefined(called))'
  <1>1. outcome = "running" /\ phase = "idle" /\ Looks
    <2>1. ~Loads /\ ~CannotLoad /\ ~Inserts /\ ~Calls /\ ~(Work /\ UNCHANGED host)
      BY LoadStarts, CannotLoadSteps, InsertSteps, CallSteps, CallStarts, LoadingEffect, RelinkingEffect
         DEF Work, InLoad, InResolve, TestInv, WaitInv, host
    <2> QED
      BY <2>1, TestStep, LookSteps DEF TestInv, Work
  <1>2. UNCHANGED <<vars, program>>
    BY <1>1, LookSteps DEF TestInv
  <1>3. /\ UNCHANGED <<failures, addr, objects, program>>
        /\ \A n : Undefined(n)' <=> Undefined(n)
        /\ \A s : Defines(s)' <=> Defines(s)
    BY <1>2 DEF vars, control, names, results, Undefined, Defines, Loaded
  <1>4. CASE ResolveAborts
    <2>1. called # Null /\ ret[called] = "failure" /\ called' = called
      BY <1>4 DEF ResolveAborts, EndAs
    <2>2. failures > 0 \/ UsesUndefined(called)
      BY <1>1, <2>1 DEF TestInv, CauseInv
    <2> QED
      BY <1>3, <2>1, <2>2 DEF UsesUndefined
  <1>5. CASE Lists
    <2>1. program[line].op = "list" /\ line' = line /\ \A h \in HashKey : gsyms[h] = Null
      BY <1>1, <1>5 DEF Lists, At, Done, EndAs
    <2>2. \A s \in SymId : ~Defines(s)
      BY <2>1, DefinedIsPublished, NamesOfSymbols
    <2> QED
      BY <1>3, <2>1, <2>2
  <1>6. CASE LooksUp
    <2>1. /\ program[line].op \in {"need", "use"} /\ line' = line /\ line \in DOMAIN program
          /\ Lookup(arg) = Null
      BY <1>1, <1>6 DEF LooksUp, At, Done, EndAs
    <2>2. arg \in Name
      BY <2>1, ProgramLine, StatementShape DEF TestInv, HostTypeOK, arg
    <2>3. Undefined(arg)
      BY <2>1, <2>2, NotFoundIsUndefined
    <2>4. arg' = arg
      BY <1>3, <2>1 DEF arg
    <2> QED
      BY <1>3, <2>1, <2>3, <2>4 DEF Undefined, Defines, Loaded
  <1>7. ~ResolvesDone /\ ~Passes
    BY <1>1 DEF ResolvesDone, Passes, EndAs
  <1> QED
    BY <1>1, <1>4, <1>5, <1>6, <1>7 DEF Looks

(* A test that does not pass has its reason in the files, in the layout the   *)
(* kernel chose, or in mprotect.                                              *)
THEOREM TestsFailOnlyForCause == TestSpec => []TestFailsOnlyForCause
  <1> DEFINE EndCause == outcome \in {"aborted", "crashed"} =>
                \/ failures > 0
                \/ program[line].op \in {"need", "use"} /\ Undefined(arg)
                \/ program[line].op = "list" /\ \A s \in SymId : ~Defines(s)
                \/ UsesUndefined(called)
  <1>1. TestInit => EndCause
    BY DEF TestInit
  <1>2. TypeOK /\ SessionInv /\ TestInv /\ EndCause /\ [TestNext]_tvars => EndCause'
    <2>1. UNCHANGED tvars /\ EndCause => EndCause'
      BY DEF tvars, host, vars, control, names, results, Undefined, Defines, Loaded, UsesUndefined, arg
    <2> QED
      BY <2>1, EndStep
  <1>3. TestInv /\ FaultOnlyForCause /\ EndCause => TestFailsOnlyForCause
    <2> SUFFICES ASSUME TestInv, FaultOnlyForCause, EndCause PROVE TestFailsOnlyForCause
      OBVIOUS
    <2>1. ASSUME phase = "fault", cur # Null PROVE Crowded(called)
      <3>1. called = cur /\ passes[cur] = 0
        BY <2>1 DEF TestInv, WaitInv, OnceInv
      <3> QED
        BY <2>1, <3>1 DEF FaultOnlyForCause
    <2>2. phase = "fault" => Unread \/ Crowded(called)
      BY <2>1 DEF TestInv, CauseInv
    <2>3. phase = "abort" => Duplicate \/ Unread \/ Misfit(called)
      BY DEF TestInv, CauseInv
    <2> QED
      BY <2>2, <2>3 DEF TestFailsOnlyForCause
  <1> HIDE DEF EndCause
  <1> QED
    BY <1>1, <1>2, <1>3, TestInvariant, TestsAreSessions, TypeCorrect, SessionInvariant,
       FaultsOnlyForCause, PTL DEF TestSpec

------------------------------------------------------------------------------
(* Tests whose files fit together.                                            *)

(* What a program has loaded and defined before its statement k.              *)
LoadedIn(p, k, o) == \E i \in DOMAIN p : i < k /\ o \in LoadedBy(p[i])

Given(p, k, n) ==
    \/ \E i \in DOMAIN p : i < k /\ p[i] = Insert(n)
    \/ \E t \in ObjectSym : Publishes(t) /\ NameOf(t) = n /\ LoadedIn(p, k, t[1])

Known(p, k, n) == n \in SystemName \/ Given(p, k, n)

(* A statement finds what it looks up, and so do the objects it may resolve.  *)
Ready(p, k) ==
    /\ p[k].op \in {"need", "use"} => Known(p, k, p[k].arg)
    /\ p[k].op = "list" => \E n \in Name : Given(p, k, n)
    /\ IsResolve(p[k]) => \A s \in ObjectSym :
           /\ NeedGotSlot(s) /\ LoadedIn(p, k, s[1])
           /\ p[k].op = "resolve" => s[1] = p[k].arg
           => Known(p, k, NameOf(s))

(* No name is defined by two objects, by the host and an object, or by the    *)
(* host twice.                                                                *)
Unambiguous(p) ==
    LET end == Len(p) + 1 IN
    /\ \A s, t \in ObjectSym :
           /\ Publishes(s) /\ Publishes(t) /\ NameOf(s) = NameOf(t)
           /\ LoadedIn(p, end, s[1]) /\ LoadedIn(p, end, t[1])
           => s = t
    /\ \A t \in ObjectSym, i \in DOMAIN p :
           Publishes(t) /\ LoadedIn(p, end, t[1]) => p[i] # Insert(NameOf(t))
    /\ \A i, k \in DOMAIN p : p[i] = p[k] /\ p[i].op = "insert" => i = k

(* The files can be read, and suit where they are loaded: addresses have 48   *)
(* bits, values and places pass the asserts, and stubs are in reach and end   *)
(* inside the pages.                                                          *)
Fits(p) ==
    /\ \A i \in DOMAIN p : IsLoad(p[i]) => p[i].arg \notin Unreadable
    /\ High = {}
    /\ \A o \in Object : LoadedIn(p, Len(p) + 1, o) =>
           /\ \A q \in RelId : q[1] = o => q \notin Unfit \cup Remote
           /\ \A s \in SectionsOf(o) : s \notin Cramped

Linkable(p) == Unambiguous(p) /\ Fits(p) /\ \A k \in DOMAIN p : Ready(p, k)

NeverFails ==
    Linkable(program) /\ failures = 0 =>
        phase \notin {"abort", "fault"} /\ outcome \notin {"aborted", "crashed"}

(* What is loaded, and what the host has defined, comes from statements       *)
(* before the next one, also when the process ended inside a call.            *)
OriginInv ==
    /\ \A o \in Object :
           o \in Loaded \/ o = cur \/ (\E i \in DOMAIN todo : o = todo[i]) => LoadedIn(program, line, o)
    /\ \A n \in HostName :
           addr[<<Null, n>>] # Null <=> \E i \in DOMAIN program : i < line /\ program[i] = Insert(n)
    /\ outcome \in {"aborted", "crashed"} => line \in DOMAIN program

LEMMA ProgramLength ==
    ASSUME HostTypeOK
    PROVE  Len(program) \in Nat /\ DOMAIN program = 1..Len(program) /\ line \in Nat /\ line >= 1
  <1>1. program \in Seq(Statement)
    BY Programs DEF HostTypeOK, IsTest
  <1> QED
    BY <1>1 DEF HostTypeOK

LEMMA StatementsBefore ==
    ASSUME HostTypeOK, UNCHANGED program
    PROVE  /\ line' \in {line, line + 1} => \A o : LoadedIn(program, line, o) => LoadedIn(program', line', o)
           /\ line' = line + 1 /\ line \in DOMAIN program =>
                  \A o \in LoadedBy(program[line]) : LoadedIn(program', line', o)
  <1>1. line \in Nat /\ \A i \in DOMAIN program : i \in Nat
    BY ProgramLine DEF HostTypeOK
  <1> QED
    BY <1>1 DEF LoadedIn

(* The library leaves the host's symbols to the host.                         *)
LEMMA HostSymbolsKept ==
    ASSUME TypeOK, Work, NEW n \in HostName
    PROVE  addr'[<<Null, n>>] = addr[<<Null, n>>]
  <1>1. <<Null, n>> \in SymId
    BY DEF SymId, HostSym
  <1>2. cur # Null
    BY NullIsNothing, LoadingEffect, RelinkingEffect DEF Work
  <1>3. here # <<Null, n>>
    BY <1>2 DEF here
  <1>4. addr \in [SymId -> Address \cup {Null}]
    BY DEF TypeOK
  <1>5. ASSUME NEW a, addr' = [addr EXCEPT ![here] = a]
        PROVE  addr'[<<Null, n>>] = addr[<<Null, n>>]
    BY <1>1, <1>3, <1>4, <1>5
  <1>6. CASE Loading
    BY <1>5, <1>6 DEF Loading, LoadSections, LoadSectionsAborts, KeepName, PublishName,
                      GetNamesAborts, MakeGot, names
  <1>7. CASE FillSkip \/ FillSlot \/ FillFails \/ FillFaults \/ VerifyGot
    BY <1>5, <1>7 DEF FillSkip, FillSlot, FillFails, FillFaults, VerifyGot, names
  <1>8. CASE RelocSkip \/ RelocAborts \/ RelocFaults \/ MakeStubOverruns \/ WriteDirect \/ ReuseStub \/ MakeStub
    BY <1>8 DEF RelocSkip, RelocAborts, RelocFaults, MakeStubOverruns, WriteDirect, ReuseStub, MakeStub, names
  <1>9. CASE RelocDone \/ ProtectSkip \/ ProtectSection \/ ProtectGot \/ MprotectFails
    BY <1>9 DEF RelocDone, ProtectSkip, ProtectSection, ProtectGot, MprotectFails, names
  <1> QED
    BY <1>6, <1>7, <1>8, <1>9 DEF Work, Relinking

Inserted(n) == \E i \in DOMAIN program : i < line /\ program[i] = Insert(n)

LEMMA InsertedStep ==
    ASSUME TypeOK, HostTypeOK, WaitInv, TestNext,
           \A n \in HostName : addr[<<Null, n>>] # Null <=> Inserted(n)
    PROVE  \A n \in HostName : (addr[<<Null, n>>] # Null <=> Inserted(n))'
  <1>1. line \in Nat /\ \A i \in DOMAIN program : i \in Nat
    BY ProgramLine DEF HostTypeOK
  <1>2. ASSUME UNCHANGED program, \A n \in HostName : addr'[<<Null, n>>] = addr[<<Null, n>>],
               \/ line' = line
               \/ line' = line + 1 /\ program[line].op # "insert"
        PROVE  \A n \in HostName : (addr[<<Null, n>>] # Null <=> Inserted(n))'
    <2>1. \A n \in HostName : Inserted(n)' <=> Inserted(n)
      BY <1>1, <1>2 DEF Inserted, Insert
    <2> QED
      BY <1>2, <2>1
  <1>3. CASE Loads
    BY <1>2, <1>3, LoadStarts DEF IsLoad
  <1>8. CASE CannotLoad
    BY <1>2, <1>8, CannotLoadSteps
  <1>4. CASE Inserts
    <2>1. /\ line \in DOMAIN program /\ arg \in HostName /\ program[line] = Insert(arg)
          /\ program' = program
      BY <1>4, InsertSteps
    <2>2. CASE line' = line
      <3>1. UNCHANGED addr
        BY <1>1, <1>4, <2>2, InsertSteps
      <3> QED
        BY <1>2, <2>1, <2>2, <3>1
    <2>3. CASE line' # line
      <3>1. /\ line' = line + 1
            /\ addr' = [addr EXCEPT ![<<Null, arg>>] = HostAddr(arg)]
        BY <1>4, <2>3 DEF Inserts, InsertHostSymbol, Done, host
      <3>2. \A n \in HostName : <<Null, n>> \in SymId
        BY DEF SymId, HostSym
      <3>3. HostAddr(arg) # Null
        BY <2>1, Host, NullIsNothing, NamedAddrType
      <3>4. \A n \in HostName : addr'[<<Null, n>>] = IF n = arg THEN HostAddr(arg) ELSE addr[<<Null, n>>]
        BY <2>1, <3>1, <3>2 DEF TypeOK
      <3>5. \A n \in HostName : Inserted(n)' <=> (n = arg \/ Inserted(n))
        BY <1>1, <2>1, <3>1 DEF Inserted, Insert
      <3> QED
        BY <3>3, <3>4, <3>5
    <2> QED
      BY <2>2, <2>3
  <1>5. CASE Calls
    BY <1>2, <1>5, CallSteps, CallStarts
  <1>6. CASE Looks
    <2>1. UNCHANGED <<addr, program>>
      BY <1>6, LookSteps DEF vars, names
    <2>2. line' = line \/ (line' = line + 1 /\ program[line].op # "insert")
      BY <1>6 DEF Looks, ResolvesDone, WaitInv, IsResolve, ResolveAborts, Lists, LooksUp, Passes,
                  At, Done, EndAs
    <2> QED
      BY <1>2, <2>1, <2>2
  <1>7. CASE Work /\ UNCHANGED host
    BY <1>2, <1>7, HostSymbolsKept DEF host
  <1> QED
    BY <1>3, <1>4, <1>5, <1>6, <1>7, <1>8, TestStep DEF Work

LEMMA LoadedStep ==
    ASSUME TypeOK, HostTypeOK, WaitInv, TestNext,
           \A o \in Object : o \in Loaded \/ o = cur \/ (\E i \in DOMAIN todo : o = todo[i]) =>
               LoadedIn(program, line, o)
    PROVE  (\A o \in Object : o \in Loaded \/ o = cur \/ (\E i \in DOMAIN todo : o = todo[i]) =>
               LoadedIn(program, line, o))'
  <1>1. ASSUME UNCHANGED program, line' \in {line, line + 1},
               \A o \in Object : o \in Loaded' \/ o = cur' \/ (\E i \in DOMAIN todo' : o = todo'[i]) =>
                   o \in Loaded \/ o = cur \/ (\E i \in DOMAIN todo : o = todo[i])
        PROVE  (\A o \in Object : o \in Loaded \/ o = cur \/ (\E i \in DOMAIN todo : o = todo[i]) =>
                   LoadedIn(program, line, o))'
    BY <1>1, StatementsBefore
  <1>2. CASE Loads
    <2>1. /\ UNCHANGED program /\ line' = line + 1 /\ line \in DOMAIN program
          /\ {cur'} \cup {todo'[i] : i \in DOMAIN todo'} = LoadedBy(program[line])
          /\ Loaded' = Loaded
      BY <1>2, LoadStarts DEF Loaded
    <2>2. \A o \in Object : o = cur' \/ (\E i \in DOMAIN todo' : o = todo'[i]) =>
              o \in LoadedBy(program[line])
      BY <2>1
    <2> QED
      BY <2>1, <2>2, StatementsBefore
  <1>8. CASE CannotLoad
    <2>1. UNCHANGED <<todo, objects, program, line>> /\ cur' \notin Object
      BY <1>8, CannotLoadSteps, NullIsNothing
    <2> QED
      BY <1>1, <2>1 DEF Loaded
  <1>3. CASE Inserts
    <2>1. UNCHANGED <<cur, todo, objects, program>> /\ line' \in {line, line + 1}
      BY <1>3, InsertSteps
    <2> QED
      BY <1>1, <2>1 DEF Loaded
  <1>4. CASE Calls
    <2>1. PICK o \in Object : CallResolve(o)
      BY <1>4, CallSteps
    <2>2. UNCHANGED <<todo, objects, program, line>> /\ cur' = o /\ o \in Loaded
      BY <2>1, CallStarts
    <2> QED
      BY <1>1, <2>2 DEF Loaded
  <1>5. CASE Looks
    <2>1. UNCHANGED <<cur, todo, objects, program>> /\ line' \in {line, line + 1}
      BY <1>5, LookSteps DEF vars, control
    <2> QED
      BY <1>1, <2>1 DEF Loaded
  <1>6. CASE Loading /\ UNCHANGED host
    <2>1. CASE MakeGot
      <3>1. Loaded' = Loaded \cup {cur}
        BY <2>1, MakeGotEffect
      <3>2. \A o \in Object : o = cur' \/ (\E i \in DOMAIN todo' : o = todo'[i]) =>
                o = cur \/ \E i \in DOMAIN todo : o = todo[i]
        <4>1. CASE todo = << >>
          BY <2>1, <4>1, MakeGotEffect
        <4>2. CASE todo # << >>
          <5>1. {todo[i] : i \in DOMAIN todo} = {cur'} \cup {todo'[i] : i \in DOMAIN todo'}
            BY <2>1, <4>2, TodoShrinks
          <5>2. \A o : (\E i \in DOMAIN todo : o = todo[i]) <=> o \in {todo[i] : i \in DOMAIN todo}
            OBVIOUS
          <5>3. \A o : (\E i \in DOMAIN todo' : o = todo'[i]) => o \in {todo'[i] : i \in DOMAIN todo'}
            OBVIOUS
          <5> QED
            BY <5>1, <5>2, <5>3
        <4> QED
          BY <4>1, <4>2
      <3> QED
        BY <1>1, <1>6, <3>1, <3>2 DEF host
    <2>2. CASE UNCHANGED <<cur, todo, objects>>
      BY <1>1, <1>6, <2>2 DEF Loaded, host
    <2> QED
      BY <1>6, <2>1, <2>2, LoadingEffect
  <1>7. CASE Relinking /\ UNCHANGED host
    <2>1. UNCHANGED <<cur, todo, objects>>
      BY <1>7, RelinkingEffect
    <2> QED
      BY <1>1, <1>7, <2>1 DEF Loaded, host
  <1> QED
    BY <1>2, <1>3, <1>4, <1>5, <1>6, <1>7, <1>8, TestStep

LEMMA EndsInStatement ==
    ASSUME TypeOK, HostTypeOK, WaitInv, TestNext, outcome' \in {"aborted", "crashed"}
    PROVE  line' \in DOMAIN program'
  <1>1. Looks
    <2>1. ~Loads /\ ~CannotLoad /\ ~Inserts /\ ~Calls /\ ~(Work /\ UNCHANGED host)
      BY LoadStarts, CannotLoadSteps, InsertSteps, CallSteps, CallStarts, LoadingEffect, RelinkingEffect
         DEF Work, InLoad, InResolve, WaitInv, host
    <2> QED
      BY <2>1, TestStep DEF Work
  <1>2. CASE ResolveAborts
    BY <1>2 DEF ResolveAborts, EndAs, WaitInv
  <1>3. CASE Lists \/ LooksUp
    BY <1>1, <1>3, LookSteps DEF Lists, LooksUp, At, Done, EndAs
  <1> QED
    BY <1>1, <1>2, <1>3, LookSteps DEF Looks, ResolvesDone, Passes, EndAs

LEMMA OriginInvariant == TestSpec => []OriginInv
  <1>1. TestInit => OriginInv
    <2> SUFFICES ASSUME TestInit PROVE OriginInv
      OBVIOUS
    <2>1. /\ cur = Null /\ DOMAIN todo = {} /\ Loaded = {} /\ line = 1
          /\ addr = [s \in SymId |-> Null] /\ program \in Program
      BY DEF TestInit, Init, Loaded
    <2>2. \A n \in HostName : addr[<<Null, n>>] = Null
      BY <2>1 DEF SymId, HostSym
    <2>3. \A i \in DOMAIN program : ~(i < line)
      BY <2>1, ProgramLine
    <2> QED
      BY <2>1, <2>2, <2>3, NullIsNothing DEF OriginInv, TestInit
  <1>2. TypeOK /\ TestInv /\ OriginInv /\ [TestNext]_tvars => OriginInv'
    <2> SUFFICES ASSUME TypeOK, TestInv, OriginInv, [TestNext]_tvars PROVE OriginInv'
      OBVIOUS
    <2>1. CASE TestNext
      <3>1. \A n \in HostName : (addr[<<Null, n>>] # Null <=> Inserted(n))'
        BY <2>1, InsertedStep DEF TestInv, OriginInv, Inserted
      <3>2. (\A o \in Object : o \in Loaded \/ o = cur \/ (\E i \in DOMAIN todo : o = todo[i]) =>
               LoadedIn(program, line, o))'
        BY <2>1, LoadedStep DEF TestInv, OriginInv
      <3>3. (outcome \in {"aborted", "crashed"} => line \in DOMAIN program)'
        BY <2>1, EndsInStatement DEF TestInv
      <3> QED
        BY <3>1, <3>2, <3>3 DEF OriginInv, Inserted
    <2>2. CASE UNCHANGED tvars
      BY <2>2 DEF OriginInv, tvars, host, vars, control, names, Loaded, LoadedIn
    <2> QED
      BY <2>1, <2>2
  <1> QED
    BY <1>1, <1>2, TestInvariant, TestsAreSessions, TypeCorrect, PTL DEF TestSpec

(* What is defined at some moment is defined by the program.                  *)
LEMMA NoDuplicate ==
    ASSUME TypeOK, TestInv, OriginInv, Unambiguous(program)
    PROVE  ~Duplicate
  <1> DEFINE end == Len(program) + 1
  <1>1. \A i \in DOMAIN program : i \in Nat /\ i < end
    BY ProgramLength DEF TestInv
  <1>2. \A o \in Object : o \in Loaded \/ o = cur => LoadedIn(program, end, o)
    BY <1>1 DEF OriginInv, LoadedIn
  <1> HIDE DEF end
  <1>3. SUFFICES ASSUME NEW s \in SymId, Defines(s),
                        \/ line \in DOMAIN program /\ program[line] = Insert(NameOf(s))
                        \/ \E t \in ObjectSym : t[1] = cur /\ t # s /\ Publishes(t) /\ NameOf(t) = NameOf(s)
                 PROVE  FALSE
    BY DEF Duplicate
  <1>4. CASE s \in HostSym
    <2>1. PICK n \in HostName : s = <<Null, n>> /\ NameOf(s) = n
      BY <1>4 DEF HostSym, NameOf
    <2>2. PICK i \in DOMAIN program : i < line /\ program[i] = Insert(n)
      BY <1>3, <1>4, <2>1 DEF Defines, OriginInv
    <2>3. CASE line \in DOMAIN program /\ program[line] = Insert(n)
      <3>1. program[i].op = "insert"
        BY <2>2 DEF Insert
      <3>2. i = line
        BY <2>2, <2>3, <3>1 DEF Unambiguous
      <3> QED
        BY <1>1, <2>2, <3>2
    <2>4. ASSUME NEW t \in ObjectSym, t[1] = cur, Publishes(t), NameOf(t) = n PROVE FALSE
      <3>1. LoadedIn(program, end, t[1])
        BY <1>2, <2>4, SymbolData
      <3> QED
        BY <2>2, <2>4, <3>1 DEF Unambiguous, end
    <2> QED
      BY <1>3, <2>1, <2>3, <2>4
  <1>5. CASE s \in ObjectSym /\ s \notin HostSym
    <2>1. Publishes(s) /\ LoadedIn(program, end, s[1])
      BY <1>2, <1>3, <1>5, SymbolData DEF Defines
    <2>2. ASSUME NEW t \in ObjectSym, t[1] = cur, t # s, Publishes(t), NameOf(t) = NameOf(s)
          PROVE  FALSE
      <3>1. LoadedIn(program, end, t[1])
        BY <1>2, <2>2, SymbolData
      <3> QED
        BY <1>5, <2>1, <2>2, <3>1 DEF Unambiguous, end
    <2>3. \A i \in DOMAIN program : program[i] # Insert(NameOf(s))
      BY <1>5, <2>1 DEF Unambiguous, end
    <2> QED
      BY <1>3, <2>2, <2>3
  <1> QED
    BY <1>4, <1>5 DEF SymId

(* What the program has given by now is defined.                              *)
LEMMA GivenIsDefined ==
    ASSUME TypeOK, TestInv, OriginInv, phase = "idle", NEW n, Given(program, line, n)
    PROVE  \E s \in SymId : NameOf(s) = n /\ Defines(s)
  <1>1. ASSUME NEW i \in DOMAIN program, i < line, program[i] = Insert(n)
        PROVE  \E s \in SymId : NameOf(s) = n /\ Defines(s)
    <2>1. n \in HostName
      BY <1>1, ProgramLine, StatementShape DEF TestInv, HostTypeOK, Insert
    <2>2. <<Null, n>> \in HostSym /\ <<Null, n>> \in SymId
      BY <2>1 DEF HostSym, SymId
    <2>3. addr[<<Null, n>>] # Null
      BY <1>1, <2>1 DEF OriginInv
    <2> QED
      BY <2>2, <2>3 DEF NameOf, Defines
  <1>2. ASSUME NEW t \in ObjectSym, Publishes(t), NameOf(t) = n, LoadedIn(program, line, t[1])
        PROVE  \E s \in SymId : NameOf(s) = n /\ Defines(s)
    <2>1. Arriving = {}
      BY DEF Arriving, InLoad
    <2>2. t[1] \in Loaded
      BY <1>2, <2>1, SymbolData DEF TestInv, ListInv, LoadedIn
    <2>3. t \in SymId /\ t \notin HostSym
      BY SymbolData, NullIsNothing DEF SymId, HostSym
    <2> QED
      BY <1>2, <2>2, <2>3 DEF Defines
  <1> QED
    BY <1>1, <1>2 DEF Given

(* A test fails for no reason but its files: if each name is defined once,    *)
(* and before it is looked up or an object that uses it is resolved, then no  *)
(* assert of the library fails, no check of the test does, and no null        *)
(* pointer is used, as long as mprotect succeeds and the layout suits the     *)
(* files.                                                                     *)
THEOREM LinkableNeverFails == TestSpec => []NeverFails
  <1>1. ASSUME TypeOK, SessionInv, TestInv, OriginInv, TestFailsOnlyForCause, Linkable(program),
               failures = 0
        PROVE  phase \notin {"abort", "fault"} /\ outcome \notin {"aborted", "crashed"}
    <2>1. phase \notin {"abort", "fault"}
      <3>1. ~Unread
        BY <1>1 DEF Unread, Linkable, Fits, arg
      <3>2. ASSUME called # Null
            PROVE  called \in Object /\ LoadedIn(program, Len(program) + 1, called)
        <4>1. called \in Object /\ called \in Loaded
          BY <1>1, <3>2 DEF TestInv, HostTypeOK, WaitInv
        <4> QED
          BY <1>1, <4>1, ProgramLength DEF OriginInv, LoadedIn, TestInv
      <3>3. ASSUME called # Null PROVE ~Misfit(called) /\ ~Crowded(called)
        BY <1>1, <3>2, <3>3 DEF Linkable, Fits, Misfit, HasHigh, Crowded
      <3>4. ASSUME called = Null PROVE ~Misfit(called) /\ ~Crowded(called)
        <4>1. \A q \in RelId : q[1] # called
          BY <3>4, NullIsNothing DEF RelId
        <4>2. \A s \in SecId : s[1] # called
          BY <3>4, NullIsNothing DEF SecId
        <4>3. \A s \in SectionsOf(called) : s[1] = called
          BY DEF SectionsOf
        <4> QED
          BY <1>1, <4>1, <4>2, <4>3, Layout DEF Linkable, Fits, Misfit, HasHigh, Crowded
      <3> QED
        BY <1>1, <3>1, <3>3, <3>4, NoDuplicate DEF TestFailsOnlyForCause, Linkable
    <2>2. SUFFICES ASSUME outcome \in {"aborted", "crashed"} PROVE FALSE
      BY <2>1
    <2>3. phase = "idle"
      BY <1>1, <2>2 DEF TestInv, WaitInv
    <2>4. \A n : Known(program, line, n) => ~Undefined(n)
      BY <1>1, <2>3, GivenIsDefined DEF Known, Undefined
    <2>5. line \in DOMAIN program
      BY <1>1, <2>2 DEF OriginInv
    <2>6. Ready(program, line)
      BY <1>1, <2>5 DEF Linkable
    <2>7. ~(program[line].op \in {"need", "use"} /\ Undefined(arg))
      BY <2>4, <2>6 DEF Ready, arg
    <2>8. ~(program[line].op = "list" /\ \A s \in SymId : ~Defines(s))
      BY <1>1, <2>3, <2>6, GivenIsDefined DEF Ready
    <2>9. ~UsesUndefined(called)
      <3> SUFFICES ASSUME NEW s \in ObjectSym, s[1] = called, NeedGotSlot(s), Undefined(NameOf(s))
                   PROVE  FALSE
        BY DEF UsesUndefined
      <3>1. called \in Object /\ called # Null
        BY SymbolData, NullIsNothing
      <3>2. /\ called \in Loaded /\ IsResolve(program[line])
            /\ program[line].op = "resolve" => called = program[line].arg
        BY <1>1, <3>1 DEF TestInv, WaitInv
      <3>3. LoadedIn(program, line, called)
        BY <1>1, <3>1, <3>2 DEF OriginInv
      <3> QED
        BY <2>4, <2>6, <3>2, <3>3 DEF Ready
    <2> QED
      BY <1>1, <2>2, <2>7, <2>8, <2>9 DEF TestFailsOnlyForCause
  <1>2. TypeOK /\ SessionInv /\ TestInv /\ OriginInv /\ TestFailsOnlyForCause => NeverFails
    BY <1>1 DEF NeverFails
  <1> QED
    BY <1>2, OriginInvariant, TestInvariant, TestsFailOnlyForCause, TestsAreSessions, TypeCorrect,
       SessionInvariant, PTL

------------------------------------------------------------------------------
(* How long a test can take.                                                  *)

Going  == outcome = "running" /\ phase \notin {"abort", "fault"}
Lines  == IF Going THEN Len(program) + 2 - line ELSE 0
Turn   == CHOOSE c \in DOMAIN objects : objects[c] = called
Ahead  == IF called = Null THEN 0 ELSE Len(objects) - Turn

(* What is left of a test: statements, the first call of a statement that     *)
(* resolves, and the objects its walk has ahead; and of the call, Left.       *)
HostLeft == <<Lines, IF called = Null THEN 1 ELSE 0, Ahead>>

TestShrinks ==
    [][/\ {HostLeft, HostLeft', Left, Left'} \subseteq Nat \X Nat \X Nat
       /\ Below(HostLeft', HostLeft) \/ (HostLeft' = HostLeft /\ Below(Left', Left))]_tvars

LineInv == line <= Len(program) + 1

(* Where the list has the object the host waits for, and the one after it.    *)
LEMMA TurnOnList ==
    ASSUME TypeOK, Distinct, called \in Loaded
    PROVE  /\ Turn \in DOMAIN objects /\ objects[Turn] = called
           /\ Turn \in Nat /\ Len(objects) \in Nat /\ Turn <= Len(objects)
           /\ \A c \in DOMAIN objects : objects[c] = called => c = Turn
  <1>1. \E c \in DOMAIN objects : objects[c] = called
    BY DEF Loaded
  <1>2. DOMAIN objects = 1..Len(objects) /\ Len(objects) \in Nat
    BY DEF TypeOK
  <1>3. Turn \in DOMAIN objects /\ objects[Turn] = called
    BY <1>1 DEF Turn
  <1> QED
    BY <1>2, <1>3 DEF Distinct

LEMMA HostLeftType ==
    TypeOK /\ TestInv /\ LineInv => HostLeft \in Nat \X Nat \X Nat
  <1> SUFFICES ASSUME TypeOK, TestInv, LineInv PROVE HostLeft \in Nat \X Nat \X Nat
    OBVIOUS
  <1>1. Lines \in Nat
    BY ProgramLength DEF TestInv, LineInv, Lines
  <1>2. Ahead \in Nat
    <2>1. called # Null => called \in Loaded
      BY DEF TestInv, WaitInv
    <2> QED
      BY <2>1, TurnOnList DEF Ahead, TestInv, ListInv, Distinct
  <1> QED
    BY <1>1, <1>2 DEF HostLeft

(* A step after which there are fewer statements, or none, to go.             *)
LEMMA LinesShrink ==
    ASSUME HostTypeOK, LineInv, Going, program' = program,
           ~Going' \/ line' = line + 1
    PROVE  Below(HostLeft', HostLeft)
  <1>1. Lines' < Lines
    BY ProgramLength DEF Lines, LineInv
  <1> QED
    BY <1>1 DEF HostLeft, Below

LEMMA CallAdvances ==
    ASSUME TypeOK, TestInv, Calls
    PROVE  Below(HostLeft', HostLeft)
  <1>1. PICK o \in Object : /\ CallResolve(o)
                            /\ called # Null => o \in Successors(called)
    BY CallSteps, CallStarts DEF TestInv
  <1>2. /\ UNCHANGED <<objects, program, line, outcome>> /\ called' = o
        /\ phase = "idle" /\ phase' = "fill_got" /\ o \in Loaded /\ o # Null
    BY <1>1, CallStarts, NullIsNothing DEF TestInv
  <1>3. Lines' = Lines
    BY <1>2 DEF Lines, Going
  <1>4. CASE called = Null
    BY <1>2, <1>3, <1>4 DEF HostLeft, Below
  <1>5. CASE called # Null
    <2>1. PICK i \in DOMAIN objects : objects[i] = called /\ i < Len(objects) /\ o = objects[i + 1]
      BY <1>1, <1>5 DEF Successors
    <2>2. called \in Loaded /\ Distinct
      BY <1>5 DEF TestInv, WaitInv, ListInv, Distinct
    <2>3. /\ Turn = i /\ Turn \in Nat /\ Len(objects) \in Nat /\ DOMAIN objects = 1..Len(objects)
      BY <2>1, <2>2, TurnOnList DEF TypeOK
    <2>4. i + 1 \in DOMAIN objects
      BY <2>1, <2>3
    <2>5. Turn' = i + 1
      <3>1. Turn' = CHOOSE c \in DOMAIN objects : objects[c] = o
        BY <1>2 DEF Turn
      <3>2. \A c \in DOMAIN objects : objects[c] = o => c = i + 1
        BY <2>1, <2>2, <2>4 DEF Distinct
      <3> QED
        BY <2>1, <2>4, <3>1, <3>2
    <2>6. Ahead' < Ahead
      BY <1>2, <1>5, <2>3, <2>5 DEF Ahead
    <2> QED
      BY <1>2, <1>3, <1>5, <2>6 DEF HostLeft, Below
  <1> QED
    BY <1>4, <1>5

LEMMA TestStepShrinks ==
    ASSUME TypeOK, TestInv, LineInv, PosInv, TestNext
    PROVE  Below(HostLeft', HostLeft) \/ (HostLeft' = HostLeft /\ Below(Left', Left))
  <1> USE DEF TestInv
  <1>1. CASE Loads
    BY <1>1, LoadStarts, LinesShrink DEF Going
  <1>2. CASE CannotLoad \/ Inserts
    BY <1>2, CannotLoadSteps, InsertSteps, LinesShrink DEF Going
  <1>3. CASE Calls
    BY <1>3, CallAdvances
  <1>4. CASE Looks
    <2>1. Going /\ program' = program /\ (~Going' \/ line' = line + 1)
      BY <1>4, LookSteps DEF Going
    <2> QED
      BY <2>1, LinesShrink
  <1>5. ASSUME Loading \/ Relinking, UNCHANGED host
        PROVE  Below(HostLeft', HostLeft) \/ (HostLeft' = HostLeft /\ Below(Left', Left))
    <2>1. /\ Going
          /\ called # Null => objects' = objects
      <3>1. ASSUME Loading PROVE InLoad
        BY <3>1, LoadingEffect
      <3>2. ASSUME Relinking PROVE InResolve /\ objects' = objects
        BY <3>2, RelinkingEffect
      <3> QED
        BY <1>5, <3>1, <3>2 DEF Going, WaitInv, InLoad, InResolve
    <2>2. CASE ~Going'
      BY <1>5, <2>1, <2>2, LinesShrink DEF host
    <2>3. CASE Going'
      <3>1. HostLeft' = HostLeft
        <4>1. called' = called /\ Lines' = Lines
          BY <1>5, <2>1, <2>3 DEF host, Lines
        <4>2. Ahead' = Ahead
          <5>1. objects' = objects => Turn' = Turn
            BY <4>1, Zenon DEF Turn
          <5> QED
            BY <2>1, <4>1, <5>1 DEF Ahead
        <4> QED
          BY <4>1, <4>2 DEF HostLeft
      <3>2. Work
        BY <1>5 DEF Work
      <3> QED
        BY <3>1, <3>2, WorkShrinks
    <2> QED
      BY <2>2, <2>3
  <1> QED
    BY <1>1, <1>2, <1>3, <1>4, <1>5, TestStep

LEMMA LineStep ==
    ASSUME TypeOK, TestInv, LineInv, [TestNext]_tvars
    PROVE  LineInv'
  <1> USE DEF TestInv
  <1>1. ASSUME program' = program, line' = line \/ (line \in DOMAIN program /\ line' = line + 1)
        PROVE  LineInv'
    BY <1>1, ProgramLength DEF LineInv
  <1>2. CASE Loads \/ CannotLoad \/ Inserts
    BY <1>1, <1>2, LoadStarts, CannotLoadSteps, InsertSteps
  <1>3. CASE Calls
    BY <1>1, <1>3, CallSteps, CallStarts
  <1>4. CASE Looks
    BY <1>1, <1>4, LookSteps DEF ResolvesDone, WaitInv
  <1>5. CASE UNCHANGED host
    BY <1>1, <1>5 DEF host
  <1> QED
    BY <1>2, <1>3, <1>4, <1>5, TestStep DEF tvars

(* No test goes on forever, whatever its files and however its calls end:     *)
(* every step makes what is left of its program, or of the call it waits for, *)
(* smaller.                                                                   *)
THEOREM TestsShrink == TestSpec => TestShrinks
  <1>1. TestInit => LineInv
    BY ProgramLength DEF TestInit, LineInv, HostTypeOK
  <1>2. (TypeOK /\ TestInv /\ LineInv => HostLeft \in Nat \X Nat \X Nat)
        /\ (TypeOK /\ TestInv /\ LineInv => HostLeft \in Nat \X Nat \X Nat)'
    BY HostLeftType, PTL
  <1>3. (TypeOK /\ PosInv => Left \in Nat \X Nat \X Nat)
        /\ (TypeOK /\ PosInv => Left \in Nat \X Nat \X Nat)'
    BY LeftType, PTL
  <1>4. /\ TypeOK /\ TestInv /\ LineInv /\ PosInv
        /\ TypeOK' /\ TestInv' /\ LineInv' /\ PosInv'
        /\ [TestNext]_tvars
        => [/\ {HostLeft, HostLeft', Left, Left'} \subseteq Nat \X Nat \X Nat
            /\ Below(HostLeft', HostLeft) \/ (HostLeft' = HostLeft /\ Below(Left', Left))]_tvars
    BY <1>2, <1>3, TestStepShrinks
  <1> QED
    BY <1>1, <1>4, LineStep, TestInvariant, TestsAreSessions, TypeCorrect, PosInRange, PTL
       DEF TestSpec, TestShrinks

------------------------------------------------------------------------------
(* The tests of Tests.c are tests: what is assumed of Program holds of each   *)
(* of them, whatever files it is given.                                       *)

LEMMA StatementTypes ==
    /\ \A o \in Object : Load(o) \in Statement /\ Resolve(o) \in Statement
    /\ \A l \in Archive : LoadAll(l) \in Statement /\ Walk(l) \in Statement
    /\ \A n \in HostName : Insert(n) \in Statement
    /\ \A n \in Name : Need(n) \in Statement /\ Use(n) \in Statement
    /\ WalkAll \in Statement /\ List \in Statement
  BY DEF Statement

LEMMA Joined ==
    ASSUME NEW S, NEW s \in Seq(S), NEW t \in Seq(S)
    PROVE  /\ s \o t \in Seq(S) /\ DOMAIN (s \o t) = 1..(Len(s) + Len(t))
           /\ \A i \in 1..Len(s) : (s \o t)[i] = s[i]
           /\ \A i \in 1..Len(t) : (s \o t)[Len(s) + i] = t[i]
  OBVIOUS

CountingNames == {"glob", "square", "inc", "quad", "double_inc"}

LEMMA CountingStatements ==
    ASSUME CountingNames \subseteq Name
    PROVE  /\ Counting \in Seq(Statement) /\ Len(Counting) = 6
           /\ \A i \in 1..6 : ~IsLoad(Counting[i]) /\ ~IsResolve(Counting[i])
  BY StatementTypes DEF CountingNames, Counting, List, Use, IsLoad, IsResolve

(* What follows a test and neither loads nor resolves leaves it one.          *)
LEMMA LookingKeepsTest ==
    ASSUME NEW s, IsTest(s), NEW t \in Seq(Statement),
           \A i \in DOMAIN t : ~IsLoad(t[i]) /\ ~IsResolve(t[i])
    PROVE  IsTest(s \o t)
  <1> DEFINE p == s \o t
  <1>1. s \in Seq(Statement)
    BY DEF IsTest
  <1>2. /\ p \in Seq(Statement) /\ DOMAIN p = 1..(Len(s) + Len(t))
        /\ \A i \in 1..Len(s) : p[i] = s[i]
        /\ \A i \in 1..Len(t) : p[Len(s) + i] = t[i]
    BY <1>1, Joined
  <1>3. DOMAIN s = 1..Len(s) /\ DOMAIN t = 1..Len(t) /\ Len(s) \in Nat /\ Len(t) \in Nat
    BY <1>1
  <1> HIDE DEF p
  <1>4. ASSUME NEW i \in DOMAIN p, IsLoad(p[i]) \/ IsResolve(p[i])
        PROVE  i \in DOMAIN s
    <2>1. i \in 1..Len(s) \/ (i - Len(s) \in 1..Len(t) /\ i = Len(s) + (i - Len(s)))
      BY <1>2, <1>3
    <2>2. i - Len(s) \in DOMAIN t /\ i = Len(s) + (i - Len(s)) => p[i] = t[i - Len(s)]
      BY <1>2, <1>3
    <2> QED
      BY <1>3, <1>4, <2>1, <2>2
  <1>5. \A i \in DOMAIN s : i \in DOMAIN p /\ p[i] = s[i]
    BY <1>2, <1>3
  <1>6. ASSUME NEW i \in DOMAIN p, IsLoad(p[i])
        PROVE  \E k \in DOMAIN p : i < k /\ Links(p[k], p[i])
    BY <1>4, <1>5, <1>6 DEF IsTest
  <1>7. ASSUME NEW i \in DOMAIN p, NEW k \in DOMAIN p, i < k, IsResolve(p[i]), IsResolve(p[k])
        PROVE  /\ p[k].op = "resolve" /\ p[i] # p[k]
               /\ p[i].op = "walk" => \E j \in i..k : p[j] = Load(p[k].arg)
    <2>1. i \in DOMAIN s /\ k \in DOMAIN s /\ p[i] = s[i] /\ p[k] = s[k]
      BY <1>4, <1>5, <1>7
    <2>2. /\ s[k].op = "resolve" /\ s[i] # s[k]
          /\ s[i].op = "walk" => \E j \in i..k : s[j] = Load(s[k].arg)
      BY <1>7, <2>1 DEF IsTest
    <2>3. \A j \in i..k : j \in DOMAIN s
      BY <1>3, <2>1
    <2> QED
      BY <1>5, <2>1, <2>2, <2>3
  <1> QED
    BY <1>2, <1>6, <1>7 DEF IsTest, p

LEMMA OneObject ==
    ASSUME NEW o \in Object
    PROVE  IsTest(<<Load(o), Resolve(o)>>)
  <1>1. <<Load(o), Resolve(o)>> \in Seq(Statement)
    BY StatementTypes
  <1> QED
    BY <1>1 DEF IsTest, IsLoad, IsResolve, Links, Load, Resolve

LEMMA OneWalk ==
    ASSUME NEW l \in Archive
    PROVE  IsTest(<<LoadAll(l), Walk(l)>>)
  <1>1. <<LoadAll(l), Walk(l)>> \in Seq(Statement)
    BY StatementTypes
  <1> QED
    BY <1>1 DEF IsTest, IsLoad, IsResolve, Links, LoadAll, Walk

LEMMA ThreeObjects ==
    ASSUME NEW a \in Object, NEW b \in Object, NEW c \in Object, a # b, b # c, a # c
    PROVE  IsTest(<<Load(a), Load(b), Load(c), Resolve(a), Resolve(b), Resolve(c)>>)
  <1> DEFINE p == <<Load(a), Load(b), Load(c), Resolve(a), Resolve(b), Resolve(c)>>
  <1>1. /\ p \in Seq(Statement) /\ DOMAIN p = 1..6
        /\ p[1] = Load(a) /\ p[2] = Load(b) /\ p[3] = Load(c)
        /\ p[4] = Resolve(a) /\ p[5] = Resolve(b) /\ p[6] = Resolve(c)
    BY StatementTypes
  <1> HIDE DEF p
  <1>2. Links(p[4], p[1]) /\ Links(p[5], p[2]) /\ Links(p[6], p[3])
    BY <1>1 DEF Links
  <1>3. \A i \in DOMAIN p : IsLoad(p[i]) => i \in {1, 2, 3}
    BY <1>1 DEF IsLoad, Resolve
  <1>4. \A i \in DOMAIN p : IsResolve(p[i]) => i \in {4, 5, 6}
    BY <1>1 DEF IsResolve, Load
  <1>5. \A i \in {4, 5, 6} : /\ p[i].op = "resolve"
                             /\ p[i].arg = IF i = 4 THEN a ELSE IF i = 5 THEN b ELSE c
    BY <1>1 DEF Resolve
  <1>6. \A i, k \in {4, 5, 6} : i # k => p[i] # p[k]
    BY <1>5
  <1> QED
    BY <1>1, <1>2, <1>3, <1>4, <1>5, <1>6 DEF IsTest, p

(* The Haskell runtime: archives, the host's symbols, a walk over all, and    *)
(* an object that is loaded after it. With n archives, the statements i that  *)
(* neither load nor resolve:                                                  *)
LooksAt(n, i) ==
    \/ n < i /\ i < n + 4
    \/ n + 4 < i /\ i < n + 7
    \/ n + 8 < i /\ i < n + 12

LEMMA RuntimeShape ==
    ASSUME NEW n \in Nat, NEW o \in Object, NEW p, p \in Seq(Statement), DOMAIN p = 1..(n + 11),
           \A i \in 1..n : p[i].op = "archive",
           p[n + 4] = WalkAll, p[n + 7] = Load(o), p[n + 8] = Resolve(o),
           \A i \in Nat : LooksAt(n, i) => p[i].op \in {"insert", "need", "use"}
    PROVE  IsTest(p)
  <1>1. /\ n + 4 \in DOMAIN p /\ n + 7 \in DOMAIN p /\ n + 8 \in DOMAIN p
        /\ \A i \in DOMAIN p : i \in Nat
        /\ \A i \in DOMAIN p : i \in 1..n \/ i = n + 4 \/ i = n + 7 \/ i = n + 8 \/ LooksAt(n, i)
    BY DEF LooksAt
  <1>2. \A i \in Nat : LooksAt(n, i) => ~IsLoad(p[i]) /\ ~IsResolve(p[i])
    <2> SUFFICES ASSUME NEW i \in Nat, LooksAt(n, i) PROVE ~IsLoad(p[i]) /\ ~IsResolve(p[i])
      OBVIOUS
    <2>1. p[i].op \in {"insert", "need", "use"}
      OBVIOUS
    <2> QED
      BY <2>1 DEF IsLoad, IsResolve
  <1>3. /\ \A i \in 1..n : ~IsResolve(p[i])
        /\ ~IsLoad(p[n + 4]) /\ ~IsResolve(p[n + 7]) /\ ~IsLoad(p[n + 8])
    BY DEF IsLoad, IsResolve, WalkAll, Load, Resolve
  <1>4. \A i \in DOMAIN p : IsLoad(p[i]) => i \in 1..n \/ i = n + 7
    BY <1>1, <1>2, <1>3
  <1>5. \A i \in DOMAIN p : IsResolve(p[i]) => i = n + 4 \/ i = n + 8
    BY <1>1, <1>2, <1>3
  <1>6. ASSUME NEW i \in DOMAIN p, IsLoad(p[i])
        PROVE  \E k \in DOMAIN p : i < k /\ Links(p[k], p[i])
    <2>1. Links(p[n + 4], p[i]) /\ Links(p[n + 8], p[n + 7])
      BY DEF Links
    <2>2. CASE i \in 1..n
      <3>1. i < n + 4
        BY <2>2
      <3> QED
        BY <1>1, <2>1, <3>1
    <2>3. CASE i = n + 7
      <3>1. n + 7 < n + 8
        OBVIOUS
      <3> QED
        BY <1>1, <2>1, <2>3, <3>1
    <2> QED
      BY <1>4, <1>6, <2>2, <2>3
  <1>7. ASSUME NEW i \in DOMAIN p, NEW k \in DOMAIN p, i < k, IsResolve(p[i]), IsResolve(p[k])
        PROVE  /\ p[k].op = "resolve" /\ p[i] # p[k]
               /\ p[i].op = "walk" => \E j \in i..k : p[j] = Load(p[k].arg)
    <2>1. i = n + 4 /\ k = n + 8
      <3>1. (i = n + 4 \/ i = n + 8) /\ (k = n + 4 \/ k = n + 8)
        BY <1>5, <1>7
      <3>2. i < k
        BY <1>7
      <3> QED
        BY <3>1, <3>2
    <2>2. n + 7 \in i..k
      BY <2>1
    <2>3. p[k].op = "resolve" /\ p[k].arg = o /\ p[i].op = "walk"
      BY <2>1 DEF WalkAll, Resolve
    <2> QED
      BY <2>2, <2>3
  <1> QED
    BY <1>6, <1>7 DEF IsTest

Runtime(o) == <<Insert("__exidx_start"), Insert("__exidx_end"), Insert("atexit"), WalkAll,
                Need("hs_init"), Need("memcpy"), Load(o), Resolve(o),
                Need("startCounter"), Need("helloWorld"), Use("setLineBuffering")>>

LEMMA RuntimeIsTest ==
    ASSUME NEW ls \in Seq(Archive), NEW o \in Object,
           {"__exidx_start", "__exidx_end", "atexit"} \subseteq HostName,
           {"hs_init", "memcpy", "startCounter", "helloWorld", "setLineBuffering"} \subseteq Name
    PROVE  IsTest(testLoadHS(ls, o))
  <1> DEFINE s == [i \in DOMAIN ls |-> LoadAll(ls[i])]
             t == Runtime(o)
             p == s \o t
  <1>1. PICK n \in Nat : n = Len(ls) /\ DOMAIN ls = 1..n
    OBVIOUS
  <1>2. s \in Seq(Statement) /\ Len(s) = n /\ \A i \in 1..n : s[i].op = "archive"
    <2>1. \A i \in 1..n : s[i] \in Statement /\ s[i].op = "archive"
      BY <1>1, StatementTypes DEF LoadAll
    <2> QED
      BY <1>1, <2>1
  <1>3. t \in Seq(Statement) /\ Len(t) = 11
    BY StatementTypes DEF Runtime
  <1>4. t[4] = WalkAll /\ t[7] = Load(o) /\ t[8] = Resolve(o)
    BY DEF Runtime
  <1>5. /\ t[1].op = "insert" /\ t[2].op = "insert" /\ t[3].op = "insert"
        /\ t[5].op = "need" /\ t[6].op = "need"
        /\ t[9].op = "need" /\ t[10].op = "need" /\ t[11].op = "use"
    BY DEF Runtime, Insert, Need, Use
  <1>6. \A k \in 1..11 : k \notin {4, 7, 8} => t[k].op \in {"insert", "need", "use"}
    <2> HIDE DEF t
    <2> SUFFICES ASSUME NEW k \in 1..11, k \notin {4, 7, 8}
                 PROVE  t[k].op \in {"insert", "need", "use"}
      OBVIOUS
    <2>1. \/ k = 1 \/ k = 2 \/ k = 3 \/ k = 5 \/ k = 6 \/ k = 9 \/ k = 10 \/ k = 11
      OBVIOUS
    <2> QED
      BY <1>5, <2>1
  <1>7. testLoadHS(ls, o) = p
    BY DEF testLoadHS, Runtime
  <1> HIDE DEF s, t
  <1>8. /\ p \in Seq(Statement) /\ DOMAIN p = 1..(Len(s) + Len(t))
        /\ \A i \in 1..Len(s) : p[i] = s[i]
        /\ \A i \in 1..Len(t) : p[Len(s) + i] = t[i]
    <2>1. s \in Seq(Statement) /\ t \in Seq(Statement)
      BY <1>2, <1>3
    <2> QED
      BY ONLY <2>1, Joined
  <1> HIDE DEF p
  <1>9. /\ DOMAIN p = 1..(n + 11)
        /\ \A i \in 1..n : p[i] = s[i]
        /\ \A k \in 1..11 : p[n + k] = t[k]
    BY <1>2, <1>3, <1>8
  <1>10. \A i \in 1..n : p[i].op = "archive"
    BY <1>2, <1>9
  <1>11. p[n + 4] = WalkAll /\ p[n + 7] = Load(o) /\ p[n + 8] = Resolve(o)
    <2>1. p[n + 4] = t[4] /\ p[n + 7] = t[7] /\ p[n + 8] = t[8]
      BY <1>9
    <2> QED
      BY <1>4, <2>1
  <1>12. ASSUME NEW i \in Nat, LooksAt(n, i)
         PROVE  p[i].op \in {"insert", "need", "use"}
    <2>1. PICK k \in 1..11 : i = n + k /\ k \notin {4, 7, 8}
      <3>1. i - n \in 1..11 /\ i = n + (i - n) /\ i - n \notin {4, 7, 8}
        BY <1>12 DEF LooksAt
      <3> QED
        BY <3>1
    <2>2. p[i] = t[k]
      BY <1>9, <2>1
    <2> QED
      BY <1>6, <2>1, <2>2
  <1>13. p \in Seq(Statement)
    BY <1>8
  <1>14. IsTest(p)
    BY <1>9, <1>10, <1>11, <1>12, <1>13, RuntimeShape
  <1> QED
    BY <1>7, <1>14

(* Each of the six, whatever it is given, is as Programs assumes.             *)
THEOREM TestsAreTests ==
    /\ "myglob" \in Name => \A o \in Object : IsTest(testSimple(o))
    /\ CountingNames \subseteq Name =>
           /\ \A a, b, c \in Object : a # b /\ b # c /\ a # c => IsTest(testMultiple(a, b, c))
           /\ \A l \in Archive : IsTest(testArchive(l))
    /\ \A l \in Archive : IsTest(testGlobalReloc(l))
    /\ "startCounter" \in Name => \A o \in Object : IsTest(testRelocCounter(o))
    /\ /\ {"__exidx_start", "__exidx_end", "atexit"} \subseteq HostName
       /\ {"hs_init", "memcpy", "startCounter", "helloWorld", "setLineBuffering"} \subseteq Name
       => \A ls \in Seq(Archive), o \in Object : IsTest(testLoadHS(ls, o))
  <1> USE DEF IsLoad, IsResolve
  <1>1. ASSUME NEW o \in Object, NEW n \in Name, NEW st \in {Use(n), Need(n)}
        PROVE  IsTest(<<Load(o), Resolve(o), List, st>>)
    <2>1. <<List, st>> \in Seq(Statement)
      BY StatementTypes
    <2>3. \A i \in DOMAIN <<List, st>> : <<List, st>>[i] \in {List, st}
      OBVIOUS
    <2>4. \A x \in {List, st} : ~IsLoad(x) /\ ~IsResolve(x)
      BY DEF List, Use, Need
    <2>2. <<Load(o), Resolve(o), List, st>> = <<Load(o), Resolve(o)>> \o <<List, st>>
      OBVIOUS
    <2> QED
      BY <2>1, <2>2, <2>3, <2>4, OneObject, LookingKeepsTest
  <1>2. ASSUME NEW l \in Archive PROVE IsTest(testGlobalReloc(l))
    <2>1. <<List>> \in Seq(Statement) /\ \A i \in DOMAIN <<List>> : ~IsLoad(<<List>>[i]) /\ ~IsResolve(<<List>>[i])
      BY StatementTypes DEF List
    <2>2. testGlobalReloc(l) = <<LoadAll(l), Walk(l)>> \o <<List>>
      BY DEF testGlobalReloc
    <2> QED
      BY <2>1, <2>2, OneWalk, LookingKeepsTest
  <1>3. ASSUME CountingNames \subseteq Name
        PROVE  /\ \A a, b, c \in Object : a # b /\ b # c /\ a # c => IsTest(testMultiple(a, b, c))
               /\ \A l \in Archive : IsTest(testArchive(l))
    <2>1. /\ Counting \in Seq(Statement)
          /\ \A i \in DOMAIN Counting : ~IsLoad(Counting[i]) /\ ~IsResolve(Counting[i])
      BY <1>3, CountingStatements
    <2> QED
      BY <2>1, ThreeObjects, OneWalk, LookingKeepsTest DEF testMultiple, testArchive
  <1> QED
    BY <1>1, <1>2, <1>3, RuntimeIsTest DEF testSimple, testRelocCounter
=============================================================================
