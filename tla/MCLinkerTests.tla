--------------------------- MODULE MCLinkerTests ---------------------------
(* The object files the tests look for, reduced to the names they define and  *)
(* use, and some in which a definition is missing.                            *)
EXTENDS LinkerTests

Text(size) == [type |-> "PROGBITS", flags |-> "RX", size |-> size]
Data(size) == [type |-> "PROGBITS", flags |-> "RW", size |-> size]

Symbol(n, t, i) == [name |-> n, bind |-> "GLOBAL", type |-> t, shndx |-> i, value |-> 0]
Func(n)  == Symbol(n, "FUNC", 1)
Var(n)   == Symbol(n, "OBJECT", 2)
Undef(n) == Symbol(n, "NOTYPE", 0)

Local    == [name |-> "", bind |-> "LOCAL", type |-> "SECTION", shndx |-> 1, value |-> 0]

R(t, s) == [sec |-> 1, sym |-> s, type |-> t, addend |-> 0, implicit |-> FALSE]

File(syms, rels) == [secs |-> <<Text(8), Data(8)>>, syms |-> syms, rels |-> rels]

a == File(<<Var("glob"), Func("square"), Local>>, <<R("got", 1), R("data", 3)>>)
b == File(<<Func("inc"), Undef("glob")>>, <<R("got", 2)>>)
c == File(<<Func("quad"), Func("double_inc"), Undef("square"), Undef("inc")>>,
          <<R("branch", 3), R("branch", 4)>>)
Image == [
  lib |-> File(<<Var("myglob"), Func("ml_func")>>, <<R("got", 1)>>),
  wide |-> File(<<Var("myglob"), Func("ml_func")>>, <<R("got", 1)>>), \* its GOT is too far
  lib0 |-> File(<<Func("ml_func")>>, << >>),               \* myglob is missing
  none |-> File(<< >>, << >>),                             \* no symbol at all
  a |-> a, b |-> b, c |-> c, m1 |-> c, m2 |-> b, m3 |-> a, \* lib.a, users first
  rts |-> File(<<Func("hs_init"), Undef("__exidx_start"), Undef("base")>>, <<R("branch", 3)>>),
  rts2 |-> File(<<Func("hs_init")>>, << >>),               \* defined once more
  base |-> File(<<Func("base"), Undef("hs_init"), Undef("atexit"), Undef("memcpy")>>,
                <<R("branch", 4)>>),
  Counter |-> File(<<Func("startCounter"), Func("helloWorld"), Func("setLineBuffering"),
                     Undef("hs_init")>>, <<R("got", 4)>>),
  Alone |-> File(<<Func("startCounter")>>, << >>),         \* needs no runtime
  exit |-> File(<<Func("hs_init"), Func("atexit")>>, << >>) \* defines atexit too
]

MCObject   == DOMAIN Image
MCSections == [o \in MCObject |-> Image[o].secs]
MCSymbols  == [o \in MCObject |-> Image[o].syms]
MCRelocs   == [o \in MCObject |-> Image[o].rels]

MCArchive  == {"lib.a", "libHSrts", "libHSbase", "libexit", "gone.a"}
MCMembers  == [l \in MCArchive |-> CASE l = "lib.a"     -> <<"m1", "m2", "m3">>
                                     [] l = "libHSrts"  -> <<"rts">>
                                     [] l = "libHSbase" -> <<"base">>
                                     [] l = "libexit"   -> <<"exit">>
                                     [] l = "gone.a"    -> << >>]
MCUnfit    == {<<"wide", 1>>}
MCCramped  == {<<"m1", 1>>}

MCName == {"", "myglob", "ml_func", "glob", "square", "inc", "quad", "double_inc", "hs_init",
           "base", "startCounter", "helloWorld", "setLineBuffering",
           "__exidx_start", "__exidx_end", "atexit", "memcpy"}
MCHostName == {"__exidx_start", "__exidx_end", "atexit"}
MCHash == [n \in MCName |->
    CASE n = "" -> 0 [] n = "myglob" -> 1 [] n = "ml_func" -> 2 [] n = "glob" -> 3 [] n = "square" -> 4
      [] n = "inc" -> 5 [] n = "quad" -> 6 [] n = "double_inc" -> 7 [] n = "hs_init" -> 8
      [] n = "base" -> 9 [] n = "startCounter" -> 10 [] n = "helloWorld" -> 11
      [] n = "setLineBuffering" -> 12 [] n = "__exidx_start" -> 13 [] n = "__exidx_end" -> 14
      [] n = "atexit" -> 15 [] n = "memcpy" -> 16]

MCProgram == {
    testSimple("lib"), testSimple("lib0"), testSimple("none"), testSimple("wide"),
    testMultiple("a", "b", "c"), testMultiple("c", "b", "lib0"),
    testArchive("lib.a"), testGlobalReloc("lib.a"), testArchive("gone.a"),
    testRelocCounter("Counter"), testRelocCounter("Alone"), testRelocCounter("lib"),
    testLoadHS(<<"libHSrts", "libHSbase">>, "Counter"),
    testLoadHS(<<"libHSrts">>, "Counter"), testLoadHS(<<"libexit">>, "Counter"),
    testLoadHS(<<"libHSrts", "libexit">>, "Counter"),
    testLoadHS(<<"libHSrts", "libHSbase">>, "rts2")}
=============================================================================
