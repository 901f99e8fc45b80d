------------------------------ MODULE MCLinker ------------------------------
(* Object files for TLC: small relocatable objects in the shape compilers     *)
(* give them, and the bounds of the runs.                                     *)
EXTENDS LinkerInv, TLC

Text(size)   == [type |-> "PROGBITS", flags |-> "RX", size |-> size]
Data(size)   == [type |-> "PROGBITS", flags |-> "RW", size |-> size]
Rodata(size) == [type |-> "PROGBITS", flags |-> "RO", size |-> size]
Bss(size)    == [type |-> "NOBITS", flags |-> "RW", size |-> size]
Note         == [type |-> "NOTE", flags |-> "none", size |-> 4]
Rwx          == [type |-> "PROGBITS", flags |-> "RWX", size |-> 4]

Symbol(n, b, t, i, v) == [name |-> n, bind |-> b, type |-> t, shndx |-> i, value |-> v]
SecSym(i)  == Symbol("", "LOCAL", "SECTION", i, 0)
Func(n, i) == Symbol(n, "GLOBAL", "FUNC", i, 0)
Var(n, i)  == Symbol(n, "GLOBAL", "OBJECT", i, 0)
Undef(n)   == Symbol(n, "GLOBAL", "NOTYPE", 0, 0)
Weak(n, i) == Symbol(n, "WEAK", "FUNC", i, 0)

(* Relocation of a symbol in a section; arm objects keep the addend in place. *)
R(t, i, s, a) == [sec |-> i, sym |-> s, type |-> t, addend |-> a,
                  implicit |-> Arch = "arm"]

File(secs, syms, rels) == [secs |-> secs, syms |-> syms, rels |-> rels]

Image == [
  \* calls g, takes its address through the GOT, and uses m
  main |-> File(<<Text(8), Rodata(4)>>,
                <<Func("main", 1), Undef("m"), Undef("g")>>,
                <<R("branch", 1, 3, 0), R("got", 1, 3, 0)>>),
  \* defines g, branches to two places of its own, points at m, has a note
  g    |-> File(<<Text(12), Data(8), Note>>,
                <<SecSym(1), Symbol("g", "GLOBAL", "FUNC", 1, 4), Undef("m")>>,
                <<R("branch", 1, 1, 0), R("branch", 1, 2, 0), R("branch", 1, 1, 0),
                  R("data", 2, 3, 4), R("data", 3, 2, 0)>>),
  \* defines m, which the system has as well; bss of size 0, a local pointer
  m    |-> File(<<Data(8), Bss(0)>>,
                <<Var("m", 1), Symbol("z", "LOCAL", "OBJECT", 2, 0)>>,
                <<R("data", 1, 2, 4)>>),
  \* a weak definition of m, and no code
  w    |-> File(<<Data(8)>>, <<Weak("m", 1)>>, <<R("data", 1, 1, 0)>>),
  \* nothing to put in a GOT; a branch alone in its section
  d    |-> File(<<Data(8), Text(4)>>, <<SecSym(1)>>,
                <<R("data", 1, 1, 4), R("branch", 2, 1, 0)>>),
  \* a branch to the middle of another section of the same object
  cold |-> File(<<Text(8), Text(8)>>, <<SecSym(2)>>, <<R("branch", 1, 1, 4)>>),
  \* a function of a section without contents, which has no address
  nul  |-> File(<<Text(0)>>, <<Func("e", 1)>>, << >>),
  \* another definition of g
  g1   |-> File(<<Text(4)>>, <<Func("g", 1)>>, << >>),
  \* a definition of k, which in one run has the hash of g
  k    |-> File(<<Text(4)>>, <<Func("k", 1)>>, << >>),
  \* what the loader refuses
  rwx  |-> File(<<Rwx>>, << >>, << >>),
  odd  |-> File(<<Text(6)>>, <<Func("odd", 1)>>, <<R("branch", 1, 1, 0)>>),
  com  |-> File(<<Data(4)>>, <<Symbol("com", "GLOBAL", "OBJECT", SHN_COMMON, 0)>>, << >>),
  loc  |-> File(<<Text(4)>>, <<Symbol("loc", "LOCAL", "NOTYPE", 0, 0)>>,
                <<R("data", 1, 1, 0)>>),
  thm  |-> File(<<Text(4)>>, <<SecSym(1)>>, <<R("thumb", 1, 1, 0)>>),
  tls  |-> File(<<Data(4)>>, <<Symbol("tls", "GLOBAL", "TLS", 1, 0)>>, << >>)
]

MCSections == [o \in Object |-> Image[o].secs]
MCSymbols  == [o \in Object |-> Image[o].syms]
MCRelocs   == [o \in Object |-> Image[o].rels]

MCName == {"", "main", "g", "m", "z", "e", "odd", "com", "loc", "tls", "atexit", "k"}

MCHash == [n \in MCName |->
    CASE n = ""     -> 0 [] n = "main" -> 1 [] n = "g"   -> 2 [] n = "m" -> 3
      [] n = "z"    -> 4 [] n = "e"    -> 5 [] n = "odd" -> 6 [] n = "com" -> 7
      [] n = "loc"  -> 8 [] n = "tls"  -> 9 [] n = "atexit" -> 10
      [] n = "k" -> 11]
MCCollide == [MCHash EXCEPT !["k"] = MCHash["g"]]

MCMembers  == [a \in Archive |-> IF a = "lib" THEN <<"g", "m">> ELSE << >>]

(* What a layout can spoil: the host's g above 48 bits, the one branch of a   *)
(* section that fills its last page, branches and data that do not fit.       *)
MCHigh     == {HostAddr("g")}
MCCramped  == {<<"d", 2>>}
MCRemote   == {<<"main", 1>>}
MCUnfit    == {<<"w", 1>>}
=============================================================================
