---------------------------- MODULE MCArReader ----------------------------
(* Archives for TLC: every sequence of at most three members of these kinds,  *)
(* with bodies of even and of odd size.                                       *)
EXTENDS ArReader

M(k, s, n, o) == [kind |-> k, size |-> s, nameSize |-> n, object |-> o]

MCMember == {
  M("/", 4, 0, FALSE),          \* the symbol table ranlib makes
  M("//", 2, 0, FALSE),         \* the table of long names
  M("/n", 4, 63, TRUE),         \* long_name.o, as long as fileName can hold
  M("/n", 2, 64, TRUE),         \* one byte longer
  M("#1/n", 5, 3, TRUE),        \* a BSD name; 2 bytes are left
  M("#1/n", 5, 2, FALSE),       \* the symbol table of a BSD archive
  M("#1/n", 66, 64, TRUE),      \* a BSD name that may or may not end in zeros
  M("short", 2, 0, TRUE),       \* a.o
  M("short", 3, 0, TRUE)        \* b.o, of odd size
}

(* Names too long for fileName only in archives of up to two members.         *)
Fitting == {m \in MCMember : m.nameSize < NameRoom}
MCMembers == [1..3 -> Fitting] \cup UNION {[1..n -> MCMember] : n \in 0..2}

MCFiles ==
    {[arch |-> TRUE, members |-> ms] : ms \in MCMembers}
    \cup {[arch |-> FALSE, members |-> << >>]}
==============================================================================
