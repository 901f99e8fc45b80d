------------------------------ MODULE ArReader ------------------------------
(* read_archive: the members of a static library, read from a stream.         *)
(* loadArchive makes an ObjectCode of each object it returns: Members[a] of   *)
(* Linker.                                                                    *)
(*                                                                            *)
(* The stream is a position and an end-of-file flag, as stdio keeps them:     *)
(* fread sets the flag only when it comes up short, fseek may go past the     *)
(* end. What is in the file is abstract: a header is 60 bytes that can be     *)
(* told from any others, a body only has a size. The file may be cut off      *)
(* anywhere.                                                                  *)
EXTENDS Integers, Sequences

CONSTANT Files   \* the archives read: [arch, members], see Archives

HeaderSize == 60   \* sizeof(ar_header)
MagicSize  == 8    \* "!<arch>\n"
NameRoom   == 64   \* sizeof(fileName)

(* One member: how its header names it ("/" is the symbol table, "//" the     *)
(* table of long names, "/n" a name in that table, "#1/n" one of n bytes in   *)
(* front of the body, "short" one in the header itself), the size its header  *)
(* gives, the bytes of a name that is not in the header, and whether the name *)
(* ends in .o or _o.                                                          *)
Member == [kind: {"/", "//", "/n", "#1/n", "short"}, size: Nat, nameSize: Nat,
           object: BOOLEAN]

ASSUME Archives ==
    \A f \in Files : /\ f.arch \in BOOLEAN /\ f.members \in Seq(Member)
                     /\ \A i \in DOMAIN f.members :
                            f.members[i].kind = "#1/n" =>
                                f.members[i].nameSize <= f.members[i].size

(* ar writes each member at an even offset.                                   *)
Span(m) == HeaderSize + m.size + (m.size % 2)
HeaderPos(ms) ==
    LET at[i \in 1..Len(ms) + 1] ==
            IF i = 1 THEN MagicSize ELSE at[i - 1] + Span(ms[i - 1])
    IN  at

End(ms) == HeaderPos(ms)[Len(ms) + 1]

VARIABLES
    file,      \* the archive (never changes)
    len,       \* how much of it there is (never changes)
    pos,       \* the stream's position
    eof,       \* its end-of-file flag
    symTab,    \* has a symbol table been read
    nameTab,   \* has a table of long names been read
    objects,   \* the objects found, as indices of their members
    status     \* "start", "loop", or how the call ended: "done", "abort", "fault",
               \* or "overflow", after which it may do anything

vars == <<file, len, pos, eof, symTab, nameTab, objects, status>>

Init ==
    /\ file \in Files /\ len \in 0..End(file.members)
    /\ pos = 0 /\ eof = FALSE /\ symTab = FALSE /\ nameTab = FALSE
    /\ objects = << >> /\ status = "start"

Entry == file.members

(* fread(.., n, ..) from p comes up short.                                    *)
Short(p, n) == p + n > len

Stop(how) ==
    /\ status' = how
    /\ UNCHANGED <<file, len, pos, eof, symTab, nameTab, objects>>

ReadMagic ==
    /\ status = "start" /\ ~Short(0, MagicSize) /\ file.arch
    /\ status' = "loop" /\ pos' = MagicSize
    /\ UNCHANGED <<file, len, eof, symTab, nameTab, objects>>

NotAnArchive ==
    /\ status = "start" /\ (Short(0, MagicSize) \/ ~file.arch)
    /\ Stop("abort")

EndOfFile == status = "loop" /\ eof /\ Stop("done")

Reading == status = "loop" /\ ~eof

(* Mutant: the end of the file is not told from a failed read.                *)
NoHeaderAborts ==
    /\ Reading /\ Short(pos, HeaderSize)
    /\ Stop("abort")

(* Fewer bytes are left than a header has: the loop goes round once more.     *)
NoHeader ==
    /\ Reading /\ Short(pos, HeaderSize)
    /\ eof' = TRUE
    /\ UNCHANGED <<file, len, pos, symTab, nameTab, objects, status>>

HeaderHere == {i \in DOMAIN Entry : HeaderPos(Entry)[i] = pos}

BadMagic ==
    /\ Reading /\ ~Short(pos, HeaderSize) /\ HeaderHere = {}
    /\ Stop("abort")

(* The member whose header is read in this round of the loop.                 *)
AtMember(i) == Reading /\ ~Short(pos, HeaderSize) /\ i \in HeaderHere

Body  == pos + HeaderSize
Table(i) == Entry[i].kind \in {"/", "//"}

(* Mutant: a table's contents are not read.                                   *)
ReadTableHeader(i) ==
    /\ AtMember(i) /\ Table(i)
    /\ pos' = Body
    /\ IF Entry[i].kind = "/" THEN symTab' = TRUE /\ UNCHANGED nameTab
                              ELSE nameTab' = TRUE /\ UNCHANGED symTab
    /\ UNCHANGED <<file, len, eof, objects, status>>

ReadTable(i) ==
    /\ AtMember(i) /\ Table(i)
    /\ IF Entry[i].kind = "/" THEN ~symTab /\ symTab' = TRUE /\ UNCHANGED nameTab
                              ELSE ~nameTab /\ nameTab' = TRUE /\ UNCHANGED symTab
    /\ ~Short(Body, Entry[i].size)
    /\ pos' = Body + Entry[i].size
    /\ UNCHANGED <<file, len, eof, objects, status>>

(* A second table of its kind, or one that is cut off.                        *)
TableAborts(i) ==
    /\ AtMember(i) /\ Table(i)
    /\ \/ Entry[i].kind = "/" /\ symTab
       \/ Entry[i].kind = "//" /\ nameTab
       \/ Short(Body, Entry[i].size)
    /\ Stop("abort")

(* A long name is read from the table, which is a null pointer before "//".   *)
NameFaults(i) ==
    /\ AtMember(i) /\ Entry[i].kind = "/n" /\ ~nameTab
    /\ Stop("fault")

(* The bytes of the body that name the member.                                *)
NameSize(i) == IF Entry[i].kind = "#1/n" THEN Entry[i].nameSize ELSE 0

(* The name is cut off, or one of the table fills fileName: no byte is left   *)
(* for its end, and the assert on strlen fails.                               *)
NameAborts(i) ==
    /\ AtMember(i)
    /\ \/ /\ Entry[i].kind = "#1/n" /\ Short(Body, NameSize(i))
          /\ Short(Body, NameRoom)
       \/ Entry[i].kind = "/n" /\ nameTab /\ Entry[i].nameSize >= NameRoom
    /\ Stop("abort")

(* fread puts a name in front of the body into fileName whatever its size:    *)
(* over what lies behind it on the stack, or, with 64 bytes and none of them  *)
(* zero, up to its last byte, so that strlen runs on.                         *)
NameOverflows(i) ==
    /\ AtMember(i) /\ Entry[i].kind = "#1/n"
    /\ Entry[i].nameSize >= NameRoom /\ ~Short(Body, NameRoom)
    /\ Stop("overflow")

(* A name of 64 bytes in front of the body may be padded with zeros.          *)
Named(i) ==
    /\ AtMember(i) /\ ~Table(i)
    /\ Entry[i].kind = "/n" => nameTab /\ Entry[i].nameSize < NameRoom
    /\ NameSize(i) <= NameRoom /\ ~Short(Body, NameSize(i))

(* Mutant: the name is not taken off the member's size.                       *)
MemberSizeWhole(i) == Entry[i].size

MemberSize(i) == Entry[i].size - NameSize(i)
Contents(i)   == Body + NameSize(i)

(* Mutant: objects are put in front.                                          *)
ReadObjectInFront(i) ==
    /\ Named(i) /\ Entry[i].object /\ ~Short(Contents(i), MemberSize(i))
    /\ pos' = Contents(i) + MemberSize(i)
    /\ objects' = <<i>> \o objects
    /\ UNCHANGED <<file, len, eof, symTab, nameTab, status>>

ReadObject(i) ==
    /\ Named(i) /\ Entry[i].object /\ ~Short(Contents(i), MemberSize(i))
    /\ pos' = Contents(i) + MemberSize(i)
    /\ objects' = Append(objects, i)
    /\ UNCHANGED <<file, len, eof, symTab, nameTab, status>>

ObjectAborts(i) ==
    /\ Named(i) /\ Entry[i].object /\ Short(Contents(i), MemberSize(i))
    /\ Stop("abort")

(* Mutant: the seek starts from the beginning of the file.                    *)
SkipOtherFromStart(i) ==
    /\ Named(i) /\ ~Entry[i].object
    /\ pos' = MagicSize
    /\ UNCHANGED <<file, len, eof, symTab, nameTab, objects, status>>

(* fseek does not look whether the file is that long.                         *)
SkipOther(i) ==
    /\ Named(i) /\ ~Entry[i].object
    /\ pos' = Contents(i) + MemberSize(i)
    /\ UNCHANGED <<file, len, eof, symTab, nameTab, objects, status>>

Next ==
    \/ ReadMagic \/ NotAnArchive \/ EndOfFile \/ NoHeader \/ BadMagic
    \/ \E i \in DOMAIN Entry :
           \/ ReadTable(i) \/ TableAborts(i)
           \/ NameFaults(i) \/ NameAborts(i) \/ NameOverflows(i)
           \/ ReadObject(i) \/ ObjectAborts(i) \/ SkipOther(i)

(* One call, run by the thread that made it.                                  *)
Spec == Init /\ [][Next]_vars /\ WF_vars(Next)

------------------------------------------------------------------------------
Fails == {"abort", "fault", "overflow"}
Ended == status = "done" \/ status \in Fails

(* The reader's variables keep their types, and it never reads or seeks past  *)
(* where the whole archive ends.                                              *)
TypeOK ==
    /\ file \in Files /\ len \in 0..End(Entry)
    /\ pos \in 0..End(Entry)
    /\ eof \in BOOLEAN /\ symTab \in BOOLEAN /\ nameTab \in BOOLEAN
    /\ objects \in Seq(DOMAIN Entry)
    /\ status \in {"start", "loop", "done"} \cup Fails

BodyEnd(i) == HeaderPos(Entry)[i] + HeaderSize + Entry[i].size

(* The objects the file holds completely.                                     *)
Whole(i) == ~Table(i) /\ Entry[i].object /\ BodyEnd(i) <= len

(* When read_archive returns, the list has every object the file holds, once, *)
(* in the file's order, and no piece of one that is cut off. The walk over an *)
(* archive's objects, and which of two definitions comes first, rely on it.   *)
Found == {objects[k] : k \in DOMAIN objects}
InOrder == \A j, k \in DOMAIN objects : j < k => objects[j] < objects[k]
Complete ==
    status = "done" => Found = {i \in DOMAIN Entry : Whole(i)} /\ InOrder

(* A call fails only for something in the file: it is no archive; a table     *)
(* appears twice; what is being read is cut off; a long name comes before the *)
(* table, or has 64 bytes or more; or a member before this one has an odd     *)
(* size, whose padding is read as the start of the next header. What is on    *)
(* the stack is overwritten only by a name in front of its body, never by one *)
(* of the table.                                                              *)
Cut(i) == BodyEnd(i) > len
Overlong(i) == Entry[i].kind \in {"/n", "#1/n"} /\ Entry[i].nameSize >= NameRoom
Unreadable(i) ==
    \/ Cut(i) \/ Overlong(i)
    \/ Entry[i].kind = "/n" /\ ~nameTab
    \/ Table(i) /\ \E k \in 1..(i - 1) : Entry[k].kind = Entry[i].kind
FailsOnlyForCause ==
    /\ status \in Fails =>
           \/ ~file.arch \/ len < MagicSize
           \/ \E i \in DOMAIN Entry : HeaderPos(Entry)[i] = pos /\ Unreadable(i)
           \/ \E i \in DOMAIN Entry : Entry[i].size % 2 = 1 /\ BodyEnd(i) = pos
    /\ status = "overflow" =>
           \E i \in DOMAIN Entry : /\ HeaderPos(Entry)[i] = pos
                                   /\ Entry[i].kind = "#1/n" /\ Overlong(i)

(* An archive as ar writes it, with the tables in front, no odd member before *)
(* the last and no name of 64 bytes or more, is read to its end, also when    *)
(* nothing follows the padding of an odd last member.                         *)
WellFormed ==
    /\ file.arch /\ len = End(Entry)
    /\ \A i \in DOMAIN Entry :
           /\ i < Len(Entry) => Entry[i].size % 2 = 0
           /\ Table(i) => i = (IF Entry[i].kind = "//" /\ Entry[1].kind = "/" THEN 2 ELSE 1)
           /\ Entry[i].kind = "/n" => "//" \in {Entry[k].kind : k \in 1..i}
           /\ ~Overlong(i)
WellFormedLoads == WellFormed ~> status = "done"

(* Every call returns or ends the process, unless a name overwrites its stack.*)
Returns == <>Ended
=============================================================================
