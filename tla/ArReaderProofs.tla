--------------------------- MODULE ArReaderProofs ---------------------------
(* Proofs about the archive reader.                                           *)
EXTENDS ArReader, Arithmetic

------------------------------------------------------------------------------
(* The inductive invariant of read_archive: between two rounds of the loop the*)
(* stream is at the next header, or at the padding in front of it, and every  *)
(* object before it is on the list, completely read; at the end of the file   *)
(* there is no header left.                                                   *)
NextHeader(i) ==
    \/ pos = HeaderPos(Entry)[i]
    \/ i > 1 /\ Entry[i - 1].size % 2 = 1 /\ pos = BodyEnd(i - 1)

ReadUpTo(i) ==
    /\ Found = {k \in 1..(i - 1) : Entry[k].object /\ ~Table(k)}
    /\ \A k \in Found : Whole(k)
    /\ symTab <=> \E k \in 1..(i - 1) : Entry[k].kind = "/"
    /\ nameTab <=> \E k \in 1..(i - 1) : Entry[k].kind = "//"

ReaderInv ==
    /\ status = "start" => ~eof /\ objects = << >> /\ ~symTab /\ ~nameTab
    /\ status \in {"loop", "done"} =>
           \E i \in 1..(Len(Entry) + 1) : NextHeader(i) /\ ReadUpTo(i)
    /\ eof \/ status = "done" => Short(pos, HeaderSize)
    /\ InOrder


------------------------------------------------------------------------------
(* Where the headers are.                                                     *)

HeaderAfter(at, ms, i) ==
    IF i = 1 THEN MagicSize ELSE at[i - 1] + Span(ms[i - 1])

(* The recursion of HeaderPos is well-founded: a function exists that         *)
(* satisfies it.                                                              *)
LEMMA PositionsExist ==
    ASSUME NEW ms, NEW n \in Nat
    PROVE  \E at : at = [i \in 1..n |-> HeaderAfter(at, ms, i)]
  <1> DEFINE Good(m) == \E at : at = [i \in 1..m |-> HeaderAfter(at, ms, i)]
             Bad     == {m \in Nat : ~Good(m)}
  <1>1. Good(0)
    <2>1. << >> = [i \in 1..0 |-> HeaderAfter(<< >>, ms, i)]
      OBVIOUS
    <2> QED
      BY <2>1
  <1>2. ASSUME NEW m \in Nat, Good(m) PROVE Good(m + 1)
    <2>1. PICK at : at = [i \in 1..m |-> HeaderAfter(at, ms, i)]
      BY <1>2
    <2> DEFINE next == [i \in 1..(m + 1) |-> IF i = m + 1 THEN HeaderAfter(at, ms, i) ELSE at[i]]
    <2>2. ASSUME NEW i \in 1..(m + 1) PROVE next[i] = HeaderAfter(next, ms, i)
      <3>1. i # 1 => i - 1 \in 1..m /\ next[i - 1] = at[i - 1]
        OBVIOUS
      <3>2. HeaderAfter(next, ms, i) = HeaderAfter(at, ms, i)
        BY <3>1 DEF HeaderAfter
      <3>3. i # m + 1 => at[i] = HeaderAfter(at, ms, i)
        BY <2>1
      <3> QED
        BY <3>2, <3>3
    <2> HIDE DEF next
    <2>3. next = [i \in 1..(m + 1) |-> HeaderAfter(next, ms, i)]
      BY <2>2 DEF next
    <2> QED
      BY <2>3
  <1>3. Bad = {}
    <2> SUFFICES ASSUME Bad # {} PROVE FALSE
      OBVIOUS
    <2>1. PICK m \in Bad : \A k \in Bad : m <= k
      BY LeastNumber
    <2> HIDE DEF Good
    <2>2. m \in Nat /\ m # 0 /\ m - 1 \notin Bad /\ m - 1 \in Nat
      BY <1>1, <2>1
    <2>3. Good(m - 1) /\ m - 1 + 1 = m
      BY <2>2
    <2> QED
      BY <1>2, <2>1, <2>2, <2>3
  <1> QED
    BY <1>3

IsHeaderPos(at, ms) ==
    at = [i \in 1..Len(ms) + 1 |-> HeaderAfter(at, ms, i)]

LEMMA Positions ==
    ASSUME NEW ms \in Seq(Member)
    PROVE  IsHeaderPos(HeaderPos(ms), ms)
  <1>1. PICK n \in Nat : n = Len(ms) + 1
    OBVIOUS
  <1>2. PICK at : at = [i \in 1..n |-> HeaderAfter(at, ms, i)]
    BY PositionsExist
  <1>4. IsHeaderPos(at, ms)
    BY <1>1, <1>2 DEF IsHeaderPos
  <1>5. HeaderPos(ms) = CHOOSE f : IsHeaderPos(f, ms)
    BY Zenon DEF HeaderPos, IsHeaderPos, HeaderAfter
  <1> QED
    BY <1>4, <1>5, Zenon

LEMMA MemberSizes ==
    ASSUME NEW ms \in Seq(Member), NEW i \in DOMAIN ms
    PROVE  /\ ms[i].size \in Nat /\ ms[i].nameSize \in Nat
           /\ Span(ms[i]) \in Nat
           /\ Span(ms[i]) = HeaderSize + ms[i].size + (IF ms[i].size % 2 = 1 THEN 1 ELSE 0)
  <1>1. ms[i] \in Member
    OBVIOUS
  <1>2. ms[i].size \in Nat /\ ms[i].nameSize \in Nat
    BY <1>1 DEF Member
  <1>3. ASSUME NEW x \in Nat PROVE x % 2 = (IF x % 2 = 1 THEN 1 ELSE 0)
    OBVIOUS
  <1>4. Span(ms[i]) = HeaderSize + ms[i].size + (IF ms[i].size % 2 = 1 THEN 1 ELSE 0)
    BY <1>2, <1>3 DEF Span
  <1> QED
    BY <1>2, <1>4 DEF HeaderSize

LEMMA HeadersFollow ==
    ASSUME NEW ms \in Seq(Member)
    PROVE  /\ HeaderPos(ms) \in [1..Len(ms) + 1 -> Nat] /\ HeaderPos(ms)[1] = MagicSize
           /\ \A i \in DOMAIN ms :
                  HeaderPos(ms)[i + 1] = HeaderPos(ms)[i] + Span(ms[i])
  <1> DEFINE H == HeaderPos(ms)
  <1>1. H = [i \in 1..Len(ms) + 1 |-> HeaderAfter(H, ms, i)]
    BY Positions DEF IsHeaderPos
  <1> HIDE DEF H
  <1>2. H[1] = MagicSize
    BY <1>1 DEF HeaderAfter
  <1>3. ASSUME NEW i \in DOMAIN ms
        PROVE  H[i + 1] = H[i] + Span(ms[i])
    <2>1. i \in Nat /\ i + 1 \in 1..Len(ms) + 1 /\ i + 1 # 1 /\ i + 1 - 1 = i
      OBVIOUS
    <2> QED
      BY <1>1, <2>1 DEF HeaderAfter
  <1>4. \A i \in 1..Len(ms) + 1 : H[i] \in Nat
    <2> DEFINE Bad == {i \in 1..Len(ms) + 1 : H[i] \notin Nat}
    <2> SUFFICES ASSUME Bad # {} PROVE FALSE
      OBVIOUS
    <2>1. Bad \subseteq Nat
      OBVIOUS
    <2>2. PICK i \in Bad : \A k \in Bad : i <= k
      BY <2>1, LeastNumber
    <2>3. i # 1
      BY <1>2, <2>2 DEF MagicSize
    <2>4. i - 1 \in DOMAIN ms /\ i - 1 \in 1..Len(ms) + 1 /\ i - 1 + 1 = i
      BY <2>2, <2>3
    <2>5. H[i - 1] \in Nat
      BY <2>2, <2>4
    <2>6. Span(ms[i - 1]) \in Nat 
      BY <2>4, MemberSizes
    <2>7. H[i] = H[i - 1] + Span(ms[i - 1])
      BY <1>3, <2>4
    <2>8. H[i] \in Nat
      BY <2>5, <2>6, <2>7 DEF HeaderSize
    <2> QED
      BY <2>2, <2>8
  <1>5. H \in [1..Len(ms) + 1 -> Nat]
    BY <1>1, <1>4
  <1> QED
    BY <1>2, <1>3, <1>5 DEF H

LEMMA EndType ==
    ASSUME NEW ms \in Seq(Member)
    PROVE  End(ms) \in Nat
  <1>1. HeaderPos(ms) \in [1..Len(ms) + 1 -> Nat] /\ Len(ms) + 1 \in 1..Len(ms) + 1
    BY HeadersFollow
  <1> QED
    BY <1>1 DEF End

(* A member lies in front of every later header.                              *)
LEMMA HeadersInOrder ==
    ASSUME NEW ms \in Seq(Member), NEW j \in DOMAIN ms, NEW i \in (j + 1)..(Len(ms) + 1)
    PROVE  HeaderPos(ms)[j] + Span(ms[j]) <= HeaderPos(ms)[i]
  <1> DEFINE H == HeaderPos(ms)
             e == H[j] + Span(ms[j])
             Bad == {k \in (j + 1)..(Len(ms) + 1) : ~(e <= H[k])}
  <1>1. /\ H \in [1..Len(ms) + 1 -> Nat]
        /\ \A k \in DOMAIN ms : H[k + 1] = H[k] + Span(ms[k])
    BY HeadersFollow
  <1>2. e \in Nat /\ H[j + 1] = e
    <2>1. Span(ms[j]) \in Nat /\ H[j] \in Nat
      BY <1>1, MemberSizes
    <2> QED
      BY <1>1, <2>1 DEF HeaderSize
  <1> HIDE DEF H, e
  <1> SUFFICES ASSUME Bad # {} PROVE FALSE
    BY DEF H, e
  <1>3. PICK k \in Bad : \A l \in Bad : k <= l
    <2>1. Bad \subseteq Nat
      OBVIOUS
    <2> QED
      BY <2>1, LeastNumber
  <1>4. k # j + 1
    BY <1>2, <1>3
  <1>5. k - 1 \in DOMAIN ms /\ k - 1 \in (j + 1)..(Len(ms) + 1) /\ k - 1 + 1 = k /\ ~(k <= k - 1)
    BY <1>3, <1>4
  <1>6. /\ e <= H[k - 1] /\ H[k - 1] \in Nat
        /\ Span(ms[k - 1]) \in Nat
    BY <1>1, <1>3, <1>5, MemberSizes
  <1>7. H[k] = H[k - 1] + Span(ms[k - 1])
    BY <1>1, <1>5
  <1>8. e <= H[k]
    BY <1>2, <1>6, <1>7 DEF HeaderSize
  <1> QED
    BY <1>3, <1>8

------------------------------------------------------------------------------
(* Types.                                                                     *)

LEMMA EntryType ==
    ASSUME TypeOK
    PROVE  /\ Entry \in Seq(Member)
           /\ \A i \in DOMAIN Entry : Entry[i].kind = "#1/n" => Entry[i].nameSize <= Entry[i].size
  BY Archives DEF TypeOK, Entry

(* Where a member lies in its archive.                                        *)
LEMMA MemberPlace ==
    ASSUME TypeOK, NEW i \in DOMAIN Entry
    PROVE  /\ HeaderPos(Entry)[i] \in Nat /\ HeaderPos(Entry)[i] >= MagicSize
           /\ BodyEnd(i) \in Nat /\ BodyEnd(i) >= HeaderPos(Entry)[i] + HeaderSize
           /\ HeaderPos(Entry)[i + 1] = BodyEnd(i) + (IF Entry[i].size % 2 = 1 THEN 1 ELSE 0)
           /\ HeaderPos(Entry)[i + 1] <= End(Entry)
  <1> DEFINE H == HeaderPos(Entry)
  <1>1. Entry \in Seq(Member)
    BY EntryType
  <1>2. /\ H \in [1..Len(Entry) + 1 -> Nat] /\ H[1] = MagicSize
        /\ \A k \in DOMAIN Entry : H[k + 1] = H[k] + Span(Entry[k])
    BY <1>1, HeadersFollow
  <1>3. Entry[i].size \in Nat /\ Span(Entry[i]) \in Nat
        /\ Span(Entry[i]) = HeaderSize + Entry[i].size + (IF Entry[i].size % 2 = 1 THEN 1 ELSE 0)
    BY <1>1, MemberSizes
  <1>4. H[i] \in Nat /\ H[i + 1] = H[i] + Span(Entry[i])
    BY <1>1, <1>2
  <1>5. BodyEnd(i) = H[i] + HeaderSize + Entry[i].size
    BY DEF BodyEnd
  <1>6. H[i] >= MagicSize
    <2>1. CASE i = 1
      BY <1>2, <2>1 DEF MagicSize
    <2>2. CASE i # 1
      <3>1. 1 \in DOMAIN Entry /\ i \in (1 + 1)..(Len(Entry) + 1)
        BY <1>1, <2>2
      <3>2. H[1] + Span(Entry[1]) <= H[i] /\ Span(Entry[1]) \in Nat
        BY <1>1, <3>1, HeadersInOrder, MemberSizes
      <3> QED
        BY <1>2, <1>4, <3>2 DEF MagicSize
    <2> QED
      BY <2>1, <2>2
  <1>7. H[i + 1] <= End(Entry)
    <2>1. Len(Entry) + 1 \in (i + 1)..(Len(Entry) + 1)
      BY <1>1
    <2> QED
      BY <1>1, <1>4, <2>1, HeadersInOrder DEF End
  <1> HIDE DEF H
  <1>8. BodyEnd(i) \in Nat /\ BodyEnd(i) >= H[i] + HeaderSize
    BY <1>3, <1>4, <1>5 DEF HeaderSize
  <1>9. H[i + 1] = BodyEnd(i) + (IF Entry[i].size % 2 = 1 THEN 1 ELSE 0)
    BY <1>3, <1>4, <1>5 DEF HeaderSize
  <1> QED
    BY <1>4, <1>6, <1>7, <1>8, <1>9 DEF H

(* Every round that goes on ends behind the body of the member it read.       *)
GoesOn(i) == ReadTable(i) \/ ReadObject(i) \/ SkipOther(i)

LEMMA RoundEnds ==
    ASSUME TypeOK, NEW i \in DOMAIN Entry, GoesOn(i)
    PROVE  /\ status = "loop" /\ ~eof /\ pos = HeaderPos(Entry)[i] /\ pos' = BodyEnd(i)
           /\ UNCHANGED <<file, len, eof, status>>
  <1>1. status = "loop" /\ ~eof /\ pos = HeaderPos(Entry)[i] /\ UNCHANGED <<file, len, eof, status>>
    BY DEF GoesOn, ReadTable, ReadObject, SkipOther, Named, AtMember, Reading, HeaderHere
  <1>2. /\ pos \in Nat /\ Entry[i].size \in Nat /\ Entry[i].nameSize \in Nat
        /\ NameSize(i) \in Nat
    <2>1. Entry[i].size \in Nat /\ Entry[i].nameSize \in Nat
      BY EntryType, MemberSizes
    <2> QED
      BY <1>1, <2>1, MemberPlace DEF NameSize
  <1>3. pos' = pos + HeaderSize + Entry[i].size
    <2>1. CASE ReadTable(i)
      BY <2>1 DEF ReadTable, Body
    <2>2. CASE pos' = Contents(i) + MemberSize(i)
      BY <1>2, <2>2 DEF Contents, MemberSize, Body, HeaderSize
    <2> QED
      BY <2>1, <2>2 DEF GoesOn, ReadObject, SkipOther
  <1> QED
    BY <1>1, <1>3 DEF BodyEnd

LEMMA NextTypeOK == TypeOK /\ [Next]_vars => TypeOK'
  <1> SUFFICES ASSUME TypeOK, [Next]_vars PROVE TypeOK'
    OBVIOUS
  <1>1. CASE ReadMagic
    <2>1. MagicSize \in 0..End(Entry)
      <3>1. Entry \in Seq(Member)
        BY EntryType
      <3>2. HeaderPos(Entry)[1] = MagicSize /\ HeaderPos(Entry) \in [1..Len(Entry) + 1 -> Nat]
        BY <3>1, HeadersFollow
      <3>3. CASE Entry = << >>
        BY <3>2, <3>3 DEF End, MagicSize
      <3>4. CASE Entry # << >>
        <4>1. Len(Entry) \in DOMAIN Entry
          BY <3>1, <3>4
        <4>2. HeaderPos(Entry)[Len(Entry)] >= MagicSize
              /\ BodyEnd(Len(Entry)) >= HeaderPos(Entry)[Len(Entry)] + HeaderSize
              /\ HeaderPos(Entry)[Len(Entry)] \in Nat /\ BodyEnd(Len(Entry)) \in Nat
              /\ End(Entry) >= BodyEnd(Len(Entry)) /\ End(Entry) \in Nat
          BY <3>1, <3>2, <4>1, MemberPlace DEF End
        <4> QED
          BY <4>2 DEF MagicSize, HeaderSize
      <3> QED
        BY <3>3, <3>4
    <2> QED
      BY <1>1, <2>1 DEF ReadMagic, TypeOK, Entry
  <1>2. ASSUME NEW i \in DOMAIN Entry, GoesOn(i) PROVE TypeOK'
    <2>1. pos' = BodyEnd(i) /\ UNCHANGED <<file, len, eof, status>>
      BY <1>2, RoundEnds
    <2>2. BodyEnd(i) \in 0..End(Entry)
      <3>1. BodyEnd(i) \in Nat
            /\ HeaderPos(Entry)[i + 1] = BodyEnd(i) + (IF Entry[i].size % 2 = 1 THEN 1 ELSE 0)
            /\ HeaderPos(Entry)[i + 1] <= End(Entry)
        BY MemberPlace
      <3>2. End(Entry) \in Nat
        BY EntryType, EndType
      <3> QED
        BY <3>1, <3>2
    <2>3. symTab' \in BOOLEAN /\ nameTab' \in BOOLEAN
      BY <1>2 DEF GoesOn, ReadTable, ReadObject, SkipOther, TypeOK
    <2>4. objects' \in Seq(DOMAIN Entry)
      BY <1>2 DEF GoesOn, ReadTable, ReadObject, SkipOther, TypeOK
    <2> QED
      BY <2>1, <2>2, <2>3, <2>4 DEF TypeOK, Entry
  <1>3. ASSUME NEW how \in {"done"} \cup Fails, Stop(how) PROVE TypeOK'
    BY <1>3 DEF Stop, TypeOK, Entry
  <1>4. CASE NoHeader \/ UNCHANGED vars
    BY <1>4 DEF NoHeader, vars, TypeOK, Entry
  <1> QED
    BY <1>1, <1>2, <1>3, <1>4 DEF Fails, Next, GoesOn, NotAnArchive, EndOfFile, BadMagic, TableAborts,
       NameFaults, NameAborts, NameOverflows, ObjectAborts

(* The reader's variables keep their types, and the stream stays inside the   *)
(* archive, whatever its members are and wherever it is cut off.              *)
THEOREM TypeCorrect == Spec => []TypeOK
  <1>1. Init => TypeOK
    <2> SUFFICES ASSUME Init PROVE TypeOK
      OBVIOUS
    <2>1. End(Entry) \in Nat
      <3>1. Entry \in Seq(Member)
        BY Archives DEF Init, Entry
      <3> QED
        BY <3>1, EndType
    <2>2. pos \in 0..End(Entry) /\ len \in 0..End(Entry)
      BY <2>1 DEF Init, Entry
    <2>3. objects \in Seq(DOMAIN Entry)
      BY DEF Init
    <2> QED
      BY <2>2, <2>3 DEF Init, TypeOK
  <1> QED
    BY <1>1, NextTypeOK, PTL DEF Spec

------------------------------------------------------------------------------
(* Which member is next.                                                      *)

(* A header that is read is that of the next member: the padding before it,   *)
(* and the bytes behind the last member, are no header.                       *)
LEMMA HeaderIsNext ==
    ASSUME TypeOK, NEW j \in 1..(Len(Entry) + 1), NextHeader(j),
           NEW i \in DOMAIN Entry, pos = HeaderPos(Entry)[i]
    PROVE  i = j
  <1>1. Entry \in Seq(Member)
    BY EntryType
  <1>2. /\ i \in Nat /\ j \in Nat /\ i <= Len(Entry) /\ Len(Entry) \in Nat
    BY <1>1
  <1>3. /\ HeaderPos(Entry)[i] \in Nat
        /\ HeaderPos(Entry)[i] + HeaderSize <= BodyEnd(i) /\ BodyEnd(i) \in Nat
    BY MemberPlace
  <1>4. ASSUME i < j PROVE FALSE
    <2>1. BodyEnd(i) <= pos
      <3>1. CASE pos = HeaderPos(Entry)[j]
        <4>1. HeaderPos(Entry)[i] + Span(Entry[i]) <= HeaderPos(Entry)[j]
          BY <1>1, <1>2, <1>4, HeadersInOrder
        <4>2. Span(Entry[i]) \in Nat /\ Entry[i].size \in Nat
              /\ Span(Entry[i]) = HeaderSize + Entry[i].size + (IF Entry[i].size % 2 = 1 THEN 1 ELSE 0)
          BY <1>1, MemberSizes
        <4>3. HeaderPos(Entry)[j] \in Nat
          BY <1>1, HeadersFollow
        <4> QED
          BY <1>3, <3>1, <4>1, <4>2, <4>3 DEF BodyEnd, HeaderSize
      <3>2. CASE j > 1 /\ pos = BodyEnd(j - 1)
        <4>1. j - 1 \in DOMAIN Entry
          BY <1>1, <3>2
        <4>2. HeaderPos(Entry)[j - 1] + HeaderSize <= BodyEnd(j - 1)
              /\ HeaderPos(Entry)[j - 1] \in Nat /\ BodyEnd(j - 1) \in Nat
          BY <4>1, MemberPlace
        <4>3. CASE i = j - 1
          BY <1>3, <3>2, <4>3
        <4>4. CASE i < j - 1
          <5>1. j - 1 \in (i + 1)..(Len(Entry) + 1)
            BY <1>2, <4>1, <4>4
          <5>2. HeaderPos(Entry)[i] + Span(Entry[i]) <= HeaderPos(Entry)[j - 1]
            BY <1>1, <5>1, HeadersInOrder
          <5>3. Span(Entry[i]) \in Nat
            BY <1>1, MemberSizes
          <5> QED
            BY <1>3, <3>2, <4>2, <5>2, <5>3 DEF HeaderSize
        <4> QED
          BY <1>2, <1>4, <4>3, <4>4
      <3> QED
        BY <3>1, <3>2 DEF NextHeader
    <2> QED
      BY <1>3, <2>1 DEF HeaderSize
  <1>5. ASSUME j < i PROVE FALSE
    <2>1. j \in DOMAIN Entry /\ i \in (j + 1)..(Len(Entry) + 1)
      BY <1>1, <1>2, <1>5
    <2>2. /\ HeaderPos(Entry)[j] + Span(Entry[j]) <= HeaderPos(Entry)[i]
          /\ Span(Entry[j]) \in Nat /\ Span(Entry[j]) > 1
      <3>1. Span(Entry[j]) = HeaderSize + Entry[j].size + (IF Entry[j].size % 2 = 1 THEN 1 ELSE 0)
            /\ Entry[j].size \in Nat
        BY <1>1, <2>1, MemberSizes
      <3>2. Span(Entry[j]) \in Nat
        BY <1>1, <2>1, MemberSizes
      <3>3. Span(Entry[j]) > 1
        BY <3>1, <3>2 DEF HeaderSize
      <3>4. HeaderPos(Entry)[j] + Span(Entry[j]) <= HeaderPos(Entry)[i]
        BY <1>1, <2>1, HeadersInOrder
      <3> QED
        BY <3>2, <3>3, <3>4
    <2>3. HeaderPos(Entry)[j] \in Nat
      BY <2>1, MemberPlace
    <2>4. pos <= HeaderPos(Entry)[j]
      <3>1. CASE pos = HeaderPos(Entry)[j]
        BY <2>3, <3>1
      <3>2. CASE j > 1 /\ pos = BodyEnd(j - 1)
        <4>1. j - 1 \in DOMAIN Entry /\ j - 1 + 1 = j
          BY <1>1, <1>2, <3>2
        <4>2. HeaderPos(Entry)[j] = BodyEnd(j - 1) + (IF Entry[j - 1].size % 2 = 1 THEN 1 ELSE 0)
              /\ BodyEnd(j - 1) \in Nat
          BY <4>1, MemberPlace
        <4> QED
          BY <3>2, <4>2
      <3> QED
        BY <3>1, <3>2 DEF NextHeader
    <2> QED
      BY <1>3, <2>2, <2>3, <2>4
  <1> QED
    BY <1>2, <1>4, <1>5

(* Behind a body is the next header, or one byte of padding.                  *)
LEMMA NextHeaderAfter ==
    ASSUME TypeOK, NEW i \in DOMAIN Entry, GoesOn(i)
    PROVE  NextHeader(i + 1)'
  <1>1. pos' = BodyEnd(i) /\ file' = file
    BY RoundEnds
  <1>2. /\ HeaderPos(Entry)[i + 1] = BodyEnd(i) + (IF Entry[i].size % 2 = 1 THEN 1 ELSE 0)
        /\ BodyEnd(i) \in Nat
    BY MemberPlace
  <1>3. i \in Nat /\ i + 1 > 1 /\ i + 1 - 1 = i
    BY EntryType
  <1>4. Entry' = Entry /\ BodyEnd(i)' = BodyEnd(i)
    BY <1>1 DEF Entry, BodyEnd
  <1>5. CASE Entry[i].size % 2 = 1
    BY <1>1, <1>3, <1>4, <1>5 DEF NextHeader
  <1>6. CASE Entry[i].size % 2 # 1
    BY <1>1, <1>2, <1>4, <1>6 DEF NextHeader
  <1> QED
    BY <1>5, <1>6

(* The list grows by the object just read, if it is one.                      *)
LEMMA ReadOneMore ==
    ASSUME TypeOK, InOrder, NEW i \in DOMAIN Entry, ReadUpTo(i), GoesOn(i),
           NEW n, n = i + 1
    PROVE  ReadUpTo(n)' /\ InOrder'
  <1>1. /\ status = "loop" /\ ~eof /\ pos = HeaderPos(Entry)[i] /\ pos' = BodyEnd(i)
        /\ UNCHANGED <<file, len, eof, status>>
    BY RoundEnds
  <1>2. /\ Entry' = Entry
        /\ \A k : BodyEnd(k)' = BodyEnd(k) /\ Table(k)' = Table(k) /\ Whole(k)' = Whole(k)
    BY <1>1 DEF Entry, BodyEnd, Table, Whole
  <1>3. i \in Nat /\ n - 1 = i /\ i \in 1..(n - 1)
        /\ \A k : k \in 1..(n - 1) <=> k \in 1..(i - 1) \/ k = i
    BY EntryType
  <1>4. CASE ReadObject(i)
    <2>1. /\ objects' = Append(objects, i) /\ ~Table(i) /\ Entry[i].object
          /\ symTab' = symTab /\ nameTab' = nameTab
      BY <1>4 DEF ReadObject, Named
    <2>2. objects \in Seq(DOMAIN Entry)
      BY DEF TypeOK
    <2>3. Whole(i)
      <3>1. ~Short(Contents(i), MemberSize(i)) /\ pos' = Contents(i) + MemberSize(i)
        BY <1>4 DEF ReadObject
      <3>2. ~(BodyEnd(i) > len)
        BY <1>1, <3>1 DEF Short
      <3>3. BodyEnd(i) \in Nat /\ End(Entry) \in Nat
        BY EntryType, EndType, MemberPlace
      <3>4. len \in Nat
        BY <3>3 DEF TypeOK
      <3> QED
        BY <2>1, <3>2, <3>3, <3>4 DEF Whole
    <2>4. /\ DOMAIN objects = 1..Len(objects) /\ Len(objects) \in Nat
          /\ DOMAIN objects' = 1..(Len(objects) + 1)
          /\ objects'[Len(objects) + 1] = i
          /\ \A k \in 1..Len(objects) : objects'[k] = objects[k]
      BY <2>1, <2>2
    <2>5. Found' = Found \cup {i}
      BY <2>4 DEF Found
    <2>6. \A k \in Found : k \in 1..(i - 1)
      BY DEF ReadUpTo
    <2>7. InOrder'
      <3>1. ASSUME NEW j \in DOMAIN objects', NEW k \in DOMAIN objects', j < k
            PROVE  objects'[j] < objects'[k]
        <4>1. j \in 1..Len(objects) /\ objects'[j] = objects[j]
          BY <2>4, <3>1
        <4>2. CASE k = Len(objects) + 1
          <5>1. objects[j] \in Found
            BY <2>4, <4>1 DEF Found
          <5> QED
            BY <1>3, <2>4, <2>6, <4>1, <4>2, <5>1
        <4>3. CASE k # Len(objects) + 1
          BY <2>4, <3>1, <4>1, <4>3 DEF InOrder
        <4> QED
          BY <4>2, <4>3
      <3> QED
        BY <3>1 DEF InOrder
    <2>8. Found' = {k \in 1..(n - 1) : Entry[k].object /\ ~Table(k)}
      BY <1>3, <2>1, <2>5 DEF ReadUpTo
    <2>9. \A k \in Found' : Whole(k)
      BY <2>3, <2>5 DEF ReadUpTo
    <2>10. symTab' <=> \E k \in 1..(n - 1) : Entry[k].kind = "/"
      BY <1>3, <2>1 DEF ReadUpTo, Table
    <2>11. nameTab' <=> \E k \in 1..(n - 1) : Entry[k].kind = "//"
      BY <1>3, <2>1 DEF ReadUpTo, Table
    <2>12. /\ (Found = {k \in 1..(n - 1) : Entry[k].object /\ ~Table(k)})'
           /\ (\A k \in Found : Whole(k))'
      BY <1>2, <2>8, <2>9
    <2>13. /\ (symTab <=> \E k \in 1..(n - 1) : Entry[k].kind = "/")'
           /\ (nameTab <=> \E k \in 1..(n - 1) : Entry[k].kind = "//")'
      BY <1>2, <2>10, <2>11
    <2>14. ReadUpTo(n)'
      BY <2>12, <2>13 DEF ReadUpTo
    <2> QED
      BY <2>7, <2>14
  <1>5. CASE ReadTable(i) \/ SkipOther(i)
    <2>1. objects' = objects /\ (Table(i) \/ ~Entry[i].object)
      BY <1>5 DEF ReadTable, SkipOther, AtMember
    <2>2. Found' = Found /\ InOrder'
      BY <2>1 DEF Found, InOrder
    <2>3. Found' = {k \in 1..(n - 1) : Entry[k].object /\ ~Table(k)}
      BY <1>3, <2>1, <2>2 DEF ReadUpTo
    <2>4. symTab' <=> symTab \/ Entry[i].kind = "/"
      BY <1>5 DEF ReadTable, SkipOther, Named, Table
    <2>5. nameTab' <=> nameTab \/ Entry[i].kind = "//"
      BY <1>5 DEF ReadTable, SkipOther, Named, Table
    <2>6. symTab' <=> \E k \in 1..(n - 1) : Entry[k].kind = "/"
      BY <1>3, <2>4 DEF ReadUpTo
    <2>7. nameTab' <=> \E k \in 1..(n - 1) : Entry[k].kind = "//"
      BY <1>3, <2>5 DEF ReadUpTo
    <2>8. /\ (Found = {k \in 1..(n - 1) : Entry[k].object /\ ~Table(k)})'
          /\ (\A k \in Found : Whole(k))'
      BY <1>2, <2>2, <2>3 DEF ReadUpTo
    <2>9. /\ (symTab <=> \E k \in 1..(n - 1) : Entry[k].kind = "/")'
          /\ (nameTab <=> \E k \in 1..(n - 1) : Entry[k].kind = "//")'
      BY <1>2, <2>6, <2>7
    <2> QED
      BY <2>2, <2>8, <2>9 DEF ReadUpTo
  <1> QED
    BY <1>4, <1>5 DEF GoesOn

(* Only the end of the file and the members read are looked at by the         *)
(* invariant: a step that leaves them alone keeps it.                         *)
LEMMA SameProgress ==
    ASSUME UNCHANGED <<file, len, pos, symTab, nameTab, objects>>
    PROVE  /\ Entry' = Entry /\ InOrder' = InOrder
           /\ \A i : NextHeader(i)' = NextHeader(i) /\ ReadUpTo(i)' = ReadUpTo(i)
  <1>1. Entry' = Entry /\ Found' = Found /\ InOrder' = InOrder
    BY DEF Entry, Found, InOrder
  <1>2. \A k : BodyEnd(k)' = BodyEnd(k) /\ Table(k)' = Table(k) /\ Whole(k)' = Whole(k)
    BY <1>1 DEF BodyEnd, Table, Whole
  <1>3. \A i : NextHeader(i)' = NextHeader(i)
    BY <1>1, <1>2 DEF NextHeader
  <1>4. ASSUME NEW i PROVE ReadUpTo(i)' = ReadUpTo(i)
    BY <1>1, <1>2 DEF ReadUpTo
  <1> QED
    BY <1>1, <1>3, <1>4

LEMMA NextReaderInv == TypeOK /\ ReaderInv /\ [Next]_vars => ReaderInv'
  <1> SUFFICES ASSUME TypeOK, ReaderInv, [Next]_vars PROVE ReaderInv'
    OBVIOUS
  <1>1. CASE ReadMagic
    <2>1. /\ objects = << >> /\ ~symTab /\ ~nameTab /\ ~eof
          /\ file' = file /\ pos' = MagicSize /\ status' = "loop"
          /\ objects' = << >> /\ ~symTab' /\ ~nameTab' /\ ~eof'
      BY <1>1 DEF ReadMagic, ReaderInv
    <2>2. Entry \in Seq(Member) /\ Entry' = Entry
      BY <2>1, EntryType DEF Entry
    <2>3. 1 \in 1..(Len(Entry) + 1) /\ HeaderPos(Entry)[1] = MagicSize
      BY <2>2, HeadersFollow
    <2>4. NextHeader(1)'
      BY <2>1, <2>2, <2>3 DEF NextHeader
    <2>5. Found' = {} /\ InOrder'
      BY <2>1 DEF Found, InOrder
    <2>6. ReadUpTo(1)'
      BY <2>1, <2>5 DEF ReadUpTo
    <2> QED
      BY <2>1, <2>2, <2>3, <2>4, <2>5, <2>6 DEF ReaderInv
  <1>2. ASSUME NEW i \in DOMAIN Entry, GoesOn(i) PROVE ReaderInv'
    <2>1. /\ status = "loop" /\ ~eof /\ pos = HeaderPos(Entry)[i]
          /\ UNCHANGED <<file, len, eof, status>>
      BY <1>2, RoundEnds
    <2>2. PICK j \in 1..(Len(Entry) + 1) : NextHeader(j) /\ ReadUpTo(j)
      BY <2>1 DEF ReaderInv
    <2>3. ReadUpTo(i) /\ InOrder
      BY <2>1, <2>2, HeaderIsNext DEF ReaderInv
    <2>4. PICK n : n = i + 1
      OBVIOUS
    <2>5. NextHeader(n)'
      BY <1>2, <2>4, NextHeaderAfter
    <2>6. ReadUpTo(n)' /\ InOrder'
      BY <1>2, <2>3, <2>4, ReadOneMore
    <2>7. n \in 1..(Len(Entry) + 1) /\ Entry' = Entry
      BY <2>1, <2>4, EntryType DEF Entry
    <2> QED
      BY <2>1, <2>5, <2>6, <2>7 DEF ReaderInv
  <1>3. ASSUME NEW how \in Fails, Stop(how), eof \/ status = "start" \/ Reading
        PROVE  ReaderInv'
    <2>1. /\ UNCHANGED <<file, len, pos, symTab, nameTab, objects, eof>> /\ status' = how
      BY <1>3 DEF Stop
    <2>2. Short(pos, HeaderSize)' = Short(pos, HeaderSize)
      BY <2>1 DEF Short
    <2> QED
      BY <1>3, <2>1, <2>2, SameProgress DEF Fails, ReaderInv
  <1>4. CASE EndOfFile
    <2>1. /\ UNCHANGED <<file, len, pos, symTab, nameTab, objects, eof>>
          /\ status = "loop" /\ eof /\ status' = "done"
      BY <1>4 DEF EndOfFile, Stop
    <2>2. Short(pos, HeaderSize)' = Short(pos, HeaderSize)
      BY <2>1 DEF Short
    <2> QED
      BY <2>1, <2>2, SameProgress DEF ReaderInv
  <1>5. CASE NoHeader
    <2>1. /\ UNCHANGED <<file, len, pos, symTab, nameTab, objects, status>>
          /\ status = "loop" /\ Short(pos, HeaderSize) /\ eof'
      BY <1>5 DEF NoHeader, Reading
    <2>2. Short(pos, HeaderSize)' = Short(pos, HeaderSize)
      BY <2>1 DEF Short
    <2> QED
      BY <2>1, <2>2, SameProgress DEF ReaderInv
  <1>6. CASE UNCHANGED vars
    <2>1. UNCHANGED <<file, len, pos, symTab, nameTab, objects, eof, status>>
      BY <1>6 DEF vars
    <2>2. Short(pos, HeaderSize)' = Short(pos, HeaderSize)
      BY <2>1 DEF Short
    <2> QED
      BY <2>1, <2>2, SameProgress DEF ReaderInv
  <1> QED
    BY <1>1, <1>2, <1>3, <1>4, <1>5, <1>6 DEF Fails, Next, GoesOn, NotAnArchive, BadMagic, TableAborts,
       NameFaults, NameAborts, NameOverflows, ObjectAborts, Named, AtMember

(* Between two members the list has every object read so far, in order.       *)
THEOREM ReaderInvariant == Spec => []ReaderInv
  <1>1. Init => ReaderInv
    BY DEF Init, ReaderInv, InOrder
  <1> QED
    BY <1>1, NextReaderInv, TypeCorrect, PTL DEF Spec

------------------------------------------------------------------------------
(* What a call returns, and when it fails.                                    *)

LEMMA DoneIsComplete == TypeOK /\ ReaderInv => Complete
  <1> SUFFICES ASSUME TypeOK, ReaderInv, status = "done" PROVE Complete
    BY DEF Complete
  <1>1. PICK i \in 1..(Len(Entry) + 1) : NextHeader(i) /\ ReadUpTo(i)
    BY DEF ReaderInv
  <1>2. Entry \in Seq(Member) /\ i \in Nat
    BY EntryType
  <1>3. pos <= HeaderPos(Entry)[i] /\ HeaderPos(Entry)[i] \in Nat
    <2>1. HeaderPos(Entry)[i] \in Nat
      BY <1>2, HeadersFollow
    <2>2. CASE i > 1 /\ pos = BodyEnd(i - 1)
      <3>1. i - 1 \in DOMAIN Entry /\ i - 1 + 1 = i
        BY <1>2, <2>2
      <3>2. HeaderPos(Entry)[i] = BodyEnd(i - 1) + (IF Entry[i - 1].size % 2 = 1 THEN 1 ELSE 0)
            /\ BodyEnd(i - 1) \in Nat
        BY <3>1, MemberPlace
      <3> QED
        BY <2>1, <2>2, <3>2
    <2> QED
      BY <1>1, <2>1, <2>2 DEF NextHeader
  <1>4. len < pos + HeaderSize /\ len \in Nat /\ pos \in Nat
    <2>1. End(Entry) \in Nat
      BY <1>2, EndType
    <2>2. len \in Nat /\ pos \in Nat
      BY <2>1 DEF TypeOK
    <2> QED
      BY <2>2 DEF ReaderInv, Short, HeaderSize
  <1>5. ASSUME NEW k \in DOMAIN Entry, i <= k PROVE ~(BodyEnd(k) <= len)
    <2>1. HeaderPos(Entry)[k] + HeaderSize <= BodyEnd(k) /\ BodyEnd(k) \in Nat
          /\ HeaderPos(Entry)[k] \in Nat
      BY MemberPlace
    <2>2. HeaderPos(Entry)[i] <= HeaderPos(Entry)[k]
      <3>1. CASE i = k
        BY <2>1, <3>1
      <3>2. CASE i # k
        <4>1. i \in DOMAIN Entry /\ k \in (i + 1)..(Len(Entry) + 1)
          BY <1>2, <1>5, <3>2
        <4>2. HeaderPos(Entry)[i] + Span(Entry[i]) <= HeaderPos(Entry)[k] /\ Span(Entry[i]) \in Nat
          BY <1>2, <4>1, HeadersInOrder, MemberSizes
        <4> QED
          BY <1>3, <2>1, <4>2
      <3> QED
        BY <3>1, <3>2
    <2> QED
      BY <1>3, <1>4, <2>1, <2>2 DEF HeaderSize
  <1>6. \A k \in DOMAIN Entry : Whole(k) => k \in 1..(i - 1)
    BY <1>2, <1>5 DEF Whole
  <1>7. \A k \in 1..(i - 1) : k \in DOMAIN Entry
    BY <1>2
  <1>8. Found = {k \in DOMAIN Entry : Whole(k)}
    BY <1>1, <1>6, <1>7 DEF ReadUpTo, Whole
  <1> QED
    BY <1>8 DEF Complete, ReaderInv

(* Of any archive, cut off anywhere, a call that returns has found exactly    *)
(* the objects that are completely there, in the archive's order.             *)
THEOREM AlwaysComplete == Spec => []Complete
  BY DoneIsComplete, TypeCorrect, ReaderInvariant, PTL

Cause ==
    \/ ~file.arch \/ len < MagicSize
    \/ \E i \in DOMAIN Entry : HeaderPos(Entry)[i] = pos /\ Unreadable(i)
    \/ \E i \in DOMAIN Entry : Entry[i].size % 2 = 1 /\ BodyEnd(i) = pos

OverflowCause ==
    \E i \in DOMAIN Entry : /\ HeaderPos(Entry)[i] = pos
                            /\ Entry[i].kind = "#1/n" /\ Overlong(i)

(* What a member is refused for.                                              *)
LEMMA RefusedMember ==
    ASSUME TypeOK, ReaderInv, NEW i \in DOMAIN Entry,
           TableAborts(i) \/ NameFaults(i) \/ NameAborts(i)
               \/ NameOverflows(i) \/ ObjectAborts(i)
    PROVE  status = "loop" /\ pos = HeaderPos(Entry)[i] /\ Unreadable(i)
  <1>1. status = "loop" /\ pos = HeaderPos(Entry)[i]
    BY DEF TableAborts, NameFaults, NameAborts, NameOverflows, ObjectAborts, Named, AtMember, Reading, HeaderHere
  <1>2. SUFFICES Unreadable(i)
    BY <1>1
  <1>3. PICK j \in 1..(Len(Entry) + 1) : NextHeader(j) /\ ReadUpTo(j)
    BY <1>1 DEF ReaderInv
  <1>4. ReadUpTo(i)
    BY <1>1, <1>3, HeaderIsNext
  <1>5. /\ pos \in Nat /\ Entry[i].size \in Nat /\ Entry[i].nameSize \in Nat
        /\ Entry[i].kind = "#1/n" => Entry[i].nameSize <= Entry[i].size
        /\ len \in Nat
    <2>1. Entry \in Seq(Member) /\ End(Entry) \in Nat
      BY EntryType, EndType
    <2>2. pos \in Nat /\ len \in Nat
      BY <2>1 DEF TypeOK
    <2> QED
      BY <2>1, <2>2, EntryType, MemberSizes
  <1>6. BodyEnd(i) = Body + Entry[i].size /\ Body = pos + 60
    BY <1>1 DEF BodyEnd, Body, HeaderSize
  <1>7. CASE TableAborts(i)
    <2>1. CASE Entry[i].kind = "/" /\ symTab
      BY <1>4, <2>1 DEF ReadUpTo, Unreadable, Table
    <2>2. CASE Entry[i].kind = "//" /\ nameTab
      BY <1>4, <2>2 DEF ReadUpTo, Unreadable, Table
    <2>3. CASE Short(Body, Entry[i].size)
      BY <1>6, <2>3 DEF Short, Unreadable, Cut
    <2>4. \/ Entry[i].kind = "/" /\ symTab
          \/ Entry[i].kind = "//" /\ nameTab
          \/ Short(Body, Entry[i].size)
      BY <1>7, Zenon DEF TableAborts
    <2> QED
      BY <2>1, <2>2, <2>3, <2>4
  <1>8. CASE NameFaults(i)
    BY <1>8 DEF NameFaults, Unreadable
  <1>9. CASE NameAborts(i)
    <2>1. CASE Entry[i].kind = "#1/n" /\ Short(Body, NameSize(i))
      <3>1. NameSize(i) = Entry[i].nameSize /\ Body + NameSize(i) > len
        BY <2>1 DEF NameSize, Short
      <3>2. BodyEnd(i) > len
        BY <1>5, <1>6, <2>1, <3>1
      <3> QED
        BY <3>2 DEF Unreadable, Cut
    <2>2. CASE Entry[i].kind = "/n" /\ Entry[i].nameSize >= NameRoom
      BY <2>2 DEF Unreadable, Overlong
    <2> QED
      BY <1>9, <2>1, <2>2 DEF NameAborts
  <1>10. CASE ObjectAborts(i)
    <2>1. Contents(i) + MemberSize(i) > len
      BY <1>10 DEF ObjectAborts, Short
    <2>2. NameSize(i) \in Nat
      BY <1>5 DEF NameSize
    <2>3. BodyEnd(i) > len
      BY <1>5, <1>6, <2>1, <2>2 DEF Contents, MemberSize
    <2> QED
      BY <2>3 DEF Unreadable, Cut
  <1>11. CASE NameOverflows(i)
    BY <1>11 DEF NameOverflows, Unreadable, Overlong
  <1> QED
    BY <1>7, <1>8, <1>9, <1>10, <1>11

(* Where no header is, there is padding.                                      *)
LEMMA NoHeaderHere ==
    ASSUME TypeOK, ReaderInv, BadMagic
    PROVE  Cause
  <1>1. status = "loop" /\ ~Short(pos, HeaderSize) /\ HeaderHere = {}
    BY DEF BadMagic, Reading
  <1>2. PICK j \in 1..(Len(Entry) + 1) : NextHeader(j)
    BY <1>1 DEF ReaderInv
  <1>3. Entry \in Seq(Member) /\ j \in Nat /\ End(Entry) \in Nat
    BY EntryType, EndType
  <1>4. CASE pos = HeaderPos(Entry)[j]
    <2>1. j = Len(Entry) + 1
      BY <1>1, <1>3, <1>4 DEF HeaderHere
    <2>2. pos = End(Entry) /\ len \in 0..End(Entry)
      BY <1>4, <2>1 DEF End, TypeOK
    <2> QED
      BY <1>1, <1>3, <2>2 DEF Short, HeaderSize
  <1>5. CASE j > 1 /\ Entry[j - 1].size % 2 = 1 /\ pos = BodyEnd(j - 1)
    <2>1. j - 1 \in DOMAIN Entry
      BY <1>3, <1>5
    <2> QED
      BY <1>5, <2>1 DEF Cause
  <1> QED
    BY <1>2, <1>4, <1>5 DEF NextHeader

LEMMA NextFailsOnlyForCause ==
    TypeOK /\ ReaderInv /\ FailsOnlyForCause /\ [Next]_vars => FailsOnlyForCause'
  <1> SUFFICES ASSUME TypeOK, ReaderInv, FailsOnlyForCause, [Next]_vars,
                      status' \in Fails
               PROVE  FailsOnlyForCause'
    BY DEF Fails, FailsOnlyForCause
  <1>1. CASE NotAnArchive
    BY <1>1 DEF NotAnArchive, Short, Stop, Cause, MagicSize, FailsOnlyForCause
  <1>2. ASSUME Cause, status' = "overflow" => OverflowCause,
               UNCHANGED <<file, len, pos, nameTab>>
        PROVE  FailsOnlyForCause'
    <2>1. Entry' = Entry /\ pos' = pos /\ file' = file /\ len' = len
      BY <1>2 DEF Entry
    <2>2. \A i : /\ Unreadable(i)' = Unreadable(i) /\ BodyEnd(i)' = BodyEnd(i)
                 /\ Overlong(i)' = Overlong(i)
      BY <1>2, <2>1 DEF Unreadable, Cut, Overlong, BodyEnd, Table
    <2> QED
      BY <1>2, <2>1, <2>2 DEF Cause, OverflowCause, FailsOnlyForCause
  <1>3. CASE BadMagic
    BY <1>2, <1>3, NoHeaderHere DEF BadMagic, Stop
  <1>4. ASSUME NEW i \in DOMAIN Entry,
               TableAborts(i) \/ NameFaults(i) \/ NameAborts(i)
               \/ NameOverflows(i) \/ ObjectAborts(i)
        PROVE  FailsOnlyForCause'
    <2>1. UNCHANGED <<file, len, pos, nameTab>>
      BY <1>4 DEF TableAborts, NameFaults, NameAborts, NameOverflows, ObjectAborts, Stop
    <2>2. Cause /\ pos = HeaderPos(Entry)[i]
      BY <1>4, RefusedMember DEF Cause
    <2>3. status' = "overflow" => NameOverflows(i)
      BY <1>4 DEF TableAborts, NameFaults, NameAborts, ObjectAborts, Stop
    <2>4. NameOverflows(i) => Entry[i].kind = "#1/n" /\ Overlong(i)
      BY DEF NameOverflows, Overlong
    <2> QED
      BY <1>2, <2>1, <2>2, <2>3, <2>4 DEF OverflowCause
  <1>5. CASE UNCHANGED vars
    <2>1. status \in Fails /\ UNCHANGED <<file, len, pos, nameTab>>
      BY <1>5 DEF vars
    <2>2. status' = status
      BY <1>5 DEF vars
    <2> QED
      BY <1>2, <2>1, <2>2 DEF Cause, OverflowCause, FailsOnlyForCause
  <1>6. CASE status' \in {"loop", "done"}
    BY <1>6 DEF Fails
  <1>7. ASSUME NEW i \in DOMAIN Entry, GoesOn(i) PROVE status' = "loop"
    BY <1>7, RoundEnds
  <1>8. ReadMagic \/ EndOfFile \/ NoHeader => status' \in {"loop", "done"}
    BY DEF ReadMagic, EndOfFile, NoHeader, Reading, Stop
  <1> QED
    BY <1>1, <1>3, <1>4, <1>5, <1>6, <1>7, <1>8 DEF Next, GoesOn

(* A call aborts or faults only over a file that is no archive, has a table   *)
(* twice, is cut off, uses a long name before the table, or has padding.      *)
THEOREM AlwaysFailsForCause == Spec => []FailsOnlyForCause
  <1>1. Init => FailsOnlyForCause
    BY DEF Fails, Init, FailsOnlyForCause
  <1> QED
    BY <1>1, NextFailsOnlyForCause, TypeCorrect, ReaderInvariant, PTL DEF Spec

------------------------------------------------------------------------------
(* What ar writes is read to its end, and every file in bounded time.         *)

(* Of a well-formed archive a header that is there is the next one's, what is *)
(* read of it is there, and the table a long name needs was read.             *)
LEMMA WellFormedReads ==
    ASSUME TypeOK, ReaderInv, WellFormed, status = "loop"
    PROVE  /\ ~BadMagic
           /\ \A i \in DOMAIN Entry : pos = HeaderPos(Entry)[i] => ~Unreadable(i)
  <1>1. PICK j \in 1..(Len(Entry) + 1) : NextHeader(j) /\ ReadUpTo(j)
    BY DEF ReaderInv
  <1>2. Entry \in Seq(Member) /\ End(Entry) \in Nat /\ len = End(Entry) /\ j \in Nat
    BY EntryType, EndType DEF WellFormed
  <1>3. ASSUME BadMagic PROVE FALSE
    <2>1. ~(pos + 60 > len) /\ HeaderHere = {}
      BY <1>3 DEF BadMagic, Reading, Short, HeaderSize
    <2>2. CASE pos = HeaderPos(Entry)[j]
      <3>1. j = Len(Entry) + 1
        BY <1>2, <2>1, <2>2 DEF HeaderHere
      <3> QED
        BY <1>2, <2>1, <2>2, <3>1 DEF End
    <2>3. CASE j > 1 /\ Entry[j - 1].size % 2 = 1 /\ pos = BodyEnd(j - 1)
      <3>1. j - 1 \in DOMAIN Entry /\ j - 1 + 1 = j
        BY <1>2, <2>3
      <3>2. ~(j - 1 < Len(Entry))
        BY <2>3, <3>1 DEF WellFormed
      <3>3. j = Len(Entry) + 1
        BY <1>2, <3>1, <3>2
      <3>4. /\ HeaderPos(Entry)[j] = BodyEnd(j - 1) + 1 /\ BodyEnd(j - 1) \in Nat
        BY <2>3, <3>1, MemberPlace
      <3>5. pos \in Nat /\ len = pos + 1
        BY <1>2, <2>3, <3>3, <3>4 DEF End
      <3> QED
        BY <2>1, <3>5
    <2> QED
      BY <1>1, <2>2, <2>3 DEF NextHeader
  <1>4. ASSUME NEW i \in DOMAIN Entry, pos = HeaderPos(Entry)[i] PROVE ~Unreadable(i)
    <2>1. ReadUpTo(i)
      BY <1>1, <1>4, HeaderIsNext
    <2>2. ~Cut(i)
      <3>1. BodyEnd(i) \in Nat /\ HeaderPos(Entry)[i + 1] <= End(Entry)
            /\ HeaderPos(Entry)[i + 1] = BodyEnd(i) + (IF Entry[i].size % 2 = 1 THEN 1 ELSE 0)
        BY MemberPlace
      <3>2. BodyEnd(i) <= HeaderPos(Entry)[i + 1]
        BY <3>1
      <3> QED
        BY <1>2, <3>1, <3>2 DEF Cut
    <2>3. i \in Nat /\ \A k \in 1..(i - 1) : k \in DOMAIN Entry /\ k # i
      BY <1>2
    <2>4. ~(Entry[i].kind = "/n" /\ ~nameTab)
      <3>1. ASSUME Entry[i].kind = "/n" PROVE nameTab
        <4>1. PICK k \in 1..i : Entry[k].kind = "//"
          BY <3>1 DEF WellFormed
        <4>2. k \in 1..(i - 1)
          BY <2>3, <3>1, <4>1
        <4> QED
          BY <2>1, <4>1, <4>2 DEF ReadUpTo
      <3> QED
        BY <3>1
    <2>5. ASSUME Table(i), NEW k \in 1..(i - 1), Entry[k].kind = Entry[i].kind PROVE FALSE
      <3>1. Table(k)
        BY <2>5 DEF Table
      <3>2. i = k
        BY <2>3, <2>5, <3>1 DEF WellFormed
      <3> QED
        BY <2>3, <3>2
    <2>6. ~Overlong(i)
      BY DEF WellFormed
    <2> QED
      BY <2>2, <2>4, <2>5, <2>6 DEF Unreadable
  <1> QED
    BY <1>3, <1>4

(* A well-formed archive is never refused: with Returns, its call returns.    *)
NeverRefused == WellFormed => status \notin Fails

LEMMA NextNeverRefused ==
    TypeOK /\ ReaderInv /\ NeverRefused /\ [Next]_vars => NeverRefused'
  <1> SUFFICES ASSUME TypeOK, ReaderInv, NeverRefused, [Next]_vars, WellFormed'
               PROVE  status' \notin Fails
    BY DEF NeverRefused
  <1>1. UNCHANGED <<file, len>>
    <2>1. ASSUME NEW i \in DOMAIN Entry, GoesOn(i) PROVE UNCHANGED <<file, len>>
      BY <2>1, RoundEnds
    <2> QED
      BY <2>1 DEF Next, vars, GoesOn, ReadMagic, NotAnArchive, EndOfFile, NoHeader, BadMagic,
         TableAborts, NameFaults, NameAborts, NameOverflows, ObjectAborts, Stop
  <1>2. WellFormed
    BY <1>1 DEF Overlong, WellFormed, Entry, Table
  <1>3. ASSUME NEW i \in DOMAIN Entry, GoesOn(i) PROVE status' = "loop"
    BY <1>3, RoundEnds
  <1>4. ReadMagic \/ EndOfFile \/ NoHeader => status' \in {"loop", "done"}
    BY DEF ReadMagic, EndOfFile, NoHeader, Reading, Stop
  <1>5. ~NotAnArchive
    <2>1. Entry \in Seq(Member)
      BY EntryType
    <2>2. len = End(Entry) /\ len \in Nat /\ HeaderPos(Entry)[1] = MagicSize
      BY <1>2, <2>1, EndType, HeadersFollow DEF WellFormed
    <2>3. MagicSize <= len
      <3>1. CASE Len(Entry) = 0
        BY <2>2, <3>1 DEF End, MagicSize
      <3>2. CASE Len(Entry) # 0
        <4>1. 1 \in DOMAIN Entry
          BY <2>1, <3>2
        <4>2. HeaderPos(Entry)[1] <= BodyEnd(1) /\ BodyEnd(1) \in Nat
          BY <4>1, MemberPlace DEF HeaderSize
        <4>3. BodyEnd(1) <= End(Entry)
          BY <4>1, <4>2, <2>2, MemberPlace
        <4> QED
          BY <2>2, <4>2, <4>3 DEF MagicSize
      <3> QED
        BY <3>1, <3>2
    <2> QED
      BY <1>2, <2>2, <2>3 DEF NotAnArchive, Short, WellFormed, MagicSize
  <1>6. ~BadMagic
    BY <1>2, WellFormedReads DEF BadMagic, Reading
  <1>7. ASSUME NEW i \in DOMAIN Entry,
               TableAborts(i) \/ NameFaults(i) \/ NameAborts(i)
               \/ NameOverflows(i) \/ ObjectAborts(i)
        PROVE  FALSE
    <2>1. status = "loop" /\ pos = HeaderPos(Entry)[i]
      BY <1>7 DEF TableAborts, NameFaults, NameAborts, NameOverflows, ObjectAborts, Named, AtMember, Reading, HeaderHere
    <2>2. ~Unreadable(i)
      BY <1>2, <2>1, WellFormedReads
    <2> QED
      BY <1>7, <2>1, <2>2, RefusedMember
  <1>8. CASE UNCHANGED vars
    BY <1>2, <1>8 DEF NeverRefused, vars
  <1> QED
    BY <1>3, <1>4, <1>5, <1>6, <1>7, <1>8 DEF Fails, Next, GoesOn

(* No assert of read_archive fails on an archive as ar writes it, of any      *)
(* number of members of any size.                                             *)
THEOREM WellFormedNeverRefused == Spec => []NeverRefused
  <1>1. Init => NeverRefused
    BY DEF Fails, Init, NeverRefused
  <1> QED
    BY <1>1, NextNeverRefused, TypeCorrect, ReaderInvariant, PTL DEF Spec

(* What is left of a call: how far it has come, and the bytes it has not read *)
(* or passed over.                                                            *)
Stage == IF status = "start" THEN 3
         ELSE IF status = "loop" THEN IF eof THEN 1 ELSE 2 ELSE 0

(* Every step brings a call closer to its end: it gets further in the file,   *)
(* or no longer reads it. A seek never goes back.                             *)
ReadShrinks ==
    [][~Ended => /\ End(Entry) - pos \in Nat /\ End(Entry)' - pos' \in Nat
                 /\ \/ Stage' < Stage
                    \/ Stage' = Stage /\ End(Entry)' - pos' < End(Entry) - pos]_vars

LEMMA RoundShrinks ==
    ASSUME TypeOK, Next
    PROVE  /\ End(Entry)' = End(Entry)
           /\ Stage' < Stage \/ (Stage' = Stage /\ pos < pos')
  <1>1. ASSUME NEW i \in DOMAIN Entry, GoesOn(i)
        PROVE  Stage' = Stage /\ pos < pos' /\ Entry' = Entry
    <2>1. /\ pos = HeaderPos(Entry)[i] /\ pos' = BodyEnd(i)
          /\ UNCHANGED <<file, eof, status>>
      BY <1>1, RoundEnds
    <2>2. pos < pos'
      BY <2>1, MemberPlace DEF HeaderSize
    <2> QED
      BY <2>1, <2>2 DEF Stage, Entry
  <1>2. ASSUME NEW how \in {"done"} \cup Fails, Stop(how), status \in {"start", "loop"}
        PROVE  Stage' < Stage /\ Entry' = Entry
    BY <1>2 DEF Fails, Stop, Stage, Entry
  <1>3. ASSUME ReadMagic \/ NoHeader PROVE Stage' < Stage /\ Entry' = Entry
    BY <1>3 DEF ReadMagic, NoHeader, Reading, Stage, Entry, TypeOK
  <1>4. ASSUME NotAnArchive \/ EndOfFile \/ BadMagic PROVE Stage' < Stage /\ Entry' = Entry
    BY <1>2, <1>4 DEF Fails, NotAnArchive, EndOfFile, BadMagic, Reading
  <1>5. ASSUME NEW i \in DOMAIN Entry,
               TableAborts(i) \/ NameFaults(i) \/ NameAborts(i)
               \/ NameOverflows(i) \/ ObjectAborts(i)
        PROVE  Stage' < Stage /\ Entry' = Entry
    BY <1>2, <1>5 DEF Fails, TableAborts, NameFaults, NameAborts, NameOverflows, ObjectAborts, Named, AtMember, Reading
  <1>6. /\ Entry' = Entry
        /\ Stage' < Stage \/ (Stage' = Stage /\ pos < pos')
    BY <1>1, <1>3, <1>4, <1>5 DEF Next, GoesOn
  <1> QED
    BY <1>6

(* read_archive takes no more rounds than the file has bytes, whatever the    *)
(* headers say, so no archive keeps it in its loop.                           *)
THEOREM ReadsShrink == Spec => ReadShrinks
  <1>1. TypeOK => End(Entry) - pos \in Nat /\ pos \in Nat /\ End(Entry) \in Nat
    BY EntryType, EndType DEF TypeOK
  <1>2. TypeOK' => (End(Entry) - pos \in Nat /\ pos \in Nat /\ End(Entry) \in Nat)'
    BY <1>1, PTL
  <1>3. TypeOK /\ TypeOK' /\ [Next]_vars =>
            [~Ended => /\ End(Entry) - pos \in Nat /\ End(Entry)' - pos' \in Nat
                       /\ \/ Stage' < Stage
                          \/ Stage' = Stage /\ End(Entry)' - pos' < End(Entry) - pos]_vars
    BY <1>1, <1>2, RoundShrinks
  <1> QED
    BY <1>3, TypeCorrect, PTL DEF Spec, ReadShrinks
=============================================================================
