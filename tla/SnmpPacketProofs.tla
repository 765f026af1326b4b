-------------------------- MODULE SnmpPacketProofs --------------------------
(***************************************************************************)
(* Proofs about SnmpPacket, for datagrams of any length and contents, and   *)
(* about SnmpPacketWire, for packets of any length and contents.            *)
(***************************************************************************)
EXTENDS SnmpPacketWire, SequenceTheorems, WellFoundedInduction, TLAPS

\* An octet of the datagram.
LEMMA ByteType ==
  ASSUME data \in Seq(Octet), NEW o \in Nat, o < Len(data)
  PROVE  Byte(o) \in Octet
<1>1. Len(data) \in Nat /\ o + 1 \in 1..Len(data)
  OBVIOUS
<1>2. data[o + 1] \in Octet
  BY <1>1
<1> QED BY <1>2 DEF Byte

\* The arithmetic of a length: octets as numbers.
LEMMA LengthArithmetic ==
  ASSUME NEW b \in Octet, NEW c \in Octet
  PROVE  /\ b \in Nat /\ 0 + b \in Nat /\ 256 * b + c \in Nat
         /\ (IF b < 128 THEN 0 ELSE b - 128) \in Nat
BY DEF Octet

\* A header within a limit that is within the datagram.
LEMMA HeaderFacts ==
  ASSUME data \in Seq(Octet), NEW o \in Nat, NEW limit \in Nat, limit <= Len(data),
         Header(o, limit)
  PROVE  /\ Byte(o) \in Octet /\ Start(o) \in Nat /\ Length(o) \in Nat /\ End(o) \in Nat
         /\ o < Start(o) /\ Start(o) <= limit /\ Start(o) <= End(o)
         /\ End(o) = Start(o) + Length(o)
<1>1. o < Len(data) /\ o + 1 < Len(data) /\ o + 1 \in Nat /\ Len(data) \in Nat
  BY DEF Header
<1>2. Byte(o) \in Octet /\ Byte(o + 1) \in Octet
  BY <1>1, ByteType
<1>3. LengthOctets(o) \in Nat
  BY <1>2, LengthArithmetic DEF LengthOctets
<1>4. PICK n \in Nat : n = LengthOctets(o)
  BY <1>3
<1>5. Start(o) \in Nat /\ o < Start(o) /\ Start(o) <= limit
  BY <1>4 DEF Start, Header
<1>6. Length(o) \in Nat
  <2>1. CASE n = 0
    BY <1>2, <1>4, <2>1, LengthArithmetic DEF Length
  <2>2. CASE n # 0
    <3>1. o + n + 1 \in Nat /\ o + n + 1 < Len(data) /\ o + n \in Nat /\ o + n < Len(data)
      BY <1>1, <1>4 DEF Header
    <3>2. Byte(o + n + 1) \in Octet /\ Byte(o + n) \in Octet
      BY <3>1, ByteType
    <3>3. PICK b \in Octet, c \in Octet : b = Byte(o + n) /\ c = Byte(o + n + 1)
      BY <3>2
    <3>4. 0 + c \in Nat /\ 256 * b + c \in Nat
      BY LengthArithmetic
    <3>5. Beyond \in Nat /\ (IF n > 1 THEN 256 * b ELSE 0) + c \in Nat
      BY <3>4 DEF Beyond
    <3> QED BY <1>4, <2>2, <3>3, <3>5 DEF Length
  <2> QED BY <2>1, <2>2
<1> QED BY <1>2, <1>5, <1>6 DEF End

\* A part of the datagram is a sequence of octets, and so is its end.
LEMMA PartType ==
  ASSUME NEW q \in Seq(Octet), NEW m \in Nat, NEW n \in Nat, n <= Len(q)
  PROVE  SubSeq(q, m + 1, n) \in Seq(Octet)
OBVIOUS

LEMMA LastTypes ==
  ASSUME NEW q \in Seq(Octet)
  PROVE  /\ LastOf(<<0>> \o q) \in Octet
         /\ LastFour(<<0, 0, 0, 0>> \o q) \in Word
<1>1. <<0>> \o q \in Seq(Octet) /\ Len(<<0>> \o q) = Len(q) + 1 /\ Len(q) \in Nat
  BY DEF Octet
<1>2. LastOf(<<0>> \o q) \in Octet
  BY <1>1 DEF LastOf
<1> DEFINE r == <<0, 0, 0, 0>> \o q
<1>3. <<0, 0, 0, 0>> \in Seq(Octet) /\ Len(<<0, 0, 0, 0>>) = 4
  BY DEF Octet
<1>4. r \in Seq(Octet) /\ Len(r) = Len(q) + 4
  BY <1>1, <1>3
<1> HIDE DEF r
<1>5. LastFour(r) \in Seq(Octet) /\ Len(LastFour(r)) = 4
  BY <1>1, <1>4 DEF LastFour
<1>6. DOMAIN LastFour(r) = 1..4 /\ \A i \in 1..4 : LastFour(r)[i] \in Octet
  BY <1>5
<1>7. LastFour(r) \in Word
  BY <1>5, <1>6 DEF Word
<1> QED BY <1>2, <1>7 DEF r

\* Where an accepted element lies, and what it holds.
LEMMA AcceptsFacts ==
  ASSUME TypeOK, Inside, at \notin Results, at = "bind" => offset < listEnd, Accepts
  PROVE  /\ Limit \in Nat /\ Limit <= Len(data) /\ Len(data) \in Nat
         /\ Byte(offset) \in Octet
         /\ Start(offset) \in Nat /\ End(offset) \in Nat /\ Length(offset) \in Nat
         /\ offset < Start(offset) /\ Start(offset) <= End(offset)
         /\ End(offset) = Start(offset) + Length(offset)
         /\ End(offset) <= Limit
         /\ Contents \in Seq(Octet)
<1>1. Limit \in Nat /\ Limit <= Len(data) /\ Len(data) \in Nat
  BY DEF TypeOK, Inside, Limit, Outer, Inner, Results
<1>2. Header(offset, Limit) /\ End(offset) <= Limit /\ offset \in Nat
  BY DEF Accepts, TypeOK
<1>3. /\ Byte(offset) \in Octet /\ Start(offset) \in Nat /\ Length(offset) \in Nat
      /\ End(offset) \in Nat /\ offset < Start(offset) /\ Start(offset) <= End(offset)
      /\ End(offset) = Start(offset) + Length(offset)
  BY <1>1, <1>2, HeaderFacts DEF TypeOK
<1>4. Contents \in Seq(Octet)
  BY <1>1, <1>2, <1>3, PartType DEF Contents, TypeOK
<1> QED BY <1>1, <1>2, <1>3, <1>4

-----------------------------------------------------------------------------
LEMMA InitInv == Init => TypeOK /\ Inside
<1> SUFFICES ASSUME Init PROVE TypeOK /\ Inside
  OBVIOUS
<1>1. Default \in Packet
  <2>1. <<0, 0, 0, 0>> \in Word
    BY DEF Word, Octet
  <2> QED BY <2>1 DEF Default, Packet, Octet
<1>2. <<>> \in Seq(Octet) /\ Len(<<>>) = 0
  OBVIOUS
<1> QED BY <1>1, <1>2 DEF Init, TypeOK, Inside, Results, Outer, Inner

\* Receiving a datagram starts at its first octet.
LEMMA ReceiveInv ==
  ASSUME TypeOK, Inside, NEW d \in Datagrams, Receive(d)
  PROVE  TypeOK' /\ Inside'
<1>1. d \in Seq(Octet) /\ <<>> \in Seq(Octet) /\ Len(d) \in Nat
  BY DatagramsAssumption DEF DatagramsAssumption
<1> QED BY <1>1 DEF Receive, Begin, TypeOK, Inside, Results, Outer, Inner

\* Every step of parse() keeps the types, stays inside, and moves on.
LEMMA ParseInv ==
  ASSUME TypeOK, Inside, Parse
  PROVE  /\ TypeOK' /\ Inside'
         /\ at' \in Results \/ offset < offset'
<1> USE DEF TypeOK, Inside, Results, Outer, Inner, Goto, Ends
<1>1. CASE Accepts /\ at \notin Results /\ (at = "bind" => offset < listEnd) /\ ~Fail
  <2>1. /\ Limit \in Nat /\ Limit <= Len(data) /\ Len(data) \in Nat
        /\ Byte(offset) \in Octet
        /\ Start(offset) \in Nat /\ End(offset) \in Nat /\ Length(offset) \in Nat
        /\ offset < Start(offset) /\ Start(offset) <= End(offset)
        /\ End(offset) = Start(offset) + Length(offset)
        /\ End(offset) <= Limit
        /\ Contents \in Seq(Octet)
    BY <1>1, AcceptsFacts
  <2> HIDE DEF Results
  <2>2. CASE ReadPacket
    BY <2>1, <2>2 DEF ReadPacket, Limit
  <2>3. CASE ReadVersion
    <3>1. Byte(Start(offset)) \in Octet
      <4>1. Start(offset) < Len(data)
        BY <1>1, <2>1, <2>3 DEF ReadVersion, Accepts
      <4> QED BY <2>1, <4>1, ByteType
    <3>2. packet' \in Packet
      BY <2>3, <3>1 DEF ReadVersion, Assign, Packet
    <3> QED BY <2>1, <2>3, <3>2 DEF ReadVersion, Limit
  <2>4. CASE ReadCommunity
    <3>1. packet' \in Packet
      BY <2>1, <2>4 DEF ReadCommunity, Assign, Packet
    <3> QED BY <2>1, <2>4, <3>1 DEF ReadCommunity, Limit
  <2>5. CASE ReadPdu
    <3>1. packet' \in Packet
      BY <2>1, <2>5 DEF ReadPdu, Assign, Packet
    <3> QED BY <2>1, <2>5, <3>1 DEF ReadPdu, Limit
  <2>6. CASE ReadId
    <3>1. packet' \in Packet
      BY <2>1, <2>6, LastTypes DEF ReadId, Assign, Packet
    <3> QED BY <2>1, <2>6, <3>1 DEF ReadId, Limit
  <2>7. CASE ReadStatus \/ ReadIndex
    <3>1. packet' \in Packet
      BY <2>1, <2>7, LastTypes DEF ReadStatus, ReadIndex, ReadError, Assign, Packet
    <3> QED BY <2>1, <2>7, <3>1 DEF ReadStatus, ReadIndex, ReadError, Limit
  <2>8. CASE ReadBinds
    <3>1. packet' \in Packet
      <4>1. <<>> \in Seq([oid : Seq(Octet), type : Octet, value : Seq(Octet)])
        OBVIOUS
      <4>2. packet' = [packet EXCEPT !.binds = <<>>]
        BY <2>8 DEF ReadBinds, Assign
      <4> QED BY <4>1, <4>2 DEF Packet
    <3> QED BY <2>1, <2>8, <3>1 DEF ReadBinds, Limit
  <2>9. CASE ReadBind
    BY <2>1, <2>9 DEF ReadBind, Limit
  <2>10. CASE ReadOid
    BY <2>1, <2>10 DEF ReadOid, Limit
  <2>11. CASE ReadValue
    <3>1. packet' \in Packet
      <4> DEFINE b == [oid |-> oid, type |-> Byte(offset), value |-> Contents]
      <4>1. b \in [oid : Seq(Octet), type : Octet, value : Seq(Octet)]
        BY <2>1
      <4> HIDE DEF b
      <4>2. packet' = [packet EXCEPT !.binds = Append(packet.binds, b)]
        BY <2>11 DEF ReadValue, b
      <4>3. Append(packet.binds, b) \in
              Seq([oid : Seq(Octet), type : Octet, value : Seq(Octet)])
        BY <4>1 DEF Packet
      <4> QED BY <4>2, <4>3 DEF Packet
    <3> QED BY <2>1, <2>11, <3>1 DEF ReadValue, Limit
  <2>12. CASE Finish
    BY <1>1, <2>12 DEF Finish
  <2> QED BY <1>1, <2>2, <2>3, <2>4, <2>5, <2>6, <2>7, <2>8, <2>9, <2>10, <2>11, <2>12
          DEF Parse
<1>2. CASE Fail
  <2>1. packet' \in Packet
    <3>1. CASE at = "pdu" /\ offset < Limit
      <4>1. Limit = Len(data)
        BY <3>1 DEF Limit
      <4>2. Byte(offset) \in Octet
        BY <3>1, <4>1, ByteType
      <4> QED BY <1>2, <3>1, <4>2 DEF Fail, Assign, Packet
    <3>2. CASE ~(at = "pdu" /\ offset < Limit)
      BY <1>2, <3>2 DEF Fail
    <3> QED BY <3>1, <3>2
  <2> QED BY <1>2, <2>1 DEF Fail
<1>3. CASE Finish
  BY <1>3 DEF Finish
<1>4. (Accepts /\ at \notin Results /\ (at = "bind" => offset < listEnd) /\ ~Fail)
        \/ Fail \/ Finish
  BY DEF Parse, ReadPacket, ReadVersion, ReadCommunity, ReadPdu, ReadId, ReadStatus,
         ReadIndex, ReadError, ReadBinds, ReadBind, ReadOid, ReadValue
<1> QED BY <1>1, <1>2, <1>3, <1>4

LEMMA StepInv == TypeOK /\ Inside /\ [Next]_vars => TypeOK' /\ Inside'
<1> SUFFICES ASSUME TypeOK, Inside, [Next]_vars PROVE TypeOK' /\ Inside'
  OBVIOUS
<1>1. CASE UNCHANGED vars
  BY <1>1 DEF vars, TypeOK, Inside
<1> QED BY <1>1, ReceiveInv, ParseInv DEF Next

\* Whatever arrives, the members of the packet keep their types and parse()
\* reads nothing outside the datagram or the element it is in.
THEOREM StaysInside == Spec => [](TypeOK /\ Inside)
BY InitInv, StepInv, PTL DEF Spec

\* The members keep their types, whatever the datagrams hold.
THEOREM TypeCorrect == Spec => []TypeOK
BY StaysInside, PTL

\* Whatever arrives, each step of parse() uses up an octet or is its last.
THEOREM Progress == Spec => Consumes
<1>1. TypeOK /\ Inside /\ [Next]_vars =>
        [\/ at \in Results \/ at' \in Results \/ offset < offset']_vars
  BY ParseInv DEF Next, Receive, vars
<1> QED BY <1>1, StaysInside, PTL DEF Spec, Consumes

-----------------------------------------------------------------------------
(* FlattenSeq() joins sequences with a function that it calls itself: what it*)
(* computes follows by the least index at which it would not.              *)

\* The least of some numbers, in place of an induction.
LEMMA LeastNumber ==
  ASSUME NEW S \in SUBSET Nat, S # {}
  PROVE  \E m \in S : \A k \in S : m <= k
<1> DEFINE R == OpToRel(<, Nat)
<1>1. IsWellFoundedOn(R, Nat)
  BY NatLessThanWellFounded
<1>2. \A x, y \in Nat : x < y => <<x, y>> \in R
  BY DEF OpToRel
<1> HIDE DEF R
<1>3. PICK x \in S : \A y \in S : ~ (<<y, x>> \in R)
  BY <1>1, WFMin
<1>4. ASSUME NEW y \in S PROVE x <= y
  <2>1. ~ (y < x)
    BY <1>2, <1>3
  <2> QED BY <2>1
<1> QED BY <1>4

\* f[i] is the first i sequences of s, joined.
Joins(f, s, m) == f = [i \in 1..m |-> IF i = 1 THEN s[i] ELSE f[i - 1] \o s[i]]

\* The function that FlattenSeq() chooses exists.
LEMMA JoinsExists ==
  ASSUME NEW D, NEW s \in Seq(Seq(D)), NEW n \in Nat, 1 <= n, n <= Len(s)
  PROVE  \E f : Joins(f, s, n)
<1> SUFFICES ASSUME ~ \E f : Joins(f, s, n) PROVE FALSE
  OBVIOUS
<1> DEFINE Failing == {m \in 1..n : ~ \E f : Joins(f, s, m)}
<1>1. Failing \in SUBSET Nat /\ Failing # {}
  <2>1. n \in 1..n
    OBVIOUS
  <2>2. n \in Failing
    BY <2>1
  <2>3. Failing \in SUBSET Nat
    OBVIOUS
  <2> HIDE DEF Failing
  <2> QED BY <2>2, <2>3
<1>2. PICK m \in Failing : \A k \in Failing : m <= k
  BY <1>1, LeastNumber
<1>3. m \in 1..n /\ ~ \E f : Joins(f, s, m)
  OBVIOUS
<1>4. m # 1
  <2>1. Joins([i \in 1..1 |-> s[i]], s, 1)
    BY DEF Joins
  <2> QED BY <1>3, <2>1
<1>5. m - 1 \in 1..n /\ ~ (m <= m - 1)
  BY <1>3, <1>4
<1>6. PICK f : Joins(f, s, m - 1)
  BY <1>2, <1>5
<1> DEFINE g == [i \in 1..m |-> IF i = m THEN f[m - 1] \o s[m] ELSE f[i]]
<1>7. ASSUME NEW i \in 1..m
      PROVE  g[i] = IF i = 1 THEN s[i] ELSE g[i - 1] \o s[i]
  <2>1. CASE i = m
    <3>1. m - 1 \in 1..m /\ m - 1 # m /\ m \in 1..m
      BY <1>3, <1>4
    <3>2. g[m] = f[m - 1] \o s[m] /\ g[m - 1] = f[m - 1]
      BY <3>1
    <3> QED BY <1>4, <2>1, <3>2
  <2>2. CASE i # m
    <3>1. i \in 1..(m - 1) /\ g[i] = f[i]
      BY <1>3, <1>4, <2>2
    <3>2. f[i] = IF i = 1 THEN s[i] ELSE f[i - 1] \o s[i]
      BY <1>6, <3>1 DEF Joins
    <3>3. i # 1 => g[i - 1] = f[i - 1]
      BY <3>1, <1>3, <1>4
    <3> QED BY <3>1, <3>2, <3>3
  <2> QED BY <2>1, <2>2
<1>8. Joins(g, s, m)
  <2>1. g = [i \in 1..m |-> g[i]]
    OBVIOUS
  <2> HIDE DEF g
  <2>2. [i \in 1..m |-> g[i]] = [i \in 1..m |-> IF i = 1 THEN s[i] ELSE g[i - 1] \o s[i]]
    BY <1>7
  <2> QED BY <2>1, <2>2 DEF Joins
<1> QED BY <1>3, <1>8

\* What FlattenSeq() returns is the last of the joined parts.
LEMMA FlattenIs ==
  ASSUME NEW D, NEW s \in Seq(Seq(D)), s # <<>>
  PROVE  \E f : Joins(f, s, Len(s)) /\ FlattenSeq(s) = f[Len(s)]
<1>1. Len(s) \in Nat /\ 1 <= Len(s) /\ Len(s) <= Len(s)
  OBVIOUS
<1> DEFINE F == CHOOSE f : Joins(f, s, Len(s))
<1>2. Joins(F, s, Len(s))
  <2>1. \E f : Joins(f, s, Len(s))
    BY <1>1, JoinsExists
  <2> QED BY <2>1
<1>3. FlattenSeq(s) = F[Len(s)]
  <2>1. Len(s) # 0
    BY <1>1
  <2> QED BY <2>1 DEF FlattenSeq, Joins
<1> QED BY <1>2, <1>3

LEMMA JoinsType ==
  ASSUME NEW D, NEW s \in Seq(Seq(D)), NEW f, Joins(f, s, Len(s))
  PROVE  \A i \in 1..Len(s) : f[i] \in Seq(D)
<1> SUFFICES ASSUME \E i \in 1..Len(s) : f[i] \notin Seq(D) PROVE FALSE
  OBVIOUS
<1> DEFINE Failing == {i \in 1..Len(s) : f[i] \notin Seq(D)}
<1>1. Failing \in SUBSET Nat /\ Failing # {} /\ Len(s) \in Nat
  OBVIOUS
<1>2. PICK m \in Failing : \A k \in Failing : m <= k
  BY <1>1, LeastNumber
<1>3. m \in 1..Len(s) /\ f[m] \notin Seq(D)
  OBVIOUS
<1>4. s[m] \in Seq(D)
  BY <1>3
<1>5. f[m] = IF m = 1 THEN s[m] ELSE f[m - 1] \o s[m]
  BY <1>3 DEF Joins
<1>6. m # 1
  BY <1>3, <1>4, <1>5
<1>7. m - 1 \in 1..Len(s) /\ ~ (m <= m - 1)
  BY <1>1, <1>3, <1>6
<1>8. f[m - 1] \in Seq(D)
  BY <1>2, <1>7
<1> QED BY <1>3, <1>4, <1>5, <1>6, <1>8

\* Concatenation, unfolded only where its octets matter.
Cat(a, b) == a \o b

LEMMA Associative ==
  \A D : \A a, b, c \in Seq(D) : Cat(Cat(a, b), c) = Cat(a, Cat(b, c))
BY DEF Cat

\* g joins t, and f joins t behind another part.
Follows(f, g, t, n) ==
  \A i \in 1..n : /\ g[i] = (IF i = 1 THEN t[i] ELSE Cat(g[i - 1], t[i]))
                  /\ f[i + 1] = Cat(f[i], t[i])

\* Joining behind x is joining, and putting x before it.
LEMMA ShiftedJoins ==
  ASSUME NEW D, NEW x \in Seq(D), NEW n \in Nat, NEW f, NEW g, NEW t,
         f[1] = x, \A i \in 1..n : g[i] \in Seq(D) /\ t[i] \in Seq(D),
         Follows(f, g, t, n)
  PROVE  \A i \in 1..n : f[i + 1] = Cat(x, g[i])
<1> DEFINE Failing == {i \in 1..n : ~ (f[i + 1] = Cat(x, g[i]))}
<1>1. /\ Failing \in SUBSET Nat
      /\ \A i \in Failing : i \in 1..n /\ ~ (f[i + 1] = Cat(x, g[i]))
      /\ \A i \in 1..n : i \notin Failing => f[i + 1] = Cat(x, g[i])
  <2> DEFINE Holds(i) == f[i + 1] = Cat(x, g[i])
  <2> HIDE DEF Holds
  <2>1. Failing = {i \in 1..n : ~ Holds(i)}
    BY DEF Holds
  <2> HIDE DEF Failing
  <2>2. /\ Failing \in SUBSET Nat
        /\ \A i \in Failing : i \in 1..n /\ ~ Holds(i)
        /\ \A i \in 1..n : i \notin Failing => Holds(i)
    BY <2>1
  <2> QED BY <2>2 DEF Holds
<1> HIDE DEF Failing
<1>2. CASE Failing = {}
  BY <1>1, <1>2
<1>3. CASE Failing # {}
  <2>1. PICK m \in Failing : \A k \in Failing : m <= k
    BY <1>1, <1>3, LeastNumber
  <2>2. m \in 1..n /\ m \in Nat
    BY <1>1
  <2>3. /\ g[m] \in Seq(D) /\ t[m] \in Seq(D)
        /\ g[m] = (IF m = 1 THEN t[m] ELSE Cat(g[m - 1], t[m]))
        /\ f[m + 1] = Cat(f[m], t[m])
    BY <2>2 DEF Follows
  <2>4. CASE m = 1
    <3>1. f[m + 1] = Cat(x, g[m])
      BY <2>3, <2>4
    <3> QED BY <1>1, <3>1
  <2>5. CASE m # 1
    <3>1. m - 1 \in 1..n /\ ~ (m <= m - 1) /\ (m - 1) + 1 = m
      BY <2>2, <2>5
    <3>2. m - 1 \notin Failing
      BY <2>1, <3>1
    <3>3. f[m] = Cat(x, g[m - 1]) /\ g[m - 1] \in Seq(D)
      BY <1>1, <3>1, <3>2
    <3>4. g[m - 1] \in Seq(D) /\ t[m] \in Seq(D)
      BY <2>3, <3>3
    <3>5. Cat(Cat(x, g[m - 1]), t[m]) = Cat(x, Cat(g[m - 1], t[m]))
      BY <3>4, Associative
    <3>6. f[m + 1] = Cat(x, g[m])
      BY <2>3, <2>5, <3>3, <3>5
    <3> QED BY <1>1, <3>6
  <2> QED BY <2>4, <2>5
<1> QED BY <1>2, <1>3

\* FlattenSeq(), one sequence at a time.
LEMMA FlattenCons ==
  ASSUME NEW D, NEW s \in Seq(Seq(D)), s # <<>>
  PROVE  /\ FlattenSeq(s) \in Seq(D)
         /\ FlattenSeq(s) = s[1] \o FlattenSeq(Tail(s))
<1>1. PICK f : Joins(f, s, Len(s)) /\ FlattenSeq(s) = f[Len(s)]
  BY FlattenIs
<1>2. Len(s) \in Nat /\ 1 <= Len(s) /\ s[1] \in Seq(D)
  OBVIOUS
<1>3. FlattenSeq(s) \in Seq(D)
  <2>1. Len(s) \in 1..Len(s)
    BY <1>2
  <2> QED BY <1>1, <2>1, JoinsType
<1>4. f[1] = s[1]
  BY <1>1, <1>2 DEF Joins
<1>5. CASE Len(s) = 1
  <2>1. Tail(s) = <<>>
    <3>1. Tail(s) \in Seq(Seq(D)) /\ Len(Tail(s)) = 0
      BY <1>5, HeadTailProperties
    <3> QED BY <3>1, EmptySeq
  <2>2. FlattenSeq(Tail(s)) = <<>>
    BY <2>1 DEF FlattenSeq
  <2>3. s[1] \o <<>> = s[1]
    BY <1>2
  <2> QED BY <1>1, <1>3, <1>4, <1>5, <2>2, <2>3
<1>6. CASE Len(s) # 1
  <2> DEFINE t == Tail(s)
  <2>1. /\ t \in Seq(Seq(D)) /\ t # <<>> /\ Len(t) = Len(s) - 1 /\ Len(t) \in Nat
        /\ \A i \in 1..Len(t) : t[i] = s[i + 1] /\ t[i] \in Seq(D)
    <3>1. Tail(s) \in Seq(Seq(D)) /\ Len(Tail(s)) = Len(s) - 1
          /\ \A i \in 1..Len(Tail(s)) : Tail(s)[i] = s[i + 1]
      BY HeadTailProperties
    <3>2. ASSUME NEW i \in 1..Len(Tail(s)) PROVE Tail(s)[i] \in Seq(D)
      BY <3>1, ElementOfSeq
    <3>3. Tail(s) # <<>>
      <4>1. Len(Tail(s)) # 0
        BY <1>2, <1>6, <3>1
      <4>2. Len(<<>>) = 0
        OBVIOUS
      <4> QED BY <4>1, <4>2
    <3> QED BY <1>2, <3>1, <3>2, <3>3
  <2> HIDE DEF t
  <2>2. PICK g : Joins(g, t, Len(t)) /\ FlattenSeq(t) = g[Len(t)]
    BY <2>1, FlattenIs
  <2>3. \A i \in 1..Len(t) : g[i] \in Seq(D)
    BY <2>1, <2>2, JoinsType
  <2>4. \A i \in 1..Len(t) : f[i + 1] = s[1] \o g[i]
    <3>1. ASSUME NEW i \in 1..Len(t)
          PROVE  /\ g[i] \in Seq(D) /\ t[i] \in Seq(D)
                 /\ g[i] = (IF i = 1 THEN t[i] ELSE g[i - 1] \o t[i])
                 /\ f[i + 1] = f[i] \o t[i]
      <4>1. f[i + 1] = f[i] \o s[i + 1]
        <5>1. i + 1 \in 1..Len(s) /\ i + 1 # 1 /\ (i + 1) - 1 = i
          BY <2>1
        <5> QED BY <1>1, <5>1 DEF Joins
      <4>2. g[i] = (IF i = 1 THEN t[i] ELSE g[i - 1] \o t[i])
        BY <2>2 DEF Joins
      <4> QED BY <2>1, <2>3, <4>1, <4>2
    <3>2. Follows(f, g, t, Len(t)) /\ \A i \in 1..Len(t) : g[i] \in Seq(D) /\ t[i] \in Seq(D)
      BY <3>1 DEF Follows, Cat
    <3>3. s[1] \in Seq(D) /\ Len(t) \in Nat
      BY <1>2, <2>1
    <3>4. \A i \in 1..Len(t) : f[i + 1] = Cat(s[1], g[i])
      BY <1>4, <3>2, <3>3, ShiftedJoins
    <3> QED BY <3>4 DEF Cat
  <2>5. f[Len(s)] = s[1] \o g[Len(t)]
    <3>1. Len(t) \in 1..Len(t) /\ Len(t) + 1 = Len(s)
      BY <2>1, <1>2, <1>6
    <3> QED BY <2>4, <3>1
  <2> QED BY <1>1, <1>3, <2>2, <2>5 DEF t
<1> QED BY <1>5, <1>6

-----------------------------------------------------------------------------
(* One element, and how parse() reads it where it lies.                    *)

\* The rest of q, from offset o.
From(q, o) == SubSeq(q, o + 1, Len(q))

\* q has e at offset o.
Carries(q, o, e) == \A i \in 1..Len(e) : q[o + i] = e[i]

\* Where two parts lie in a sequence that goes on with both.
LEMMA SplitAt ==
  ASSUME NEW q \in Seq(Octet), NEW o \in Nat, o <= Len(q),
         NEW e \in Seq(Octet), NEW t \in Seq(Octet), From(q, o) = Cat(e, t)
  PROVE  /\ Len(q) = o + Len(e) + Len(t)
         /\ Carries(q, o, e)
         /\ SubSeq(q, o + 1, o + Len(e)) = e
         /\ From(q, o + Len(e)) = t
<1> DEFINE r == SubSeq(q, o + 1, Len(q))
<1>1. Len(q) \in Nat /\ Len(e) \in Nat /\ Len(t) \in Nat
  OBVIOUS
<1>2. Len(r) = Len(q) - o /\ \A i \in 1..(Len(q) - o) : r[i] = q[o + i]
  OBVIOUS
<1>3. /\ Cat(e, t) \in Seq(Octet) /\ Len(Cat(e, t)) = Len(e) + Len(t)
      /\ \A i \in 1..Len(e) : Cat(e, t)[i] = e[i]
      /\ \A i \in 1..Len(t) : Cat(e, t)[Len(e) + i] = t[i]
  BY DEF Cat
<1>4. r = Cat(e, t)
  BY DEF From
<1> HIDE DEF r
<1>5. Len(q) = o + Len(e) + Len(t)
  <2>1. Len(r) = Len(Cat(e, t))
    BY <1>4
  <2>2. Len(q) - o = Len(e) + Len(t)
    BY <2>1, <1>2, <1>3
  <2> QED BY <1>1, <2>2
<1>6. \A i \in 1..Len(e) : q[o + i] = e[i]
  BY <1>1, <1>2, <1>3, <1>4, <1>5
<1>7. \A i \in 1..Len(t) : q[o + Len(e) + i] = t[i]
  <2> TAKE i \in 1..Len(t)
  <2>1. Len(e) + i \in 1..(Len(q) - o) /\ o + (Len(e) + i) = o + Len(e) + i
    BY <1>1, <1>5
  <2>2. r[Len(e) + i] = q[o + Len(e) + i]
    BY <1>2, <2>1
  <2> QED BY <1>3, <1>4, <2>2
<1>8. SubSeq(q, o + 1, o + Len(e)) = e
  <2> DEFINE u == SubSeq(q, o + 1, o + Len(e))
  <2>1. u \in Seq(Octet) /\ Len(u) = Len(e) /\ \A i \in 1..Len(e) : u[i] = q[o + i]
    BY <1>1, <1>5
  <2> HIDE DEF u
  <2>2. u = e
    BY <1>6, <2>1, SeqEqual
  <2> QED BY <2>2 DEF u
<1>9. SubSeq(q, o + Len(e) + 1, Len(q)) = t
  <2> DEFINE u == SubSeq(q, o + Len(e) + 1, Len(q))
  <2>1. u \in Seq(Octet) /\ Len(u) = Len(t)
        /\ \A i \in 1..Len(t) : u[i] = q[o + Len(e) + i]
    BY <1>1, <1>5
  <2> HIDE DEF u
  <2>2. u = t
    BY <1>7, <2>1, SeqEqual
  <2> QED BY <2>2 DEF u
<1> QED BY <1>5, <1>6, <1>8, <1>9 DEF From, Carries

\* What parse() has ahead of it at offset o.
Ahead(o) == From(data, o)

\* The length octet: the low eight bits.
LEMMA LengthOctet ==
  ASSUME NEW n \in Nat
  PROVE  n % 256 \in Octet /\ (n < 256 => n % 256 = n)
BY DEF Octet

LEMMA ElementType ==
  ASSUME NEW tag \in Octet, NEW body \in Seq(Octet)
  PROVE  /\ Element(tag, body) \in Seq(Octet)
         /\ Len(Element(tag, body)) = Len(body) + 2
         /\ Element(tag, body) = Cat(<<tag, Len(body) % 256>>, body)
<1>1. Len(body) \in Nat
  OBVIOUS
<1>2. Len(body) % 256 \in Octet
  BY <1>1, LengthOctet
<1>3. <<tag, Len(body) % 256>> \in Seq(Octet)
  BY <1>2
<1> QED BY <1>3 DEF Element, Cat

LEMMA CatType ==
  ASSUME NEW D, NEW a \in Seq(D), NEW b \in Seq(D)
  PROVE  Cat(a, b) \in Seq(D) /\ Len(Cat(a, b)) = Len(a) + Len(b)
BY DEF Cat

\* Where a serialized element lies in a short datagram, parse() finds its tag,
\* its length and its contents, and what follows it.
LEMMA ElementParse ==
  ASSUME data \in Seq(Octet), Len(data) < 130, NEW o \in Nat, o <= Len(data),
         NEW tag \in Octet, NEW body \in Seq(Octet), NEW tail \in Seq(Octet),
         Ahead(o) = Cat(Element(tag, body), tail)
  PROVE  /\ Byte(o) = tag
         /\ Start(o) = o + 2 /\ Length(o) = Len(body) /\ End(o) = o + 2 + Len(body)
         /\ Len(data) = End(o) + Len(tail)
         /\ \A limit \in Nat : End(o) <= limit => Header(o, limit)
         /\ SubSeq(data, Start(o) + 1, End(o)) = body
         /\ Ahead(Start(o)) = Cat(body, tail)
         /\ Ahead(End(o)) = tail
<1> DEFINE h == <<tag, Len(body) % 256>>
<1>1. Len(body) \in Nat /\ Len(tail) \in Nat /\ Len(data) \in Nat /\ Len(body) % 256 \in Octet
  BY LengthOctet
<1>2. h \in Seq(Octet) /\ Len(h) = 2 /\ h[1] = tag /\ h[2] = Len(body) % 256
  BY <1>1
<1>3. Cat(Element(tag, body), tail) = Cat(h, Cat(body, tail))
  <2>1. Element(tag, body) = Cat(h, body)
    BY ElementType
  <2> HIDE DEF h
  <2>2. Cat(Cat(h, body), tail) = Cat(h, Cat(body, tail))
    BY <1>2, Associative
  <2> QED BY <2>1, <2>2
<1>4. Cat(body, tail) \in Seq(Octet) /\ Len(Cat(body, tail)) = Len(body) + Len(tail)
  BY CatType
<1> HIDE DEF h
<1>5. /\ Len(data) = o + 2 + Len(Cat(body, tail))
      /\ \A i \in 1..2 : data[o + i] = h[i]
      /\ From(data, o + 2) = Cat(body, tail)
  <2>1. PICK c \in Seq(Octet), g \in Seq(Octet) : c = Cat(body, tail) /\ g = h
    BY <1>2, <1>4
  <2>2. From(data, o) = Cat(g, c)
    BY <1>3, <2>1 DEF Ahead
  <2>3. /\ Len(data) = o + Len(g) + Len(c)
        /\ Carries(data, o, g)
        /\ From(data, o + Len(g)) = c
    BY <2>2, SplitAt
  <2> QED BY <1>2, <2>1, <2>3 DEF Carries
<1>6. Len(body) < 128 /\ Len(body) % 256 = Len(body) /\ o + 2 <= Len(data) /\ o + 2 \in Nat
  BY <1>1, <1>4, <1>5, LengthOctet
<1>7. /\ Len(data) = (o + 2) + Len(body) + Len(tail)
      /\ SubSeq(data, (o + 2) + 1, (o + 2) + Len(body)) = body
      /\ From(data, (o + 2) + Len(body)) = tail
  <2>1. PICK p \in Nat : p = o + 2
    BY <1>6
  <2>2. p <= Len(data) /\ From(data, p) = Cat(body, tail)
    BY <1>5, <1>6, <2>1
  <2>3. /\ Len(data) = p + Len(body) + Len(tail)
        /\ SubSeq(data, p + 1, p + Len(body)) = body
        /\ From(data, p + Len(body)) = tail
    BY <2>2, SplitAt
  <2> QED BY <2>1, <2>3
<1>8. Byte(o) = tag /\ Byte(o + 1) = Len(body)
  <2>1. (o + 1) + 1 = o + 2
    OBVIOUS
  <2> QED BY <1>2, <1>5, <1>6, <2>1 DEF Byte
<1>9. LengthOctets(o) = 0
  BY <1>6, <1>8 DEF LengthOctets
<1>10. Start(o) = o + 2 /\ Length(o) = Len(body) /\ End(o) = o + 2 + Len(body)
  BY <1>8, <1>9 DEF Start, Length, End
<1>11. ASSUME NEW limit \in Nat, End(o) <= limit PROVE Header(o, limit)
  BY <1>1, <1>6, <1>8, <1>9, <1>10, <1>11 DEF Header
<1> QED BY <1>5, <1>7, <1>8, <1>10, <1>11 DEF Ahead

-----------------------------------------------------------------------------
(* What serialize() makes, from the rear: what follows each element.       *)

\* A binding, and the contents of a list of them.
Bind == [oid : Seq(Octet), type : Octet, value : Seq(Octet)]
List(q) == FlattenSeq([k \in 1..Len(q) |-> Binding(q[k])])

LEMMA TagTypes == /\ SEQUENCE \in Octet /\ INTEGER \in Octet /\ OCTETS \in Octet /\ OBJECT \in Octet
BY DEF SEQUENCE, INTEGER, OCTETS, OBJECT, Octet

LEMMA BindingType ==
  ASSUME NEW b \in Bind
  PROVE  /\ Cat(Element(OBJECT, b.oid), Element(b.type, b.value)) \in Seq(Octet)
         /\ Binding(b) = Element(SEQUENCE, Cat(Element(OBJECT, b.oid), Element(b.type, b.value)))
         /\ Binding(b) \in Seq(Octet) /\ Len(Binding(b)) > 0
<1>1. b.oid \in Seq(Octet) /\ b.type \in Octet /\ b.value \in Seq(Octet)
  BY DEF Bind
<1>2. Element(OBJECT, b.oid) \in Seq(Octet) /\ Element(b.type, b.value) \in Seq(Octet)
  BY <1>1, TagTypes, ElementType
<1>3. Cat(Element(OBJECT, b.oid), Element(b.type, b.value)) \in Seq(Octet)
  BY <1>2, CatType
<1>4. Binding(b) = Element(SEQUENCE, Cat(Element(OBJECT, b.oid), Element(b.type, b.value)))
  BY DEF Binding, Cat
<1>5. Binding(b) \in Seq(Octet) /\ Len(Binding(b)) > 0
  <2>1. PICK c \in Seq(Octet) : c = Cat(Element(OBJECT, b.oid), Element(b.type, b.value))
    BY <1>3
  <2>2. Binding(b) \in Seq(Octet) /\ Len(Binding(b)) = Len(c) + 2 /\ Len(c) \in Nat
    <3>1. Binding(b) = Element(SEQUENCE, c)
      BY <1>4, <2>1
    <3>2. Element(SEQUENCE, c) \in Seq(Octet) /\ Len(Element(SEQUENCE, c)) = Len(c) + 2
      BY TagTypes, ElementType
    <3>3. Len(c) \in Nat
      OBVIOUS
    <3> QED BY <3>1, <3>2, <3>3
  <2> QED BY <2>2
<1> QED BY <1>3, <1>4, <1>5

LEMMA ListEmpty == List(<<>>) = <<>> /\ List(<<>>) \in Seq(Octet)
<1>1. [k \in 1..Len(<<>>) |-> Binding(<<>>[k])] = <<>>
  OBVIOUS
<1>2. List(<<>>) = <<>>
  BY <1>1 DEF List, FlattenSeq
<1>3. <<>> \in Seq(Octet)
  OBVIOUS
<1> QED BY <1>2, <1>3

\* The list, one binding at a time.
LEMMA ListCons ==
  ASSUME NEW q \in Seq(Bind), q # <<>>
  PROVE  /\ List(q) \in Seq(Octet)
         /\ List(q) = Cat(Binding(q[1]), List(Tail(q)))
<1> DEFINE s == [k \in 1..Len(q) |-> Binding(q[k])]
           r == [k \in 1..Len(Tail(q)) |-> Binding(Tail(q)[k])]
<1>1. Len(q) \in Nat /\ 1 \in 1..Len(q) /\ \A k \in 1..Len(q) : q[k] \in Bind
  OBVIOUS
<1>2. /\ Tail(q) \in Seq(Bind) /\ Len(Tail(q)) = Len(q) - 1
      /\ \A k \in 1..Len(Tail(q)) : Tail(q)[k] = q[k + 1]
  BY HeadTailProperties
<1>3. \A k \in 1..Len(q) : Binding(q[k]) \in Seq(Octet)
  BY <1>1, BindingType
<1>4. s \in Seq(Seq(Octet)) /\ Len(s) = Len(q) /\ s # <<>> /\ s[1] = Binding(q[1])
  <2>1. s \in Seq(Seq(Octet))
    BY <1>1, <1>3
  <2>2. Len(s) = Len(q) /\ s[1] = Binding(q[1])
    BY <1>1
  <2>3. Len(s) # 0 /\ Len(<<>>) = 0
    BY <1>1, <2>2
  <2> QED BY <2>1, <2>2, <2>3
<1>5. Tail(s) = r
  <2>1. /\ Tail(s) \in Seq(Seq(Octet)) /\ Len(Tail(s)) = Len(s) - 1
        /\ \A k \in 1..Len(Tail(s)) : Tail(s)[k] = s[k + 1]
    BY <1>4, HeadTailProperties
  <2>2. \A k \in 1..Len(Tail(q)) : s[k + 1] = r[k] /\ r[k] = Binding(q[k + 1]) /\ k + 1 \in 1..Len(q)
    BY <1>1, <1>2
  <2>3. r \in Seq(Seq(Octet)) /\ Len(r) = Len(Tail(q))
    BY <1>1, <1>2, <1>3
  <2> HIDE DEF s, r
  <2>4. \A k \in 1..Len(Tail(s)) : Tail(s)[k] = r[k]
    BY <1>2, <1>4, <2>1, <2>2
  <2>5. Len(Tail(s)) = Len(r)
    BY <1>2, <1>4, <2>1, <2>3
  <2> QED BY <2>1, <2>3, <2>4, <2>5, SeqEqual
<1> HIDE DEF s, r
<1>6. FlattenSeq(s) \in Seq(Octet) /\ FlattenSeq(s) = s[1] \o FlattenSeq(r)
  BY <1>4, <1>5, FlattenCons
<1>7. List(q) = FlattenSeq(s) /\ List(Tail(q)) = FlattenSeq(r)
  BY DEF List, s, r
<1> QED BY <1>4, <1>6, <1>7 DEF Cat

LEMMA ListType ==
  ASSUME NEW q \in Seq(Bind)
  PROVE  List(q) \in Seq(Octet) /\ (List(q) = <<>> => q = <<>>)
<1>1. CASE q = <<>>
  <2>1. List(q) = <<>> /\ List(q) \in Seq(Octet)
    BY <1>1, ListEmpty
  <2> QED BY <1>1, <2>1
<1>2. CASE q # <<>>
  <2>1. Tail(q) \in Seq(Bind) /\ q[1] \in Bind
    BY <1>2
  <2>2. List(Tail(q)) \in Seq(Octet)
    <3>1. CASE Tail(q) = <<>>
      BY <3>1, ListEmpty
    <3>2. CASE Tail(q) # <<>>
      BY <2>1, <3>2, ListCons
    <3> QED BY <3>1, <3>2
  <2>3. Binding(q[1]) \in Seq(Octet) /\ Len(Binding(q[1])) > 0
    BY <2>1, BindingType
  <2>4. Len(List(q)) = Len(Binding(q[1])) + Len(List(Tail(q)))
    BY <1>2, <2>2, <2>3, ListCons, CatType
  <2>5. Len(List(Tail(q))) \in Nat /\ Len(Binding(q[1])) \in Nat
    BY <2>2, <2>3
  <2>6. Len(List(q)) # 0 /\ Len(<<>>) = 0
    BY <2>3, <2>4, <2>5
  <2>7. List(q) # <<>>
    BY <2>6
  <2> QED BY <1>2, <2>7, ListCons
<1> QED BY <1>1, <1>2

\* What follows each element of a packet.
AfterIndex(p)     == Cat(Element(SEQUENCE, List(p.binds)), <<>>)
AfterStatus(p)    == Cat(Element(INTEGER, <<p.index>>), AfterIndex(p))
AfterId(p)        == Cat(Element(INTEGER, <<p.status>>), AfterStatus(p))
Fields(p)         == Cat(Element(INTEGER, p.id), AfterId(p))
AfterCommunity(p) == Cat(Element(p.pdu, Fields(p)), <<>>)
AfterVersion(p)   == Cat(Element(OCTETS, p.community), AfterCommunity(p))
Body(p)           == Cat(Element(INTEGER, <<p.version>>), AfterVersion(p))

LEMMA CatEmpty == \A D : \A a \in Seq(D) : Cat(a, <<>>) = a
BY DEF Cat

LEMMA PacketFields ==
  ASSUME NEW p \in Packet
  PROVE  /\ <<p.version>> \in Seq(Octet) /\ <<p.status>> \in Seq(Octet) /\ <<p.index>> \in Seq(Octet)
         /\ Len(<<p.version>>) = 1
         /\ p.community \in Seq(Octet) /\ p.pdu \in Octet /\ p.binds \in Seq(Bind)
         /\ p.id \in Seq(Octet) /\ Len(p.id) = 4
<1>1. /\ p.version \in Octet /\ p.status \in Octet /\ p.index \in Octet
      /\ p.community \in Seq(Octet) /\ p.pdu \in Octet /\ p.binds \in Seq(Bind)
      /\ p.id \in [1..4 -> Octet]
  BY DEF Packet, Bind, Word
<1>2. p.id \in Seq(Octet) /\ Len(p.id) = 4
  <2>1. PICK w \in [1..4 -> Octet] : w = p.id
    BY <1>1
  <2>2. w \in Seq(Octet)
    BY SeqDef
  <2>3. Len(w) \in Nat /\ DOMAIN w = 1..Len(w) /\ DOMAIN w = 1..4
    BY <2>2, LenProperties
  <2>4. Len(w) = 4
    BY <2>3
  <2> QED BY <2>1, <2>2, <2>4
<1> QED BY <1>1, <1>2

LEMMA AheadTypes ==
  ASSUME NEW p \in Packet
  PROVE  /\ Element(SEQUENCE, List(p.binds)) \in Seq(Octet) /\ AfterIndex(p) \in Seq(Octet) 
         /\ AfterStatus(p) \in Seq(Octet) /\ AfterId(p) \in Seq(Octet)
         /\ Fields(p) \in Seq(Octet) /\ AfterCommunity(p) \in Seq(Octet)
         /\ AfterVersion(p) \in Seq(Octet) /\ Body(p) \in Seq(Octet)
<1>0. <<>> \in Seq(Octet)
  OBVIOUS
<1>1. AfterIndex(p) \in Seq(Octet) /\ Element(SEQUENCE, List(p.binds)) \in Seq(Octet)
  BY <1>0, PacketFields, TagTypes, ListType, ElementType, CatType DEF AfterIndex
<1>2. AfterStatus(p) \in Seq(Octet)
  BY <1>1, PacketFields, TagTypes, ElementType, CatType DEF AfterStatus
<1>3. AfterId(p) \in Seq(Octet)
  BY <1>2, PacketFields, TagTypes, ElementType, CatType DEF AfterId
<1>4. Fields(p) \in Seq(Octet)
  BY <1>3, PacketFields, TagTypes, ElementType, CatType DEF Fields
<1>5. AfterCommunity(p) \in Seq(Octet)
  BY <1>0, <1>4, PacketFields, TagTypes, ElementType, CatType DEF AfterCommunity
<1>6. AfterVersion(p) \in Seq(Octet)
  BY <1>5, PacketFields, TagTypes, ElementType, CatType DEF AfterVersion
<1>7. Body(p) \in Seq(Octet)
  BY <1>6, PacketFields, TagTypes, ElementType, CatType DEF Body
<1> QED BY <1>1, <1>2, <1>3, <1>4, <1>5, <1>6, <1>7

\* serialize() joins from the left what parse() takes off from the left.
LEMMA PduFieldsIs ==
  ASSUME NEW p \in Packet
  PROVE  PduFields(p) = Fields(p)
<1>1. PICK a \in Seq(Octet), b \in Seq(Octet), c \in Seq(Octet), d \in Seq(Octet) :
        /\ a = Element(INTEGER, p.id) /\ b = Element(INTEGER, <<p.status>>)
        /\ c = Element(INTEGER, <<p.index>>) /\ d = Element(SEQUENCE, List(p.binds))
  BY PacketFields, TagTypes, ElementType, AheadTypes
<1>2. Fields(p) = Cat(a, Cat(b, Cat(c, Cat(d, <<>>))))
  BY <1>1 DEF Fields, AfterId, AfterStatus, AfterIndex
<1>3. PduFields(p) = Cat(Cat(Cat(a, b), c), d)
  BY <1>1 DEF PduFields, Cat, List
<1>4. Cat(Cat(Cat(a, b), c), d) = Cat(a, Cat(b, Cat(c, d)))
  <2>1. Cat(a, b) \in Seq(Octet) /\ Cat(c, d) \in Seq(Octet)
    BY CatType
  <2>2. Cat(Cat(Cat(a, b), c), d) = Cat(Cat(a, b), Cat(c, d))
    BY <2>1, Associative
  <2>3. Cat(Cat(a, b), Cat(c, d)) = Cat(a, Cat(b, Cat(c, d)))
    BY <2>1, Associative
  <2> QED BY <2>2, <2>3
<1> QED BY <1>2, <1>3, <1>4, CatEmpty

LEMMA SerializeIs ==
  ASSUME NEW p \in Packet
  PROVE  serialize(p) = Element(SEQUENCE, Body(p)) /\ serialize(p) \in Seq(Octet)
<1>1. PICK a \in Seq(Octet), b \in Seq(Octet), c \in Seq(Octet) :
        /\ a = Element(INTEGER, <<p.version>>) /\ b = Element(OCTETS, p.community)
        /\ c = Element(p.pdu, Fields(p))
  BY PacketFields, TagTypes, ElementType, AheadTypes
<1>2. Body(p) = Cat(a, Cat(b, Cat(c, <<>>)))
  BY <1>1 DEF Body, AfterVersion, AfterCommunity
<1>3. serialize(p) = Element(SEQUENCE, Cat(Cat(a, b), c))
  BY <1>1, PduFieldsIs DEF serialize, Cat
<1>4. Cat(Cat(a, b), c) = Cat(a, Cat(b, c))
  BY Associative
<1>5. serialize(p) = Element(SEQUENCE, Body(p))
  BY <1>2, <1>3, <1>4, CatEmpty
<1>6. Body(p) \in Seq(Octet)
  BY AheadTypes
<1>7. Element(SEQUENCE, Body(p)) \in Seq(Octet)
  BY <1>6, TagTypes, ElementType
<1> QED BY <1>5, <1>7

-----------------------------------------------------------------------------
(* Where parse() stands in a serialized packet.  The octets ahead of it are*)
(* those that serialize() put behind what it has read.                     *)

\* The bindings that parse() has appended.
Done == Len(packet.binds)

\* What follows the OID of binding k.
AfterOid(p, k) == Cat(Element(p.binds[k].type, p.binds[k].value), List(From(p.binds, k)))

\* Where parse() stands in the octets of p, and what it has read of them.
Position(p) ==
  /\ at = "packet"    => offset = 0
  /\ at = "version"   => Ahead(offset) = Body(p)
  /\ at = "community" => Ahead(offset) = AfterVersion(p)
  /\ at = "pdu"       => Ahead(offset) = AfterCommunity(p)
  /\ at = "id"        => Ahead(offset) = Fields(p)
  /\ at = "status"    => Ahead(offset) = AfterId(p)
  /\ at = "index"     => Ahead(offset) = AfterStatus(p)
  /\ at = "binds"     => Ahead(offset) = AfterIndex(p)
  /\ at = "bind"      => Ahead(offset) = List(From(p.binds, Done))
  /\ at = "oid"       => Ahead(offset) = Cat(Element(OBJECT, p.binds[Done + 1].oid),
                                             AfterOid(p, Done + 1))
  /\ at = "value"     => /\ Ahead(offset) = AfterOid(p, Done + 1)
                         /\ oid = p.binds[Done + 1].oid

\* The places at which nothing of the packet has been read, and those of s.
Before(s) == Results \cup {"packet"} \cup s

\* The ends of the enclosing elements are where serialize() put them.
Ending(p) ==
  /\ at \notin {"idle", "failed", "packet"} => Len(data) < 130
  /\ at \in Inner => pduEnd = Len(data)
  /\ at \in {"bind", "oid", "value"} => listEnd = Len(data)
  /\ at \in {"oid", "value"} =>
       bindEnd + Len(List(From(p.binds, Done + 1))) = Len(data)
  /\ at = "failed" => Len(data) >= 130

\* What parse() has passed it has assigned as it was.
HasRead(p) ==
  /\ at \notin Before({"version"}) => packet.version = p.version
  /\ at \notin Before({"version", "community"}) => packet.community = p.community
  /\ at \notin Before({"version", "community", "pdu"}) => packet.pdu = p.pdu
  /\ at \in {"status", "index", "binds", "bind", "oid", "value"} => packet.id = p.id
  /\ at \in {"index", "binds", "bind", "oid", "value"} => packet.status = p.status
  /\ at \in {"binds", "bind", "oid", "value"} => packet.index = p.index
  /\ at \in {"bind", "oid", "value"} =>
       Done <= Len(p.binds) /\ packet.binds = SubSeq(p.binds, 1, Done)
  /\ at \in {"oid", "value"} => Done < Len(p.binds)
  /\ at = "parsed" => packet = p

Following(p) == Position(p) /\ Ending(p) /\ HasRead(p)

\* A serialized packet is read as it was written.
WireInv ==
  sent # NoPacket => /\ sent \in Packet /\ data = serialize(sent)
                     /\ Following(sent)

LEMMA FromType ==
  ASSUME NEW S, NEW q \in Seq(S), NEW k \in Nat, k <= Len(q)
  PROVE  From(q, k) \in Seq(S) /\ Len(From(q, k)) = Len(q) - k
BY DEF From

\* One binding further in the list.
LEMMA FromCons ==
  ASSUME NEW S, NEW q \in Seq(S), NEW k \in Nat, k < Len(q)
  PROVE  /\ From(q, k) # <<>> /\ From(q, k)[1] = q[k + 1] /\ q[k + 1] \in S
         /\ Tail(From(q, k)) = From(q, k + 1)
         /\ Append(SubSeq(q, 1, k), q[k + 1]) = SubSeq(q, 1, k + 1)
<1>1. Len(q) \in Nat /\ k + 1 \in 1..Len(q)
  OBVIOUS
<1>2. From(q, k) \in Seq(S) /\ Len(From(q, k)) = Len(q) - k /\ From(q, k)[1] = q[k + 1]
  BY <1>1 DEF From
<1>3. From(q, k) # <<>>
  <2>1. Len(From(q, k)) # 0 /\ Len(<<>>) = 0
    BY <1>1, <1>2
  <2> QED BY <2>1
<1>4. Tail(From(q, k)) = From(q, k + 1)
  <2> DEFINE a == Tail(From(q, k))
             b == From(q, k + 1)
  <2>1. a \in Seq(S) /\ Len(a) = Len(q) - k - 1 /\ \A i \in 1..Len(a) : a[i] = From(q, k)[i + 1]
    BY <1>1, <1>2, <1>3, HeadTailProperties
  <2>2. \A i \in 1..(Len(q) - k) : From(q, k)[i] = q[k + i]
    BY <1>1 DEF From
  <2>3. b \in Seq(S) /\ Len(b) = Len(q) - k - 1 /\ \A i \in 1..Len(b) : b[i] = q[k + 1 + i]
    BY <1>1 DEF From
  <2> HIDE DEF a, b
  <2>4. ASSUME NEW i \in 1..Len(a) PROVE a[i] = b[i]
    <3>1. i + 1 \in 1..(Len(q) - k) /\ k + (i + 1) = k + 1 + i /\ i \in 1..Len(b)
      BY <1>1, <2>1, <2>3
    <3> QED BY <2>1, <2>2, <2>3, <3>1
  <2>5. a = b
    BY <2>1, <2>3, <2>4, SeqEqual
  <2> QED BY <2>5 DEF a, b
<1>5. Append(SubSeq(q, 1, k), q[k + 1]) = SubSeq(q, 1, k + 1)
  <2> DEFINE a == SubSeq(q, 1, k)
             b == SubSeq(q, 1, k + 1)
             c == Append(a, q[k + 1])
  <2>1. a \in Seq(S) /\ Len(a) = k /\ \A i \in 1..k : a[i] = q[i]
    BY <1>1
  <2>2. b \in Seq(S) /\ Len(b) = k + 1 /\ \A i \in 1..(k + 1) : b[i] = q[i]
    BY <1>1
  <2>3. q[k + 1] \in S
    BY <1>1
  <2> HIDE DEF a, b
  <2>4. c \in Seq(S) /\ Len(c) = k + 1 /\ \A i \in 1..k : c[i] = a[i]
    BY <2>1, <2>3
  <2>5. c[k + 1] = q[k + 1]
    BY <2>1, <2>3
  <2> HIDE DEF c
  <2>6. ASSUME NEW i \in 1..(k + 1) PROVE c[i] = b[i]
    <3>1. CASE i = k + 1
      BY <2>2, <2>5, <3>1
    <3>2. CASE i # k + 1
      <4>1. i \in 1..k
        BY <3>2
      <4> QED BY <2>1, <2>2, <2>4, <4>1
    <3> QED BY <3>1, <3>2
  <2>7. c = b
    BY <2>2, <2>4, <2>6, SeqEqual
  <2> QED BY <2>7 DEF a, b, c
<1> QED BY <1>1, <1>2, <1>3, <1>4, <1>5

\* The element that parse() expects is there: it is accepted, and read whole.
LEMMA Expected ==
  ASSUME TypeOK, Inside, Len(data) < 130, at \notin Results \cup {"packet"},
         NEW tag \in Octet, NEW body \in Seq(Octet), NEW tail \in Seq(Octet),
         Ahead(offset) = Cat(Element(tag, body), tail),
         tag \in Tag[at], at = "version" => Len(body) = 1,
         NEW n \in Nat, Limit + n = Len(data), n <= Len(tail), Limit \in Nat
  PROVE  /\ Accepts
         /\ Byte(offset) = tag /\ Contents = body
         /\ Start(offset) = offset + 2 /\ End(offset) = offset + 2 + Len(body)
         /\ Len(data) = End(offset) + Len(tail)
         /\ Ahead(Start(offset)) = Cat(body, tail)
         /\ Ahead(End(offset)) = tail
<1>1. offset \in Nat /\ offset <= Len(data) /\ data \in Seq(Octet)
  BY DEF TypeOK, Inside
<1>2. /\ Byte(offset) = tag
      /\ Start(offset) = offset + 2 /\ Length(offset) = Len(body)
      /\ End(offset) = offset + 2 + Len(body)
      /\ Len(data) = End(offset) + Len(tail)
      /\ \A limit \in Nat : End(offset) <= limit => Header(offset, limit)
      /\ SubSeq(data, Start(offset) + 1, End(offset)) = body
      /\ Ahead(Start(offset)) = Cat(body, tail)
      /\ Ahead(End(offset)) = tail
  BY <1>1, ElementParse
<1>3. End(offset) <= Limit
  <2>0. Len(body) \in Nat /\ Len(tail) \in Nat /\ End(offset) \in Nat
    <3>1. Len(body) \in Nat /\ Len(tail) \in Nat
      OBVIOUS
    <3>2. offset + 2 + Len(body) \in Nat
      BY <1>1, <3>1
    <3> QED BY <1>2, <3>1, <3>2
  <2>1. PICK l \in Nat, e \in Nat, m \in Nat : l = Limit /\ e = End(offset) /\ m = Len(tail)
    BY <2>0
  <2>2. l + n = e + m
    BY <1>2, <2>1
  <2>3. e <= l
    BY <2>1, <2>2
  <2> QED BY <2>1, <2>3
<1>4. Accepts
  BY <1>2, <1>3 DEF Accepts
<1> QED BY <1>2, <1>4 DEF Contents

\* An element that is accepted is read, and by one step only.
LEMMA OnlyStep ==
  ASSUME TypeOK, Parse, Accepts
  PROVE  /\ at = "packet" => ReadPacket
         /\ at = "version" => ReadVersion
         /\ at = "community" => ReadCommunity
         /\ at = "pdu" => ReadPdu
         /\ at = "id" => ReadId
         /\ at = "status" => ReadStatus
         /\ at = "index" => ReadIndex
         /\ at = "binds" => ReadBinds
         /\ at = "bind" /\ offset < listEnd => ReadBind
         /\ at = "oid" => ReadOid
         /\ at = "value" => ReadValue
<1>1. /\ ReadPacket => at = "packet"
      /\ ReadVersion => at = "version"
      /\ ReadCommunity => at = "community"
      /\ ReadPdu => at = "pdu"
      /\ ReadId => at = "id"
      /\ ReadStatus => at = "status"
      /\ ReadIndex => at = "index"
      /\ ReadBinds => at = "binds"
      /\ ReadBind => at = "bind"
      /\ ReadOid => at = "oid"
      /\ ReadValue => at = "value"
  BY DEF ReadPacket, ReadVersion, ReadCommunity, ReadPdu, ReadId, ReadStatus,
         ReadIndex, ReadBinds, ReadBind, ReadOid, ReadValue
<1>2. Finish => at = "bind" /\ ~ (offset < listEnd)
  BY DEF Finish, TypeOK
<1>3. ~ Fail
  BY DEF Fail
<1> QED BY <1>1, <1>2, <1>3 DEF Parse

LEMMA CatEmptyTail ==
  ASSUME NEW a \in Seq(Octet)
  PROVE  Cat(a, <<>>) = a /\ <<>> \in Seq(Octet) /\ Len(<<>>) = 0
BY DEF Cat

\* The limit, by the place.
LEMMA LimitIs ==
  /\ at \in Outer => Limit = Len(data)
  /\ at \in Inner => Limit = pduEnd
  /\ at = "bind" => Limit = listEnd
  /\ at \in {"oid", "value"} => Limit = bindEnd
BY DEF Limit, Outer, Inner

\* Four octets are those the request ID keeps.
LEMMA LastOfFour ==
  ASSUME NEW q \in Seq(Octet), Len(q) = 4
  PROVE  LastFour(<<0, 0, 0, 0>> \o q) = q
<1>1. PICK z \in Seq(Octet) : z = <<0, 0, 0, 0>> /\ Len(z) = 4
  <2>1. <<0, 0, 0, 0>> \in Seq(Octet) /\ Len(<<0, 0, 0, 0>>) = 4
    BY DEF Octet
  <2> QED BY <2>1
<1>2. PICK r \in Seq(Octet) : r = Cat(z, q) /\ Len(r) = 8
  <2>1. Cat(z, q) \in Seq(Octet) /\ Len(Cat(z, q)) = Len(z) + Len(q)
    BY CatType
  <2>2. Len(Cat(z, q)) = 8
    BY <1>1, <2>1
  <2> QED BY <2>1, <2>2
<1>3. From(r, 4) = q
  <2>1. PICK o \in Nat : o = 0
    OBVIOUS
  <2>2. o <= Len(r) /\ From(r, o) = Cat(z, q)
    BY <1>2, <2>1 DEF From
  <2>3. From(r, o + Len(z)) = q
    BY <2>2, SplitAt
  <2> QED BY <1>1, <2>1, <2>3
<1>4. LastFour(r) = From(r, 4)
  BY <1>2 DEF LastFour, From
<1> QED BY <1>1, <1>2, <1>3, <1>4 DEF Cat

LEMMA LastOfOne ==
  ASSUME NEW x \in Octet
  PROVE  LastOf(<<0>> \o <<x>>) = x
BY DEF LastOf

\* The same where the limit is the end of the datagram.
LEMMA ExpectedHere ==
  ASSUME TypeOK, Inside, Len(data) < 130, at \notin Results \cup {"packet"},
         NEW tag \in Octet, NEW body \in Seq(Octet), NEW tail \in Seq(Octet),
         Ahead(offset) = Cat(Element(tag, body), tail),
         tag \in Tag[at], at = "version" => Len(body) = 1, Limit = Len(data)
  PROVE  /\ Accepts
         /\ Byte(offset) = tag /\ Contents = body
         /\ Start(offset) = offset + 2 /\ End(offset) = offset + 2 + Len(body)
         /\ Len(data) = End(offset) + Len(tail)
         /\ Ahead(Start(offset)) = Cat(body, tail)
         /\ Ahead(End(offset)) = tail
<1>1. Len(data) \in Nat /\ Len(tail) \in Nat
  BY DEF TypeOK
<1>2. PICK n \in Nat : Limit + n = Len(data) /\ n <= Len(tail) /\ Limit \in Nat
  <2>1. Limit + 0 = Len(data) /\ 0 <= Len(tail) /\ Limit \in Nat /\ 0 \in Nat
    BY <1>1
  <2> QED BY <2>1
<1> QED BY <1>2, Expected

LEMMA CatOctets ==
  ASSUME NEW a \in Seq(Octet), NEW b \in Seq(Octet), NEW c, c = Cat(a, b)
  PROVE  Len(c) = Len(a) + Len(b) /\ Carries(c, 0, a) /\ Carries(c, Len(a), b)
BY DEF Cat, Carries

LEMMA ElementOctets ==
  ASSUME NEW tag \in Octet, NEW body \in Seq(Octet), NEW e \in Seq(Octet),
         e = Element(tag, body)
  PROVE  /\ Len(e) = Len(body) + 2
         /\ e[1] = tag /\ e[2] = Len(body) % 256
         /\ Carries(e, 2, body)
<1>1. PICK h \in Seq(Octet) : /\ h = <<tag, Len(body) % 256>> /\ Len(h) = 2
                              /\ h[1] = tag /\ h[2] = Len(body) % 256
  <2>1. Len(body) \in Nat
    OBVIOUS
  <2>2. Len(body) % 256 \in Octet
    BY <2>1, LengthOctet
  <2>3. <<tag, Len(body) % 256>> \in Seq(Octet)
    BY <2>2
  <2> QED BY <2>3
<1>2. Len(e) = Len(body) + 2 /\ e = Cat(h, body)
  BY <1>1, ElementType
<1>3. Carries(e, 0, h) /\ Carries(e, Len(h), body)
  BY <1>2, CatOctets
<1>4. e[1] = h[1] /\ e[2] = h[2]
  <2>1. 1 \in 1..Len(h) /\ 2 \in 1..Len(h)
    BY <1>1
  <2> QED BY <1>3, <2>1 DEF Carries
<1> QED BY <1>1, <1>2, <1>3, <1>4

\* The first octets of a serialized packet: two headers around the version, then
\* the tag of the community.
LEMMA SerializedHead ==
  ASSUME NEW p \in Packet
  PROVE  \E n \in Nat : /\ Len(serialize(p)) = n + 2 /\ n >= 4
                        /\ serialize(p)[1] = 48 /\ serialize(p)[2] = n % 256
                        /\ serialize(p)[3] = 2 /\ serialize(p)[4] = 1
                        /\ serialize(p)[5] = p.version /\ serialize(p)[6] = 4
<1>1. PICK v \in Seq(Octet), t \in Seq(Octet) :
        v = <<p.version>> /\ Len(v) = 1 /\ v[1] = p.version /\ t = AfterVersion(p)
  BY PacketFields, AheadTypes
<1>9. Len(t) \in Nat /\ Len(t) >= 1 /\ t[1] = 4
  <2>1. PICK b \in Seq(Octet), u \in Seq(Octet) : b = p.community /\ u = AfterCommunity(p)
    BY PacketFields, AheadTypes
  <2>2. OCTETS = 4 /\ OCTETS \in Octet
    BY TagTypes DEF OCTETS
  <2>3. PICK e \in Seq(Octet) : e = Element(OCTETS, b)
    BY <2>2, ElementType
  <2>4. Len(e) = Len(b) + 2 /\ e[1] = 4
    BY <2>2, <2>3, ElementOctets
  <2>5. t = Cat(e, u)
    BY <1>1, <2>1, <2>3 DEF AfterVersion
  <2>6. Len(t) = Len(e) + Len(u) /\ Carries(t, 0, e)
    BY <2>5, CatOctets
  <2>7. 1 \in 1..Len(e) /\ Len(e) \in Nat /\ Len(u) \in Nat /\ Len(e) >= 1
    BY <2>4
  <2>8. t[0 + 1] = e[1]
    BY <2>6, <2>7 DEF Carries
  <2> QED BY <2>4, <2>6, <2>7, <2>8
<1>2. PICK e \in Seq(Octet) : /\ e = Element(INTEGER, v) /\ Len(e) = 3
                              /\ e[1] = 2 /\ e[2] = 1 /\ e[3] = p.version
  <2>1. PICK e \in Seq(Octet) : e = Element(INTEGER, v)
    BY TagTypes, ElementType
  <2>2. INTEGER = 2 /\ INTEGER \in Octet
    BY TagTypes DEF INTEGER
  <2>3. /\ Len(e) = Len(v) + 2 /\ e[1] = INTEGER /\ e[2] = Len(v) % 256
        /\ Carries(e, 2, v)
    BY <2>1, <2>2, ElementOctets
  <2>4. Len(v) % 256 = 1 /\ 1 \in 1..Len(v)
    BY <1>1, LengthOctet
  <2>5. e[2 + 1] = v[1]
    BY <2>3, <2>4 DEF Carries
  <2> QED BY <1>1, <2>1, <2>2, <2>3, <2>4, <2>5
<1>3. PICK c \in Seq(Octet) : c = Body(p) /\ c = Cat(e, t)
  BY <1>1, <1>2, AheadTypes DEF Body
<1>4. PICK n \in Nat : /\ n = Len(c) /\ n >= 4
                       /\ c[1] = 2 /\ c[2] = 1 /\ c[3] = p.version /\ c[4] = 4
  <2>1. Len(c) = Len(e) + Len(t) /\ Carries(c, 0, e) /\ Carries(c, Len(e), t)
    BY <1>3, CatOctets
  <2>2. Len(t) \in Nat /\ Len(c) \in Nat
    OBVIOUS
  <2>3. 1 \in 1..Len(e) /\ 2 \in 1..Len(e) /\ 3 \in 1..Len(e)
    BY <1>2
  <2>4. c[0 + 1] = e[1] /\ c[0 + 2] = e[2] /\ c[0 + 3] = e[3]
    BY <2>1, <2>3 DEF Carries
  <2>5. 1 \in 1..Len(t)
    BY <1>9
  <2>6. c[Len(e) + 1] = t[1]
    BY <2>1, <2>5 DEF Carries
  <2> QED BY <1>2, <1>9, <2>1, <2>2, <2>4, <2>6
<1>5. PICK s \in Seq(Octet) : s = serialize(p) /\ s = Element(SEQUENCE, c)
  BY <1>3, SerializeIs
<1>6. SEQUENCE = 48 /\ SEQUENCE \in Octet
  BY TagTypes DEF SEQUENCE
<1>7. Len(s) = n + 2 /\ s[1] = 48 /\ s[2] = n % 256 /\ Carries(s, 2, c)
  BY <1>4, <1>5, <1>6, ElementOctets
<1>8. s[2 + 1] = c[1] /\ s[2 + 2] = c[2] /\ s[2 + 3] = c[3] /\ s[2 + 4] = c[4]
  <2>1. 1 \in 1..Len(c) /\ 2 \in 1..Len(c) /\ 3 \in 1..Len(c) /\ 4 \in 1..Len(c)
    BY <1>4
  <2> QED BY <1>7, <2>1 DEF Carries
<1> QED BY <1>4, <1>5, <1>7, <1>8

\* What the first octets of a serialized packet announce, whatever follows.
LEMMA HeadLength ==
  ASSUME data \in Seq(Octet), NEW r \in Octet, Len(data) >= 2 => data[2] = r,
         Len(data) >= 3 => data[3] = 2, Len(data) >= 4 => data[4] = 1,
         Header(0, Len(data))
  PROVE  \/ r < 128 /\ End(0) = r + 2
         \/ r = 129 /\ End(0) = 5 /\ Start(0) = 3
         \/ r = 130 /\ End(0) = 517 /\ Start(0) = 4
         \/ r = 131 /\ End(0) = 65541
         \/ r = 132 /\ End(0) = 65542
<1>1. Len(data) \in Nat /\ r \in Nat
  BY DEF Octet
<1>2. Byte(0 + 1) = r /\ Len(data) >= 2
  BY <1>1 DEF Byte, Header
<1>3. LengthOctets(0) = (IF r < 128 THEN 0 ELSE r - 128) /\ r # 128 /\ LengthOctets(0) <= 4
      /\ 0 + 1 + LengthOctets(0) < Len(data)
  BY <1>2 DEF LengthOctets, Header
<1>4. CASE r < 128
  BY <1>1, <1>2, <1>3, <1>4 DEF End, Start, Length
<1>5. CASE r = 129
  <2>1. LengthOctets(0) = 1 /\ Len(data) >= 3
    BY <1>1, <1>3, <1>5
  <2>2. Byte(0 + 1 + 1) = 2
    BY <2>1 DEF Byte
  <2>3. Length(0) = 2 /\ Start(0) = 3
    BY <2>1, <2>2 DEF Length, Start
  <2> QED BY <1>5, <2>3 DEF End
<1>6. CASE r = 130
  <2>1. LengthOctets(0) = 2 /\ Len(data) >= 4
    BY <1>1, <1>3, <1>6
  <2>2. Byte(0 + 2) = 2 /\ Byte(0 + 2 + 1) = 1
    BY <2>1 DEF Byte
  <2>3. Length(0) = 513 /\ Start(0) = 4
    BY <2>1, <2>2 DEF Length, Start
  <2> QED BY <1>6, <2>3 DEF End
<1>7. CASE r \in {131, 132}
  <2>1. LengthOctets(0) = r - 128 /\ Len(data) >= 3
    BY <1>1, <1>3, <1>7
  <2>2. Byte(0 + 1 + 1) # 0
    BY <2>1 DEF Byte
  <2>3. 1 \in 1..(r - 128 - 2)
    BY <1>7
  <2>4. Length(0) = 65536 /\ Start(0) = r - 126
    BY <1>7, <2>1, <2>2, <2>3 DEF Length, Start, Beyond
  <2> QED BY <1>7, <2>4 DEF End
<1> QED BY <1>1, <1>3, <1>4, <1>5, <1>6, <1>7

\* A packet of 128 octets and more is refused at its first length.
LEMMA LongIsRefused ==
  ASSUME NEW p \in Packet, data = serialize(p), offset = 0, at = "packet", TypeOK,
         ~ (Len(data) < 130)
  PROVE  ~ Accepts
<1> SUFFICES ASSUME Accepts PROVE FALSE
  OBVIOUS
<1>1. Header(0, Len(data)) /\ End(0) = Len(data) /\ data \in Seq(Octet)
  <2>1. Limit = Len(data)
    BY LimitIs DEF Outer
  <2> QED BY <2>1 DEF Accepts, TypeOK
<1>2. PICK n \in Nat : /\ Len(data) = n + 2 /\ data[2] = n % 256
                       /\ data[3] = 2 /\ data[4] = 1
  BY SerializedHead
<1>3. PICK r \in Octet : r = n % 256
  BY LengthOctet
<1>4. \/ r < 128 /\ n + 2 = r + 2
      \/ r = 129 /\ n + 2 = 5
      \/ r = 130 /\ n + 2 = 517
      \/ r = 131 /\ n + 2 = 65541
      \/ r = 132 /\ n + 2 = 65542
  BY <1>1, <1>2, <1>3, HeadLength
<1>5. n >= 128
  BY <1>2
<1> QED BY <1>3, <1>4, <1>5

\* One lemma for each step of parse(): it stays in the packet.
LEMMA StepPacket ==
  ASSUME TypeOK, Inside, NEW p \in Packet, Following(p), data = serialize(p),
         at = "packet", Parse
  PROVE  Following(p)'
<1>1. PICK c \in Seq(Octet) : c = Body(p)
  BY AheadTypes
<1>2. /\ data \in Seq(Octet) /\ offset = 0 /\ offset \in Nat /\ Len(data) \in Nat
      /\ Limit = Len(data)
  <2>1. offset = 0
    BY DEF Following, Position
  <2>2. Limit = Len(data)
    BY LimitIs DEF Outer
  <2>3. data \in Seq(Octet) /\ Len(data) \in Nat
    BY DEF TypeOK
  <2> QED BY <2>1, <2>2, <2>3
<1>3. /\ data = Element(SEQUENCE, c) /\ Len(data) = Len(c) + 2
      /\ data = Cat(<<SEQUENCE, Len(c) % 256>>, c)
  <2>1. data = Element(SEQUENCE, c)
    BY <1>1, SerializeIs
  <2>2. SEQUENCE \in Octet
    BY TagTypes
  <2> QED BY <2>1, <2>2, ElementType
<1>4. Ahead(offset) = Cat(Element(SEQUENCE, c), <<>>)
  <2>1. Cat(Element(SEQUENCE, c), <<>>) = data
    BY <1>2, <1>3, CatEmptyTail
  <2>2. Ahead(offset) = data
    BY <1>2 DEF Ahead, From
  <2> QED BY <2>1, <2>2
<1>5. CASE Len(data) < 130
  <2>1. PICK tag \in Octet, tail \in Seq(Octet) : tag = SEQUENCE /\ tail = <<>>
    <3>1. SEQUENCE \in Octet /\ <<>> \in Seq(Octet)
      BY TagTypes
    <3> QED BY <3>1
  <2>2. /\ Byte(offset) = SEQUENCE /\ End(offset) = Len(data)
        /\ Header(offset, Len(data)) /\ Ahead(Start(offset)) = c
    <3>1. offset <= Len(data) /\ Ahead(offset) = Cat(Element(tag, c), tail)
      BY <1>2, <1>4, <2>1
    <3>2. /\ Byte(offset) = tag /\ End(offset) = offset + 2 + Len(c)
          /\ \A limit \in Nat : End(offset) <= limit => Header(offset, limit)
          /\ Ahead(Start(offset)) = Cat(c, tail)
      BY <1>2, <1>5, <3>1, ElementParse
    <3>3. End(offset) = Len(data) /\ End(offset) <= Len(data)
      BY <1>2, <1>3, <3>2
    <3> QED BY <1>2, <2>1, <3>2, <3>3, CatEmptyTail
  <2>3. Accepts
    BY <1>2, <2>2 DEF Accepts, Tag
  <2>4. ReadPacket
    BY <2>3, OnlyStep
  <2>5. /\ at' = "version" /\ offset' = Start(offset) /\ data' = data
    BY <2>4 DEF ReadPacket, Goto
  <2>6. Ahead(offset)' = Body(p)
    BY <1>1, <2>2, <2>5 DEF Ahead
  <2>7. Position(p)'
    BY <2>5, <2>6 DEF Position
  <2>8. Ending(p)'
    BY <1>5, <2>5 DEF Ending, Before, Inner, Results
  <2>9. HasRead(p)'
    BY <2>5 DEF HasRead, Before, Results
  <2> QED BY <2>7, <2>8, <2>9 DEF Following
<1>6. CASE ~ (Len(data) < 130)
  <2>1. ~ Accepts
    BY <1>2, <1>6, LongIsRefused
  <2>2. at' = "failed" /\ data' = data
    BY <2>1 DEF Parse, Fail, ReadPacket, ReadVersion, ReadCommunity, ReadPdu, ReadId,
                ReadStatus, ReadIndex, ReadBinds, ReadBind, ReadOid, ReadValue, Finish
  <2>3. Position(p)' /\ HasRead(p)'
    BY <2>2 DEF Position, HasRead, Before, Results
  <2>4. Ending(p)'
    BY <1>2, <1>6, <2>2 DEF Ending, Before, Inner, Results
  <2> QED BY <2>3, <2>4 DEF Following
<1> QED BY <1>5, <1>6

LEMMA StepVersion ==
  ASSUME TypeOK, Inside, NEW p \in Packet, Following(p), at = "version", Parse
  PROVE  Following(p)'
<1>1. Len(data) < 130 /\ Len(data) \in Nat /\ Limit = Len(data)
  BY DEF Following, Ending, Before, Results, Limit, Outer, TypeOK
<1>2. PICK body \in Seq(Octet), tail \in Seq(Octet) :
        /\ body = <<p.version>> /\ Len(body) = 1 /\ tail = AfterVersion(p)
        /\ Ahead(offset) = Cat(Element(INTEGER, body), tail)
  BY PacketFields, AheadTypes DEF Following, Position, Body
<1>3. /\ Accepts /\ Contents = body
      /\ Start(offset) = offset + 2 /\ End(offset) = offset + 2 + Len(body)
      /\ Ahead(Start(offset)) = Cat(body, tail) /\ Ahead(End(offset)) = tail
      /\ Len(data) = End(offset) + Len(tail)
  <2>1. INTEGER \in Tag[at] /\ INTEGER \in Octet /\ at \notin Results \cup {"packet"}
    BY TagTypes DEF Tag, Results
  <2> QED BY <1>1, <1>2, <2>1, ExpectedHere
<1>4. ReadVersion
  BY <1>3, OnlyStep
<1>5. Byte(Start(offset)) = p.version
  <2>1. PICK o \in Nat : o = Start(offset) /\ o <= Len(data)
    BY <1>1, <1>2, <1>3 DEF TypeOK
  <2>2. data \in Seq(Octet) /\ From(data, o) = Cat(body, tail)
    BY <1>3, <2>1 DEF Ahead, TypeOK
  <2>3. Carries(data, o, body)
    BY <2>1, <2>2, SplitAt
  <2>4. data[o + 1] = p.version
    BY <1>2, <2>3 DEF Carries
  <2> QED BY <2>1, <2>4 DEF Byte
<1>6. /\ at' = "community" /\ offset' = End(offset) /\ data' = data
      /\ packet' = [packet EXCEPT !.version = p.version]
  BY <1>4, <1>5 DEF ReadVersion, Goto, Assign
<1>7. Ahead(offset)' = AfterVersion(p)
  BY <1>2, <1>3, <1>6 DEF Ahead
<1>8. Position(p)'
  BY <1>6, <1>7 DEF Position
<1>9. Ending(p)'
  BY <1>1, <1>6 DEF Ending, Before, Inner, Results
<1>10. HasRead(p)'
  BY <1>6 DEF HasRead, Before, Results, TypeOK, Packet
<1> QED BY <1>8, <1>9, <1>10 DEF Following

LEMMA StepCommunity ==
  ASSUME TypeOK, Inside, NEW p \in Packet, Following(p), at = "community", Parse
  PROVE  Following(p)'
<1>1. Len(data) < 130 /\ Len(data) \in Nat /\ Limit = Len(data)
  <2>1. at \in Outer /\ at \notin Before({})
    BY DEF Outer, Before, Results
  <2> QED BY <2>1, LimitIs DEF Following, Ending, TypeOK
<1>2. PICK body \in Seq(Octet), tail \in Seq(Octet) :
        /\ body = p.community /\ tail = AfterCommunity(p)
        /\ Ahead(offset) = Cat(Element(OCTETS, body), tail)
  BY PacketFields, AheadTypes DEF Following, Position, AfterVersion
<1>3. /\ Accepts /\ Contents = body
      /\ Ahead(End(offset)) = tail
  <2>1. OCTETS \in Tag[at] /\ OCTETS \in Octet /\ at \notin Results \cup {"packet"}
    BY TagTypes DEF Tag, Results
  <2>2. at = "version" => Len(body) = 1
    OBVIOUS
  <2> QED BY <1>1, <1>2, <2>1, <2>2, ExpectedHere
<1>4. ReadCommunity
  BY <1>3, OnlyStep
<1>5. packet' = [packet EXCEPT !.community = p.community]
  BY <1>2, <1>3, <1>4 DEF ReadCommunity, Assign
<1>6. /\ at' = "pdu" /\ offset' = End(offset) /\ data' = data
      /\ pduEnd' = pduEnd
  BY <1>4 DEF ReadCommunity, Goto, Ends
<1>7. Ahead(offset)' = AfterCommunity(p)
  BY <1>2, <1>3, <1>6 DEF Ahead
<1>8. Position(p)'
  BY <1>6, <1>7 DEF Position
<1>9. Ending(p)'
  BY <1>1, <1>6 DEF Ending, Before, Inner, Results
<1>10. HasRead(p)'
  BY <1>5, <1>6 DEF Following, HasRead, Before, Results, TypeOK, Packet
<1> QED BY <1>8, <1>9, <1>10 DEF Following

LEMMA StepId ==
  ASSUME TypeOK, Inside, NEW p \in Packet, Following(p), at = "id", Parse
  PROVE  Following(p)'
<1>1. Len(data) < 130 /\ Len(data) \in Nat /\ Limit = Len(data) /\ pduEnd = Len(data)
  <2>1. at \in Inner /\ at \notin Before({})
    BY DEF Inner, Before, Results
  <2> QED BY <2>1, LimitIs DEF Following, Ending, TypeOK
<1>2. PICK body \in Seq(Octet), tail \in Seq(Octet) :
        /\ body = p.id /\ tail = AfterId(p)
        /\ Ahead(offset) = Cat(Element(INTEGER, body), tail)
  BY PacketFields, AheadTypes DEF Following, Position, Fields
<1>3. /\ Accepts /\ Contents = body
      /\ Ahead(End(offset)) = tail
  <2>1. INTEGER \in Tag[at] /\ INTEGER \in Octet /\ at \notin Results \cup {"packet"}
    BY TagTypes DEF Tag, Results
  <2>2. at = "version" => Len(body) = 1
    OBVIOUS
  <2> QED BY <1>1, <1>2, <2>1, <2>2, ExpectedHere
<1>4. ReadId
  BY <1>3, OnlyStep
<1>5. packet' = [packet EXCEPT !.id = p.id]
  <2>1. LastFour(<<0, 0, 0, 0>> \o body) = body
    BY <1>2, PacketFields, LastOfFour
  <2> QED BY <1>2, <1>3, <1>4, <2>1 DEF ReadId, Assign
<1>6. /\ at' = "status" /\ offset' = End(offset) /\ data' = data
      /\ pduEnd' = pduEnd
  BY <1>4 DEF ReadId, Goto, Ends
<1>7. Ahead(offset)' = AfterId(p)
  BY <1>2, <1>3, <1>6 DEF Ahead
<1>8. Position(p)'
  BY <1>6, <1>7 DEF Position
<1>9. Ending(p)'
  BY <1>1, <1>6 DEF Ending, Before, Inner, Results
<1>10. HasRead(p)'
  BY <1>5, <1>6 DEF Following, HasRead, Before, Results, TypeOK, Packet
<1> QED BY <1>8, <1>9, <1>10 DEF Following

LEMMA StepStatus ==
  ASSUME TypeOK, Inside, NEW p \in Packet, Following(p), at = "status", Parse
  PROVE  Following(p)'
<1>1. Len(data) < 130 /\ Len(data) \in Nat /\ Limit = Len(data) /\ pduEnd = Len(data)
  <2>1. at \in Inner /\ at \notin Before({})
    BY DEF Inner, Before, Results
  <2> QED BY <2>1, LimitIs DEF Following, Ending, TypeOK
<1>2. PICK body \in Seq(Octet), tail \in Seq(Octet) :
        /\ body = <<p.status>> /\ tail = AfterStatus(p)
        /\ Ahead(offset) = Cat(Element(INTEGER, body), tail)
  BY PacketFields, AheadTypes DEF Following, Position, AfterId
<1>3. /\ Accepts /\ Contents = body
      /\ Ahead(End(offset)) = tail
  <2>1. INTEGER \in Tag[at] /\ INTEGER \in Octet /\ at \notin Results \cup {"packet"}
    BY TagTypes DEF Tag, Results
  <2>2. at = "version" => Len(body) = 1
    OBVIOUS
  <2> QED BY <1>1, <1>2, <2>1, <2>2, ExpectedHere
<1>4. ReadStatus
  BY <1>3, OnlyStep
<1>5. packet' = [packet EXCEPT !.status = p.status]
  <2>1. p.status \in Octet
    BY DEF Packet
  <2>2. LastOf(<<0>> \o body) = p.status
    BY <1>2, <2>1, LastOfOne
  <2> QED BY <1>3, <1>4, <2>2 DEF ReadStatus, ReadError, Assign
<1>6. /\ at' = "index" /\ offset' = End(offset) /\ data' = data
      /\ pduEnd' = pduEnd
  BY <1>4 DEF ReadStatus, ReadError, Goto, Ends
<1>7. Ahead(offset)' = AfterStatus(p)
  BY <1>2, <1>3, <1>6 DEF Ahead
<1>8. Position(p)'
  BY <1>6, <1>7 DEF Position
<1>9. Ending(p)'
  BY <1>1, <1>6 DEF Ending, Before, Inner, Results
<1>10. HasRead(p)'
  BY <1>5, <1>6 DEF Following, HasRead, Before, Results, TypeOK, Packet
<1> QED BY <1>8, <1>9, <1>10 DEF Following

LEMMA StepIndex ==
  ASSUME TypeOK, Inside, NEW p \in Packet, Following(p), at = "index", Parse
  PROVE  Following(p)'
<1>1. Len(data) < 130 /\ Len(data) \in Nat /\ Limit = Len(data) /\ pduEnd = Len(data)
  <2>1. at \in Inner /\ at \notin Before({})
    BY DEF Inner, Before, Results
  <2> QED BY <2>1, LimitIs DEF Following, Ending, TypeOK
<1>2. PICK body \in Seq(Octet), tail \in Seq(Octet) :
        /\ body = <<p.index>> /\ tail = AfterIndex(p)
        /\ Ahead(offset) = Cat(Element(INTEGER, body), tail)
  BY PacketFields, AheadTypes DEF Following, Position, AfterStatus
<1>3. /\ Accepts /\ Contents = body
      /\ Ahead(End(offset)) = tail
  <2>1. INTEGER \in Tag[at] /\ INTEGER \in Octet /\ at \notin Results \cup {"packet"}
    BY TagTypes DEF Tag, Results
  <2>2. at = "version" => Len(body) = 1
    OBVIOUS
  <2> QED BY <1>1, <1>2, <2>1, <2>2, ExpectedHere
<1>4. ReadIndex
  BY <1>3, OnlyStep
<1>5. packet' = [packet EXCEPT !.index = p.index]
  <2>1. p.index \in Octet
    BY DEF Packet
  <2>2. LastOf(<<0>> \o body) = p.index
    BY <1>2, <2>1, LastOfOne
  <2> QED BY <1>3, <1>4, <2>2 DEF ReadIndex, ReadError, Assign
<1>6. /\ at' = "binds" /\ offset' = End(offset) /\ data' = data
      /\ pduEnd' = pduEnd
  BY <1>4 DEF ReadIndex, ReadError, Goto, Ends
<1>7. Ahead(offset)' = AfterIndex(p)
  BY <1>2, <1>3, <1>6 DEF Ahead
<1>8. Position(p)'
  BY <1>6, <1>7 DEF Position
<1>9. Ending(p)'
  BY <1>1, <1>6 DEF Ending, Before, Inner, Results
<1>10. HasRead(p)'
  BY <1>5, <1>6 DEF Following, HasRead, Before, Results, TypeOK, Packet
<1> QED BY <1>8, <1>9, <1>10 DEF Following

LEMMA StepPdu ==
  ASSUME TypeOK, Inside, NEW p \in Packet, Following(p), at = "pdu", Parse
  PROVE  Following(p)'
<1>1. Len(data) < 130 /\ Len(data) \in Nat /\ Limit = Len(data)
  <2>1. at \in Outer /\ at \notin Before({})
    BY DEF Outer, Before, Results
  <2> QED BY <2>1, LimitIs DEF Following, Ending, TypeOK
<1>2. PICK body \in Seq(Octet), tail \in Seq(Octet), tag \in Octet :
        /\ body = Fields(p) /\ tail = <<>> /\ Len(tail) = 0 /\ tag = p.pdu
        /\ Ahead(offset) = Cat(Element(tag, body), tail)
  <2>1. <<>> \in Seq(Octet) /\ Len(<<>>) = 0
    OBVIOUS
  <2> QED BY <2>1, PacketFields, AheadTypes DEF Following, Position, AfterCommunity
<1>3. /\ Accepts /\ Byte(offset) = tag
      /\ End(offset) = offset + 2 + Len(body) /\ Len(data) = End(offset) + Len(tail)
      /\ Ahead(Start(offset)) = Cat(body, tail)
  <2>1. tag \in Tag[at] /\ at \notin Results \cup {"packet"}
    BY DEF Tag, Results
  <2>2. at = "version" => Len(body) = 1
    OBVIOUS
  <2> QED BY <1>1, <1>2, <2>1, <2>2, ExpectedHere
<1>4. ReadPdu
  BY <1>3, OnlyStep
<1>5. packet' = [packet EXCEPT !.pdu = p.pdu]
  BY <1>2, <1>3, <1>4 DEF ReadPdu, Assign
<1>6. /\ at' = "id" /\ offset' = Start(offset) /\ data' = data
      /\ pduEnd' = Len(data)
  <2>1. End(offset) = Len(data)
    BY <1>2, <1>3 DEF TypeOK
  <2> QED BY <1>4, <2>1 DEF ReadPdu, Goto
<1>7. Ahead(offset)' = Fields(p)
  <2>1. Ahead(Start(offset)) = Fields(p)
    BY <1>2, <1>3, CatEmptyTail
  <2> QED BY <2>1, <1>6 DEF Ahead
<1>8. Position(p)'
  BY <1>6, <1>7 DEF Position
<1>9. Ending(p)'
  BY <1>1, <1>6 DEF Ending, Before, Inner, Results
<1>10. HasRead(p)'
  BY <1>5, <1>6 DEF Following, HasRead, Before, Results, TypeOK, Packet
<1> QED BY <1>8, <1>9, <1>10 DEF Following

LEMMA StepBinds ==
  ASSUME TypeOK, Inside, NEW p \in Packet, Following(p), at = "binds", Parse
  PROVE  Following(p)'
<1>1. Len(data) < 130 /\ Len(data) \in Nat /\ Limit = Len(data) /\ pduEnd = Len(data)
  <2>1. at \in Inner /\ at \notin Before({})
    BY DEF Inner, Before, Results
  <2> QED BY <2>1, LimitIs DEF Following, Ending, TypeOK
<1>2. PICK body \in Seq(Octet), tail \in Seq(Octet) :
        /\ body = List(p.binds) /\ tail = <<>> /\ Len(tail) = 0
        /\ Ahead(offset) = Cat(Element(SEQUENCE, body), tail)
  <2>1. <<>> \in Seq(Octet) /\ Len(<<>>) = 0
    OBVIOUS
  <2> QED BY <2>1, PacketFields, ListType DEF Following, Position, AfterIndex
<1>3. /\ Accepts
      /\ End(offset) = offset + 2 + Len(body) /\ Len(data) = End(offset) + Len(tail)
      /\ Ahead(Start(offset)) = Cat(body, tail)
  <2>1. SEQUENCE \in Tag[at] /\ SEQUENCE \in Octet /\ at \notin Results \cup {"packet"}
    BY TagTypes DEF Tag, Results
  <2>2. at = "version" => Len(body) = 1
    OBVIOUS
  <2> QED BY <1>1, <1>2, <2>1, <2>2, ExpectedHere
<1>4. ReadBinds
  BY <1>3, OnlyStep
<1>5. packet' = [packet EXCEPT !.binds = <<>>] /\ packet'.binds = <<>>
  BY <1>4 DEF ReadBinds, Assign, TypeOK, Packet
<1>6. /\ at' = "bind" /\ offset' = Start(offset) /\ data' = data
      /\ pduEnd' = pduEnd /\ listEnd' = Len(data)
  <2>1. End(offset) = Len(data)
    BY <1>2, <1>3 DEF TypeOK
  <2> QED BY <1>4, <2>1 DEF ReadBinds, Goto
<1>7. /\ Done' = 0 /\ p.binds \in Seq(Bind) /\ From(p.binds, 0) = p.binds
      /\ SubSeq(p.binds, 1, 0) = <<>> /\ 0 <= Len(p.binds)
  <2>1. Done' = 0
    BY <1>5 DEF Done
  <2>2. p.binds \in Seq(Bind)
    BY PacketFields
  <2>3. From(p.binds, 0) = p.binds
    BY <2>2 DEF From
  <2> QED BY <2>1, <2>2, <2>3
<1>8. Ahead(offset)' = List(From(p.binds, Done))'
  <2>1. Ahead(Start(offset)) = List(p.binds)
    BY <1>2, <1>3, CatEmptyTail
  <2>2. List(From(p.binds, Done))' = List(p.binds)
    BY <1>7
  <2> QED BY <1>6, <2>1, <2>2 DEF Ahead
<1>9. Position(p)'
  BY <1>6, <1>8 DEF Position
<1>10. Ending(p)'
  BY <1>1, <1>6 DEF Ending, Before, Inner, Results
<1>11. HasRead(p)'
  BY <1>5, <1>6, <1>7 DEF Following, HasRead, Before, Results, TypeOK, Packet
<1> QED BY <1>9, <1>10, <1>11 DEF Following

\* The next binding of the list, while there is one.
LEMMA NextBinding ==
  ASSUME NEW q \in Seq(Bind), NEW k \in Nat, k < Len(q)
  PROVE  /\ q[k + 1] \in Bind
         /\ From(q, k + 1) \in Seq(Bind) /\ List(From(q, k + 1)) \in Seq(Octet)
         /\ List(From(q, k)) = Cat(Binding(q[k + 1]), List(From(q, k + 1)))
<1>1. /\ From(q, k) \in Seq(Bind) /\ From(q, k) # <<>> /\ From(q, k)[1] = q[k + 1]
      /\ q[k + 1] \in Bind /\ Tail(From(q, k)) = From(q, k + 1)
  BY FromType, FromCons
<1>2. From(q, k + 1) \in Seq(Bind)
  <2>1. k + 1 \in Nat /\ k + 1 <= Len(q)
    OBVIOUS
  <2> QED BY <2>1, FromType
<1>3. PICK f \in Seq(Bind) :
        f = From(q, k) /\ f # <<>> /\ f[1] = q[k + 1] /\ Tail(f) = From(q, k + 1)
  BY <1>1
<1>4. List(f) = Cat(Binding(f[1]), List(Tail(f)))
  BY <1>3, ListCons
<1> QED BY <1>1, <1>2, <1>3, <1>4, ListType

\* What is known inside the list of bindings.
LEMMA BindsAhead ==
  ASSUME TypeOK, NEW p \in Packet, Following(p), at \in {"bind", "oid", "value"}
  PROVE  /\ p.binds \in Seq(Bind) /\ Len(p.binds) \in Nat
         /\ Done \in Nat /\ Done <= Len(p.binds)
         /\ at \in {"oid", "value"} => Done < Len(p.binds)
         /\ Len(data) < 130 /\ Len(data) \in Nat
         /\ data \in Seq(Octet) /\ offset \in Nat
<1>1. p.binds \in Seq(Bind)
  BY PacketFields
<1>2. Done \in Nat
  <2>1. packet.binds \in Seq(Bind)
    BY DEF TypeOK, Packet, Bind
  <2> QED BY <2>1 DEF Done
<1>3. at \notin Before({})
  BY DEF Before, Results
<1>4. Len(p.binds) \in Nat
  BY <1>1
<1> QED BY <1>1, <1>2, <1>3, <1>4 DEF Following, Ending, HasRead, TypeOK

LEMMA StepBind ==
  ASSUME TypeOK, Inside, NEW p \in Packet, Following(p), at = "bind", offset < listEnd,
         Parse
  PROVE  Following(p)'
<1>1. /\ p.binds \in Seq(Bind) /\ Done \in Nat /\ Done <= Len(p.binds) /\ Len(p.binds) \in Nat
      /\ Len(data) < 130 /\ Len(data) \in Nat /\ Limit = Len(data) /\ listEnd = Len(data)
      /\ data \in Seq(Octet) /\ offset \in Nat
  <2>1. at \in {"bind", "oid", "value"}
    OBVIOUS
  <2> QED BY <2>1, BindsAhead, LimitIs DEF Following, Ending
<1>2. Ahead(offset) = List(From(p.binds, Done))
  BY DEF Following, Position
<1>3. Done < Len(p.binds)
  <2>1. SUFFICES ASSUME Done = Len(p.binds) PROVE FALSE
    BY <1>1
  <2>2. From(p.binds, Done) = <<>>
    <3>1. From(p.binds, Done) \in Seq(Bind) /\ Len(From(p.binds, Done)) = Len(p.binds) - Done
      BY <1>1, FromType
    <3>2. Len(From(p.binds, Done)) = 0
      BY <1>1, <2>1, <3>1
    <3> QED BY <3>1, <3>2
  <2>3. Ahead(offset) = <<>>
    BY <1>2, <2>2, ListEmpty
  <2>4. Len(Ahead(offset)) = Len(data) - offset
    BY <1>1, FromType DEF Ahead
  <2>5. Len(<<>>) = 0
    OBVIOUS
  <2> QED BY <1>1, <2>3, <2>4, <2>5
<1>4. PICK b \in Bind, rest \in Seq(Octet), body \in Seq(Octet) :
        /\ b = p.binds[Done + 1] /\ rest = List(From(p.binds, Done + 1))
        /\ body = Cat(Element(OBJECT, b.oid), Element(b.type, b.value))
        /\ Ahead(offset) = Cat(Element(SEQUENCE, body), rest)
  <2>1. PICK b \in Bind : b = p.binds[Done + 1]
    BY <1>1, <1>3, NextBinding
  <2>2. List(From(p.binds, Done + 1)) \in Seq(Octet)
        /\ Ahead(offset) = Cat(Binding(b), List(From(p.binds, Done + 1)))
    BY <1>1, <1>2, <1>3, <2>1, NextBinding
  <2> QED BY <2>1, <2>2, BindingType
<1>5. /\ Accepts
      /\ Len(data) = End(offset) + Len(rest) /\ End(offset) = offset + 2 + Len(body)
      /\ Ahead(Start(offset)) = Cat(body, rest)
  <2>1. SEQUENCE \in Tag[at] /\ SEQUENCE \in Octet /\ at \notin Results \cup {"packet"}
    BY TagTypes DEF Tag, Results
  <2>2. at = "version" => Len(body) = 1
    OBVIOUS
  <2>3. Len(data) < 130 /\ Limit = Len(data) /\ Ahead(offset) = Cat(Element(SEQUENCE, body), rest)
    BY <1>1, <1>4
  <2> QED BY <2>1, <2>2, <2>3, ExpectedHere
<1>6. ReadBind
  BY <1>5, OnlyStep
<1>7. /\ at' = "oid" /\ offset' = Start(offset) /\ data' = data /\ bindEnd' = End(offset)
      /\ packet' = packet /\ listEnd' = listEnd /\ Done' = Done
  BY <1>6 DEF ReadBind, Goto, Done
<1>8. Ahead(offset)' = Cat(Element(OBJECT, b.oid), Cat(Element(b.type, b.value), rest))
  <2>1. PICK x \in Seq(Octet), y \in Seq(Octet) :
          x = Element(OBJECT, b.oid) /\ y = Element(b.type, b.value)
    <3>1. b.oid \in Seq(Octet) /\ b.type \in Octet /\ b.value \in Seq(Octet)
      BY DEF Bind
    <3> QED BY <3>1, TagTypes, ElementType
  <2>2. Cat(Cat(x, y), rest) = Cat(x, Cat(y, rest))
    BY Associative
  <2> QED BY <1>4, <1>5, <1>7, <2>1, <2>2 DEF Ahead
<1>9. Position(p)'
  <2>1. Cat(Element(b.type, b.value), rest) = AfterOid(p, Done + 1)
    BY <1>4 DEF AfterOid
  <2>2. (Ahead(offset) = Cat(Element(OBJECT, p.binds[Done + 1].oid), AfterOid(p, Done + 1)))'
    BY <1>4, <1>7, <1>8, <2>1
  <2> QED BY <1>7, <2>2 DEF Position
<1>10. Ending(p)'
  <2>1. (bindEnd + Len(List(From(p.binds, Done + 1))) = Len(data))'
    BY <1>4, <1>5, <1>7
  <2> QED BY <1>1, <1>7, <2>1 DEF Ending, Before, Inner, Results
<1>11. HasRead(p)'
  BY <1>3, <1>7 DEF Following, HasRead, Before, Results
<1> QED BY <1>9, <1>10, <1>11 DEF Following

LEMMA StepOid ==
  ASSUME TypeOK, Inside, NEW p \in Packet, Following(p), at = "oid", Parse
  PROVE  Following(p)'
<1>1. /\ p.binds \in Seq(Bind) /\ Done \in Nat /\ Done < Len(p.binds) /\ Len(p.binds) \in Nat
      /\ Len(data) < 130 /\ Len(data) \in Nat /\ Limit = bindEnd
      /\ bindEnd + Len(List(From(p.binds, Done + 1))) = Len(data)
  <2>1. at \in {"bind", "oid", "value"} /\ at \in {"oid", "value"}
    OBVIOUS
  <2> QED BY <2>1, BindsAhead, LimitIs DEF Following, Ending
<1>2. PICK b \in Bind, rest \in Seq(Octet) :
        b = p.binds[Done + 1] /\ rest = List(From(p.binds, Done + 1))
  BY <1>1, NextBinding
<1>3. PICK body \in Seq(Octet), y \in Seq(Octet), tail \in Seq(Octet) :
        /\ body = b.oid /\ y = Element(b.type, b.value) /\ tail = Cat(y, rest)
  <2>1. b.oid \in Seq(Octet) /\ b.type \in Octet /\ b.value \in Seq(Octet)
    BY DEF Bind
  <2>2. PICK y \in Seq(Octet) : y = Element(b.type, b.value)
    BY <2>1, ElementType
  <2>3. Cat(y, rest) \in Seq(Octet)
    BY CatType
  <2> QED BY <2>1, <2>2, <2>3
<1>4. tail = AfterOid(p, Done + 1)
  BY <1>2, <1>3 DEF AfterOid
<1>5. Ahead(offset) = Cat(Element(OBJECT, body), tail)
  BY <1>2, <1>3, <1>4 DEF Following, Position
<1>6. PICK n \in Nat : n = Len(rest) /\ n <= Len(tail)
  <2>1. Len(tail) = Len(y) + Len(rest)
    BY <1>3, CatType
  <2>2. Len(y) \in Nat /\ Len(rest) \in Nat
    OBVIOUS
  <2> QED BY <2>1, <2>2
<1>7. Accepts /\ Contents = body /\ Ahead(End(offset)) = tail
  <2>1. OBJECT \in Tag[at] /\ OBJECT \in Octet /\ at \notin Results \cup {"packet"}
    BY TagTypes DEF Tag, Results
  <2>2. at = "version" => Len(body) = 1
    OBVIOUS
  <2>3. Limit + n = Len(data) /\ Limit \in Nat
    BY <1>1, <1>2, <1>6 DEF TypeOK
  <2> QED BY <1>1, <1>5, <1>6, <2>1, <2>2, <2>3, Expected
<1>8. ReadOid
  BY <1>7, OnlyStep
<1>9. /\ at' = "value" /\ offset' = End(offset) /\ data' = data /\ oid' = b.oid
      /\ packet' = packet /\ listEnd' = listEnd /\ bindEnd' = bindEnd /\ Done' = Done
  BY <1>3, <1>7, <1>8 DEF ReadOid, Goto, Done, Ends
<1>10. Position(p)'
  <2>1. (Ahead(offset) = AfterOid(p, Done + 1) /\ oid = p.binds[Done + 1].oid)'
    <3>1. Ahead(offset)' = tail
      BY <1>7, <1>9 DEF Ahead
    <3> QED BY <1>2, <1>4, <1>9, <3>1
  <2> QED BY <1>9, <2>1 DEF Position
<1>11. Ending(p)'
  <2>1. (bindEnd + Len(List(From(p.binds, Done + 1))) = Len(data))'
    BY <1>1, <1>9
  <2>2. listEnd = Len(data)
    BY DEF Following, Ending
  <2> QED BY <1>1, <1>9, <2>1, <2>2 DEF Ending, Before, Inner, Results
<1>12. HasRead(p)'
  BY <1>9 DEF Following, HasRead, Before, Results
<1> QED BY <1>10, <1>11, <1>12 DEF Following

LEMMA StepValue ==
  ASSUME TypeOK, Inside, NEW p \in Packet, Following(p), at = "value", Parse
  PROVE  Following(p)'
<1>1. /\ p.binds \in Seq(Bind) /\ Done \in Nat /\ Done < Len(p.binds) /\ Len(p.binds) \in Nat
      /\ Len(data) < 130 /\ Len(data) \in Nat /\ Limit = bindEnd
      /\ bindEnd + Len(List(From(p.binds, Done + 1))) = Len(data)
  <2>1. at \in {"bind", "oid", "value"} /\ at \in {"oid", "value"}
    OBVIOUS
  <2> QED BY <2>1, BindsAhead, LimitIs DEF Following, Ending
<1>2. PICK b \in Bind, tail \in Seq(Octet) :
        b = p.binds[Done + 1] /\ tail = List(From(p.binds, Done + 1))
  BY <1>1, NextBinding
<1>3. PICK tag \in Octet, body \in Seq(Octet) : tag = b.type /\ body = b.value
  BY DEF Bind
<1>4. Ahead(offset) = Cat(Element(tag, body), tail) /\ oid = b.oid
  BY <1>2, <1>3 DEF Following, Position, AfterOid
<1>5. PICK n \in Nat : n = Len(tail) /\ n <= Len(tail)
  OBVIOUS
<1>6. Accepts /\ Contents = body /\ Byte(offset) = tag /\ Ahead(End(offset)) = tail
  <2>1. tag \in Tag[at] /\ at \notin Results \cup {"packet"}
    BY DEF Tag, Results
  <2>2. at = "version" => Len(body) = 1
    OBVIOUS
  <2>3. Limit + n = Len(data) /\ Limit \in Nat
    BY <1>1, <1>2, <1>5 DEF TypeOK
  <2> QED BY <1>1, <1>4, <1>5, <2>1, <2>2, <2>3, Expected
<1>7. ReadValue
  BY <1>6, OnlyStep
<1>8. [oid |-> oid, type |-> Byte(offset), value |-> Contents] = b
  BY <1>3, <1>4, <1>6 DEF Bind
<1>9. /\ at' = "bind" /\ offset' = End(offset) /\ data' = data /\ listEnd' = listEnd
      /\ packet' = [packet EXCEPT !.binds = Append(packet.binds, b)]
  BY <1>7, <1>8 DEF ReadValue, Goto, Ends
<1>10. /\ packet'.binds = Append(packet.binds, b)
       /\ packet'.version = packet.version /\ packet'.community = packet.community
       /\ packet'.pdu = packet.pdu /\ packet'.id = packet.id
       /\ packet'.status = packet.status /\ packet'.index = packet.index
  BY <1>9 DEF TypeOK, Packet
<1>11. packet.binds = SubSeq(p.binds, 1, Done) /\ packet.binds \in Seq(Bind)
  BY DEF Following, HasRead, TypeOK, Packet, Bind
<1>12. /\ Done' = Done + 1
       /\ packet'.binds = SubSeq(p.binds, 1, Done + 1)
  <2>1. Append(SubSeq(p.binds, 1, Done), p.binds[Done + 1]) = SubSeq(p.binds, 1, Done + 1)
    BY <1>1, FromCons
  <2>2. Len(Append(packet.binds, b)) = Len(packet.binds) + 1
    BY <1>11
  <2> QED BY <1>2, <1>10, <1>11, <2>1, <2>2 DEF Done
<1>13. Position(p)'
  <2>1. (Ahead(offset) = List(From(p.binds, Done)))'
    <3>1. Ahead(offset)' = tail
      BY <1>6, <1>9 DEF Ahead
    <3> QED BY <1>2, <1>12, <3>1
  <2> QED BY <1>9, <2>1 DEF Position
<1>14. Ending(p)'
  <2>1. listEnd = Len(data)
    BY DEF Following, Ending
  <2> QED BY <1>1, <1>9, <2>1 DEF Ending, Before, Inner, Results
<1>15. HasRead(p)'
  <2>1. (Done <= Len(p.binds) /\ packet.binds = SubSeq(p.binds, 1, Done))'
    <3>1. Done + 1 <= Len(p.binds)
      BY <1>1
    <3> QED BY <1>12, <3>1
  <2>2. /\ packet.version = p.version /\ packet.community = p.community
        /\ packet.pdu = p.pdu /\ packet.id = p.id
        /\ packet.status = p.status /\ packet.index = p.index
    BY DEF Following, HasRead, Before, Results
  <2> QED BY <1>9, <1>10, <2>1, <2>2 DEF HasRead, Before, Results
<1> QED BY <1>13, <1>14, <1>15 DEF Following

\* A packet is its members.
LEMMA SamePacket ==
  ASSUME NEW q \in Packet, NEW p \in Packet,
         q.version = p.version, q.community = p.community, q.pdu = p.pdu, q.id = p.id,
         q.status = p.status, q.index = p.index, q.binds = p.binds
  PROVE  q = p
<1>1. /\ q = [version |-> q.version, community |-> q.community, pdu |-> q.pdu, id |-> q.id,
              status |-> q.status, index |-> q.index, binds |-> q.binds]
      /\ p = [version |-> p.version, community |-> p.community, pdu |-> p.pdu, id |-> p.id,
              status |-> p.status, index |-> p.index, binds |-> p.binds]
  BY DEF Packet
<1> QED BY <1>1

\* The list is at its end where the datagram is, with all bindings read.
LEMMA StepFinish ==
  ASSUME TypeOK, Inside, NEW p \in Packet, Following(p), at = "bind", ~ (offset < listEnd),
         Parse
  PROVE  Following(p)'
<1>1. /\ p.binds \in Seq(Bind) /\ Done \in Nat /\ Done <= Len(p.binds) /\ Len(p.binds) \in Nat
      /\ Len(data) \in Nat /\ Len(data) < 130 /\ listEnd = Len(data)
      /\ data \in Seq(Octet) /\ offset \in Nat /\ offset <= Len(data)
  <2>1. at \in {"bind", "oid", "value"}
    OBVIOUS
  <2> QED BY <2>1, BindsAhead DEF Following, Ending, Inside
<1>2. Finish
  BY DEF Parse, Fail, ReadPacket, ReadVersion, ReadCommunity, ReadPdu, ReadId,
         ReadStatus, ReadIndex, ReadBinds, ReadBind, ReadOid, ReadValue
<1>3. at' = "parsed" /\ packet' = packet /\ data' = data
  BY <1>2 DEF Finish, Goto
<1>4. Ahead(offset) = <<>>
  <2>1. Ahead(offset) \in Seq(Octet) /\ Len(Ahead(offset)) = Len(data) - offset
    BY <1>1, FromType DEF Ahead
  <2>2. Len(Ahead(offset)) = 0
    BY <1>1, <2>1
  <2> QED BY <2>1, <2>2
<1>5. Done = Len(p.binds)
  <2>1. From(p.binds, Done) \in Seq(Bind) /\ Len(From(p.binds, Done)) = Len(p.binds) - Done
    BY <1>1, FromType
  <2>2. From(p.binds, Done) = <<>>
    <3>1. List(From(p.binds, Done)) = <<>>
      BY <1>4 DEF Following, Position
    <3> QED BY <2>1, <3>1, ListType
  <2>3. Len(p.binds) - Done = 0
    <3>1. Len(<<>>) = 0
      OBVIOUS
    <3> QED BY <2>1, <2>2, <3>1
  <2> QED BY <1>1, <2>3
<1>6. packet.binds = p.binds
  <2>1. packet.binds = SubSeq(p.binds, 1, Len(p.binds))
    BY <1>5 DEF Following, HasRead
  <2> QED BY <1>1, <2>1
<1>7. packet = p
  <2>1. /\ packet.version = p.version /\ packet.community = p.community
        /\ packet.pdu = p.pdu /\ packet.id = p.id
        /\ packet.status = p.status /\ packet.index = p.index
    BY DEF Following, HasRead, Before, Results
  <2>2. packet \in Packet
    BY DEF TypeOK
  <2> QED BY <1>6, <2>1, <2>2, SamePacket
<1> QED BY <1>1, <1>3, <1>7 DEF Following, Position, Ending, HasRead, Before, Inner, Results

\* Every step of parse() stays in the packet.
LEMMA ParseFollows ==
  ASSUME TypeOK, Inside, NEW p \in Packet, Following(p), data = serialize(p), Parse
  PROVE  Following(p)' /\ data' = data
<1>1. data' = data
  BY DEF Parse, Fail, ReadPacket, ReadVersion, ReadCommunity, ReadPdu, ReadId,
         ReadStatus, ReadIndex, ReadError, ReadBinds, ReadBind, ReadOid, ReadValue, Finish
<1>2. at \notin Results
  BY DEF Parse, Fail, ReadPacket, ReadVersion, ReadCommunity, ReadPdu, ReadId, Results,
         ReadStatus, ReadIndex, ReadError, ReadBinds, ReadBind, ReadOid, ReadValue, Finish
<1>3. at \in {"packet", "version", "community", "pdu", "id", "status", "index", "binds",
              "bind", "oid", "value"}
  BY <1>2 DEF TypeOK, Outer, Inner
<1>4. Following(p)'
  <2>1. CASE at = "packet"
    BY <2>1, StepPacket
  <2>2. CASE at = "version"
    BY <2>2, StepVersion
  <2>3. CASE at = "community"
    BY <2>3, StepCommunity
  <2>4. CASE at = "pdu"
    BY <2>4, StepPdu
  <2>5. CASE at = "id"
    BY <2>5, StepId
  <2>6. CASE at = "status"
    BY <2>6, StepStatus
  <2>7. CASE at = "index"
    BY <2>7, StepIndex
  <2>8. CASE at = "binds"
    BY <2>8, StepBinds
  <2>9. CASE at = "bind" /\ offset < listEnd
    BY <2>9, StepBind
  <2>10. CASE at = "bind" /\ ~ (offset < listEnd)
    BY <2>10, StepFinish
  <2>11. CASE at = "oid"
    BY <2>11, StepOid
  <2>12. CASE at = "value"
    BY <2>12, StepValue
  <2> QED BY <1>3, <2>1, <2>2, <2>3, <2>4, <2>5, <2>6, <2>7, <2>8, <2>9, <2>10, <2>11,
             <2>12
<1> QED BY <1>1, <1>4

LEMMA BeginInv ==
  ASSUME NEW d \in Seq(Octet), Begin(d), packet' \in Packet
  PROVE  TypeOK' /\ Inside'
<1>1. <<>> \in Seq(Octet) /\ Len(d) \in Nat
  OBVIOUS
<1> QED BY <1>1 DEF Begin, TypeOK, Inside, Results, Outer, Inner

\* At the first octet nothing has been read.
LEMMA BeginFollows ==
  ASSUME NEW p \in Packet, Begin(serialize(p))
  PROVE  Following(p)' /\ data' = serialize(p)
BY DEF Begin, Following, Position, Ending, HasRead, Before, Inner, Results

LEMMA SerializeType ==
  ASSUME NEW p \in Packet
  PROVE  serialize(p) \in Seq(Octet)
<1>1. PICK c \in Seq(Octet) : c = Body(p)
  BY AheadTypes
<1> QED BY <1>1, SerializeIs, TagTypes, ElementType

LEMMA DefaultType == Default \in Packet
<1>1. <<0, 0, 0, 0>> \in Word /\ <<>> \in Seq(Octet) /\ <<>> \in Seq(Bind)
  BY DEF Word, Octet
<1> QED BY <1>1 DEF Default, Packet, Octet, Bind

\* The inductive invariant.
WireIInv == TypeOK /\ Inside /\ WireInv

\* Every step on the wire keeps the invariant: what nobody serialized leaves it
\* empty, what a peer serialized starts it, and parse() carries it on.
LEMMA WireInvStep == WireIInv /\ [WireNext]_wireVars => WireIInv'
<1> SUFFICES ASSUME TypeOK, Inside, WireInv, [WireNext]_wireVars PROVE WireIInv'
  BY DEF WireIInv
<1>1. CASE UNCHANGED wireVars
  <2>1. TypeOK' /\ Inside'
    BY <1>1 DEF wireVars, TypeOK, Inside
  <2>2. /\ at' = at /\ data' = data /\ offset' = offset /\ pduEnd' = pduEnd
        /\ listEnd' = listEnd /\ bindEnd' = bindEnd /\ packet' = packet /\ oid' = oid
        /\ sent' = sent
    BY <1>1 DEF wireVars
  <2>3. WireInv'
    BY <2>2 DEF WireInv, Following, Position, Ending, HasRead, Ahead, Done
  <2> QED BY <2>1, <2>3 DEF WireIInv
<1>2. CASE \E d \in Damaged : ReceiveDamaged(d)
  <2>1. PICK d \in Seq(Octet) : ReceiveDamaged(d)
    BY <1>2, WireAssumption DEF WireAssumption
  <2>2. Begin(d) /\ packet' = packet /\ sent' = NoPacket
    BY <2>1 DEF ReceiveDamaged, Receive
  <2>3. TypeOK' /\ Inside'
    BY <2>2, BeginInv DEF TypeOK
  <2> QED BY <2>2, <2>3 DEF WireIInv, WireInv
<1>3. CASE \E p \in Packets : ReceivePacket(p)
  <2>1. PICK p \in Packet : ReceivePacket(p)
    BY <1>3, WireAssumption DEF WireAssumption
  <2>2. Begin(serialize(p)) /\ packet' = packet /\ sent' = p
    BY <2>1 DEF ReceivePacket, Receive
  <2>3. TypeOK' /\ Inside'
    BY <2>2, BeginInv, SerializeType DEF TypeOK
  <2>4. Following(p)' /\ data' = serialize(p)
    BY <2>2, BeginFollows
  <2>5. WireInv'
    BY <2>2, <2>4 DEF WireInv
  <2> QED BY <2>3, <2>5 DEF WireIInv
<1>4. CASE ParseAgain
  <2>1. PICK p \in Packet : p = packet
    BY DEF TypeOK
  <2>2. Begin(serialize(p)) /\ packet' = Default /\ sent' = p
    BY <1>4, <2>1 DEF ParseAgain
  <2>3. TypeOK' /\ Inside'
    BY <2>2, BeginInv, SerializeType, DefaultType
  <2>4. Following(p)' /\ data' = serialize(p)
    BY <2>2, BeginFollows
  <2>5. WireInv'
    BY <2>2, <2>4 DEF WireInv
  <2> QED BY <2>3, <2>5 DEF WireIInv
<1>5. CASE ParseStep
  <2>1. Parse /\ sent' = sent
    BY <1>5 DEF ParseStep
  <2>2. TypeOK' /\ Inside'
    BY <2>1, ParseInv
  <2>3. WireInv'
    <3>1. CASE sent = NoPacket
      BY <2>1, <3>1 DEF WireInv
    <3>2. CASE sent # NoPacket
      <4>1. PICK p \in Packet : p = sent /\ data = serialize(p) /\ Following(p)
        BY <3>2 DEF WireInv
      <4>2. Following(p)' /\ data' = data
        BY <2>1, <4>1, ParseFollows
      <4> QED BY <2>1, <4>1, <4>2 DEF WireInv
    <3> QED BY <3>1, <3>2
  <2> QED BY <2>2, <2>3 DEF WireIInv
<1> QED BY <1>1, <1>2, <1>3, <1>4, <1>5 DEF WireNext

LEMMA WireInvInit == WireInit => WireIInv
BY InitInv DEF WireInit, WireIInv, WireInv

\* On the wire, too, parse() keeps the types and stays inside, and where it reads
\* a serialized packet it stands between two of its elements.
THEOREM WireInvariant == WireSpec => []WireIInv
BY WireInvInit, WireInvStep, PTL DEF WireSpec

\* What parse() returns for a serialized packet is that packet, whatever the object
\* held before and however many bindings there are.
THEOREM Faithful == WireSpec => []NeverMisread
<1>1. WireIInv => NeverMisread
  BY DEF WireIInv, WireInv, NeverMisread, Following, HasRead
<1> QED BY <1>1, WireInvariant, PTL

\* A packet whose contents take less than 128 octets is accepted.
THEOREM ShortArrives == WireSpec => []ShortIsAccepted
<1>1. WireIInv => ShortIsAccepted
  BY DEF WireIInv, WireInv, ShortIsAccepted, Following, Ending
<1> QED BY <1>1, WireInvariant, PTL

\* On the wire, too, each step of parse() uses up an octet or is its last.
THEOREM WireProgress == WireSpec => Consumes
<1>1. WireIInv /\ [WireNext]_wireVars =>
        [\/ at \in Results \/ at' \in Results \/ offset < offset']_vars
  BY ParseInv
  DEF WireIInv, WireNext, ReceiveDamaged, ReceivePacket, ParseAgain, ParseStep, Receive, vars,
      wireVars, Results
<1> QED BY <1>1, WireInvariant, PTL DEF WireSpec, Consumes

-----------------------------------------------------------------------------
(* Parts of packets, and packets with something behind them.               *)

\* What parse() has checked of the datagram as a whole, and of its version.
Whole    == Header(0, Len(data)) /\ End(0) = Len(data)
Numbered == Byte(Start(0)) = INTEGER /\ Length(Start(0)) = 1

Checked ==
  /\ at = "packet"  => offset = 0
  /\ at = "version" => offset = Start(0)
  /\ at \notin {"idle", "failed", "packet"} => Whole
  /\ at \notin {"idle", "failed", "packet", "version"} => Numbered

\* What nobody serialized is what arrived.
Arrived == sent = NoPacket /\ at # "idle" => data \in Damaged

LEMMA SameData ==
  ASSUME data' = data
  PROVE  Whole' = Whole /\ Numbered' = Numbered /\ Start(0)' = Start(0)
BY DEF Whole, Numbered, Header, End, Start, Length, LengthOctets, Byte

\* parse() checks the whole first, then the version, and never looks back.
LEMMA CheckedStep ==
  ASSUME TypeOK, Checked, Parse
  PROVE  Checked'
<1>1. data' = data
  BY DEF Parse, Fail, ReadPacket, ReadVersion, ReadCommunity, ReadPdu, ReadId,
         ReadStatus, ReadIndex, ReadError, ReadBinds, ReadBind, ReadOid, ReadValue, Finish
<1>2. Whole' = Whole /\ Numbered' = Numbered /\ Start(0)' = Start(0)
  BY <1>1, SameData
<1>3. CASE at = "packet" /\ Accepts
  <2>1. Whole /\ offset = 0
    <3>1. Limit = Len(data) /\ offset = 0
      BY <1>3, LimitIs DEF Checked, Outer
    <3> QED BY <1>3, <3>1 DEF Accepts, Whole
  <2>2. at' = "version" /\ offset' = Start(offset)
    BY <1>3, OnlyStep DEF ReadPacket, Goto
  <2> QED BY <1>2, <2>1, <2>2 DEF Checked
<1>4. CASE at = "version" /\ Accepts
  <2>1. Numbered
    BY <1>4 DEF Checked, Accepts, Numbered, Tag
  <2>2. at' = "community"
    BY <1>4, OnlyStep DEF ReadVersion, Goto
  <2> QED BY <1>2, <1>4, <2>1, <2>2 DEF Checked
<1>5. CASE at \in {"packet", "version"} /\ ~Accepts
  <2>1. at' = "failed"
    BY <1>5 DEF Parse, Fail, ReadPacket, ReadVersion, ReadCommunity, ReadPdu, ReadId,
                ReadStatus, ReadIndex, ReadBinds, ReadBind, ReadOid, ReadValue, Finish
  <2> QED BY <2>1 DEF Checked
<1>6. CASE at \notin {"packet", "version"}
  <2>1. at \notin {"idle", "failed"}
    BY DEF Parse, Fail, ReadPacket, ReadVersion, ReadCommunity, ReadPdu, ReadId, Results,
           ReadStatus, ReadIndex, ReadError, ReadBinds, ReadBind, ReadOid, ReadValue, Finish
  <2>2. at' \notin {"packet", "version"}
    BY <1>6 DEF Parse, Fail, ReadPacket, ReadVersion, ReadCommunity, ReadPdu, ReadId, Goto,
           ReadStatus, ReadIndex, ReadError, ReadBinds, ReadBind, ReadOid, ReadValue, Finish
  <2> QED BY <1>2, <1>6, <2>1, <2>2 DEF Checked
<1> QED BY <1>3, <1>4, <1>5, <1>6

LEMMA CheckedInv == WireIInv /\ Checked /\ Arrived /\ [WireNext]_wireVars => Checked' /\ Arrived'
<1> SUFFICES ASSUME TypeOK, Checked, Arrived, [WireNext]_wireVars PROVE Checked' /\ Arrived'
  BY DEF WireIInv
<1>1. CASE UNCHANGED wireVars
  <2>1. data' = data /\ at' = at /\ offset' = offset /\ sent' = sent
    BY <1>1 DEF wireVars
  <2> QED BY <2>1, SameData DEF Checked, Arrived
<1>2. CASE \E d \in Damaged : ReceiveDamaged(d)
  BY <1>2 DEF ReceiveDamaged, Receive, Begin, Checked, Arrived
<1>3. CASE \E p \in Packets : ReceivePacket(p)
  <2>1. PICK p \in Packets : ReceivePacket(p)
    BY <1>3
  <2>2. p # NoPacket
    BY WireAssumption DEF WireAssumption
  <2> QED BY <2>1, <2>2 DEF ReceivePacket, Receive, Begin, Checked, Arrived
<1>4. CASE ParseAgain
  <2>1. packet # NoPacket
    BY WireAssumption DEF WireAssumption, TypeOK
  <2> QED BY <1>4, <2>1 DEF ParseAgain, Begin, Checked, Arrived
<1>5. CASE ParseStep
  <2>1. Parse /\ sent' = sent
    BY <1>5 DEF ParseStep
  <2>2. data' = data /\ at # "idle"
    BY <2>1 DEF Parse, Fail, ReadPacket, ReadVersion, ReadCommunity, ReadPdu, ReadId, Results,
         ReadStatus, ReadIndex, ReadError, ReadBinds, ReadBind, ReadOid, ReadValue, Finish
  <2> QED BY <2>1, <2>2, CheckedStep DEF Arrived
<1> QED BY <1>1, <1>2, <1>3, <1>4, <1>5 DEF WireNext

\* a and b do not differ where both have octets.
Agree(a, b) == \A i \in 1..Len(a) : i \in 1..Len(b) => a[i] = b[i]

\* A part of a sequence is shorter and agrees with it.
LEMMA StrictPrefix ==
  ASSUME NEW s \in Seq(Octet), NEW t \in Seq(Octet), IsStrictPrefix(s, t)
  PROVE  Len(s) < Len(t) /\ Agree(s, t) /\ Agree(t, s)
<1>1. /\ Len(s) \in Nat /\ Len(t) \in Nat /\ Len(s) <= Len(t) /\ s # t
      /\ SubSeq(s, 1, Len(s)) = SubSeq(t, 1, Len(s))
  BY DEF IsStrictPrefix, IsPrefix
<1>2. \A i \in 1..Len(s) : s[i] = t[i]
  <2>1. /\ \A i \in 1..Len(s) : SubSeq(s, 1, Len(s))[i] = s[i]
        /\ \A i \in 1..Len(s) : SubSeq(t, 1, Len(s))[i] = t[i]
    BY <1>1
  <2> QED BY <1>1, <2>1
<1>3. Len(s) # Len(t)
  BY <1>1, <1>2, SeqEqual
<1> QED BY <1>1, <1>2, <1>3 DEF Agree

LEMMA NotBeyond ==
  ASSUME NEW m \in Nat, m < 65536
  PROVE  m # 65541 /\ m # 65542
OBVIOUS

\* What parse() accepts as a whole starts like no serialized packet of
\* another length.
LEMMA NotAPart ==
  ASSUME data \in Seq(Octet), Len(data) < Beyond, Whole, Numbered,
         NEW p \in Packet, NEW s \in Seq(Octet), s = serialize(p), Len(s) < 258,
         Len(data) # Len(s),
         Agree(data, s)
  PROVE  FALSE
<1>1. PICK n \in Nat : /\ Len(s) = n + 2 /\ n >= 4 /\ s[2] = n % 256
                       /\ s[3] = 2 /\ s[4] = 1 /\ s[6] = 4
  BY SerializedHead
<1>2. PICK m \in Nat : m = Len(data) /\ m < 65536 /\ m # n + 2
  <2>1. Len(data) \in Nat
    OBVIOUS
  <2>2. Len(data) < 65536
    BY DEF Beyond
  <2> QED BY <1>1, <2>1, <2>2
<1>3. n \in Octet /\ s[2] = n
  <2>1. n < 256
    BY <1>1
  <2> QED BY <1>1, <2>1, LengthOctet
<1>4. /\ m >= 2 => data[2] = n
      /\ m >= 3 => data[3] = 2
      /\ m >= 4 => data[4] = 1
      /\ m >= 6 => data[6] = 4
  <2>1. ASSUME NEW i \in Nat, 1 <= i, i <= 6, i <= m PROVE data[i] = s[i]
    <3>1. i \in 1..Len(data) /\ i \in 1..Len(s)
      BY <1>1, <1>2, <2>1
    <3> QED BY <3>1 DEF Agree
  <2> QED BY <1>1, <1>3, <2>1
<1>5. Header(0, Len(data)) /\ End(0) = m
  BY <1>2 DEF Whole
<1>6. \/ n < 128 /\ m = n + 2
      \/ n = 129 /\ m = 5 /\ Start(0) = 3
      \/ n = 130 /\ m = 517 /\ Start(0) = 4
      \/ m = 65541
      \/ m = 65542
  <2>1. /\ Len(data) >= 2 => data[2] = n
        /\ Len(data) >= 3 => data[3] = 2
        /\ Len(data) >= 4 => data[4] = 1
    BY <1>2, <1>4
  <2>2. \/ n < 128 /\ End(0) = n + 2
        \/ n = 129 /\ End(0) = 5 /\ Start(0) = 3
        \/ n = 130 /\ End(0) = 517 /\ Start(0) = 4
        \/ n = 131 /\ End(0) = 65541
        \/ n = 132 /\ End(0) = 65542
    BY <1>3, <1>5, <2>1, HeadLength
  <2> QED BY <1>5, <2>2
<1>7. CASE n = 129 /\ m = 5 /\ Start(0) = 3
  <2>1. Byte(3) = 1
    BY <1>4, <1>7 DEF Byte
  <2> QED BY <1>7, <2>1 DEF Numbered, INTEGER
<1>8. CASE n = 130 /\ m = 517 /\ Start(0) = 4
  <2>1. Byte(4 + 1) = 4
    BY <1>4, <1>8 DEF Byte
  <2>2. Length(4) = 4
    BY <2>1 DEF Length, LengthOctets
  <2> QED BY <1>8, <2>2 DEF Numbered
<1>9. m # 65541 /\ m # 65542 /\ m # n + 2
  <2>1. m # n + 2
    BY ONLY <1>2
  <2>2. m < 65536
    BY ONLY <1>2
  <2>3. m # 65541 /\ m # 65542
    BY <2>2, NotBeyond
  <2> QED BY <2>1, <2>3
<1> QED BY <1>6, <1>7, <1>8, <1>9

\* No datagram that parse() accepts is a proper part of a packet whose contents
\* fit their length octet, or such a packet with something behind it.  The end that
\* the first length announces is the end of the datagram; a length of more octets
\* would take in the tag and the length of the version.
THEOREM NoPart == WireSpec => []WholeOrNothing
<1> DEFINE Inv == WireIInv /\ Checked /\ Arrived
<1>1. WireInit => Inv
  BY WireInvInit DEF WireInit, Init, Checked, Arrived
<1>2. Inv /\ [WireNext]_wireVars => Inv'
  BY WireInvStep, CheckedInv
<1>3. Inv => WholeOrNothing
  <2> SUFFICES ASSUME Inv, at = "parsed", NEW p \in Packets, Len(serialize(p)) < 258
               PROVE  /\ ~IsStrictPrefix(data, serialize(p))
                      /\ ~IsStrictPrefix(serialize(p), data)
    BY DEF WholeOrNothing
  <2>1. PICK s \in Seq(Octet) : s = serialize(p) /\ Len(s) < 258 /\ p \in Packet
    BY SerializeType, WireAssumption DEF WireAssumption
  <2>2. data \in Seq(Octet) /\ Len(data) \in Nat /\ Whole /\ Numbered
    BY DEF WireIInv, TypeOK, Checked
  <2>3. Len(data) < Beyond
    <3>1. CASE sent = NoPacket
      BY <3>1, WireAssumption DEF Arrived, WireAssumption
    <3>2. CASE sent # NoPacket
      <4>1. Len(data) < 130
        BY <3>2 DEF WireIInv, WireInv, Following, Ending
      <4> QED BY <2>2, <4>1 DEF Beyond
    <3> QED BY <3>1, <3>2
  <2>4. ASSUME IsStrictPrefix(data, s) PROVE FALSE
    <3>1. Len(data) < Len(s) /\ Agree(data, s)
      BY <2>1, <2>2, <2>4, StrictPrefix
    <3>2. Len(data) # Len(s)
      BY <2>1, <2>2, <3>1
    <3> QED BY <2>1, <2>2, <2>3, <3>1, <3>2, NotAPart
  <2>5. ASSUME IsStrictPrefix(s, data) PROVE FALSE
    <3>1. Len(s) < Len(data) /\ Agree(data, s)
      BY <2>1, <2>2, <2>5, StrictPrefix
    <3>2. Len(data) # Len(s)
      BY <2>1, <2>2, <3>1
    <3> QED BY <2>1, <2>2, <2>3, <3>1, <3>2, NotAPart
  <2> QED BY <2>1, <2>4, <2>5
<1> QED BY <1>1, <1>2, <1>3, PTL DEF WireSpec
=============================================================================
