----------------------------- MODULE SnmpPacket -----------------------------
(***************************************************************************)
(* SNMPPacket::parse(), as it walks through a datagram one BER element at a *)
(* time.  A packet is a record of its members; an octet is a number below   *)
(* 256; offset is what parse() passes by reference through its helpers.     *)
(* One object parses again and again, as the caller of                      *)
(* SNMPConnection::receive_request() lets it.                               *)
(***************************************************************************)
EXTENDS Naturals, Sequences

CONSTANT Datagrams   \* whatever arrives

Octet  == 0..255
Word   == [1..4 -> Octet]
Packet == [version : Octet, community : Seq(Octet), pdu : Octet,
           id : Word, status : Octet, index : Octet,
           binds : Seq([oid : Seq(Octet), type : Octet, value : Seq(Octet)])]

\* Longer elements are told apart from no others: the callers of parse()
\* receive 4096 octets.
Beyond == 65536

SEQUENCE == 48
INTEGER  == 2
OCTETS   == 4
OBJECT   == 6

ASSUME DatagramsAssumption == Datagrams \subseteq Seq(Octet)

VARIABLES
  at,        \* the element that parse() comes to next, or its result
  data,      \* its argument
  offset,
  pduEnd, listEnd, bindEnd,  \* start_offset + length, in the three helpers
  packet,    \* *this; request_id_ is the sequence of its four octets
  oid        \* varbind.oid of the binding in hand

vars == <<at, data, offset, pduEnd, listEnd, bindEnd, packet, oid>>

-----------------------------------------------------------------------------
(* The header of the element at offset o, and where its contents lie.      *)

Byte(o)         == data[o + 1]
LengthOctets(o) == IF Byte(o + 1) < 128 THEN 0 ELSE Byte(o + 1) - 128

\* Mutant: an element without contents may not be the last.
HeaderStrict(o, limit) ==
  /\ o + 1 < limit
  /\ Byte(o + 1) # 128 /\ LengthOctets(o) <= 4
  /\ o + 2 + LengthOctets(o) < limit

\* parse_length() finds its octets before limit.
Header(o, limit) ==
  /\ o + 1 < limit
  /\ Byte(o + 1) # 128 /\ LengthOctets(o) <= 4
  /\ o + 1 + LengthOctets(o) < limit

Start(o) == o + 2 + LengthOctets(o)

Length(o) ==
  LET n == LengthOctets(o)
  IN  IF n = 0 THEN Byte(o + 1)
      ELSE IF \E i \in 1..(n - 2) : Byte(o + 1 + i) # 0 THEN Beyond
      ELSE (IF n > 1 THEN 256 * Byte(o + n) ELSE 0) + Byte(o + n + 1)

End(o) == Start(o) + Length(o)

Contents == SubSeq(data, Start(offset) + 1, End(offset))

-----------------------------------------------------------------------------
(* parse().                                                                *)

Results == {"idle", "parsed", "failed"}
Outer   == {"packet", "version", "community", "pdu"}
Inner   == {"id", "status", "index", "binds"}

Tag == [packet |-> {SEQUENCE}, version |-> {INTEGER}, community |-> {OCTETS},
        pdu |-> Octet, id |-> {INTEGER}, status |-> {INTEGER}, index |-> {INTEGER},
        binds |-> {SEQUENCE}, bind |-> {SEQUENCE}, oid |-> {OBJECT}, value |-> Octet]

\* Mutant: every helper is bounded by the datagram only.
LimitDatagram == Len(data)

Limit == CASE at \in Outer  -> Len(data)
           [] at \in Inner  -> pduEnd
           [] at = "bind"   -> listEnd
           [] OTHER         -> bindEnd

\* Mutant: the length of the packet is not compared with the datagram's.
AcceptsPrefix ==
  /\ Header(offset, Limit) /\ Byte(offset) \in Tag[at]
  /\ End(offset) <= Limit
  /\ at = "version" => Length(offset) = 1

\* The element at offset is one that parse() accepts here.
Accepts ==
  /\ Header(offset, Limit) /\ Byte(offset) \in Tag[at]
  /\ End(offset) <= Limit
  /\ at = "packet"  => End(offset) = Limit
  /\ at = "version" => Length(offset) = 1

Default == [version |-> 1, community |-> <<>>, pdu |-> 160, id |-> <<0, 0, 0, 0>>,
            status |-> 0, index |-> 0, binds |-> <<>>]

Init ==
  /\ at = "idle" /\ data = <<>> /\ offset = 0
  /\ pduEnd = 0 /\ listEnd = 0 /\ bindEnd = 0
  /\ packet = Default /\ oid = <<>>

Begin(d) ==
  /\ at' = "packet" /\ data' = d /\ offset' = 0
  /\ pduEnd' = 0 /\ listEnd' = 0 /\ bindEnd' = 0 /\ oid' = <<>>

Receive(d) == at \in Results /\ Begin(d) /\ UNCHANGED packet

LastOf(q)     == q[Len(q)]
LastFour(q)   == SubSeq(q, Len(q) - 3, Len(q))

Goto(next, o) == at' = next /\ offset' = o
Assign(value) == packet' = [packet EXCEPT ![at] = value]
Ends          == <<pduEnd, listEnd, bindEnd>>

ReadPacket ==
  /\ at = "packet" /\ Accepts
  /\ Goto("version", Start(offset))
  /\ UNCHANGED <<data, Ends, packet, oid>>

ReadVersion ==
  /\ at = "version" /\ Accepts
  /\ Assign(Byte(Start(offset))) /\ Goto("community", End(offset))
  /\ UNCHANGED <<data, Ends, oid>>

ReadCommunity ==
  /\ at = "community" /\ Accepts
  /\ Assign(Contents) /\ Goto("pdu", End(offset))
  /\ UNCHANGED <<data, Ends, oid>>

ReadPdu ==
  /\ at = "pdu" /\ Accepts
  /\ Assign(Byte(offset)) /\ Goto("id", Start(offset))
  /\ pduEnd' = End(offset)
  /\ UNCHANGED <<data, listEnd, bindEnd, oid>>

\* Mutant: the request ID is as long as it arrives.
ReadIdWhole ==
  /\ at = "id" /\ Accepts
  /\ Assign(Contents) /\ Goto("status", End(offset))
  /\ UNCHANGED <<data, Ends, oid>>

\* The request ID keeps 32 bits of whatever length arrives.
ReadId ==
  /\ at = "id" /\ Accepts
  /\ Assign(LastFour(<<0, 0, 0, 0>> \o Contents)) /\ Goto("status", End(offset))
  /\ UNCHANGED <<data, Ends, oid>>

\* The error status and index keep 8 bits.
ReadError(next) ==
  /\ Accepts
  /\ Assign(LastOf(<<0>> \o Contents)) /\ Goto(next, End(offset))
  /\ UNCHANGED <<data, Ends, oid>>

ReadStatus == at = "status" /\ ReadError("index")
ReadIndex  == at = "index"  /\ ReadError("binds")

\* Mutant: the bindings of an earlier packet stay.
ReadBindsKeeps ==
  /\ at = "binds" /\ Accepts
  /\ Goto("bind", Start(offset))
  /\ listEnd' = End(offset)
  /\ UNCHANGED <<data, pduEnd, bindEnd, oid, packet>>

ReadBinds ==
  /\ at = "binds" /\ Accepts
  /\ Assign(<<>>) /\ Goto("bind", Start(offset))
  /\ listEnd' = End(offset)
  /\ UNCHANGED <<data, pduEnd, bindEnd, oid>>

ReadBind ==
  /\ at = "bind" /\ offset < listEnd /\ Accepts
  /\ Goto("oid", Start(offset))
  /\ bindEnd' = End(offset)
  /\ UNCHANGED <<data, pduEnd, listEnd, packet, oid>>

\* Mutant: the offset stays before the OID.
ReadOidInPlace ==
  /\ at = "oid" /\ Accepts
  /\ oid' = Contents /\ Goto("value", offset)
  /\ UNCHANGED <<data, Ends, packet>>

ReadOid ==
  /\ at = "oid" /\ Accepts
  /\ oid' = Contents /\ Goto("value", End(offset))
  /\ UNCHANGED <<data, Ends, packet>>

ReadValue ==
  /\ at = "value" /\ Accepts
  /\ packet' = [packet EXCEPT !.binds = Append(@,
                  [oid |-> oid, type |-> Byte(offset), value |-> Contents])]
  /\ Goto("bind", End(offset))
  /\ UNCHANGED <<data, Ends, oid>>

\* Octets after the list, in the PDU or in the packet, are not looked at.
Finish ==
  /\ at = "bind" /\ offset >= listEnd
  /\ at' = "parsed"
  /\ UNCHANGED <<data, offset, Ends, packet, oid>>

\* What was assigned before the failure stays, the PDU type even if it is the
\* length after it that is wrong.
Fail ==
  /\ at \notin Results /\ ~Accepts /\ (at = "bind" => offset < listEnd)
  /\ at' = "failed"
  /\ IF at = "pdu" /\ offset < Limit THEN Assign(Byte(offset)) ELSE UNCHANGED packet
  /\ UNCHANGED <<data, offset, Ends, oid>>

Parse == \/ ReadPacket \/ ReadVersion \/ ReadCommunity \/ ReadPdu
         \/ ReadId \/ ReadStatus \/ ReadIndex \/ ReadBinds
         \/ ReadBind \/ ReadOid \/ ReadValue \/ Finish \/ Fail

Next == (\E d \in Datagrams : Receive(d)) \/ Parse

Spec == Init /\ [][Next]_vars
-----------------------------------------------------------------------------
(* Properties.                                                             *)

TypeOK ==
  /\ at \in Results \cup Outer \cup Inner \cup {"bind", "oid", "value"}
  /\ data \in Seq(Octet) /\ offset \in Nat
  /\ pduEnd \in Nat /\ listEnd \in Nat /\ bindEnd \in Nat
  /\ packet \in Packet /\ oid \in Seq(Octet)

\* parse() never leaves the element it is in: offset, and the end of every
\* enclosing element, lie within the next one out, and so within the datagram,
\* however the lengths in it contradict each other.
Inside ==
  /\ offset <= Len(data)
  /\ at \in Inner => offset <= pduEnd /\ pduEnd <= Len(data)
  /\ at \in {"bind", "oid", "value"} =>
       offset <= listEnd /\ listEnd <= pduEnd /\ pduEnd <= Len(data)
  /\ at \in {"oid", "value"} => offset <= bindEnd /\ bindEnd <= listEnd

\* Every step of a parse consumes an octet or is its last: no datagram holds
\* the server thread for more steps than it has octets.
Consumes == [][\/ at \in Results
               \/ at' \in Results
               \/ offset < offset']_vars
=============================================================================
