--------------------------- MODULE SnmpPacketWire ---------------------------
(***************************************************************************)
(* SNMPPacket::serialize() at one end, parse() at the other: what becomes   *)
(* of a packet on its way, and of octets that nobody serialized.            *)
(***************************************************************************)
EXTENDS SnmpPacket, SequencesExt

CONSTANTS
  Packets,   \* the packets that peers serialize
  Damaged,   \* other octets that arrive
  NoPacket

\* The callers of parse() receive 4096 octets.
ASSUME WireAssumption ==
  /\ Packets \subseteq Packet /\ NoPacket \notin Packet
  /\ Damaged \subseteq Seq(Octet) /\ \A d \in Damaged : Len(d) < Beyond

VARIABLE sent   \* history: the packet that data is the serialization of

wireVars == <<at, data, offset, pduEnd, listEnd, bindEnd, packet, oid, sent>>

-----------------------------------------------------------------------------
(* serialize().                                                            *)

\* Every length takes one octet, whatever it is.
Element(tag, body) == <<tag, Len(body) % 256>> \o body

Binding(b) == Element(SEQUENCE, Element(OBJECT, b.oid) \o Element(b.type, b.value))

PduFields(p) ==
  Element(INTEGER, p.id) \o Element(INTEGER, <<p.status>>) \o
  Element(INTEGER, <<p.index>>) \o
  Element(SEQUENCE, FlattenSeq([k \in 1..Len(p.binds) |-> Binding(p.binds[k])]))

serialize(p) ==
  Element(SEQUENCE,
    Element(INTEGER, <<p.version>>) \o Element(OCTETS, p.community) \o
    Element(p.pdu, PduFields(p)))

-----------------------------------------------------------------------------
WireInit == Init /\ sent = NoPacket

\* A new object parses what nobody serialized.
ReceiveDamaged(d) == at = "idle" /\ Receive(d) /\ sent' = NoPacket

\* An object parses what a peer serialized, over whatever it holds.
ReceivePacket(p) == Receive(serialize(p)) /\ sent' = p

\* What was accepted is serialized again and parsed by a new object.
ParseAgain ==
  /\ at = "parsed" /\ Begin(serialize(packet))
  /\ sent' = packet /\ packet' = Default

ParseStep == Parse /\ UNCHANGED sent

WireNext == \/ \E d \in Damaged : ReceiveDamaged(d)
            \/ \E p \in Packets : ReceivePacket(p)
            \/ ParseAgain \/ ParseStep

WireSpec == WireInit /\ [][WireNext]_wireVars
-----------------------------------------------------------------------------
(* Properties.                                                             *)

\* What parse() returns for a datagram that a peer serialized is the peer's
\* packet, whatever was parsed into the object before: no field of an earlier
\* packet shines through, and a packet too long for its length octets is lost
\* rather than misread.
NeverMisread == at = "parsed" /\ sent # NoPacket => packet = sent

\* A packet whose contents take less than 128 octets is never lost.
ShortIsAccepted == at = "failed" /\ sent # NoPacket => Len(data) >= 130

\* A datagram that was cut short, or that has octets appended as when one
\* recv() on a connection returns two messages, is refused, not half parsed:
\* of a packet whose contents fit their length octet, that is.  The first
\* octets of a longer one can be a packet of their own.
WholeOrNothing ==
  at = "parsed" =>
    \A p \in Packets : Len(serialize(p)) < 258 =>
      /\ ~IsStrictPrefix(data, serialize(p))
      /\ ~IsStrictPrefix(serialize(p), data)

\* "Length (1-4 bytes)": whatever serialize() makes of a packet parses.
LongIsAccepted == at = "failed" => sent = NoPacket
=============================================================================
