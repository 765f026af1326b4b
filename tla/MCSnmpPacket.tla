---------------------------- MODULE MCSnmpPacket ----------------------------
(***************************************************************************)
(* A small instance of SnmpPacketWire: packets whose contents take just     *)
(* under and over 128 and 256 octets, and small ones cut, extended and      *)
(* altered in one octet.                                                    *)
(***************************************************************************)
EXTENDS SnmpPacketWire

Public(n) == [k \in 1..n |-> 112]
Bind(o, t, v) == [oid |-> o, type |-> t, value |-> v]

OfCommunity(n) ==
  [version |-> 1, community |-> Public(n), pdu |-> 160, id |-> <<1, 2, 3, 4>>,
   status |-> 0, index |-> 0, binds |-> <<Bind(<<43, 6>>, 5, <<>>)>>]

GetPacket  == [OfCommunity(2) EXCEPT !.binds = <<>>]
SetPacket  == [OfCommunity(1) EXCEPT !.pdu = 163, !.version = 0, !.status = 2,
                 !.index = 255, !.id = <<255, 0, 0, 7>>,
                 !.binds = <<Bind(<<43>>, 2, <<1, 200>>), Bind(<<>>, 48, <<>>)>>]

\* 24 octets of the contents are not the community's.
LongPackets == {OfCommunity(n) : n \in {95, 96, 97, 98, 99, 128, 223, 224, 225, 227, 256}}
LongBind    == [OfCommunity(0) EXCEPT !.binds = <<Bind(Public(128), 2, Public(2))>>]

\* 277 octets of contents; the first 21 of them are those of another packet,
\* because its community begins like a PDU.
Carrier ==
  [OfCommunity(0) EXCEPT !.binds = <<>>, !.community =
     <<160, 14, 2, 4, 0, 0, 0, 0, 2, 1, 0, 2, 1, 0, 48, 0>> \o Public(240)]

ThePackets == LongPackets \cup {GetPacket, SetPacket, LongBind, Carrier}

Cut(d)      == {SubSeq(d, 1, n) : n \in 0..(Len(d) - 1)}
Extended(d) == {d \o <<48>>, d \o d}
Altered(d)  == {[d EXCEPT ![k] = v] : k \in 1..Len(d),
                  v \in {0, 1, 2, 3, 4, 6, 9, 48, 127, 128, 129, 130, 132, 133, 163, 255}}
\* The list's length twice in a long form; a request ID of five octets.
LongForms ==
  {<<48, 129, 21, 2, 1, 1, 4, 0, 160, 132, 0, 0, 0, 9, 2, 0, 2, 0, 2, 0, 48, 129, 0>>,
   <<48, 131, 0, 0, 25, 2, 1, 1, 4, 0, 160, 18, 2, 5, 9, 8, 7, 6, 5, 2, 2, 1, 2, 2, 0,
     48, 3, 48, 1, 6>>,
   <<48, 23, 2, 1, 1, 4, 0, 160, 16, 2, 5, 9, 8, 7, 6, 5, 2, 2, 1, 2, 2, 0, 48, 130, 0>>,
   <<48, 24, 2, 1, 1, 4, 0, 160, 17, 2, 5, 9, 8, 7, 6, 5, 2, 2, 1, 2, 2, 0, 48, 129, 0, 0>>}

TheDamaged ==
  UNION {Cut(serialize(p)) \cup Extended(serialize(p)) \cup Altered(serialize(p)) :
           p \in {GetPacket, SetPacket}}
  \cup Cut(serialize(OfCommunity(104))) \cup LongForms
  \cup {SubSeq(serialize(Carrier), 1, 23)}

TheDatagrams == TheDamaged \cup {serialize(p) : p \in ThePackets}
=============================================================================
