\* The same instance: a long packet does not come through.
SPECIFICATION WireSpec
CONSTANTS
  NoPacket = NoPacket
  Packets <- ThePackets
  Damaged <- TheDamaged
  Datagrams <- TheDatagrams
INVARIANT LongIsAccepted
