\* Packets of every size class, and damaged datagrams.
SPECIFICATION WireSpec
CONSTANTS
  NoPacket = NoPacket
  Packets <- ThePackets
  Damaged <- TheDamaged
  Datagrams <- TheDatagrams
INVARIANTS
  TypeOK
  Inside
  NeverMisread
  ShortIsAccepted
  WholeOrNothing
PROPERTIES
  Consumes
