CONSTANTS
  p1 = p1
  p2 = p2
  s1 = s1
  s2 = s2
  s3 = s3
  Players = {p1, p2}
  Sockets = {s1, s2, s3}
  Rooms = {r1, r2}
  Publishers = {b1, b2}
  PlayerOf <- MCPlayerOf
  NoSocket = NoSocket
  NoRoom = NoRoom
SPECIFICATION FairBrokerSpec
INVARIANTS BrokerTypeOK RoomIndex
PROPERTIES ImplementsRegistry FanOutCompletes
