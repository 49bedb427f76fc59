CONSTANTS
  p1 = p1
  p2 = p2
  s1 = s1
  s2 = s2
  s3 = s3
  hall = hall
  yard = yard
  cave = cave
  key = key
  lamp = lamp
  Players = {p1, p2}
  Sockets = {s1, s3}
  Publishers = {s1, s3}
  PlayerOf <- MCPlayerOf
  Rooms = {hall, yard}
  StartRoom = hall
  Items = {}
  Fixtures = {}
  SeedRoom <- InHall
  Exits <- Corridor
  Overlap = FALSE
  Commands = {"move"}
  MaxFaults = 0
  NoSocket = NoSocket
  NoRoom = NoRoom
  NoItem = NoItem
SPECIFICATION PresenceSpec
INVARIANTS NobodyUnseen
CHECK_DEADLOCK FALSE
