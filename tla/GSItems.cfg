CONSTANTS
  p1 = p1
  p2 = p2
  s1 = s1
  s2 = s2
  s3 = s3
  hall = hall
  yard = yard
  cave = cave
  key = key
  lamp = lamp
  Players = {p1, p2}
  Sockets = {s1, s2, s3}
  Publishers = {s1, s2, s3}
  PlayerOf <- MCPlayerOf
  Rooms = {hall}
  StartRoom = hall
  Items = {key, lamp}
  Fixtures = {lamp}
  SeedRoom <- InHall
  Exits = {}
  Overlap = TRUE
  Commands = {"take", "drop", "look"}
  MaxFaults = 1
  NoSocket = NoSocket
  NoRoom = NoRoom
  NoItem = NoItem
SPECIFICATION Spec
INVARIANTS ItemInOnePlace NoItemLost
CHECK_DEADLOCK FALSE
SYMMETRY Sessions
