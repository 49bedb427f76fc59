CONSTANTS
  p1 = p1
  p2 = p2
  s1 = s1
  s2 = s2
  s3 = s3
  hall = hall
  yard = yard
  cave = cave
  key = key
  lamp = lamp
  Players = {p1}
  Sockets = {s1, s2}
  Publishers = {s1, s2}
  PlayerOf <- MCPlayerOf
  Rooms = {hall, yard, cave}
  StartRoom = hall
  Items = {}
  Fixtures = {}
  SeedRoom <- InHall
  Exits <- Star
  Overlap = TRUE
  Commands = {"move"}
  MaxFaults = 0
  NoSocket = NoSocket
  NoRoom = NoRoom
  NoItem = NoItem
SPECIFICATION Spec
PROPERTIES MovesFollowExits
CHECK_DEADLOCK FALSE
