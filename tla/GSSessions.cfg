CONSTANTS
  p1 = p1
  p2 = p2
  s1 = s1
  s2 = s2
  s3 = s3
  hall = hall
  yard = yard
  cave = cave
  key = key
  lamp = lamp
  Players = {p1}
  Sockets = {s1, s2}
  Publishers = {s1, s2}
  PlayerOf <- MCPlayerOf
  Rooms = {hall, yard}
  StartRoom = hall
  Items = {key}
  Fixtures = {}
  SeedRoom <- InHall
  Exits <- Corridor
  Overlap = TRUE
  Commands = {"move", "take", "say", "shout", "quit"}
  MaxFaults = 1
  NoSocket = NoSocket
  NoRoom = NoRoom
  NoItem = NoItem
SPECIFICATION FairSpec
INVARIANTS OneSessionPerPlayer OwnNewsOmitted
PROPERTIES ImplementsBroker CommandsFinish DeadSocketsReleased
CHECK_DEADLOCK FALSE
