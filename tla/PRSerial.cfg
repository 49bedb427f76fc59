CONSTANTS
  p1 = p1
  p2 = p2
  s1 = s1
  s2 = s2
  s3 = s3
  hall = hall
  yard = yard
  cave = cave
  key = key
  lamp = lamp
  Players = {p1, p2}
  Sockets = {s1, s2, s3}
  Publishers = {s1, s2, s3}
  PlayerOf <- MCPlayerOf
  Rooms = {hall, yard, cave}
  StartRoom = hall
  Items = {key, lamp}
  Fixtures = {lamp}
  SeedRoom <- InHall
  Exits <- Locked
  Overlap = FALSE
  Commands = {"move", "take", "drop", "say", "look", "quit"}
  MaxFaults = 0
  NoSocket = NoSocket
  NoRoom = NoRoom
  NoItem = NoItem
SPECIFICATION PresenceSpec
INVARIANTS TypeOK CacheAgrees NobodyLeftBehind 
PROPERTIES ImplementsWorld InventorySentIsFull SpeakerHearsSay
CHECK_DEADLOCK FALSE
SYMMETRY Sessions
