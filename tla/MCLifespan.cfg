CONSTANTS
  p1 = p1
  p2 = p2
  s3 = s3
  Players = {p1, p2}
  Rooms = {square, tavern, cellar}
  Sockets = {s1, s2, s3}
  Publishers = {square, tavern, cellar}
  PlayerOf <- MCPlayerOf
  NoSocket = NoSocket
  NoRoom = NoRoom
  Speakers = {square, tavern}
  MaxCrashes = 2
SPECIFICATION FairSpec
INVARIANTS TypeOK WorldComplete
PROPERTIES NpcsKeepTalking StopReturns
