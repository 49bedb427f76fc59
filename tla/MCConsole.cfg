CONSTANTS
  Sockets = {s1, s2, s3}
  NoSocket = NoSocket
  StrictMode = TRUE
  Lines <- MCLines
  InFlight = 2
SPECIFICATION ConsoleFairSpec
INVARIANTS ConsoleTypeOK OneLiveSocket HonestStatus RepliesInOrder
PROPERTIES NotSignedOutByThePast QuitLeaves ImplementsClient
