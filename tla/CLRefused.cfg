CONSTANTS
  Sockets = {s1}
  NoSocket = NoSocket
  StrictMode = FALSE
SPECIFICATION Spec
PROPERTIES RefusedSignsInAgain
