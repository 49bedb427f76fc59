----------------------------- MODULE SerialProofs -----------------------------
(***************************************************************************)
(* The game when the sessions of a player follow one another: the broker   *)
(* has everybody where the session's Player is, whatever fails, and until  *)
(* something does, that Player, loaded once, is as good as the documents,  *)
(* and the server plays the game of module World.  For every number of     *)
(* players and sessions, every map and all things in it.                   *)
(***************************************************************************)
EXTENDS GameServerProofs

Successive == Overlap = FALSE
Serial == Successive /\ MaxFaults = 0

Alive(s) == pc[s] \notin {"new", "ended"}
OneAlive ==
  \A s, t \in Sockets : PlayerOf[s] = PlayerOf[t] /\ Alive(s) /\ Alive(t) => s = t

\* Where the documents and the broker have the player of a session that works
\* with its Player, and what they say it carries.
Loaded == {"view", "welcome"} \cup (Serving \ {"leave"})
Whereabouts(s) ==
  IF pc[s] \in {"move.view", "move.sent", "move.depart", "move.arrive"}
  THEN dest[s] ELSE room[s]
Subscribed(s) ==
  IF pc[s] \in {"move.depart", "move.arrive"} THEN dest[s] ELSE room[s]
Holds(s) ==
  IF pc[s] \in {"take.list", "take.sent", "take.told"} THEN TakeInventory(s)
  ELSE IF pc[s] \in {"drop.push", "drop.list", "drop.sent", "drop.told"}
       THEN DropInventory(s) ELSE inv[s]

WayOpen(s) ==
  \E e \in Exits :
    e.from = room[s] /\ e.to = dest[s] /\ e.key \in inv[s] \cup {NoItem}

InStep(s) ==
  LET p == PlayerOf[s] IN
  /\ faults = 0 /\ pc[s] \in Loaded =>
       currentRoomId[p] = Whereabouts(s) /\ Contents(inventoryItemIds[p]) = Holds(s)
  /\ pc[s] \in Serving \ {"leave"} =>
       p \in DOMAIN playerRooms /\ playerRooms[p] = Subscribed(s)
  /\ pc[s] = "move.update" => WayOpen(s)
  /\ pc[s] = "take.pull" => item[s] \notin Fixtures
  /\ s \in closed => pc[s] \in {"leave", "ended"}

\* CacheAgrees speaks of the moments between commands; this, of all moments.
SerialInv ==
  /\ OneAlive
  /\ \A s \in Sockets : InStep(s)
  /\ NobodyLeftBehind

LEMMA SerialInit == Init => SerialInv
  BY DEF Init, BrokerInit, SerialInv, OneAlive, Alive, InStep, Loaded, Serving,
         Handling, AtDatabase, AtSockets, NobodyLeftBehind

\* A step of s leaves the other sessions, and what is known of the players they
\* play, as they are.
Others(s) ==
  /\ \A t \in Sockets \ {s} :
       /\ pc'[t] = pc[t] /\ room'[t] = room[t] /\ inv'[t] = inv[t]
       /\ item'[t] = item[t] /\ dest'[t] = dest[t]
  /\ \A q \in Players \ {PlayerOf[s]} :
       /\ currentRoomId'[q] = currentRoomId[q]
       /\ inventoryItemIds'[q] = inventoryItemIds[q]
       /\ q \in DOMAIN playerRooms =>
            q \in DOMAIN playerRooms' /\ playerRooms'[q] = playerRooms[q]
  /\ closed' \subseteq closed \cup {s}
  /\ UNCHANGED faults

\* So what remains to be seen of such a step is what it does to s.
LEMMA OneStep ==
  ASSUME SerialInv, NEW s \in Sockets, Others(s),
         \A t \in Sockets \ {s} : PlayerOf[t] = PlayerOf[s] => ~Alive(t),
         InStep(s)', NobodyLeftBehind'
  PROVE  SerialInv'
  <1>1. OneAlive'
    BY DEF OneAlive, Alive, SerialInv, Others
  <1>2. ASSUME NEW t \in Sockets \ {s}
        PROVE  InStep(t)'
    <2>1. InStep(t) /\ PlayerOf[t] \in Players
      BY SocketAssumption DEF SerialInv
    <2>2. CASE PlayerOf[t] = PlayerOf[s]
      <3>1. pc'[t] \in {"new", "ended"} /\ pc'[t] = pc[t]
        BY <2>2 DEF Others, Alive
      <3>2. t \in closed' => t \in closed
        BY DEF Others
      <3>3. QED
        BY <2>1, <3>1, <3>2
        DEF InStep, Loaded, Serving, Handling, AtDatabase, AtSockets
    <2>3. CASE PlayerOf[t] # PlayerOf[s]
      BY <2>1, <2>3
      DEF Others, InStep, Whereabouts, Subscribed, Holds, TakeInventory, DropInventory,
          WayOpen
    <2>4. QED
      BY <2>2, <2>3
  <1>3. QED
    BY <1>1, <1>2 DEF SerialInv

\* Steps of s on its own locals.
LEMMA LocalStep ==
  ASSUME SerialInv, NEW s \in Sockets, Alive(s),
         \A t \in Sockets \ {s} :
           /\ pc'[t] = pc[t] /\ room'[t] = room[t] /\ inv'[t] = inv[t]
           /\ item'[t] = item[t] /\ dest'[t] = dest[t],
         UNCHANGED <<currentRoomId, inventoryItemIds, players, playerRooms, faults>>,
         closed' \subseteq closed \cup {s},
         InStep(s)'
  PROVE  SerialInv'
  <1>1. Others(s) /\ NobodyLeftBehind'
    BY DEF Others, NobodyLeftBehind, SerialInv
  <1>2. \A t \in Sockets \ {s} : PlayerOf[t] = PlayerOf[s] => ~Alive(t)
    BY DEF SerialInv, OneAlive
  <1>3. QED
    BY <1>1, <1>2, OneStep

LEMMA UnchangedStep ==
  ASSUME SerialInv,
         UNCHANGED <<pc, locals, database, players, playerRooms, closed, faults>>
  PROVE  SerialInv'
  BY DEF SerialInv, OneAlive, Alive, InStep, Whereabouts, Subscribed, Holds, WayOpen,
         TakeInventory, DropInventory, NobodyLeftBehind, locals, database

-------------------------------------------------------------------------------
(* Each step.                                                              *)

LEMMA SerialLocal ==
  ASSUME Types, SerialInv, NEW s \in Sockets,
         \/ LoadPlayer(s)
         \/ Welcome(s)
         \/ Refuse(s)
         \/ Serve(s)
         \/ ClientLeaves(s)
         \/ Hangup(s)
         \/ Quit(s)
         \/ Answer(s)
         \/ Look(s)
         \/ LookDone(s)
         \/ Say(s)
         \/ Shout(s)
         \/ ChatDone(s)
         \/ MoveEnter(s)
         \/ MoveArrive(s)
         \/ MoveDone(s)
         \/ TakeList(s)
         \/ TakeTell(s)
         \/ TakeDone(s)
         \/ DropList(s)
         \/ DropPush(s)
         \/ DropTell(s)
         \/ DropDone(s)
         \/ SendFails(s)
         \/ Fanout(s)
         \/ \E e \in Exits : MoveStart(s, e)
         \/ \E i \in Items : TakeFind(s, i)
         \/ \E i \in Items : DropFind(s, i)
  PROVE  SerialInv'
  <1>0. /\ pc \in [Sockets -> Places] /\ room \in [Sockets -> Rooms \cup {NoRoom}]
        /\ inv \in [Sockets -> SUBSET Items] /\ item \in [Sockets -> Items \cup {NoItem}]
        /\ dest \in [Sockets -> Rooms \cup {NoRoom}]
        /\ SerialInv /\ InStep(s) /\ s \in Sockets
    BY DEF Types, SessionTypes, SerialInv
  <1> USE DEF Places, Loaded, Startup, Serving, Handling, AtDatabase, AtSockets, Alive, InStep, Whereabouts,
              Subscribed, Holds, TakeInventory, DropInventory, WayOpen
  <1>1. CASE LoadPlayer(s)
    BY <1>0, <1>1, LocalStep DEF LoadPlayer, Goto, database, brokerVars
  <1>2. CASE Welcome(s)
    BY <1>0, <1>2, LocalStep DEF Welcome, Goto, locals, database, brokerVars
  <1>3. CASE Refuse(s)
    <2>1. /\ \A t \in Sockets \ {s} :
               /\ pc'[t] = pc[t] /\ room'[t] = room[t] /\ inv'[t] = inv[t]
               /\ item'[t] = item[t] /\ dest'[t] = dest[t]
          /\ UNCHANGED <<currentRoomId, inventoryItemIds, players, playerRooms, closed, faults>>
          /\ pc'[s] = "ended"
      BY <1>0, <1>3 DEF Refuse, End, database, brokerVars
    <2>2. \A t \in Sockets : InStep(t)'
      BY <2>1 DEF SerialInv
    <2>3. OneAlive' /\ NobodyLeftBehind'
      BY <2>1 DEF SerialInv, OneAlive, NobodyLeftBehind
    <2>4. QED
      BY <2>2, <2>3 DEF SerialInv
  <1>4. CASE Serve(s)
    BY <1>0, <1>4, LocalStep DEF Serve, ReturnUnchanged, Return, database, brokerVars
  <1>5. CASE ClientLeaves(s)
    BY <1>0, <1>5, LocalStep DEF ClientLeaves, locals, database, brokerVars
  <1>6. CASE Hangup(s)
    BY <1>0, <1>6, LocalStep DEF Hangup, Goto, locals, database, brokerVars
  <1>7. CASE Quit(s)
    BY <1>0, <1>7, LocalStep DEF Quit, Goto, CloseSocket, dictionaries, locals, database
  <1>8. CASE Answer(s) \/ Look(s) \/ LookDone(s)
    <2>1. CASE Look(s)
      BY <1>0, <2>1, LocalStep DEF Look, Goto, locals, database, brokerVars
    <2>2. CASE Answer(s)
      BY <1>0, <2>2, LocalStep DEF Answer, ReturnUnchanged, Return, database, brokerVars
    <2>3. CASE LookDone(s)
      BY <1>0, <2>3, LocalStep DEF LookDone, ReturnUnchanged, Return, database, brokerVars
    <2>4. QED
      BY <1>8, <2>1, <2>2, <2>3
  <1>9. CASE Say(s)
    BY <1>0, <1>9, LocalStep DEF Say, Goto, locals, database, PublishToRoom, dictionaries
  <1>10. CASE Shout(s)
    BY <1>0, <1>10, LocalStep DEF Shout, Goto, locals, database, PublishToAll, dictionaries
  <1>11. CASE ChatDone(s)
    BY <1>0, <1>11, LocalStep DEF ChatDone, ReturnUnchanged, Return, database, brokerVars
  <1>12. CASE MoveEnter(s)
    BY <1>0, <1>12, LocalStep DEF MoveEnter, Goto, locals, database, brokerVars
  <1>13. CASE MoveArrive(s)
    BY <1>0, <1>13, LocalStep DEF MoveArrive, Goto, locals, database, PublishToRoom, dictionaries
  <1>14. CASE MoveDone(s)
    BY <1>0, <1>14, LocalStep DEF MoveDone, Return, database, brokerVars
  <1>15. CASE TakeList(s)
    BY <1>0, <1>15, LocalStep DEF TakeList, Goto, locals, database, brokerVars
  <1>16. CASE TakeTell(s)
    BY <1>0, <1>16, LocalStep DEF TakeTell, Goto, locals, database, PublishToRoom, dictionaries
  <1>17. CASE TakeDone(s)
    BY <1>0, <1>17, LocalStep DEF TakeDone, Return, database, brokerVars
  <1>18. CASE DropList(s)
    BY <1>0, <1>18, LocalStep DEF DropList, Goto, locals, database, brokerVars
  <1>19. CASE DropPush(s)
    BY <1>0, <1>19, LocalStep DEF DropPush, Goto, locals, brokerVars
  <1>20. CASE DropTell(s)
    BY <1>0, <1>20, LocalStep DEF DropTell, Goto, locals, database, PublishToRoom, dictionaries
  <1>21. CASE DropDone(s)
    BY <1>0, <1>21, LocalStep DEF DropDone, Return, database, brokerVars
  <1>22. CASE SendFails(s)
    BY <1>0, <1>22, LocalStep DEF SendFails, locals, database, brokerVars
  <1>23. CASE Fanout(s)
    <2>1. UNCHANGED <<pc, locals, database, players, playerRooms, closed, faults>>
      BY <1>23 DEF Fanout, Deliver, dictionaries
    <2>2. QED
      BY <2>1, UnchangedStep
  <1>24. CASE \E e \in Exits : MoveStart(s, e)
    <2>1. PICK e \in Exits : MoveStart(s, e)
      BY <1>24
    <2>2. QED
      BY <1>0, <2>1, LocalStep DEF MoveStart, Goto, Passable, database, brokerVars
  <1>25. CASE \E i \in Items : TakeFind(s, i)
    <2>1. PICK i \in Items : TakeFind(s, i)
      BY <1>25
    <2>2. QED
      BY <1>0, <2>1, LocalStep DEF TakeFind, Goto, database, brokerVars
  <1>26. CASE \E i \in Items : DropFind(s, i)
    <2>1. PICK i \in Items : DropFind(s, i)
      BY <1>26
    <2>2. QED
      BY <1>0, <2>1, LocalStep DEF DropFind, Goto, database, brokerVars
  <1>27. QED
    BY <1>1, <1>2, <1>3, <1>4, <1>5, <1>6, <1>7, <1>8, <1>9, <1>10, <1>11, <1>12, <1>13, <1>14, <1>15, <1>16, <1>17, <1>18, <1>19, <1>20, <1>21, <1>22, <1>23, <1>24, <1>25, <1>26

\* A session begins where its player has no other under way.
LEMMA SerialOpen ==
  ASSUME Successive, Types, SerialInv, NEW s \in Sockets, Open(s)
  PROVE  SerialInv'
  <1>1. /\ pc[s] = "new" /\ pc' = [pc EXCEPT ![s] = "load"]
        /\ UNCHANGED <<locals, database, players, playerRooms, closed, faults>>
    BY DEF Open, Goto, brokerVars
  <1>2. \A t \in Sockets \ {s} : PlayerOf[t] = PlayerOf[s] => ~Alive(t)
    BY DEF Open, Successive, Alive
  <1>3. InStep(s)'
    BY <1>1 DEF Types, SessionTypes, SerialInv, InStep, Loaded, Serving, Handling,
                AtDatabase, AtSockets
  <1>4. Others(s) /\ NobodyLeftBehind'
    BY <1>1 DEF Types, SessionTypes, Others, locals, database, SerialInv,
                NobodyLeftBehind
  <1>5. QED
    BY <1>2, <1>3, <1>4, OneStep

\* It displaces nobody, and is registered where it was loaded.
LEMMA SerialJoin ==
  ASSUME Types, OneSessionPerPlayer, BrokerTypeOK, SerialInv,
         NEW s \in Sockets, Join(s)
  PROVE  SerialInv'
  <1> DEFINE p == PlayerOf[s]
  <1>1. /\ pc[s] = "welcome" /\ pc' = [pc EXCEPT ![s] = "joined"]
        /\ UNCHANGED <<locals, database, faults>>
        /\ players' = Put(players, p, s) /\ playerRooms' = Put(playerRooms, p, room[s])
        /\ closed' = closed \cup Displaced(s)
    BY DEF Join, Goto, Connect
  <1>2. \A t \in Sockets \ {s} : PlayerOf[t] = PlayerOf[s] => ~Alive(t)
    BY <1>1 DEF SerialInv, OneAlive, Alive
  <1>3. Displaced(s) = {}
    <2>1. ASSUME NEW t \in Displaced(s)
          PROVE  FALSE
      <3>1. p \in DOMAIN players /\ t = players[p] /\ t # s
        BY DEF Displaced, Get
      <3>2. t \in Sockets /\ PlayerOf[t] = p
        BY <3>1 DEF BrokerTypeOK
      <3>3. pc[t] \in Serving
        BY <3>1, <3>2 DEF OneSessionPerPlayer, IsRegistered, Get
      <3>4. QED
        BY <1>2, <3>1, <3>2, <3>3 DEF Alive, Serving, Handling, AtDatabase, AtSockets
    <2>2. QED
      BY <2>1
  <1>4. InStep(s)'
    BY <1>1, <1>3
    DEF Types, SessionTypes, SerialInv, InStep, Loaded, Serving, Whereabouts,
        Subscribed, Holds, locals, database, Put
  <1>5. Others(s)
    BY <1>1, <1>3 DEF Types, SessionTypes, Others, locals, database, Put
  <1>6. NobodyLeftBehind'
    <2>1. /\ DOMAIN players' = DOMAIN players \cup {p}
          /\ DOMAIN playerRooms' = DOMAIN playerRooms \cup {p}
      BY <1>1, PutDomain
    <2>2. QED
      BY <2>1 DEF SerialInv, NobodyLeftBehind
  <1>7. QED
    BY <1>2, <1>4, <1>5, <1>6, OneStep

LEMMA SerialLeave ==
  ASSUME Types, SerialInv, NEW s \in Sockets, Leave(s)
  PROVE  SerialInv'
  <1> DEFINE p == PlayerOf[s]
  <1>1. /\ pc[s] = "leave" /\ pc'[s] = "ended"
        /\ \A t \in Sockets \ {s} :
             /\ pc'[t] = pc[t] /\ room'[t] = room[t] /\ inv'[t] = inv[t]
             /\ item'[t] = item[t] /\ dest'[t] = dest[t]
        /\ UNCHANGED <<database, closed, faults>>
    BY DEF Leave, End, Disconnect, Types, SessionTypes
  <1>2. \A t \in Sockets \ {s} : PlayerOf[t] = PlayerOf[s] => ~Alive(t)
    BY <1>1 DEF SerialInv, OneAlive, Alive
  <1>3. InStep(s)'
    BY <1>1 DEF InStep, Loaded, Serving, Handling, AtDatabase, AtSockets
  <1>4. \/ UNCHANGED <<players, playerRooms>>
        \/ players' = Without(players, p) /\ playerRooms' = Without(playerRooms, p)
    BY DEF Leave, Disconnect, dictionaries
  <1>5. Others(s)
    BY <1>1, <1>4 DEF Others, database, Without, Restrict
  <1>6. NobodyLeftBehind'
    <2>1. \/ UNCHANGED <<players, playerRooms>>
          \/ /\ DOMAIN players' = DOMAIN players \ {p}
             /\ DOMAIN playerRooms' = DOMAIN playerRooms \ {p}
      BY <1>4, WithoutDomain
    <2>2. QED
      BY <2>1 DEF SerialInv, NobodyLeftBehind
  <1>7. QED
    BY <1>2, <1>3, <1>5, <1>6, OneStep

LEMMA SerialMoveUpdate ==
  ASSUME Types, SerialInv, NEW s \in Sockets, MoveUpdate(s)
  PROVE  SerialInv'
  <1>1. /\ pc[s] = "move.update" /\ pc' = [pc EXCEPT ![s] = "move.view"]
        /\ currentRoomId' = [currentRoomId EXCEPT ![PlayerOf[s]] = dest[s]]
        /\ UNCHANGED <<locals, inventoryItemIds, players, playerRooms, closed, faults>>
    BY DEF MoveUpdate, Goto, brokerVars
  <1>2. \A t \in Sockets \ {s} : PlayerOf[t] = PlayerOf[s] => ~Alive(t)
    BY <1>1 DEF SerialInv, OneAlive, Alive
  <1>3. InStep(s)'
    BY <1>1, SocketAssumption
    DEF Types, SessionTypes, DocumentTypes, SerialInv, InStep, Loaded, Serving, Handling,
        AtDatabase, Whereabouts, Subscribed, Holds, locals
  <1>4. Others(s) /\ NobodyLeftBehind'
    BY <1>1 DEF Types, SessionTypes, DocumentTypes, Others, locals, SerialInv,
                NobodyLeftBehind
  <1>5. QED
    BY <1>2, <1>3, <1>4, OneStep

\* The connection of a player who moves is open and registered, so that the
\* broker moves somebody who is there.
LEMMA SerialMoveDepart ==
  ASSUME Types, OneSessionPerPlayer, SerialInv, NEW s \in Sockets, MoveDepart(s)
  PROVE  SerialInv'
  <1> DEFINE p == PlayerOf[s]
  <1>1. /\ pc[s] = "move.sent" /\ pc' = [pc EXCEPT ![s] = "move.depart"]
        /\ UNCHANGED <<locals, database, players, closed, faults>>
        /\ MoveTo(p, dest[s])
    BY DEF MoveDepart, Goto, MoveAndPublish, MoveTo
  <1>2. \A t \in Sockets \ {s} : PlayerOf[t] = PlayerOf[s] => ~Alive(t)
    BY <1>1 DEF SerialInv, OneAlive, Alive
  <1>3. p \in DOMAIN playerRooms
    BY <1>1 DEF SerialInv, InStep, Serving, Handling, AtSockets
  <1>4. /\ DOMAIN playerRooms' = DOMAIN playerRooms
        /\ playerRooms'[p] = dest[s]
        /\ \A q \in DOMAIN playerRooms \ {p} : playerRooms'[q] = playerRooms[q]
    BY <1>1, <1>3 DEF MoveTo, Get, Put
  <1>5. InStep(s)'
    BY <1>1, <1>3, <1>4
    DEF Types, SessionTypes, SerialInv, InStep, Loaded, Serving, Handling, AtSockets,
        Whereabouts, Subscribed, Holds, locals, database
  <1>6. Others(s) /\ NobodyLeftBehind'
    BY <1>1, <1>4 DEF Types, SessionTypes, Others, locals, database, SerialInv,
                      NobodyLeftBehind
  <1>7. QED
    BY <1>2, <1>5, <1>6, OneStep

LEMMA PullContents ==
  ASSUME NEW list \in [Items -> Nat], NEW i \in Items
  PROVE  Contents(Pull(list, i)) = Contents(list) \ {i}
  BY DEF Contents, Pull, Has

LEMMA PushContents ==
  ASSUME NEW list \in [Items -> Nat], NEW i \in Items
  PROVE  Contents(Push(list, i)) = Contents(list) \cup {i}
  BY DEF Contents, Push, Has

LEMMA SerialTakePull ==
  ASSUME Types, SerialInv, NEW s \in Sockets, TakePull(s)
  PROVE  SerialInv'
  <1>1. /\ pc[s] = "take.pull" /\ InStep(s)
        /\ UNCHANGED <<currentRoomId, inventoryItemIds, players, playerRooms, closed, faults>>
    BY DEF TakePull, brokerVars, SerialInv
  <1>2. CASE pc' = [pc EXCEPT ![s] = "take.push"] /\ UNCHANGED locals
    <2>1. InStep(s)'
      BY <1>1, <1>2
      DEF Types, SessionTypes, InStep, Loaded, Serving, Handling, AtDatabase,
          Whereabouts, Subscribed, Holds, locals
    <2>2. QED
      BY <1>1, <1>2, <2>1, LocalStep DEF Types, SessionTypes, Alive, locals
  <1>3. CASE ReturnUnchanged(s)
    <2>1. InStep(s)'
      BY <1>1, <1>3
      DEF Types, SessionTypes, InStep, Loaded, Serving, Handling, AtDatabase,
          Whereabouts, Subscribed, Holds, ReturnUnchanged, Return
    <2>2. QED
      BY <1>1, <1>3, <2>1, LocalStep
      DEF Types, SessionTypes, Alive, ReturnUnchanged, Return
  <1>4. QED
    BY <1>2, <1>3 DEF TakePull, Goto

LEMMA SerialTakePush ==
  ASSUME Types, SerialInv, NEW s \in Sockets, TakePush(s)
  PROVE  SerialInv'
  <1> DEFINE p == PlayerOf[s]
  <1>1. /\ pc[s] = "take.push" /\ pc' = [pc EXCEPT ![s] = "take.list"]
        /\ InStep(s) /\ item[s] \in Items /\ p \in Players
        /\ inventoryItemIds' =
             [inventoryItemIds EXCEPT ![p] = Push(inventoryItemIds[p], item[s])]
        /\ UNCHANGED <<locals, currentRoomId, players, playerRooms, closed, faults>>
    BY SocketAssumption
    DEF TakePush, Goto, brokerVars, SerialInv, Types, SessionTypes
  <1>2. \A t \in Sockets \ {s} : PlayerOf[t] = PlayerOf[s] => ~Alive(t)
    BY <1>1 DEF SerialInv, OneAlive, Alive
  <1>3. Contents(inventoryItemIds'[p]) = Contents(inventoryItemIds[p]) \cup {item[s]}
    BY <1>1, PushContents DEF Types, DocumentTypes
  <1>4. InStep(s)'
    BY <1>1, <1>3
    DEF Types, SessionTypes, InStep, Loaded, Serving, Handling, AtDatabase, Whereabouts,
        Subscribed, Holds, TakeInventory, locals
  <1>5. Others(s) /\ NobodyLeftBehind'
    BY <1>1 DEF Types, SessionTypes, DocumentTypes, Others, locals, SerialInv,
                NobodyLeftBehind
  <1>6. QED
    BY <1>2, <1>4, <1>5, OneStep

LEMMA SerialDropPull ==
  ASSUME Types, SerialInv, NEW s \in Sockets, DropPull(s)
  PROVE  SerialInv'
  <1> DEFINE p == PlayerOf[s]
  <1>1. /\ pc[s] = "drop.pull" /\ InStep(s) /\ item[s] \in Items /\ p \in Players
        /\ UNCHANGED <<currentRoomId, players, playerRooms, closed, faults>>
    BY SocketAssumption DEF DropPull, brokerVars, SerialInv, Types, SessionTypes
  <1>2. CASE ~Has(inventoryItemIds[p], item[s])
    <2>1. ReturnUnchanged(s) /\ UNCHANGED inventoryItemIds
      BY <1>2 DEF DropPull, Modified
    <2>2. InStep(s)'
      BY <1>1, <2>1
      DEF Types, SessionTypes, InStep, Loaded, Serving, Handling, AtDatabase,
          Whereabouts, Subscribed, Holds, ReturnUnchanged, Return
    <2>3. QED
      BY <1>1, <2>1, <2>2, LocalStep
      DEF Types, SessionTypes, Alive, ReturnUnchanged, Return
  <1>3. CASE Has(inventoryItemIds[p], item[s])
    <2>1. /\ pc' = [pc EXCEPT ![s] = "drop.push"] /\ UNCHANGED locals
          /\ inventoryItemIds' =
               [inventoryItemIds EXCEPT ![p] = Pull(inventoryItemIds[p], item[s])]
      BY <1>3 DEF DropPull, Modified, Goto
    <2>2. \A t \in Sockets \ {s} : PlayerOf[t] = PlayerOf[s] => ~Alive(t)
      BY <1>1 DEF SerialInv, OneAlive, Alive
    <2>3. Contents(inventoryItemIds'[p]) = Contents(inventoryItemIds[p]) \ {item[s]}
      BY <1>1, <2>1, PullContents DEF Types, DocumentTypes
    <2>4. InStep(s)'
      BY <1>1, <2>1, <2>3
      DEF Types, SessionTypes, InStep, Loaded, Serving, Handling, AtDatabase, Whereabouts,
          Subscribed, Holds, DropInventory, locals
    <2>5. Others(s) /\ NobodyLeftBehind'
      BY <1>1, <2>1 DEF Types, SessionTypes, DocumentTypes, Others, locals, SerialInv,
                        NobodyLeftBehind
    <2>6. QED
      BY <2>2, <2>4, <2>5, OneStep
  <1>4. QED
    BY <1>2, <1>3

\* An error leaves the session with the Player it had, in the room the broker has.
LEMMA SerialDbError ==
  ASSUME Types, SerialInv, NEW s \in Sockets, DbError(s)
  PROVE  SerialInv'
  <1>1. /\ pc[s] \in AtDatabase /\ pc'[s] = IF s \in closed THEN "leave" ELSE "recv"
        /\ room' = room /\ inv' = inv /\ faults' \in Nat \ {0}
        /\ \A t \in Sockets \ {s} :
             pc'[t] = pc[t] /\ item'[t] = item[t] /\ dest'[t] = dest[t]
        /\ UNCHANGED <<database, players, playerRooms, closed>>
    BY DEF DbError, ReturnUnchanged, Return, Types, SessionTypes, brokerVars
  <1>2. InStep(s)'
    BY <1>1 DEF SerialInv, InStep, Serving, Handling, AtDatabase, Subscribed
  <1>3. ASSUME NEW t \in Sockets \ {s}
        PROVE  InStep(t)'
    BY <1>1 DEF SerialInv, InStep, Subscribed, WayOpen
  <1>4. OneAlive' /\ NobodyLeftBehind'
    BY <1>1 DEF SerialInv, OneAlive, Alive, AtDatabase, NobodyLeftBehind
  <1>5. QED
    BY <1>2, <1>3, <1>4 DEF SerialInv

LEMMA SerialCrash ==
  ASSUME Types, SerialInv, Crash
  PROVE  SerialInv'
  <1>1. /\ \A s \in Sockets : pc'[s] = IF pc[s] = "new" THEN "new" ELSE "ended"
        /\ closed' = closed \cup {s \in Sockets : pc[s] # "new"}
        /\ DOMAIN players' = {} /\ DOMAIN playerRooms' = {} /\ faults' \in Nat \ {0}
    BY DEF Crash, Restart, Types
  <1>2. \A s \in Sockets : InStep(s)'
    BY <1>1 DEF SerialInv, InStep, Serving, Handling, AtDatabase, AtSockets
  <1>3. OneAlive' /\ NobodyLeftBehind'
    BY <1>1 DEF OneAlive, Alive, NobodyLeftBehind
  <1>4. QED
    BY <1>2, <1>3 DEF SerialInv

LEMMA SerialNext ==
  ASSUME Successive, Types, BrokerTypeOK, OneSessionPerPlayer, SerialInv, [Next]_vars
  PROVE  SerialInv'
  <1>1. CASE \E s \in Sockets : DbError(s)
    BY <1>1, SerialDbError
  <1>2. CASE Crash
    BY <1>2, SerialCrash
  <1>3. CASE UNCHANGED vars
    BY <1>3, UnchangedStep DEF vars, brokerVars
  <1>4. CASE \E s \in Sockets : Client(s) \/ Progress(s) \/ Hangup(s)
    <2>1. PICK s \in Sockets : Client(s) \/ Progress(s) \/ Hangup(s)
      BY <1>4
    <2>2. \/ Open(s) \/ Join(s) \/ Leave(s) \/ MoveUpdate(s) \/ MoveDepart(s)
          \/ TakePull(s) \/ TakePush(s) \/ DropPull(s)
          \/ LoadPlayer(s) \/ Welcome(s) \/ Refuse(s) \/ Serve(s) \/ ClientLeaves(s)
          \/ Hangup(s) \/ Quit(s) \/ Answer(s) \/ Look(s) \/ LookDone(s) \/ Say(s) \/ Shout(s)
          \/ ChatDone(s)
          \/ MoveEnter(s) \/ MoveArrive(s) \/ MoveDone(s)
          \/ TakeList(s) \/ TakeTell(s) \/ TakeDone(s)
          \/ DropPush(s) \/ DropList(s) \/ DropTell(s) \/ DropDone(s)
          \/ SendFails(s) \/ Fanout(s)
          \/ \E e \in Exits : MoveStart(s, e)
          \/ \E i \in Items : TakeFind(s, i)
          \/ \E i \in Items : DropFind(s, i)
      BY <2>1 DEF Client, Progress, Starting, Chatting, Moving, Taking, Dropping
    <2>3. QED
      BY <2>2, SerialOpen, SerialJoin, SerialLeave, SerialMoveUpdate, SerialMoveDepart,
         SerialTakePull, SerialTakePush, SerialDropPull, SerialLocal
  <1>5. QED
    BY <1>1, <1>2, <1>3, <1>4 DEF Next

LEMMA SerialAlways ==
  ASSUME Successive
  PROVE  Spec => []SerialInv
  <1>1. Spec => []BrokerTypeOK
    BY GameServerRunsBroker, BrokerSafe, PTL DEF ImplementsBroker
  <1>2. Types /\ BrokerTypeOK /\ OneSessionPerPlayer /\ SerialInv /\ [Next]_vars
          => SerialInv'
    BY SerialNext
  <1>3. QED
    BY <1>1, <1>2, TypesAlways, SessionsUnique, SerialInit, PTL DEF Spec

LEMMA NothingFails ==
  ASSUME Serial
  PROVE  Spec => [](faults = 0)
  <1>1. Types => faults = 0
    BY DEF Serial, Types
  <1>2. QED
    BY <1>1, TypesAlways, PTL

(***************************************************************************)
(* The Player a session keeps for its lifetime agrees, between commands,   *)
(* with its document and with the broker, if the sessions of a player      *)
(* follow one another and no database call fails.                          *)
(***************************************************************************)
THEOREM CacheStaysTrue ==
  ASSUME Serial
  PROVE  Spec => []CacheAgrees
  <1>1. SerialInv /\ faults = 0 => CacheAgrees
    BY DEF SerialInv, InStep, CacheAgrees, Loaded, Serving, Whereabouts, Subscribed,
           Holds
  <1>2. Successive
    BY DEF Serial
  <1>3. QED
    BY <1>1, <1>2, SerialAlways, NothingFails, PTL

(***************************************************************************)
(* When the sessions of a player follow one another, the broker has a room *)
(* only for players who are connected, whatever fails.                     *)
(***************************************************************************)
THEOREM EverybodyGone ==
  ASSUME Successive
  PROVE  Spec => []NobodyLeftBehind
  <1>1. SerialInv => NobodyLeftBehind
    BY DEF SerialInv
  <1>2. QED
    BY <1>1, SerialAlways, PTL

(***************************************************************************)
(* If moreover nothing fails, the inventory sent after a take or a drop,   *)
(* which is put together from the cached Player, is the one in the         *)
(* document.                                                               *)
(***************************************************************************)
THEOREM InventorySent ==
  ASSUME Serial
  PROVE  Spec => InventorySentIsFull
  <1>1. ASSUME SerialInv, faults = 0
        PROVE  \A s \in Sockets : LET carried == Contents(inventoryItemIds[PlayerOf[s]]) IN
                 /\ pc[s] = "take.list" => TakeInventory(s) = carried
                 /\ pc[s] = "drop.list" => DropInventory(s) = carried
    BY <1>1 DEF SerialInv, InStep, Loaded, Serving, Handling, AtDatabase, Holds
  <1>2. SerialInv /\ faults = 0 /\ [Next]_vars =>
          [\A s \in Sockets : LET carried == Contents(inventoryItemIds[PlayerOf[s]]) IN
             /\ pc[s] = "take.list" /\ pc'[s] = "take.sent" => TakeInventory(s) = carried
             /\ pc[s] = "drop.list" /\ pc'[s] = "drop.sent" => DropInventory(s) = carried]_vars
    BY <1>1
  <1>3. Successive
    BY DEF Serial
  <1>4. QED
    BY <1>2, <1>3, SerialAlways, NothingFails, PTL DEF Spec, InventorySentIsFull

-------------------------------------------------------------------------------
(* A speaker hears itself.                                                 *)

LEMMA SayHeard ==
  ASSUME BrokerTypeOK, RoomIndex, OneSessionPerPlayer, SerialInv,
         NEW s \in Sockets, Say(s), s \notin closed
  PROVE  s \in audience'[s]
  <1> DEFINE p == PlayerOf[s]
  <1>1. pc[s] = "recv" /\ room[s] = playerRooms[p] /\ p \in DOMAIN playerRooms
    BY DEF Say, Goto, SerialInv, InStep, Serving, Subscribed
  <1>2. p \in DOMAIN players /\ players[p] = s
    BY <1>1, SocketAssumption DEF OneSessionPerPlayer, Serving, IsRegistered, Get
  <1>3. p \in Get(roomMembers, room[s], {})
    BY <1>1 DEF RoomIndex, BrokerTypeOK
  <1>4. audience'[s] = RoomSockets(roomMembers, room[s], {})
    BY SessionAssumption DEF Say, PublishToRoom, BrokerTypeOK
  <1>5. QED
    BY <1>2, <1>3, <1>4 DEF RoomSockets

LEMMA ShoutHeard ==
  ASSUME BrokerTypeOK, OneSessionPerPlayer, NEW s \in Sockets, Shout(s), s \notin closed
  PROVE  s \in audience'[s]
  <1>1. pc[s] = "recv"
    BY DEF Shout, Goto
  <1>2. PlayerOf[s] \in DOMAIN players /\ players[PlayerOf[s]] = s
    BY <1>1, SocketAssumption DEF OneSessionPerPlayer, Serving, IsRegistered, Get
  <1>3. audience'[s] = Range(players)
    BY SessionAssumption DEF Shout, PublishToAll, BrokerTypeOK
  <1>4. QED
    BY <1>2, <1>3 DEF Range

\* Nobody else can make a session chat.
LEMMA Heard ==
  ASSUME Types, BrokerTypeOK, RoomIndex, OneSessionPerPlayer, SerialInv,
         [Next]_vars, NEW s \in Sockets,
         pc[s] = "recv", pc'[s] = "chat", s \notin closed
  PROVE  s \in audience'[s]
  <1>0. pc \in [Sockets -> Places]
    BY DEF Types, SessionTypes
  <1>1. CASE Quiet
    BY <1>1 DEF Quiet
  <1>2. CASE \E t \in Sockets : MoveUpdate(t) \/ TakePush(t) \/ DropPush(t)
    BY <1>0, <1>2 DEF MoveUpdate, TakePush, DropPush, Goto
  <1>3. CASE \E t \in Sockets : TakePull(t) \/ DropPull(t)
    BY <1>0, <1>3 DEF TakePull, DropPull, Goto, ReturnUnchanged, Return
  <1>4. CASE \E t \in Sockets : Say(t) \/ Shout(t)
    <2>1. PICK t \in Sockets : Say(t) \/ Shout(t)
      BY <1>4
    <2>2. t = s
      BY <1>0, <2>1 DEF Say, Shout, Goto
    <2>3. QED
      BY <2>1, <2>2, SayHeard, ShoutHeard
  <1>5. CASE Crash \/ \E t \in Sockets : DbError(t)
    BY <1>0, <1>5 DEF Crash, DbError, ReturnUnchanged, Return
  <1>6. QED
    BY <1>1, <1>2, <1>3, <1>4, <1>5, StepKinds

(***************************************************************************)
(* When the sessions of a player follow one another, a speaker whose       *)
(* socket is open sees its own line, whatever fails: the room its session  *)
(* believes it is in is the room whose members the broker sends it to --   *)
(* also when it is no longer that of the document -- and its socket is the *)
(* one the broker sends to.                                                *)
(***************************************************************************)
THEOREM SpeakersHeard ==
  ASSUME Successive
  PROVE  Spec => SpeakerHearsSay
  <1>1. Spec => [](BrokerTypeOK /\ RoomIndex)
    BY GameServerRunsBroker, BrokerSafe, PTL DEF ImplementsBroker
  <1>2. Types /\ BrokerTypeOK /\ RoomIndex /\ OneSessionPerPlayer /\ SerialInv
          /\ [Next]_vars =>
          [\A s \in Sockets :
             pc[s] = "recv" /\ pc'[s] = "chat" /\ s \notin closed
               => s \in audience'[s]]_vars
    BY Heard
  <1>3. QED
    BY <1>1, <1>2, TypesAlways, SessionsUnique, SerialAlways, PTL
    DEF Spec, SpeakerHearsSay

-------------------------------------------------------------------------------
(* Refinement of the game as it is told.                                   *)

AllCarried == [p \in Players |-> Carried(p)]
AllLying == [r \in Rooms |-> Lying(r)]

LEMMA ThingsStay ==
  ASSUME HandsStill, UNCHANGED <<inventoryItemIds, itemIds>>
  PROVE  UNCHANGED <<AllCarried, AllLying>>
  <1>1. \A p \in Players : Carried(p)' = Carried(p)
    BY DEF HandsStill, Hands, Carried, Contents, Has
  <1>2. \A r \in Rooms : Lying(r)' = Lying(r)
    BY DEF HandsStill, Hands, Lying, Contents, Has
  <1>3. QED
    BY <1>1, <1>2 DEF AllCarried, AllLying

LEMMA WorldInit == Init => AsTold!Init
  <1> SUFFICES ASSUME Init
               PROVE  AsTold!Init
    OBVIOUS
  <1>1. \A p \in Players : Carried(p) = {}
    BY DEF Init, Carried, Contents, Has, Nothing
  <1>2. \A r \in Rooms : Lying(r) = {i \in Items : SeedRoom[i] = r}
    BY DEF Init, Lying, Contents, Has
  <1>3. QED
    BY <1>1, <1>2 DEF AsTold!Init, Init

\* A move happens when the document is updated.
LEMMA MoveWalks ==
  ASSUME Types, SerialInv, faults = 0, NEW s \in Sockets, MoveUpdate(s)
  PROVE  \E e \in Exits : AsTold!Walk(PlayerOf[s], e)
  <1> DEFINE p == PlayerOf[s]
  <1>1. /\ pc[s] = "move.update" /\ pc' = [pc EXCEPT ![s] = "move.view"]
        /\ currentRoomId' = [currentRoomId EXCEPT ![p] = dest[s]]
        /\ UNCHANGED <<locals, inventoryItemIds, itemIds>>
        /\ InStep(s) /\ p \in Players /\ dest[s] \in Rooms
    BY SocketAssumption DEF MoveUpdate, Goto, SerialInv, Types, SessionTypes
  <1>2. UNCHANGED <<AllCarried, AllLying>>
    BY <1>1, ThingsStay DEF HandsStill, Hands, Types, SessionTypes, locals
  <1>3. PICK e \in Exits : e.from = room[s] /\ e.to = dest[s]
                           /\ e.key \in inv[s] \cup {NoItem}
    BY <1>1 DEF InStep, WayOpen
  <1>4. currentRoomId[p] = room[s] /\ Contents(inventoryItemIds[p]) = inv[s]
    BY <1>1 DEF InStep, Loaded, Serving, Handling, AtDatabase, Whereabouts, Holds
  <1>5. e.key \in AllCarried[p] \cup {NoItem}
    BY <1>1, <1>3, <1>4 DEF AllCarried, Carried
  <1>6. QED
    BY <1>1, <1>2, <1>3, <1>4, <1>5 DEF AsTold!Walk, AllCarried, AllLying

\* A take happens when the $pull finds the thing in the room.
LEMMA PullTakes ==
  ASSUME Types, ItemInOnePlace, SerialInv, faults = 0, NEW s \in Sockets, TakePull(s),
         Has(itemIds[room[s]], item[s])
  PROVE  AsTold!Take(PlayerOf[s], item[s])
  <1> DEFINE p == PlayerOf[s]
             i == item[s]
             r == room[s]
  <1>1. /\ pc[s] = "take.pull" /\ pc' = [pc EXCEPT ![s] = "take.push"]
        /\ itemIds' = [itemIds EXCEPT ![r] = Pull(itemIds[r], i)]
        /\ UNCHANGED <<locals, currentRoomId, inventoryItemIds>>
    BY DEF TakePull, Goto, Modified
  <1>2. InStep(s) /\ p \in Players /\ i \in Items /\ r \in Rooms
    BY <1>1, SocketAssumption
    DEF SerialInv, Types, SessionTypes, Serving, Handling, AtDatabase
  <1>3. currentRoomId[p] = r /\ i \notin Fixtures
    BY <1>1, <1>2 DEF InStep, Loaded, Serving, Handling, AtDatabase, Whereabouts
  <1>4. \A t \in Sockets : pc[t] = "drop.push" => item[t] # i
    BY <1>2 DEF ItemInOnePlace, InHand
  <1>5. \A q \in Players :
          Carried(q)' = IF q = p THEN Carried(q) \cup {i} ELSE Carried(q)
    BY <1>1 DEF Carried, Contents, Has, Types, SessionTypes, locals
  <1>6. Contents(itemIds'[r]) = Contents(itemIds[r]) \ {i}
    BY <1>1, <1>2, PullContents DEF Types, DocumentTypes
  <1>7. \A q \in Rooms : Lying(q)' = IF q = r THEN Lying(q) \ {i} ELSE Lying(q)
    BY <1>1, <1>4, <1>6 DEF Lying, Contents, Types, SessionTypes, DocumentTypes, locals
  <1>8. i \in Lying(r)
    BY <1>2 DEF Lying, Contents
  <1>9. /\ AllCarried' = [AllCarried EXCEPT ![p] = AllCarried[p] \cup {i}]
        /\ AllLying' = [AllLying EXCEPT ![r] = AllLying[r] \ {i}]
    BY <1>2, <1>5, <1>7 DEF AllCarried, AllLying
  <1>10. QED
    BY <1>1, <1>2, <1>3, <1>8, <1>9 DEF AsTold!Take, AllCarried, AllLying

\* A drop happens when the $pull finds the thing in the inventory.
LEMMA PullDrops ==
  ASSUME Types, ItemInOnePlace, SerialInv, faults = 0, NEW s \in Sockets, DropPull(s),
         Has(inventoryItemIds[PlayerOf[s]], item[s])
  PROVE  AsTold!Drop(PlayerOf[s], item[s])
  <1> DEFINE p == PlayerOf[s]
             i == item[s]
             r == room[s]
  <1>1. /\ pc[s] = "drop.pull" /\ pc' = [pc EXCEPT ![s] = "drop.push"]
        /\ inventoryItemIds' = [inventoryItemIds EXCEPT ![p] = Pull(inventoryItemIds[p], i)]
        /\ UNCHANGED <<locals, currentRoomId, itemIds>>
    BY DEF DropPull, Goto, Modified
  <1>2. InStep(s) /\ p \in Players /\ i \in Items /\ r \in Rooms
    BY <1>1, SocketAssumption
    DEF SerialInv, Types, SessionTypes, Serving, Handling, AtDatabase
  <1>3. currentRoomId[p] = r
    BY <1>1, <1>2 DEF InStep, Loaded, Serving, Handling, AtDatabase, Whereabouts
  <1>4. \A t \in Sockets : pc[t] = "take.push" => item[t] # i
    BY <1>2 DEF ItemInOnePlace, InHand
  <1>5. \A q \in Rooms : Lying(q)' = IF q = r THEN Lying(q) \cup {i} ELSE Lying(q)
    BY <1>1 DEF Lying, Contents, Has, Types, SessionTypes, locals
  <1>6. Contents(inventoryItemIds'[p]) = Contents(inventoryItemIds[p]) \ {i}
    BY <1>1, <1>2, PullContents DEF Types, DocumentTypes
  <1>7. \A q \in Players :
          Carried(q)' = IF q = p THEN Carried(q) \ {i} ELSE Carried(q)
    BY <1>1, <1>4, <1>6 DEF Carried, Contents, Types, SessionTypes, DocumentTypes, locals
  <1>8. i \in Carried(p)
    BY <1>2 DEF Carried, Contents
  <1>9. /\ AllCarried' = [AllCarried EXCEPT ![p] = AllCarried[p] \ {i}]
        /\ AllLying' = [AllLying EXCEPT ![r] = AllLying[r] \cup {i}]
    BY <1>2, <1>5, <1>7 DEF AllCarried, AllLying
  <1>10. QED
    BY <1>1, <1>2, <1>3, <1>8, <1>9 DEF AsTold!Drop, AllCarried, AllLying

\* What has been pulled counts as taken, or dropped, already.
LEMMA PushStays ==
  ASSUME Types, NEW s \in Sockets, TakePush(s) \/ DropPush(s)
  PROVE  UNCHANGED <<currentRoomId, AllCarried, AllLying>>
  <1> DEFINE p == PlayerOf[s]
             i == item[s]
             r == room[s]
  <1>1. p \in Players /\ i \in Items /\ r \in Rooms
    BY SocketAssumption
    DEF TakePush, DropPush, Goto, Types, SessionTypes, Serving, Handling, AtDatabase
  <1>2. CASE TakePush(s)
    <2>1. /\ pc[s] = "take.push" /\ pc' = [pc EXCEPT ![s] = "take.list"]
          /\ inventoryItemIds' =
               [inventoryItemIds EXCEPT ![p] = Push(inventoryItemIds[p], i)]
          /\ UNCHANGED <<locals, currentRoomId, itemIds>>
      BY <1>2 DEF TakePush, Goto
    <2>2. Contents(inventoryItemIds'[p]) = Contents(inventoryItemIds[p]) \cup {i}
      BY <1>1, <2>1, PushContents DEF Types, DocumentTypes
    <2>3. \A q \in Players : Carried(q)' = Carried(q)
      BY <2>1, <2>2 DEF Carried, Contents, Types, SessionTypes, DocumentTypes, locals
    <2>4. \A q \in Rooms : Lying(q)' = Lying(q)
      BY <2>1 DEF Lying, Contents, Has, Types, SessionTypes, locals
    <2>5. QED
      BY <2>1, <2>3, <2>4 DEF AllCarried, AllLying
  <1>3. CASE DropPush(s)
    <2>1. /\ pc[s] = "drop.push" /\ pc' = [pc EXCEPT ![s] = "drop.list"]
          /\ itemIds' = [itemIds EXCEPT ![r] = Push(itemIds[r], i)]
          /\ UNCHANGED <<locals, currentRoomId, inventoryItemIds>>
      BY <1>3 DEF DropPush, Goto
    <2>2. Contents(itemIds'[r]) = Contents(itemIds[r]) \cup {i}
      BY <1>1, <2>1, PushContents DEF Types, DocumentTypes
    <2>3. \A q \in Rooms : Lying(q)' = Lying(q)
      BY <2>1, <2>2 DEF Lying, Contents, Types, SessionTypes, DocumentTypes, locals
    <2>4. \A q \in Players : Carried(q)' = Carried(q)
      BY <2>1 DEF Carried, Contents, Has, Types, SessionTypes, locals
    <2>5. QED
      BY <2>1, <2>3, <2>4 DEF AllCarried, AllLying
  <1>4. QED
    BY <1>2, <1>3

\* A $pull that comes too late takes nothing.
LEMMA LatePullStays ==
  ASSUME Types, NEW s \in Sockets,
         \/ TakePull(s) /\ ~Has(itemIds[room[s]], item[s])
         \/ DropPull(s) /\ ~Has(inventoryItemIds[PlayerOf[s]], item[s])
  PROVE  UNCHANGED <<currentRoomId, AllCarried, AllLying>>
  <1>1. /\ UNCHANGED database /\ ReturnUnchanged(s)
        /\ pc[s] \notin Hands
    BY DEF TakePull, DropPull, Modified, database, Hands
  <1>2. HandsStill
    BY <1>1 DEF HandsStill, Hands, ReturnUnchanged, Return, Types, SessionTypes
  <1>3. QED
    BY <1>1, <1>2, ThingsStay DEF database

LEMMA WorldNext ==
  ASSUME Serial, Types, ItemInOnePlace, SerialInv, [Next]_vars
  PROVE  [AsTold!Next]_(AsTold!vars)
  <1>0. faults = 0 /\ ~Crash /\ \A s \in Sockets : ~DbError(s)
    BY DEF Types, Serial, Crash, DbError
  <1>1. UNCHANGED <<currentRoomId, AllCarried, AllLying>> => UNCHANGED AsTold!vars
    BY DEF AsTold!vars, AllCarried, AllLying
  <1>2. CASE Quiet
    BY <1>1, <1>2, ThingsStay DEF Quiet, database
  <1>3. ASSUME NEW s \in Sockets, MoveUpdate(s)
        PROVE  AsTold!Next
    BY <1>0, <1>3, MoveWalks, SocketAssumption DEF AsTold!Next
  <1>4. ASSUME NEW s \in Sockets, TakePull(s)
        PROVE  [AsTold!Next]_(AsTold!vars)
    <2>1. PlayerOf[s] \in Players /\ item[s] \in Items
      BY <1>4, SocketAssumption DEF TakePull, Types, SessionTypes
    <2>2. QED
      BY <1>0, <1>1, <1>4, <2>1, PullTakes, LatePullStays DEF AsTold!Next
  <1>5. ASSUME NEW s \in Sockets, DropPull(s)
        PROVE  [AsTold!Next]_(AsTold!vars)
    <2>1. PlayerOf[s] \in Players /\ item[s] \in Items
      BY <1>5, SocketAssumption DEF DropPull, Types, SessionTypes
    <2>2. QED
      BY <1>0, <1>1, <1>5, <2>1, PullDrops, LatePullStays DEF AsTold!Next
  <1>6. CASE \E s \in Sockets : TakePush(s) \/ DropPush(s)
    BY <1>1, <1>6, PushStays
  <1>7. CASE \E s \in Sockets : Say(s) \/ Shout(s)
    <2>1. HandsStill /\ UNCHANGED database
      BY <1>7 DEF Say, Shout, Goto, locals, HandsStill, Hands, Types, SessionTypes
    <2>2. QED
      BY <1>1, <2>1, ThingsStay DEF database
  <1>8. QED
    BY <1>0, <1>2, <1>3, <1>4, <1>5, <1>6, <1>7, StepKinds

(***************************************************************************)
(* The server plays the game its players are told of: every move is        *)
(* through an exit of the room the player is in, with the key in hand if   *)
(* it is locked, and every take and drop is of a thing that is there --    *)
(* though each is several reads and writes, between which the others go on.*)
(***************************************************************************)
THEOREM GameIsAsTold ==
  ASSUME Serial
  PROVE  Spec => ImplementsWorld
  <1>1. Types /\ ItemInOnePlace /\ SerialInv /\ [Next]_vars
          => [AsTold!Next]_(AsTold!vars)
    BY WorldNext
  <1>2. Successive
    BY DEF Serial
  <1>3. QED
    BY <1>1, <1>2, WorldInit, TypesAlways, ItemsNeverDuplicated, SerialAlways, PTL
    DEF Spec, ImplementsWorld, AsTold!Spec

(***************************************************************************)
(* In particular nobody comes to a room that no exit of its room leads to. *)
(***************************************************************************)
COROLLARY MovesAreLegal ==
  ASSUME Serial
  PROVE  Spec => MovesFollowExits
  <1> DEFINE Legal ==
        \A p \in Players : currentRoomId'[p] # currentRoomId[p] =>
          \E e \in Exits : e.from = currentRoomId[p] /\ e.to = currentRoomId'[p]
  <1>1. ASSUME Types, AsTold!Next \/ UNCHANGED AsTold!vars
        PROVE  Legal
    <2>1. ASSUME NEW q \in Players, NEW e \in Exits, AsTold!Walk(q, e)
          PROVE  Legal
      BY <1>1, <2>1 DEF AsTold!Walk, Types, DocumentTypes
    <2>2. CASE UNCHANGED currentRoomId
      BY <2>2
    <2>3. QED
      BY <1>1, <2>1, <2>2 DEF AsTold!Next, AsTold!Take, AsTold!Drop, AsTold!vars
  <1>2. Types /\ ItemInOnePlace /\ SerialInv /\ [Next]_vars => [Legal]_vars
    BY <1>1, WorldNext
  <1>3. Successive
    BY DEF Serial
  <1>4. QED
    BY <1>2, <1>3, TypesAlways, ItemsNeverDuplicated, SerialAlways, PTL
    DEF Spec, MovesFollowExits
===============================================================================
