------------------------------ MODULE NodeBroker ------------------------------
(***************************************************************************)
(* The Node server's port of the broker (server-node/src/websocket/        *)
(* broker.service.ts).  Nothing in it awaits: every call runs to its end,  *)
(* and a broadcast is over once ws.send has put it into the buffer of each *)
(* connection, from where the ws library sends it on.  Module Broker, the  *)
(* Python original, waits for those sends instead.                         *)
(***************************************************************************)
EXTENDS Dictionaries

CONSTANTS Players, Rooms, Sockets, PlayerOf, NoSocket, NoRoom,
          Broadcasts    \* names for the broadcasts under way, used again

ASSUME NodeAssumption == /\ PlayerOf \in [Sockets -> Players]
                         /\ NoSocket \notin Sockets /\ NoRoom \notin Rooms

VARIABLES players, playerRooms, roomMembers,
          closed,       \* connections the server has closed
          buffer        \* what each connection still has to send

maps == <<players, playerRooms, roomMembers>>
nodeVars == <<maps, closed, buffer>>

NodeInit ==
  /\ players = << >> /\ playerRooms = << >> /\ roomMembers = << >>
  /\ closed = {}
  /\ buffer = [s \in Sockets |-> {}]

\* Mutant of Moved: the previous room is not tidied up.
StaysListed(p, r) == AddToRoom(roomMembers, r, p)

\* roomMembers once p is taken from its room, if it has one, and put into r.
Moved(p, r) ==
  LET prev == Get(playerRooms, p, NoRoom)
      left == IF prev \in {NoRoom, r} THEN roomMembers
              ELSE RemoveFromRoom(roomMembers, prev, p)
  IN  AddToRoom(left, r, p)

\* Mutant of displaced: undefined is not tested for.
displacedOrNone(s) == {Get(players, PlayerOf[s], NoSocket)} \ {s}

displaced(s) == {Get(players, PlayerOf[s], NoSocket)} \ {s, NoSocket}

\* Newer wins: the connection that was registered is closed.
connect(s, r) ==
  LET p == PlayerOf[s] IN
  /\ players' = Put(players, p, s)
  /\ playerRooms' = Put(playerRooms, p, r)
  /\ roomMembers' = Moved(p, r)
  /\ closed' = closed \cup displaced(s)
  /\ UNCHANGED buffer

disconnect(s) ==
  LET p == PlayerOf[s]
      room == Get(playerRooms, p, NoRoom)
  IN  /\ Get(players, p, NoSocket) = s
      /\ players' = Without(players, p)
      /\ playerRooms' = Without(playerRooms, p)
      /\ roomMembers' = IF room = NoRoom THEN roomMembers
                        ELSE RemoveFromRoom(roomMembers, room, p)
      /\ UNCHANGED <<closed, buffer>>

move(p, r) ==
  /\ Get(playerRooms, p, NoRoom) # r
  /\ playerRooms' = Put(playerRooms, p, r)
  /\ roomMembers' = Moved(p, r)
  /\ UNCHANGED <<players, closed, buffer>>

\* ws.send buffers the text of b, or ignores it on a closed connection.
fanOut(b, sockets) ==
  /\ \A s \in Sockets : b \notin buffer[s]
  /\ buffer' = [s \in Sockets |->
       IF s \in sockets THEN buffer[s] \cup {b} ELSE buffer[s]]
  /\ UNCHANGED <<maps, closed>>

\* The connections publishToRoom addresses.
audienceOf(r, excluded) ==
  {players[p] : p \in (Get(roomMembers, r, {}) \ excluded) \cap DOMAIN players}

publishToRoom(b, r, excluded) == fanOut(b, audienceOf(r, excluded))
publishToAll(b) == fanOut(b, Range(players))

\* The ws library sends a text that a buffer holds, or drops it.
flush(s) ==
  /\ \E b \in buffer[s] : buffer' = [buffer EXCEPT ![s] = @ \ {b}]
  /\ UNCHANGED <<maps, closed>>

NodeNext ==
  \/ \E s \in Sockets, r \in Rooms : connect(s, r)
  \/ \E s \in Sockets : disconnect(s) \/ flush(s)
  \/ \E p \in Players, r \in Rooms : move(p, r)
  \/ \E b \in Broadcasts :
       \/ publishToAll(b)
       \/ \E r \in Rooms, excluded \in {{}} \cup {{p} : p \in Players} :
            publishToRoom(b, r, excluded)

NodeSpec == NodeInit /\ [][NodeNext]_nodeVars

-------------------------------------------------------------------------------
NodeTypeOK ==
  /\ DOMAIN players \subseteq Players /\ players \in [DOMAIN players -> Sockets]
  /\ DOMAIN playerRooms \subseteq Players
  /\ playerRooms \in [DOMAIN playerRooms -> Rooms]
  /\ DOMAIN roomMembers \subseteq Rooms
  /\ roomMembers \in [DOMAIN roomMembers -> (SUBSET Players) \ {{}}]
  /\ closed \subseteq Sockets
  /\ buffer \in [Sockets -> SUBSET Broadcasts]

(***************************************************************************)
(* "Full port of server/app/broker.py's in-process pub/sub": each call     *)
(* leaves the maps, the closed connections and the addressees of its       *)
(* broadcast as the Python broker would, although that one waits for its   *)
(* sends and this one does not.                                            *)
(***************************************************************************)
Python == INSTANCE Broker WITH
  Publishers <- Broadcasts,
  audience   <- [b \in Broadcasts |-> {s \in Sockets : b \in buffer[s]}]

ImplementsBroker == Python!BrokerSpec
===============================================================================
