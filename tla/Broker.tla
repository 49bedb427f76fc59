-------------------------------- MODULE Broker --------------------------------
(***************************************************************************)
(* The in-process pub/sub of server/app/broker.py: who is connected, who   *)
(* is in which room, and the broadcasts on their way.                      *)
(*                                                                         *)
(* Every body of the asyncio lock runs without an await, so each operation *)
(* up to its first suspension is one action.  What does suspend is the     *)
(* fan-out: asyncio.gather awaits one send per connection of the snapshot, *)
(* which audience[b] keeps until the publisher b has them all.             *)
(***************************************************************************)
EXTENDS Dictionaries

CONSTANTS Players,      \* player ids
          Rooms,        \* room ids
          Sockets,      \* WebSocket connections
          Publishers,   \* tasks that may await a broadcast
          PlayerOf,     \* the player each connection authenticated as
          NoSocket,
          NoRoom

ASSUME SocketAssumption == /\ PlayerOf \in [Sockets -> Players]
                           /\ NoSocket \notin Sockets
ASSUME RoomAssumption == NoRoom \notin Rooms

VARIABLES players,      \* _players: player id -> registered connection
          playerRooms,  \* _player_rooms: player id -> room id
          roomMembers,  \* _room_members: room id -> set of player ids
          closed,       \* connections the server has closed
          audience      \* sends each publisher's _fan_out still awaits

dictionaries == <<players, playerRooms, roomMembers>>
brokerVars == <<players, playerRooms, roomMembers, closed, audience>>

-------------------------------------------------------------------------------
\* Mutant of Vacated: the old room is not tidied up.
NotVacated(p, r) == roomMembers

\* roomMembers once p has left its present room, unless that room is r.
Vacated(p, r) ==
  LET old == Get(playerRooms, p, NoRoom)
  IN  IF old \in {NoRoom, r} THEN roomMembers
                             ELSE RemoveFromRoom(roomMembers, old, p)

-------------------------------------------------------------------------------
BrokerInit ==
  /\ players = << >>
  /\ playerRooms = << >>
  /\ roomMembers = << >>
  /\ closed = {}
  /\ audience = [b \in Publishers |-> {}]

\* Mutants of Displaced: without the test for None, and displacing nobody.
DisplacedOrNone(s) == {Get(players, PlayerOf[s], NoSocket)} \ {s}
NoneDisplaced(s) == {}

\* The connection that s replaces, if any.
Displaced(s) == {Get(players, PlayerOf[s], NoSocket)} \ {s, NoSocket}

Connect(s, r) ==
  LET p == PlayerOf[s] IN
  /\ players' = Put(players, p, s)
  /\ playerRooms' = Put(playerRooms, p, r)
  /\ roomMembers' = AddToRoom(Vacated(p, r), r, p)
  /\ closed' = closed \cup Displaced(s)
  /\ UNCHANGED audience

\* Mutant of IsRegistered: any connection of the player will do.
IsAnyConnection(s) == PlayerOf[s] \in DOMAIN players

\* Only the registered connection may take its player out.
IsRegistered(s) == Get(players, PlayerOf[s], NoSocket) = s

Disconnect(s) ==
  LET p == PlayerOf[s]
      r == Get(playerRooms, p, NoRoom)
  IN  /\ IF IsRegistered(s)
         THEN /\ players' = Without(players, p)
              /\ playerRooms' = Without(playerRooms, p)
              /\ roomMembers' = IF r = NoRoom THEN roomMembers
                                ELSE RemoveFromRoom(roomMembers, r, p)
         ELSE UNCHANGED dictionaries
      /\ UNCHANGED <<closed, audience>>

\* Nothing here asks whether p is connected.
MoveTo(p, r) ==
  /\ IF Get(playerRooms, p, NoRoom) = r
     THEN UNCHANGED <<playerRooms, roomMembers>>
     ELSE /\ playerRooms' = Put(playerRooms, p, r)
          /\ roomMembers' = AddToRoom(Vacated(p, r), r, p)
  /\ UNCHANGED <<players, closed>>

Move(p, r) == MoveTo(p, r) /\ UNCHANGED audience

\* The snapshot a broadcast to room r is sent to, by the index given.
RoomSockets(index, r, excluded) ==
  LET members == Get(index, r, {}) \ excluded
  IN  {players[m] : m \in members \cap DOMAIN players}

PublishToRoom(b, r, excluded) ==
  /\ audience[b] = {}
  /\ audience' = [audience EXCEPT ![b] = RoomSockets(roomMembers, r, excluded)]
  /\ UNCHANGED <<dictionaries, closed>>

PublishToAll(b) ==
  /\ audience[b] = {}
  /\ audience' = [audience EXCEPT ![b] = Range(players)]
  /\ UNCHANGED <<dictionaries, closed>>

\* A move and the farewell to the old room, which nothing comes between.
MoveAndPublish(b, p, r, old) ==
  /\ audience[b] = {}
  /\ MoveTo(p, r)
  /\ audience' = [audience EXCEPT ![b] = RoomSockets(roomMembers', old, {})]

\* Mutant of Deliver: a send to a closed connection never returns.
DeliverIfOpen(b, s) ==
  /\ s \in audience[b] \ closed
  /\ audience' = [audience EXCEPT ![b] = @ \ {s}]
  /\ UNCHANGED <<dictionaries, closed>>

\* _safe_send returns whether the connection took the text or raised.
Deliver(b, s) ==
  /\ s \in audience[b]
  /\ audience' = [audience EXCEPT ![b] = @ \ {s}]
  /\ UNCHANGED <<dictionaries, closed>>

CloseSocket(s) ==
  /\ closed' = closed \cup {s}
  /\ UNCHANGED <<dictionaries, audience>>

\* A new process starts with an empty broker; connections in cut died.
Restart(cut) ==
  /\ players' = << >>
  /\ playerRooms' = << >>
  /\ roomMembers' = << >>
  /\ audience' = [b \in Publishers |-> {}]
  /\ closed' = closed \cup cut

BrokerNext ==
  \/ \E s \in Sockets, r \in Rooms : Connect(s, r)
  \/ \E s \in Sockets : Disconnect(s)
  \/ \E p \in Players, r \in Rooms : Move(p, r)
  \/ \E b \in Publishers, r \in Rooms, excluded \in SUBSET Players :
       PublishToRoom(b, r, excluded)
  \/ \E b \in Publishers : PublishToAll(b)
  \/ \E b \in Publishers, p \in Players, r, old \in Rooms :
       MoveAndPublish(b, p, r, old)
  \/ \E b \in Publishers, s \in Sockets : Deliver(b, s)
  \/ \E s \in Sockets : CloseSocket(s)
  \/ \E cut \in SUBSET Sockets : Restart(cut)

BrokerSpec == BrokerInit /\ [][BrokerNext]_brokerVars

-------------------------------------------------------------------------------
BrokerTypeOK ==
  /\ DOMAIN players \subseteq Players
  /\ players \in [DOMAIN players -> Sockets]
  /\ \A p \in DOMAIN players : PlayerOf[players[p]] = p
  /\ DOMAIN playerRooms \subseteq Players
  /\ playerRooms \in [DOMAIN playerRooms -> Rooms]
  /\ DOMAIN roomMembers \subseteq Rooms
  /\ roomMembers \in [DOMAIN roomMembers -> SUBSET Players]
  /\ closed \subseteq Sockets
  /\ audience \in [Publishers -> SUBSET Sockets]

(***************************************************************************)
(* _room_members is the inverse of _player_rooms: whatever the order of    *)
(* connects, moves and disconnects, each room's entry lists exactly the    *)
(* players whose room it is, no empty entry is kept (the dictionary cannot *)
(* grow with rooms nobody is in), and a connected player has a room.       *)
(***************************************************************************)
RoomIndex ==
  /\ \A r \in Rooms : Get(roomMembers, r, {}) =
       {p \in DOMAIN playerRooms : playerRooms[p] = r}
  /\ \A r \in DOMAIN roomMembers : roomMembers[r] # {}
  /\ DOMAIN players \subseteq DOMAIN playerRooms

(***************************************************************************)
(* Whichever dictionary is asked, the broker behaves as the abstract       *)
(* registry: same connection, same room, same audiences.                   *)
(***************************************************************************)
Abstract == INSTANCE Registry WITH
  conn <- [p \in Players |-> Get(players, p, NoSocket)],
  at   <- [p \in Players |-> Get(playerRooms, p, NoRoom)]

ImplementsRegistry == Abstract!Spec

\* Every send of a fan-out ends: uvicorn's keepalive closes a connection
\* that stops reading, and its send then raises.
FairBrokerSpec ==
  BrokerSpec /\ \A b \in Publishers, s \in Sockets : WF_brokerVars(Deliver(b, s))

(***************************************************************************)
(* A broadcast is never stuck on a closed connection: every publisher that *)
(* awaits a fan-out goes on, whoever disconnects meanwhile.                *)
(***************************************************************************)
FanOutCompletes ==
  \A b \in Publishers : audience[b] # {} ~> audience[b] = {}
===============================================================================
