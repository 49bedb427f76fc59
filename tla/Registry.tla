------------------------------- MODULE Registry -------------------------------
(***************************************************************************)
(* What the connection broker promises to the rest of the game server,     *)
(* said without its three dictionaries.  Every player has at most one      *)
(* connection and at most one room; a broadcast goes to the connections    *)
(* that stand in the addressed room at the moment it is published.         *)
(*                                                                         *)
(* server/app/broker.py and server-node/src/websocket/broker.service.ts    *)
(* are two implementations of this promise.                                *)
(***************************************************************************)
CONSTANTS Players,      \* player ids
          Rooms,        \* room ids
          Sockets,      \* WebSocket connections
          Publishers,   \* whoever awaits a broadcast: sessions, NPC scheduler
          PlayerOf,     \* the player a connection authenticated as
          NoSocket,     \* "not connected"
          NoRoom        \* "in no room"

VARIABLES conn,         \* conn[p]: the connection of player p
          at,           \* at[p]: the room whose broadcasts p receives
          closed,       \* connections that have been closed
          audience      \* audience[b]: connections b's broadcast has yet to reach

vars == <<conn, at, closed, audience>>

Init ==
  /\ conn = [p \in Players |-> NoSocket]
  /\ at = [p \in Players |-> NoRoom]
  /\ closed = {}
  /\ audience = [b \in Publishers |-> {}]

(***************************************************************************)
(* The newer connection wins: it takes the player over and the connection  *)
(* it replaces is closed.                                                  *)
(***************************************************************************)
Connect(s, r) ==
  LET p == PlayerOf[s] IN
  /\ conn' = [conn EXCEPT ![p] = s]
  /\ at' = [at EXCEPT ![p] = r]
  /\ closed' = closed \cup ({conn[p]} \ {s, NoSocket})
  /\ UNCHANGED audience

(***************************************************************************)
(* A connection that has been replaced cannot take its successor with it.  *)
(***************************************************************************)
Disconnect(s) ==
  LET p == PlayerOf[s] IN
  /\ conn[p] = s
  /\ conn' = [conn EXCEPT ![p] = NoSocket]
  /\ at' = [at EXCEPT ![p] = NoRoom]
  /\ UNCHANGED <<closed, audience>>

Move(p, r) ==
  /\ at' = [at EXCEPT ![p] = r]
  /\ UNCHANGED <<conn, closed, audience>>

\* The connections of the players that `where' puts in room r, those of the players in excluded left out.
InRoom(where, r, excluded) ==
  {conn[p] : p \in {q \in Players \ excluded : where[q] = r}} \ {NoSocket}

\* b addresses the room as it is now, and awaits its earlier broadcast first.
PublishToRoom(b, r, excluded) ==
  /\ audience[b] = {}
  /\ audience' = [audience EXCEPT ![b] = InRoom(at, r, excluded)]
  /\ UNCHANGED <<conn, at, closed>>

PublishToAll(b) ==
  /\ audience[b] = {}
  /\ audience' = [audience EXCEPT ![b] = {conn[p] : p \in Players} \ {NoSocket}]
  /\ UNCHANGED <<conn, at, closed>>

\* p moves to r and b tells the room old about it, nothing in between.
MoveAndPublish(b, p, r, old) ==
  /\ audience[b] = {}
  /\ at' = [at EXCEPT ![p] = r]
  /\ UNCHANGED conn
  /\ audience' = [audience EXCEPT ![b] = InRoom(at', old, {})]
  /\ UNCHANGED closed

\* One copy of b's broadcast reaches its connection, or fails there alone.
Deliver(b, s) ==
  /\ s \in audience[b]
  /\ audience' = [audience EXCEPT ![b] = @ \ {s}]
  /\ UNCHANGED <<conn, at, closed>>

\* A connection ends for a reason of its own.
CloseSocket(s) ==
  /\ closed' = closed \cup {s}
  /\ UNCHANGED <<conn, at, audience>>

\* The process dies: the registry is forgotten and connections are cut.
Restart ==
  /\ conn' = [p \in Players |-> NoSocket]
  /\ at' = [p \in Players |-> NoRoom]
  /\ audience' = [b \in Publishers |-> {}]
  /\ \E cut \in SUBSET Sockets : closed' = closed \cup cut

Next ==
  \/ \E s \in Sockets, r \in Rooms : Connect(s, r)
  \/ \E s \in Sockets : Disconnect(s)
  \/ \E p \in Players, r \in Rooms : Move(p, r)
  \/ \E b \in Publishers, r \in Rooms, excluded \in SUBSET Players :
       PublishToRoom(b, r, excluded)
  \/ \E b \in Publishers : PublishToAll(b)
  \/ \E b \in Publishers, p \in Players, r, old \in Rooms :
       MoveAndPublish(b, p, r, old)
  \/ \E b \in Publishers, s \in Sockets : Deliver(b, s)
  \/ \E s \in Sockets : CloseSocket(s)
  \/ Restart

Spec == Init /\ [][Next]_vars
===============================================================================
