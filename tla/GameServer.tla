------------------------------ MODULE GameServer ------------------------------
(***************************************************************************)
(* The Python game server: every WebSocket session (ws_endpoint of         *)
(* server/app/routers/websocket.py) works on three copies of the game --   *)
(* the Player object it loaded once, the MongoDB documents, and the broker *)
(* of module Broker -- and gives way to the other sessions at each await.  *)
(*                                                                         *)
(* A session is named by its socket; pc[s] is the await it is suspended    *)
(* in.  One action is the code from one suspension to the next.  Reads of  *)
(* what never changes (exits, item names, the rooms themselves) are merged *)
(* into the step that uses the answer.                                     *)
(***************************************************************************)
EXTENDS Broker, Naturals

CONSTANTS Items,        \* item ids
          Fixtures,     \* items that are not takeable
          NoItem,
          Exits,        \* [from, to, key] of every room document's exits
          SeedRoom,     \* the room the seed puts each item in
          StartRoom,    \* STARTING_ROOM_ID: where POST /characters puts players
          Overlap,      \* may a player's next session start before the last ends?
          Commands,     \* the commands the clients of this instance send
          MaxFaults     \* bound on database errors and process crashes

ASSUME ItemAssumption == NoItem \notin Items /\ Fixtures \subseteq Items
ASSUME WorldAssumption ==
  /\ StartRoom \in Rooms
  /\ SeedRoom \in [Items -> Rooms]
  \* a dangling toRoomId is NoRoom; an exit without a lock has the key NoItem
  /\ Exits \subseteq [from : Rooms, to : Rooms \cup {NoRoom},
                      key : Items \cup {NoItem}]
\* As in the seed, no exit leads back into its own room.
ASSUME NoLoopAssumption == \A e \in Exits : e.from # e.to
ASSUME SessionAssumption == Sockets \subseteq Publishers
ASSUME BoundAssumption == Overlap \in BOOLEAN /\ MaxFaults \in Nat

VARIABLES
  pc,                   \* where each session is suspended
  room, inv,            \* player.current_room_id, player.inventory_item_ids
  item, dest,           \* item_id and dest_room_id of the command at work
  currentRoomId,        \* players documents
  inventoryItemIds,     \* players documents: how often each id is listed
  itemIds,              \* rooms documents: how often each id is listed
  gone,                 \* sessions whose client has hung up
  faults                \* database errors and crashes so far

locals == <<room, inv, item, dest>>
database == <<currentRoomId, inventoryItemIds, itemIds>>
vars == <<pc, locals, database, gone, faults, brokerVars>>

\* Awaiting the database, with the handler's work half done.
AtDatabase == {"look", "move.update", "move.view", "take.pull", "take.push",
               "take.list", "drop.pull", "drop.push", "drop.list"}
\* Awaiting the answer to the player, or a broadcast.
AtSockets == {"move.sent", "move.depart", "move.arrive", "take.sent", "take.told",
              "drop.sent", "drop.told", "chat"}
Handling == AtDatabase \cup AtSockets
\* Between broker.connect and broker.disconnect.
Serving == {"joined", "recv", "leave"} \cup Handling
Startup == {"load", "view", "welcome"}
Places == {"new", "ended"} \cup Startup \cup Serving

-------------------------------------------------------------------------------
(* Lists of item ids in documents.                                         *)

Nothing == [i \in Items |-> 0]
Has(list, i) == list[i] > 0
Contents(list) == {i \in Items : Has(list, i)}
Push(list, i) == [list EXCEPT ![i] = @ + 1]     \* $push
Pull(list, i) == [list EXCEPT ![i] = 0]         \* $pull removes every occurrence

\* Mutant of Modified: the handlers do not look at modified_count.
AnyModified(list, i) == TRUE

\* A conditional $pull modified a document: its filter found the item there.
Modified(list, i) == Has(list, i)

Init ==
  /\ pc = [s \in Sockets |-> "new"]
  /\ room = [s \in Sockets |-> NoRoom]
  /\ inv = [s \in Sockets |-> {}]
  /\ item = [s \in Sockets |-> NoItem]
  /\ dest = [s \in Sockets |-> NoRoom]
  /\ currentRoomId = [p \in Players |-> StartRoom]
  /\ inventoryItemIds = [p \in Players |-> Nothing]
  /\ itemIds = [r \in Rooms |-> [i \in Items |-> IF SeedRoom[i] = r THEN 1 ELSE 0]]
  /\ gone = {}
  /\ faults = 0
  /\ BrokerInit

Goto(s, from, to) ==
  /\ pc[s] = from
  /\ pc' = [pc EXCEPT ![s] = to]

\* A handler returns the Player with room r and inventory held.  The loop calls
\* receive_text, which raises at once on a socket the server has closed.
Return(s, r, held) ==
  /\ pc' = [pc EXCEPT ![s] = IF s \in closed THEN "leave" ELSE "recv"]
  /\ room' = [room EXCEPT ![s] = r]
  /\ inv' = [inv EXCEPT ![s] = held]
  /\ item' = [item EXCEPT ![s] = NoItem]
  /\ dest' = [dest EXCEPT ![s] = NoRoom]

\* A handler that failed: the loop keeps the Player it had.
ReturnUnchanged(s) == Return(s, room[s], inv[s])

\* ws_endpoint is over, and its locals with it.
End(s) ==
  /\ pc' = [pc EXCEPT ![s] = "ended"]
  /\ room' = [room EXCEPT ![s] = NoRoom]
  /\ inv' = [inv EXCEPT ![s] = {}]
  /\ item' = [item EXCEPT ![s] = NoItem]
  /\ dest' = [dest EXCEPT ![s] = NoRoom]

-------------------------------------------------------------------------------
(* A session's beginning and end.                                          *)

\* A client opens a socket with a valid token.
Open(s) ==
  /\ Overlap \/ \A t \in Sockets : PlayerOf[t] = PlayerOf[s] => pc[t] \in {"new", "ended"}
  /\ Goto(s, "new", "load")
  /\ UNCHANGED <<locals, database, gone, faults, brokerVars>>

\* The player's document is read once, for the whole session.
LoadPlayer(s) ==
  LET p == PlayerOf[s] IN
  /\ Goto(s, "load", "view")
  /\ room' = [room EXCEPT ![s] = currentRoomId[p]]
  /\ inv' = [inv EXCEPT ![s] = Contents(inventoryItemIds[p])]
  /\ UNCHANGED <<item, dest, database, gone, faults, brokerVars>>

\* The session never gets to the broker: token refused, no character, no room
\* view, a database error, or nobody there to be welcomed.
Refuse(s) ==
  /\ pc[s] \in {"new"} \cup Startup
  /\ End(s)
  /\ UNCHANGED <<database, gone, faults, brokerVars>>

\* The view of the room is built, and the send of the welcome begins.
Welcome(s) ==
  /\ Goto(s, "view", "welcome")
  /\ UNCHANGED <<locals, database, gone, faults, brokerVars>>

\* The send is through: the socket is registered in the room that was read.
Join(s) ==
  /\ Goto(s, "welcome", "joined")
  /\ Connect(s, room[s])
  /\ UNCHANGED <<locals, database, gone, faults>>

\* The displaced socket, if there was one, has been closed: enter the loop.
Serve(s) ==
  /\ pc[s] = "joined"
  /\ ReturnUnchanged(s)
  /\ UNCHANGED <<database, gone, faults, brokerVars>>

ClientLeaves(s) ==
  /\ pc[s] \in Startup \cup Serving
  /\ gone' = gone \cup {s}
  /\ UNCHANGED <<pc, locals, database, faults, brokerVars>>

\* Mutant of Hangup: the hang-up cancels a handler that awaits the database.
HangupCancels(s) ==
  /\ s \in gone \cup closed
  /\ pc[s] \in {"recv"} \cup AtDatabase
  /\ pc' = [pc EXCEPT ![s] = "leave"]
  /\ UNCHANGED <<locals, database, gone, faults, brokerVars>>

\* receive_text raises: the client has hung up, or the close of a displaced
\* socket is complete.
Hangup(s) ==
  /\ s \in gone \cup closed
  /\ Goto(s, "recv", "leave")
  /\ UNCHANGED <<locals, database, gone, faults, brokerVars>>

Quit(s) ==
  /\ "quit" \in Commands
  /\ Goto(s, "recv", "leave")
  /\ CloseSocket(s)
  /\ UNCHANGED <<locals, database, gone, faults>>

\* Mutant of Leave: no finally clause.
LeaveRegistered(s) ==
  /\ pc[s] = "leave"
  /\ End(s)
  /\ UNCHANGED <<database, gone, faults, brokerVars>>

\* Mutant of Leave: the connection is taken out, its player stays in the room.
LeaveStaying(s) ==
  /\ pc[s] = "leave"
  /\ End(s)
  /\ players' = IF IsRegistered(s) THEN Without(players, PlayerOf[s]) ELSE players
  /\ UNCHANGED <<database, gone, faults, playerRooms, roomMembers, closed, audience>>

\* The finally clause.
Leave(s) ==
  /\ pc[s] = "leave"
  /\ End(s)
  /\ Disconnect(s)
  /\ UNCHANGED <<database, gone, faults>>

-------------------------------------------------------------------------------
(* Commands that end where they began: ping, examine, who, inventory and   *)
(* every command answered with an error before anything is written.        *)

Answer(s) ==
  /\ pc[s] = "recv"
  /\ ReturnUnchanged(s)
  /\ UNCHANGED <<database, gone, faults, brokerVars>>

\* look without a target: the view of the room is built, then sent.
Look(s) ==
  /\ "look" \in Commands
  /\ Goto(s, "recv", "look")
  /\ UNCHANGED <<locals, database, gone, faults, brokerVars>>

LookDone(s) ==
  /\ pc[s] = "look" /\ s \notin closed
  /\ ReturnUnchanged(s)
  /\ UNCHANGED <<database, gone, faults, brokerVars>>

\* Mutant of Say: the speaker is excluded, as in the other broadcasts.
SayToOthers(s) ==
  /\ "say" \in Commands
  /\ Goto(s, "recv", "chat")
  /\ PublishToRoom(s, room[s], {PlayerOf[s]})
  /\ UNCHANGED <<locals, database, gone, faults>>

\* Chat goes to the room the session believes it is in, the speaker included.
Say(s) ==
  /\ "say" \in Commands
  /\ Goto(s, "recv", "chat")
  /\ PublishToRoom(s, room[s], {})
  /\ UNCHANGED <<locals, database, gone, faults>>

Shout(s) ==
  /\ "shout" \in Commands
  /\ Goto(s, "recv", "chat")
  /\ PublishToAll(s)
  /\ UNCHANGED <<locals, database, gone, faults>>

ChatDone(s) ==
  /\ pc[s] = "chat" /\ audience[s] = {}
  /\ ReturnUnchanged(s)
  /\ UNCHANGED <<database, gone, faults, brokerVars>>

-------------------------------------------------------------------------------
(* move                                                                    *)

\* Mutants of Passable: no key asked for, any toRoomId.
PassableUnlocked(s, e) == e.from = room[s] /\ e.to \in Rooms
PassableDangling(s, e) == e.from = room[s] /\ e.key \in inv[s] \cup {NoItem}

\* The exits of the room the session believes it is in, the lock tried with the
\* inventory it believes it has.
Passable(s, e) ==
  /\ e.from = room[s]
  /\ e.key \in inv[s] \cup {NoItem}
  /\ e.to \in Rooms

MoveStart(s, e) ==
  /\ "move" \in Commands
  /\ Passable(s, e)
  /\ Goto(s, "recv", "move.update")
  /\ dest' = [dest EXCEPT ![s] = e.to]
  /\ UNCHANGED <<room, inv, item, database, gone, faults, brokerVars>>

\* The update is filtered by the player's id alone.
MoveUpdate(s) ==
  /\ Goto(s, "move.update", "move.view")
  /\ currentRoomId' = [currentRoomId EXCEPT ![PlayerOf[s]] = dest[s]]
  /\ UNCHANGED <<locals, inventoryItemIds, itemIds, gone, faults, brokerVars>>

\* The view of the new room is built and its send begins.
MoveEnter(s) ==
  /\ s \notin closed
  /\ Goto(s, "move.view", "move.sent")
  /\ UNCHANGED <<locals, database, gone, faults, brokerVars>>

\* Mutant of MoveDepart: the old room is told before the player is moved.
MoveDepartTold(s) ==
  /\ Goto(s, "move.sent", "move.depart")
  /\ PublishToRoom(s, room[s], {})
  /\ UNCHANGED <<locals, database, gone, faults>>

\* The send is through.  The broker moves the player, then the old room is told.
MoveDepart(s) ==
  /\ Goto(s, "move.sent", "move.depart")
  /\ MoveAndPublish(s, PlayerOf[s], dest[s], room[s])
  /\ UNCHANGED <<locals, database, gone, faults>>

\* Mutant of MoveArrive: the arrival is announced to the room that was left.
MoveArriveBehind(s) ==
  /\ Goto(s, "move.depart", "move.arrive")
  /\ PublishToRoom(s, room[s], {PlayerOf[s]})
  /\ UNCHANGED <<locals, database, gone, faults>>

MoveArrive(s) ==
  /\ Goto(s, "move.depart", "move.arrive")
  /\ PublishToRoom(s, dest[s], {PlayerOf[s]})
  /\ UNCHANGED <<locals, database, gone, faults>>

MoveDone(s) ==
  /\ pc[s] = "move.arrive" /\ audience[s] = {}
  /\ Return(s, dest[s], inv[s])
  /\ UNCHANGED <<database, gone, faults, brokerVars>>

-------------------------------------------------------------------------------
(* take                                                                    *)

TakeFind(s, i) ==
  /\ "take" \in Commands
  /\ Goto(s, "recv", "take.pull")
  /\ Has(itemIds[room[s]], i) /\ i \notin Fixtures
  /\ item' = [item EXCEPT ![s] = i]
  /\ UNCHANGED <<room, inv, dest, database, gone, faults, brokerVars>>

\* The conditional $pull: whoever comes second finds the item gone.
TakePull(s) ==
  /\ pc[s] = "take.pull"
  /\ IF Modified(itemIds[room[s]], item[s])
     THEN /\ Goto(s, "take.pull", "take.push")
          /\ itemIds' = [itemIds EXCEPT ![room[s]] = Pull(@, item[s])]
          /\ UNCHANGED locals
     ELSE ReturnUnchanged(s) /\ UNCHANGED itemIds
  /\ UNCHANGED <<currentRoomId, inventoryItemIds, gone, faults, brokerVars>>

TakePush(s) ==
  /\ Goto(s, "take.push", "take.list")
  /\ inventoryItemIds' = [inventoryItemIds EXCEPT ![PlayerOf[s]] = Push(@, item[s])]
  /\ UNCHANGED <<locals, currentRoomId, itemIds, gone, faults, brokerVars>>

\* Mutant of TakeInventory: the new item is not added.
TakeForgotten(s) == inv[s]

\* What the player is told it carries: the session's own reckoning.
TakeInventory(s) == inv[s] \cup {item[s]}

TakeList(s) ==
  /\ s \notin closed
  /\ Goto(s, "take.list", "take.sent")
  /\ UNCHANGED <<locals, database, gone, faults, brokerVars>>

TakeTell(s) ==
  /\ Goto(s, "take.sent", "take.told")
  /\ PublishToRoom(s, room[s], {PlayerOf[s]})
  /\ UNCHANGED <<locals, database, gone, faults>>

TakeDone(s) ==
  /\ pc[s] = "take.told" /\ audience[s] = {}
  /\ Return(s, room[s], TakeInventory(s))
  /\ UNCHANGED <<database, gone, faults, brokerVars>>

-------------------------------------------------------------------------------
(* drop                                                                    *)

\* Only what the session believes it carries can be named.
DropFind(s, i) ==
  /\ "drop" \in Commands
  /\ i \in inv[s]
  /\ Goto(s, "recv", "drop.pull")
  /\ item' = [item EXCEPT ![s] = i]
  /\ UNCHANGED <<room, inv, dest, database, gone, faults, brokerVars>>

DropPull(s) ==
  LET p == PlayerOf[s] IN
  /\ pc[s] = "drop.pull"
  /\ IF Modified(inventoryItemIds[p], item[s])
     THEN /\ Goto(s, "drop.pull", "drop.push")
          /\ inventoryItemIds' = [inventoryItemIds EXCEPT ![p] = Pull(@, item[s])]
          /\ UNCHANGED locals
     ELSE ReturnUnchanged(s) /\ UNCHANGED inventoryItemIds
  /\ UNCHANGED <<currentRoomId, itemIds, gone, faults, brokerVars>>

DropPush(s) ==
  /\ Goto(s, "drop.push", "drop.list")
  /\ itemIds' = [itemIds EXCEPT ![room[s]] = Push(@, item[s])]
  /\ UNCHANGED <<locals, currentRoomId, inventoryItemIds, gone, faults, brokerVars>>

\* Mutant of DropInventory: the dropped item stays listed.
DropKeepsListed(s) == inv[s]

DropInventory(s) == inv[s] \ {item[s]}

DropList(s) ==
  /\ s \notin closed
  /\ Goto(s, "drop.list", "drop.sent")
  /\ UNCHANGED <<locals, database, gone, faults, brokerVars>>

DropTell(s) ==
  /\ Goto(s, "drop.sent", "drop.told")
  /\ PublishToRoom(s, room[s], {PlayerOf[s]})
  /\ UNCHANGED <<locals, database, gone, faults>>

DropDone(s) ==
  /\ pc[s] = "drop.told" /\ audience[s] = {}
  /\ Return(s, room[s], DropInventory(s))
  /\ UNCHANGED <<database, gone, faults, brokerVars>>

-------------------------------------------------------------------------------
(* Failures.                                                               *)

\* The player's own message cannot be sent.  The handler's work is not undone,
\* the loop goes on, and receive_text raises on the broken socket.
SendFails(s) ==
  /\ pc[s] \in {"look", "move.view", "take.list", "drop.list"}
  /\ s \in closed \cup gone
  /\ pc' = [pc EXCEPT ![s] = "leave"]
  /\ UNCHANGED <<locals, database, gone, faults, brokerVars>>

\* A database call raises: INTERNAL_ERROR, and on with the Player as it was.
\* (An update that was applied although its reply is lost is this error at the
\* handler's next database call.)
DbError(s) ==
  /\ faults < MaxFaults
  /\ faults' = faults + 1
  /\ pc[s] \in AtDatabase
  /\ ReturnUnchanged(s)
  /\ UNCHANGED <<database, gone, brokerVars>>

\* The process dies and another one starts: sessions and broker are gone, the
\* documents are not.
Crash ==
  LET begun == {s \in Sockets : pc[s] # "new"} IN
  /\ faults < MaxFaults
  /\ faults' = faults + 1
  /\ pc' = [s \in Sockets |-> IF s \in begun THEN "ended" ELSE "new"]
  /\ room' = [s \in Sockets |-> NoRoom]
  /\ inv' = [s \in Sockets |-> {}]
  /\ item' = [s \in Sockets |-> NoItem]
  /\ dest' = [s \in Sockets |-> NoRoom]
  /\ Restart(begun)
  /\ UNCHANGED <<database, gone>>

\* Mutant of Fanout: sends to clients that have hung up never return.
FanoutToLiving(s) ==
  /\ \E t \in Sockets \ gone : Deliver(s, t)
  /\ UNCHANGED <<pc, locals, database, gone, faults>>

\* One send of s's broadcast returns.
Fanout(s) ==
  /\ \E t \in Sockets : Deliver(s, t)
  /\ UNCHANGED <<pc, locals, database, gone, faults>>

-------------------------------------------------------------------------------
Starting(s) == LoadPlayer(s) \/ Welcome(s) \/ Join(s) \/ Serve(s)
Chatting(s) == ChatDone(s)
Moving(s) ==
  \/ MoveUpdate(s) \/ MoveEnter(s) \/ MoveDepart(s) \/ MoveArrive(s) \/ MoveDone(s)
Taking(s) ==
  \/ TakePull(s) \/ TakePush(s) \/ TakeList(s) \/ TakeTell(s) \/ TakeDone(s)
Dropping(s) ==
  \/ DropPull(s) \/ DropPush(s) \/ DropList(s) \/ DropTell(s) \/ DropDone(s)

\* What the server does of its own accord once something has begun.
Progress(s) ==
  \/ Starting(s) \/ LookDone(s) \/ Chatting(s) \/ Moving(s) \/ Taking(s) \/ Dropping(s)
  \/ SendFails(s) \/ Leave(s) \/ Fanout(s)

\* What a client does.
Client(s) ==
  \/ Open(s) \/ Refuse(s) \/ ClientLeaves(s) \/ Quit(s)
  \/ Answer(s) \/ Look(s) \/ Say(s) \/ Shout(s)
  \/ \E e \in Exits : MoveStart(s, e)
  \/ \E i \in Items : TakeFind(s, i) \/ DropFind(s, i)

Next ==
  \/ \E s \in Sockets : Client(s) \/ Progress(s) \/ Hangup(s) \/ DbError(s)
  \/ Crash

Spec == Init /\ [][Next]_vars

(***************************************************************************)
(* The event loop runs every task that can run, MongoDB answers, and a     *)
(* send returns (uvicorn's keepalive sees to clients that stop reading).   *)
(* A client that hung up has sent finitely many commands, so receive_text  *)
(* reaches the hang-up however many of them it returns first.              *)
(***************************************************************************)
Fairness ==
  \A s \in Sockets : WF_vars(Progress(s)) /\ SF_vars(Hangup(s))

FairSpec == Spec /\ Fairness

-------------------------------------------------------------------------------
TypeOK ==
  /\ BrokerTypeOK
  /\ pc \in [Sockets -> Places]
  /\ room \in [Sockets -> Rooms \cup {NoRoom}]
  /\ \A s \in Sockets : pc[s] \in {"view", "welcome"} \cup Serving => room[s] \in Rooms
  /\ inv \in [Sockets -> SUBSET Items]
  /\ item \in [Sockets -> Items \cup {NoItem}]
  /\ dest \in [Sockets -> Rooms \cup {NoRoom}]
  /\ \A s \in Sockets :
       pc[s] \in {"take.pull", "take.push", "take.list", "take.sent", "take.told",
                  "drop.pull", "drop.push", "drop.list", "drop.sent", "drop.told"}
         => item[s] \in Items
  /\ \A s \in Sockets :
       pc[s] \in {"move.update", "move.view", "move.sent", "move.depart", "move.arrive"}
         => dest[s] \in Rooms
  /\ currentRoomId \in [Players -> Rooms]
  /\ inventoryItemIds \in [Players -> [Items -> Nat]]
  /\ itemIds \in [Rooms -> [Items -> Nat]]
  /\ gone \subseteq Sockets
  /\ faults \in 0 .. MaxFaults

\* Pulled from one document and not yet pushed to the other.
InHand(s, i) == pc[s] \in {"take.push", "drop.push"} /\ item[s] = i

(***************************************************************************)
(* However takes and drops of any sessions interleave, fail or are cut off *)
(* by a crash, an item id is never listed twice: not in two documents, not *)
(* twice in one, and not in a document while a handler still holds it.     *)
(* The conditional $pull of both handlers is what this rests on.           *)
(***************************************************************************)
ItemInOnePlace ==
  \A i \in Items :
    /\ \A r \in Rooms : itemIds[r][i] <= 1
    /\ \A p \in Players : inventoryItemIds[p][i] <= 1
    /\ \A r, q \in Rooms : Has(itemIds[r], i) /\ Has(itemIds[q], i) => r = q
    /\ \A p, q \in Players :
         Has(inventoryItemIds[p], i) /\ Has(inventoryItemIds[q], i) => p = q
    /\ \A r \in Rooms, p \in Players :
         ~(Has(itemIds[r], i) /\ Has(inventoryItemIds[p], i))
    /\ \A s \in Sockets : InHand(s, i) =>
         /\ \A r \in Rooms : ~Has(itemIds[r], i)
         /\ \A p \in Players : ~Has(inventoryItemIds[p], i)
         /\ \A t \in Sockets : InHand(t, i) => s = t

(***************************************************************************)
(* Without a database error or a crash between the $pull and the $push, no *)
(* item is lost -- not even to a player who disconnects or is displaced    *)
(* half-way through a take or a drop -- and a fixture stays where it was.  *)
(***************************************************************************)
NoItemLost ==
  faults = 0 =>
    \A i \in Items :
      /\ \/ \E r \in Rooms : Has(itemIds[r], i)
         \/ \E p \in Players : Has(inventoryItemIds[p], i)
         \/ \E s \in Sockets : InHand(s, i)
      /\ i \in Fixtures => Has(itemIds[SeedRoom[i]], i)

(***************************************************************************)
(* The registered socket is that of a session between its broker.connect   *)
(* and its broker.disconnect, and a serving session that is not the        *)
(* registered one has been closed: no order of reconnects, displacements,  *)
(* hang-ups and crashes leaves a player with two open sessions, with a     *)
(* dead socket in the broker, or served but out of reach of broadcasts.    *)
(***************************************************************************)
OneSessionPerPlayer ==
  \A s \in Sockets :
    /\ IsRegistered(s) => pc[s] \in Serving
    /\ pc[s] \in Serving /\ s \notin closed => IsRegistered(s)

\* The server's only use of the broker is through the broker's operations.
ImplementsBroker == BrokerSpec

(***************************************************************************)
(* The Player a session keeps for its lifetime agrees, between commands,   *)
(* with the document it was loaded from and with the broker.  Nothing ever *)
(* reloads it, so this needs sessions of one player not to overlap and the *)
(* database not to fail half-way.                                          *)
(***************************************************************************)
CacheAgrees ==
  \A s \in Sockets : LET p == PlayerOf[s] IN
    pc[s] \in {"joined", "recv"} =>
      /\ room[s] = currentRoomId[p]
      /\ inv[s] = Contents(inventoryItemIds[p])
      /\ playerRooms[p] = room[s]

(***************************************************************************)
(* The broker has a room only for players who are connected: a session     *)
(* that is over has taken its player out of its room, and no handler that  *)
(* was slow to send puts it back.  (Sessions that overlap can: the older   *)
(* one's move may end after the newer one has left.)                       *)
(***************************************************************************)
NobodyLeftBehind == DOMAIN playerRooms \subseteq DOMAIN players

(***************************************************************************)
(* News of what a player did is for the others (the docstring of           *)
(* publish_to_room): while it is being sent, no connection of that player  *)
(* is among the addressees -- not even in the room the player has left,    *)
(* and not when another session of the player has taken over.              *)
(***************************************************************************)
OwnNewsOmitted ==
  \A s, t \in Sockets :
    pc[s] \in {"move.depart", "move.arrive", "take.told", "drop.told"} /\ t \in audience[s]
      => PlayerOf[t] # PlayerOf[s]

(***************************************************************************)
(* A player's room changes only to one that an exit of its room leads to   *)
(* (asyncapi: "Move the player through an exit in the current room").      *)
(***************************************************************************)
MovesFollowExits ==
  [][\A p \in Players : currentRoomId'[p] # currentRoomId[p] =>
       \E e \in Exits : e.from = currentRoomId[p] /\ e.to = currentRoomId'[p]]_vars

(***************************************************************************)
(* The inventory sent after a take or a drop is the player's full          *)
(* inventory (asyncapi: "Full inventory state sent after any take/drop").  *)
(***************************************************************************)
InventorySentIsFull ==
  [][\A s \in Sockets : LET carried == Contents(inventoryItemIds[PlayerOf[s]]) IN
       /\ pc[s] = "take.list" /\ pc'[s] = "take.sent" => TakeInventory(s) = carried
       /\ pc[s] = "drop.list" /\ pc'[s] = "drop.sent" => DropInventory(s) = carried]_vars

\* Where the things are: a thing in hand has been taken, or dropped, already.
Carried(p) ==
  Contents(inventoryItemIds[p]) \cup
  {item[s] : s \in {t \in Sockets : pc[t] = "take.push" /\ PlayerOf[t] = p}}
Lying(r) ==
  Contents(itemIds[r]) \cup
  {item[s] : s \in {t \in Sockets : pc[t] = "drop.push" /\ room[t] = r}}

AsTold == INSTANCE World WITH
  at      <- currentRoomId,
  carried <- [p \in Players |-> Carried(p)],
  lying   <- [r \in Rooms |-> Lying(r)]

(***************************************************************************)
(* The game is the one the players are told of: a move, a take and a drop  *)
(* happen at one moment, each by the rules of that moment, although each   *)
(* is a handful of reads and writes of several documents, by the knowledge *)
(* of a cached Player, among those of the other sessions.  As CacheAgrees, *)
(* this is about sessions that follow one another and no faults.           *)
(***************************************************************************)
ImplementsWorld == AsTold!Spec

(***************************************************************************)
(* A speaker whose socket is open sees its own line (the docstring of      *)
(* _handle_say): the room it speaks to is the room the broker has it in.   *)
(***************************************************************************)
SpeakerHearsSay ==
  [][\A s \in Sockets :
       pc[s] = "recv" /\ pc'[s] = "chat" /\ s \notin closed => s \in audience'[s]]_vars

(***************************************************************************)
(* A connection that has hung up or was displaced does not stay with the   *)
(* broker: whatever handler, broadcast or failure it was in the middle of, *)
(* its player is eventually released, once and for all.                    *)
(***************************************************************************)
DeadSocketsReleased ==
  \A s \in Sockets : s \in gone \cup closed ~> [](~IsRegistered(s))

(***************************************************************************)
(* A command that was accepted is finished: no session waits for ever for  *)
(* a broadcast that another session's broken socket holds up.              *)
(***************************************************************************)
CommandsFinish ==
  \A s \in Sockets : pc[s] \in Handling ~> pc[s] \notin Handling
===============================================================================
