--------------------------- MODULE GameServerProofs ---------------------------
(***************************************************************************)
(* Theorems of the game server for every number of players, sessions,      *)
(* rooms and items, every world and every bound on faults.                 *)
(***************************************************************************)
EXTENDS GameServer, BrokerProofs
-------------------------------------------------------------------------------
(* Types of everything but the broker.                                     *)

SessionTypes ==
  /\ pc \in [Sockets -> Places]
  /\ room \in [Sockets -> Rooms \cup {NoRoom}]
  /\ \A s \in Sockets : pc[s] \in {"view", "welcome"} \cup Serving => room[s] \in Rooms
  /\ inv \in [Sockets -> SUBSET Items]
  /\ item \in [Sockets -> Items \cup {NoItem}]
  /\ dest \in [Sockets -> Rooms \cup {NoRoom}]
  /\ \A s \in Sockets :
       pc[s] \in {"take.pull", "take.push", "take.list", "take.sent", "take.told",
                  "drop.pull", "drop.push", "drop.list", "drop.sent", "drop.told"}
         => item[s] \in Items
  /\ \A s \in Sockets :
       pc[s] \in {"move.update", "move.view", "move.sent", "move.depart", "move.arrive"}
         => dest[s] \in Rooms
DocumentTypes ==
  /\ currentRoomId \in [Players -> Rooms]
  /\ inventoryItemIds \in [Players -> [Items -> Nat]]
  /\ itemIds \in [Rooms -> [Items -> Nat]]
Types ==
  /\ SessionTypes /\ DocumentTypes
  /\ gone \subseteq Sockets
  /\ faults \in 0 .. MaxFaults

LEMMA PullType ==
  ASSUME NEW list \in [Items -> Nat], NEW i
  PROVE  Pull(list, i) \in [Items -> Nat]
  BY DEF Pull

LEMMA PushType ==
  ASSUME NEW list \in [Items -> Nat], NEW i \in Items
  PROVE  Push(list, i) \in [Items -> Nat]
  BY DEF Push

LEMMA TypesInit == Init => Types
  <1> SUFFICES ASSUME Init
               PROVE  Types
    OBVIOUS
  <1>1. SessionTypes
    BY DEF Init, SessionTypes, Places, Serving, Startup, Handling, AtDatabase, AtSockets
  <1>2. DocumentTypes
    BY WorldAssumption DEF Init, DocumentTypes, Nothing
  <1>3. gone \subseteq Sockets /\ faults \in 0 .. MaxFaults
    BY BoundAssumption DEF Init
  <1>4. QED
    BY <1>1, <1>2, <1>3 DEF Types

LEMMA TypesNext == Types /\ [Next]_vars => Types'
  <1> SUFFICES ASSUME Types, [Next]_vars
               PROVE  Types'
    OBVIOUS
  <1> USE SocketAssumption, ItemAssumption, WorldAssumption, BoundAssumption
  <1> USE DEF Types, SessionTypes, DocumentTypes, Places, Serving, Startup, Handling,
              AtDatabase, AtSockets
  <1>1. CASE \E s \in Sockets : Open(s)
    BY <1>1 DEF Open, Goto, locals, database
  <1>2. CASE \E s \in Sockets : LoadPlayer(s)
    BY <1>2 DEF LoadPlayer, Goto, database, Contents
  <1>3. CASE \E s \in Sockets : Refuse(s)
    BY <1>3 DEF Refuse, End, database
  <1>4. CASE \E s \in Sockets : Join(s)
    BY <1>4 DEF Join, Goto, locals, database
  <1>5. CASE \E s \in Sockets : Serve(s)
    BY <1>5 DEF Serve, ReturnUnchanged, Return, database
  <1>6. CASE \E s \in Sockets : ClientLeaves(s)
    BY <1>6 DEF ClientLeaves, locals, database
  <1>7. CASE \E s \in Sockets : Hangup(s)
    BY <1>7 DEF Hangup, Goto, locals, database
  <1>8. CASE \E s \in Sockets : Quit(s)
    BY <1>8 DEF Quit, Goto, locals, database
  <1>9. CASE \E s \in Sockets : Leave(s)
    BY <1>9 DEF Leave, End, database
  <1>10. CASE \E s \in Sockets : Answer(s) \/ Look(s) \/ LookDone(s)
    <2>1. PICK s \in Sockets : Answer(s) \/ Look(s) \/ LookDone(s)
      BY <1>10
    <2>2. CASE Look(s)
      BY <2>2 DEF Look, Goto, locals, database
    <2>3. CASE Answer(s)
      BY <2>3 DEF Answer, ReturnUnchanged, Return, database
    <2>4. CASE LookDone(s)
      BY <2>4 DEF LookDone, ReturnUnchanged, Return, database
    <2>5. QED
      BY <2>1, <2>2, <2>3, <2>4
  <1>11. CASE \E s \in Sockets : Say(s)
    BY <1>11 DEF Say, Goto, locals, database
  <1>12. CASE \E s \in Sockets : Shout(s)
    BY <1>12 DEF Shout, Goto, locals, database
  <1>13. CASE \E s \in Sockets : ChatDone(s)
    BY <1>13 DEF ChatDone, ReturnUnchanged, Return, database
  <1>14. CASE \E s \in Sockets : MoveUpdate(s)
    BY <1>14 DEF MoveUpdate, Goto, locals
  <1>15. CASE \E s \in Sockets : MoveEnter(s)
    BY <1>15 DEF MoveEnter, Goto, locals, database
  <1>16. CASE \E s \in Sockets : MoveDepart(s)
    BY <1>16 DEF MoveDepart, Goto, locals, database
  <1>17. CASE \E s \in Sockets : MoveArrive(s)
    BY <1>17 DEF MoveArrive, Goto, locals, database
  <1>18. CASE \E s \in Sockets : MoveDone(s)
    BY <1>18 DEF MoveDone, Return, database
  <1>19. CASE \E s \in Sockets : TakePull(s)
    <2>1. PICK s \in Sockets : TakePull(s)
      BY <1>19
    <2>2. CASE Has(itemIds[room[s]], item[s])
      <3>1. room[s] \in Rooms /\ item[s] \in Items
        BY <2>1 DEF TakePull
      <3>2. Pull(itemIds[room[s]], item[s]) \in [Items -> Nat]
        BY <3>1, PullType
      <3>3. itemIds' = [itemIds EXCEPT ![room[s]] = Pull(itemIds[room[s]], item[s])]
        BY <2>1, <2>2 DEF TakePull, Modified
      <3>4. DocumentTypes'
        BY <2>1, <3>1, <3>2, <3>3 DEF TakePull
      <3>5. SessionTypes'
        BY <2>1, <2>2, <3>1 DEF TakePull, Modified, Goto, locals
      <3>6. QED
        BY <2>1, <3>4, <3>5 DEF TakePull
    <2>3. CASE ~Has(itemIds[room[s]], item[s])
      <3>1. ReturnUnchanged(s) /\ UNCHANGED database
        BY <2>1, <2>3 DEF TakePull, Modified, database
      <3>2. s \in Sockets /\ pc[s] \in Handling /\ UNCHANGED <<gone, faults>>
        BY <2>1 DEF TakePull
      <3>3. QED
        BY <3>1, <3>2 DEF ReturnUnchanged, Return, database
    <2>4. QED
      BY <2>2, <2>3
  <1>20. CASE \E s \in Sockets : TakePush(s)
    BY <1>20 DEF TakePush, Goto, locals, Push
  <1>21. CASE \E s \in Sockets : TakeList(s)
    BY <1>21 DEF TakeList, Goto, locals, database
  <1>22. CASE \E s \in Sockets : TakeTell(s)
    BY <1>22 DEF TakeTell, Goto, locals, database
  <1>23. CASE \E s \in Sockets : TakeDone(s)
    BY <1>23 DEF TakeDone, Return, database, TakeInventory
  <1>24. CASE \E s \in Sockets : DropPull(s)
    <2>1. PICK s \in Sockets : DropPull(s)
      BY <1>24
    <2>2. CASE Has(inventoryItemIds[PlayerOf[s]], item[s])
      <3>1. PlayerOf[s] \in Players /\ item[s] \in Items
        BY <2>1 DEF DropPull
      <3>2. Pull(inventoryItemIds[PlayerOf[s]], item[s]) \in [Items -> Nat]
        BY <3>1, PullType
      <3>3. inventoryItemIds' = [inventoryItemIds EXCEPT ![PlayerOf[s]] = Pull(inventoryItemIds[PlayerOf[s]], item[s])]
        BY <2>1, <2>2 DEF DropPull, Modified
      <3>4. DocumentTypes'
        BY <2>1, <3>1, <3>2, <3>3 DEF DropPull
      <3>5. SessionTypes'
        BY <2>1, <2>2, <3>1 DEF DropPull, Modified, Goto, locals
      <3>6. QED
        BY <2>1, <3>4, <3>5 DEF DropPull
    <2>3. CASE ~Has(inventoryItemIds[PlayerOf[s]], item[s])
      <3>1. ReturnUnchanged(s) /\ UNCHANGED database
        BY <2>1, <2>3 DEF DropPull, Modified, database
      <3>2. s \in Sockets /\ pc[s] \in Handling /\ UNCHANGED <<gone, faults>>
        BY <2>1 DEF DropPull
      <3>3. QED
        BY <3>1, <3>2 DEF ReturnUnchanged, Return, database
    <2>4. QED
      BY <2>2, <2>3
  <1>25. CASE \E s \in Sockets : DropPush(s)
    BY <1>25 DEF DropPush, Goto, locals, Push
  <1>26. CASE \E s \in Sockets : DropList(s)
    BY <1>26 DEF DropList, Goto, locals, database
  <1>27. CASE \E s \in Sockets : DropTell(s)
    BY <1>27 DEF DropTell, Goto, locals, database
  <1>28. CASE \E s \in Sockets : DropDone(s)
    BY <1>28 DEF DropDone, Return, database, DropInventory
  <1>29. CASE \E s \in Sockets : SendFails(s)
    BY <1>29 DEF SendFails, locals, database
  <1>30. CASE \E s \in Sockets : DbError(s)
    BY <1>30 DEF DbError, ReturnUnchanged, Return, database
  <1>31. CASE \E s \in Sockets : Fanout(s)
    BY <1>31 DEF Fanout, locals, database
  <1>32. CASE \E s \in Sockets, e \in Exits : MoveStart(s, e)
    BY <1>32 DEF MoveStart, Goto, database, Passable
  <1>33. CASE \E s \in Sockets, i \in Items : TakeFind(s, i)
    BY <1>33 DEF TakeFind, Goto, database
  <1>34. CASE \E s \in Sockets, i \in Items : DropFind(s, i)
    BY <1>34 DEF DropFind, Goto, database
  <1>35. CASE Crash
    BY <1>35 DEF Crash, Goto, database
  <1>36. CASE UNCHANGED vars
    BY <1>36 DEF vars, locals, database
  <1>37. CASE \E s \in Sockets : Welcome(s)
    BY <1>37 DEF Welcome, Goto, locals, database
  <1>38. QED
    BY <1>1, <1>2, <1>3, <1>4, <1>5, <1>6, <1>7, <1>8, <1>9, <1>10, <1>11, <1>12,
       <1>13, <1>14, <1>15, <1>16, <1>17, <1>18, <1>19, <1>20, <1>21, <1>22, <1>23,
       <1>24, <1>25, <1>26, <1>27, <1>28, <1>29, <1>30, <1>31, <1>32, <1>33, <1>34,
       <1>35, <1>36, <1>37
    DEF Next, Client, Progress, Starting, Chatting, Moving, Taking, Dropping

-------------------------------------------------------------------------------
(* The broker's part of every step is a step of the broker.                *)

LEMMA BrokerStep == Types /\ [Next]_vars => [BrokerNext]_brokerVars
  <1> SUFFICES ASSUME Types, [Next]_vars
               PROVE  BrokerNext \/ UNCHANGED brokerVars
    OBVIOUS
  <1> USE SocketAssumption, SessionAssumption
  <1>0. /\ \A s \in Sockets : pc[s] \in {"view", "welcome"} \cup Serving => room[s] \in Rooms
        /\ \A s \in Sockets : pc[s] \in {"move.sent", "move.depart"} => dest[s] \in Rooms
        /\ \A s \in Sockets : s \in Publishers /\ PlayerOf[s] \in Players
    BY DEF Types, SessionTypes
  <1>1. CASE \E s \in Sockets : Join(s)
    BY <1>1, <1>0 DEF Join, BrokerNext, Goto, Serving, Handling, AtSockets
  <1>2. CASE \E s \in Sockets : Quit(s)
    BY <1>2, <1>0 DEF Quit, BrokerNext
  <1>3. CASE \E s \in Sockets : Leave(s)
    BY <1>3, <1>0 DEF Leave, BrokerNext
  <1>4. CASE \E s \in Sockets : Say(s)
    BY <1>4, <1>0 DEF Say, BrokerNext, Goto, Serving, Handling, AtSockets
  <1>5. CASE \E s \in Sockets : Shout(s)
    BY <1>5, <1>0 DEF Shout, BrokerNext
  <1>6. CASE \E s \in Sockets : MoveDepart(s)
    BY <1>6, <1>0 DEF MoveDepart, BrokerNext, Goto, Serving, Handling, AtSockets
  <1>7. CASE \E s \in Sockets : MoveArrive(s)
    BY <1>7, <1>0 DEF MoveArrive, BrokerNext, Goto, Serving, Handling, AtSockets
  <1>8. CASE \E s \in Sockets : TakeTell(s)
    BY <1>8, <1>0 DEF TakeTell, BrokerNext, Goto, Serving, Handling, AtSockets
  <1>9. CASE \E s \in Sockets : DropTell(s)
    BY <1>9, <1>0 DEF DropTell, BrokerNext, Goto, Serving, Handling, AtSockets
  <1>10. CASE \E s \in Sockets : Fanout(s)
    BY <1>10, <1>0 DEF Fanout, BrokerNext
  <1>11. CASE Crash
    BY <1>11 DEF Crash, BrokerNext
  <1>12. CASE UNCHANGED vars
    BY <1>12 DEF vars, brokerVars
  <1>13. ASSUME NEW s \in Sockets,
             \/ Open(s) \/ LoadPlayer(s) \/ Welcome(s) \/ Refuse(s) \/ Serve(s) \/ ClientLeaves(s)
             \/ Hangup(s) \/ Answer(s) \/ Look(s) \/ LookDone(s) \/ ChatDone(s) \/ SendFails(s) \/ DbError(s)
             \/ MoveUpdate(s) \/ MoveEnter(s) \/ MoveDone(s)
             \/ TakePull(s) \/ TakePush(s) \/ TakeList(s) \/ TakeDone(s)
             \/ DropPull(s) \/ DropPush(s) \/ DropList(s) \/ DropDone(s)
             \/ \E e \in Exits : MoveStart(s, e)
             \/ \E i \in Items : TakeFind(s, i) \/ DropFind(s, i)
        PROVE  UNCHANGED brokerVars
    BY <1>13 DEF Open, LoadPlayer, Welcome, Refuse, Serve, ClientLeaves, Hangup, Answer,
      Look, LookDone, ChatDone, MoveUpdate, MoveEnter, MoveDone, TakePull, TakePush, TakeList,
      TakeDone, DropPull, DropPush, DropList, DropDone, SendFails, DbError,
      MoveStart, TakeFind, DropFind, brokerVars
  <1>14. QED
    BY <1>1, <1>2, <1>3, <1>4, <1>5, <1>6, <1>7, <1>8, <1>9, <1>10, <1>11, <1>12,
       <1>13
    DEF Next, Client, Progress, Starting, Chatting, Moving, Taking, Dropping

LEMMA TypesAlways == Spec => []Types
  BY TypesInit, TypesNext, PTL DEF Spec

(***************************************************************************)
(* The game server uses the broker only through the broker's operations,   *)
(* so all that is proved of the broker holds of it inside the server.      *)
(***************************************************************************)
THEOREM GameServerRunsBroker == Spec => ImplementsBroker
  <1>1. Init => BrokerInit
    BY DEF Init
  <1>2. QED
    BY <1>1, TypesAlways, BrokerStep, PTL DEF Spec, BrokerSpec, ImplementsBroker

(***************************************************************************)
(* Every variable of the server keeps its type: in particular a session    *)
(* that serves has a room, a handler at work has its item or destination,  *)
(* and the broker's dictionaries are well-formed.                          *)
(***************************************************************************)
THEOREM GameServerTypes == Spec => []TypeOK
  <1>1. Types /\ BrokerTypeOK => TypeOK
    BY DEF Types, SessionTypes, DocumentTypes, TypeOK
  <1>2. QED
    BY <1>1, TypesAlways, GameServerRunsBroker, BrokerSafe, PTL DEF ImplementsBroker

-------------------------------------------------------------------------------
(* An item is in one place.                                                *)

LEMMA ItemsInit == Init => ItemInOnePlace
  BY WorldAssumption DEF Init, ItemInOnePlace, Has, Nothing, InHand

\* Steps that move no item: no document changes and no hand is filled.
LEMMA ItemsStay ==
  ASSUME ItemInOnePlace, UNCHANGED <<inventoryItemIds, itemIds>>,
         \A s \in Sockets, i \in Items : InHand(s, i)' => InHand(s, i)
  PROVE  ItemInOnePlace'
  BY DEF ItemInOnePlace, Has

\* A conditional $pull moves the item from its only place into a hand.
LEMMA TakePullOnePlace ==
  ASSUME Types, ItemInOnePlace, NEW s \in Sockets, TakePull(s)
  PROVE  ItemInOnePlace'
  <1>1. /\ room[s] \in Rooms /\ item[s] \in Items
        /\ pc[s] = "take.pull" /\ UNCHANGED inventoryItemIds
    BY DEF Types, SessionTypes, TakePull, Serving, Handling, AtDatabase
  <1>2. CASE Has(itemIds[room[s]], item[s])
    <2>1. /\ itemIds' = [itemIds EXCEPT ![room[s]] = Pull(itemIds[room[s]], item[s])]
          /\ pc' = [pc EXCEPT ![s] = "take.push"] /\ item' = item
      BY <1>2 DEF TakePull, Modified, Goto, locals
    <2>2. \A r \in Rooms, i \in Items :
            itemIds'[r][i] = IF r = room[s] /\ i = item[s] THEN 0 ELSE itemIds[r][i]
      BY <1>1, <2>1 DEF Types, DocumentTypes, Pull
    <2>3. \A t \in Sockets, i \in Items :
            InHand(t, i)' <=> InHand(t, i) \/ (t = s /\ i = item[s])
      BY <1>1, <2>1 DEF InHand, Types, SessionTypes
    <2>4. \A t \in Sockets : ~InHand(t, item[s])
      BY <1>1, <1>2 DEF ItemInOnePlace
    <2>5. QED
      BY <1>1, <1>2, <2>2, <2>3, <2>4 DEF ItemInOnePlace, Has
  <1>3. CASE ~Has(itemIds[room[s]], item[s])
    <2>1. ReturnUnchanged(s) /\ UNCHANGED itemIds
      BY <1>3 DEF TakePull, Modified
    <2>2. \A t \in Sockets, i \in Items : InHand(t, i)' => InHand(t, i)
      BY <2>1 DEF ReturnUnchanged, Return, InHand, Types, SessionTypes
    <2>3. QED
      BY <1>1, <2>1, <2>2, ItemsStay
  <1>4. QED
    BY <1>2, <1>3

LEMMA DropPullOnePlace ==
  ASSUME Types, ItemInOnePlace, NEW s \in Sockets, DropPull(s)
  PROVE  ItemInOnePlace'
  <1> DEFINE p == PlayerOf[s]
  <1>1. /\ p \in Players /\ item[s] \in Items
        /\ pc[s] = "drop.pull" /\ UNCHANGED itemIds
    BY SocketAssumption DEF Types, SessionTypes, DropPull
  <1>2. CASE Has(inventoryItemIds[p], item[s])
    <2>1. /\ inventoryItemIds' =
               [inventoryItemIds EXCEPT ![p] = Pull(inventoryItemIds[p], item[s])]
          /\ pc' = [pc EXCEPT ![s] = "drop.push"] /\ item' = item
      BY <1>2 DEF DropPull, Modified, Goto, locals
    <2>2. \A q \in Players, i \in Items : inventoryItemIds'[q][i] =
            IF q = p /\ i = item[s] THEN 0 ELSE inventoryItemIds[q][i]
      BY <1>1, <2>1 DEF Types, DocumentTypes, Pull
    <2>3. \A t \in Sockets, i \in Items :
            InHand(t, i)' <=> InHand(t, i) \/ (t = s /\ i = item[s])
      BY <1>1, <2>1 DEF InHand, Types, SessionTypes
    <2>4. \A t \in Sockets : ~InHand(t, item[s])
      BY <1>1, <1>2 DEF ItemInOnePlace
    <2> HIDE DEF p
    <2>5. QED
      BY <1>1, <1>2, <2>2, <2>3, <2>4 DEF ItemInOnePlace, Has
  <1>3. CASE ~Has(inventoryItemIds[p], item[s])
    <2>1. ReturnUnchanged(s) /\ UNCHANGED inventoryItemIds
      BY <1>3 DEF DropPull, Modified
    <2>2. \A t \in Sockets, i \in Items : InHand(t, i)' => InHand(t, i)
      BY <2>1 DEF ReturnUnchanged, Return, InHand, Types, SessionTypes
    <2>3. QED
      BY <1>1, <2>1, <2>2, ItemsStay
  <1>4. QED
    BY <1>2, <1>3

\* A $push puts the item that a hand holds, and no document, into one document.
LEMMA TakePushOnePlace ==
  ASSUME Types, ItemInOnePlace, NEW s \in Sockets, TakePush(s)
  PROVE  ItemInOnePlace'
  <1> DEFINE p == PlayerOf[s]
  <1>1. /\ p \in Players /\ item[s] \in Items
        /\ pc[s] = "take.push" /\ pc' = [pc EXCEPT ![s] = "take.list"]
        /\ UNCHANGED <<itemIds, item>>
        /\ inventoryItemIds' =
             [inventoryItemIds EXCEPT ![p] = Push(inventoryItemIds[p], item[s])]
    BY SocketAssumption DEF Types, SessionTypes, TakePush, Goto, locals
  <1>2. InHand(s, item[s])
    BY <1>1 DEF InHand
  <1>3. /\ \A r \in Rooms : ~Has(itemIds[r], item[s])
        /\ \A q \in Players : ~Has(inventoryItemIds[q], item[s])
        /\ \A t \in Sockets : InHand(t, item[s]) => t = s
    BY <1>1, <1>2 DEF ItemInOnePlace
  <1>4. \A q \in Players, i \in Items : inventoryItemIds'[q][i] =
          IF q = p /\ i = item[s] THEN 1 ELSE inventoryItemIds[q][i]
    BY <1>1, <1>3 DEF Types, DocumentTypes, Push, Has
  <1>5. \A t \in Sockets, i \in Items : InHand(t, i)' <=> InHand(t, i) /\ i # item[s]
    BY <1>1, <1>3 DEF InHand, Types, SessionTypes
  <1> HIDE DEF p
  <1>6. QED
    BY <1>1, <1>3, <1>4, <1>5 DEF ItemInOnePlace, Has

LEMMA DropPushOnePlace ==
  ASSUME Types, ItemInOnePlace, NEW s \in Sockets, DropPush(s)
  PROVE  ItemInOnePlace'
  <1>1. /\ room[s] \in Rooms /\ item[s] \in Items
        /\ pc[s] = "drop.push" /\ pc' = [pc EXCEPT ![s] = "drop.list"]
        /\ UNCHANGED <<inventoryItemIds, item>>
        /\ itemIds' = [itemIds EXCEPT ![room[s]] = Push(itemIds[room[s]], item[s])]
    BY DEF Types, SessionTypes, DropPush, Goto, locals, Serving, Handling, AtDatabase
  <1>2. InHand(s, item[s])
    BY <1>1 DEF InHand
  <1>3. /\ \A r \in Rooms : ~Has(itemIds[r], item[s])
        /\ \A q \in Players : ~Has(inventoryItemIds[q], item[s])
        /\ \A t \in Sockets : InHand(t, item[s]) => t = s
    BY <1>1, <1>2 DEF ItemInOnePlace
  <1>4. \A r \in Rooms, i \in Items : itemIds'[r][i] =
          IF r = room[s] /\ i = item[s] THEN 1 ELSE itemIds[r][i]
    BY <1>1, <1>3 DEF Types, DocumentTypes, Push, Has
  <1>5. \A t \in Sockets, i \in Items : InHand(t, i)' <=> InHand(t, i) /\ i # item[s]
    BY <1>1, <1>3 DEF InHand, Types, SessionTypes
  <1>6. QED
    BY <1>1, <1>3, <1>4, <1>5 DEF ItemInOnePlace, Has

LEMMA ItemsNext == Types /\ ItemInOnePlace /\ [Next]_vars => ItemInOnePlace'
  <1> SUFFICES ASSUME Types, ItemInOnePlace, [Next]_vars
               PROVE  ItemInOnePlace'
    OBVIOUS
  <1>0. pc \in [Sockets -> Places] /\ item \in [Sockets -> Items \cup {NoItem}]
    BY DEF Types, SessionTypes
  <1>1. CASE \E s \in Sockets : TakePull(s)
    BY <1>1, TakePullOnePlace
  <1>2. CASE \E s \in Sockets : TakePush(s)
    BY <1>2, TakePushOnePlace
  <1>3. CASE \E s \in Sockets : DropPull(s)
    BY <1>3, DropPullOnePlace
  <1>4. CASE \E s \in Sockets : DropPush(s)
    BY <1>4, DropPushOnePlace
  <1>5. CASE \E s \in Sockets : Open(s)
    BY <1>5, <1>0, ItemsStay DEF Open, Goto, locals, InHand, database
  <1>6. CASE \E s \in Sockets : LoadPlayer(s)
    BY <1>6, <1>0, ItemsStay DEF LoadPlayer, Goto, InHand, database
  <1>7. CASE \E s \in Sockets : Refuse(s)
    BY <1>7, <1>0, ItemsStay DEF Refuse, End, InHand, database
  <1>8. CASE \E s \in Sockets : Join(s)
    BY <1>8, <1>0, ItemsStay DEF Join, Goto, locals, InHand, database
  <1>9. CASE \E s \in Sockets : Serve(s)
    BY <1>9, <1>0, ItemsStay DEF Serve, ReturnUnchanged, Return, InHand, database
  <1>10. CASE \E s \in Sockets : ClientLeaves(s)
    BY <1>10, <1>0, ItemsStay DEF ClientLeaves, locals, InHand, database
  <1>11. CASE \E s \in Sockets : Hangup(s)
    BY <1>11, <1>0, ItemsStay DEF Hangup, Goto, locals, InHand, database
  <1>12. CASE \E s \in Sockets : Quit(s)
    BY <1>12, <1>0, ItemsStay DEF Quit, Goto, locals, InHand, database
  <1>13. CASE \E s \in Sockets : Leave(s)
    BY <1>13, <1>0, ItemsStay DEF Leave, End, InHand, database
  <1>14. CASE \E s \in Sockets : Answer(s) \/ Look(s) \/ LookDone(s)
    BY <1>14, <1>0, ItemsStay
    DEF Answer, Look, LookDone, Goto, ReturnUnchanged, Return, InHand, locals, database
  <1>15. CASE \E s \in Sockets : Say(s)
    BY <1>15, <1>0, ItemsStay DEF Say, Goto, locals, InHand, database
  <1>16. CASE \E s \in Sockets : Shout(s)
    BY <1>16, <1>0, ItemsStay DEF Shout, Goto, locals, InHand, database
  <1>17. CASE \E s \in Sockets : ChatDone(s)
    BY <1>17, <1>0, ItemsStay DEF ChatDone, ReturnUnchanged, Return, InHand,
      database
  <1>18. CASE \E s \in Sockets : MoveUpdate(s)
    BY <1>18, <1>0, ItemsStay DEF MoveUpdate, Goto, locals, InHand
  <1>19. CASE \E s \in Sockets : MoveEnter(s)
    BY <1>19, <1>0, ItemsStay DEF MoveEnter, Goto, locals, InHand, database
  <1>20. CASE \E s \in Sockets : MoveDepart(s)
    BY <1>20, <1>0, ItemsStay DEF MoveDepart, Goto, locals, InHand, database
  <1>21. CASE \E s \in Sockets : MoveArrive(s)
    BY <1>21, <1>0, ItemsStay DEF MoveArrive, Goto, locals, InHand, database
  <1>22. CASE \E s \in Sockets : MoveDone(s)
    BY <1>22, <1>0, ItemsStay DEF MoveDone, Return, InHand, database
  <1>23. CASE \E s \in Sockets : TakeList(s)
    BY <1>23, <1>0, ItemsStay DEF TakeList, Goto, locals, InHand, database
  <1>24. CASE \E s \in Sockets : TakeTell(s)
    BY <1>24, <1>0, ItemsStay DEF TakeTell, Goto, locals, InHand, database
  <1>25. CASE \E s \in Sockets : TakeDone(s)
    BY <1>25, <1>0, ItemsStay DEF TakeDone, Return, InHand, database
  <1>26. CASE \E s \in Sockets : DropList(s)
    BY <1>26, <1>0, ItemsStay DEF DropList, Goto, locals, InHand, database
  <1>27. CASE \E s \in Sockets : DropTell(s)
    BY <1>27, <1>0, ItemsStay DEF DropTell, Goto, locals, InHand, database
  <1>28. CASE \E s \in Sockets : DropDone(s)
    BY <1>28, <1>0, ItemsStay DEF DropDone, Return, InHand, database
  <1>29. CASE \E s \in Sockets : SendFails(s)
    BY <1>29, <1>0, ItemsStay DEF SendFails, locals, InHand, database
  <1>30. CASE \E s \in Sockets : DbError(s)
    BY <1>30, <1>0, ItemsStay DEF DbError, ReturnUnchanged, Return, InHand,
      database
  <1>31. CASE \E s \in Sockets : Fanout(s)
    BY <1>31, <1>0, ItemsStay DEF Fanout, locals, InHand, database
  <1>32. CASE \E s \in Sockets, e \in Exits : MoveStart(s, e)
    BY <1>32, <1>0, ItemsStay DEF MoveStart, Goto, InHand, database
  <1>33. CASE \E s \in Sockets, i \in Items : TakeFind(s, i)
    BY <1>33, <1>0, ItemsStay DEF TakeFind, Goto, InHand, database
  <1>34. CASE \E s \in Sockets, i \in Items : DropFind(s, i)
    BY <1>34, <1>0, ItemsStay DEF DropFind, Goto, InHand, database
  <1>35. CASE Crash
    BY <1>35, <1>0, ItemsStay DEF Crash, Goto, InHand, database
  <1>36. CASE UNCHANGED vars
    BY <1>36, ItemsStay DEF vars, locals, database, InHand
  <1>37. CASE \E s \in Sockets : Welcome(s)
    BY <1>37, <1>0, ItemsStay DEF Welcome, Goto, locals, InHand, database
  <1>38. QED
    BY <1>1, <1>2, <1>3, <1>4, <1>5, <1>6, <1>7, <1>8, <1>9, <1>10, <1>11, <1>12,
       <1>13, <1>14, <1>15, <1>16, <1>17, <1>18, <1>19, <1>20, <1>21, <1>22, <1>23,
       <1>24, <1>25, <1>26, <1>27, <1>28, <1>29, <1>30, <1>31, <1>32, <1>33, <1>34,
       <1>35, <1>36, <1>37
    DEF Next, Client, Progress, Starting, Chatting, Moving, Taking, Dropping

(***************************************************************************)
(* However many players, sessions and items there are, and whatever fails, *)
(* no item id is ever duplicated.                                          *)
(***************************************************************************)
THEOREM ItemsNeverDuplicated == Spec => []ItemInOnePlace
  BY TypesAlways, ItemsInit, ItemsNext, PTL DEF Spec

-------------------------------------------------------------------------------
(* One session per player.                                                 *)

LEMMA SessionsInit == Init => OneSessionPerPlayer
  BY SocketAssumption
  DEF Init, BrokerInit, OneSessionPerPlayer, IsRegistered, Get, Serving, Handling,
      AtDatabase, AtSockets

\* Steps that register nobody, take nobody out, and neither begin nor end the
\* service of a session.
LEMMA SessionsStay ==
  ASSUME OneSessionPerPlayer, UNCHANGED players, closed \subseteq closed',
         \A s \in Sockets : pc'[s] \in Serving <=> pc[s] \in Serving
  PROVE  OneSessionPerPlayer'
  BY DEF OneSessionPerPlayer, IsRegistered

\* Registering s closes whichever session of its player was registered.
LEMMA JoinOneSession ==
  ASSUME Types, OneSessionPerPlayer, NEW s \in Sockets, Join(s)
  PROVE  OneSessionPerPlayer'
  <1> DEFINE p == PlayerOf[s]
  <1>1. /\ pc[s] = "welcome" /\ pc' = [pc EXCEPT ![s] = "joined"]
        /\ players' = Put(players, p, s)
        /\ closed' = closed \cup Displaced(s)
    BY DEF Join, Goto, Connect
  <1>2. pc'[s] \in Serving /\ \A t \in Sockets \ {s} : pc'[t] = pc[t]
    BY <1>1 DEF Types, SessionTypes, Serving
  <1>3. \A t \in Sockets :
          IsRegistered(t)' <=> IF PlayerOf[t] = p THEN t = s ELSE IsRegistered(t)
    BY <1>1 DEF IsRegistered, Put, Get
  <1>4. \A t \in Sockets \ {s} :
          PlayerOf[t] = p /\ IsRegistered(t) => t \in closed'
    BY <1>1, SocketAssumption DEF IsRegistered, Displaced
  <1> HIDE DEF p
  <1>5. QED
    BY <1>1, <1>2, <1>3, <1>4 DEF OneSessionPerPlayer, p

\* A session that leaves takes itself out, and nobody else.
LEMMA LeaveOneSession ==
  ASSUME Types, OneSessionPerPlayer, NEW s \in Sockets, Leave(s)
  PROVE  OneSessionPerPlayer'
  <1> DEFINE p == PlayerOf[s]
  <1>1. pc' = [pc EXCEPT ![s] = "ended"] /\ closed' = closed
    BY DEF Leave, End, Disconnect
  <1>2. pc'[s] \notin Serving /\ \A t \in Sockets \ {s} : pc'[t] = pc[t]
    BY <1>1 DEF Types, SessionTypes, Serving, Handling, AtDatabase, AtSockets
  <1>3. \A t \in Sockets : IsRegistered(t)' <=> IsRegistered(t) /\ t # s
    <2>1. CASE IsRegistered(s)
      <3>1. players' = Without(players, p)
        BY <2>1 DEF Leave, Disconnect
      <3>2. \A t \in Sockets :
              IsRegistered(t)' <=> PlayerOf[t] # p /\ IsRegistered(t)
        BY <3>1, SocketAssumption DEF IsRegistered, Get, Without, Restrict
      <3>3. \A t \in Sockets : PlayerOf[t] = p /\ IsRegistered(t) => t = s
        BY <2>1 DEF IsRegistered
      <3>4. QED
        BY <2>1, <3>2, <3>3
    <2>2. CASE ~IsRegistered(s)
      <3>1. players' = players
        BY <2>2 DEF Leave, Disconnect, dictionaries
      <3>2. QED
        BY <2>2, <3>1 DEF IsRegistered
    <2>3. QED
      BY <2>1, <2>2
  <1>4. QED
    BY <1>1, <1>2, <1>3 DEF OneSessionPerPlayer

LEMMA CrashOneSession == Crash => OneSessionPerPlayer'
  BY SocketAssumption
  DEF Crash, Restart, OneSessionPerPlayer, IsRegistered, Get, Serving, Handling,
      AtDatabase, AtSockets

LEMMA SessionsNext == Types /\ OneSessionPerPlayer /\ [Next]_vars => OneSessionPerPlayer'
  <1> SUFFICES ASSUME Types, OneSessionPerPlayer, [Next]_vars
               PROVE  OneSessionPerPlayer'
    OBVIOUS
  <1>0. pc \in [Sockets -> Places]
    BY DEF Types, SessionTypes
  <1> USE DEF Serving, Handling, AtDatabase, AtSockets
  <1>1. CASE \E s \in Sockets : Join(s)
    BY <1>1, JoinOneSession
  <1>2. CASE \E s \in Sockets : Leave(s)
    BY <1>2, LeaveOneSession
  <1>3. CASE Crash
    BY <1>3, CrashOneSession
  <1>4. CASE \E s \in Sockets : Open(s)
    BY <1>4, <1>0, SessionsStay DEF Open, Goto, brokerVars
  <1>5. CASE \E s \in Sockets : LoadPlayer(s)
    BY <1>5, <1>0, SessionsStay DEF LoadPlayer, Goto, brokerVars
  <1>6. CASE \E s \in Sockets : Refuse(s)
    BY <1>6, <1>0, SessionsStay DEF Refuse, End, brokerVars, Startup
  <1>7. CASE \E s \in Sockets : Serve(s)
    BY <1>7, <1>0, SessionsStay DEF Serve, ReturnUnchanged, Return, brokerVars
  <1>8. CASE \E s \in Sockets : ClientLeaves(s)
    BY <1>8, <1>0, SessionsStay DEF ClientLeaves, brokerVars
  <1>9. CASE \E s \in Sockets : Hangup(s)
    BY <1>9, <1>0, SessionsStay DEF Hangup, Goto, brokerVars
  <1>10. CASE \E s \in Sockets : Quit(s)
    BY <1>10, <1>0, SessionsStay DEF Quit, Goto, CloseSocket, dictionaries
  <1>11. CASE \E s \in Sockets : Answer(s) \/ Look(s) \/ LookDone(s)
    BY <1>11, <1>0, SessionsStay
    DEF Answer, Look, LookDone, Goto, ReturnUnchanged, Return, brokerVars
  <1>12. CASE \E s \in Sockets : Say(s)
    BY <1>12, <1>0, SessionsStay DEF Say, Goto, PublishToRoom, dictionaries
  <1>13. CASE \E s \in Sockets : Shout(s)
    BY <1>13, <1>0, SessionsStay DEF Shout, Goto, PublishToAll, dictionaries
  <1>14. CASE \E s \in Sockets : ChatDone(s)
    BY <1>14, <1>0, SessionsStay DEF ChatDone, ReturnUnchanged, Return, brokerVars
  <1>15. CASE \E s \in Sockets : MoveUpdate(s)
    BY <1>15, <1>0, SessionsStay DEF MoveUpdate, Goto, brokerVars
  <1>16. CASE \E s \in Sockets : MoveEnter(s)
    BY <1>16, <1>0, SessionsStay DEF MoveEnter, Goto, brokerVars
  <1>17. CASE \E s \in Sockets : MoveDepart(s)
    BY <1>17, <1>0, SessionsStay DEF MoveDepart, Goto, MoveAndPublish, MoveTo
  <1>18. CASE \E s \in Sockets : MoveArrive(s)
    BY <1>18, <1>0, SessionsStay DEF MoveArrive, Goto, PublishToRoom, dictionaries
  <1>19. CASE \E s \in Sockets : MoveDone(s)
    BY <1>19, <1>0, SessionsStay DEF MoveDone, Return, brokerVars
  <1>20. CASE \E s \in Sockets : TakePull(s)
    BY <1>20, <1>0, SessionsStay DEF TakePull, ReturnUnchanged, Return, Goto,
      brokerVars
  <1>21. CASE \E s \in Sockets : TakePush(s)
    BY <1>21, <1>0, SessionsStay DEF TakePush, Goto, brokerVars
  <1>22. CASE \E s \in Sockets : TakeList(s)
    BY <1>22, <1>0, SessionsStay DEF TakeList, Goto, brokerVars
  <1>23. CASE \E s \in Sockets : TakeTell(s)
    BY <1>23, <1>0, SessionsStay DEF TakeTell, Goto, PublishToRoom, dictionaries
  <1>24. CASE \E s \in Sockets : TakeDone(s)
    BY <1>24, <1>0, SessionsStay DEF TakeDone, Return, brokerVars
  <1>25. CASE \E s \in Sockets : DropPull(s)
    BY <1>25, <1>0, SessionsStay DEF DropPull, ReturnUnchanged, Return, Goto,
      brokerVars
  <1>26. CASE \E s \in Sockets : DropPush(s)
    BY <1>26, <1>0, SessionsStay DEF DropPush, Goto, brokerVars
  <1>27. CASE \E s \in Sockets : DropList(s)
    BY <1>27, <1>0, SessionsStay DEF DropList, Goto, brokerVars
  <1>28. CASE \E s \in Sockets : DropTell(s)
    BY <1>28, <1>0, SessionsStay DEF DropTell, Goto, PublishToRoom, dictionaries
  <1>29. CASE \E s \in Sockets : DropDone(s)
    BY <1>29, <1>0, SessionsStay DEF DropDone, Return, brokerVars
  <1>30. CASE \E s \in Sockets : SendFails(s)
    BY <1>30, <1>0, SessionsStay DEF SendFails, brokerVars
  <1>31. CASE \E s \in Sockets : DbError(s)
    BY <1>31, <1>0, SessionsStay DEF DbError, ReturnUnchanged, Return, brokerVars
  <1>32. CASE \E s \in Sockets : Fanout(s)
    BY <1>32, <1>0, SessionsStay DEF Fanout, Deliver, dictionaries
  <1>33. CASE \E s \in Sockets, e \in Exits : MoveStart(s, e)
    BY <1>33, <1>0, SessionsStay DEF MoveStart, Goto, brokerVars
  <1>34. CASE \E s \in Sockets, i \in Items : TakeFind(s, i)
    BY <1>34, <1>0, SessionsStay DEF TakeFind, Goto, brokerVars
  <1>35. CASE \E s \in Sockets, i \in Items : DropFind(s, i)
    BY <1>35, <1>0, SessionsStay DEF DropFind, Goto, brokerVars
  <1>36. CASE UNCHANGED vars
    BY <1>36, SessionsStay DEF vars, brokerVars
  <1>37. CASE \E s \in Sockets : Welcome(s)
    BY <1>37, <1>0, SessionsStay DEF Welcome, Goto, brokerVars
  <1>38. QED
    BY <1>1, <1>2, <1>3, <1>4, <1>5, <1>6, <1>7, <1>8, <1>9, <1>10, <1>11, <1>12,
       <1>13, <1>14, <1>15, <1>16, <1>17, <1>18, <1>19, <1>20, <1>21, <1>22, <1>23,
       <1>24, <1>25, <1>26, <1>27, <1>28, <1>29, <1>30, <1>31, <1>32, <1>33, <1>34,
       <1>35, <1>36, <1>37
    DEF Next, Client, Progress, Starting, Chatting, Moving, Taking, Dropping

(***************************************************************************)
(* However sessions of a player overlap, displace each other, hang up or   *)
(* crash, at most one of them is open and serving, and it is the one the   *)
(* broker sends to; no socket outlives its session in the broker.          *)
(***************************************************************************)
THEOREM SessionsUnique == Spec => []OneSessionPerPlayer
  BY TypesAlways, SessionsInit, SessionsNext, PTL DEF Spec

-------------------------------------------------------------------------------
(* Nobody is told the news of its own doings.                              *)

Telling == {"move.depart", "move.arrive", "take.told", "drop.told"}
OnTheWay == {"move.update", "move.view", "move.sent", "move.depart", "move.arrive"}

\* OwnNewsOmitted alone is not inductive: the farewell leaves the mover out only
\* because the mover has another room by then.
OwnNewsInv ==
  /\ \A s \in Sockets : pc[s] \in OnTheWay => dest[s] # room[s]
  /\ OwnNewsOmitted

LEMMA OwnNewsInit == Init => OwnNewsInv
  BY DEF Init, OwnNewsInv, OwnNewsOmitted, OnTheWay

\* Steps that publish nothing about their player, and set out for nowhere.
LEMMA OwnNewsStay ==
  ASSUME OwnNewsInv,
         \A s \in Sockets :
           /\ pc'[s] \in OnTheWay =>
                pc[s] \in OnTheWay /\ dest'[s] = dest[s] /\ room'[s] = room[s]
           /\ pc'[s] \in Telling => pc[s] \in Telling /\ audience'[s] \subseteq audience[s]
  PROVE  OwnNewsInv'
  BY DEF OwnNewsInv, OwnNewsOmitted, Telling

\* A step of one session that publishes to a room its player is not in, or that
\* leaves its player out.
LEMMA OwnNewsTold ==
  ASSUME OwnNewsInv, NEW s \in Sockets, Types,
         \A t \in Sockets \ {s} : pc'[t] = pc[t] /\ audience'[t] = audience[t],
         UNCHANGED <<room, dest>>,
         pc'[s] \in OnTheWay => pc[s] \in OnTheWay,
         \A t \in audience'[s] : PlayerOf[t] # PlayerOf[s]
  PROVE  OwnNewsInv'
  BY DEF OwnNewsInv, OwnNewsOmitted

\* The connections of a snapshot are those of the players it was taken of.
LEMMA SnapshotPlayers ==
  ASSUME BrokerTypeOK, NEW index, NEW r, NEW excluded,
         NEW t \in RoomSockets(index, r, excluded)
  PROVE  PlayerOf[t] \in Get(index, r, {}) \ excluded
  BY DEF BrokerTypeOK, RoomSockets

LEMMA DepartNews ==
  ASSUME Types, BrokerTypeOK, RoomIndex, BrokerTypeOK', RoomIndex', OwnNewsInv,
         NEW s \in Sockets, MoveDepart(s)
  PROVE  OwnNewsInv'
  <1> DEFINE p == PlayerOf[s]
  <1>1. /\ pc[s] = "move.sent" /\ pc' = [pc EXCEPT ![s] = "move.depart"]
        /\ UNCHANGED <<room, dest>>
        /\ MoveTo(p, dest[s])
        /\ audience' = [audience EXCEPT ![s] = RoomSockets(roomMembers', room[s], {})]
    BY DEF MoveDepart, Goto, locals, MoveAndPublish
  <1>2. room[s] \in Rooms /\ dest[s] \in Rooms /\ dest[s] # room[s]
    BY <1>1 DEF Types, SessionTypes, OwnNewsInv, OnTheWay, Serving, Handling, AtSockets
  <1>3. audience \in [Publishers -> SUBSET Sockets] /\ s \in Publishers
    BY SessionAssumption DEF BrokerTypeOK
  <1>4. Get(playerRooms', p, NoRoom) = dest[s]
    BY <1>1, PutGet DEF MoveTo
  <1>5. p \in DOMAIN playerRooms' /\ playerRooms'[p] = dest[s]
    BY <1>2, <1>4, RoomAssumption DEF Get
  <1>6. p \notin Get(roomMembers', room[s], {})
    BY <1>2, <1>5 DEF RoomIndex
  <1>7. audience'[s] = RoomSockets(roomMembers', room[s], {})
    BY <1>1, <1>3
  <1>8. ASSUME NEW t \in audience'[s]
        PROVE  PlayerOf[t] # p
    <2>1. players' = players
      BY <1>1 DEF MoveTo
    <2>2. PlayerOf[t] \in Get(roomMembers', room[s], {})
      BY <1>7, <1>8, SnapshotPlayers
    <2>3. QED
      BY <1>6, <2>2
  <1>9. \A t \in Sockets \ {s} : pc'[t] = pc[t] /\ audience'[t] = audience[t]
    BY <1>1, <1>3, SessionAssumption DEF Types, SessionTypes
  <1>10. QED
    BY <1>1, <1>8, <1>9, OwnNewsTold DEF OnTheWay

\* Arrivals, takes and drops leave the player out by name.
LEMMA ExcludedNews ==
  ASSUME Types, BrokerTypeOK, OwnNewsInv,
         NEW s \in Sockets, NEW r, NEW state,
         pc' = [pc EXCEPT ![s] = state],
         state \in OnTheWay => pc[s] \in OnTheWay,
         UNCHANGED locals, PublishToRoom(s, r, {PlayerOf[s]})
  PROVE  OwnNewsInv'
  <1>1. audience \in [Publishers -> SUBSET Sockets] /\ Sockets \subseteq Publishers
    BY SessionAssumption DEF BrokerTypeOK
  <1>2. audience' = [audience EXCEPT ![s] = RoomSockets(roomMembers, r, {PlayerOf[s]})]
    BY DEF PublishToRoom
  <1>3. \A t \in audience'[s] : PlayerOf[t] # PlayerOf[s]
    BY <1>1, <1>2, SnapshotPlayers
  <1>4. \A t \in Sockets \ {s} : pc'[t] = pc[t] /\ audience'[t] = audience[t]
    BY <1>1, <1>2 DEF Types, SessionTypes
  <1>5. pc'[s] \in OnTheWay => pc[s] \in OnTheWay
    BY DEF Types, SessionTypes
  <1>6. QED
    BY <1>3, <1>4, <1>5, OwnNewsTold DEF locals

\* A move sets out for another room than the one it starts from.
LEMMA SetOut ==
  ASSUME Types, OwnNewsInv, NEW s \in Sockets, NEW e \in Exits, MoveStart(s, e)
  PROVE  OwnNewsInv'
  <1>1. /\ pc' = [pc EXCEPT ![s] = "move.update"]
        /\ dest' = [dest EXCEPT ![s] = e.to] /\ e.to # room[s]
        /\ UNCHANGED <<room, audience>>
    BY NoLoopAssumption DEF MoveStart, Goto, Passable, brokerVars
  <1>2. QED
    BY <1>1 DEF OwnNewsInv, OwnNewsOmitted, OnTheWay, Types, SessionTypes

LEMMA OwnNewsNext ==
  Types /\ BrokerTypeOK /\ RoomIndex /\ BrokerTypeOK' /\ RoomIndex' /\ OwnNewsInv
    /\ [Next]_vars => OwnNewsInv'
  <1> SUFFICES ASSUME Types, BrokerTypeOK, RoomIndex, BrokerTypeOK', RoomIndex',
                      OwnNewsInv, [Next]_vars
               PROVE  OwnNewsInv'
    OBVIOUS
  <1>0. /\ pc \in [Sockets -> Places]
        /\ dest \in [Sockets -> Rooms \cup {NoRoom}]
        /\ room \in [Sockets -> Rooms \cup {NoRoom}]
        /\ audience \in [Publishers -> SUBSET Sockets] /\ Sockets \subseteq Publishers
    BY SessionAssumption DEF Types, SessionTypes, BrokerTypeOK
  <1> USE DEF OnTheWay, Telling
  <1>1. CASE \E s \in Sockets : MoveDepart(s)
    BY <1>1, DepartNews
  <1>2. CASE \E s \in Sockets : MoveArrive(s)
    BY <1>2, ExcludedNews DEF MoveArrive, Goto
  <1>3. CASE \E s \in Sockets : TakeTell(s)
    BY <1>3, ExcludedNews DEF TakeTell, Goto
  <1>4. CASE \E s \in Sockets : DropTell(s)
    BY <1>4, ExcludedNews DEF DropTell, Goto
  <1>5. CASE \E s \in Sockets, e \in Exits : MoveStart(s, e)
    BY <1>5, SetOut
  <1>6. CASE \E s \in Sockets : Open(s)
    BY <1>6, <1>0, OwnNewsStay DEF Open, Goto, locals, brokerVars
  <1>7. CASE \E s \in Sockets : LoadPlayer(s)
    BY <1>7, <1>0, OwnNewsStay DEF LoadPlayer, Goto, brokerVars
  <1>8. CASE \E s \in Sockets : Welcome(s)
    BY <1>8, <1>0, OwnNewsStay DEF Welcome, Goto, locals, brokerVars
  <1>9. CASE \E s \in Sockets : Refuse(s)
    BY <1>9, <1>0, OwnNewsStay DEF Refuse, End, brokerVars
  <1>10. CASE \E s \in Sockets : Join(s)
    BY <1>10, <1>0, OwnNewsStay DEF Join, Goto, locals, Connect
  <1>11. CASE \E s \in Sockets : Serve(s)
    BY <1>11, <1>0, OwnNewsStay DEF Serve, ReturnUnchanged, Return, brokerVars
  <1>12. CASE \E s \in Sockets : ClientLeaves(s)
    BY <1>12, <1>0, OwnNewsStay DEF ClientLeaves, locals, brokerVars
  <1>13. CASE \E s \in Sockets : Hangup(s)
    BY <1>13, <1>0, OwnNewsStay DEF Hangup, Goto, locals, brokerVars
  <1>14. CASE \E s \in Sockets : Quit(s)
    BY <1>14, <1>0, OwnNewsStay DEF Quit, Goto, locals, CloseSocket
  <1>15. CASE \E s \in Sockets : Leave(s)
    BY <1>15, <1>0, OwnNewsStay DEF Leave, End, Disconnect
  <1>16. CASE \E s \in Sockets : Answer(s) \/ Look(s) \/ LookDone(s)
    BY <1>16, <1>0, OwnNewsStay
    DEF Answer, Look, LookDone, Goto, ReturnUnchanged, Return, locals, brokerVars
  <1>17. CASE \E s \in Sockets : Say(s)
    BY <1>17, <1>0, OwnNewsStay DEF Say, Goto, locals, PublishToRoom
  <1>18. CASE \E s \in Sockets : Shout(s)
    BY <1>18, <1>0, OwnNewsStay DEF Shout, Goto, locals, PublishToAll
  <1>19. CASE \E s \in Sockets : ChatDone(s)
    BY <1>19, <1>0, OwnNewsStay DEF ChatDone, ReturnUnchanged, Return, brokerVars
  <1>20. CASE \E s \in Sockets : MoveUpdate(s)
    BY <1>20, <1>0, OwnNewsStay DEF MoveUpdate, Goto, locals, brokerVars
  <1>21. CASE \E s \in Sockets : MoveEnter(s)
    BY <1>21, <1>0, OwnNewsStay DEF MoveEnter, Goto, locals, brokerVars
  <1>22. CASE \E s \in Sockets : MoveDone(s)
    BY <1>22, <1>0, OwnNewsStay DEF MoveDone, Return, brokerVars
  <1>23. CASE \E s \in Sockets : TakePull(s)
    BY <1>23, <1>0, OwnNewsStay DEF TakePull, ReturnUnchanged, Return, Goto, locals, brokerVars
  <1>24. CASE \E s \in Sockets : TakePush(s)
    BY <1>24, <1>0, OwnNewsStay DEF TakePush, Goto, locals, brokerVars
  <1>25. CASE \E s \in Sockets : TakeList(s)
    BY <1>25, <1>0, OwnNewsStay DEF TakeList, Goto, locals, brokerVars
  <1>26. CASE \E s \in Sockets : TakeDone(s)
    BY <1>26, <1>0, OwnNewsStay DEF TakeDone, Return, brokerVars
  <1>27. CASE \E s \in Sockets : DropPull(s)
    BY <1>27, <1>0, OwnNewsStay DEF DropPull, ReturnUnchanged, Return, Goto, locals, brokerVars
  <1>28. CASE \E s \in Sockets : DropPush(s)
    BY <1>28, <1>0, OwnNewsStay DEF DropPush, Goto, locals, brokerVars
  <1>29. CASE \E s \in Sockets : DropList(s)
    BY <1>29, <1>0, OwnNewsStay DEF DropList, Goto, locals, brokerVars
  <1>30. CASE \E s \in Sockets : DropDone(s)
    BY <1>30, <1>0, OwnNewsStay DEF DropDone, Return, brokerVars
  <1>31. CASE \E s \in Sockets : SendFails(s)
    BY <1>31, <1>0, OwnNewsStay DEF SendFails, locals, brokerVars
  <1>32. CASE \E s \in Sockets : DbError(s)
    BY <1>32, <1>0, OwnNewsStay DEF DbError, ReturnUnchanged, Return, brokerVars
  <1>33. CASE \E s \in Sockets : Fanout(s)
    BY <1>33, <1>0, OwnNewsStay DEF Fanout, locals, Deliver
  <1>34. CASE \E s \in Sockets, i \in Items : TakeFind(s, i)
    BY <1>34, <1>0, OwnNewsStay DEF TakeFind, Goto, brokerVars
  <1>35. CASE \E s \in Sockets, i \in Items : DropFind(s, i)
    BY <1>35, <1>0, OwnNewsStay DEF DropFind, Goto, brokerVars
  <1>36. CASE Crash
    BY <1>36, <1>0, OwnNewsStay DEF Crash
  <1>37. CASE UNCHANGED vars
    BY <1>37, OwnNewsStay DEF vars, locals, brokerVars
  <1>38. QED
    BY <1>1, <1>2, <1>3, <1>4, <1>5, <1>6, <1>7, <1>8, <1>9, <1>10, <1>11, <1>12,
       <1>13, <1>14, <1>15, <1>16, <1>17, <1>18, <1>19, <1>20, <1>21, <1>22, <1>23, <1>24,
       <1>25, <1>26, <1>27, <1>28, <1>29, <1>30, <1>31, <1>32, <1>33, <1>34, <1>35, <1>36,
       <1>37
    DEF Next, Client, Progress, Starting, Chatting, Moving, Taking, Dropping

(***************************************************************************)
(* Whatever overlaps, fails or is overtaken, the news of a move, a take or *)
(* a drop is sent to no connection of the player who did it.               *)
(***************************************************************************)
THEOREM OwnNewsNeverSent == Spec => []OwnNewsOmitted
  <1>1. Spec => [](BrokerTypeOK /\ RoomIndex)
    BY GameServerRunsBroker, BrokerSafe, PTL DEF ImplementsBroker
  <1>2. OwnNewsInv => OwnNewsOmitted
    BY DEF OwnNewsInv
  <1>3. QED
    BY <1>1, <1>2, TypesAlways, OwnNewsInit, OwnNewsNext, PTL DEF Spec

-------------------------------------------------------------------------------
(* No item is lost by a server that does not fail.                          *)

Hands == {"take.push", "drop.push"}

\* What is in whose hand does not change.
HandsStill ==
  \A s \in Sockets : pc[s] \in Hands \/ pc'[s] \in Hands =>
    pc'[s] = pc[s] /\ item'[s] = item[s] /\ room'[s] = room[s]

\* A step of whatever else the server does between writes to the documents.
Quiet ==
  /\ UNCHANGED <<database, faults>> /\ HandsStill
  /\ \A s \in Sockets :
       /\ pc'[s] = "chat" => pc[s] = "chat"
       /\ pc'[s] = "take.pull" =>
            \/ item'[s] \notin Fixtures
            \/ pc[s] = "take.pull" /\ item'[s] = item[s]

LEMMA QuietSteps ==
  ASSUME Types, NEW s \in Sockets,
         \/ Open(s) \/ Join(s) \/ Leave(s) \/ MoveDepart(s)
         \/ LoadPlayer(s) \/ Welcome(s) \/ Refuse(s) \/ Serve(s) \/ ClientLeaves(s)
         \/ Hangup(s) \/ Quit(s) \/ Answer(s) \/ Look(s) \/ LookDone(s) \/ ChatDone(s)
         \/ MoveEnter(s) \/ MoveArrive(s) \/ MoveDone(s)
         \/ TakeList(s) \/ TakeTell(s) \/ TakeDone(s)
         \/ DropList(s) \/ DropTell(s) \/ DropDone(s)
         \/ SendFails(s) \/ Fanout(s)
         \/ \E e \in Exits : MoveStart(s, e)
         \/ \E i \in Items : TakeFind(s, i)
         \/ \E i \in Items : DropFind(s, i)
  PROVE  Quiet
  <1>0. /\ pc \in [Sockets -> Places] /\ item \in [Sockets -> Items \cup {NoItem}]
        /\ room \in [Sockets -> Rooms \cup {NoRoom}]
    BY DEF Types, SessionTypes
  <1> USE DEF Quiet, HandsStill, Hands, Startup
  <1>1. CASE Open(s) \/ Join(s) \/ MoveDepart(s) \/ Welcome(s)
    BY <1>0, <1>1 DEF Open, Join, MoveDepart, Welcome, Goto, locals
  <1>2. CASE Leave(s) \/ Refuse(s)
    BY <1>0, <1>2 DEF Leave, Refuse, End
  <1>3. CASE LoadPlayer(s)
    BY <1>0, <1>3 DEF LoadPlayer, Goto
  <1>4. CASE Serve(s) \/ Answer(s) \/ Look(s) \/ LookDone(s) \/ ChatDone(s)
    BY <1>0, <1>4
    DEF Serve, Answer, Look, LookDone, ChatDone, Goto, ReturnUnchanged, Return, locals
  <1>5. CASE MoveDone(s) \/ TakeDone(s) \/ DropDone(s)
    BY <1>0, <1>5 DEF MoveDone, TakeDone, DropDone, Return
  <1>6. CASE Hangup(s) \/ Quit(s)
    BY <1>0, <1>6 DEF Hangup, Quit, Goto, locals
  <1>7. CASE MoveEnter(s) \/ MoveArrive(s)
    BY <1>0, <1>7 DEF MoveEnter, MoveArrive, Goto, locals
  <1>8. CASE TakeList(s) \/ TakeTell(s) \/ DropList(s) \/ DropTell(s)
    BY <1>0, <1>8 DEF TakeList, TakeTell, DropList, DropTell, Goto, locals
  <1>9. CASE ClientLeaves(s) \/ Fanout(s)
    BY <1>0, <1>9 DEF ClientLeaves, Fanout, locals
  <1>10. CASE SendFails(s)
    BY <1>0, <1>10 DEF SendFails, locals
  <1>11. CASE \E e \in Exits : MoveStart(s, e)
    <2>1. PICK e \in Exits : MoveStart(s, e)
      BY <1>11
    <2>2. QED
      BY <1>0, <2>1 DEF MoveStart, Goto
  <1>12. CASE \E i \in Items : TakeFind(s, i) \/ DropFind(s, i)
    <2>1. PICK i \in Items : TakeFind(s, i) \/ DropFind(s, i)
      BY <1>12
    <2>2. QED
      BY <1>0, <2>1 DEF TakeFind, DropFind, Goto
  <1>13. QED
    BY <1>1, <1>2, <1>3, <1>4, <1>5, <1>6, <1>7, <1>8, <1>9, <1>10, <1>11, <1>12

\* The steps that matter to the game, and the others.
LEMMA StepKinds ==
  ASSUME Types, [Next]_vars
  PROVE  \/ Quiet
         \/ Crash \/ \E s \in Sockets : DbError(s)
         \/ \E s \in Sockets : \/ MoveUpdate(s) \/ TakePull(s) \/ TakePush(s)
                               \/ DropPull(s) \/ DropPush(s)
                               \/ Say(s) \/ Shout(s)
  <1>1. CASE \E s \in Sockets : DbError(s)
    BY <1>1
  <1>2. CASE Crash
    BY <1>2
  <1>3. CASE UNCHANGED vars
    BY <1>3 DEF vars, locals, Quiet, HandsStill
  <1>4. CASE \E s \in Sockets : Client(s) \/ Progress(s) \/ Hangup(s)
    BY <1>4, QuietSteps
    DEF Client, Progress, Starting, Chatting, Moving, Taking, Dropping
  <1>5. QED
    BY <1>1, <1>2, <1>3, <1>4 DEF Next

-------------------------------------------------------------------------------
(* Nothing is lost.                                                        *)

Somewhere(i) ==
  \/ \E r \in Rooms : Has(itemIds[r], i)
  \/ \E p \in Players : Has(inventoryItemIds[p], i)
  \/ \E s \in Sockets : InHand(s, i)

\* That a fixture stays where it was rests on what a take has looked at before.
Kept ==
  faults = 0 =>
    /\ \A i \in Items : Somewhere(i)
    /\ \A i \in Fixtures : Has(itemIds[SeedRoom[i]], i)
    /\ \A s \in Sockets : pc[s] = "take.pull" => item[s] \notin Fixtures

LEMMA KeptInit == Init => Kept
  <1> SUFFICES ASSUME Init
               PROVE  Kept
    OBVIOUS
  <1>1. \A i \in Items : SeedRoom[i] \in Rooms /\ Has(itemIds[SeedRoom[i]], i)
    BY WorldAssumption DEF Init, Has
  <1>2. \A s \in Sockets : pc[s] # "take.pull"
    BY DEF Init
  <1>3. QED
    BY <1>1, <1>2, ItemAssumption DEF Kept, Somewhere

\* Steps that leave each thing somewhere, and each fixture where it is.
LEMMA KeptStep ==
  ASSUME Kept, UNCHANGED faults,
         \A i \in Items : Somewhere(i) => Somewhere(i)',
         \A i \in Fixtures :
           Has(itemIds[SeedRoom[i]], i) => Has(itemIds[SeedRoom[i]], i)',
         \A s \in Sockets : pc'[s] = "take.pull" =>
           \/ item'[s] \notin Fixtures
           \/ pc[s] = "take.pull" /\ item'[s] = item[s]
  PROVE  Kept'
  BY DEF Kept

\* Steps that change neither documents nor hands.
LEMMA KeptStill ==
  ASSUME Kept, HandsStill, UNCHANGED <<faults, inventoryItemIds, itemIds>>,
         \A s \in Sockets : pc'[s] = "take.pull" =>
           \/ item'[s] \notin Fixtures
           \/ pc[s] = "take.pull" /\ item'[s] = item[s]
  PROVE  Kept'
  <1>1. \A i \in Items : Somewhere(i) => Somewhere(i)'
    BY DEF Somewhere, InHand, HandsStill, Hands
  <1>2. QED
    BY <1>1, KeptStep

\* A conditional $pull moves a thing from a document into a hand.
LEMMA KeptPull ==
  ASSUME Types, Kept, NEW s \in Sockets, TakePull(s) \/ DropPull(s)
  PROVE  Kept'
  <1> DEFINE p == PlayerOf[s]
  <1>1. /\ item[s] \in Items /\ room[s] \in Rooms /\ p \in Players
        /\ pc[s] \in {"take.pull", "drop.pull"} /\ UNCHANGED faults
    BY SocketAssumption
    DEF TakePull, DropPull, Types, SessionTypes, Serving, Handling, AtDatabase
  <1>2. CASE ReturnUnchanged(s) /\ UNCHANGED database
    <2>1. /\ HandsStill
          /\ \A t \in Sockets : pc'[t] = "take.pull" =>
               pc[t] = "take.pull" /\ item'[t] = item[t]
      BY <1>1, <1>2
      DEF HandsStill, Hands, ReturnUnchanged, Return, Types, SessionTypes
    <2>2. QED
      BY <1>1, <1>2, <2>1, KeptStill DEF database
  <1>3. CASE TakePull(s) /\ Has(itemIds[room[s]], item[s])
    <2>1. /\ pc[s] = "take.pull" /\ pc' = [pc EXCEPT ![s] = "take.push"]
          /\ itemIds' = [itemIds EXCEPT ![room[s]] = Pull(itemIds[room[s]], item[s])]
          /\ UNCHANGED <<locals, inventoryItemIds>>
      BY <1>3 DEF TakePull, Goto, Modified
    <2>2. \A r \in Rooms, i \in Items \ {item[s]} : Has(itemIds'[r], i) <=> Has(itemIds[r], i)
      BY <1>1, <2>1 DEF Types, DocumentTypes, Pull, Has
    <2>3. \A i \in Items : InHand(s, i)' <=> i = item[s]
      BY <2>1 DEF InHand, Types, SessionTypes, locals
    <2>4. \A t \in Sockets, i \in Items : InHand(t, i) => InHand(t, i)'
      BY <2>1 DEF InHand, Types, SessionTypes, locals
    <2>5. \A i \in Items : Somewhere(i) => Somewhere(i)'
      BY <2>1, <2>2, <2>3, <2>4 DEF Somewhere
    <2>6. \A t \in Sockets : pc'[t] = "take.pull" =>
            pc[t] = "take.pull" /\ item'[t] = item[t]
      BY <2>1 DEF Types, SessionTypes, locals
    <2>7. faults = 0 => item[s] \notin Fixtures
      BY <2>1 DEF Kept
    <2>8. QED
      BY <1>1, <2>2, <2>5, <2>6, <2>7, ItemAssumption, WorldAssumption DEF Kept
  <1>4. CASE DropPull(s) /\ Has(inventoryItemIds[p], item[s])
    <2>1. /\ pc[s] = "drop.pull" /\ pc' = [pc EXCEPT ![s] = "drop.push"]
          /\ inventoryItemIds' =
               [inventoryItemIds EXCEPT ![p] = Pull(inventoryItemIds[p], item[s])]
          /\ UNCHANGED <<locals, itemIds>>
      BY <1>4 DEF DropPull, Goto, Modified
    <2>2. \A q \in Players, i \in Items \ {item[s]} :
            Has(inventoryItemIds'[q], i) <=> Has(inventoryItemIds[q], i)
      BY <1>1, <2>1 DEF Types, DocumentTypes, Pull, Has
    <2>3. \A i \in Items : InHand(s, i)' <=> i = item[s]
      BY <2>1 DEF InHand, Types, SessionTypes, locals
    <2>4. \A t \in Sockets, i \in Items : InHand(t, i) => InHand(t, i)'
      BY <2>1 DEF InHand, Types, SessionTypes, locals
    <2>5. \A i \in Items : Somewhere(i) => Somewhere(i)'
      BY <2>1, <2>2, <2>3, <2>4 DEF Somewhere
    <2>6. \A t \in Sockets : pc'[t] = "take.pull" =>
            pc[t] = "take.pull" /\ item'[t] = item[t]
      BY <2>1 DEF Types, SessionTypes, locals
    <2>7. QED
      BY <1>1, <2>1, <2>5, <2>6, KeptStep
  <1>5. QED
    BY <1>2, <1>3, <1>4 DEF TakePull, DropPull, Modified, database

\* A $push puts it down.
LEMMA KeptPush ==
  ASSUME Types, Kept, NEW s \in Sockets, TakePush(s) \/ DropPush(s)
  PROVE  Kept'
  <1> DEFINE p == PlayerOf[s]
  <1>1. /\ item[s] \in Items /\ room[s] \in Rooms /\ p \in Players
        /\ pc[s] \in Hands /\ UNCHANGED <<item, faults>>
    BY SocketAssumption
    DEF TakePush, DropPush, Goto, Types, SessionTypes, Serving, Handling, AtDatabase,
        Hands, locals
  <1>2. PICK state : state \in {"take.list", "drop.list"} /\ pc' = [pc EXCEPT ![s] = state]
    BY DEF TakePush, DropPush, Goto
  <1>3. \A t \in Sockets, i \in Items : InHand(t, i)' <=> InHand(t, i) /\ t # s
    BY <1>1, <1>2 DEF InHand, Hands, Types, SessionTypes
  <1>4. /\ \A r \in Rooms, i \in Items : Has(itemIds[r], i) => Has(itemIds'[r], i)
        /\ \A q \in Players, i \in Items :
             Has(inventoryItemIds[q], i) => Has(inventoryItemIds'[q], i)
        /\ Has(itemIds'[room[s]], item[s]) \/ Has(inventoryItemIds'[p], item[s])
    <2>1. CASE TakePush(s)
      BY <1>1, <2>1 DEF TakePush, Push, Has, Types, DocumentTypes
    <2>2. CASE DropPush(s)
      BY <1>1, <2>2 DEF DropPush, Push, Has, Types, DocumentTypes
    <2>3. QED
      BY <2>1, <2>2
  <1>5. \A i \in Items : Somewhere(i) => Somewhere(i)'
    BY <1>1, <1>3, <1>4 DEF Somewhere, InHand
  <1>6. \A t \in Sockets : pc'[t] = "take.pull" =>
          pc[t] = "take.pull" /\ item'[t] = item[t]
    BY <1>1, <1>2 DEF Types, SessionTypes
  <1>7. QED
    BY <1>1, <1>4, <1>5, <1>6, KeptStep, ItemAssumption, WorldAssumption

LEMMA KeptNext ==
  ASSUME Types, Kept, [Next]_vars
  PROVE  Kept'
  <1>1. CASE Quiet
    BY <1>1, KeptStill DEF Quiet, database
  <1>2. CASE Crash \/ \E s \in Sockets : DbError(s)
    BY <1>2 DEF Crash, DbError, Types, Kept
  <1>3. CASE \E s \in Sockets : TakePull(s) \/ DropPull(s)
    BY <1>3, KeptPull
  <1>4. CASE \E s \in Sockets : TakePush(s) \/ DropPush(s)
    BY <1>4, KeptPush
  <1>5. CASE \E s \in Sockets : MoveUpdate(s) \/ Say(s) \/ Shout(s)
    <2>1. PICK s \in Sockets : MoveUpdate(s) \/ Say(s) \/ Shout(s)
      BY <1>5
    <2>2. /\ HandsStill /\ UNCHANGED <<faults, inventoryItemIds, itemIds>>
          /\ \A t \in Sockets : pc'[t] = "take.pull" =>
               pc[t] = "take.pull" /\ item'[t] = item[t]
      BY <2>1
      DEF MoveUpdate, Say, Shout, Goto, locals, database, HandsStill, Hands, Types,
          SessionTypes
    <2>3. QED
      BY <2>2, KeptStill
  <1>6. QED
    BY <1>1, <1>2, <1>3, <1>4, <1>5, StepKinds

(***************************************************************************)
(* Without a failure between the two writes of a take or a drop, whatever  *)
(* other sessions do in between, no item is lost and fixtures stay put.    *)
(***************************************************************************)
THEOREM ItemsNeverLost == Spec => []NoItemLost
  <1>1. Kept => NoItemLost
    <2>1. ASSUME NEW i \in Items, Kept, faults = 0
          PROVE  Somewhere(i) /\ (i \in Fixtures => Has(itemIds[SeedRoom[i]], i))
      BY <2>1 DEF Kept
    <2>2. QED
      BY <2>1 DEF NoItemLost, Somewhere
  <1>2. QED
    BY <1>1, TypesAlways, KeptInit, KeptNext, PTL DEF Spec
===============================================================================
