--------------------------- MODULE NodeBrokerProofs ---------------------------
(***************************************************************************)
(* For every set of players, rooms, connections and broadcasts: the Node   *)
(* port behaves as the Python broker, whose theorems it inherits.          *)
(***************************************************************************)
EXTENDS NodeBroker, TLAPS

\* What a fan-out still awaits in Python is in the buffers here.
Awaited == [b \in Broadcasts |-> {s \in Sockets : b \in buffer[s]}]

Proofs == INSTANCE BrokerProofs WITH Publishers <- Broadcasts, audience <- Awaited

Buffers == buffer \in [Sockets -> SUBSET Broadcasts]
NodeInv == Proofs!BrokerInv /\ Buffers

-------------------------------------------------------------------------------
LEMMA NodeStarts == NodeInit => Proofs!BrokerInit /\ Buffers
  BY DEF NodeInit, Proofs!BrokerInit, Buffers, Awaited

\* Both modules have the same dictionaries.
LEMMA SameDictionaries ==
  /\ \A f, k, v : Proofs!Put(f, k, v) = Put(f, k, v)
  /\ \A f, k : Proofs!Without(f, k) = Without(f, k)
  /\ \A f, k, d : Proofs!Get(f, k, d) = Get(f, k, d)
  /\ \A members, r, p : Proofs!RemoveFromRoom(members, r, p) = RemoveFromRoom(members, r, p)
  /\ \A members, r, p : Proofs!AddToRoom(members, r, p) = AddToRoom(members, r, p)
  <1>1. \A f, k, v : Proofs!Put(f, k, v) = Put(f, k, v)
    BY DEF Proofs!Put, Put
  <1>2. \A f, k : Proofs!Without(f, k) = Without(f, k)
    BY DEF Proofs!Without, Proofs!Restrict, Without, Restrict
  <1>3. \A f, k, d : Proofs!Get(f, k, d) = Get(f, k, d)
    BY DEF Proofs!Get, Get
  <1>4. \A members, r, p : Proofs!RemoveFromRoom(members, r, p) = RemoveFromRoom(members, r, p)
    BY <1>1, <1>2, <1>3 DEF Proofs!RemoveFromRoom, RemoveFromRoom
  <1>5. \A members, r, p : Proofs!AddToRoom(members, r, p) = AddToRoom(members, r, p)
    BY <1>1, <1>3 DEF Proofs!AddToRoom, AddToRoom
  <1>6. QED
    BY <1>1, <1>2, <1>3, <1>4, <1>5

LEMMA SameMoved ==
  ASSUME NEW p, NEW r
  PROVE  Proofs!AddToRoom(Proofs!Vacated(p, r), r, p) = Moved(p, r)
  <1>1. Proofs!Vacated(p, r) = IF Get(playerRooms, p, NoRoom) \in {NoRoom, r} THEN roomMembers
                               ELSE RemoveFromRoom(roomMembers, Get(playerRooms, p, NoRoom), p)
    BY SameDictionaries DEF Proofs!Vacated
  <1>2. QED
    BY <1>1, SameDictionaries DEF Moved

\* The calls that only change the maps.
LEMMA MapsStep ==
  ASSUME NodeInv,
         \/ \E s \in Sockets, r \in Rooms : connect(s, r)
         \/ \E s \in Sockets : disconnect(s)
         \/ \E p \in Players, r \in Rooms : move(p, r)
  PROVE  Proofs!BrokerNext /\ Buffers'
  <1>1. CASE \E s \in Sockets, r \in Rooms : connect(s, r)
    <2>1. PICK s \in Sockets, r \in Rooms : connect(s, r)
      BY <1>1
    <2>2. Proofs!Connect(s, r)
      BY <2>1, SameDictionaries, SameMoved
      DEF connect, displaced, Proofs!Connect, Proofs!Displaced, Awaited
    <2>3. QED
      BY <2>1, <2>2 DEF connect, Proofs!BrokerNext, NodeInv, Buffers
  <1>2. CASE \E s \in Sockets : disconnect(s)
    <2>1. PICK s \in Sockets : disconnect(s)
      BY <1>2
    <2>2. Proofs!Disconnect(s)
      BY <2>1, SameDictionaries
      DEF disconnect, Proofs!Disconnect, Proofs!IsRegistered, Awaited
    <2>3. QED
      BY <2>1, <2>2 DEF disconnect, Proofs!BrokerNext, NodeInv, Buffers
  <1>3. CASE \E p \in Players, r \in Rooms : move(p, r)
    <2>1. PICK p \in Players, r \in Rooms : move(p, r)
      BY <1>3
    <2>2. Proofs!Move(p, r)
      BY <2>1, SameDictionaries, SameMoved DEF move, Proofs!Move, Proofs!MoveTo, Awaited
    <2>3. QED
      BY <2>1, <2>2 DEF move, Proofs!BrokerNext, NodeInv, Buffers
  <1>4. QED
    BY <1>1, <1>2, <1>3

\* A broadcast is put into the buffers of its audience, all at once.
LEMMA FanOutStep ==
  ASSUME Buffers, NEW b \in Broadcasts, NEW sockets \in SUBSET Sockets, fanOut(b, sockets)
  PROVE  /\ Buffers'
         /\ Awaited[b] = {} /\ Awaited' = [Awaited EXCEPT ![b] = sockets]
         /\ UNCHANGED <<players, playerRooms, roomMembers, closed>>
  <1>1. \A s \in Sockets :
          buffer'[s] = IF s \in sockets THEN buffer[s] \cup {b} ELSE buffer[s]
    BY DEF fanOut
  <1>2. Buffers'
    BY DEF fanOut, Buffers
  <1>3. Awaited[b] = {} /\ {s \in Sockets : b \in buffer'[s]} = sockets
    BY <1>1 DEF fanOut, Awaited
  <1>4. ASSUME NEW a \in Broadcasts, a # b
        PROVE  {s \in Sockets : a \in buffer'[s]} = {s \in Sockets : a \in buffer[s]}
    BY <1>1, <1>4
  <1>5. Awaited' = [a \in Broadcasts |-> IF a = b THEN sockets ELSE Awaited[a]]
    BY <1>3, <1>4 DEF Awaited
  <1>6. QED
    BY <1>2, <1>3, <1>5 DEF fanOut, maps, Awaited

LEMMA PublishStep ==
  ASSUME NodeInv, NEW b \in Broadcasts,
         \/ publishToAll(b)
         \/ \E r \in Rooms, excluded \in {{}} \cup {{p} : p \in Players} :
              publishToRoom(b, r, excluded)
  PROVE  Proofs!BrokerNext /\ Buffers'
  <1>0. players \in [DOMAIN players -> Sockets] /\ Buffers
    BY DEF NodeInv, Proofs!BrokerInv, Proofs!BrokerTypeOK
  <1>1. CASE publishToAll(b)
    <2>1. Range(players) \in SUBSET Sockets /\ Proofs!Range(players) = Range(players)
      BY <1>0 DEF Range, Proofs!Range
    <2>2. Proofs!PublishToAll(b) /\ Buffers'
      BY <1>0, <1>1, <2>1, FanOutStep
      DEF publishToAll, Proofs!PublishToAll, Proofs!dictionaries
    <2>3. QED
      BY <2>2 DEF Proofs!BrokerNext
  <1>2. CASE \E r \in Rooms, excluded \in {{}} \cup {{p} : p \in Players} :
               publishToRoom(b, r, excluded)
    <2>1. PICK r \in Rooms, excluded \in SUBSET Players : publishToRoom(b, r, excluded)
      BY <1>2
    <2>2. /\ audienceOf(r, excluded) \in SUBSET Sockets
          /\ audienceOf(r, excluded) = Proofs!RoomSockets(roomMembers, r, excluded)
      BY <1>0, SameDictionaries DEF audienceOf, Proofs!RoomSockets
    <2>3. Proofs!PublishToRoom(b, r, excluded) /\ Buffers'
      BY <1>0, <2>1, <2>2, FanOutStep
      DEF publishToRoom, Proofs!PublishToRoom, Proofs!dictionaries
    <2>4. QED
      BY <2>1, <2>3 DEF Proofs!BrokerNext
  <1>3. QED
    BY <1>1, <1>2

\* What ws sends, or drops, is what Python's gather has sent.
LEMMA FlushStep ==
  ASSUME NodeInv, NEW s \in Sockets, flush(s)
  PROVE  Proofs!BrokerNext /\ Buffers'
  <1>0. Buffers
    BY DEF NodeInv
  <1>1. PICK b \in buffer[s] : buffer' = [buffer EXCEPT ![s] = @ \ {b}]
    BY DEF flush
  <1>2. b \in Broadcasts /\ Buffers'
    BY <1>0, <1>1 DEF Buffers
  <1>3. /\ {t \in Sockets : b \in buffer'[t]} = {t \in Sockets : b \in buffer[t]} \ {s}
        /\ \A a \in Broadcasts \ {b} :
             {t \in Sockets : a \in buffer'[t]} = {t \in Sockets : a \in buffer[t]}
    BY <1>0, <1>1 DEF Buffers
  <1>4. s \in Awaited[b] /\ Awaited' = [Awaited EXCEPT ![b] = @ \ {s}]
    BY <1>1, <1>2, <1>3 DEF Awaited
  <1>5. Proofs!Deliver(b, s)
    BY <1>4 DEF flush, maps, Proofs!Deliver, Proofs!dictionaries
  <1>6. QED
    BY <1>2, <1>5 DEF Proofs!BrokerNext

LEMMA NodeStep ==
  ASSUME NodeInv, [NodeNext]_nodeVars
  PROVE  [Proofs!BrokerNext]_(Proofs!brokerVars) /\ Buffers'
  <1>1. CASE UNCHANGED nodeVars
    BY <1>1 DEF nodeVars, maps, Proofs!brokerVars, Awaited, NodeInv, Buffers
  <1>2. CASE NodeNext
    BY <1>2, MapsStep, PublishStep, FlushStep DEF NodeNext
  <1>3. QED
    BY <1>1, <1>2

LEMMA NodeAlways == NodeSpec => []NodeInv /\ Proofs!BrokerSpec
  <1>1. NodeInit => NodeInv
    BY NodeStarts, Proofs!BrokerInitInv, NodeAssumption DEF NodeInv
  <1>2. NodeInv /\ [NodeNext]_nodeVars => NodeInv' /\ [Proofs!BrokerNext]_(Proofs!brokerVars)
    BY NodeStep, Proofs!BrokerNextInv, NodeAssumption DEF NodeInv
  <1>3. QED
    BY <1>1, <1>2, NodeStarts, PTL DEF NodeSpec, Proofs!BrokerSpec

-------------------------------------------------------------------------------
(* The broker that the module speaks of and the one of the proofs.         *)

LEMMA SameHelpers ==
  /\ \A f, k, v : Python!Put(f, k, v) = Proofs!Put(f, k, v)
  /\ \A f, k : Python!Without(f, k) = Proofs!Without(f, k)
  /\ \A f, k, d : Python!Get(f, k, d) = Proofs!Get(f, k, d)
  /\ \A m, r, p : Python!RemoveFromRoom(m, r, p) = Proofs!RemoveFromRoom(m, r, p)
  /\ \A m, r, p : Python!AddToRoom(m, r, p) = Proofs!AddToRoom(m, r, p)
  /\ \A p, r : Python!Vacated(p, r) = Proofs!Vacated(p, r)
  /\ \A m, r, x : Python!RoomSockets(m, r, x) = Proofs!RoomSockets(m, r, x)
  /\ \A f : Python!Range(f) = Proofs!Range(f)
  <1>1. \A f, k, v : Python!Put(f, k, v) = Proofs!Put(f, k, v)
    BY DEF Python!Put, Proofs!Put
  <1>2. \A f, k : Python!Without(f, k) = Proofs!Without(f, k)
    BY DEF Python!Without, Python!Restrict, Proofs!Without, Proofs!Restrict
  <1>3. \A f, k, d : Python!Get(f, k, d) = Proofs!Get(f, k, d)
    BY DEF Python!Get, Proofs!Get
  <1>4. \A m, r, p : Python!RemoveFromRoom(m, r, p) = Proofs!RemoveFromRoom(m, r, p)
    BY <1>1, <1>2, <1>3 DEF Python!RemoveFromRoom, Proofs!RemoveFromRoom
  <1>5. \A m, r, p : Python!AddToRoom(m, r, p) = Proofs!AddToRoom(m, r, p)
    BY <1>1, <1>3 DEF Python!AddToRoom, Proofs!AddToRoom
  <1>6. \A p, r : Python!Vacated(p, r) = Proofs!Vacated(p, r)
    BY <1>3, <1>4 DEF Python!Vacated, Proofs!Vacated
  <1>7. \A m, r, x : Python!RoomSockets(m, r, x) = Proofs!RoomSockets(m, r, x)
    BY <1>3 DEF Python!RoomSockets, Proofs!RoomSockets
  <1>8. \A f : Python!Range(f) = Proofs!Range(f)
    BY DEF Python!Range, Proofs!Range
  <1>9. QED
    BY <1>1, <1>2, <1>3, <1>4, <1>5, <1>6, <1>7, <1>8

LEMMA SameNext == Proofs!BrokerNext => Python!BrokerNext
  <1>1. \A s \in Sockets, r \in Rooms : Proofs!Connect(s, r) => Python!Connect(s, r)
    BY SameHelpers
    DEF Proofs!Connect, Python!Connect, Proofs!Displaced, Python!Displaced, Awaited
  <1>2. \A s \in Sockets : Proofs!Disconnect(s) => Python!Disconnect(s)
    BY SameHelpers
    DEF Proofs!Disconnect, Python!Disconnect, Proofs!IsRegistered, Python!IsRegistered,
        Proofs!dictionaries, Python!dictionaries, Awaited
  <1>3. \A p, r : Proofs!MoveTo(p, r) => Python!MoveTo(p, r)
    BY SameHelpers DEF Proofs!MoveTo, Python!MoveTo
  <1>4. \A p \in Players, r \in Rooms : Proofs!Move(p, r) => Python!Move(p, r)
    BY <1>3 DEF Proofs!Move, Python!Move, Awaited
  <1>5. \A b, r, excluded : Proofs!PublishToRoom(b, r, excluded) => Python!PublishToRoom(b, r, excluded)
    BY SameHelpers
    DEF Proofs!PublishToRoom, Python!PublishToRoom, Proofs!dictionaries,
        Python!dictionaries, Awaited
  <1>6. \A b : Proofs!PublishToAll(b) => Python!PublishToAll(b)
    BY SameHelpers
    DEF Proofs!PublishToAll, Python!PublishToAll, Proofs!dictionaries,
        Python!dictionaries, Awaited
  <1>7. \A b, p, r, old : Proofs!MoveAndPublish(b, p, r, old) => Python!MoveAndPublish(b, p, r, old)
    BY <1>3, SameHelpers DEF Proofs!MoveAndPublish, Python!MoveAndPublish, Awaited
  <1>8. \A b, s : Proofs!Deliver(b, s) => Python!Deliver(b, s)
    BY DEF Proofs!Deliver, Python!Deliver, Proofs!dictionaries, Python!dictionaries, Awaited
  <1>9. \A s : Proofs!CloseSocket(s) => Python!CloseSocket(s)
    BY DEF Proofs!CloseSocket, Python!CloseSocket, Proofs!dictionaries,
       Python!dictionaries, Awaited
  <1>10. \A cut : Proofs!Restart(cut) => Python!Restart(cut)
    BY DEF Proofs!Restart, Python!Restart, Awaited
  <1>11. QED
    BY <1>1, <1>2, <1>4, <1>5, <1>6, <1>7, <1>8, <1>9, <1>10
    DEF Proofs!BrokerNext, Python!BrokerNext

LEMMA SamePython == Proofs!BrokerSpec => ImplementsBroker
  <1>1. Proofs!BrokerInit => Python!BrokerInit
    BY DEF Proofs!BrokerInit, Python!BrokerInit, Awaited
  <1>2. [Proofs!BrokerNext]_(Proofs!brokerVars) => [Python!BrokerNext]_(Python!brokerVars)
    BY SameNext DEF Proofs!brokerVars, Python!brokerVars, Awaited
  <1>3. QED
    BY <1>1, <1>2, PTL DEF Proofs!BrokerSpec, ImplementsBroker, Python!BrokerSpec

(***************************************************************************)
(* "Full port of server/app/broker.py's in-process pub/sub"                *)
(* (broker.service.ts): every call changes the maps, closes connections    *)
(* and addresses its broadcast as one of the Python broker's does.         *)
(***************************************************************************)
THEOREM NodeImplementsBroker == NodeSpec => ImplementsBroker
  BY NodeAlways, SamePython

(***************************************************************************)
(* Therefore it keeps the promise of module Registry, too.                 *)
(***************************************************************************)
THEOREM NodeImplementsRegistry == NodeSpec => Proofs!ImplementsRegistry
  BY NodeAlways, Proofs!BrokerImplementsRegistry, NodeAssumption

(***************************************************************************)
(* Type correctness of the port: no room without members is kept.          *)
(***************************************************************************)
THEOREM NodeTyped == NodeSpec => []NodeTypeOK
  <1>1. NodeInv => NodeTypeOK
    <2> SUFFICES ASSUME NodeInv
                 PROVE  NodeTypeOK
      OBVIOUS
    <2>1. Proofs!BrokerTypeOK /\ Proofs!RoomIndex /\ Buffers
      BY DEF NodeInv, Proofs!BrokerInv
    <2>2. roomMembers \in [DOMAIN roomMembers -> (SUBSET Players) \ {{}}]
      BY <2>1 DEF Proofs!BrokerTypeOK, Proofs!RoomIndex
    <2>3. QED
      BY <2>1, <2>2 DEF Proofs!BrokerTypeOK, NodeTypeOK, Buffers
  <1>2. QED
    BY <1>1, NodeAlways, PTL
===============================================================================
