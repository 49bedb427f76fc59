----------------------------- MODULE BrokerProofs -----------------------------
(***************************************************************************)
(* For every set of players, rooms, connections and publishers: the        *)
(* broker's dictionaries stay well-formed and inverse to one another, and  *)
(* the broker implements the abstract registry.                            *)
(***************************************************************************)
EXTENDS Broker, TLAPS

BrokerInv == BrokerTypeOK /\ RoomIndex

-------------------------------------------------------------------------------
(* Dictionaries.                                                           *)

LEMMA PutDomain ==
  ASSUME NEW f, NEW k, NEW v
  PROVE  DOMAIN Put(f, k, v) = DOMAIN f \cup {k}
  BY DEF Put

LEMMA PutGet ==
  ASSUME NEW f, NEW k, NEW v, NEW x, NEW d
  PROVE  Get(Put(f, k, v), x, d) = IF x = k THEN v ELSE Get(f, x, d)
  BY DEF Put, Get

LEMMA PutType ==
  ASSUME NEW D, NEW R, NEW k \in D, NEW v \in R, NEW f,
         DOMAIN f \subseteq D, f \in [DOMAIN f -> R]
  PROVE  /\ DOMAIN Put(f, k, v) \subseteq D
         /\ Put(f, k, v) \in [DOMAIN Put(f, k, v) -> R]
  BY DEF Put

LEMMA WithoutDomain ==
  ASSUME NEW f, NEW k
  PROVE  DOMAIN Without(f, k) = DOMAIN f \ {k}
  BY DEF Without, Restrict

LEMMA WithoutGet ==
  ASSUME NEW f, NEW k, NEW x, NEW d
  PROVE  Get(Without(f, k), x, d) = IF x = k THEN d ELSE Get(f, x, d)
  BY DEF Without, Restrict, Get

LEMMA WithoutType ==
  ASSUME NEW D, NEW R, NEW k, NEW f,
         DOMAIN f \subseteq D, f \in [DOMAIN f -> R]
  PROVE  /\ DOMAIN Without(f, k) \subseteq D
         /\ Without(f, k) \in [DOMAIN Without(f, k) -> R]
  BY DEF Without, Restrict

-------------------------------------------------------------------------------
(* The index of room members.                                              *)

\* members is an index of sets of players with no empty entry.
IsIndex(members) ==
  /\ DOMAIN members \subseteq Rooms
  /\ members \in [DOMAIN members -> SUBSET Players]
  /\ \A r \in DOMAIN members : members[r] # {}

LEMMA RemoveKeepsIndex ==
  ASSUME NEW members, IsIndex(members), NEW r \in Rooms, NEW p
  PROVE  /\ IsIndex(RemoveFromRoom(members, r, p))
         /\ \A q : Get(RemoveFromRoom(members, r, p), q, {}) =
              IF q = r THEN Get(members, r, {}) \ {p} ELSE Get(members, q, {})
  <1> DEFINE left == Get(members, r, {}) \ {p}
  <1>1. left \in SUBSET Players
    BY DEF IsIndex, Get
  <1>2. CASE left = {}
    <2>1. RemoveFromRoom(members, r, p) = Without(members, r)
      BY <1>2 DEF RemoveFromRoom
    <2>2. IsIndex(Without(members, r))
      BY DEF IsIndex, Without, Restrict
    <2>3. QED
      BY <1>2, <2>1, <2>2, WithoutGet
  <1>3. CASE left # {}
    <2>1. RemoveFromRoom(members, r, p) = Put(members, r, left)
      BY <1>3 DEF RemoveFromRoom
    <2> HIDE DEF left
    <2>2. IsIndex(Put(members, r, left))
      BY <1>1, <1>3 DEF IsIndex, Put
    <2>3. \A q : Get(Put(members, r, left), q, {}) =
              IF q = r THEN left ELSE Get(members, q, {})
      BY PutGet
    <2>4. QED
      BY <2>1, <2>2, <2>3 DEF left
  <1>4. QED
    BY <1>2, <1>3

LEMMA AddKeepsIndex ==
  ASSUME NEW members, IsIndex(members), NEW r \in Rooms, NEW p \in Players
  PROVE  /\ IsIndex(AddToRoom(members, r, p))
         /\ \A q : Get(AddToRoom(members, r, p), q, {}) =
              IF q = r THEN Get(members, r, {}) \cup {p} ELSE Get(members, q, {})
  <1> DEFINE now == Get(members, r, {}) \cup {p}
  <1>1. now \in SUBSET Players /\ now # {}
    BY DEF IsIndex, Get
  <1>2. AddToRoom(members, r, p) = Put(members, r, now)
    BY DEF AddToRoom
  <1> HIDE DEF now
  <1>3. IsIndex(Put(members, r, now))
    BY <1>1 DEF IsIndex, Put
  <1>4. \A q : Get(Put(members, r, now), q, {}) =
          IF q = r THEN now ELSE Get(members, q, {})
    BY PutGet
  <1>5. QED
    BY <1>2, <1>3, <1>4 DEF now

\* members and rooms are one relation, read in the two directions.
Reverses(members, rooms) ==
  \A r \in Rooms : Get(members, r, {}) = {p \in DOMAIN rooms : rooms[p] = r}

\* The part of the invariant that does not speak of connections.
Located ==
  /\ DOMAIN playerRooms \subseteq Players
  /\ playerRooms \in [DOMAIN playerRooms -> Rooms]
  /\ IsIndex(roomMembers)
  /\ Reverses(roomMembers, playerRooms)

LEMMA InvLocated == BrokerInv => Located
  BY DEF BrokerInv, BrokerTypeOK, RoomIndex, Located, IsIndex, Reverses

\* Connect and move put p in room r of both dictionaries.
LEMMA Relocate ==
  ASSUME Located, NEW p \in Players, NEW r \in Rooms,
         playerRooms' = Put(playerRooms, p, r),
         roomMembers' = AddToRoom(Vacated(p, r), r, p)
  PROVE  Located'
  <1> DEFINE old == Get(playerRooms, p, NoRoom)
             left == Vacated(p, r)
  <1>1. /\ DOMAIN playerRooms' \subseteq Players
        /\ playerRooms' \in [DOMAIN playerRooms' -> Rooms]
    BY PutType DEF Located
  <1>2. /\ IsIndex(left)
        /\ \A q \in Rooms : Get(left, q, {}) =
             IF q = old /\ q # r THEN Get(roomMembers, q, {}) \ {p}
                                ELSE Get(roomMembers, q, {})
    <2>1. CASE old \in {NoRoom, r}
      BY <2>1, RoomAssumption DEF Vacated, Located
    <2>2. CASE old \notin {NoRoom, r}
      <3>1. old \in Rooms
        BY <2>2 DEF Get, Located
      <3>2. left = RemoveFromRoom(roomMembers, old, p)
        BY <2>2 DEF Vacated
      <3>3. IsIndex(roomMembers)
        BY DEF Located
      <3> HIDE DEF left, old
      <3>4. QED
        BY <2>2, <3>1, <3>2, <3>3, RemoveKeepsIndex
    <2>3. QED
      BY <2>1, <2>2
  <1>3. /\ IsIndex(roomMembers')
        /\ \A q \in Rooms : Get(roomMembers', q, {}) =
             IF q = r THEN Get(left, r, {}) \cup {p} ELSE Get(left, q, {})
    <2> HIDE DEF left
    <2>1. roomMembers' = AddToRoom(left, r, p)
      BY DEF left
    <2>2. QED
      BY <1>2, <2>1, AddKeepsIndex
  <1>4. Reverses(roomMembers', playerRooms')
    <2> SUFFICES ASSUME NEW q \in Rooms
                 PROVE  Get(roomMembers', q, {}) =
                          {x \in DOMAIN playerRooms' : playerRooms'[x] = q}
      BY DEF Reverses
    <2>1. Get(roomMembers, q, {}) = {x \in DOMAIN playerRooms : playerRooms[x] = q}
      BY DEF Located, Reverses
    <2>2. Get(roomMembers', q, {}) =
            IF q = r THEN Get(roomMembers, q, {}) \cup {p}
            ELSE IF q = old THEN Get(roomMembers, q, {}) \ {p}
            ELSE Get(roomMembers, q, {})
      BY <1>2, <1>3
    <2>3. {x \in DOMAIN playerRooms' : playerRooms'[x] = q} =
            IF q = r THEN {x \in DOMAIN playerRooms : playerRooms[x] = q} \cup {p}
                     ELSE {x \in DOMAIN playerRooms : playerRooms[x] = q} \ {p}
      BY DEF Put
    <2>4. q # old => p \notin {x \in DOMAIN playerRooms : playerRooms[x] = q}
      BY DEF Get
    <2> HIDE DEF old
    <2>5. QED
      BY <2>1, <2>2, <2>3, <2>4
  <1>5. QED
    BY <1>1, <1>3, <1>4 DEF Located, IsIndex, Reverses, Get

\* Disconnect takes p out of both.
LEMMA Vacate ==
  ASSUME Located, NEW p \in DOMAIN playerRooms,
         playerRooms' = Without(playerRooms, p),
         roomMembers' = RemoveFromRoom(roomMembers, playerRooms[p], p)
  PROVE  Located'
  <1>1. /\ DOMAIN playerRooms' \subseteq Players
        /\ playerRooms' \in [DOMAIN playerRooms' -> Rooms]
    BY WithoutType DEF Located
  <1>2. playerRooms[p] \in Rooms
    BY DEF Located
  <1>3. /\ IsIndex(roomMembers')
        /\ \A q : Get(roomMembers', q, {}) =
             IF q = playerRooms[p] THEN Get(roomMembers, q, {}) \ {p}
                                   ELSE Get(roomMembers, q, {})
    BY <1>2, RemoveKeepsIndex DEF Located
  <1>4. \A q \in Rooms : Get(roomMembers', q, {}) =
          {x \in DOMAIN playerRooms' : playerRooms'[x] = q}
    <2> TAKE q \in Rooms
    <2>1. Get(roomMembers, q, {}) = {x \in DOMAIN playerRooms : playerRooms[x] = q}
      BY DEF Located, Reverses
    <2>2. {x \in DOMAIN playerRooms' : playerRooms'[x] = q} =
            {x \in DOMAIN playerRooms : playerRooms[x] = q} \ {p}
      BY DEF Without, Restrict
    <2>3. QED
      BY <1>3, <2>1, <2>2
  <1>5. QED
    BY <1>1, <1>3, <1>4 DEF Located, IsIndex, Reverses, Get

\* The part of the invariant that does speak of connections.
Connections ==
  /\ DOMAIN players \subseteq Players
  /\ players \in [DOMAIN players -> Sockets]
  /\ \A p \in DOMAIN players : PlayerOf[players[p]] = p
  /\ DOMAIN players \subseteq DOMAIN playerRooms
  /\ closed \subseteq Sockets
  /\ audience \in [Publishers -> SUBSET Sockets]

LEMMA InvParts == BrokerInv <=> Located /\ Connections
  BY DEF BrokerInv, BrokerTypeOK, RoomIndex, Located, IsIndex, Reverses, Connections

LEMMA InvPartsPrime == BrokerInv' <=> Located' /\ Connections'
  BY DEF BrokerInv, BrokerTypeOK, RoomIndex, Located, IsIndex, Reverses, Connections

LEMMA SnapshotType ==
  ASSUME Connections, NEW index, NEW r, NEW excluded
  PROVE  RoomSockets(index, r, excluded) \subseteq Sockets
  BY DEF Connections, RoomSockets

-------------------------------------------------------------------------------
(* One lemma per operation that changes the dictionaries.                  *)

LEMMA ConnectInv ==
  ASSUME BrokerInv, NEW s \in Sockets, NEW r \in Rooms, Connect(s, r)
  PROVE  BrokerInv'
  <1> DEFINE p == PlayerOf[s]
  <1>1. p \in Players
    BY SocketAssumption
  <1>2. Located /\ Connections
    BY InvParts
  <1>3. /\ players' = Put(players, p, s)
        /\ playerRooms' = Put(playerRooms, p, r)
        /\ roomMembers' = AddToRoom(Vacated(p, r), r, p)
        /\ closed' = closed \cup Displaced(s)
        /\ audience' = audience
    BY DEF Connect
  <1> HIDE DEF p
  <1>4. Located'
    BY <1>1, <1>2, <1>3, Relocate
  <1>5. Connections'
    <2>1. /\ DOMAIN players' \subseteq Players
          /\ players' \in [DOMAIN players' -> Sockets]
      BY <1>1, <1>2, <1>3, PutType DEF Connections
    <2>2. \A q \in DOMAIN players' : PlayerOf[players'[q]] = q
      BY <1>2, <1>3 DEF Connections, Put, p
    <2>3. DOMAIN players' \subseteq DOMAIN playerRooms'
      BY <1>2, <1>3 DEF Connections, Put
    <2>4. Displaced(s) \subseteq Sockets
      BY <1>2 DEF Displaced, Get, Connections
    <2>5. QED
      BY <1>2, <1>3, <2>1, <2>2, <2>3, <2>4 DEF Connections
  <1>6. QED
    BY <1>4, <1>5, InvPartsPrime

LEMMA DisconnectInv ==
  ASSUME BrokerInv, NEW s \in Sockets, Disconnect(s)
  PROVE  BrokerInv'
  <1> DEFINE p == PlayerOf[s]
             r == Get(playerRooms, p, NoRoom)
  <1>1. Located /\ Connections
    BY InvParts
  <1>2. closed' = closed /\ audience' = audience
    BY DEF Disconnect
  <1>3. CASE ~IsRegistered(s)
    <2>1. UNCHANGED dictionaries
      BY <1>3 DEF Disconnect
    <2>2. QED
      BY <1>2, <2>1 DEF BrokerInv, BrokerTypeOK, RoomIndex, dictionaries
  <1>4. CASE IsRegistered(s)
    <2>1. p \in DOMAIN players
      BY <1>4, SocketAssumption DEF IsRegistered, Get
    <2>2. p \in DOMAIN playerRooms /\ r = playerRooms[p] /\ r # NoRoom
      BY <1>1, <2>1, RoomAssumption DEF Connections, Located, Get
    <2>3. /\ players' = Without(players, p)
          /\ playerRooms' = Without(playerRooms, p)
          /\ roomMembers' = RemoveFromRoom(roomMembers, playerRooms[p], p)
      BY <1>4, <2>2 DEF Disconnect
    <2> HIDE DEF p, r
    <2>4. Located'
      BY <1>1, <2>2, <2>3, Vacate
    <2>5. Connections'
      <3>1. /\ DOMAIN players' \subseteq Players
            /\ players' \in [DOMAIN players' -> Sockets]
        BY <1>1, <2>3, WithoutType DEF Connections
      <3>2. \A q \in DOMAIN players' : PlayerOf[players'[q]] = q
        BY <1>1, <2>3 DEF Connections, Without, Restrict
      <3>3. DOMAIN players' \subseteq DOMAIN playerRooms'
        BY <1>1, <2>3 DEF Connections, Without, Restrict
      <3>4. QED
        BY <1>1, <1>2, <3>1, <3>2, <3>3 DEF Connections
    <2>6. QED
      BY <2>4, <2>5, InvPartsPrime
  <1>5. QED
    BY <1>3, <1>4

LEMMA MoveToInv ==
  ASSUME BrokerInv, NEW p \in Players, NEW r \in Rooms, MoveTo(p, r),
         audience' \in [Publishers -> SUBSET Sockets]
  PROVE  BrokerInv'
  <1>1. Located /\ Connections
    BY InvParts
  <1>2. players' = players /\ closed' = closed
    BY DEF MoveTo
  <1>3. Located' /\ DOMAIN playerRooms \subseteq DOMAIN playerRooms'
    <2>1. CASE Get(playerRooms, p, NoRoom) = r
      BY <1>1, <2>1 DEF MoveTo, Located, IsIndex, Reverses, Get
    <2>2. CASE Get(playerRooms, p, NoRoom) # r
      <3>1. /\ playerRooms' = Put(playerRooms, p, r)
            /\ roomMembers' = AddToRoom(Vacated(p, r), r, p)
        BY <2>2 DEF MoveTo
      <3>2. Located'
        BY <1>1, <3>1, Relocate
      <3>3. DOMAIN playerRooms \subseteq DOMAIN playerRooms'
        BY <3>1 DEF Put
      <3>4. QED
        BY <3>2, <3>3
    <2>3. QED
      BY <2>1, <2>2
  <1>4. Connections'
    BY <1>1, <1>2, <1>3 DEF Connections
  <1>5. QED
    BY <1>3, <1>4, InvPartsPrime

\* Every other operation leaves the dictionaries alone.
LEMMA FanoutInv ==
  ASSUME BrokerInv, UNCHANGED dictionaries, closed' \subseteq Sockets,
         audience' \in [Publishers -> SUBSET Sockets]
  PROVE  BrokerInv'
  BY DEF BrokerInv, BrokerTypeOK, RoomIndex, dictionaries

LEMMA RestartInv ==
  ASSUME BrokerInv, NEW cut \in SUBSET Sockets, Restart(cut)
  PROVE  BrokerInv'
  <1>1. /\ players' = << >> /\ playerRooms' = << >> /\ roomMembers' = << >>
        /\ closed' \subseteq Sockets
        /\ audience' \in [Publishers -> SUBSET Sockets]
    BY DEF Restart, BrokerInv, BrokerTypeOK
  <1>2. QED
    BY <1>1 DEF BrokerInv, BrokerTypeOK, RoomIndex, Get

LEMMA BrokerInitInv == BrokerInit => BrokerInv
  BY DEF BrokerInit, BrokerInv, BrokerTypeOK, RoomIndex, Get

LEMMA BrokerNextInv == BrokerInv /\ [BrokerNext]_brokerVars => BrokerInv'
  <1> SUFFICES ASSUME BrokerInv, [BrokerNext]_brokerVars
               PROVE  BrokerInv'
    OBVIOUS
  <1>0. /\ Connections
        /\ closed \subseteq Sockets
        /\ audience \in [Publishers -> SUBSET Sockets]
    BY InvParts DEF Connections
  <1>1. CASE \E s \in Sockets, r \in Rooms : Connect(s, r)
    BY <1>1, ConnectInv
  <1>2. CASE \E s \in Sockets : Disconnect(s)
    BY <1>2, DisconnectInv
  <1>3. CASE \E p \in Players, r \in Rooms : Move(p, r)
    BY <1>0, <1>3, MoveToInv DEF Move
  <1>4. CASE \E b \in Publishers, r \in Rooms, excluded \in SUBSET Players :
               PublishToRoom(b, r, excluded)
    <2>1. PICK b \in Publishers, r \in Rooms, excluded \in SUBSET Players :
            PublishToRoom(b, r, excluded)
      BY <1>4
    <2>2. RoomSockets(roomMembers, r, excluded) \subseteq Sockets
      BY <1>0, SnapshotType
    <2>3. QED
      BY <1>0, <2>1, <2>2, FanoutInv DEF PublishToRoom
  <1>5. CASE \E b \in Publishers : PublishToAll(b)
    <2>1. PICK b \in Publishers : PublishToAll(b)
      BY <1>5
    <2>2. Range(players) \subseteq Sockets
      BY <1>0 DEF Range, Connections
    <2>3. QED
      BY <1>0, <2>1, <2>2, FanoutInv DEF PublishToAll
  <1>6. CASE \E b \in Publishers, p \in Players, r, old \in Rooms :
               MoveAndPublish(b, p, r, old)
    <2>1. PICK b \in Publishers, p \in Players, r \in Rooms, old \in Rooms :
            MoveAndPublish(b, p, r, old)
      BY <1>6
    <2>2. RoomSockets(roomMembers', old, {}) \subseteq Sockets
      BY <1>0 DEF Connections, RoomSockets
    <2>3. audience' \in [Publishers -> SUBSET Sockets]
      BY <1>0, <2>1, <2>2 DEF MoveAndPublish
    <2>4. QED
      BY <2>1, <2>3, MoveToInv DEF MoveAndPublish
  <1>7. CASE \E b \in Publishers, s \in Sockets : Deliver(b, s)
    BY <1>0, <1>7, FanoutInv DEF Deliver
  <1>8. CASE \E s \in Sockets : CloseSocket(s)
    BY <1>0, <1>8, FanoutInv DEF CloseSocket
  <1>9. CASE \E cut \in SUBSET Sockets : Restart(cut)
    BY <1>9, RestartInv
  <1>10. CASE UNCHANGED brokerVars
    BY <1>0, <1>10, FanoutInv DEF brokerVars, dictionaries
  <1>11. QED
    BY <1>1, <1>2, <1>3, <1>4, <1>5, <1>6, <1>7, <1>8, <1>9, <1>10 DEF BrokerNext

(***************************************************************************)
(* In every reachable state the broker's dictionaries are well-formed, and *)
(* room membership is the inverse of the players' rooms.                   *)
(***************************************************************************)
THEOREM BrokerSafe == BrokerSpec => [](BrokerTypeOK /\ RoomIndex)
  <1>1. BrokerSpec => []BrokerInv
    BY BrokerInitInv, BrokerNextInv, PTL DEF BrokerSpec
  <1>2. QED
    BY <1>1 DEF BrokerInv
-------------------------------------------------------------------------------
(* Refinement of the abstract registry.                                    *)

Conn == [p \in Players |-> Get(players, p, NoSocket)]
At == [p \in Players |-> Get(playerRooms, p, NoRoom)]

\* An index that agrees with where players are gives a broadcast the audience
\* the registry promises.
LEMMA SnapshotIsInRoom ==
  ASSUME BrokerInv, NEW index, NEW where, NEW r, NEW excluded,
         Get(index, r, {}) = {p \in Players : where[p] = r}
  PROVE  RoomSockets(index, r, excluded) = Abstract!InRoom(where, r, excluded)
  <1>1. \A p \in Players : p \in DOMAIN players <=> Conn[p] # NoSocket
    BY SocketAssumption DEF BrokerInv, BrokerTypeOK, Conn, Get
  <1>2. \A p \in DOMAIN players : p \in Players /\ Conn[p] = players[p]
    BY DEF BrokerInv, BrokerTypeOK, Conn, Get
  <1>3. Abstract!InRoom(where, r, excluded) =
          {Conn[p] : p \in {q \in Players \ excluded : where[q] = r}} \ {NoSocket}
    BY DEF Abstract!InRoom, Conn
  <1> HIDE DEF Conn
  <1>4. QED
    BY <1>1, <1>2, <1>3 DEF RoomSockets

LEMMA IndexIsAt ==
  ASSUME BrokerInv, NEW r \in Rooms
  PROVE  Get(roomMembers, r, {}) = {p \in Players : At[p] = r}
  <1>1. Get(roomMembers, r, {}) = {p \in DOMAIN playerRooms : playerRooms[p] = r}
    BY DEF BrokerInv, RoomIndex
  <1>2. QED
    BY <1>1, RoomAssumption DEF BrokerInv, BrokerTypeOK, At, Get

LEMMA IndexIsAtPrime ==
  ASSUME BrokerInv', NEW r \in Rooms
  PROVE  Get(roomMembers', r, {}) = {p \in Players : At'[p] = r}
  <1>1. Get(roomMembers', r, {}) =
          {p \in DOMAIN playerRooms' : playerRooms'[p] = r}
    BY DEF BrokerInv, RoomIndex
  <1>2. QED
    BY <1>1, RoomAssumption DEF BrokerInv, BrokerTypeOK, At, Get

LEMMA RangeIsConnected ==
  ASSUME BrokerInv
  PROVE  Range(players) = {Conn[p] : p \in Players} \ {NoSocket}
  BY SocketAssumption DEF BrokerInv, BrokerTypeOK, Conn, Get, Range

LEMMA ConnectRefines ==
  ASSUME BrokerInv, NEW s \in Sockets, NEW r \in Rooms, Connect(s, r)
  PROVE  Abstract!Connect(s, r)
  <1> DEFINE p == PlayerOf[s]
  <1>1. p \in Players
    BY SocketAssumption
  <1>2. Conn' = [Conn EXCEPT ![p] = s]
    BY <1>1 DEF Connect, Conn, Put, Get
  <1>3. At' = [At EXCEPT ![p] = r]
    BY <1>1 DEF Connect, At, Put, Get
  <1>4. closed' = closed \cup ({Conn[p]} \ {s, NoSocket})
    BY <1>1 DEF Connect, Displaced, Conn
  <1>5. audience' = audience
    BY DEF Connect
  <1>6. QED
    BY <1>2, <1>3, <1>4, <1>5 DEF Abstract!Connect, Conn, At

LEMMA DisconnectRefines ==
  ASSUME BrokerInv, NEW s \in Sockets, Disconnect(s)
  PROVE  Abstract!Disconnect(s) \/ UNCHANGED brokerVars
  <1> DEFINE p == PlayerOf[s]
  <1>1. p \in Players
    BY SocketAssumption
  <1>2. CASE ~IsRegistered(s)
    BY <1>2 DEF Disconnect, dictionaries, brokerVars
  <1>3. CASE IsRegistered(s)
    <2>1. Conn[p] = s
      BY <1>1, <1>3 DEF IsRegistered, Conn
    <2>2. players' = Without(players, p) /\ playerRooms' = Without(playerRooms, p)
      BY <1>3 DEF Disconnect
    <2>3. Conn' = [Conn EXCEPT ![p] = NoSocket]
      BY <1>1, <2>2 DEF Conn, Without, Restrict, Get
    <2>4. At' = [At EXCEPT ![p] = NoRoom]
      BY <1>1, <2>2 DEF At, Without, Restrict, Get
    <2>5. closed' = closed /\ audience' = audience
      BY DEF Disconnect
    <2>6. QED
      BY <2>1, <2>3, <2>4, <2>5 DEF Abstract!Disconnect, Conn, At
  <1>4. QED
    BY <1>2, <1>3

LEMMA MoveToRefines ==
  ASSUME BrokerInv, NEW p \in Players, NEW r \in Rooms, MoveTo(p, r)
  PROVE  At' = [At EXCEPT ![p] = r] /\ Conn' = Conn
  BY DEF MoveTo, At, Conn, Put, Get

LEMMA MoveAndPublishRefines ==
  ASSUME BrokerInv, BrokerInv', NEW b \in Publishers, NEW p \in Players,
         NEW r \in Rooms, NEW old \in Rooms, MoveAndPublish(b, p, r, old)
  PROVE  Abstract!MoveAndPublish(b, p, r, old)
  <1>1. At' = [At EXCEPT ![p] = r] /\ Conn' = Conn
    BY MoveToRefines DEF MoveAndPublish
  <1>2. closed' = closed /\ players' = players
    BY DEF MoveAndPublish, MoveTo
  <1>3. RoomSockets(roomMembers', old, {}) = Abstract!InRoom(At', old, {})
    BY IndexIsAtPrime, SnapshotIsInRoom
  <1>4. QED
    BY <1>1, <1>2, <1>3 DEF MoveAndPublish, Abstract!MoveAndPublish, Conn, At

LEMMA RestartRefines ==
  ASSUME NEW cut \in SUBSET Sockets, Restart(cut)
  PROVE  Abstract!Restart
  BY DEF Restart, Abstract!Restart, Get

LEMMA InitRefines == BrokerInit => Abstract!Init
  BY DEF BrokerInit, Abstract!Init, Get

LEMMA NextRefines ==
  BrokerInv /\ BrokerInv' /\ [BrokerNext]_brokerVars
    => [Abstract!Next]_(Abstract!vars)
  <1> SUFFICES ASSUME BrokerInv, BrokerInv', [BrokerNext]_brokerVars
               PROVE  Abstract!Next \/ UNCHANGED Abstract!vars
    OBVIOUS
  <1>1. CASE \E s \in Sockets, r \in Rooms : Connect(s, r)
    BY <1>1, ConnectRefines DEF Abstract!Next
  <1>2. CASE \E s \in Sockets : Disconnect(s)
    <2>1. PICK s \in Sockets : Disconnect(s)
      BY <1>2
    <2>2. CASE Abstract!Disconnect(s)
      BY <2>2 DEF Abstract!Next
    <2>3. CASE UNCHANGED brokerVars
      BY <2>3 DEF brokerVars, Abstract!vars
    <2>4. QED
      BY <2>1, <2>2, <2>3, DisconnectRefines
  <1>3. CASE \E p \in Players, r \in Rooms : Move(p, r)
    <2>1. PICK p \in Players, r \in Rooms : Move(p, r)
      BY <1>3
    <2>2. Abstract!Move(p, r)
      BY <2>1, MoveToRefines DEF Move, MoveTo, Abstract!Move, At, Conn
    <2>3. QED
      BY <2>2 DEF Abstract!Next
  <1>4. CASE \E b \in Publishers, r \in Rooms, excluded \in SUBSET Players :
               PublishToRoom(b, r, excluded)
    <2>1. PICK b \in Publishers, r \in Rooms, excluded \in SUBSET Players :
            PublishToRoom(b, r, excluded)
      BY <1>4
    <2>2. RoomSockets(roomMembers, r, excluded) = Abstract!InRoom(At, r, excluded)
      BY IndexIsAt, SnapshotIsInRoom
    <2>3. Abstract!PublishToRoom(b, r, excluded)
      BY <2>1, <2>2 DEF PublishToRoom, dictionaries, Abstract!PublishToRoom, At
    <2>4. QED
      BY <2>3 DEF Abstract!Next
  <1>5. CASE \E b \in Publishers : PublishToAll(b)
    <2>1. PICK b \in Publishers : PublishToAll(b)
      BY <1>5
    <2>2. {Conn[p] : p \in Players} =
            {[q \in Players |-> Get(players, q, NoSocket)][p] : p \in Players}
      BY DEF Conn
    <2>3. Abstract!PublishToAll(b)
      BY <2>1, <2>2, RangeIsConnected
      DEF PublishToAll, dictionaries, Abstract!PublishToAll
    <2>4. QED
      BY <2>3 DEF Abstract!Next
  <1>6. CASE \E b \in Publishers, p \in Players, r, old \in Rooms :
               MoveAndPublish(b, p, r, old)
    BY <1>6, MoveAndPublishRefines DEF Abstract!Next
  <1>7. CASE \E b \in Publishers, s \in Sockets : Deliver(b, s)
    BY <1>7 DEF Deliver, dictionaries, Abstract!Deliver, Abstract!Next
  <1>8. CASE \E s \in Sockets : CloseSocket(s)
    BY <1>8 DEF CloseSocket, dictionaries, Abstract!CloseSocket, Abstract!Next
  <1>9. CASE \E cut \in SUBSET Sockets : Restart(cut)
    BY <1>9, RestartRefines DEF Abstract!Next
  <1>10. CASE UNCHANGED brokerVars
    BY <1>10 DEF brokerVars, Abstract!vars
  <1>11. QED
    BY <1>1, <1>2, <1>3, <1>4, <1>5, <1>6, <1>7, <1>8, <1>9, <1>10 DEF BrokerNext

(***************************************************************************)
(* The broker of broker.py keeps the abstract registry's promise: newer    *)
(* connections win, stale disconnects do nothing, and every broadcast goes *)
(* to exactly the connections standing in the room when it is published.   *)
(***************************************************************************)
THEOREM BrokerImplementsRegistry == BrokerSpec => ImplementsRegistry
  <1>1. BrokerSpec => []BrokerInv
    BY BrokerInitInv, BrokerNextInv, PTL DEF BrokerSpec
  <1>2. QED
    BY <1>1, InitRefines, NextRefines, PTL
    DEF BrokerSpec, ImplementsRegistry, Abstract!Spec
===============================================================================
