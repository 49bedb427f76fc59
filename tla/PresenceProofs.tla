---------------------------- MODULE PresenceProofs ----------------------------
(***************************************************************************)
(* What clients are shown and told adds up to what the documents say, for  *)
(* every number of players and sessions and every map, when the sessions   *)
(* of a player follow one another and nothing fails.                       *)
(***************************************************************************)
EXTENDS Presence, SerialProofs

Enroute == {"move.view", "move.sent", "move.depart"}
Shown == {"welcome"} \cup Serving

(***************************************************************************)
(* A session has two pictures of a room, for which the same is proved: the *)
(* one its client has been shown, and the one read for the next view.      *)
(***************************************************************************)
Pictures == {"shown", "read"}
Held(k, s) == IF k = "shown" THEN Watches(s) ELSE s \in DOMAIN view
Names(k, s) == IF k = "shown" THEN seen[s] ELSE view[s]
RoomOf(k, s) == IF k = "shown" THEN RoomShown(s) ELSE RoomInView(s)
Unsure(k, s) == IF k = "shown" THEN hazy[s] ELSE doubt[s]
NewlyUnsure(k, s) == IF k = "shown" THEN Blurred(s) ELSE Doubtful(s)

(***************************************************************************)
(* PictureRight speaks of players who are not on the way.  To carry it     *)
(* across a move, this says which picture may have a player on the way:    *)
(* before the farewell is published, that of the room it leaves or of the  *)
(* room it goes to; then the former only for those whose farewell is still *)
(* to be sent; and at the end that of the latter only.                     *)
(***************************************************************************)
Agrees(k, s, p) ==
  /\ ~Travelling(p, s) => (p \in Names(k, s) <=> currentRoomId[p] = RoomOf(k, s))
  /\ \A b \in Sockets : PlayerOf[b] = p /\ p \in Names(k, s) =>
       /\ pc[b] \in {"move.view", "move.sent"} => RoomOf(k, s) \in {room[b], dest[b]}
       /\ pc[b] = "move.depart" =>
            RoomOf(k, s) = dest[b] \/ (s \in audience[b] /\ RoomOf(k, s) = room[b])
       /\ pc[b] = "move.arrive" => RoomOf(k, s) = dest[b]

PictureInv ==
  /\ DOMAIN seen = Sockets /\ DOMAIN hazy = Sockets /\ DOMAIN doubt = Sockets
  /\ \A s \in DOMAIN view : s \in Sockets /\ pc[s] \in Viewing
  /\ \A s \in Sockets : pc[s] = "leave" => s \in gone \cup closed
  /\ \A k \in Pictures, s \in Sockets : Held(k, s) =>
       \A p \in Players \ ({PlayerOf[s]} \cup Unsure(k, s)) : Agrees(k, s, p)

-------------------------------------------------------------------------------
(* What a step can mean to the others.                                     *)

OthersWait(a) ==
  \A t \in Sockets \ {a} :
    pc'[t] = pc[t] /\ room'[t] = room[t] /\ dest'[t] = dest[t] /\ audience'[t] = audience[t]

\* Nothing moves, nothing is sent.
Still ==
  /\ UNCHANGED <<pc, room, dest, currentRoomId, audience>>
  /\ gone \subseteq gone' /\ closed \subseteq closed'

\* Session a moves, but its player does not.
Elsewhere(a) ==
  /\ OthersWait(a)
  /\ UNCHANGED currentRoomId
  /\ gone \subseteq gone' /\ closed \subseteq closed'
  /\ pc[a] \notin {"move.sent", "move.depart"}
  /\ pc[a] = "move.arrive" => audience[a] = {}
  /\ pc'[a] \notin Enroute \cup {"move.arrive"}
  /\ pc[a] \in Viewing => pc'[a] # pc[a]
  /\ pc'[a] \in Shown =>
       /\ RoomShown(a)' = RoomShown(a)
       /\ pc[a] \in Shown \/ Passes(a, "view", "welcome")
  /\ pc'[a] = "leave" => pc[a] = "leave" \/ a \in gone' \cup closed'

MoveStep(a) == MoveUpdate(a) \/ MoveEnter(a) \/ MoveDepart(a) \/ MoveArrive(a)

LEMMA ElsewhereSteps ==
  ASSUME Types, BrokerTypeOK, NEW a \in Sockets,
         \/ Open(a) \/ LoadPlayer(a) \/ Welcome(a) \/ Refuse(a) \/ Join(a) \/ Serve(a)
         \/ Hangup(a) \/ Quit(a) \/ Leave(a) \/ Answer(a) \/ Look(a) \/ LookDone(a)
         \/ Say(a) \/ Shout(a) \/ ChatDone(a) \/ MoveDone(a)
         \/ TakePull(a) \/ TakePush(a) \/ TakeList(a) \/ TakeTell(a) \/ TakeDone(a)
         \/ DropPull(a) \/ DropPush(a) \/ DropList(a) \/ DropTell(a) \/ DropDone(a)
         \/ SendFails(a)
         \/ \E e \in Exits : MoveStart(a, e)
         \/ \E i \in Items : TakeFind(a, i) \/ DropFind(a, i)
  PROVE  Elsewhere(a)
  <1>0. /\ pc \in [Sockets -> Places] /\ room \in [Sockets -> Rooms \cup {NoRoom}]
        /\ dest \in [Sockets -> Rooms \cup {NoRoom}]
        /\ audience \in [Publishers -> SUBSET Sockets] /\ Sockets \subseteq Publishers
    BY SessionAssumption DEF Types, SessionTypes, BrokerTypeOK
  <1> USE DEF Elsewhere, OthersWait, Enroute, Shown, Serving, Handling, AtDatabase,
              AtSockets, Passes, RoomShown, Viewing
  <1>1. CASE Open(a) \/ Welcome(a) \/ Look(a)
    BY <1>0, <1>1 DEF Open, Welcome, Look, Goto, locals, database, brokerVars
  <1>2. CASE LoadPlayer(a)
    BY <1>0, <1>2 DEF LoadPlayer, Goto, database, brokerVars
  <1>3. CASE Refuse(a) \/ Leave(a)
    BY <1>0, <1>3 DEF Refuse, Leave, End, Disconnect, Startup, database, brokerVars
  <1>4. CASE Join(a)
    BY <1>0, <1>4 DEF Join, Goto, Connect, locals, database
  <1>5. CASE Serve(a) \/ Answer(a) \/ ChatDone(a) \/ LookDone(a)
    BY <1>0, <1>5
    DEF Serve, Answer, ChatDone, LookDone, ReturnUnchanged, Return, database, brokerVars
  <1>6. CASE Hangup(a) \/ Quit(a)
    BY <1>0, <1>6 DEF Hangup, Quit, Goto, CloseSocket, locals, database, brokerVars
  <1>7. CASE Say(a) \/ Shout(a)
    BY <1>0, <1>7 DEF Say, Shout, Goto, PublishToRoom, PublishToAll, locals, database
  <1>8. CASE MoveDone(a)
    BY <1>0, <1>8 DEF MoveDone, Return, database, brokerVars
  <1>9. CASE TakePull(a) \/ DropPull(a)
    BY <1>0, <1>9
    DEF TakePull, DropPull, Goto, ReturnUnchanged, Return, locals, brokerVars
  <1>10. CASE TakePush(a) \/ DropPush(a)
    BY <1>0, <1>10 DEF TakePush, DropPush, Goto, locals, brokerVars
  <1>11. CASE TakeList(a) \/ DropList(a)
    BY <1>0, <1>11 DEF TakeList, DropList, Goto, locals, database, brokerVars
  <1>12. CASE TakeTell(a) \/ DropTell(a)
    BY <1>0, <1>12 DEF TakeTell, DropTell, Goto, PublishToRoom, locals, database
  <1>13. CASE TakeDone(a) \/ DropDone(a)
    BY <1>0, <1>13 DEF TakeDone, DropDone, Return, database, brokerVars
  <1>14. CASE SendFails(a)
    BY <1>0, <1>14 DEF SendFails, locals, database, brokerVars
  <1>15. CASE \E e \in Exits : MoveStart(a, e)
    BY <1>0, <1>15 DEF MoveStart, Goto, database, brokerVars
  <1>16. CASE \E i \in Items : TakeFind(a, i) \/ DropFind(a, i)
    BY <1>0, <1>16 DEF TakeFind, DropFind, Goto, database, brokerVars
  <1>17. QED
    BY <1>1, <1>2, <1>3, <1>4, <1>5, <1>6, <1>7, <1>8, <1>9, <1>10, <1>11, <1>12,
       <1>13, <1>14, <1>15, <1>16

LEMMA Kinds ==
  ASSUME Serial, Types, BrokerTypeOK, [Next]_vars
  PROVE  \/ Still
         \/ \E a \in Sockets : MoveStep(a) \/ Fanout(a) \/ Elsewhere(a)
  <1>1. CASE \E s \in Sockets : ClientLeaves(s)
    BY <1>1 DEF ClientLeaves, Still, locals, database, brokerVars
  <1>2. CASE UNCHANGED vars
    BY <1>2 DEF vars, locals, database, brokerVars, Still
  <1>3. CASE Crash \/ \E s \in Sockets : DbError(s)
    BY <1>3 DEF Crash, DbError, Serial, Types
  <1>4. QED
    BY <1>1, <1>2, <1>3, ElsewhereSteps
    DEF Next, Client, Progress, Starting, Chatting, Moving, Taking, Dropping, MoveStep

LEMMA MoveSteps ==
  ASSUME Types, BrokerTypeOK, NEW a \in Sockets, MoveStep(a)
  PROVE  /\ OthersWait(a) /\ UNCHANGED <<room, dest, gone, closed>>
         /\ \/ Passes(a, "move.update", "move.view") /\ audience'[a] = audience[a]
            \/ Passes(a, "move.view", "move.sent") /\ audience'[a] = audience[a]
            \/ Passes(a, "move.sent", "move.depart") /\ audience[a] = {}
            \/ Passes(a, "move.depart", "move.arrive") /\ audience[a] = {}
         /\ \A p \in Players \ {PlayerOf[a]} : currentRoomId'[p] = currentRoomId[p]
         /\ MoveUpdate(a) \/ UNCHANGED currentRoomId
  BY SessionAssumption, SocketAssumption
  DEF MoveStep, MoveUpdate, MoveEnter, MoveDepart, MoveArrive, Goto, MoveAndPublish,
      MoveTo, PublishToRoom, locals, database, brokerVars, OthersWait, Passes, Types,
      SessionTypes, DocumentTypes, BrokerTypeOK

LEMMA FanoutSteps ==
  ASSUME BrokerTypeOK, NEW a \in Sockets, Fanout(a)
  PROVE  /\ UNCHANGED <<pc, room, dest, currentRoomId, gone, closed>>
         /\ \A t \in Sockets \ {a} : audience'[t] = audience[t]
         /\ \E t \in Sockets : t \in audience[a] /\ audience'[a] = audience[a] \ {t}
  BY SessionAssumption DEF Fanout, Deliver, locals, database, BrokerTypeOK

-------------------------------------------------------------------------------
(* A picture that is kept over a step: it is not replaced by a view, and   *)
(* p is not one of those of whom it becomes unsure.                        *)

Keeps(k, s, p) ==
  /\ Held(k, s)' /\ (k = "shown" => ~ViewSent(s))
  /\ p \in Players \ ({PlayerOf[s]} \cup Unsure(k, s)')

LEMMA PictureGoesOn ==
  ASSUME Followed, NEW k \in Pictures, NEW s \in Sockets, NEW p, Keeps(k, s, p)
  PROVE  /\ p \in Players \ ({PlayerOf[s]} \cup Unsure(k, s))
         /\ p \notin NewlyUnsure(k, s)
         /\ k = "shown" => (p \in Names(k, s)' <=> p \in (seen[s] \cup Arrived(s)) \ Departed(s))
         /\ k = "read" =>
              /\ s \in DOMAIN view /\ pc'[s] = pc[s]
              /\ p \in Names(k, s)' <=> p \in Names(k, s)
  <1>1. CASE k = "shown"
    BY <1>1 DEF Followed, Keeps, Held, Unsure, NewlyUnsure, Names
  <1>2. CASE k = "read"
    BY <1>2 DEF Followed, Keeps, Held, Unsure, NewlyUnsure, Names
  <1>3. QED
    BY <1>1, <1>2 DEF Pictures

\* It was there before, of the same room, and agreed.
LEMMA KeptAgrees ==
  ASSUME Serial, Types, BrokerTypeOK, PictureInv, [Next]_vars, Followed,
         NEW k \in Pictures, NEW s \in Sockets, NEW p, Keeps(k, s, p)
  PROVE  Held(k, s) /\ RoomOf(k, s)' = RoomOf(k, s) /\ Agrees(k, s, p)
  <1>1. CASE k = "shown"
    <2>1. Watches(s)' /\ ~ViewSent(s)
      BY <1>1 DEF Keeps, Held
    <2>2. Watches(s) /\ RoomShown(s)' = RoomShown(s)
      <3>1. CASE Still \/ \E a \in Sockets : Elsewhere(a)
        BY <2>1, <3>1 DEF Still, Elsewhere, OthersWait, Watches, Shown, ViewSent, RoomShown
      <3>2. CASE \E a \in Sockets : Fanout(a)
        BY <2>1, <3>2, FanoutSteps DEF Watches, RoomShown
      <3>3. CASE \E a \in Sockets : MoveStep(a)
        BY <2>1, <3>3, MoveSteps
        DEF OthersWait, Watches, ViewSent, Passes, RoomShown, Serving, Handling,
            AtDatabase, AtSockets
      <3>4. QED
        BY <3>1, <3>2, <3>3, Kinds
    <2>3. QED
      BY <1>1, <2>2, PictureGoesOn DEF Held, RoomOf, PictureInv
  <1>2. CASE k = "read"
    <2>1. s \in DOMAIN view /\ pc'[s] = pc[s] /\ pc[s] \in Viewing
      BY <1>2, PictureGoesOn DEF PictureInv
    <2>2. room'[s] = room[s] /\ dest'[s] = dest[s]
      <3>1. CASE Still \/ \E a \in Sockets : Elsewhere(a)
        BY <2>1, <3>1 DEF Still, Elsewhere, OthersWait
      <3>2. CASE \E a \in Sockets : Fanout(a)
        BY <3>2, FanoutSteps
      <3>3. CASE \E a \in Sockets : MoveStep(a)
        BY <3>3, MoveSteps
      <3>4. QED
        BY <3>1, <3>2, <3>3, Kinds
    <2>3. QED
      BY <1>2, <2>1, <2>2, PictureGoesOn DEF Held, RoomOf, RoomInView, PictureInv
  <1>3. QED
    BY <1>1, <1>2 DEF Pictures

-------------------------------------------------------------------------------
(* What the steps do to a picture that is kept.                            *)

\* The names change only by what is told of p.
LEMMA NotTold ==
  ASSUME Followed, NEW k \in Pictures, NEW s \in Sockets, NEW p, Keeps(k, s, p),
         \A b \in Tellers(s) : PlayerOf[b] # p
  PROVE  p \in Names(k, s)' <=> p \in Names(k, s)
  <1>1. p \notin Arrived(s) /\ p \notin Departed(s)
    BY DEF Arrived, Departed
  <1>2. QED
    BY <1>1, PictureGoesOn DEF Pictures, Names

\* Between pictures of one room: that of a player on whom nothing happens.
LEMMA AgreesStays ==
  ASSUME NEW s \in Sockets, NEW p, NEW k \in Pictures, NEW j \in Pictures,
         Agrees(k, s, p), RoomOf(j, s)' = RoomOf(k, s),
         currentRoomId'[p] = currentRoomId[p],
         p \in Names(j, s)' <=> p \in Names(k, s),
         \A b \in Sockets : PlayerOf[b] = p =>
           \/ /\ pc'[b] = pc[b] /\ room'[b] = room[b] /\ dest'[b] = dest[b]
              /\ pc[b] \in {"move.depart", "move.arrive"} =>
                   (s \in audience'[b] <=> s \in audience[b])
           \/ /\ pc[b] \notin Enroute /\ (pc[b] = "move.arrive" => s \notin audience[b])
              /\ pc'[b] \notin Enroute \cup {"move.arrive"}
  PROVE  Agrees(j, s, p)'
  <1>1. Travelling(p, s)' <=> Travelling(p, s)
    BY DEF Travelling, Enroute
  <1>2. ASSUME NEW b \in Sockets, PlayerOf[b] = p, p \in Names(j, s)',
               pc'[b] \in Enroute \cup {"move.arrive"}
        PROVE  /\ pc'[b] \in {"move.view", "move.sent"}
                    => RoomOf(j, s)' \in {room'[b], dest'[b]}
               /\ pc'[b] = "move.depart" =>
                    \/ RoomOf(j, s)' = dest'[b]
                    \/ s \in audience'[b] /\ RoomOf(j, s)' = room'[b]
               /\ pc'[b] = "move.arrive" => RoomOf(j, s)' = dest'[b]
    BY <1>2 DEF Agrees
  <1>3. ~Travelling(p, s)' => (p \in Names(j, s)' <=> currentRoomId'[p] = RoomOf(j, s)')
    BY <1>1 DEF Agrees
  <1>4. QED
    BY <1>2, <1>3 DEF Agrees, Enroute

\* A step in which nobody is told and no player moves.
LEMMA AgreesElsewhere ==
  ASSUME Serial, Types, BrokerTypeOK, PictureInv, [Next]_vars, Followed,
         NEW a \in Sockets, Elsewhere(a) \/ Still,
         NEW k \in Pictures, NEW s \in Sockets, NEW p, Keeps(k, s, p)
  PROVE  Agrees(k, s, p)'
  <1>1. Tellers(s) = {}
    BY DEF Elsewhere, OthersWait, Still, Tellers
  <1>2. RoomOf(k, s)' = RoomOf(k, s) /\ Agrees(k, s, p) /\ p \notin NewlyUnsure(k, s)
    BY KeptAgrees, PictureGoesOn
  <1>3. p \in Names(k, s)' <=> p \in Names(k, s)
    BY <1>1, NotTold
  <1>4. p \notin CutOff
    BY <1>2 DEF NewlyUnsure, Blurred, Doubtful
  <1>5. ASSUME NEW b \in Sockets, PlayerOf[b] = p
        PROVE  \/ /\ pc'[b] = pc[b] /\ room'[b] = room[b] /\ dest'[b] = dest[b]
                  /\ s \in audience'[b] <=> s \in audience[b]
               \/ /\ pc[b] \notin Enroute /\ (pc[b] = "move.arrive" => s \notin audience[b])
                  /\ pc'[b] \notin Enroute \cup {"move.arrive"}
    <2>1. CASE Still \/ b # a
      BY <2>1 DEF Still, Elsewhere, OthersWait
    <2>2. CASE Elsewhere(a) /\ b = a
      <3>1. pc[b] # "move.view"
        BY <1>4, <1>5, <2>2 DEF CutOff, Elsewhere, Enroute
      <3>2. QED
        BY <2>2, <3>1 DEF Elsewhere, Enroute
    <2>3. QED
      BY <2>1, <2>2
  <1>6. UNCHANGED currentRoomId
    BY DEF Elsewhere, Still
  <1>7. QED
    BY <1>2, <1>3, <1>5, <1>6, AgreesStays

\* A step of another player's move or broadcast.
LEMMA AgreesOthers ==
  ASSUME Serial, Types, BrokerTypeOK, PictureInv, [Next]_vars, Followed,
         NEW a \in Sockets, MoveStep(a) \/ Fanout(a),
         NEW k \in Pictures, NEW s \in Sockets, NEW p, Keeps(k, s, p), PlayerOf[a] # p
  PROVE  Agrees(k, s, p)'
  <1>1. \A b \in Sockets \ {a} :
          pc'[b] = pc[b] /\ room'[b] = room[b] /\ dest'[b] = dest[b] /\ audience'[b] = audience[b]
    BY MoveSteps, FanoutSteps DEF OthersWait
  <1>2. RoomOf(k, s)' = RoomOf(k, s) /\ Agrees(k, s, p) /\ p \in Players
    BY KeptAgrees, PictureGoesOn
  <1>3. p \in Names(k, s)' <=> p \in Names(k, s)
    <2>1. \A b \in Tellers(s) : PlayerOf[b] # p
      BY <1>1 DEF Tellers
    <2>2. QED
      BY <2>1, NotTold
  <1>4. currentRoomId'[p] = currentRoomId[p]
    BY <1>2, MoveSteps, FanoutSteps
  <1>5. QED
    BY <1>1, <1>2, <1>3, <1>4, AgreesStays

-------------------------------------------------------------------------------
(* The steps of p's own move, for a picture of somebody else.              *)

\* No other session of p moves, or tells anybody of it.
LEMMA OwnMove ==
  ASSUME Serial, Types, BrokerTypeOK, SerialInv, PictureInv, [Next]_vars, Followed,
         NEW a \in Sockets,
         \/ MoveStep(a)
         \/ Fanout(a) /\ pc[a] \in {"move.depart", "move.arrive"},
         NEW k \in Pictures, NEW s \in Sockets, Keeps(k, s, PlayerOf[a])
  PROVE  /\ \A b \in Sockets \ {a} : PlayerOf[b] = PlayerOf[a] =>
              /\ pc[b] \notin Enroute \cup {"move.arrive"}
              /\ pc'[b] \notin Enroute \cup {"move.arrive"}
         /\ UNCHANGED <<room, dest>>
         /\ RoomOf(k, s)' = RoomOf(k, s) /\ Agrees(k, s, PlayerOf[a])
         /\ PlayerOf[a] \notin NewlyUnsure(k, s)
         /\ Held(k, s) /\ s # a /\ pc'[s] = pc[s] /\ PlayerOf[s] # PlayerOf[a]
  <1>1. UNCHANGED <<room, dest>> /\ \A b \in Sockets \ {a} : pc'[b] = pc[b]
    BY MoveSteps, FanoutSteps DEF OthersWait
  <1>2. Alive(a)
    BY MoveSteps DEF Alive, Passes
  <1>3. \A b \in Sockets \ {a} : PlayerOf[b] = PlayerOf[a] => ~Alive(b)
    BY <1>2 DEF SerialInv, OneAlive
  <1>4. PlayerOf[s] # PlayerOf[a]
    BY DEF Keeps
  <1>5. QED
    BY <1>1, <1>3, <1>4, KeptAgrees, PictureGoesOn DEF Alive, Enroute

\* When s is told of it, it is of the room the client was shown, and not of the
\* room of a view that was read.
LEMMA ToldOf ==
  ASSUME NEW k \in Pictures, NEW s \in Sockets, NEW a \in Tellers(s),
         PlayerOf[a] \notin NewlyUnsure(k, s)
  PROVE  NewsRoom(a) = RoomOf(k, s) <=> k = "shown"
  BY DEF Pictures, NewlyUnsure, Blurred, Doubtful, RoomOf

LEMMA AgreesUpdate ==
  ASSUME Serial, Types, BrokerTypeOK, SerialInv, PictureInv, [Next]_vars, Followed,
         faults = 0, NEW a \in Sockets, MoveUpdate(a),
         NEW k \in Pictures, NEW s \in Sockets, Keeps(k, s, PlayerOf[a])
  PROVE  Agrees(k, s, PlayerOf[a])'
  <1> DEFINE p == PlayerOf[a]
  <1>0. MoveStep(a)
    BY DEF MoveStep
  <1>1. pc[a] = "move.update" /\ pc'[a] = "move.view"
    BY DEF MoveUpdate, Goto, Types, SessionTypes
  <1>2. /\ \A b \in Sockets \ {a} : PlayerOf[b] = p =>
             /\ pc[b] \notin Enroute \cup {"move.arrive"}
             /\ pc'[b] \notin Enroute \cup {"move.arrive"}
        /\ UNCHANGED <<room, dest>> /\ RoomOf(k, s)' = RoomOf(k, s) /\ Agrees(k, s, p)
    BY <1>0, OwnMove
  <1>3. p \in Names(k, s)' <=> p \in Names(k, s)
    BY <1>1, <1>2, NotTold DEF Tellers, Enroute
  <1>4. ~Travelling(p, s)
    BY <1>1, <1>2 DEF Travelling, Enroute
  <1>5. currentRoomId[p] = room[a]
    BY <1>1 DEF SerialInv, InStep, Loaded, Serving, Handling, AtDatabase, Whereabouts
  <1>6. p \in Names(k, s)' => RoomOf(k, s)' = room[a]
    BY <1>2, <1>3, <1>4, <1>5 DEF Agrees
  <1>7. Travelling(p, s)'
    BY <1>1 DEF Travelling
  <1>8. QED
    BY <1>1, <1>2, <1>6, <1>7 DEF Agrees, Enroute

LEMMA AgreesEnter ==
  ASSUME Serial, Types, BrokerTypeOK, SerialInv, PictureInv, [Next]_vars, Followed,
         NEW a \in Sockets, MoveEnter(a),
         NEW k \in Pictures, NEW s \in Sockets, Keeps(k, s, PlayerOf[a])
  PROVE  Agrees(k, s, PlayerOf[a])'
  <1> DEFINE p == PlayerOf[a]
  <1>0. MoveStep(a)
    BY DEF MoveStep
  <1>1. pc[a] = "move.view" /\ pc'[a] = "move.sent"
    BY DEF MoveEnter, Goto, Types, SessionTypes
  <1>2. /\ \A b \in Sockets \ {a} : PlayerOf[b] = p =>
             /\ pc[b] \notin Enroute \cup {"move.arrive"}
             /\ pc'[b] \notin Enroute \cup {"move.arrive"}
        /\ UNCHANGED <<room, dest>> /\ RoomOf(k, s)' = RoomOf(k, s) /\ Agrees(k, s, p)
    BY <1>0, OwnMove
  <1>3. p \in Names(k, s)' <=> p \in Names(k, s)
    BY <1>1, <1>2, NotTold DEF Tellers, Enroute
  <1>4. p \in Names(k, s)' => RoomOf(k, s)' \in {room[a], dest[a]}
    BY <1>1, <1>2, <1>3 DEF Agrees
  <1>5. Travelling(p, s)'
    BY <1>1 DEF Travelling
  <1>6. QED
    BY <1>1, <1>2, <1>4, <1>5 DEF Agrees, Enroute

-------------------------------------------------------------------------------
(* Who is told: the broker's snapshot of a room against what is shown.     *)

\* Is the broker's room of s the room of the picture?
InTune(k, s) ==
  IF k = "shown" THEN pc[s] \notin {"welcome", "move.sent"} ELSE pc[s] = "look"

LEMMA Reached ==
  ASSUME BrokerTypeOK, OneSessionPerPlayer, SerialInv, PictureInv,
         NEW k \in Pictures, NEW s \in Sockets, Held(k, s), InTune(k, s),
         NEW index, NEW r, NEW excluded, PlayerOf[s] \notin excluded
  PROVE  /\ s \in RoomSockets(index, r, excluded) <=> PlayerOf[s] \in Get(index, r, {})
         /\ PlayerOf[s] \in DOMAIN playerRooms /\ playerRooms[PlayerOf[s]] = RoomOf(k, s)
  <1>1. pc[s] \in Serving \ {"leave"}
    <2>1. CASE k = "shown"
      BY <2>1 DEF Held, Watches, InTune, PictureInv
    <2>2. CASE k = "read"
      BY <2>2 DEF InTune, Serving, Handling, AtDatabase
    <2>3. QED
      BY <2>1, <2>2 DEF Pictures
  <1>2. InStep(s)
    BY DEF SerialInv
  <1>3. s \notin closed
    BY <1>1, <1>2 DEF InStep, Serving, Handling, AtDatabase, AtSockets
  <1>4. PlayerOf[s] \in DOMAIN players /\ players[PlayerOf[s]] = s
    BY <1>1, <1>3, SocketAssumption DEF OneSessionPerPlayer, IsRegistered, Get
  <1>5. \A m \in DOMAIN players : players[m] = s => m = PlayerOf[s]
    BY DEF BrokerTypeOK
  <1>6. Subscribed(s) = RoomOf(k, s)
    BY DEF Subscribed, RoomOf, RoomShown, RoomInView, InTune, Pictures
  <1>7. PlayerOf[s] \in DOMAIN playerRooms /\ playerRooms[PlayerOf[s]] = RoomOf(k, s)
    BY <1>1, <1>2, <1>6 DEF InStep
  <1>8. s \in RoomSockets(index, r, excluded) <=> PlayerOf[s] \in Get(index, r, {})
    BY <1>4, <1>5 DEF RoomSockets
  <1>9. QED
    BY <1>7, <1>8

\* The farewell is for those whose picture is of the room that p leaves.
LEMMA AgreesDepart ==
  ASSUME Serial, Types, BrokerTypeOK, RoomIndex', OneSessionPerPlayer, SerialInv,
         SerialInv', PictureInv, [Next]_vars, Followed, NEW a \in Sockets, MoveDepart(a),
         NEW k \in Pictures, NEW s \in Sockets, Keeps(k, s, PlayerOf[a])
  PROVE  Agrees(k, s, PlayerOf[a])'
  <1> DEFINE p == PlayerOf[a]
  <1>0. MoveStep(a)
    BY DEF MoveStep
  <1>1. /\ pc[a] = "move.sent" /\ pc'[a] = "move.depart" /\ room[a] \in Rooms
        /\ audience'[a] = RoomSockets(roomMembers', room[a], {})
    BY SessionAssumption
    DEF MoveDepart, Goto, MoveAndPublish, Types, SessionTypes, BrokerTypeOK, Serving,
        Handling, AtSockets
  <1>2. /\ \A b \in Sockets \ {a} : PlayerOf[b] = p =>
             /\ pc[b] \notin Enroute \cup {"move.arrive"}
             /\ pc'[b] \notin Enroute \cup {"move.arrive"}
        /\ UNCHANGED <<room, dest>> /\ RoomOf(k, s)' = RoomOf(k, s) /\ Agrees(k, s, p)
        /\ p \notin NewlyUnsure(k, s) /\ Held(k, s) /\ pc'[s] = pc[s] /\ PlayerOf[s] # p
    BY <1>0, OwnMove
  <1>3. p \in Names(k, s)' <=> p \in Names(k, s)
    BY <1>1, <1>2, NotTold DEF Tellers, Enroute
  <1>4. RoomOf(k, s) = room[a] => s \in audience'[a]
    <2> SUFFICES ASSUME RoomOf(k, s) = room[a]
                 PROVE  s \in audience'[a]
      OBVIOUS
    <2>1. p \in Announced(s, RoomOf(k, s))
      BY <1>1, <1>2 DEF Announced, Passes
    <2>2. InTune(k, s)
      <3>1. CASE k = "shown"
        BY <1>2, <2>1, <3>1 DEF InTune, NewlyUnsure, Blurred, RoomOf
      <3>2. CASE k = "read"
        BY <1>2, <2>1, <3>2
        DEF InTune, NewlyUnsure, Doubtful, RoomOf, Held, PictureInv, Viewing
      <3>3. QED
        BY <3>1, <3>2 DEF Pictures
    <2>3. s \in audience'[a] <=> PlayerOf[s] \in Get(roomMembers', room[a], {})
      BY <1>1, <1>2, <2>2, Reached
    <2>4. playerRooms[PlayerOf[s]] = room[a] /\ PlayerOf[s] \in DOMAIN playerRooms
      BY <1>2, <2>2, Reached
    <2>5. playerRooms'[PlayerOf[s]] = room[a] /\ PlayerOf[s] \in DOMAIN playerRooms'
      BY <1>2, <2>4 DEF MoveDepart, MoveAndPublish, MoveTo, Put
    <2>6. QED
      BY <1>1, <2>3, <2>5 DEF RoomIndex
  <1>5. p \in Names(k, s)' =>
          RoomOf(k, s)' = dest[a] \/ (s \in audience'[a] /\ RoomOf(k, s)' = room[a])
    BY <1>1, <1>2, <1>3, <1>4 DEF Agrees
  <1>6. Travelling(p, s)'
    BY <1>1 DEF Travelling
  <1>7. QED
    BY <1>1, <1>2, <1>5, <1>6 DEF Agrees, Enroute

\* The news of the arrival is for those whose picture is of the room p comes to.
LEMMA AgreesArrive ==
  ASSUME Serial, Types, BrokerTypeOK, RoomIndex, OneSessionPerPlayer, SerialInv,
         faults = 0, PictureInv, [Next]_vars, Followed, NEW a \in Sockets, MoveArrive(a),
         NEW k \in Pictures, NEW s \in Sockets, Keeps(k, s, PlayerOf[a])
  PROVE  Agrees(k, s, PlayerOf[a])'
  <1> DEFINE p == PlayerOf[a]
  <1>0. MoveStep(a)
    BY DEF MoveStep
  <1>1. /\ pc[a] = "move.depart" /\ pc'[a] = "move.arrive" /\ dest[a] \in Rooms
        /\ audience[a] = {} /\ audience'[a] = RoomSockets(roomMembers, dest[a], {p})
        /\ UNCHANGED currentRoomId
    BY SessionAssumption
    DEF MoveArrive, Goto, PublishToRoom, Types, SessionTypes, BrokerTypeOK, database
  <1>2. /\ \A b \in Sockets \ {a} : PlayerOf[b] = p =>
             /\ pc[b] \notin Enroute \cup {"move.arrive"}
             /\ pc'[b] \notin Enroute \cup {"move.arrive"}
        /\ UNCHANGED <<room, dest>> /\ RoomOf(k, s)' = RoomOf(k, s) /\ Agrees(k, s, p)
        /\ p \notin NewlyUnsure(k, s) /\ Held(k, s) /\ pc'[s] = pc[s] /\ PlayerOf[s] # p
    BY <1>0, OwnMove
  <1>3. p \in Names(k, s)' <=> p \in Names(k, s)
    BY <1>1, <1>2, NotTold DEF Tellers, Enroute
  <1>4. RoomOf(k, s) = dest[a] => s \in audience'[a]
    <2> SUFFICES ASSUME RoomOf(k, s) = dest[a]
                 PROVE  s \in audience'[a]
      OBVIOUS
    <2>1. p \in Announced(s, RoomOf(k, s))
      BY <1>1, <1>2 DEF Announced, Passes
    <2>2. InTune(k, s)
      <3>1. CASE k = "shown"
        BY <1>2, <2>1, <3>1 DEF InTune, NewlyUnsure, Blurred, RoomOf
      <3>2. CASE k = "read"
        BY <1>2, <2>1, <3>2
        DEF InTune, NewlyUnsure, Doubtful, RoomOf, Held, PictureInv, Viewing
      <3>3. QED
        BY <3>1, <3>2 DEF Pictures
    <2>3. s \in audience'[a] <=> PlayerOf[s] \in Get(roomMembers, dest[a], {})
      BY <1>1, <1>2, <2>2, Reached
    <2>4. playerRooms[PlayerOf[s]] = dest[a] /\ PlayerOf[s] \in DOMAIN playerRooms
      BY <1>2, <2>2, Reached
    <2>5. QED
      BY <1>1, <2>3, <2>4 DEF RoomIndex
  <1>5. p \in Names(k, s) => RoomOf(k, s) = dest[a]
    BY <1>1, <1>2 DEF Agrees
  <1>6. currentRoomId'[p] = dest[a]
    BY <1>1 DEF SerialInv, InStep, Loaded, Serving, Handling, AtSockets, Whereabouts
  <1>7. ~Travelling(p, s)' => s \notin audience'[a]
    BY <1>1 DEF Travelling
  <1>8. QED
    BY <1>1, <1>2, <1>3, <1>4, <1>5, <1>6, <1>7 DEF Agrees, Enroute

\* One of p's news is sent, to s or to somebody else.
LEMMA AgreesFanout ==
  ASSUME Serial, Types, BrokerTypeOK, SerialInv, PictureInv, [Next]_vars, Followed,
         faults = 0, NEW a \in Sockets, Fanout(a),
         NEW k \in Pictures, NEW s \in Sockets, Keeps(k, s, PlayerOf[a])
  PROVE  Agrees(k, s, PlayerOf[a])'
  <1> DEFINE p == PlayerOf[a]
  <1>1. /\ UNCHANGED <<pc, room, dest, currentRoomId>>
        /\ \A t \in Sockets \ {a} : audience'[t] = audience[t]
    BY FanoutSteps
  <1>2. CASE ~(pc[a] \in {"move.depart", "move.arrive"} /\ s \in audience[a] \ audience'[a])
    <2>1. \A b \in Tellers(s) : PlayerOf[b] # p
      <3>1. ASSUME NEW b \in Tellers(s)
            PROVE  FALSE
        BY <1>1, <1>2, <3>1 DEF Tellers
      <3>2. QED
        BY <3>1
    <2>2. RoomOf(k, s)' = RoomOf(k, s) /\ Agrees(k, s, p)
      BY KeptAgrees
    <2>3. p \in Names(k, s)' <=> p \in Names(k, s)
      BY <2>1, NotTold
    <2>4. ASSUME NEW b \in Sockets, PlayerOf[b] = p, pc[b] \in {"move.depart", "move.arrive"}
          PROVE  s \in audience'[b] <=> s \in audience[b]
      BY <1>1, <1>2, <2>4, FanoutSteps
    <2>5. QED
      BY <1>1, <2>2, <2>3, <2>4, AgreesStays
  <1>3. CASE pc[a] \in {"move.depart", "move.arrive"} /\ s \in audience[a] \ audience'[a]
    <2>1. /\ \A b \in Sockets \ {a} : PlayerOf[b] = p =>
               pc[b] \notin Enroute \cup {"move.arrive"}
          /\ RoomOf(k, s)' = RoomOf(k, s) /\ Agrees(k, s, p) /\ p \notin NewlyUnsure(k, s)
      BY <1>3, OwnMove
    <2>2. a \in Tellers(s) /\ \A b \in Tellers(s) : PlayerOf[b] = p => b = a
      BY <1>3, <2>1 DEF Tellers, Enroute
    <2>3. NewsRoom(a) = RoomOf(k, s) <=> k = "shown"
      BY <2>1, <2>2, ToldOf
    <2>4. CASE pc[a] = "move.depart"
      <3>1. p \notin Arrived(s) /\ p \in Departed(s)
        BY <2>2, <2>4 DEF Arrived, Departed
      <3>2. p \in Names(k, s)' => k = "read" /\ p \in Names(k, s)
        BY <3>1, PictureGoesOn DEF Pictures
      <3>3. p \in Names(k, s)' => RoomOf(k, s) = dest[a]
        BY <2>1, <2>3, <2>4, <3>2 DEF Agrees, NewsRoom
      <3>4. Travelling(p, s)'
        BY <1>1, <2>4 DEF Travelling
      <3>5. QED
        BY <1>1, <2>1, <2>4, <3>3, <3>4 DEF Agrees, Enroute
    <2>5. CASE pc[a] = "move.arrive"
      <3>1. p \in Arrived(s) /\ p \notin Departed(s)
        BY <2>2, <2>5 DEF Arrived, Departed
      <3>2. /\ k = "shown" => p \in Names(k, s)'
            /\ k = "read" => (p \in Names(k, s)' <=> p \in Names(k, s))
        BY <3>1, PictureGoesOn
      <3>3. p \in Names(k, s) => RoomOf(k, s) = dest[a]
        BY <2>1, <2>5 DEF Agrees
      <3>4. dest[a] = RoomOf(k, s) <=> k = "shown"
        BY <2>3, <2>5 DEF NewsRoom
      <3>5. p \in Names(k, s)' <=> RoomOf(k, s) = dest[a]
        BY <3>2, <3>3, <3>4 DEF Pictures
      <3>6. currentRoomId[p] = dest[a]
        BY <2>5 DEF SerialInv, InStep, Loaded, Serving, Handling, AtSockets, Whereabouts
      <3>7. QED
        BY <1>1, <2>1, <2>5, <3>5, <3>6 DEF Agrees, Enroute
    <2>6. QED
      BY <1>3, <2>4, <2>5
  <1>4. QED
    BY <1>2, <1>3

\* Whatever the step is, if the picture is kept.
LEMMA AgreesKept ==
  ASSUME Serial, Types, BrokerTypeOK, RoomIndex, RoomIndex', OneSessionPerPlayer,
         SerialInv, SerialInv', PictureInv, [Next]_vars, Followed,
         NEW k \in Pictures, NEW s \in Sockets, NEW p, Keeps(k, s, p)
  PROVE  Agrees(k, s, p)'
  <1>1. faults = 0
    BY DEF Serial, Types
  <1>2. CASE Still \/ \E a \in Sockets : Elsewhere(a)
    BY <1>2, AgreesElsewhere, KeptAgrees DEF Watches
  <1>3. ASSUME NEW a \in Sockets, MoveStep(a) \/ Fanout(a), PlayerOf[a] # p
        PROVE  Agrees(k, s, p)'
    BY <1>3, AgreesOthers
  <1>4. ASSUME NEW a \in Sockets, MoveStep(a) \/ Fanout(a), PlayerOf[a] = p
        PROVE  Agrees(k, s, p)'
    BY <1>1, <1>4, AgreesUpdate, AgreesEnter, AgreesDepart, AgreesArrive, AgreesFanout
    DEF MoveStep
  <1>5. QED
    BY <1>2, <1>3, <1>4, Kinds

-------------------------------------------------------------------------------
(* A view that is sent is as good as what was read.                        *)

LEMMA AgreesSent ==
  ASSUME Serial, Types, BrokerTypeOK, PictureInv, [Next]_vars, Followed,
         NEW s \in Sockets, Watches(s)', ViewSent(s),
         NEW p \in Players \ ({PlayerOf[s]} \cup hazy'[s])
  PROVE  Agrees("shown", s, p)'
  <1>1. pc[s] \in Viewing /\ pc'[s] # pc[s]
    BY DEF ViewSent, Passes, Viewing
  <1>2. s \in DOMAIN view /\ seen'[s] = view[s] /\ hazy'[s] = doubt[s]
    BY DEF Followed
  <1>3. Agrees("read", s, p)
    BY <1>2 DEF PictureInv, Pictures, Held, Unsure
  <1>4. Elsewhere(s) \/ MoveStep(s)
    <2>1. ~Still /\ \A a \in Sockets : ~Fanout(a)
      BY <1>1, FanoutSteps DEF Still
    <2>2. \A a \in Sockets : Elsewhere(a) \/ MoveStep(a) => a = s
      BY <1>1, MoveSteps DEF Elsewhere, OthersWait
    <2>3. QED
      BY <2>1, <2>2, Kinds
  <1>5. OthersWait(s) /\ currentRoomId'[p] = currentRoomId[p]
    BY <1>4, MoveSteps DEF Elsewhere
  <1>6. RoomShown(s)' = RoomInView(s)
    <2>1. CASE Elsewhere(s)
      BY <1>1, <2>1
      DEF Elsewhere, ViewSent, Passes, RoomShown, RoomInView, Shown, Serving, Enroute
    <2>2. CASE MoveStep(s)
      BY <1>1, <2>2, MoveSteps DEF ViewSent, Passes, RoomShown, RoomInView
    <2>3. QED
      BY <1>4, <2>1, <2>2
  <1>7. /\ RoomOf("shown", s)' = RoomOf("read", s)
        /\ p \in Names("shown", s)' <=> p \in Names("read", s)
    BY <1>2, <1>6 DEF RoomOf, Names
  <1>8. \A b \in Sockets : PlayerOf[b] = p =>
          pc'[b] = pc[b] /\ room'[b] = room[b] /\ dest'[b] = dest[b]
            /\ audience'[b] = audience[b]
    BY <1>5 DEF OthersWait
  <1>9. QED
    BY <1>3, <1>5, <1>7, <1>8, AgreesStays DEF Pictures

LEMMA PictureNext ==
  ASSUME Serial, Types, BrokerTypeOK, RoomIndex, RoomIndex', OneSessionPerPlayer,
         SerialInv, SerialInv', PictureInv, [Next]_vars, Followed
  PROVE  PictureInv'
  <1>1. DOMAIN seen' = Sockets /\ DOMAIN hazy' = Sockets /\ DOMAIN doubt' = Sockets
    BY DEF Followed
  <1>2. \A s \in DOMAIN view' : s \in Sockets /\ pc'[s] \in Viewing
    BY DEF Followed, PictureInv
  <1>3. ASSUME NEW s \in Sockets, pc'[s] = "leave"
        PROVE  s \in gone' \cup closed'
    <2>1. CASE Still \/ \E a \in Sockets : Elsewhere(a)
      BY <1>3, <2>1 DEF Still, Elsewhere, OthersWait, PictureInv
    <2>2. CASE \E a \in Sockets : Fanout(a)
      BY <1>3, <2>2, FanoutSteps DEF PictureInv
    <2>3. CASE \E a \in Sockets : MoveStep(a)
      BY <1>3, <2>3, MoveSteps DEF OthersWait, Passes, PictureInv
    <2>4. QED
      BY <2>1, <2>2, <2>3, Kinds
  <1>4. ASSUME NEW k \in Pictures, NEW s \in Sockets, Held(k, s)',
               NEW p \in Players \ ({PlayerOf[s]} \cup Unsure(k, s)')
        PROVE  Agrees(k, s, p)'
    <2>1. CASE k = "shown" /\ ViewSent(s)
      BY <1>4, <2>1, AgreesSent DEF Held, Unsure
    <2>2. CASE ~(k = "shown" /\ ViewSent(s))
      BY <1>4, <2>2, AgreesKept DEF Keeps
    <2>3. QED
      BY <2>1, <2>2
  <1>5. QED
    BY <1>1, <1>2, <1>3, <1>4 DEF PictureInv

\* What is read is what the documents say at that moment.
LEMMA PictureRead ==
  ASSUME Serial, Types, SerialInv, PictureInv, NEW a \in Sockets, ReadOccupants(a)
  PROVE  PictureInv'
  <1>1. /\ UNCHANGED <<vars, seen, hazy, doubt>> /\ pc[a] \in Viewing
        /\ DOMAIN view' = DOMAIN view \cup {a}
        /\ view'[a] = Occupants(a, RoomInView(a))
        /\ \A t \in DOMAIN view \ {a} : view'[t] = view[t]
    BY DEF ReadOccupants, Put
  <1>2. UNCHANGED <<pc, room, dest, gone, currentRoomId, closed, audience>>
    BY <1>1 DEF vars, locals, database, brokerVars
  <1>3. ASSUME NEW k \in Pictures, NEW s \in Sockets, Held(k, s)',
               NEW p \in Players \ ({PlayerOf[s]} \cup Unsure(k, s)')
        PROVE  Agrees(k, s, p)'
    <2>1. RoomOf(k, s)' = RoomOf(k, s)
      BY <1>2 DEF RoomOf, RoomShown, RoomInView
    <2>2. CASE k = "read" /\ s = a
      <3>1. p \in Names(k, s)' <=> currentRoomId'[p] = RoomOf(k, s)'
        BY <1>1, <1>2, <2>1, <2>2 DEF Names, Occupants, RoomOf
      <3>2. \A b \in Sockets : PlayerOf[b] = p /\ pc[b] \in Enroute \cup {"move.arrive"}
              => currentRoomId[p] = dest[b]
        BY DEF Serial, Types, SerialInv, InStep, Loaded, Serving, Handling, AtDatabase,
               AtSockets, Whereabouts, Enroute
      <3>3. QED
        BY <1>2, <3>1, <3>2 DEF Agrees, Enroute
    <2>3. CASE ~(k = "read" /\ s = a)
      <3>1. Held(k, s) /\ Unsure(k, s)' = Unsure(k, s) /\ Names(k, s)' = Names(k, s)
        BY <1>1, <1>2, <1>3, <2>3 DEF Held, Watches, Unsure, Names, Pictures
      <3>2. Agrees(k, s, p)
        BY <3>1 DEF PictureInv
      <3>3. Travelling(p, s)' <=> Travelling(p, s)
        BY <1>2 DEF Travelling
      <3>4. QED
        BY <1>2, <2>1, <3>1, <3>2, <3>3 DEF Agrees
    <2>4. QED
      BY <2>2, <2>3
  <1>4. QED
    BY <1>1, <1>2, <1>3 DEF PictureInv

\* Watching changes nothing of the game.
LEMMA PresencePlays == PresenceSpec => Spec
  <1>1. PresenceInit => Init
    BY DEF PresenceInit
  <1>2. [PresenceNext]_presenceVars => [Next]_vars
    BY DEF PresenceNext, presenceVars, ReadOccupants
  <1>3. QED
    BY <1>1, <1>2, PTL DEF PresenceSpec, Spec

(***************************************************************************)
(* When the sessions of a player follow one another and the database does  *)
(* not fail, what a client was shown and has been told since adds up to    *)
(* what the documents say of every player who is not on the way -- though  *)
(* a view is read before it is sent, and sent before the client is         *)
(* subscribed to the room, and the document is written before anybody is   *)
(* told, one by one -- except of those of hazy.                            *)
(***************************************************************************)
THEOREM PictureStaysRight ==
  ASSUME Serial
  PROVE  PresenceSpec => []PictureRight
  <1>1. Spec => [](BrokerTypeOK /\ RoomIndex)
    BY GameServerRunsBroker, BrokerSafe, PTL DEF ImplementsBroker
  <1>2. PresenceInit => PictureInv
    BY DEF PresenceInit, Init, PictureInv, Held, Watches, Serving, Handling, AtDatabase,
           AtSockets, Pictures
  <1>3. /\ Types /\ BrokerTypeOK /\ RoomIndex /\ RoomIndex' /\ OneSessionPerPlayer
        /\ SerialInv /\ SerialInv' /\ PictureInv /\ [PresenceNext]_presenceVars
        => PictureInv'
    <2> SUFFICES ASSUME Types, BrokerTypeOK, RoomIndex, RoomIndex', OneSessionPerPlayer,
                        SerialInv, SerialInv', PictureInv,
                        PresenceNext \/ UNCHANGED presenceVars
                 PROVE  PictureInv'
      OBVIOUS
    <2>1. CASE Next /\ Followed
      BY <2>1, PictureNext
    <2>2. CASE \E s \in Sockets : ReadOccupants(s)
      BY <2>2, PictureRead
    <2>3. CASE UNCHANGED presenceVars
      BY <2>3
      DEF presenceVars, vars, locals, database, brokerVars, PictureInv, Held, Watches,
          Unsure, Names, RoomOf, RoomShown, RoomInView, Agrees, Travelling
    <2>4. QED
      BY <2>1, <2>2, <2>3 DEF PresenceNext
  <1>4. PictureInv => PictureRight
    BY DEF PictureInv, PictureRight, Agrees, Pictures, Held, Names, RoomOf, Unsure
  <1>5. Successive
    BY DEF Serial
  <1>6. QED
    BY <1>1, <1>2, <1>3, <1>4, <1>5, PresencePlays, TypesAlways, SessionsUnique, SerialAlways,
       PTL DEF PresenceSpec
===============================================================================
