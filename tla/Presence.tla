------------------------------- MODULE Presence -------------------------------
(***************************************************************************)
(* What the clients of the game server know of each other.  A client is    *)
(* shown its room by server.welcome, server.room.entered and the answer to *)
(* look, from the players documents; from then on it is told of arrivals   *)
(* and departures, by the broker's room index.  Two sources, read at       *)
(* different moments and sent at others: seen[s] follows what the client   *)
(* of session s makes of what reaches it, in the order it is sent.         *)
(*                                                                         *)
(* A view is read at one await and sent after it, so that news may go out  *)
(* between the two.  News is taken for whom the snapshot names, but every  *)
(* send is a task of its own: it starts when Deliver takes the connection  *)
(* off the audience, and a view may overtake it.                           *)
(***************************************************************************)
EXTENDS GameServer

VARIABLES seen,         \* the players the client takes to be in its room
          hazy,         \* those of whom it missed, or misread, a coming or going
          view,         \* the names read for a view that is not yet sent
          doubt         \* those who came or went since it was read

presenceVars == <<vars, seen, hazy, view, doubt>>

Passes(s, from, to) == pc[s] = from /\ pc'[s] = to

\* There is somebody at the other end who was shown a room.
Watches(s) == pc[s] \in {"welcome"} \cup Serving /\ s \notin gone \cup closed

\* The room that the client of s was last shown.
RoomShown(s) ==
  IF pc[s] \in {"move.sent", "move.depart", "move.arrive"} THEN dest[s] ELSE room[s]

-------------------------------------------------------------------------------
(* Views.                                                                  *)

Viewing == {"view", "move.view", "look"}
RoomInView(s) == IF pc[s] = "move.view" THEN dest[s] ELSE room[s]

\* The names in a room view: other players whose document says so.
Occupants(s, r) == {p \in Players \ {PlayerOf[s]} : currentRoomId[p] = r}

\* The query for the other players in the room is answered.
ReadOccupants(s) ==
  /\ pc[s] \in Viewing /\ s \notin DOMAIN view
  /\ view' = Put(view, s, Occupants(s, RoomInView(s)))
  /\ UNCHANGED <<vars, seen, hazy, doubt>>

\* This step sends the view (and is not an error that ends the handler).
ViewSent(s) ==
  \/ Passes(s, "view", "welcome")
  \/ Passes(s, "move.view", "move.sent")
  \/ Passes(s, "look", "recv") /\ faults' = faults

-------------------------------------------------------------------------------
(* News.                                                                   *)

\* The room whose members a handler tells that its player has gone, or come.
NewsRoom(b) == IF pc[b] = "move.depart" THEN room[b] ELSE dest[b]

\* The handlers whose news of a coming or going this step sends to s.
Tellers(s) ==
  {b \in Sockets : pc[b] \in {"move.depart", "move.arrive"} /\ s \in audience[b] \ audience'[b]}

Arrived(s) == {PlayerOf[b] : b \in {a \in Tellers(s) : pc[a] = "move.arrive"}}
Departed(s) == {PlayerOf[b] : b \in {a \in Tellers(s) : pc[a] = "move.depart"}}

\* Others whose coming to r, or going, is published by this step.
Announced(s, r) ==
  {PlayerOf[b] : b \in {a \in Sockets :
     /\ PlayerOf[a] # PlayerOf[s]
     /\ \/ Passes(a, "move.sent", "move.depart") /\ room[a] = r
        \/ Passes(a, "move.depart", "move.arrive") /\ dest[a] = r}}

\* Players whose move ends between the document and the broadcasts.
CutOff ==
  {PlayerOf[b] : b \in {a \in Sockets :
     pc[a] = "move.view" /\ pc'[a] \notin {"move.view", "move.sent"}}}

\* Comings and goings that this step makes s miss, being shown a room that the
\* broker does not have it in, or misread, being told of a room it was shown before.
Blurred(s) ==
  (IF pc[s] \in {"welcome", "move.sent"} THEN Announced(s, RoomShown(s)) ELSE {})
  \cup {PlayerOf[b] : b \in {a \in Tellers(s) : NewsRoom(a) # RoomShown(s)}}
  \cup CutOff

\* Comings and goings that make the view read for s out of date: its client misses
\* them, or is told of them before the view is sent.
Doubtful(s) ==
  (IF pc[s] \in {"view", "move.view"} THEN Announced(s, RoomInView(s)) ELSE {})
  \cup {PlayerOf[b] : b \in {a \in Tellers(s) : NewsRoom(a) = RoomInView(s)}}
  \cup CutOff

-------------------------------------------------------------------------------
PresenceInit ==
  /\ Init
  /\ seen = [s \in Sockets |-> {}]
  /\ hazy = [s \in Sockets |-> {}]
  /\ view = << >>
  /\ doubt = [s \in Sockets |-> {}]

\* What a step of the server does to what the clients know.
Followed ==
  /\ \A s \in Sockets : ViewSent(s) => s \in DOMAIN view
  /\ view' = [s \in {t \in DOMAIN view : pc'[t] = pc[t]} |-> view[s]]
  /\ doubt' = [s \in Sockets |->
       IF s \in DOMAIN view' THEN doubt[s] \cup Doubtful(s) ELSE {}]
  /\ seen' = [s \in Sockets |->
       IF ~Watches(s)' THEN {}
       ELSE IF ViewSent(s) THEN view[s]
       ELSE (seen[s] \cup Arrived(s)) \ Departed(s)]
  /\ hazy' = [s \in Sockets |->
       IF ~Watches(s)' THEN {}
       ELSE IF ViewSent(s) THEN doubt[s]
       ELSE hazy[s] \cup Blurred(s)]

PresenceNext ==
  \/ Next /\ Followed
  \/ \E s \in Sockets : ReadOccupants(s)

PresenceSpec == PresenceInit /\ [][PresenceNext]_presenceVars

-------------------------------------------------------------------------------
\* Between the update of p's document and the last news of it that s gets.
Travelling(p, s) ==
  \E b \in Sockets :
    /\ PlayerOf[b] = p
    /\ \/ pc[b] \in {"move.view", "move.sent", "move.depart"}
       \/ pc[b] = "move.arrive" /\ s \in audience[b]

(***************************************************************************)
(* When a player's sessions follow one another and the database does not   *)
(* fail, what a client was shown and told since adds up to what the        *)
(* documents say: of every player who is not on the way, it knows whether  *)
(* it is in the room.  Excepted, until the next view, are those whose news *)
(* went out while the client was shown one room and registered in another  *)
(* (or none), those whose news of an earlier room reached it late, those   *)
(* who came or went between the reading of the last view and its sending,  *)
(* and those whose connection broke between the update of their document   *)
(* and the broadcasts -- the sets Blurred and Doubtful.                    *)
(***************************************************************************)
PictureRight ==
  \A s \in Sockets : Watches(s) =>
    \A p \in Players \ ({PlayerOf[s]} \cup hazy[s]) :
      Travelling(p, s) \/ (p \in seen[s] <=> currentRoomId[p] = RoomShown(s))

(***************************************************************************)
(* Players who stand in one room, at rest, know of each other              *)
(* (server.player.arrived is "Sent to everyone in a room when another      *)
(* player enters", asyncapi.yaml).                                         *)
(***************************************************************************)
NobodyUnseen ==
  \A s, t \in Sockets :
    /\ Watches(s) /\ pc[s] = "recv" /\ pc[t] = "recv"
    /\ PlayerOf[s] # PlayerOf[t] /\ room[s] = room[t]
    => PlayerOf[t] \in seen[s]
===============================================================================
