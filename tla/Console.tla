-------------------------------- MODULE Console --------------------------------
(***************************************************************************)
(* The tab of module Client and the sessions at the other end of its       *)
(* sockets: what is typed is parsed, sent, read and answered by the        *)
(* dispatcher of websocket.py, and shown.  A session is known by its       *)
(* socket.  What the game makes of a command is any of the answers it may  *)
(* get (module GameServer has the rest); frames of other clients (ping,    *)
(* unknown types, bad JSON) are left out.                                  *)
(***************************************************************************)
EXTENDS Client, Integers, Sequences, FiniteSets, Functions

CONSTANTS Lines,        \* what the user types: [head, args]
          InFlight      \* bound on the commands that are not yet answered

ASSUME LineAssumption == \A line \in Lines : line.args \in {"none", "some", "long"}
ASSUME InFlightAssumption == InFlight \in Nat

VARIABLES session,      \* "none", "starting", "serving", or how it ended
          registered,   \* the socket the broker has for the tab's player
          up, down,     \* frames not yet read by the server, by the client
          awaited       \* commands of the game on the screen, not yet answered

server == <<session, registered, up, down, awaited>>
consoleVars == <<vars, server>>

Ends == {"quit", "replaced", "characterless", "failed"}

-------------------------------------------------------------------------------
(* Messages.                                                               *)

Message(type, data) == [type |-> type, data |-> data]
NoMessage == Message("none", "none")

Directions == {"north", "up"}
\* "head in DIRECTION_ALIASES" finds what every object inherits, too.
Inherited == {"constructor"}
Chat == {"say", "shout"}
Targeted == {"take", "drop"}
Bare == {"inventory", "who", "quit"}

\* parseCommand.  Without a message there is a hint: usage, help, or unknown.
Parse(line) ==
  IF line.head \in Directions THEN Message("move", "direction")
  ELSE IF line.head \in Inherited THEN Message("move", "none")
  ELSE IF \/ line.head \in Chat \cup Targeted /\ line.args # "none"
          \/ line.head = "look"
  THEN Message(line.head, line.args)
  ELSE IF line.head \in Bare THEN Message(line.head, "none") ELSE NoMessage

\* What the pydantic models let through; an empty target is refused later.
Valid(m) ==
  /\ m.type = "move" => m.data = "direction"
  /\ m.type \in Chat => m.data = "some"
  /\ m.type \in Targeted => m.data # "none"

\* The types of the frames that may answer m.  A speaker is told its own line if
\* the broker still has it in the room it speaks to, and nothing otherwise: the
\* frame "silence" is not sent, it keeps the place where the echo would be.
Answers(m) ==
  CASE ~Valid(m)         -> {"BAD_PAYLOAD"}
    [] m.type = "move"   -> {"server.room.entered", "server.error"}
    [] m.type = "look"   -> {IF m.data = "none" THEN "server.room.entered"
                                                ELSE "server.examine.result",
                             "server.error"}
    [] m.type \in Chat   -> {"server.chat", "silence"}
    [] m.type = "who"    -> {"server.who.list", "server.error"}
    [] OTHER             -> {"server.inventory.updated", "server.error"}

\* News of others: arrivals, departures, items, chat, NPCs.
News == [type |-> "news", to |-> NoMessage]
Welcomed == [type |-> "server.welcome", to |-> NoMessage]
Refusal == [type |-> "server.error", to |-> NoMessage]
Reply(a, m) == [type |-> a, to |-> m]

-------------------------------------------------------------------------------
ConsoleInit ==
  /\ Init
  /\ session = [s \in Sockets |-> "none"]
  /\ registered = NoSocket
  /\ up = [s \in Sockets |-> << >>] /\ down = [s \in Sockets |-> << >>]
  /\ awaited = << >>

\* A step after which the sessions are now and these frames are on their way;
\* those that nobody will read are dropped, and how a session ended is
\* forgotten once the tab cannot hear of it.
Wires(now, ups, downs, commands) ==
  /\ session' = [s \in Sockets |->
       IF now[s] \notin Ends \/ ready'[s] = "open" THEN now[s]
       ELSE IF ready'[s] = "unused" THEN "none" ELSE "failed"]
  /\ up' = [s \in Sockets |-> IF session'[s] \notin Ends /\ ready'[s] = "open" THEN ups[s] ELSE << >>]
  /\ down' = [s \in Sockets |-> IF ready'[s] = "open" THEN downs[s] ELSE << >>]
  /\ awaited' = IF \E s \in Sockets : socketRef = s /\ socketRef' = s /\ ready'[s] = "open"
                THEN commands ELSE << >>

Send(queue, s, frame) == [queue EXCEPT ![s] = Append(@, frame)]
Become(s, now) == [session EXCEPT ![s] = now]

-------------------------------------------------------------------------------
(* The tab.                                                                *)

\* What the server does not notice at once.
TabAlone ==
  /\ \/ \E p \in Pages : Browse(p)
     \/ Reload \/ SubmitLogin \/ LoginAnswered \/ SignOut \/ ListAnswered \/ Create
     \/ Expire
     \/ \E s \in Sockets :
          \/ session[s] = "none" /\ (TokenRefused(s) \/ Unreachable(s))
          \/ Closed(s)
  \* a socket that is used again is a new one
  /\ \A s \in Sockets : ready[s] = "unused" /\ ready'[s] # "unused" => session[s] = "none"
  /\ Wires(session, up, down, awaited)
  /\ UNCHANGED registered

\* A line is parsed and its message sent.
Type(line) ==
  LET m == Parse(line) IN
  /\ page = "/play" /\ MayType /\ m # NoMessage
  /\ Len(awaited) < InFlight
  /\ IF m.type = "quit" THEN Quit ELSE UNCHANGED vars
  /\ IF ready[socketRef] = "open"
     THEN Wires(session, Send(up, socketRef, m), down, Append(awaited, m))
     ELSE Wires(session, up, down, awaited)
  /\ UNCHANGED registered

\* onmessage: a line in the console.
Receive(s) ==
  /\ ready[s] = "open" /\ down[s] # << >>
  /\ UNCHANGED vars
  /\ Wires(session, up, [down EXCEPT ![s] = Tail(@)],
           IF Head(down[s]).to = NoMessage THEN awaited ELSE Tail(awaited))
  /\ UNCHANGED registered

\* Mutant of CloseCode: being replaced is a policy violation.
CloseCodePolicy(end) ==
  IF end = "quit" THEN 1000
  ELSE IF end \in {"replaced", "characterless"} THEN 1008 ELSE 1011

CloseCode(end) ==
  IF end \in {"quit", "replaced"} THEN 1000
  ELSE IF end = "characterless" THEN 1008 ELSE 1011

\* The server's close comes after all that it sent.
ServerClosed(s) ==
  /\ ready[s] = "open" /\ session[s] \in Ends /\ down[s] = << >>
  /\ OnClose(s, CloseCode(session[s]))
  /\ Wires(session, up, down, awaited)
  /\ UNCHANGED registered

\* The connection breaks.
Broken(s) ==
  /\ ready[s] = "open"
  /\ OnClose(s, 1006)
  /\ Wires(session, up, down, awaited)
  /\ UNCHANGED registered

-------------------------------------------------------------------------------
(* The server.                                                             *)

\* accept(): at once known to the tab, unless it has closed the socket already.
Accept(s) ==
  /\ session[s] = "none" /\ token = "good"
  /\ OnOpen(s) \/ (ready[s] = "closing" /\ UNCHANGED vars)
  /\ Wires(Become(s, "starting"), up, down, awaited)
  /\ UNCHANGED registered

\* The welcome is sent, and the broker displaces whom it had.
Enter(s) ==
  /\ session[s] = "starting" /\ hasCharacter
  /\ UNCHANGED vars
  /\ registered' = s
  /\ Wires([t \in Sockets |-> IF t = s THEN "serving"
                             ELSE IF t = registered THEN "replaced" ELSE session[t]],
           up, Send(down, s, Welcomed), awaited)

\* No character, or no room; or the database fails, and nothing is said.
TurnAway(s) ==
  /\ session[s] = "starting"
  /\ UNCHANGED <<vars, registered>>
  /\ \/ /\ ~hasCharacter
        /\ Wires(Become(s, "characterless"), up, Send(down, s, Refusal), awaited)
     \/ \E told \in {down, Send(down, s, Refusal)} :
          Wires(Become(s, "failed"), up, told, awaited)

\* The session is over, and its finally clause run.
End(s, how) ==
  /\ registered' = IF registered = s THEN NoSocket ELSE registered
  /\ Wires(Become(s, how), up, down, awaited)

\* Mutants of Read: quit does not end the loop; an invalid payload is not answered.
ReadOn(s) ==
  /\ session[s] = "serving" /\ up[s] # << >>
  /\ UNCHANGED <<vars, registered>>
  /\ LET m == Head(up[s]) IN
     \E a \in Answers(m) :
       Wires(session, [up EXCEPT ![s] = Tail(@)], Send(down, s, Reply(a, m)), awaited)
ReadSilently(s) ==
  /\ session[s] = "serving" /\ up[s] # << >>
  /\ UNCHANGED vars
  /\ LET m == Head(up[s]) IN
     IF m.type = "quit" THEN End(s, "quit")
     ELSE /\ UNCHANGED registered
          /\ \E a \in Answers(m) :
               Wires(session, [up EXCEPT ![s] = Tail(@)],
                     IF Valid(m) THEN Send(down, s, Reply(a, m)) ELSE down, awaited)

\* One turn of the loop: quit, or an answer.
Read(s) ==
  /\ session[s] = "serving" /\ up[s] # << >>
  /\ UNCHANGED vars
  /\ LET m == Head(up[s]) IN
     IF m.type = "quit" THEN End(s, "quit")
     ELSE /\ UNCHANGED registered
          /\ \E a \in Answers(m) :
               Wires(session, [up EXCEPT ![s] = Tail(@)], Send(down, s, Reply(a, m)), awaited)

\* receive_text raises: the tab has closed the socket, or the connection broke.
HangUp(s) ==
  /\ session[s] = "serving" /\ ready[s] \notin {"connecting", "open"}
  /\ UNCHANGED vars
  /\ End(s, "failed")

\* A session of the same player elsewhere.
Replaced(s) ==
  /\ registered = s
  /\ UNCHANGED vars
  /\ End(s, "replaced")

\* A broadcast.  (Bound: the news on its way stands for all that follows it.)
Tell(s) ==
  /\ registered = s
  /\ News \notin Range(down[s])
  /\ UNCHANGED <<vars, registered>>
  /\ Wires(session, up, Send(down, s, News), awaited)

ConsoleNext ==
  \/ TabAlone
  \/ \E line \in Lines : Type(line)
  \/ \E s \in Sockets :
       \/ Receive(s) \/ ServerClosed(s) \/ Broken(s)
       \/ Accept(s) \/ Enter(s) \/ TurnAway(s) \/ Read(s) \/ HangUp(s)
       \/ Replaced(s) \/ Tell(s)

ConsoleSpec == ConsoleInit /\ [][ConsoleNext]_consoleVars

\* The event loops of both sides run what can run.
ConsoleFairSpec ==
  /\ ConsoleSpec
  /\ \A s \in Sockets :
       /\ WF_consoleVars(Enter(s) \/ TurnAway(s) \/ Read(s))
       /\ WF_consoleVars(Receive(s) \/ ServerClosed(s))

-------------------------------------------------------------------------------
ConsoleTypeOK ==
  /\ TypeOK
  /\ session \in [Sockets -> {"none", "starting", "serving"} \cup Ends]
  /\ registered \in Sockets \cup {NoSocket}
  /\ \A s \in Sockets : session[s] = "serving" <=> registered = s
  /\ \A s \in Sockets : Len(up[s]) <= InFlight /\ Len(down[s]) <= InFlight + 2

\* Of the first i frames of a queue, those that answer a command.
IsReply(frame) == frame.to # NoMessage
Replies(queue, i) == Cardinality({j \in 1 .. i : IsReply(queue[j])})

(***************************************************************************)
(* Each command is answered once and in its turn: as long as the session   *)
(* serves, the commands not yet answered in the console are those whose    *)
(* answers are on their way, followed by those not yet read.  The console  *)
(* shows answers without saying to what (handleServer), so that this is    *)
(* all a player can tell them by; chat that the speaker does not hear has  *)
(* its turn as well, in silence.                                           *)
(***************************************************************************)
RepliesInOrder ==
  \A s \in Sockets : s = socketRef /\ ready[s] = "open" /\ session[s] \notin Ends =>
    LET k == Replies(down[s], Len(down[s])) IN
    /\ Len(awaited) = k + Len(up[s])
    /\ \A i \in 1 .. Len(up[s]) : awaited[k + i] = up[s][i]
    /\ \A i \in 1 .. Len(down[s]) : IsReply(down[s][i]) =>
         awaited[Replies(down[s], i)] = down[s][i].to

(***************************************************************************)
(* The sessions of the server are the environment that module Client takes *)
(* for granted: a quit is answered, closes come with the codes it expects, *)
(* and nothing else ends a game.                                           *)
(***************************************************************************)
ImplementsClient == Spec
===============================================================================
