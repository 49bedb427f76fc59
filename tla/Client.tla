-------------------------------- MODULE Client --------------------------------
(***************************************************************************)
(* One browser tab of client/src: the page shown, the token in local       *)
(* storage, and the callbacks of the game's WebSockets, which arrive       *)
(* whenever the browser gets to them -- after the page that opened the     *)
(* socket is gone, too.                                                    *)
(*                                                                         *)
(* An action is one callback or one thing the user does, with the render   *)
(* and the effects that follow it.  The server is what it looks like from  *)
(* here: it accepts, refuses and closes connections.                       *)
(***************************************************************************)
CONSTANTS Sockets,      \* GameSocket objects; one that is over is used again
          NoSocket,
          StrictMode    \* does React mount effects twice (development)?

ASSUME ClientAssumption == NoSocket \notin Sockets /\ StrictMode \in BOOLEAN

VARIABLES page,         \* the route shown
          token,        \* "none", "good", or "expired": refused by the server
          hasCharacter, \* does the token's account have one?
          pending,      \* requests whose answers the page still waits for
          ready,        \* each WebSocket's readyState
          active,       \* sockets whose callbacks are heeded
          socketRef, connected, status,
          quitting      \* quittingRef

game == <<page, ready, active, socketRef, connected, status, quitting>>
vars == <<game, token, hasCharacter, pending>>

Pages == {"/", "/characters", "/play"}

Init ==
  /\ page = "/" /\ token = "none" /\ pending = {}
  /\ hasCharacter \in BOOLEAN
  /\ ready = [s \in Sockets |-> "unused"]
  /\ active = {} /\ socketRef = NoSocket
  /\ connected = FALSE /\ status = "connecting" /\ quitting = FALSE

-------------------------------------------------------------------------------
(* Rendering: what mounting and unmounting a page does.                    *)

\* Mutant of Shown: no RequireAuth.
ShownAnyway(p) == p

\* RequireAuth sends whoever is not signed in to the login page.
Shown(p) == IF token' = "none" THEN "/" ELSE p

\* ws.close()
CloseCalled(state) ==
  IF state \in {"connecting", "open"} THEN "closing"
  ELSE IF state = "closed" THEN "unused" ELSE state

\* Mutant of Cleanup: the socket is forgotten, not closed.
CleanupForgets(sockets) ==
  /\ active' = active \ {socketRef}
  /\ ready' = sockets

\* The effect's clean-up: close the socket and heed it no longer.
Cleanup(sockets) ==
  /\ active' = active \ {socketRef}
  /\ ready' = [s \in Sockets |-> IF s = socketRef THEN CloseCalled(sockets[s])
                                                  ELSE sockets[s]]

\* The effect: a new socket for a new component.  StrictMode runs it, its
\* clean-up and it again, so that a first socket is closed while connecting.
Mount ==
  \E s \in Sockets :
    /\ ready[s] = "unused"
    /\ socketRef' = s /\ active' = active \cup {s}
    /\ connected' = FALSE /\ status' = "connecting" /\ quitting' = FALSE
    /\ IF StrictMode
       THEN \E t \in Sockets \ {s} :
              /\ ready[t] = "unused"
              /\ ready' = [ready EXCEPT ![s] = "connecting", ![t] = "closing"]
       ELSE ready' = [ready EXCEPT ![s] = "connecting"]

\* The page becomes p; sockets gives the readyStates the callback left.
Show(p, sockets) ==
  /\ page' = Shown(p)
  /\ \/ page # "/play" /\ page' = "/play" /\ Mount
     \/ /\ page = "/play" /\ page' # "/play"
        /\ Cleanup(sockets)
        /\ socketRef' = NoSocket
        /\ connected' = FALSE /\ status' = "connecting" /\ quitting' = FALSE
     \/ /\ page = "/play" <=> page' = "/play"
        /\ ready' = sockets
        /\ UNCHANGED <<active, socketRef, connected, status, quitting>>

\* Mutant of Awaiting: the list still awaited is not cancelled.
AwaitingAll(p) == pending \cup (IF p = "/characters" THEN {"list"} ELSE {})

\* The character page asks for the list; any other page cancels that.
Awaiting(p) ==
  (pending \ {"list"}) \cup (IF p = "/characters" THEN {"list"} ELSE {})

Goto(p, sockets) == Show(p, sockets) /\ pending' = Awaiting(page')

-------------------------------------------------------------------------------
(* What the user does.                                                     *)

\* The Play button, a link, or the browser's Back and Forward.
Browse(p) ==
  /\ p # page
  /\ UNCHANGED <<token, hasCharacter>>
  /\ Goto(p, ready)

\* A new document: nothing but local storage remains, and no callback comes.
\* (One at another address is this and a Browse.)
Reload ==
  /\ UNCHANGED <<token, hasCharacter>>
  /\ page' = "/" /\ pending' = {}
  /\ ready' = [s \in Sockets |-> "unused"]
  /\ active' = {} /\ socketRef' = NoSocket
  /\ connected' = FALSE /\ status' = "connecting" /\ quitting' = FALSE

\* Sign in, or register.
SubmitLogin ==
  /\ page = "/" /\ "login" \notin pending
  /\ pending' = pending \cup {"login"}
  /\ UNCHANGED <<game, token, hasCharacter>>

\* The form's promise is not cancelled when another page has been opened.
LoginAnswered ==
  /\ "login" \in pending
  /\ \/ /\ pending' = pending \ {"login"}
        /\ UNCHANGED <<game, token, hasCharacter>>
     \/ /\ token' = "good"
        /\ hasCharacter' \in BOOLEAN
        /\ Show("/characters", ready)
        /\ pending' = {"list"}

SignOut ==
  /\ page = "/characters"
  /\ token' = "none"
  /\ Goto("/", ready)
  /\ UNCHANGED hasCharacter

\* 401 signs the user out; any other answer is only shown.
ListAnswered ==
  /\ "list" \in pending
  /\ pending' = pending \ {"list"}
  /\ IF token = "expired" THEN token' = "none" /\ Show("/", ready)
                          ELSE UNCHANGED <<token, game>>
  /\ UNCHANGED hasCharacter

Create ==
  /\ page = "/characters" /\ token = "good"
  /\ hasCharacter' = TRUE
  /\ UNCHANGED <<game, token, pending>>

\* Mutant of MayType: the console takes input at any time.
MayTypeAlways == TRUE

\* The console's input is disabled unless connected.
MayType == connected

\* The quit command is typed, and sent.
Quit ==
  /\ page = "/play" /\ MayType
  /\ quitting' = TRUE
  /\ UNCHANGED <<page, ready, active, socketRef, connected, status>>
  /\ UNCHANGED <<token, hasCharacter, pending>>

-------------------------------------------------------------------------------
(* Callbacks of the sockets.                                               *)

\* Mutant of Heeded: no active flag.
HeededAlways(s) == TRUE

Heeded(s) == s \in active

\* The server accepts a token it believes.
OnOpen(s) ==
  /\ ready[s] = "connecting" /\ token = "good"
  /\ ready' = [ready EXCEPT ![s] = "open"]
  /\ IF Heeded(s) THEN connected' = TRUE /\ status' = "connected"
                  ELSE UNCHANGED <<connected, status>>
  /\ UNCHANGED <<page, active, socketRef, quitting, token, hasCharacter, pending>>

\* ev.code is code.  (onerror comes before it, and its status is overwritten.)
OnClose(s, code) ==
  LET over == [ready EXCEPT ![s] = IF s = socketRef THEN "closed" ELSE "unused"]
  IN  /\ UNCHANGED hasCharacter
      /\ \/ /\ Heeded(s) /\ quitting
            /\ UNCHANGED token /\ Goto("/characters", over)
         \/ /\ Heeded(s) /\ ~quitting /\ code = 1008
            /\ token' = "none" /\ Goto("/", over)
         \/ /\ Heeded(s) /\ ~quitting /\ code # 1008
            /\ ready' = over
            /\ connected' = FALSE /\ status' = "disconnected"
            /\ UNCHANGED <<page, active, socketRef, quitting, token, pending>>
         \/ /\ ~Heeded(s)
            /\ ready' = over
            /\ UNCHANGED <<page, active, socketRef, connected, status, quitting>>
            /\ UNCHANGED <<token, pending>>

\* The server closes before it accepts, with 1008.  That is an HTTP 403 on the
\* wire, and 1006 is what the browser makes of a handshake that failed.
TokenRefused(s) == ready[s] = "connecting" /\ token = "expired" /\ OnClose(s, 1006)

\* No server there.
Unreachable(s) == ready[s] = "connecting" /\ OnClose(s, 1006)

\* quit was received.
QuitAnswered(s) == ready[s] = "open" /\ s = socketRef /\ quitting /\ OnClose(s, 1000)

\* Displaced, or no room, or the connection broke; or no character.
Dropped(s) ==
  /\ ready[s] = "open"
  /\ \E code \in {1000, 1006, 1011} \cup (IF hasCharacter THEN {} ELSE {1008}) :
       OnClose(s, code)

\* A close() of the client's own is complete.
Closed(s) == ready[s] = "closing" /\ OnClose(s, 1006)

\* Time passes.
Expire ==
  /\ token = "good" /\ token' = "expired"
  /\ UNCHANGED <<game, hasCharacter, pending>>

Next ==
  \/ \E p \in Pages : Browse(p)
  \/ Reload \/ SubmitLogin \/ LoginAnswered \/ SignOut \/ ListAnswered \/ Create
  \/ Quit \/ Expire
  \/ \E s \in Sockets :
       \/ OnOpen(s) \/ TokenRefused(s) \/ Unreachable(s) \/ QuitAnswered(s)
       \/ Dropped(s) \/ Closed(s)

Spec == Init /\ [][Next]_vars

\* A connection that is to close does, and the callback for it is run.
FairSpec ==
  Spec /\ \A s \in Sockets : WF_vars(QuitAnswered(s)) /\ WF_vars(Closed(s))

-------------------------------------------------------------------------------
TypeOK ==
  /\ page \in Pages /\ token \in {"none", "good", "expired"}
  /\ page # "/" => token # "none"
  /\ hasCharacter \in BOOLEAN
  /\ pending \subseteq {"login", "list"}
  /\ ready \in [Sockets -> {"unused", "connecting", "open", "closing", "closed"}]
  /\ active \subseteq Sockets /\ socketRef \in Sockets \cup {NoSocket}
  /\ connected \in BOOLEAN /\ quitting \in BOOLEAN
  /\ status \in {"connecting", "connected", "disconnected"}

(***************************************************************************)
(* The tab never plays behind the user's back: the only socket that is     *)
(* open or opening is the one of the game on the screen, whose callbacks   *)
(* are heeded.  Leaving the game, signing out and StrictMode's second      *)
(* mount all leave no other.                                               *)
(***************************************************************************)
OneLiveSocket ==
  /\ \A s \in Sockets : ready[s] \in {"connecting", "open"} => s = socketRef
  /\ active = {socketRef} \ {NoSocket}
  /\ socketRef # NoSocket <=> page = "/play"

(***************************************************************************)
(* The console's header tells the truth about the socket of this game      *)
(* ("no phantom disconnect", Game.tsx), whatever an earlier one reports.   *)
(***************************************************************************)
HonestStatus ==
  page = "/play" =>
    /\ connected <=> ready[socketRef] = "open"
    /\ status = "disconnected" <=> ready[socketRef] = "closed"

(***************************************************************************)
(* A player is signed out in the middle of a game only for want of a       *)
(* character: no answer to a request of an earlier page, and no close of   *)
(* an earlier socket, ends the game.                                       *)
(***************************************************************************)
NotSignedOutByThePast ==
  [][page = "/play" /\ page' = "/" /\ token' = "none" =>
       ~hasCharacter /\ ready[socketRef] = "open"]_vars

(***************************************************************************)
(* Whoever types quit gets to the character screen (or has left by another *)
(* way), even when the connection breaks first.                            *)
(***************************************************************************)
QuitLeaves == quitting ~> ~quitting

(***************************************************************************)
(* A client whose token the server refuses is told to sign in again (close *)
(* code 1008 in asyncapi.yaml, and the branch for it in Game.tsx).         *)
(***************************************************************************)
RefusedSignsInAgain ==
  [][\A s \in Sockets : TokenRefused(s) /\ Heeded(s) => token' = "none"]_vars
===============================================================================
