----------------------------- MODULE ConsoleProofs -----------------------------
(***************************************************************************)
(* Theorems of the browser tab, alone and with the server's sessions at    *)
(* the other end, for every number of sockets, every line that may be      *)
(* typed, and any number of commands under way.                            *)
(***************************************************************************)
EXTENDS Console, FiniteSetTheorems, SequenceTheorems, TLAPS

-------------------------------------------------------------------------------
(* The tab.                                                                *)

Idle == connected = FALSE /\ status = "connecting" /\ quitting = FALSE

\* Nothing of an earlier game is left when another page is on the screen, and
\* an answer that signs the user out is only awaited on the page that asked.
TabInv ==
  /\ TypeOK /\ OneLiveSocket /\ HonestStatus
  /\ "list" \in pending => page = "/characters"

LEMMA TabInit == Init => TabInv
  BY ClientAssumption
  DEF Init, TabInv, TypeOK, OneLiveSocket, HonestStatus, Pages

\* What Show needs to know of the readyStates that a callback left.
SocketsOK(sockets) ==
  /\ sockets \in [Sockets -> {"unused", "connecting", "open", "closing", "closed"}]
  /\ \A s \in Sockets : sockets[s] \in {"connecting", "open"} => s = socketRef

LEMMA ShowInv ==
  ASSUME TabInv, NEW p \in Pages, NEW sockets, SocketsOK(sockets),
         page # "/play" \/ p # "/play", page # "/play" => sockets = ready,
         token' \in {"none", "good", "expired"}, hasCharacter' \in BOOLEAN,
         Show(p, sockets),
         pending' \subseteq {"login", "list"},
         "list" \in pending' => page' = "/characters"
  PROVE  TabInv'
  <1>1. page' \in Pages /\ (page' # "/" => token' # "none")
        /\ ~(page = "/play" /\ page' = "/play")
    BY DEF Show, Shown, Pages
  <1>2. CASE page # "/play" /\ page' = "/play" /\ Mount
    <2>1. socketRef = NoSocket /\ active = {}
      BY <1>2 DEF TabInv, OneLiveSocket, TypeOK
    <2>2. PICK s \in Sockets :
            /\ ready[s] = "unused" /\ socketRef' = s /\ active' = active \cup {s}
            /\ connected' = FALSE /\ status' = "connecting" /\ quitting' = FALSE
            /\ \/ \E t \in Sockets \ {s} :
                    ready' = [ready EXCEPT ![s] = "connecting", ![t] = "closing"]
               \/ ready' = [ready EXCEPT ![s] = "connecting"]
      BY <1>2 DEF Mount
    <2>3. \A t \in Sockets : ready[t] \notin {"connecting", "open"}
      BY <2>1, ClientAssumption DEF TabInv, OneLiveSocket
    <2>4. TypeOK'
      BY <1>1, <2>1, <2>2 DEF TabInv, TypeOK
    <2>5. ready'[s] = "connecting"
          /\ \A t \in Sockets \ {s} : ready'[t] \notin {"connecting", "open"}
      BY <2>2, <2>3 DEF TabInv, TypeOK
    <2>6. OneLiveSocket' /\ HonestStatus'
      BY <1>2, <2>1, <2>2, <2>5, ClientAssumption DEF OneLiveSocket, HonestStatus
    <2>7. QED
      BY <2>4, <2>6 DEF TabInv
  <1>3. CASE /\ page = "/play" /\ page' # "/play"
             /\ Cleanup(sockets) /\ socketRef' = NoSocket /\ Idle'
    <2>1. active' = {}
      BY <1>3 DEF Cleanup, TabInv, OneLiveSocket
    <2>2. /\ ready' \in [Sockets -> {"unused", "connecting", "open", "closing", "closed"}]
          /\ \A s \in Sockets : ready'[s] \notin {"connecting", "open"}
      BY <1>3 DEF Cleanup, CloseCalled, SocketsOK
    <2>3. QED
      BY <1>1, <1>3, <2>1, <2>2
      DEF TabInv, TypeOK, OneLiveSocket, HonestStatus, Idle
  <1>4. CASE /\ page # "/play" /\ page' # "/play" /\ ready' = sockets
             /\ UNCHANGED <<active, socketRef, connected, status, quitting>>
    BY <1>1, <1>4 DEF TabInv, TypeOK, OneLiveSocket, HonestStatus
  <1>5. QED
    BY <1>1, <1>2, <1>3, <1>4 DEF Show, Idle

\* Its use by callbacks that leave the readyStates alone.
LEMMA ReadyOK == TabInv => SocketsOK(ready)
  BY DEF TabInv, TypeOK, OneLiveSocket, SocketsOK

LEMMA AwaitingOK ==
  ASSUME TabInv, NEW p
  PROVE  /\ Awaiting(p) \subseteq {"login", "list"}
         /\ "list" \in Awaiting(p) => p = "/characters"
  BY DEF Awaiting, TabInv, TypeOK

LEMMA OnCloseInv ==
  ASSUME TabInv, NEW s \in Sockets, NEW code,
         ready[s] \in {"connecting", "open", "closing"}, OnClose(s, code)
  PROVE  /\ TabInv'
         /\ page = "/play" /\ page' = "/" /\ token' = "none" =>
              s = socketRef /\ code = 1008
  <1> DEFINE over == [ready EXCEPT ![s] = IF s = socketRef THEN "closed" ELSE "unused"]
  <1>0. /\ Heeded(s) <=> s = socketRef
        /\ Heeded(s) => page = "/play"
    BY ClientAssumption DEF Heeded, TabInv, OneLiveSocket, TypeOK
  <1>1. SocketsOK(over)
    BY DEF TabInv, TypeOK, OneLiveSocket, SocketsOK
  <1>2. hasCharacter' = hasCharacter
    BY DEF OnClose
  <1>3. CASE Heeded(s) /\ quitting /\ token' = token /\ Goto("/characters", over)
    <2>1. TabInv'
      BY <1>0, <1>1, <1>2, <1>3, AwaitingOK, ShowInv DEF Goto, TabInv, TypeOK, Pages
    <2>2. token # "none"
      BY <1>0, <1>3 DEF TabInv, TypeOK
    <2>3. QED
      BY <1>3, <2>1, <2>2
  <1>4. CASE Heeded(s) /\ code = 1008 /\ token' = "none" /\ Goto("/", over)
    <2>1. TabInv'
      BY <1>0, <1>1, <1>2, <1>4, AwaitingOK, ShowInv DEF Goto, TabInv, TypeOK, Pages
    <2>2. QED
      BY <1>0, <1>4, <2>1
  <1>5. CASE /\ Heeded(s) /\ ready' = over
             /\ connected' = FALSE /\ status' = "disconnected"
             /\ UNCHANGED <<page, active, socketRef, quitting, token, pending>>
    <2>1. ready'[s] = "closed"
      BY <1>0, <1>5 DEF TabInv, TypeOK
    <2>2. QED
      BY <1>0, <1>1, <1>2, <1>5, <2>1
      DEF TabInv, TypeOK, OneLiveSocket, HonestStatus, SocketsOK
  <1>6. CASE /\ ~Heeded(s) /\ ready' = over
             /\ UNCHANGED <<page, active, socketRef, connected, status, quitting>>
             /\ UNCHANGED <<token, pending>>
    BY <1>0, <1>1, <1>2, <1>6
    DEF TabInv, TypeOK, OneLiveSocket, HonestStatus, SocketsOK
  <1>7. QED
    BY <1>3, <1>4, <1>5, <1>6 DEF OnClose

\* Steps that render a page, without a socket being heard of.
LEMMA PageInv ==
  ASSUME TabInv,
         \/ \E p \in Pages : Browse(p)
         \/ LoginAnswered \/ SignOut \/ ListAnswered
  PROVE  TabInv' /\ ~(page = "/play" /\ page' = "/" /\ token' = "none")
  <1>0. TypeOK /\ SocketsOK(ready)
    BY ReadyOK DEF TabInv
  <1>1. CASE \E p \in Pages : Browse(p)
    <2>1. PICK p \in Pages : Browse(p)
      BY <1>1
    <2>2. TabInv'
      BY <1>0, <2>1, AwaitingOK, ShowInv DEF Browse, Goto, TypeOK
    <2>3. QED
      BY <1>0, <2>1, <2>2 DEF Browse, TypeOK
  <1>2. CASE LoginAnswered
    <2>1. CASE pending' = pending \ {"login"} /\ UNCHANGED <<game, token, hasCharacter>>
      BY <1>0, <2>1
      DEF game, TabInv, TypeOK, OneLiveSocket, HonestStatus
    <2>2. CASE /\ token' = "good" /\ hasCharacter' \in BOOLEAN
               /\ Show("/characters", ready) /\ pending' = {"list"}
      <3>1. page' = "/characters"
        BY <2>2 DEF Show, Shown
      <3>2. TabInv'
        BY <1>0, <2>2, <3>1, ShowInv DEF Pages
      <3>3. QED
        BY <3>1, <3>2
    <2>3. QED
      BY <1>2, <2>1, <2>2 DEF LoginAnswered
  <1>3. CASE SignOut
    <2>1. TabInv'
      BY <1>0, <1>3, AwaitingOK, ShowInv DEF SignOut, Goto, TypeOK, Pages
    <2>2. QED
      BY <1>3, <2>1 DEF SignOut
  <1>4. CASE ListAnswered
    <2>1. page = "/characters"
      BY <1>4 DEF ListAnswered, TabInv
    <2>2. CASE token' = "none" /\ Show("/", ready)
      <3>1. /\ pending' \subseteq {"login", "list"}
            /\ "list" \notin pending' /\ hasCharacter' \in BOOLEAN
        BY <1>0, <1>4 DEF ListAnswered, TypeOK
      <3>2. TabInv'
        BY <1>0, <2>1, <2>2, <3>1, ShowInv DEF Pages
      <3>3. QED
        BY <2>1, <3>2
    <2>3. CASE UNCHANGED <<token, game>>
      BY <1>0, <1>4, <2>1, <2>3
      DEF ListAnswered, game, TabInv, TypeOK, OneLiveSocket, HonestStatus
    <2>4. QED
      BY <1>4, <2>2, <2>3 DEF ListAnswered
  <1>5. QED
    BY <1>1, <1>2, <1>3, <1>4

LEMMA TabNext ==
  ASSUME TabInv, [Next]_vars
  PROVE  /\ TabInv'
         /\ page = "/play" /\ page' = "/" /\ token' = "none" =>
              ~hasCharacter /\ ready[socketRef] = "open"
  <1>0. TypeOK /\ OneLiveSocket /\ HonestStatus
    BY DEF TabInv
  <1>1. CASE (\E p \in Pages : Browse(p)) \/ LoginAnswered \/ SignOut \/ ListAnswered
    BY <1>1, PageInv
  <1>2. CASE Reload
    <2>1. TabInv'
      BY <1>0, <1>2, ClientAssumption
      DEF Reload, TabInv, TypeOK, OneLiveSocket, HonestStatus, Pages
    <2>2. QED
      BY <1>0, <1>2, <2>1 DEF Reload, TypeOK
  <1>3. CASE SubmitLogin \/ Create \/ Expire
    <2>1. OneLiveSocket' /\ HonestStatus' /\ page' = page
      BY <1>0, <1>3
      DEF SubmitLogin, Create, Expire, game, OneLiveSocket, HonestStatus
    <2>2. TypeOK'
      BY <1>0, <1>3 DEF SubmitLogin, Create, Expire, game, TypeOK
    <2>3. "list" \in pending' => page' = "/characters"
      BY <1>3, <2>1 DEF SubmitLogin, Create, Expire, TabInv
    <2>4. ~(page = "/play" /\ page' = "/")
      BY <2>1
    <2>5. QED
      BY <2>1, <2>2, <2>3, <2>4 DEF TabInv
  <1>4. CASE Quit
    BY <1>0, <1>4 DEF Quit, TabInv, TypeOK, OneLiveSocket, HonestStatus
  <1>5. CASE \E s \in Sockets : OnOpen(s)
    <2>1. PICK s \in Sockets : OnOpen(s)
      BY <1>5
    <2>2. s = socketRef /\ Heeded(s) /\ ready' = [ready EXCEPT ![s] = "open"]
      BY <1>0, <2>1, ClientAssumption DEF OnOpen, Heeded, OneLiveSocket
    <2>3. QED
      BY <1>0, <2>1, <2>2
      DEF OnOpen, TabInv, TypeOK, OneLiveSocket, HonestStatus
  <1>6. CASE \E s \in Sockets : TokenRefused(s) \/ Unreachable(s) \/ Closed(s)
    BY <1>6, OnCloseInv DEF TokenRefused, Unreachable, Closed
  <1>7. CASE \E s \in Sockets : QuitAnswered(s)
    BY <1>7, OnCloseInv DEF QuitAnswered
  <1>8. CASE \E s \in Sockets : Dropped(s)
    <2>1. PICK s \in Sockets : Dropped(s)
      BY <1>8
    <2>2. PICK code \in {1000, 1006, 1011} \cup (IF hasCharacter THEN {} ELSE {1008}) :
            ready[s] = "open" /\ OnClose(s, code)
      BY <2>1 DEF Dropped
    <2>3. code = 1008 => ~hasCharacter
      OBVIOUS
    <2>4. QED
      BY <2>2, <2>3, OnCloseInv
  <1>9. CASE UNCHANGED vars
    <2>1. TabInv'
      BY <1>0, <1>9
      DEF vars, game, TabInv, TypeOK, OneLiveSocket, HonestStatus
    <2>2. QED
      BY <1>9, <2>1 DEF vars, game
  <1>10. QED
    BY <1>1, <1>2, <1>3, <1>4, <1>5, <1>6, <1>7, <1>8, <1>9 DEF Next

LEMMA TabAlways == Spec => []TabInv
  <1>1. TabInv /\ [Next]_vars => TabInv'
    BY TabNext
  <1>2. QED
    BY <1>1, TabInit, PTL DEF Spec

(***************************************************************************)
(* The effect of Game.tsx and its clean-up leave no socket behind: the     *)
(* only one that is open or opening is that of the game on the screen,     *)
(* with or without StrictMode's second mount, whenever callbacks come.     *)
(***************************************************************************)
THEOREM TabHasOneSocket == Spec => []OneLiveSocket
  <1>1. TabInv => OneLiveSocket
    BY DEF TabInv
  <1>2. QED
    BY <1>1, TabAlways, PTL

(***************************************************************************)
(* The header of the console (connected and status of Game.tsx) tells the  *)
(* truth about this game's socket: the active flag keeps the callbacks of  *)
(* earlier ones away.                                                      *)
(***************************************************************************)
THEOREM TabIsHonest == Spec => []HonestStatus
  <1>1. TabInv => HonestStatus
    BY DEF TabInv
  <1>2. QED
    BY <1>1, TabAlways, PTL

(***************************************************************************)
(* Of all answers and callbacks that may still come, only the close of     *)
(* this game's socket, for want of a character, signs the user out of a    *)
(* game.                                                                   *)
(***************************************************************************)
THEOREM PastDoesNotSignOut == Spec => NotSignedOutByThePast
  <1>1. TabInv /\ [Next]_vars =>
          [page = "/play" /\ page' = "/" /\ token' = "none" =>
             ~hasCharacter /\ ready[socketRef] = "open"]_vars
    BY TabNext
  <1>2. QED
    BY <1>1, TabAlways, PTL DEF Spec, NotSignedOutByThePast

-------------------------------------------------------------------------------
(* Counting the answers in a queue.                                        *)

Answering(queue, i) == {j \in 1 .. i : IsReply(queue[j])}

LEMMA RepliesType ==
  ASSUME NEW queue, NEW i \in Nat
  PROVE  /\ IsFiniteSet(Answering(queue, i))
         /\ Replies(queue, i) = Cardinality(Answering(queue, i))
         /\ Replies(queue, i) \in Nat
         /\ i = 0 => Replies(queue, i) = 0
  <1>1. IsFiniteSet(1 .. i)
    BY FS_Interval
  <1>2. Answering(queue, i) \in SUBSET (1 .. i)
    BY DEF Answering
  <1>3. IsFiniteSet(Answering(queue, i))
    BY <1>1, <1>2, FS_Subset
  <1>4. Replies(queue, i) = Cardinality(Answering(queue, i))
    BY DEF Replies, Answering
  <1>5. Replies(queue, i) \in Nat
    BY <1>3, <1>4, FS_CardinalityType
  <1>6. i = 0 => Answering(queue, i) = {}
    BY DEF Answering
  <1>7. QED
    BY <1>3, <1>4, <1>5, <1>6, FS_EmptySet

\* An answer has its number among those of the whole queue.
LEMMA RepliesNumber ==
  ASSUME NEW queue, NEW n \in Nat, NEW i \in 1 .. n
  PROVE  /\ Replies(queue, i) <= Replies(queue, n)
         /\ IsReply(queue[i]) => Replies(queue, i) >= 1
  <1>1. Answering(queue, i) \in SUBSET Answering(queue, n)
    BY DEF Answering
  <1>2. Replies(queue, i) <= Replies(queue, n)
    BY <1>1, RepliesType, FS_Subset
  <1>3. IsReply(queue[i]) => i \in Answering(queue, i)
    BY DEF Answering
  <1>4. Answering(queue, i) # {} => Replies(queue, i) # 0
    BY RepliesType, FS_EmptySet
  <1>5. Replies(queue, i) \in Nat
    BY RepliesType
  <1>6. QED
    BY <1>2, <1>3, <1>4, <1>5

LEMMA RepliesAppend ==
  ASSUME NEW S, NEW queue \in Seq(S), NEW frame \in S
  PROVE  LET n == Len(queue)
             longer == Append(queue, frame)
         IN  /\ \A i \in 0 .. n : Replies(longer, i) = Replies(queue, i)
             /\ Replies(longer, n + 1) =
                  Replies(queue, n) + (IF IsReply(frame) THEN 1 ELSE 0)
  <1> DEFINE n == Len(queue)
             longer == Append(queue, frame)
  <1>0. n \in Nat /\ longer[n + 1] = frame /\ \A i \in 1 .. n : longer[i] = queue[i]
    BY AppendProperties, LenProperties
  <1> HIDE DEF n, longer
  <1>1. \A i \in 0 .. n : Replies(longer, i) = Replies(queue, i)
    <2> TAKE i \in 0 .. n
    <2>1. Answering(longer, i) = Answering(queue, i)
      BY <1>0 DEF Answering
    <2>2. QED
      BY <1>0, <2>1, RepliesType
  <1>2. Answering(longer, n + 1) =
          IF IsReply(frame) THEN Answering(longer, n) \cup {n + 1} ELSE Answering(longer, n)
    BY <1>0 DEF Answering
  <1>3. n + 1 \notin Answering(longer, n)
    BY <1>0 DEF Answering
  <1>4. /\ IsFiniteSet(Answering(longer, n))
        /\ Replies(longer, n) = Cardinality(Answering(longer, n))
        /\ Replies(longer, n) \in Nat
        /\ Replies(longer, n + 1) = Cardinality(Answering(longer, n + 1))
    BY <1>0, RepliesType
  <1>5. Cardinality(Answering(longer, n) \cup {n + 1}) = Replies(longer, n) + 1
    BY <1>3, <1>4, FS_AddElement
  <1>6. Replies(longer, n + 1) = Replies(longer, n) + (IF IsReply(frame) THEN 1 ELSE 0)
    BY <1>2, <1>4, <1>5
  <1>7. Replies(longer, n) = Replies(queue, n)
    BY <1>0, <1>1
  <1>8. QED
    BY <1>1, <1>6, <1>7 DEF n, longer

LEMMA RepliesTail ==
  ASSUME NEW S, NEW queue \in Seq(S), queue # << >>, NEW i \in 0 .. Len(queue) - 1
  PROVE  Replies(queue, i + 1) =
           Replies(Tail(queue), i) + (IF IsReply(Head(queue)) THEN 1 ELSE 0)
  <1> DEFINE rest == Tail(queue)
             after == Answering(queue, i + 1) \ {1}
             shift == [j \in Answering(rest, i) |-> j + 1]
  <1>0. /\ i \in Nat /\ Len(rest) = Len(queue) - 1 /\ Len(queue) \in Nat
        /\ \A j \in 1 .. i : rest[j] = queue[j + 1]
        /\ Head(queue) = queue[1]
    BY HeadTailProperties, LenProperties
  <1> HIDE DEF rest
  <1>1. shift \in Bijection(Answering(rest, i), after)
    <2>1. shift \in [Answering(rest, i) -> after]
      BY <1>0 DEF Answering
    <2>2. \A j, k \in Answering(rest, i) : shift[j] = shift[k] => j = k
      BY DEF Answering
    <2>3. \A k \in after : \E j \in Answering(rest, i) : shift[j] = k
      <3> TAKE k \in after
      <3>1. k - 1 \in Answering(rest, i) /\ shift[k - 1] = k
        BY <1>0 DEF Answering
      <3>2. QED
        BY <3>1
    <2> HIDE DEF shift, after
    <2>4. QED
      BY <2>1, <2>2, <2>3 DEF Bijection, Injection, Surjection, IsInjective
  <1>2. Cardinality(after) = Cardinality(Answering(rest, i))
    BY <1>0, <1>1, RepliesType, FS_Bijection DEF ExistsBijection
  <1>3. /\ IsFiniteSet(Answering(queue, i + 1))
        /\ Replies(queue, i + 1) = Cardinality(Answering(queue, i + 1))
        /\ Replies(queue, i + 1) \in Nat
        /\ Replies(rest, i) = Cardinality(Answering(rest, i))
    BY <1>0, RepliesType
  <1>4. Cardinality(after) = IF 1 \in Answering(queue, i + 1)
                             THEN Replies(queue, i + 1) - 1 ELSE Replies(queue, i + 1)
    BY <1>3, FS_RemoveElement
  <1>5. 1 \in Answering(queue, i + 1) <=> IsReply(Head(queue))
    BY <1>0 DEF Answering
  <1>6. Replies(rest, i) \in Nat
    BY <1>0, RepliesType
  <1>7. QED
    BY <1>2, <1>3, <1>4, <1>5, <1>6 DEF rest

-------------------------------------------------------------------------------
(* Messages.                                                               *)

Messages == {Parse(line) : line \in Lines} \ {NoMessage}
Frames == {News, Welcomed, Refusal}
            \cup UNION {{Reply(a, m) : a \in Answers(m)} : m \in Messages}

LEMMA FrameKinds ==
  /\ {News, Welcomed, Refusal} \subseteq Frames
  /\ \A m \in Messages : \A a \in Answers(m) : Reply(a, m) \in Frames
  /\ ~IsReply(News) /\ ~IsReply(Welcomed) /\ ~IsReply(Refusal)
  /\ News # Welcomed /\ News # Refusal
  /\ \A m \in Messages : \A a :
       /\ IsReply(Reply(a, m)) /\ Reply(a, m).to = m
       /\ Reply(a, m) # News
  <1>1. \A m \in Messages : m # NoMessage
    BY DEF Messages
  <1>2. \A m, a : Reply(a, m).type = a /\ Reply(a, m).to = m
    BY DEF Reply
  <1>3. News # Welcomed /\ News # Refusal
    BY DEF News, Welcomed, Refusal
  <1>4. ~IsReply(News) /\ ~IsReply(Welcomed) /\ ~IsReply(Refusal)
    BY DEF IsReply, News, Welcomed, Refusal
  <1>5. \A m \in Messages : \A a : Reply(a, m) # News
    BY <1>1, <1>2 DEF News
  <1>6. QED
    BY <1>1, <1>2, <1>3, <1>4, <1>5 DEF Frames, IsReply
-------------------------------------------------------------------------------
(* The sessions at the other end of the sockets.                           *)

\* A socket is open once its session accepted it; nothing but an open socket
\* remembers how its session ended; one turned away for want of a character is
\* on the screen until none can have been created.
ServerInv ==
  /\ session \in [Sockets -> {"none", "starting", "serving"} \cup Ends]
  /\ registered \in Sockets \cup {NoSocket}
  /\ \A s \in Sockets :
       /\ session[s] = "serving" <=> registered = s
       /\ ready[s] = "connecting" => session[s] = "none"
       /\ ready[s] = "open" => session[s] # "none"
       /\ session[s] \in Ends \ {"failed"} => ready[s] = "open"
       /\ session[s] = "characterless" => ~hasCharacter

\* Where frames can be.
FramesInv ==
  /\ up \in [Sockets -> Seq(Messages)] /\ down \in [Sockets -> Seq(Frames)]
  /\ awaited \in Seq(Messages) /\ Len(awaited) <= InFlight
  /\ awaited # << >> => socketRef \in Sockets /\ ready[socketRef] = "open"
  /\ \A s \in Sockets :
       /\ ready[s] # "open" => up[s] = << >> /\ down[s] = << >>
       /\ session[s] \in Ends => up[s] = << >>
       /\ session[s] = "starting" => down[s] = << >>

\* The answers under way to a client are to the first of the commands it waits
\* for, in their order; those after them are what the server has not read yet,
\* unless it reads no more.  Of other frames there are two at most.
InOrder(how, unread, unseen, commands) ==
  LET k == Replies(unseen, Len(unseen)) IN
  /\ k <= Len(commands)
  /\ \A i \in 1 .. Len(unseen) : IsReply(unseen[i]) =>
       commands[Replies(unseen, i)] = unseen[i].to
  /\ how \notin Ends =>
       /\ Len(commands) = k + Len(unread)
       /\ \A i \in 1 .. Len(unread) : commands[k + i] = unread[i]
  /\ Len(unseen) <= k + 2
  /\ News \notin Range(unseen) => Len(unseen) <= k + 1

OrderInv ==
  \A s \in Sockets : ready[s] = "open" => InOrder(session[s], up[s], down[s], awaited)

ConsoleInv == TabInv /\ ServerInv /\ FramesInv /\ OrderInv

-------------------------------------------------------------------------------
(* What InOrder survives.                                                  *)

LEMMA OrderStart == InOrder("starting", << >>, << >>, << >>)
  <1>1. Replies(<< >>, 0) = 0
    BY RepliesType
  <1>2. QED
    BY <1>1 DEF InOrder

\* A session goes on, or ends.
LEMMA OrderEnd ==
  ASSUME NEW how, NEW then, NEW u, NEW d, NEW c, InOrder(how, u, d, c),
         how \notin Ends \/ then \in Ends
  PROVE  InOrder(then, u, d, c)
  BY DEF InOrder

\* A command is sent.
LEMMA OrderSend ==
  ASSUME NEW how, NEW u \in Seq(Messages), NEW d \in Seq(Frames),
         NEW c \in Seq(Messages), InOrder(how, u, d, c), NEW m \in Messages
  PROVE  InOrder(how, Append(u, m), d, Append(c, m))
  <1> DEFINE k == Replies(d, Len(d))
             u1 == Append(u, m)
             c1 == Append(c, m)
  <1>0. /\ Len(u) \in Nat /\ Len(c) \in Nat /\ Len(d) \in Nat
        /\ Len(u1) = Len(u) + 1 /\ Len(c1) = Len(c) + 1
        /\ u1[Len(u) + 1] = m /\ c1[Len(c) + 1] = m
        /\ \A i \in 1 .. Len(u) : u1[i] = u[i]
        /\ \A i \in 1 .. Len(c) : c1[i] = c[i]
    BY AppendProperties, LenProperties
  <1>1. k \in Nat /\ k <= Len(c)
    BY <1>0, RepliesType DEF InOrder
  <1> HIDE DEF u1, c1
  <1>2. ASSUME NEW i \in 1 .. Len(d), IsReply(d[i])
        PROVE  c1[Replies(d, i)] = d[i].to
    <2>1. Replies(d, i) \in Nat /\ Replies(d, i) >= 1 /\ Replies(d, i) <= k
      <3>1. i \in Nat /\ Len(d) \in Nat
        BY <1>0
      <3>2. Replies(d, i) \in Nat
        BY <3>1, RepliesType
      <3>3. Replies(d, i) <= Replies(d, Len(d)) /\ Replies(d, i) >= 1
        BY <1>2, <3>1, RepliesNumber
      <3>4. QED
        BY <3>2, <3>3
    <2>2. c[Replies(d, i)] = d[i].to
      BY <1>2 DEF InOrder
    <2>3. QED
      BY <1>0, <1>1, <2>1, <2>2
  <1>3. ASSUME how \notin Ends
        PROVE  /\ Len(c1) = k + Len(u1)
               /\ \A i \in 1 .. Len(u1) : c1[k + i] = u1[i]
    <2>1. Len(c) = k + Len(u) /\ \A i \in 1 .. Len(u) : c[k + i] = u[i]
      BY <1>3 DEF InOrder
    <2> HIDE DEF k
    <2>2. Len(c1) = k + Len(u1)
      BY <1>0, <1>1, <2>1
    <2>3. ASSUME NEW i \in 1 .. Len(u1)
          PROVE  c1[k + i] = u1[i]
      <3>1. CASE i \in 1 .. Len(u)
        <4>1. k + i \in 1 .. Len(c) /\ c[k + i] = u[i]
          BY <1>0, <1>1, <2>1, <3>1
        <4>2. QED
          BY <1>0, <3>1, <4>1
      <3>2. CASE i = Len(u) + 1
        <4>1. k + i = Len(c) + 1
          BY <1>0, <1>1, <2>1, <3>2
        <4>2. QED
          BY <1>0, <3>2, <4>1
      <3>3. QED
        BY <1>0, <3>1, <3>2
    <2>4. QED
      BY <2>2, <2>3
  <1>4. k <= Len(c1)
    BY <1>0, <1>1
  <1>5. Len(d) <= k + 2 /\ (News \notin Range(d) => Len(d) <= k + 1)
    BY DEF InOrder
  <1>6. InOrder(how, u1, d, c1)
    BY <1>2, <1>3, <1>4, <1>5 DEF InOrder
  <1>7. QED
    BY <1>6 DEF u1, c1

\* A frame that answers no command is sent: the first of all, or the only news.
LEMMA OrderTell ==
  ASSUME NEW how, NEW u \in Seq(Messages), NEW d \in Seq(Frames),
         NEW c \in Seq(Messages), InOrder(how, u, d, c),
         NEW f \in Frames, ~IsReply(f),
         d = << >> \/ (f = News /\ News \notin Range(d))
  PROVE  InOrder(how, u, Append(d, f), c)
  <1> DEFINE n == Len(d)
             k == Replies(d, n)
             d1 == Append(d, f)
  <1>0. /\ n \in Nat /\ Len(d1) = n + 1 /\ d1[n + 1] = f
        /\ \A i \in 1 .. n : d1[i] = d[i]
        /\ DOMAIN d1 = 1 .. n + 1
        /\ d = << >> => n = 0
    BY AppendProperties, LenProperties
  <1>1. k \in Nat
    BY <1>0, RepliesType
  <1>2. /\ \A i \in 0 .. n : Replies(d1, i) = Replies(d, i)
        /\ Replies(d1, n + 1) = k
    BY <1>0, <1>1, RepliesAppend
  <1>3. /\ k <= Len(c) /\ n <= k + 2 /\ (News \notin Range(d) => n <= k + 1)
        /\ how \notin Ends =>
             /\ Len(c) = k + Len(u)
             /\ \A i \in 1 .. Len(u) : c[k + i] = u[i]
        /\ \A i \in 1 .. n : IsReply(d[i]) => c[Replies(d, i)] = d[i].to
    BY DEF InOrder
  <1> HIDE DEF n, k, d1
  <1>4. Replies(d1, Len(d1)) = k
    BY <1>0, <1>2
  <1>5. \A i \in 1 .. Len(d1) : IsReply(d1[i]) => c[Replies(d1, i)] = d1[i].to
    BY <1>0, <1>2, <1>3
  <1>6. Len(d1) <= k + 2
    BY <1>0, <1>1, <1>3
  <1>7. News \notin Range(d1) => Len(d1) <= k + 1
    <2>1. f = News => News \in Range(d1)
      BY <1>0 DEF Range
    <2>2. QED
      BY <1>0, <1>1, <2>1
  <1>8. InOrder(how, u, d1, c)
    BY <1>3, <1>4, <1>5, <1>6, <1>7 DEF InOrder
  <1>9. QED
    BY <1>8 DEF d1

\* A command is answered.
LEMMA OrderReply ==
  ASSUME NEW how, how \notin Ends, NEW u \in Seq(Messages), u # << >>,
         NEW d \in Seq(Frames), NEW c \in Seq(Messages), InOrder(how, u, d, c),
         NEW f \in Frames, IsReply(f), f.to = Head(u), f # News
  PROVE  InOrder(how, Tail(u), Append(d, f), c)
  <1> DEFINE n == Len(d)
             k == Replies(d, n)
             d1 == Append(d, f)
             u1 == Tail(u)
  <1>0. /\ n \in Nat /\ Len(d1) = n + 1 /\ d1[n + 1] = f
        /\ \A i \in 1 .. n : d1[i] = d[i]
        /\ DOMAIN d1 = 1 .. n + 1 /\ DOMAIN d = 1 .. n
        /\ Len(u) \in Nat /\ Len(u) >= 1 /\ Len(u1) = Len(u) - 1
        /\ \A i \in 1 .. Len(u1) : u1[i] = u[i + 1]
        /\ Head(u) = u[1]
    BY AppendProperties, HeadTailProperties, LenProperties, EmptySeq
  <1>1. k \in Nat
    BY <1>0, RepliesType
  <1>2. /\ \A i \in 0 .. n : Replies(d1, i) = Replies(d, i)
        /\ Replies(d1, n + 1) = k + 1
    BY <1>0, <1>1, RepliesAppend
  <1>3. /\ n <= k + 2 /\ (News \notin Range(d) => n <= k + 1)
        /\ Len(c) = k + Len(u)
        /\ \A i \in 1 .. Len(u) : c[k + i] = u[i]
        /\ \A i \in 1 .. n : IsReply(d[i]) => c[Replies(d, i)] = d[i].to
    BY DEF InOrder
  <1> HIDE DEF n, k, d1, u1
  <1>4. Replies(d1, Len(d1)) = k + 1 /\ k + 1 <= Len(c) /\ Len(c) = k + 1 + Len(u1)
    BY <1>0, <1>1, <1>2, <1>3
  <1>5. c[k + 1] = f.to
    BY <1>0, <1>3
  <1>6. \A i \in 1 .. Len(d1) : IsReply(d1[i]) => c[Replies(d1, i)] = d1[i].to
    BY <1>0, <1>2, <1>3, <1>5
  <1>7. \A i \in 1 .. Len(u1) : c[k + 1 + i] = u1[i]
    <2> TAKE i \in 1 .. Len(u1)
    <2>1. i + 1 \in 1 .. Len(u) /\ k + 1 + i = k + (i + 1)
      BY <1>0, <1>1
    <2>2. QED
      BY <1>0, <1>3, <2>1
  <1>8. Len(d1) <= k + 1 + 2 /\ (News \notin Range(d1) => Len(d1) <= k + 1 + 1)
    <2>1. News \in Range(d) => News \in Range(d1)
      BY <1>0 DEF Range
    <2>2. QED
      BY <1>0, <1>1, <1>3, <2>1
  <1>9. InOrder(how, u1, d1, c)
    BY <1>4, <1>6, <1>7, <1>8 DEF InOrder
  <1>10. QED
    BY <1>9 DEF d1, u1

\* A frame is read.
LEMMA OrderRead ==
  ASSUME NEW how, NEW u \in Seq(Messages), NEW d \in Seq(Frames), d # << >>,
         NEW c \in Seq(Messages), InOrder(how, u, d, c)
  PROVE  /\ IsReply(Head(d)) => c # << >>
         /\ InOrder(how, u, Tail(d), IF Head(d).to = NoMessage THEN c ELSE Tail(c))
  <1> DEFINE n == Len(d)
             k == Replies(d, n)
             d1 == Tail(d)
             one == IF IsReply(Head(d)) THEN 1 ELSE 0
             c1 == IF Head(d).to = NoMessage THEN c ELSE Tail(c)
             k1 == Replies(d1, Len(d1))
  <1>0. /\ n \in Nat /\ n >= 1 /\ Len(d1) = n - 1 /\ Head(d) = d[1]
        /\ \A i \in 1 .. Len(d1) : d1[i] = d[i + 1]
        /\ DOMAIN d1 = 1 .. Len(d1) /\ DOMAIN d = 1 .. n
        /\ Len(c) \in Nat
    BY HeadTailProperties, LenProperties, EmptySeq
  <1>1. one \in {0, 1} /\ k1 \in Nat /\ k \in Nat
    BY <1>0, RepliesType
  <1>2. \A i \in 0 .. n - 1 : Replies(d, i + 1) = Replies(d1, i) + one
    BY RepliesTail
  <1>3. k = k1 + one
    BY <1>0, <1>1, <1>2
  <1>4. /\ k <= Len(c) /\ n <= k + 2 /\ (News \notin Range(d) => n <= k + 1)
        /\ how \notin Ends =>
             /\ Len(c) = k + Len(u)
             /\ \A i \in 1 .. Len(u) : c[k + i] = u[i]
        /\ \A i \in 1 .. n : IsReply(d[i]) => c[Replies(d, i)] = d[i].to
    BY DEF InOrder
  <1>5. IsReply(Head(d)) => c # << >>
    BY <1>1, <1>3, <1>4, LenProperties, EmptySeq
  <1>6. /\ Len(c1) = Len(c) - one
        /\ \A i \in 1 .. Len(c1) : c1[i] = c[i + one]
    <2>1. CASE Head(d).to = NoMessage
      BY <1>0, <2>1 DEF IsReply
    <2>2. CASE Head(d).to # NoMessage
      <3>1. /\ Len(Tail(c)) = Len(c) - 1
            /\ \A i \in 1 .. Len(Tail(c)) : Tail(c)[i] = c[i + 1]
        BY <1>5, <2>2, HeadTailProperties, LenProperties DEF IsReply
      <3>2. one = 1 /\ c1 = Tail(c)
        BY <2>2 DEF IsReply
      <3> HIDE DEF one, c1
      <3>3. QED
        BY <3>1, <3>2
    <2>3. QED
      BY <2>1, <2>2
  <1>7. Len(u) \in Nat
    BY LenProperties
  <1>8. \A i \in 1 .. Len(d1) : IsReply(d1[i]) =>
           Replies(d1, i) \in 1 .. k1 /\ Replies(d, i + 1) = Replies(d1, i) + one
    <2> SUFFICES ASSUME NEW i \in 1 .. Len(d1), IsReply(d1[i])
                 PROVE  Replies(d1, i) \in 1 .. k1 /\ Replies(d, i + 1) = Replies(d1, i) + one
      OBVIOUS
    <2>1. i \in Nat /\ Len(d1) \in Nat /\ i \in 0 .. n - 1
      BY <1>0
    <2>2. Replies(d1, i) \in Nat
      BY <2>1, RepliesType
    <2>3. Replies(d1, i) <= k1 /\ Replies(d1, i) >= 1
      BY <2>1, RepliesNumber
    <2>4. QED
      BY <1>1, <1>2, <2>1, <2>2, <2>3
  <1>9. News \in Range(d) => News = d[1] \/ News \in Range(d1)
    <2> SUFFICES ASSUME NEW i \in 1 .. n, d[i] = News, i # 1
                 PROVE  News \in Range(d1)
      BY <1>0 DEF Range
    <2>1. i - 1 \in DOMAIN d1 /\ d1[i - 1] = News
      BY <1>0
    <2>2. QED
      BY <2>1 DEF Range
  <1>10. ~IsReply(News)
    BY FrameKinds
  <1> HIDE DEF n, k, d1, one, c1, k1
  <1>11. \A i \in 1 .. Len(d1) : IsReply(d1[i]) => c1[Replies(d1, i)] = d1[i].to
    <2> SUFFICES ASSUME NEW i \in 1 .. Len(d1), IsReply(d1[i])
                 PROVE  c1[Replies(d1, i)] = d1[i].to
      OBVIOUS
    <2>1. c[Replies(d, i + 1)] = d1[i].to
      BY <1>0, <1>4
    <2>2. Replies(d1, i) \in 1 .. Len(c1)
      BY <1>0, <1>1, <1>3, <1>4, <1>6, <1>8
    <2>3. QED
      BY <1>6, <1>8, <2>1, <2>2
  <1>12. ASSUME how \notin Ends
         PROVE  Len(c1) = k1 + Len(u) /\ \A i \in 1 .. Len(u) : c1[k1 + i] = u[i]
    <2>1. Len(c1) = k1 + Len(u)
      <3>1. Len(c) = k + Len(u)
        BY <1>4, <1>12
      <3>2. QED
        BY <1>0, <1>1, <1>3, <1>6, <1>7, <3>1
    <2>2. ASSUME NEW i \in 1 .. Len(u)
          PROVE  c1[k1 + i] = u[i]
      <3>1. k1 + i \in 1 .. Len(c1) /\ k1 + i + one = k + i
        BY <1>1, <1>3, <1>7, <2>1
      <3>2. QED
        BY <1>4, <1>6, <1>12, <3>1
    <2>3. QED
      BY <2>1, <2>2
  <1>13. k1 <= Len(c1) /\ Len(d1) <= k1 + 2
    BY <1>0, <1>1, <1>3, <1>4, <1>6
  <1>14. News \notin Range(d1) => Len(d1) <= k1 + 1
    <2>1. CASE News \notin Range(d)
      BY <1>0, <1>1, <1>3, <1>4, <2>1
    <2>2. CASE News = d[1]
      <3>1. one = 0
        BY <1>0, <1>10, <2>2 DEF one
      <3>2. QED
        BY <1>0, <1>1, <1>3, <1>4, <3>1
    <2>3. QED
      BY <1>9, <2>1, <2>2
  <1>15. InOrder(how, u, d1, c1)
    BY <1>11, <1>12, <1>13, <1>14 DEF InOrder, k1
  <1>16. QED
    BY <1>5, <1>15 DEF d1, c1

\* Whoever reads no more does not care what there is to read.
LEMMA OrderDeaf ==
  ASSUME NEW how \in Ends, NEW u, NEW v, NEW d, NEW c, InOrder(how, u, d, c)
  PROVE  InOrder(how, v, d, c)
  BY DEF InOrder

-------------------------------------------------------------------------------
(* The steps of both sides.                                                *)

\* What Wires needs to know of a socket that is open afterwards.
WireOK(s, how, unread, unseen, commands) ==
  /\ socketRef = s /\ how # "none"
  /\ how = "characterless" => ~hasCharacter'
  /\ unread \in Seq(Messages) /\ unseen \in Seq(Frames)
  /\ how = "starting" => unseen = << >>
  /\ InOrder(how, unread, unseen, commands)

LEMMA WiresInv ==
  ASSUME TabInv', NEW now \in [Sockets -> {"none", "starting", "serving"} \cup Ends],
         NEW ups, NEW downs, NEW commands \in Seq(Messages), Len(commands) <= InFlight,
         Wires(now, ups, downs, commands),
         registered' \in Sockets \cup {NoSocket},
         \A s \in Sockets :
           /\ now[s] = "serving" <=> registered' = s
           /\ ready'[s] = "connecting" => now[s] = "none"
           /\ ready'[s] = "open" => WireOK(s, now[s], ups[s], downs[s], commands)
  PROVE  ConsoleInv'
  <1>0. /\ \A s \in Sockets : ready'[s] = "open" => socketRef' = s
        /\ awaited' \in {commands, << >>}
    BY DEF TabInv, OneLiveSocket, Wires
  <1>1. \A s \in Sockets :
          /\ session'[s] = IF now[s] \notin Ends \/ ready'[s] = "open" THEN now[s]
                           ELSE IF ready'[s] = "unused" THEN "none" ELSE "failed"
          /\ up'[s] = IF session'[s] \notin Ends /\ ready'[s] = "open" THEN ups[s] ELSE << >>
          /\ down'[s] = IF ready'[s] = "open" THEN downs[s] ELSE << >>
    BY DEF Wires
  <1>2. /\ << >> \in Seq(Messages) /\ << >> \in Seq(Frames)
        /\ Len(<< >>) = 0
    BY EmptySeq
  <1>3. ServerInv'
    <2>1. session' \in [Sockets -> {"none", "starting", "serving"} \cup Ends]
      <3>1. session' = [s \in Sockets |-> session'[s]]
        BY DEF Wires
      <3>2. \A s \in Sockets : session'[s] \in {"none", "starting", "serving"} \cup Ends
        BY <1>1 DEF Ends
      <3>3. QED
        BY <3>1, <3>2
    <2>2. \A s \in Sockets :
            /\ session'[s] = "serving" <=> registered' = s
            /\ ready'[s] = "connecting" => session'[s] = "none"
            /\ ready'[s] = "open" => session'[s] # "none"
            /\ session'[s] \in Ends \ {"failed"} => ready'[s] = "open"
            /\ session'[s] = "characterless" => ~hasCharacter'
      BY <1>1 DEF WireOK, Ends
    <2>3. QED
      BY <2>1, <2>2 DEF ServerInv
  <1>4. FramesInv'
    <2>1. up' \in [Sockets -> Seq(Messages)] /\ down' \in [Sockets -> Seq(Frames)]
      <3>1. /\ up' = [s \in Sockets |-> up'[s]]
            /\ down' = [s \in Sockets |-> down'[s]]
        BY DEF Wires
      <3>2. \A s \in Sockets : up'[s] \in Seq(Messages) /\ down'[s] \in Seq(Frames)
        BY <1>1, <1>2 DEF WireOK
      <3>3. QED
        BY <3>1, <3>2
    <2>2. awaited' \in Seq(Messages) /\ Len(awaited') <= InFlight
      <3>1. CASE awaited' = commands
        BY <3>1
      <3>2. CASE awaited' = << >>
        <4>1. Len(awaited') = 0 /\ awaited' \in Seq(Messages)
          BY <1>2, <3>2
        <4>2. QED
          BY <4>1, InFlightAssumption
      <3>3. QED
        BY <1>0, <3>1, <3>2
    <2>3. awaited' # << >> => socketRef' \in Sockets /\ ready'[socketRef'] = "open"
      BY DEF Wires
    <2>4. \A s \in Sockets :
            /\ ready'[s] # "open" => up'[s] = << >> /\ down'[s] = << >>
            /\ session'[s] \in Ends => up'[s] = << >>
            /\ session'[s] = "starting" => down'[s] = << >>
      BY <1>1 DEF WireOK, Ends
    <2>5. QED
      BY <2>1, <2>2, <2>3, <2>4 DEF FramesInv
  <1>5. ASSUME NEW s \in Sockets, ready'[s] = "open"
        PROVE  InOrder(session'[s], up'[s], down'[s], awaited')
    <2>1. /\ socketRef = s /\ InOrder(now[s], ups[s], downs[s], commands)
          /\ session'[s] = now[s] /\ down'[s] = downs[s]
      BY <1>1, <1>5 DEF WireOK
    <2>2. awaited' = commands
      BY <1>0, <1>5, <2>1 DEF Wires
    <2>3. CASE now[s] \in Ends
      BY <2>1, <2>2, <2>3, OrderDeaf
    <2>4. CASE now[s] \notin Ends
      BY <1>1, <1>5, <2>1, <2>2, <2>4
    <2>5. QED
      BY <2>3, <2>4
  <1>6. OrderInv'
    BY <1>5 DEF OrderInv
  <1>7. QED
    BY <1>3, <1>4, <1>6 DEF ConsoleInv

\* What the invariant says of an open socket.
LEMMA OpenSocket ==
  ASSUME ConsoleInv, NEW s \in Sockets, ready[s] = "open"
  PROVE  /\ socketRef = s
         /\ session[s] # "none"
         /\ session[s] = "characterless" => ~hasCharacter
         /\ up[s] \in Seq(Messages) /\ down[s] \in Seq(Frames)
         /\ session[s] = "starting" => down[s] = << >>
         /\ InOrder(session[s], up[s], down[s], awaited)
  BY DEF ConsoleInv, TabInv, OneLiveSocket, ServerInv, FramesInv, OrderInv

\* A step of the tab that opens no connection.
Quiet ==
  \A s \in Sockets :
    /\ ready'[s] = "open" => ready[s] = "open" /\ hasCharacter' = hasCharacter
    /\ ready'[s] = "connecting" => ready[s] \in {"connecting", "unused"}

LEMMA QuietInv ==
  ASSUME ConsoleInv, TabInv', Quiet,
         \A s \in Sockets : ready[s] = "unused" /\ ready'[s] # "unused" => session[s] = "none",
         Wires(session, up, down, awaited), UNCHANGED registered
  PROVE  ConsoleInv'
  <1>1. /\ session \in [Sockets -> {"none", "starting", "serving"} \cup Ends]
        /\ registered' \in Sockets \cup {NoSocket}
        /\ awaited \in Seq(Messages) /\ Len(awaited) <= InFlight
    BY DEF ConsoleInv, ServerInv, FramesInv
  <1>2. ASSUME NEW s \in Sockets
        PROVE  /\ session[s] = "serving" <=> registered' = s
               /\ ready'[s] = "connecting" => session[s] = "none"
    BY DEF Quiet, ConsoleInv, ServerInv
  <1>3. ASSUME NEW s \in Sockets, ready'[s] = "open"
        PROVE  WireOK(s, session[s], up[s], down[s], awaited)
    BY <1>3, OpenSocket DEF Quiet, WireOK
  <1>4. QED
    BY <1>1, <1>2, <1>3, WiresInv

\* No step of the tab but OnOpen opens a connection.
LEMMA ShowQuiet ==
  ASSUME TabInv, NEW p, NEW sockets, Show(p, sockets),
         page # "/play" => sockets = ready,
         \A s \in Sockets : sockets[s] \in {"connecting", "open"} => sockets[s] = ready[s]
  PROVE  \A s \in Sockets :
           /\ ready'[s] = "open" => ready[s] = "open"
           /\ ready'[s] = "connecting" => ready[s] \in {"connecting", "unused"}
  <1>1. CASE page # "/play" /\ page' = "/play" /\ Mount
    <2>1. PICK s \in Sockets :
            /\ ready[s] = "unused"
            /\ \/ \E t \in Sockets \ {s} :
                    ready' = [ready EXCEPT ![s] = "connecting", ![t] = "closing"]
               \/ ready' = [ready EXCEPT ![s] = "connecting"]
      BY <1>1 DEF Mount
    <2>2. ready'[s] = "connecting"
          /\ \A t \in Sockets \ {s} : ready'[t] = ready[t] \/ ready'[t] = "closing"
      BY <2>1 DEF TabInv, TypeOK
    <2>3. QED
      BY <2>1, <2>2
  <1>2. CASE Cleanup(sockets)
    BY <1>2 DEF Cleanup, CloseCalled
  <1>3. CASE ready' = sockets
    BY <1>3
  <1>4. QED
    BY <1>1, <1>2, <1>3 DEF Show

LEMMA OnCloseQuiet ==
  ASSUME TabInv, NEW s \in Sockets, NEW code, OnClose(s, code)
  PROVE  Quiet
  <1> DEFINE over == [ready EXCEPT ![s] = IF s = socketRef THEN "closed" ELSE "unused"]
  <1>1. \A t \in Sockets : over[t] \in {"connecting", "open"} => over[t] = ready[t]
    BY DEF TabInv, TypeOK
  <1>2. Heeded(s) => page = "/play"
    BY ClientAssumption DEF Heeded, TabInv, OneLiveSocket
  <1>3. hasCharacter' = hasCharacter
    BY DEF OnClose
  <1>4. CASE ready' = over
    BY <1>1, <1>3, <1>4 DEF Quiet
  <1>5. CASE \E p : Heeded(s) /\ Goto(p, over)
    <2>1. PICK p : Heeded(s) /\ Show(p, over)
      BY <1>5 DEF Goto
    <2> HIDE DEF over
    <2>2. \A t \in Sockets :
            /\ ready'[t] = "open" => ready[t] = "open"
            /\ ready'[t] = "connecting" => ready[t] \in {"connecting", "unused"}
      BY <1>1, <1>2, <2>1, ShowQuiet
    <2>3. QED
      BY <1>3, <2>2 DEF Quiet
  <1>6. QED
    BY <1>4, <1>5 DEF OnClose

LEMMA OnCloseOpensNone ==
  ASSUME TabInv, NEW s \in Sockets, ready[s] = "open", NEW code, OnClose(s, code)
  PROVE  \A t \in Sockets : ready[t] = "unused" => ready'[t] = "unused"
  <1> DEFINE over == [ready EXCEPT ![s] = IF s = socketRef THEN "closed" ELSE "unused"]
  <1>1. page = "/play"
    BY ClientAssumption DEF TabInv, OneLiveSocket
  <1>2. \A t \in Sockets : ready[t] = "unused" => over[t] = "unused"
    OBVIOUS
  <1>3. CASE ready' = over
    BY <1>2, <1>3
  <1>4. CASE \E p : Show(p, over)
    <2>1. \/ ready' = over
          \/ ready' = [t \in Sockets |-> IF t = socketRef THEN CloseCalled(over[t]) ELSE over[t]]
      BY <1>1, <1>4 DEF Show, Cleanup
    <2>2. \A t \in Sockets : over[t] = "unused" => CloseCalled(over[t]) = "unused"
      BY DEF CloseCalled
    <2> HIDE DEF over
    <2>3. QED
      BY <1>2, <2>1, <2>2
  <1>5. QED
    BY <1>3, <1>4 DEF OnClose, Goto

LEMMA TabAloneQuiet ==
  ASSUME TabInv, TabInv', TabAlone
  PROVE  Quiet
  <1>0. page' # "/play" => \A s \in Sockets : ready'[s] # "open"
    BY ClientAssumption DEF TabInv, OneLiveSocket
  <1>1. ASSUME NEW p, Show(p, ready)
        PROVE  \A s \in Sockets :
                 /\ ready'[s] = "open" => ready[s] = "open"
                 /\ ready'[s] = "connecting" => ready[s] \in {"connecting", "unused"}
    BY <1>1, ShowQuiet
  <1>2. CASE (\E p \in Pages : Browse(p)) \/ SignOut \/ ListAnswered
    BY <1>1, <1>2 DEF Browse, SignOut, ListAnswered, Goto, game, Quiet
  <1>3. CASE LoginAnswered
    <2>1. CASE UNCHANGED <<game, token, hasCharacter>>
      BY <2>1 DEF game, Quiet
    <2>2. CASE Show("/characters", ready)
      <3>1. page' # "/play"
        BY <2>2 DEF Show, Shown
      <3>2. QED
        BY <1>0, <1>1, <2>2, <3>1 DEF Quiet
    <2>3. QED
      BY <1>3, <2>1, <2>2 DEF LoginAnswered
  <1>4. CASE Reload
    BY <1>4 DEF Reload, Quiet
  <1>5. CASE SubmitLogin \/ Expire
    BY <1>5 DEF SubmitLogin, Expire, game, Quiet
  <1>6. CASE Create
    <2>1. page' # "/play" /\ ready' = ready
      BY <1>6 DEF Create, game
    <2>2. QED
      BY <1>0, <2>1 DEF Quiet
  <1>7. CASE \E s \in Sockets : TokenRefused(s) \/ Unreachable(s) \/ Closed(s)
    BY <1>7, OnCloseQuiet DEF TokenRefused, Unreachable, Closed
  <1>8. QED
    BY <1>2, <1>3, <1>4, <1>5, <1>6, <1>7 DEF TabAlone

-------------------------------------------------------------------------------
(* The tab of the composition behaves as module Client says.               *)

LEMMA CloseCodes ==
  ASSUME NEW end
  PROVE  \/ CloseCode(end) = 1000 \/ CloseCode(end) = 1011
         \/ CloseCode(end) = 1008 /\ end = "characterless"
  <1>1. CASE end \in {"quit", "replaced"}
    BY <1>1 DEF CloseCode
  <1>2. CASE end \notin {"quit", "replaced"} /\ end = "characterless"
    BY <1>2 DEF CloseCode
  <1>3. CASE end \notin {"quit", "replaced"} /\ end # "characterless"
    BY <1>3 DEF CloseCode
  <1>4. QED
    BY <1>1, <1>2, <1>3

LEMMA DroppedWith ==
  ASSUME NEW s \in Sockets, ready[s] = "open", NEW code, OnClose(s, code),
         code = 1000 \/ code = 1006 \/ code = 1011 \/ (code = 1008 /\ ~hasCharacter)
  PROVE  Dropped(s)
  <1>1. code \in {1000, 1006, 1011} \cup (IF hasCharacter THEN {} ELSE {1008})
    OBVIOUS
  <1>2. QED
    BY <1>1 DEF Dropped

LEMMA StepOfTab ==
  ASSUME ConsoleInv, [ConsoleNext]_consoleVars
  PROVE  [Next]_vars
  <1>1. CASE TabAlone
    BY <1>1 DEF TabAlone, Next
  <1>2. CASE \E line \in Lines : Type(line)
    BY <1>2 DEF Type, Next
  <1>3. CASE \E s \in Sockets :
               Receive(s) \/ Enter(s) \/ TurnAway(s) \/ Read(s) \/ HangUp(s)
               \/ Replaced(s) \/ Tell(s)
    BY <1>3 DEF Receive, Enter, TurnAway, Read, HangUp, Replaced, Tell
  <1>4. CASE \E s \in Sockets : ServerClosed(s)
    <2>1. PICK s \in Sockets : ServerClosed(s)
      BY <1>4
    <2>2. ready[s] = "open" /\ OnClose(s, CloseCode(session[s]))
      BY <2>1 DEF ServerClosed
    <2>3. session[s] = "characterless" => ~hasCharacter
      BY <2>2, OpenSocket
    <2>4. Dropped(s)
      BY <2>2, <2>3, CloseCodes, DroppedWith
    <2>5. QED
      BY <2>4 DEF Next
  <1>5. CASE \E s \in Sockets : Broken(s)
    <2>1. PICK s \in Sockets : ready[s] = "open" /\ OnClose(s, 1006)
      BY <1>5 DEF Broken
    <2>2. Dropped(s)
      BY <2>1 DEF Dropped
    <2>3. QED
      BY <2>2 DEF Next
  <1>6. CASE \E s \in Sockets : Accept(s)
    BY <1>6 DEF Accept, Next
  <1>7. CASE UNCHANGED consoleVars
    BY <1>7 DEF consoleVars
  <1>8. QED
    BY <1>1, <1>2, <1>3, <1>4, <1>5, <1>6, <1>7 DEF ConsoleNext

LEMMA ConsoleStarts == ConsoleInit => ConsoleInv
  <1> SUFFICES ASSUME ConsoleInit
               PROVE  ConsoleInv
    OBVIOUS
  <1>1. TabInv
    BY TabInit DEF ConsoleInit
  <1>2. \A s \in Sockets : ready[s] = "unused"
    BY DEF ConsoleInit, Init
  <1>3. ServerInv
    BY <1>2, ClientAssumption DEF ConsoleInit, ServerInv, Ends
  <1>4. FramesInv
    <2>1. /\ << >> \in Seq(Messages) /\ << >> \in Seq(Frames) /\ Len(<< >>) = 0
      BY EmptySeq
    <2>2. up \in [Sockets -> Seq(Messages)] /\ down \in [Sockets -> Seq(Frames)]
      BY <2>1 DEF ConsoleInit
    <2>3. awaited = << >> /\ Len(awaited) <= InFlight
      BY <2>1, InFlightAssumption DEF ConsoleInit
    <2>4. \A s \in Sockets : up[s] = << >> /\ down[s] = << >> 
      BY DEF ConsoleInit
    <2>5. QED
      BY <2>1, <2>2, <2>3, <2>4 DEF FramesInv
  <1>5. OrderInv
    BY <1>2 DEF OrderInv
  <1>6. QED
    BY <1>1, <1>3, <1>4, <1>5 DEF ConsoleInv

-------------------------------------------------------------------------------
(* Each step keeps the frames in order.                                    *)

\* What every application of WiresInv to a step that leaves the tab alone needs.
LEMMA StillTab ==
  ASSUME ConsoleInv
  PROVE  /\ session \in [Sockets -> {"none", "starting", "serving"} \cup Ends]
         /\ registered \in Sockets \cup {NoSocket}
         /\ awaited \in Seq(Messages) /\ Len(awaited) <= InFlight /\ Len(awaited) \in Nat
         /\ \A s \in Sockets :
              /\ session[s] = "serving" <=> registered = s
              /\ ready[s] = "connecting" => session[s] = "none"
  BY LenProperties DEF ConsoleInv, ServerInv, FramesInv

LEMMA TypeStep ==
  ASSUME ConsoleInv, TabInv', NEW line \in Lines, Type(line)
  PROVE  ConsoleInv'
  <1> DEFINE m == Parse(line)
  <1>1. /\ m \in Messages /\ Len(awaited) < InFlight
        /\ UNCHANGED <<ready, hasCharacter, registered>>
    BY DEF Type, Messages, Quit, vars, game
  <1>2. CASE /\ ready[socketRef] = "open"
             /\ Wires(session, Send(up, socketRef, m), down, Append(awaited, m))
    <2>1. Append(awaited, m) \in Seq(Messages) /\ Len(Append(awaited, m)) = Len(awaited) + 1
      BY <1>1, StillTab, AppendProperties
    <2>2. Len(Append(awaited, m)) <= InFlight
      BY <1>1, <2>1, StillTab, InFlightAssumption
    <2>3. ASSUME NEW s \in Sockets, ready'[s] = "open"
          PROVE  WireOK(s, session[s], Send(up, socketRef, m)[s], down[s], Append(awaited, m))
      <3>1. ready[s] = "open" /\ socketRef = s
        BY <1>1, <2>3, OpenSocket
      <3>2. Send(up, socketRef, m)[s] = Append(up[s], m)
        BY <3>1 DEF Send, ConsoleInv, FramesInv
      <3>3. Append(up[s], m) \in Seq(Messages)
        BY <1>1, <3>1, OpenSocket, AppendProperties
      <3>4. InOrder(session[s], Append(up[s], m), down[s], Append(awaited, m))
        BY <1>1, <3>1, StillTab, OpenSocket, OrderSend
      <3>5. QED
        BY <1>1, <3>1, <3>2, <3>3, <3>4, OpenSocket DEF WireOK
    <2>4. QED
      BY <1>1, <1>2, <2>1, <2>2, <2>3, StillTab, WiresInv
  <1>3. CASE Wires(session, up, down, awaited)
    BY <1>1, <1>3, QuietInv DEF Quiet
  <1>4. QED
    BY <1>2, <1>3 DEF Type

LEMMA ReceiveStep ==
  ASSUME ConsoleInv, TabInv', NEW s \in Sockets, Receive(s)
  PROVE  ConsoleInv'
  <1> DEFINE downs == [down EXCEPT ![s] = Tail(@)]
             commands == IF Head(down[s]).to = NoMessage THEN awaited ELSE Tail(awaited)
  <1>1. /\ ready[s] = "open" /\ down[s] # << >>
        /\ UNCHANGED <<ready, hasCharacter, registered>>
        /\ Wires(session, up, downs, commands)
    BY DEF Receive, vars, game
  <1>2. /\ down[s] \in Seq(Frames) /\ up[s] \in Seq(Messages)
        /\ InOrder(session[s], up[s], down[s], awaited)
    BY <1>1, OpenSocket
  <1>3. /\ InOrder(session[s], up[s], Tail(down[s]), commands)
        /\ IsReply(Head(down[s])) => awaited # << >>
    BY <1>1, <1>2, StillTab, OrderRead
  <1>4. Tail(down[s]) \in Seq(Frames)
    BY <1>1, <1>2, HeadTailProperties
  <1>5. commands \in Seq(Messages) /\ Len(commands) <= InFlight
    <2>1. CASE Head(down[s]).to = NoMessage
      BY <2>1, StillTab
    <2>2. CASE Head(down[s]).to # NoMessage
      <3>1. Tail(awaited) \in Seq(Messages) /\ Len(Tail(awaited)) = Len(awaited) - 1
        BY <1>3, <2>2, StillTab, HeadTailProperties DEF IsReply
      <3>2. commands = Tail(awaited)
        BY <2>2
      <3> HIDE DEF commands
      <3>3. QED
        BY <3>1, <3>2, StillTab, InFlightAssumption
    <2>3. QED
      BY <2>1, <2>2
  <1> HIDE DEF commands
  <1>6. ASSUME NEW t \in Sockets, ready'[t] = "open"
        PROVE  WireOK(t, session[t], up[t], downs[t], commands)
    <2>1. t = s
      BY <1>1, <1>6, OpenSocket
    <2>2. downs[t] = Tail(down[s])
      BY <2>1 DEF ConsoleInv, FramesInv
    <2>3. session[t] # "starting"
      BY <1>1, <2>1, OpenSocket
    <2>4. QED
      BY <1>1, <1>2, <1>3, <1>4, <2>1, <2>2, <2>3, OpenSocket DEF WireOK
  <1> HIDE DEF downs
  <1>7. QED
    BY <1>1, <1>5, <1>6, StillTab, WiresInv

\* A step of the session of s, which may displace another.
LEMMA SessionStep ==
  ASSUME ConsoleInv, TabInv', UNCHANGED vars, NEW s \in Sockets,
         NEW now \in [Sockets -> {"none", "starting", "serving"} \cup Ends],
         NEW ups, NEW downs, Wires(now, ups, downs, awaited),
         registered' \in Sockets \cup {NoSocket},
         \A t \in Sockets : now[t] = "serving" <=> registered' = t,
         session[s] = "none" => ready[s] # "connecting",
         ready[s] = "connecting" => now[s] = "none",
         ready[s] = "open" => WireOK(s, now[s], ups[s], downs[s], awaited),
         \A t \in Sockets \ {s} :
           /\ now[t] = session[t] \/ (session[t] = "serving" /\ now[t] = "replaced")
           /\ ups[t] = up[t] /\ downs[t] = down[t]
  PROVE  ConsoleInv'
  <1>1. UNCHANGED <<ready, hasCharacter>>
    BY DEF vars, game
  <1>2. ASSUME NEW t \in Sockets
        PROVE  /\ ready'[t] = "connecting" => now[t] = "none"
               /\ ready'[t] = "open" => WireOK(t, now[t], ups[t], downs[t], awaited)
    <2>1. CASE t = s
      BY <1>1, <2>1
    <2>2. CASE t # s
      <3>1. ready'[t] = "connecting" => now[t] = "none"
        BY <1>1, <2>2, StillTab
      <3>2. ASSUME ready'[t] = "open"
            PROVE  InOrder(now[t], up[t], down[t], awaited)
        <4>1. InOrder(session[t], up[t], down[t], awaited)
          BY <1>1, <3>2, OpenSocket
        <4>2. now[t] = session[t] \/ now[t] \in Ends
          BY <2>2 DEF Ends
        <4>3. QED
          BY <4>1, <4>2, OrderEnd
      <3>3. ASSUME ready'[t] = "open"
            PROVE  WireOK(t, now[t], ups[t], downs[t], awaited)
        BY <1>1, <2>2, <3>2, <3>3, OpenSocket DEF WireOK
      <3>4. QED
        BY <3>1, <3>3
    <2>3. QED
      BY <2>1, <2>2
  <1>3. QED
    BY <1>2, StillTab, WiresInv

LEMMA AcceptStep ==
  ASSUME ConsoleInv, TabInv', NEW s \in Sockets, Accept(s)
  PROVE  ConsoleInv'
  <1> DEFINE now == Become(s, "starting")
  <1>1. /\ session[s] = "none" /\ UNCHANGED registered
        /\ Wires(now, up, down, awaited)
    BY DEF Accept
  <1>2. /\ now \in [Sockets -> {"none", "starting", "serving"} \cup Ends]
        /\ now[s] = "starting" /\ \A t \in Sockets \ {s} : now[t] = session[t]
    BY StillTab DEF Become
  <1> HIDE DEF now
  <1>3. \A t \in Sockets : now[t] = "serving" <=> registered' = t
    BY <1>1, <1>2, StillTab
  <1>4. CASE ready[s] = "closing" /\ UNCHANGED vars
    BY <1>1, <1>2, <1>3, <1>4, StillTab, SessionStep
  <1>5. CASE OnOpen(s)
    <2>1. /\ ready[s] = "connecting" /\ socketRef = s
          /\ ready' = [ready EXCEPT ![s] = "open"] /\ hasCharacter' = hasCharacter
          /\ ready \in [Sockets -> {"unused", "connecting", "open", "closing", "closed"}]
      BY <1>5 DEF OnOpen, ConsoleInv, TabInv, TypeOK, OneLiveSocket
    <2>2. up[s] = << >> /\ down[s] = << >> /\ awaited = << >>
      BY <2>1 DEF ConsoleInv, FramesInv
    <2>3. \A t \in Sockets \ {s} : ready'[t] # "open" /\ ready'[t] # "connecting"
      BY <2>1 DEF ConsoleInv, TabInv, OneLiveSocket
    <2>4. ready'[s] = "open"
      BY <2>1
    <2>5. WireOK(s, now[s], up[s], down[s], awaited)
      BY <1>2, <2>1, <2>2, OrderStart, EmptySeq DEF WireOK
    <2>6. QED
      BY <1>1, <1>2, <1>3, <2>3, <2>4, <2>5, StillTab, WiresInv
  <1>6. QED
    BY <1>4, <1>5 DEF Accept

LEMMA EnterStep ==
  ASSUME ConsoleInv, TabInv', NEW s \in Sockets, Enter(s)
  PROVE  ConsoleInv'
  <1> DEFINE now == [t \in Sockets |-> IF t = s THEN "serving"
                       ELSE IF t = registered THEN "replaced" ELSE session[t]]
             downs == Send(down, s, Welcomed)
  <1>1. /\ session[s] = "starting" /\ registered' = s /\ UNCHANGED vars
        /\ Wires(now, up, downs, awaited)
    BY DEF Enter
  <1>2. /\ now \in [Sockets -> {"none", "starting", "serving"} \cup Ends]
        /\ now[s] = "serving"
        /\ \A t \in Sockets \ {s} :
             /\ now[t] = session[t] \/ (session[t] = "serving" /\ now[t] = "replaced")
             /\ now[t] # "serving"
    BY StillTab DEF Ends
  <1>3. downs[s] = Append(down[s], Welcomed) /\ \A t \in Sockets \ {s} : downs[t] = down[t]
    BY DEF Send, ConsoleInv, FramesInv
  <1> HIDE DEF now, downs
  <1>4. ASSUME ready[s] = "open"
        PROVE  WireOK(s, now[s], up[s], downs[s], awaited)
    <2>1. /\ socketRef = s /\ up[s] \in Seq(Messages) /\ down[s] \in Seq(Frames)
          /\ down[s] = << >> /\ InOrder(session[s], up[s], down[s], awaited)
      BY <1>1, <1>4, OpenSocket
    <2>2. Welcomed \in Frames /\ ~IsReply(Welcomed)
      BY FrameKinds
    <2>3. InOrder("serving", up[s], down[s], awaited)
      BY <1>1, <2>1, OrderEnd DEF Ends
    <2>4. InOrder("serving", up[s], Append(down[s], Welcomed), awaited)
      BY <2>1, <2>2, <2>3, StillTab, OrderTell
    <2>5. Append(down[s], Welcomed) \in Seq(Frames)
      BY <2>1, <2>2, AppendProperties
    <2>6. QED
      BY <1>2, <1>3, <2>1, <2>4, <2>5 DEF WireOK
  <1>5. ready[s] # "connecting"
    BY <1>1, StillTab
  <1>6. QED
    BY <1>1, <1>2, <1>3, <1>4, <1>5, SessionStep

\* A session ends without a word, or with a last one.
LEMMA EndStep ==
  ASSUME ConsoleInv, TabInv', UNCHANGED vars, NEW s \in Sockets,
         session[s] # "none", NEW how \in Ends, how = "characterless" => ~hasCharacter,
         NEW downs,
         \/ downs = down
         \/ session[s] = "starting" /\ downs = Send(down, s, Refusal),
         Wires(Become(s, how), up, downs, awaited),
         registered' = IF registered = s THEN NoSocket ELSE registered
  PROVE  ConsoleInv'
  <1> DEFINE now == Become(s, how)
  <1>1. /\ now \in [Sockets -> {"none", "starting", "serving"} \cup Ends]
        /\ now[s] = how /\ \A t \in Sockets \ {s} : now[t] = session[t]
        /\ Wires(now, up, downs, awaited)
    BY StillTab DEF Become
  <1> HIDE DEF now
  <1>2. /\ registered' \in Sockets \cup {NoSocket}
        /\ \A t \in Sockets : now[t] = "serving" <=> registered' = t
    BY <1>1, StillTab, ClientAssumption DEF Ends
  <1>3. \A t \in Sockets \ {s} : downs[t] = down[t]
    BY DEF Send, ConsoleInv, FramesInv
  <1>4. ASSUME ready[s] = "open"
        PROVE  WireOK(s, now[s], up[s], downs[s], awaited)
    <2>1. /\ socketRef = s /\ up[s] \in Seq(Messages) /\ down[s] \in Seq(Frames)
          /\ session[s] = "starting" => down[s] = << >>
          /\ InOrder(session[s], up[s], down[s], awaited)
      BY <1>4, OpenSocket
    <2>2. InOrder(how, up[s], down[s], awaited)
      BY <2>1, OrderEnd
    <2>3. how # "starting" /\ how # "none" /\ (how = "characterless" => ~hasCharacter')
      BY DEF Ends, vars
    <2>4. CASE downs = down
      BY <1>1, <2>1, <2>2, <2>3, <2>4 DEF WireOK
    <2>5. CASE session[s] = "starting" /\ downs = Send(down, s, Refusal)
      <3>1. Refusal \in Frames /\ ~IsReply(Refusal)
        BY FrameKinds
      <3>2. InOrder(how, up[s], Append(down[s], Refusal), awaited)
        BY <2>1, <2>2, <2>5, <3>1, StillTab, OrderTell
      <3>3. Append(down[s], Refusal) \in Seq(Frames)
        BY <2>1, <3>1, AppendProperties
      <3>4. downs[s] = Append(down[s], Refusal)
        BY <2>5 DEF Send, ConsoleInv, FramesInv
      <3>5. QED
        BY <1>1, <2>1, <2>3, <3>2, <3>3, <3>4 DEF WireOK
    <2>6. QED
      BY <2>4, <2>5
  <1>5. ready[s] # "connecting"
    BY StillTab
  <1>6. QED
    BY <1>1, <1>2, <1>3, <1>4, <1>5, SessionStep

\* Steps that end a session.
LEMMA EndSteps ==
  ASSUME ConsoleInv, TabInv', NEW s \in Sockets,
         \/ TurnAway(s) \/ HangUp(s) \/ Replaced(s)
         \/ session[s] = "serving" /\ UNCHANGED vars /\ End(s, "quit")
  PROVE  ConsoleInv'
  <1>0. /\ {"characterless", "failed", "quit", "replaced"} \subseteq Ends
        /\ "quit" # "characterless" /\ "failed" # "characterless"
        /\ "replaced" # "characterless"
    BY DEF Ends
  <1>1. CASE TurnAway(s)
    <2>1. /\ session[s] # "none" /\ session[s] = "starting" /\ UNCHANGED vars
          /\ registered' = IF registered = s THEN NoSocket ELSE registered
      BY <1>1, StillTab DEF TurnAway
    <2>2. \/ ~hasCharacter /\ Wires(Become(s, "characterless"), up, Send(down, s, Refusal), awaited)
          \/ Wires(Become(s, "failed"), up, down, awaited)
          \/ Wires(Become(s, "failed"), up, Send(down, s, Refusal), awaited)
      BY <1>1 DEF TurnAway
    <2>3. QED
      BY <1>0, <2>1, <2>2, EndStep
  <1>2. CASE HangUp(s)
    <2>1. session[s] # "none"
      BY <1>2 DEF HangUp
    <2>2. QED
      BY <1>0, <1>2, <2>1, EndStep DEF HangUp, End
  <1>3. CASE Replaced(s)
    <2>1. session[s] # "none"
      BY <1>3, StillTab DEF Replaced
    <2>2. QED
      BY <1>0, <1>3, <2>1, EndStep DEF Replaced, End
  <1>4. CASE session[s] = "serving" /\ UNCHANGED vars /\ End(s, "quit")
    <2>1. session[s] # "none"
      BY <1>4
    <2>2. QED
      BY <1>0, <1>4, <2>1, EndStep DEF End
  <1>5. QED
    BY <1>1, <1>2, <1>3, <1>4

LEMMA ReadStep ==
  ASSUME ConsoleInv, TabInv', NEW s \in Sockets, Read(s)
  PROVE  ConsoleInv'
  <1> DEFINE m == Head(up[s])
  <1>1. session[s] = "serving" /\ up[s] # << >> /\ UNCHANGED vars
    BY DEF Read
  <1>2. CASE End(s, "quit")
    BY <1>1, <1>2, EndSteps
  <1>3. CASE /\ UNCHANGED registered
             /\ \E a \in Answers(m) :
                  Wires(session, [up EXCEPT ![s] = Tail(@)], Send(down, s, Reply(a, m)), awaited)
    <2>1. PICK a \in Answers(m) :
            Wires(session, [up EXCEPT ![s] = Tail(@)], Send(down, s, Reply(a, m)), awaited)
      BY <1>3
    <2> DEFINE ups == [up EXCEPT ![s] = Tail(@)]
               downs == Send(down, s, Reply(a, m))
    <2>2. /\ ups[s] = Tail(up[s]) /\ downs[s] = Append(down[s], Reply(a, m))
          /\ \A t \in Sockets \ {s} : ups[t] = up[t] /\ downs[t] = down[t]
      BY DEF Send, ConsoleInv, FramesInv
    <2>3. up[s] \in Seq(Messages) /\ ready[s] = "open"
      BY <1>1 DEF ConsoleInv, FramesInv
    <2>4. m \in Messages /\ Tail(up[s]) \in Seq(Messages)
      BY <1>1, <2>3, HeadTailProperties
    <2>5. /\ Reply(a, m) \in Frames /\ IsReply(Reply(a, m)) /\ Reply(a, m).to = m
          /\ Reply(a, m) # News
      BY <2>4, FrameKinds
    <2>6. WireOK(s, session[s], ups[s], downs[s], awaited)
      <3>1. /\ socketRef = s /\ down[s] \in Seq(Frames)
            /\ InOrder(session[s], up[s], down[s], awaited)
        BY <2>3, OpenSocket
      <3>2. session[s] \notin Ends /\ session[s] # "none" /\ session[s] # "starting"
            /\ session[s] # "characterless"
        BY <1>1 DEF Ends
      <3>3. InOrder(session[s], Tail(up[s]), Append(down[s], Reply(a, m)), awaited)
        BY <1>1, <2>3, <2>5, <3>1, <3>2, StillTab, OrderReply
      <3>4. Append(down[s], Reply(a, m)) \in Seq(Frames)
        BY <2>5, <3>1, AppendProperties
      <3>5. QED
        BY <2>2, <2>4, <3>1, <3>2, <3>3, <3>4 DEF WireOK
    <2>7. /\ session[s] = "none" => ready[s] # "connecting"
          /\ ready[s] # "connecting"
      BY <2>3
    <2>8. /\ registered' \in Sockets \cup {NoSocket}
          /\ \A t \in Sockets : session[t] = "serving" <=> registered' = t
      BY <1>3, StillTab
    <2>9. Wires(session, ups, downs, awaited)
      BY <2>1
    <2> HIDE DEF ups, downs
    <2>10. QED
      BY <1>1, <2>2, <2>6, <2>7, <2>8, <2>9, StillTab, SessionStep
  <1>4. QED
    BY <1>2, <1>3 DEF Read

LEMMA TellStep ==
  ASSUME ConsoleInv, TabInv', NEW s \in Sockets, Tell(s)
  PROVE  ConsoleInv'
  <1> DEFINE downs == Send(down, s, News)
  <1>1. /\ registered = s /\ News \notin Range(down[s])
        /\ UNCHANGED <<vars, registered>> /\ Wires(session, up, downs, awaited)
    BY DEF Tell
  <1>2. /\ downs[s] = Append(down[s], News)
        /\ \A t \in Sockets \ {s} : downs[t] = down[t]
    BY DEF Send, ConsoleInv, FramesInv
  <1> HIDE DEF downs
  <1>3. session[s] = "serving"
    BY <1>1, StillTab
  <1>4. ASSUME ready[s] = "open"
        PROVE  WireOK(s, session[s], up[s], downs[s], awaited)
    <2>1. /\ socketRef = s /\ up[s] \in Seq(Messages) /\ down[s] \in Seq(Frames)
          /\ InOrder(session[s], up[s], down[s], awaited)
      BY <1>4, OpenSocket
    <2>2. News \in Frames /\ ~IsReply(News)
      BY FrameKinds
    <2>3. InOrder(session[s], up[s], Append(down[s], News), awaited)
      BY <1>1, <2>1, <2>2, StillTab, OrderTell
    <2>4. Append(down[s], News) \in Seq(Frames)
      BY <2>1, <2>2, AppendProperties
    <2>5. QED
      BY <1>2, <1>3, <2>1, <2>3, <2>4 DEF WireOK
  <1>5. ready[s] # "connecting"
    BY <1>3, StillTab
  <1>6. QED
    BY <1>1, <1>2, <1>3, <1>4, <1>5, StillTab, SessionStep

LEMMA ConsoleNextInv ==
  ASSUME ConsoleInv, [ConsoleNext]_consoleVars
  PROVE  ConsoleInv'
  <1>0. TabInv'
    BY StepOfTab, TabNext DEF ConsoleInv
  <1>1. CASE TabAlone
    <2>1. Quiet
      BY <1>0, <1>1, TabAloneQuiet DEF ConsoleInv
    <2>2. QED
      BY <1>0, <1>1, <2>1, QuietInv DEF TabAlone
  <1>2. CASE \E line \in Lines : Type(line)
    BY <1>0, <1>2, TypeStep
  <1>3. CASE \E s \in Sockets : ServerClosed(s) \/ Broken(s)
    <2>1. PICK s \in Sockets :
            /\ ready[s] = "open" /\ \E code : OnClose(s, code)
            /\ Wires(session, up, down, awaited) /\ UNCHANGED registered
      BY <1>3 DEF ServerClosed, Broken
    <2>2. Quiet
      BY <2>1, OnCloseQuiet DEF ConsoleInv
    <2>3. \A t \in Sockets : ready[t] = "unused" => ready'[t] = "unused"
      BY <2>1, OnCloseOpensNone DEF ConsoleInv
    <2>4. QED
      BY <1>0, <2>1, <2>2, <2>3, QuietInv
  <1>4. CASE \E s \in Sockets : Receive(s)
    BY <1>0, <1>4, ReceiveStep
  <1>5. CASE \E s \in Sockets : Accept(s)
    BY <1>0, <1>5, AcceptStep
  <1>6. CASE \E s \in Sockets : Enter(s)
    BY <1>0, <1>6, EnterStep
  <1>7. CASE \E s \in Sockets : TurnAway(s) \/ HangUp(s) \/ Replaced(s)
    BY <1>0, <1>7, EndSteps
  <1>8. CASE \E s \in Sockets : Read(s)
    BY <1>0, <1>8, ReadStep
  <1>9. CASE \E s \in Sockets : Tell(s)
    BY <1>0, <1>9, TellStep
  <1>10. CASE UNCHANGED consoleVars
    BY <1>0, <1>10
    DEF consoleVars, vars, game, server, ConsoleInv, ServerInv, FramesInv, OrderInv
  <1>11. QED
    BY <1>1, <1>2, <1>3, <1>4, <1>5, <1>6, <1>7, <1>8, <1>9, <1>10 DEF ConsoleNext

LEMMA ConsoleAlways == ConsoleSpec => []ConsoleInv
  <1>1. ConsoleInv /\ [ConsoleNext]_consoleVars => ConsoleInv'
    BY ConsoleNextInv
  <1>2. QED
    BY <1>1, ConsoleStarts, PTL DEF ConsoleSpec

(***************************************************************************)
(* The sessions of websocket.py are what Game.tsx takes for granted: with  *)
(* them at the other end, the tab makes no step that module Client does    *)
(* not allow -- 1008, in particular, is never said to whoever has a        *)
(* character.                                                              *)
(***************************************************************************)
THEOREM ServerSuitsClient == ConsoleSpec => ImplementsClient
  <1>1. ConsoleInit => Init
    BY DEF ConsoleInit
  <1>2. ConsoleInv /\ [ConsoleNext]_consoleVars => [Next]_vars
    BY StepOfTab
  <1>3. QED
    BY <1>1, <1>2, ConsoleAlways, PTL DEF ConsoleSpec, ImplementsClient, Spec

\* The queues are as short as the type invariant of the composition says.
LEMMA Bounded == ConsoleInv => ConsoleTypeOK
  <1> SUFFICES ASSUME ConsoleInv
               PROVE  ConsoleTypeOK
    OBVIOUS
  <1>1. ASSUME NEW s \in Sockets
        PROVE  Len(up[s]) <= InFlight /\ Len(down[s]) <= InFlight + 2
    <2>1. Len(<< >>) = 0
      BY EmptySeq
    <2>2. CASE ready[s] # "open"
      <3>1. Len(up[s]) = 0 /\ Len(down[s]) = 0
        BY <2>1, <2>2 DEF ConsoleInv, FramesInv
      <3>2. QED
        BY <3>1, InFlightAssumption
    <2>3. CASE ready[s] = "open"
      <3> DEFINE k == Replies(down[s], Len(down[s]))
      <3>1. /\ k <= Len(awaited) /\ Len(down[s]) <= k + 2
            /\ session[s] \notin Ends => Len(awaited) = k + Len(up[s])
        BY <2>3, OpenSocket DEF InOrder
      <3>2. Len(down[s]) \in Nat /\ Len(up[s]) \in Nat
        BY <2>3, OpenSocket, LenProperties
      <3>3. k \in Nat
        BY <3>2, RepliesType
      <3>4. session[s] \in Ends => Len(up[s]) = 0
        BY <2>1 DEF ConsoleInv, FramesInv
      <3> HIDE DEF k
      <3>5. QED
        BY <3>1, <3>2, <3>3, <3>4, StillTab, InFlightAssumption
    <2>4. QED
      BY <2>2, <2>3
  <1>2. TypeOK
    BY DEF ConsoleInv, TabInv
  <1>3. /\ session \in [Sockets -> {"none", "starting", "serving"} \cup Ends]
        /\ registered \in Sockets \cup {NoSocket}
        /\ \A s \in Sockets : session[s] = "serving" <=> registered = s
    BY StillTab
  <1>4. QED
    BY <1>1, <1>2, <1>3 DEF ConsoleTypeOK

(***************************************************************************)
(* Type correctness; exactly the session that serves is registered, and    *)
(* no queue outgrows the commands under way by more than two frames.       *)
(***************************************************************************)
THEOREM ConsoleTyped == ConsoleSpec => []ConsoleTypeOK
  BY Bounded, ConsoleAlways, PTL

(***************************************************************************)
(* Each command is answered once, in its turn (the loop of ws_endpoint     *)
(* answers before it reads on; handleServer shows what comes): the console *)
(* can tell the answers by their order, but for chat that nobody hears,    *)
(* whose turn passes in silence.                                           *)
(***************************************************************************)
THEOREM AnswersInOrder == ConsoleSpec => []RepliesInOrder
  <1>1. ConsoleInv => RepliesInOrder
    BY OpenSocket DEF RepliesInOrder, InOrder
  <1>2. QED
    BY <1>1, ConsoleAlways, PTL

(***************************************************************************)
(* With the sessions of the server at the other end the header still tells *)
(* the truth, and no second socket is left open.                           *)
(***************************************************************************)
COROLLARY ConsoleIsHonest == ConsoleSpec => [](OneLiveSocket /\ HonestStatus)
  <1>1. ConsoleInv => OneLiveSocket /\ HonestStatus
    BY DEF ConsoleInv, TabInv
  <1>2. QED
    BY <1>1, ConsoleAlways, PTL
===============================================================================
