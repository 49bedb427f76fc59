# StormFront in TLA+

A verification development for StormFront, a small multi-user dungeon: a
Python/FastAPI server (`server/`), a Node/NestJS server of which the broker has
been ported (`server-node/`), a React client (`client/`) and the contract they
share (`spec/`). The TLA+ modules model the servers' own logic, TLC checks them
on small instances, and TLAPS proves the main results for all instances.

## 1. The system

| component | state | operations | interacts with |
|---|---|---|---|
| Broker, `server/app/broker.py` | `_players`, `_player_rooms`, `_room_members`, a lock; broadcasts on their way | connect, disconnect, move, publish_to_room, publish_to_all | called by sessions and NPC tasks; closes displaced sockets |
| WebSocket sessions, `routers/websocket.py` | one `Player` object per session, cached for its lifetime; the player and room documents | ws_endpoint's life cycle; move, take, drop, say, shout, quit; look, examine, who, inventory, ping | MongoDB, broker, client |
| Accounts and characters, `routers/auth.py`, `routers/characters.py`, `deps.py`, `security.py` | accounts and players collections, unique indexes; signed tokens that are never stored | register, login, refresh, me, list and create characters, the token check of the handshake | MongoDB, client |
| Process life cycle, `main.py`, `db.py`, `world.py`, `npc_scheduler.py` | seeded collections, one chatter task per room | lifespan start and stop, seed_if_empty, start, stop, fire_once | MongoDB, broker |
| Node broker, `server-node/src/websocket/broker.service.ts` | three Maps; the ws library's send buffers | the broker's operations, all synchronous | nobody yet: `game.gateway.ts` closes every connection |
| Rest of the Node server | none | every endpoint throws NotImplementedException | - |
| Client, `client/src` | page, token in local storage, sockets, `active` flag and `quittingRef` of each mounted game, requests awaited | sign in, sign out, create, play, quit; the sockets' callbacks | both servers' HTTP and WebSocket |
| Messages, `models.py`, `spec/`, `protocol.ts` | none | validation | everything |
| Configuration, health, containers | none | - | Redis is started and used by nothing |

**What is hard here.** Everything runs in one asyncio event loop, so code
interleaves exactly at its `await`s, and there is one at every database call and
every send. (1) A session reads its player once and never again: each decision
(which room, which exits, which key, which inventory) is made on that copy,
while a second session of the same player may be running, or a failed database
call may have left the copy behind. (2) A take or drop is a `$pull` on one
document and a `$push` on another, with other sessions, errors and crashes in
between. (3) A displaced session goes on in whatever handler it is in, and
unregisters itself at the end. (4) A broadcast awaits every socket of its
snapshot, the dead ones included. (5) register looks before it inserts. (6) A
start can be cut off between two collections, a stop can find a chatter task in
the middle of a broadcast. (7) What a client knows of its room comes from two sources, the documents (views) and the
broker (events), read at different moments. (8) The browser runs the callbacks of sockets and
requests whose page is gone, and client and server each decide for themselves what a command
is and what the end of a connection means. `hazards` in PROJECT.json lists these by line.

**What makes each component correct.** Broker: the room index is the inverse of
the players' rooms, newer connections win and cannot be taken out by older ones,
broadcasts end. Sessions: no item is duplicated or lost, one open session per
player, every dead socket is released, commands finish, players walk through
exits and through locked ones with keys, what they are told is true and adds up to who is in
their room. Accounts:
one account per address, one character per name, tokens stay with those who know
the password, every session of an account plays the same character. Process: a
server that is up has its whole world and its chatter, and stops cleanly. Client: one
live socket, an honest status, no surprise from an earlier page, quit leaves, each command
is answered once and in its turn.

## 2. Modules

```
implements (INSTANCE with a refinement mapping)
  Broker ==> Registry        GameServer ==> Broker       NodeBroker ==> Broker
  Console ==> Client         GameServer ==> World, if nothing fails and the sessions
                                                   of a player do not overlap
extends
  Broker, NodeBroker --> Dictionaries      GameServer, Lifespan --> Broker
  Presence --> GameServer                  Console --> Client

proofs
  BrokerProofs, AccountsProofs, LifespanProofs, ConsoleProofs (Client's too): of the module named
  GameServerProofs --> BrokerProofs: what holds of GameServer however sessions overlap and fail
  SerialProofs --> GameServerProofs: what holds when the sessions of a player do not overlap
  PresenceProofs --> SerialProofs: that what clients are shown and told adds up
  NodeBrokerProofs, with an INSTANCE of BrokerProofs: the port's refinement
```

* **Registry** is the abstract promise: at most one connection and one room per
  player, and broadcasts to the connections standing in a room at that moment.
* **World** is the game as the contract tells it: everybody is in one room, every thing in
  one place; walking (with the key), taking and dropping happen at once or not at all.
* **Dictionaries** has the partial functions behind the Python dictionaries and
  TypeScript Maps.
* **Broker** models `broker.py`. Each body under the lock has no await, so
  each operation is one action, with two exceptions. `connect` closes the
  displaced socket after the lock: the close marks it `closed` at once, and a
  session waits in `joined` for the rest. `_fan_out` suspends: the publisher
  `b` awaits the set `audience[b]`, from which `Deliver` takes one connection
  at a time, whether the send succeeded or `_safe_send` swallowed its error. The sends are
  tasks of their own; where it matters when text is handed over (Presence), it is at Deliver.
  `MoveAndPublish` is `broker.move` and the first half of `publish_to_room`,
  which run without a suspension in between (an uncontended lock does not
  suspend).
* **GameServer** models `websocket.py` on top of Broker. `pc[s]` names the
  await session `s` is suspended in; an action is the code from there to the
  next suspension. Variables `room` and `inv` are the cached Player's
  `current_room_id` and `inventory_item_ids`; `item` and `dest` are handler
  locals; `currentRoomId`, `inventoryItemIds`, `itemIds` are the documents'
  fields (lists of ids as counts: order never matters, duplicates do).
  `take` is TakeFind, TakePull, TakePush, TakeList, TakeTell, TakeDone; drop
  and move likewise. A session starts by LoadPlayer, Welcome (the view is read, its send
  begins), Join (`broker.connect`) and Serve. Reads of what never changes are merged into the
  step that uses the answer. Look and LookDone are `look` at the room, whose view is read at one
  await and sent after it; the other read-only commands and every error answer are `Answer`.
* **Presence** adds to GameServer what the clients know of each other: `seen[s]` is whom the
  client of session `s` takes to be in its room. A room view (`_room_view`, in the welcome, in
  the answer to a move, in the answer to `look`) is read from the documents at one await
  (`ReadOccupants`, into `view[s]`) and sent after a later one (`ViewSent`); arrivals and
  departures published to the client's connection change `seen[s]` when Deliver takes the
  connection off the audience. So news may be published, and reach the client, between the
  reading of a view and its sending, and a view may overtake news. `hazy[s]` names the players
  about whom the client may then be wrong, and `doubt[s]` those of whom `view[s]` is out of date.
* **Accounts** models requests as tasks named by the uuid they would give to
  what they insert. A request is one or two steps: up to an insert, and the
  insert. bcrypt is the function `Hash` (equal for passwords with equal first
  72 bytes) and the set `Unhashable` (more than 72 bytes, refused by bcrypt 5).
  `lower()` and the collation are the functions `Lower` and `Fold`.
* **Lifespan** models the process: Boot (indexes), SeedIfEmpty per collection,
  Start (rosters, tasks), the chatter loop, Stop, Unwind, Stopped, and Crash
  anywhere. Chatter tasks are publishers of the broker, named by their room. A
  cancelled `gather` cancels its sends and returns when all of them have, so a
  cancelled task unwinds when its audience is empty.
* **NodeBroker** models `broker.service.ts`. A broadcast puts its name into
  the buffer of each connection addressed; `audience[b]` of the Python broker
  is mapped to the connections whose buffer still holds `b`.
* **Client** models one tab of the browser client. `page` is the route, `token` the
  access token in local storage (`expired` once the server refuses it), `ready` the
  readyState of each socket, `active` the sockets whose effect has not been cleaned up.
  `Goto` is navigation with what React does about it: RequireAuth, the clean-up of the page
  left, the effect of the page entered (twice under StrictMode). An action is a callback
  and the render that follows it: React flushes effects synchronously for what the user
  does, and where a socket's close causes the navigation there is nothing left to arrive.
  The server appears as what it does to a connection.
* **Console** puts the server's end to the sockets of Client. `session[s]` is how far
  `ws_endpoint` has got with socket `s` (or how it ended), `registered` what the broker has for
  the player, `up` and `down` the frames under way, `awaited` the commands whose answers the
  console has not shown. `Type` is `send` with `parseCommand`; a message is its type and what
  the validation of `models.py` tells apart; `Read` is one turn of the server's loop, with any
  answer the dispatcher may give that message (for a line said into a room the broker no longer
  has the speaker in: none). ImplementsClient says that these sessions do to
  the tab only what module Client lets a server do.
* **MC...** modules and `.cfg` files are the instances. Definitions marked
  "Mutant of ..." are plausible bugs of the definition that follows them; no
  specification uses them. Each property was seen to fail with its mutant
  (PROJECT.json, `mutants`).

What the environment may do: clients open and drop connections and send commands
at any time, sends to dropped clients fail or succeed, database calls raise
(`DbError`; a write that was applied although it raised is the error at the
following call), the process crashes and restarts.

## 3. Runs

Deadlock is not checked where an instance's sessions or requests are finite: when
all have ended nothing is left to do.

| run | instance | shows |
|---|---|---|
| broker | 2 players, one with 2 connections, 2 rooms, 2 publishers | BrokerTypeOK, RoomIndex, ImplementsRegistry, FanOutCompletes. Two connections of one player are what displacement needs, two rooms what moving needs, two publishers let snapshots of different moments overlap |
| items | 3 sessions (2 of one player, overlapping), 1 room, a key and a fixture; take, drop, look; 1 fault | ItemInOnePlace, NoItemLost |
| sessions | 2 overlapping sessions of one player, 2 rooms; move, take, say, shout, quit; 1 fault | OneSessionPerPlayer, OwnNewsOmitted, ImplementsBroker (all three also proved, for any number of sessions), CommandsFinish, DeadSocketsReleased. Two sessions are what displacement takes; each can hang up in the middle of the other's broadcast |
| serial | no overlap of a player's sessions, no faults; 2 players, one of whom connects twice; 3 rooms with a locked exit and a dangling one, a key and a lamp that is a fixture; move, take, drop, say, look, quit | TypeOK, CacheAgrees, NobodyLeftBehind, ImplementsWorld, InventorySentIsFull, SpeakerHearsSay, PictureRight (all proved as well). Two players are what seeing one another takes, and taking what the other wants: each can come and go while the other's view is being read or sent, or the other's news is under way. The second session of the first one finds what the first left behind |
| accounts | 5 requests, 3 clients, two spellings of an address and of a name, a second name, access tokens that live 1 tick and refresh tokens that live 2, errors | EmailsUnique, NamesUnique, TokensStayWithOwner, SamePlayerEachTime. Five requests are register, two creations and two handshakes, or two racing registrations and what the winner and the loser do next |
| lifespan | 3 rooms, 2 with speakers, 2 players, 3 connections, 2 crashes | WorldComplete, NpcsKeepTalking, StopReturns. Two crashes cut off two successive starts |
| node_broker | as broker, two broadcasts under way | NodeTypeOK, ImplementsBroker (both proved) |
| console | one tab, 3 sockets used again and again (a mount under StrictMode takes two, one of the mount before may still be closing), 2 commands awaiting their answers, one broadcast under way; a line the parser refuses, a line said, one that is too long for the server, quit | ConsoleTypeOK, OneLiveSocket, HonestStatus, NotSignedOutByThePast, RepliesInOrder, ImplementsClient (all proved as well, for any number of sockets and commands), QuitLeaves. Two commands are what an order takes: quit behind one that is still unread, a refusal behind an answer |
| unseen_arrival, teleport, register_race, refused_token | violations, see 4 | |

Bounds: `MaxFaults`, `MaxCrashes`, `MaxTime`, `InFlight`, and the finite sets of sessions and
requests, each of which is used once. SYMMETRY is used for safety only, over sessions
of one player, which no action tells apart, and over requests.

**Fairness.** `FairBrokerSpec`: every send of a fan-out ends. A send ends when the
transport takes the text or breaks; uvicorn's keepalive pings break a connection
that stops reading. `GameServer!Fairness`: weak fairness of a session's own progress
(the event loop runs what can run, MongoDB answers or raises) and strong fairness of
Hangup, because a client that hung up has sent finitely many commands, after which
`receive_text` raises; between them the session keeps returning to `recv`. Nothing
is assumed of what clients send. `Lifespan!Fairness`: timers fire, sends return,
cancelled tasks run, and not every tick of a room fails. `ConsoleFairSpec`: the
server gets on with what it has read or begun, and the browser with what has arrived for it.
(`Client!FairSpec` says the same of Client alone; ImplementsClient is about safety.)

## 4. Where the code and its documents disagree

* **teleport.** `_handle_move` updates the player by id, from the room the session
  cached. A displaced session that still has a move under way overwrites the room
  a newer session went to. `spec/asyncapi.yaml:66`: "Move the player through an
  exit in the current room."
* **register_race.** The loser of two registrations of one address gets 500, not
  the 409 of `spec/openapi.yaml:40`: the DuplicateKeyError is not caught.
* **unseen_arrival.** The room view is read before the connection is subscribed to the room
  (`websocket.py:614` and 623, 271 and 280). Of two players who enter a room at the same time
  one may miss the other for good: not in the view, not announced. `spec/asyncapi.yaml:261`:
  "Sent to everyone in a room when another player enters."
* **refused_token.** An invalid token is refused with close code 1008 before the socket is
  accepted (`websocket.py:602`), which is an HTTP 403 on the wire and 1006 in the browser.
  The client waits for 1008 (`Game.tsx:220`) to sign the user out; `spec/asyncapi.yaml:233`
  promises it. Only an account without a character gets a 1008.

These four are runs. Further disagreements show when the constants of the instances are changed,
or by reading two definitions side by side:

* **The stale Player.** With `Overlap = TRUE` PRSerial.cfg violates InventorySentIsFull
  (`websocket.py:365`: what another session of the player took is missing;
  `spec/asyncapi.yaml:321` says "Full inventory state sent after any take/drop, or on demand."),
  ImplementsWorld (a locked exit opened by a key since dropped, `websocket.py:249`, or a walk from
  a room since left) and SpeakerHearsSay (`websocket.py:451`). With one session and
  `MaxFaults = 1` GSTeleport.cfg violates MovesFollowExits without any overlap: after an error
  behind the update of the room, the loop goes on with the Player from before
  (`websocket.py:637`), and the next move starts from the room that was left.
* **Contract drift.** `README.md:104`: "Both sides validate against the same schemas. Contract
  drift is caught at build time, not at runtime." The client's parser checks on its own, and
  otherwise than the server's models (Parse and Valid of module Console): `in` (`Game.tsx:59`) takes
  the inherited name `constructor` for a direction, which JSON.stringify then leaves out, and
  nothing limits what is said to the 500 characters of `models.py:165` and 174. Both are sent, and
  refused at runtime as BAD_PAYLOAD.
* **Long passwords.** `models.py:95` ("72 byte hard cap is bcrypt's input limit") caps characters.
  With bcrypt 5 a password of 72 letters, some of which take two bytes, is a ValueError and a
  500 (in Accounts, a client whose password is `Unhashable` violates NoInternalError); bcrypt 4
  cuts it off. `pyproject.toml` admits both.
* **Stale views.** A view of a room may be older than the news that reached the client before it
  (`websocket.py:127`): until the next one, its client takes somebody who has left to be there, or
  misses somebody who is. No document promises otherwise, so PictureRight names the case as
  one of its exceptions.
* **Second characters.** Nothing stops one (`README.md:112`, "Single character per account";
  `characters.py:48`): sessions go on playing the first, whichever Play button was pressed, which
  is SamePlayerEachTime.

## 5. Proofs

Checked by TLAPS for every value of the constants, from the named assumptions of the
modules (sockets authenticate as players; `NoSocket`, `NoRoom`, `NoItem` are none;
fixtures are items; exits lead from rooms; no exit leads back to its own room; sessions are
publishers; `lower()` is idempotent; rooms name chatter tasks, which are publishers; a typed
line is one of the kinds the parser tells apart; the bounds are natural numbers). Every safety
property that a passing run checks is proved.

**Broker and Node broker.**

* **BrokerSafe**, `BrokerSpec => [](BrokerTypeOK /\ RoomIndex)`. Their conjunction
  BrokerInv is inductive: RoomIndex alone is not, as removing a player from a room
  needs to know that the player's room is a room. Lemmas say what Put and Without do
  to a function and that RemoveFromRoom and AddToRoom keep the index; each operation is
  then one lemma.
* **BrokerImplementsRegistry**, `BrokerSpec => ImplementsRegistry`, by the refinement
  mapping Conn and At. It needs BrokerInv: the snapshot is taken from `roomMembers`, the
  registry's from the players' rooms, and they agree because one is the other's inverse.
* **NodeImplementsBroker**, `NodeSpec => ImplementsBroker`, and **NodeTyped**. Each call of the
  port is one operation of the Python broker with `audience[b]` read off the buffers: putting a
  broadcast into the buffers of its audience, connection by connection, is one snapshot of a
  broadcast that is not under way, and changes no other. BrokerProofs is instantiated with this
  mapping: its inductive invariant, read through the mapping, is the port's (NodeInv), and
  **NodeImplementsRegistry** follows from its refinement theorem. (The proof found a slip in NodeTypeOK, which excluded a
  room without members in the wrong place; TLC, whose every state satisfied both readings, had
  not.)

**GameServer**, however the sessions of a player overlap and whatever fails.

* **GameServerRunsBroker**, `Spec => ImplementsBroker`: each step of a session is one
  broker operation or leaves the broker alone. BrokerSafe and BrokerImplementsRegistry
  therefore hold inside the server.
* **GameServerTypes**, `Spec => []TypeOK`: TypeOK is inductive because it says at which
  awaits `item` and `dest` have a value; its broker part comes from the two theorems above.
* **ItemsNeverDuplicated**, `Spec => []ItemInOnePlace`. Inductive with Types: the
  conjunct about items in hand (pulled, not yet pushed) is the strengthening without which a
  push could duplicate. One lemma for each of the four document updates; every other step,
  faults and crashes included, leaves the documents alone and puts nothing in a hand.
* **SessionsUnique**, `Spec => []OneSessionPerPlayer`. Inductive with Types: that the
  registered socket is a serving one is what makes Join close the only other open session.
* **OwnNewsNeverSent**, `Spec => []OwnNewsOmitted`. The broker tells a player's
  old room of its departure without excluding the player; that the player is not addressed rests
  on the room index (BrokerSafe: it is no longer listed there, whichever of its sessions moved
  it), on the move and the snapshot being one step, and on NoLoopAssumption (an exit back to
  its own room would tell the mover of its departure). Strengthened with where a move under way
  leads from, and that a broadcast addresses nobody before it starts.
* **ItemsNeverLost**, `Spec => []NoItemLost`. The steps fall into a few kinds (StepKinds): most
  are Quiet (they leave the documents and every hand alone), the others are four writes of the
  database, the two ways to speak, and faults, which NoItemLost leaves out. The invariant Kept
  adds that what is about to be pulled is no fixture: without it a take that was checked long
  ago could move one.

**GameServer, when the sessions of a player follow one another** (**Successive**:
`Overlap = FALSE`), and, where the documents matter, nothing fails (**Serial**: also
`MaxFaults = 0`). That is when the cached Player is meant to be good; section 4 says what
happens otherwise. SerialInv says, for each await a session can be suspended in, where the
broker has its player (Subscribed), in terms of the cached Player and the handler's locals; that
one session of a player is alive; NobodyLeftBehind; and, until the first fault, where the
documents have the player (Whereabouts) and what it carries (Holds). A step of a session changes
the parts of that session's player only (lemma OneStep), so each action is checked for its own
session.

* **EverybodyGone**, `Spec => []NobodyLeftBehind`, from Successive alone.
* **SpeakersHeard**, `Spec => SpeakerHearsSay`, from Successive alone: the room the session
  believes in is the broker's (SerialInv), even after an error has left it behind the document;
  the room's members are the players who are there (RoomIndex), and the player's registered
  socket is the speaker's (OneSessionPerPlayer).
* **CacheStaysTrue** and **InventorySent**, from Serial, read CacheAgrees and
  InventorySentIsFull off SerialInv.
* **GameIsAsTold**, `Spec => ImplementsWorld`, from Serial. A move happens at the update of the
  player's document, a take or drop at its `$pull`: a thing in a session's hand counts as
  already moved, which makes the later `$push` a stutter. That the thing was still there is what
  the condition of the `$pull` says; that the exit was one of the room, and the key in hand, is
  WayOpen, kept by SerialInv from the decision to the update. **MovesAreLegal** reads off it that
  MovesFollowExits, which *teleport* refutes, holds here.
* **PictureStaysRight** (PresenceProofs), `PresenceSpec => []PictureRight`, from Serial.
  PictureRight says nothing of players on the way and is not inductive. PictureInv, checked with
  TLC on the run's instance (and on a ring of rooms) before it was proved, says the same of two
  pictures of a client, the one it was shown and the one that was read for it and is not yet
  sent (`seen` and `view`, with `hazy` and `doubt`), and adds what either may take a traveller
  for: before its farewell, one of the room it leaves or of the one it goes to; while the farewell is
  being sent, the former only for the clients it has yet to reach; after it, the latter only. So
  the farewell and the news set right exactly those they reach; whom they are addressed to is
  what SerialInv, RoomIndex and OneSessionPerPlayer say; who is not addressed though shown the
  room is hazy or doubtful by then; and a view that is sent carries over what was true of it.
  All other steps leave the pictures and the traveller alone (OwnMove, AgreesStays).

**Accounts and Lifespan.**

* **AccountsTypes**, **AccountsUnique**, **TokensOfOwner**, **OnePlayerPerAccount**
  (AccountsProofs). One inductive invariant: uniqueness itself comes from the index at the
  insert; tokens need that a suspended registration will insert the hash of its own client's
  password, and that addresses are kept in the spelling they are looked up in (Drafts; here
  `lower()` must be idempotent); that the first character stays first needs that a request
  inserts once (Numbered).
* **LifespanTypes**, **BrokerWithin**, **WorldIsComplete** (LifespanProofs).
  The invariant adds to each phase what earlier phases, of this start or an earlier one, have
  written, and that a task which is not there, or sleeps, awaits no broadcast. It is inductive
  together with BrokerInv, since `Spec => BrokerSpec` needs the type of the dictionaries.

**Client and Console** (ConsoleProofs).

* **TabHasOneSocket**, **TabIsHonest**, **PastDoesNotSignOut** are about Client alone, with a
  server that does whatever that module lets it. The two invariants are
  inductive only together, and with a third fact (TabInv): a list of characters is awaited only
  on the page that asked for it, which is why the 401 to an old request cannot end a game.
* **ServerSuitsClient**, `ConsoleSpec => ImplementsClient`, **ConsoleTyped**,
  **AnswersInOrder**, **ConsoleIsHonest**. ConsoleInv joins four parts:
  TabInv; ServerInv, which ties each session to the readyState of its socket and to the broker,
  and has it refuse for want of a character only who has none; FramesInv, on what can be under way
  in each state of the session, and that nothing is awaited without an open socket; and OrderInv, that the commands awaiting their answers are those
  answered on the way down followed by those unread on the way up. RepliesInOrder counts the
  answers among the frames: lemmas say what appending a frame, or taking the first one, does to
  the count. ConsoleInv was checked with TLC on the instance of the run console before it was
  proved.

**Model-checked only** is liveness: FanOutCompletes, CommandsFinish, DeadSocketsReleased,
NpcsKeepTalking, StopReturns, QuitLeaves (fairness and ENABLED are beyond this prover).

## 6. Not modelled

What messages say: descriptions, examine, who lists, names and wording. The lists of
ids inside documents are counts. Of the client, the text in the console and the list of
characters (a list that is answered after a creation may lose or double the new one,
`Characters.tsx:23`) are left out, and other tabs appear only as displacements. Frames that
this client never sends (ping, unknown types, bad JSON) are, in GameServer, errors that change
nothing. In Console, what the game makes of a command is any answer it may get: which one is
GameServer's business. There a speaker gets its own line as far as SpeakerHearsSay holds; in
Console chat may be met with silence, which is a frame that is never shown and keeps the order.
A `find` is taken as one answer of the database: the names of a room's occupants come in one
batch up to 101 of them. Whether StrictMode's first socket, registered late, displaces the second is a behaviour
of Console that no document speaks of; the tab then reports the disconnection.

`lastSeenAt` is written and never read by the server. The Node server outside the broker
consists of stubs; configuration, health endpoint and containers have no state. `server/README.md`
still says that move, say, shout, take and drop answer UNIMPLEMENTED; the code implements
them. Several server processes at once are excluded by `broker.py:7` ("Single-process only").

## 7. Plan

Every component with state is modelled, and every safety property of the passing runs is proved.
Next:

1. That Client's theorems hold of Console by way of ServerSuitsClient alone, which would make
   the tab's half of ConsoleInv a consequence.
2. The list of characters: its answer against a creation.
