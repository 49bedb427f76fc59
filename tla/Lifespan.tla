------------------------------- MODULE Lifespan -------------------------------
(***************************************************************************)
(* The life of the Python server process (lifespan of main.py): indexes,   *)
(* the seed of world.py, the chatter tasks of npc_scheduler.py, shutdown;  *)
(* and a crash anywhere, after which the process is started again on the   *)
(* documents that were written.  The chatter tasks are publishers of the   *)
(* broker, one per room, named by it; players come and go meanwhile.       *)
(***************************************************************************)
EXTENDS Broker, Naturals

CONSTANTS Speakers,     \* rooms of the seed whose NPCs have dialogue
          MaxCrashes    \* bound on crashes and failed starts

ASSUME SpeakerAssumption == Speakers \subseteq Rooms /\ Rooms \subseteq Publishers
ASSUME CrashAssumption == MaxCrashes \in Nat

VARIABLES phase,        \* where the lifespan is
          seeded,       \* the collections that are not empty
          tasks,        \* the chatter task of each room
          crashes

process == <<phase, seeded, tasks, crashes>>
vars == <<process, brokerVars>>

Collections == {"rooms", "items", "npcs"}
Starting == Collections \cup {"rosters"}
Running == {"sleeping", "speaking"}

Init ==
  /\ phase = "down"
  /\ seeded = {}
  /\ tasks = [r \in Rooms |-> "none"]
  /\ crashes = 0
  /\ BrokerInit

-------------------------------------------------------------------------------
(* Startup.                                                                *)

\* create_index of an index that exists does nothing.
Boot ==
  /\ phase = "down"
  /\ phase' = "rooms"
  /\ UNCHANGED <<seeded, tasks, crashes, brokerVars>>

\* What seed_if_empty goes on with after collection c.
After(c) == CASE c = "rooms" -> "items" [] c = "items" -> "npcs" [] c = "npcs" -> "rosters"

\* Mutant of SeedIfEmpty: a world with rooms is taken to be complete.
SeedIfNoRooms(c) ==
  /\ phase = c
  /\ seeded' = seeded \cup {c}
  /\ phase' = IF c = "rooms" /\ c \in seeded THEN "rosters" ELSE After(c)
  /\ UNCHANGED <<tasks, crashes, brokerVars>>

\* Each collection is counted by itself, and filled by one insert_many.
SeedIfEmpty(c) ==
  /\ phase = c
  /\ seeded' = seeded \cup {c}
  /\ phase' = After(c)
  /\ UNCHANGED <<tasks, crashes, brokerVars>>

\* Rooms with a speaking NPC, as the documents say; read once.
LoadRosters == IF {"rooms", "npcs"} \subseteq seeded THEN Speakers ELSE {}

Start ==
  /\ phase = "rosters"
  /\ phase' = "up"
  /\ tasks' = [r \in Rooms |-> IF r \in LoadRosters THEN "sleeping" ELSE "none"]
  /\ UNCHANGED <<seeded, crashes, brokerVars>>

-------------------------------------------------------------------------------
(* _chatter_loop                                                           *)

Step(r, from, to) ==
  /\ tasks[r] = from
  /\ tasks' = [tasks EXCEPT ![r] = to]
  /\ UNCHANGED <<phase, seeded, crashes>>

FireOnce(r) ==
  /\ Step(r, "sleeping", "speaking")
  /\ PublishToRoom(r, r, {})

Spoken(r) ==
  /\ audience[r] = {}
  /\ Step(r, "speaking", "sleeping")
  /\ UNCHANGED brokerVars

\* Mutant of TickFails: the exception ends the task.
TickKills(r) == Step(r, "sleeping", "none") /\ UNCHANGED brokerVars

\* The tick raises; it is logged, and the task sleeps again.
TickFails(r) == Step(r, "sleeping", "sleeping") /\ UNCHANGED brokerVars

-------------------------------------------------------------------------------
(* Shutdown and failure.                                                   *)

Stop ==
  /\ phase = "up"
  /\ phase' = "stopping"
  /\ tasks' = [r \in Rooms |-> IF tasks[r] = "none" THEN "none" ELSE "cancelled"]
  /\ UNCHANGED <<seeded, crashes, brokerVars>>

\* A cancelled fan-out ends when each of its sends has.
Unwind(r) ==
  /\ audience[r] = {}
  /\ Step(r, "cancelled", "none")
  /\ UNCHANGED brokerVars

\* The gather of stop() is through, and the process ends.
Stopped ==
  /\ phase = "stopping"
  /\ \A r \in Rooms : tasks[r] = "none"
  /\ phase' = "down"
  /\ Restart({})
  /\ UNCHANGED <<seeded, tasks, crashes>>

\* A database error in the course of startup ends the process as well.
Crash ==
  /\ crashes < MaxCrashes
  /\ phase # "down"
  /\ phase' = "down"
  /\ crashes' = crashes + 1
  /\ tasks' = [r \in Rooms |-> "none"]
  /\ Restart({})
  /\ UNCHANGED seeded

-------------------------------------------------------------------------------
(* The sessions, which come once the application is up.                    *)

Visit ==
  /\ phase = "up"
  /\ \/ \E s \in Sockets, r \in Rooms : Connect(s, r)
     \/ \E s \in Sockets : Disconnect(s)
     \/ \E p \in DOMAIN players, r \in Rooms : Move(p, r)
  /\ UNCHANGED process

\* Mutant of Fanout: a send to a connection that was displaced never returns.
FanoutToOpen(r) ==
  /\ \E s \in Sockets \ closed : Deliver(r, s)
  /\ UNCHANGED process

Fanout(r) ==
  /\ \E s \in Sockets : Deliver(r, s)
  /\ UNCHANGED process

Next ==
  \/ Boot \/ Start \/ Stop \/ Stopped \/ Crash \/ Visit
  \/ \E c \in Collections : SeedIfEmpty(c)
  \/ \E r \in Rooms : FireOnce(r) \/ Spoken(r) \/ TickFails(r) \/ Unwind(r) \/ Fanout(r)

Spec == Init /\ [][Next]_vars

\* Timers fire, sends return, tasks run, and not every tick fails.
Fairness ==
  /\ WF_vars(Stopped)
  /\ \A r \in Rooms :
       WF_vars(FireOnce(r)) /\ WF_vars(Spoken(r)) /\ WF_vars(Unwind(r)) /\ WF_vars(Fanout(r))

FairSpec == Spec /\ Fairness

-------------------------------------------------------------------------------
TypeOK ==
  /\ BrokerTypeOK
  /\ phase \in {"down", "up", "stopping"} \cup Starting
  /\ seeded \subseteq Collections
  /\ tasks \in [Rooms -> {"none", "cancelled"} \cup Running]
  /\ crashes \in 0 .. MaxCrashes

(***************************************************************************)
(* A server that is up has its whole world, wherever earlier starts were   *)
(* cut off, and a live chatter task for exactly the rooms with a speaking  *)
(* NPC, whatever their ticks met with.                                     *)
(***************************************************************************)
WorldComplete ==
  phase = "up" =>
    /\ seeded = Collections
    /\ \A r \in Rooms : tasks[r] \in Running <=> r \in Speakers

(***************************************************************************)
(* While the server stays up each speaking NPC speaks again and again,     *)
(* whoever disconnects in the middle of a broadcast.                       *)
(***************************************************************************)
NpcsKeepTalking ==
  \A r \in Speakers : []<>(phase # "up" \/ tasks[r] = "speaking")

(***************************************************************************)
(* stop() returns, also when it finds tasks in the middle of a broadcast.  *)
(***************************************************************************)
StopReturns == phase = "stopping" ~> phase = "down"
===============================================================================
