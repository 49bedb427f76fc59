---------------------------- MODULE LifespanProofs ----------------------------
(***************************************************************************)
(* Theorems of the server process for every number of rooms, players and   *)
(* connections, and any number of crashes and interrupted starts.          *)
(***************************************************************************)
EXTENDS Lifespan, BrokerProofs

\* What earlier starts must have written for this one to have got so far.
Written ==
  /\ phase \in {"items", "npcs", "rosters", "up", "stopping"} => "rooms" \in seeded
  /\ phase \in {"npcs", "rosters", "up", "stopping"}          => "items" \in seeded
  /\ phase \in {"rosters", "up", "stopping"}                  => "npcs" \in seeded

\* A task that is over, or asleep, awaits no broadcast; a task there is belongs
\* to a speaker of a server that is up, or is being cancelled.
Inv ==
  /\ phase \in {"down", "up", "stopping"} \cup Starting
  /\ seeded \subseteq Collections /\ Written
  /\ tasks \in [Rooms -> {"none", "cancelled"} \cup Running]
  /\ crashes \in 0 .. MaxCrashes
  /\ \A r \in Rooms :
       /\ tasks[r] \in {"none", "sleeping"} => audience[r] = {}
       /\ phase \notin {"up", "stopping"} => tasks[r] = "none"
       /\ phase = "up" => IF r \in Speakers THEN tasks[r] \in Running
                                            ELSE tasks[r] = "none"

LEMMA LifespanInit == Init => Inv
  BY SpeakerAssumption, CrashAssumption
  DEF Init, BrokerInit, Inv, Written, Starting, Collections

LEMMA BrokerSteps == BrokerTypeOK /\ [Next]_vars => [BrokerNext]_brokerVars
  <1> SUFFICES ASSUME BrokerTypeOK, [Next]_vars
               PROVE  [BrokerNext]_brokerVars
    OBVIOUS
  <1>0. Rooms \subseteq Publishers /\ DOMAIN players \subseteq Players
    BY SpeakerAssumption DEF BrokerTypeOK
  <1>1. CASE \/ Boot \/ Start \/ Stop \/ UNCHANGED vars
             \/ \E c \in Collections : SeedIfEmpty(c)
             \/ \E r \in Rooms : Spoken(r) \/ TickFails(r) \/ Unwind(r)
    BY <1>1 DEF Boot, Start, Stop, SeedIfEmpty, Spoken, TickFails, Unwind, vars
  <1>2. CASE Stopped \/ Crash
    <2>1. Restart({})
      BY <1>2 DEF Stopped, Crash
    <2>2. QED
      BY <2>1 DEF BrokerNext
  <1>3. CASE Visit
    BY <1>0, <1>3 DEF Visit, BrokerNext
  <1>4. CASE \E r \in Rooms : FireOnce(r)
    BY <1>0, <1>4 DEF FireOnce, BrokerNext
  <1>5. CASE \E r \in Rooms : Fanout(r)
    BY <1>0, <1>5 DEF Fanout, BrokerNext
  <1>6. QED
    BY <1>1, <1>2, <1>3, <1>4, <1>5 DEF Next

\* Each step of the process keeps Inv.
LEMMA ProcessInv == Inv /\ BrokerTypeOK /\ [Next]_vars => Inv'
  <1> SUFFICES ASSUME Inv, BrokerTypeOK, [Next]_vars
               PROVE  Inv'
    OBVIOUS
  <1>0. /\ audience \in [Publishers -> SUBSET Sockets]
        /\ Rooms \subseteq Publishers
    BY SpeakerAssumption DEF BrokerTypeOK
  <1> USE DEF Inv, Written, Starting, Collections, Running
  <1>1. CASE Boot
    BY <1>1 DEF Boot, brokerVars
  <1>2. CASE \E c \in Collections : SeedIfEmpty(c)
    <2>1. PICK c \in Collections : SeedIfEmpty(c)
      BY <1>2
    <2>2. /\ phase = c /\ phase' = After(c) /\ seeded' = seeded \cup {c}
          /\ tasks' = tasks /\ crashes' = crashes /\ audience' = audience
      BY <2>1 DEF SeedIfEmpty, brokerVars
    <2>3. CASE c = "rooms"
      BY <2>2, <2>3 DEF After
    <2>4. CASE c = "items"
      BY <2>2, <2>4 DEF After
    <2>5. CASE c = "npcs"
      BY <2>2, <2>5 DEF After
    <2>6. QED
      BY <2>3, <2>4, <2>5
  <1>3. CASE Start
    <2>1. LoadRosters = Speakers
      BY <1>3 DEF Start, LoadRosters
    <2>2. QED
      BY <1>3, <2>1 DEF Start, brokerVars
  <1>4. CASE Stop
    BY <1>4 DEF Stop, brokerVars
  <1>5. CASE Stopped \/ Crash
    <2>1. \A r \in Rooms : audience'[r] = {}
      BY <1>0, <1>5 DEF Stopped, Crash, Restart
    <2>2. crashes' \in 0 .. MaxCrashes
      BY <1>5, CrashAssumption DEF Stopped, Crash
    <2>3. QED
      BY <1>5, <2>1, <2>2 DEF Stopped, Crash
  <1>6. CASE Visit
    BY <1>6 DEF Visit, process, Connect, Disconnect, Move
  <1>7. CASE \E r \in Rooms : FireOnce(r)
    BY <1>0, <1>7 DEF FireOnce, Step, PublishToRoom
  <1>8. CASE \E r \in Rooms : Spoken(r) \/ TickFails(r) \/ Unwind(r)
    BY <1>8 DEF Spoken, TickFails, Unwind, Step, brokerVars
  <1>9. CASE \E r \in Rooms : Fanout(r)
    BY <1>0, <1>9 DEF Fanout, Deliver, process
  <1>10. CASE UNCHANGED vars
    BY <1>10 DEF vars, process, brokerVars
  <1>11. QED
    BY <1>1, <1>2, <1>3, <1>4, <1>5, <1>6, <1>7, <1>8, <1>9, <1>10 DEF Next

LEMMA Invariant == Spec => [](Inv /\ BrokerInv)
  <1>1. Init => Inv /\ BrokerInv
    BY LifespanInit, BrokerInitInv DEF Init
  <1>2. Inv /\ BrokerInv /\ [Next]_vars => (Inv /\ BrokerInv)'
    <2>1. BrokerInv => BrokerTypeOK
      BY DEF BrokerInv
    <2>2. QED
      BY <2>1, BrokerSteps, BrokerNextInv, ProcessInv
  <1>3. QED
    BY <1>1, <1>2, PTL DEF Spec

-------------------------------------------------------------------------------
(***************************************************************************)
(* The life of the process, with the broker's dictionaries, is well        *)
(* formed: main.py's lifespan, world.py and npc_scheduler.py with          *)
(* broker.py.                                                              *)
(***************************************************************************)
THEOREM LifespanTypes == Spec => []TypeOK
  <1>1. Inv /\ BrokerInv => TypeOK
    BY DEF Inv, BrokerInv, TypeOK
  <1>2. QED
    BY <1>1, Invariant, PTL

(***************************************************************************)
(* The chatter tasks are publishers like any other: whatever the process   *)
(* does, its broker behaves as the broker of the module Broker, and the    *)
(* broker's own theorems hold in it.                                       *)
(***************************************************************************)
THEOREM BrokerWithin == Spec => BrokerSpec
  <1>1. Init => BrokerInit
    BY DEF Init
  <1>2. BrokerInv /\ [Next]_vars => [BrokerNext]_brokerVars
    BY BrokerSteps DEF BrokerInv
  <1>3. QED
    BY <1>1, <1>2, Invariant, PTL DEF Spec, BrokerSpec

(***************************************************************************)
(* seed_if_empty counts each collection by itself, so a server that is up  *)
(* has the whole world and a live task for each room with a speaking NPC,  *)
(* wherever any number of earlier starts were cut off.                     *)
(***************************************************************************)
THEOREM WorldIsComplete == Spec => []WorldComplete
  <1>1. Inv => WorldComplete
    BY SpeakerAssumption
    DEF Inv, Written, WorldComplete, Collections, Running
  <1>2. QED
    BY <1>1, Invariant, PTL
===============================================================================
