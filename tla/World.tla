--------------------------------- MODULE World ---------------------------------
(***************************************************************************)
(* The game as its players are told it works: everybody is in one room,    *)
(* every thing is in one place, and walking, taking and dropping happen at *)
(* once or not at all (client.command.move, take and drop of               *)
(* spec/asyncapi.yaml).  There are no sessions, caches, documents or       *)
(* messages here.                                                          *)
(***************************************************************************)
CONSTANTS Players, Rooms,
          Items, Fixtures,      \* things, and those that cannot be taken
          NoItem,
          Exits,                \* [from, to, key]; NoItem opens what is not locked
          SeedRoom, StartRoom   \* where things and players are at first

VARIABLES at,           \* at[p]: the room player p is in
          carried,      \* carried[p]: the things p carries
          lying         \* lying[r]: the things lying in room r

vars == <<at, carried, lying>>

Init ==
  /\ at = [p \in Players |-> StartRoom]
  /\ carried = [p \in Players |-> {}]
  /\ lying = [r \in Rooms |-> {i \in Items : SeedRoom[i] = r}]

\* Through an exit of the room, with the key in hand if it is locked.
Walk(p, e) ==
  /\ e.from = at[p] /\ e.to \in Rooms
  /\ at' = [at EXCEPT ![p] = e.to]
  /\ e.key \in carried[p] \cup {NoItem}
  /\ UNCHANGED <<carried, lying>>

Take(p, i) ==
  /\ UNCHANGED at
  /\ i \in lying[at[p]] \ Fixtures
  /\ carried' = [carried EXCEPT ![p] = @ \cup {i}]
  /\ lying' = [lying EXCEPT ![at[p]] = @ \ {i}]

Drop(p, i) ==
  /\ UNCHANGED at
  /\ i \in carried[p]
  /\ carried' = [carried EXCEPT ![p] = @ \ {i}]
  /\ lying' = [lying EXCEPT ![at[p]] = @ \cup {i}]

Next ==
  \E p \in Players :
    \/ \E e \in Exits : Walk(p, e)
    \/ \E i \in Items : Take(p, i) \/ Drop(p, i)

Spec == Init /\ [][Next]_vars
===============================================================================
