----------------------------- MODULE MCGameServer -----------------------------
(***************************************************************************)
(* Two players, the first of whom opens two sessions, in a small world.    *)
(***************************************************************************)
EXTENDS GameServer, TLC

CONSTANTS p1, p2, s1, s2, s3, hall, yard, cave, key, lamp

MCPlayerOf == [s \in Sockets |-> IF s = s3 THEN p2 ELSE p1]

Exit(a, b, k) == [from |-> a, to |-> b, key |-> k]

\* As in the seed: two rooms that each lead only back to the first.
Star == {Exit(hall, yard, NoItem), Exit(yard, hall, NoItem),
         Exit(hall, cave, NoItem), Exit(cave, hall, NoItem)}
\* A locked exit, a round trip behind it, and a toRoomId that names no room.
Locked == {Exit(hall, yard, key), Exit(yard, hall, NoItem),
           Exit(yard, cave, NoItem), Exit(cave, hall, NoItem),
           Exit(yard, NoRoom, NoItem)}

Corridor == {Exit(hall, yard, NoItem), Exit(yard, hall, NoItem)}

\* The two sessions of p1 differ in nothing.
Sessions == Permutations({s1, s2})

InHall == [i \in Items |-> hall]
===============================================================================
