------------------------------ MODULE MCLifespan ------------------------------
(***************************************************************************)
(* Two players, one with two connections; rooms with and without a speaker.*)
(***************************************************************************)
EXTENDS Lifespan

CONSTANTS p1, p2, s3

MCPlayerOf == [s \in Sockets |-> IF s = s3 THEN p2 ELSE p1]
===============================================================================
