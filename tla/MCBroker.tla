------------------------------- MODULE MCBroker -------------------------------
(***************************************************************************)
(* The broker with two players, one of whom has two connections, two rooms *)
(* and two publishers at work at once.                                     *)
(***************************************************************************)
EXTENDS Broker, TLC

CONSTANTS p1, p2, s1, s2, s3

MCPlayerOf == (s1 :> p1) @@ (s2 :> p1) @@ (s3 :> p2)
===============================================================================
