----------------------------- MODULE MCNodeBroker -----------------------------
(***************************************************************************)
(* The instance of MCBroker, with broadcasts in the place of publishers.   *)
(***************************************************************************)
EXTENDS NodeBroker, TLC

CONSTANTS p1, p2, s1, s2, s3

MCPlayerOf == (s1 :> p1) @@ (s2 :> p1) @@ (s3 :> p2)
===============================================================================
