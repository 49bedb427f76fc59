------------------------------- MODULE MCClient -------------------------------
(***************************************************************************)
(* Four sockets: a mount takes two, and the two of the mount before may    *)
(* still be closing.                                                       *)
(***************************************************************************)
EXTENDS Client
===============================================================================
