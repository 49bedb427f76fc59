------------------------------ MODULE MCPresence ------------------------------
(***************************************************************************)
(* The instances of MCGameServer, with what the clients know.              *)
(***************************************************************************)
EXTENDS Presence, MCGameServer
===============================================================================
