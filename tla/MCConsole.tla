------------------------------- MODULE MCConsole -------------------------------
(***************************************************************************)
(* A line without a message, one of each kind of answer, and the quit.     *)
(***************************************************************************)
EXTENDS Console

Line(head, args) == [head |-> head, args |-> args]

MCLines ==
  {Line("take", "none"), Line("say", "some"), Line("say", "long"), Line("quit", "none")}
===============================================================================
