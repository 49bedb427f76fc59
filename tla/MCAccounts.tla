------------------------------ MODULE MCAccounts ------------------------------
(***************************************************************************)
(* Clients with a password each (carol's is too long for bcrypt), who spell *)
(* one address in two ways and one character name in two ways.             *)
(***************************************************************************)
EXTENDS Accounts, TLC

CONSTANTS alice, bob, carol, mail, MAIL, pwA, pwB, pwC, hashA, hashB,
          name, NAME, other, one, two

MCLower == [e \in Emails |-> mail]
MCSecret == [c \in Clients |-> CASE c = alice -> pwA [] c = bob -> pwB [] OTHER -> pwC]
MCHash == [w \in Passwords |-> IF w = pwA THEN hashA ELSE hashB]
MCFold == [n \in Names |-> IF n = other THEN two ELSE one]

\* Requests differ in nothing but the ids they give.
Anonymous == Permutations(Requests)
===============================================================================
