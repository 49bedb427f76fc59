----------------------------- MODULE Dictionaries -----------------------------
(***************************************************************************)
(* The Python dictionaries and TypeScript Maps of the two brokers: partial *)
(* functions that grow and shrink, and the sets kept in one of them.       *)
(***************************************************************************)
EXTENDS Functions

\* f[k] = v, or f.set(k, v)
Put(f, k, v) == [x \in DOMAIN f \cup {k} |-> IF x = k THEN v ELSE f[x]]

\* del f[k], f.pop(k, None), or f.delete(k)
Without(f, k) == Restrict(f, DOMAIN f \ {k})

\* f.get(k, default), or f.get(k) ?? default
Get(f, k, default) == IF k \in DOMAIN f THEN f[k] ELSE default

\* discard(p), and delete the room's entry once nobody is left in it
RemoveFromRoom(members, r, p) ==
  LET left == Get(members, r, {}) \ {p}
  IN  IF left = {} THEN Without(members, r) ELSE Put(members, r, left)

AddToRoom(members, r, p) == Put(members, r, Get(members, r, {}) \cup {p})
===============================================================================
