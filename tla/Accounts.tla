------------------------------- MODULE Accounts -------------------------------
(***************************************************************************)
(* Sign-up, sign-in and character creation of the Python server (routers/  *)
(* auth.py and characters.py, deps.py, security.py), up to the character a *)
(* WebSocket handshake is given to play.                                   *)
(*                                                                         *)
(* Every request is a task of its own that awaits MongoDB between looking  *)
(* and writing; what keeps two of them apart is the unique indexes db.py   *)
(* creates.  Tokens are never stored: the server believes what it signed.  *)
(*                                                                         *)
(* A request is named by the uuid4 it would give to what it inserts.       *)
(***************************************************************************)
EXTENDS Naturals, Sequences, Functions

CONSTANTS Requests,     \* HTTP requests and WebSocket handshakes
          Clients,
          Emails,
          Lower,        \* req.email.lower()
          Passwords,
          Secret,       \* the one password each client knows and types
          Hash,         \* what checkpw compares: at most the first 72 bytes
          Unhashable,   \* passwords bcrypt raises ValueError for
          Names,
          Fold,         \* the index's collation: a name but for its case
          AccessTtl, RefreshTtl, MaxTime,
          MayFail,      \* may database calls raise?
          Nobody

ASSUME CredentialAssumption ==
  /\ Lower \in [Emails -> Emails] /\ \A e \in Emails : Lower[Lower[e]] = Lower[e]
  /\ Secret \in [Clients -> Passwords]
  /\ DOMAIN Hash = Passwords /\ Unhashable \subseteq Passwords
  /\ DOMAIN Fold = Names
ASSUME TtlAssumption ==
  AccessTtl \in Nat \ {0} /\ RefreshTtl \in Nat \ {0} /\ MaxTime \in Nat
ASSUME RequestAssumption == Nobody \notin Requests /\ MayFail \in BOOLEAN

VARIABLES accounts,     \* accounts collection
          players,      \* players collection, in the order of insertion
          pc,           \* where each request is suspended
          sender,       \* the client that sent it
          doc,          \* the document, or account id, it goes on with
          answer,       \* its HTTP status
          plays,        \* the player each admitted handshake was given
          wallet,       \* the tokens each client has received
          clock

vars == <<accounts, players, pc, sender, doc, answer, plays, wallet, clock>>

Account == [id : Requests, email : Emails, passwordHash : Range(Hash)]
Player == [id : Requests, accountId : Requests, name : Names]
Token == [sub : Requests, kind : {"access", "refresh"},
          exp : 0 .. MaxTime + AccessTtl + RefreshTtl]

Init ==
  /\ accounts = {}
  /\ players = << >>
  /\ pc = [r \in Requests |-> "new"]
  /\ sender = [r \in Requests |-> Nobody]
  /\ doc = [r \in Requests |-> Nobody]
  /\ answer = [r \in Requests |-> "none"]
  /\ plays = [r \in Requests |-> Nobody]
  /\ wallet = [c \in Clients |-> {}]
  /\ clock = 0

-------------------------------------------------------------------------------
(* Documents and tokens.                                                   *)

WithEmail(e) == {a \in accounts : a.email = e}

\* Mutant of VerifyPassword: any password will do.
VerifyAny(w, hash) == TRUE

\* A hash is made once, at registration; an overlong password never matches.
VerifyPassword(w, hash) == w \notin Unhashable /\ Hash[w] = hash

\* The unique indexes on accounts.email and players.name.
EmailTaken(e) == WithEmail(e) # {}
NameTaken(n) == \E k \in DOMAIN players : Fold[players[k].name] = Fold[n]

\* Where the characters of an account are in the collection.
Theirs(a) == {k \in DOMAIN players : players[k].accountId = a}

\* Mutants of FirstPlayer: its document for its id, and the latest character.
FirstPlayerDocument(a) == {players[k] : k \in Theirs(a)}
LatestPlayer(a) == {players[k].id : k \in {k \in Theirs(a) : \A j \in Theirs(a) : j <= k}}

\* find_one({"accountId": a}): the first in the order of insertion, if any.
FirstPlayer(a) == {players[k].id : k \in {k \in Theirs(a) : \A j \in Theirs(a) : k <= j}}

TokenPair(a) ==
  {[sub |-> a, kind |-> "access", exp |-> clock + AccessTtl],
   [sub |-> a, kind |-> "refresh", exp |-> clock + RefreshTtl]}

\* decode_token, the test of the kind, and the account looked up.
Valid(t, kind) == t.kind = kind /\ clock < t.exp
Current(t, kind) == Valid(t, kind) /\ \E a \in accounts : a.id = t.sub

-------------------------------------------------------------------------------
(* The life of a request: it waits for the database once more, or answers. *)

Await(r, c, stage, d) ==
  /\ pc[r] = "new"
  /\ pc' = [pc EXCEPT ![r] = stage]
  /\ sender' = [sender EXCEPT ![r] = c]
  /\ doc' = [doc EXCEPT ![r] = d]
  /\ UNCHANGED <<answer, plays, wallet>>

Done(r) ==
  /\ pc' = [pc EXCEPT ![r] = "done"]
  /\ doc' = [doc EXCEPT ![r] = Nobody]

Answer(r, code) ==
  /\ Done(r)
  /\ answer' = [answer EXCEPT ![r] = code]
  /\ UNCHANGED <<sender, plays, wallet>>

Grant(r, c, code, a) ==
  /\ Done(r)
  /\ answer' = [answer EXCEPT ![r] = code]
  /\ wallet' = [wallet EXCEPT ![c] = @ \cup TokenPair(a)]
  /\ UNCHANGED <<sender, plays>>

-------------------------------------------------------------------------------
(* POST /auth/register looks the email up, and then inserts.               *)

Register(r, c, e) ==
  /\ pc[r] = "new"
  /\ IF EmailTaken(Lower[e]) THEN Answer(r, "409")
     ELSE IF Secret[c] \in Unhashable THEN Answer(r, "500")
     ELSE Await(r, c, "register",
                [id |-> r, email |-> Lower[e], passwordHash |-> Hash[Secret[c]]])
  /\ UNCHANGED <<accounts, players, clock>>

\* Mutant of InsertAccount: no unique index, the look-up has to do.
InsertAccountUnindexed(r) ==
  /\ pc[r] = "register"
  /\ Grant(r, sender[r], "201", r)
  /\ accounts' = accounts \cup {doc[r]}
  /\ UNCHANGED <<players, clock>>

\* Nobody catches the DuplicateKeyError of this insert.
InsertAccount(r) ==
  /\ pc[r] = "register"
  /\ IF EmailTaken(doc[r].email)
     THEN Answer(r, "500") /\ UNCHANGED accounts
     ELSE Grant(r, sender[r], "201", r) /\ accounts' = accounts \cup {doc[r]}
  /\ UNCHANGED <<players, clock>>

Login(r, c, e) ==
  LET found == {a \in WithEmail(Lower[e]) : VerifyPassword(Secret[c], a.passwordHash)} IN
  /\ pc[r] = "new"
  /\ \/ found = {} /\ Answer(r, "401")
     \/ \E a \in found : Grant(r, c, "200", a.id)
  /\ UNCHANGED <<accounts, players, clock>>

Refresh(r, c, t) ==
  /\ pc[r] = "new"
  /\ IF Current(t, "refresh") THEN Grant(r, c, "200", t.sub) ELSE Answer(r, "401")
  /\ UNCHANGED <<accounts, players, clock>>

-------------------------------------------------------------------------------
(* Requests that carry an access token.                                    *)

\* GET /me and GET /characters.
Show(r, t) ==
  /\ pc[r] = "new"
  /\ Answer(r, IF Current(t, "access") THEN "200" ELSE "401")
  /\ UNCHANGED <<accounts, players, clock>>

CreateCharacter(r, c, t, n) ==
  /\ pc[r] = "new"
  /\ IF Current(t, "access")
     THEN Await(r, c, "create", [id |-> r, accountId |-> t.sub, name |-> n])
     ELSE Answer(r, "401")
  /\ UNCHANGED <<accounts, players, clock>>

\* Mutant of InsertPlayer: the index tells upper case from lower.
InsertPlayerExact(r) ==
  /\ pc[r] = "create"
  /\ IF \E k \in DOMAIN players : players[k].name = doc[r].name
     THEN Answer(r, "409") /\ UNCHANGED players
     ELSE Answer(r, "201") /\ players' = Append(players, doc[r])
  /\ UNCHANGED <<accounts, clock>>

InsertPlayer(r) ==
  /\ pc[r] = "create"
  /\ IF NameTaken(doc[r].name)
     THEN Answer(r, "409") /\ UNCHANGED players
     ELSE Answer(r, "201") /\ players' = Append(players, doc[r])
  /\ UNCHANGED <<accounts, clock>>

\* The WebSocket handshake believes the token: no account is looked up.
Handshake(r, c, t) ==
  /\ pc[r] = "new"
  /\ IF Valid(t, "access") THEN Await(r, c, "load", t.sub) ELSE Answer(r, "403")
  /\ UNCHANGED <<accounts, players, clock>>

\* No character: the socket is closed with 1008.
LoadPlayer(r) ==
  /\ pc[r] = "load"
  /\ Done(r)
  /\ \/ /\ Theirs(doc[r]) = {}
        /\ answer' = [answer EXCEPT ![r] = "1008"]
        /\ UNCHANGED plays
     \/ \E p \in FirstPlayer(doc[r]) :
          /\ answer' = [answer EXCEPT ![r] = "101"]
          /\ plays' = [plays EXCEPT ![r] = p]
  /\ UNCHANGED <<accounts, players, sender, wallet, clock>>

-------------------------------------------------------------------------------
\* A database call raises; an insert may have been applied all the same.
DbError(r) ==
  /\ MayFail
  /\ pc[r] \in {"register", "create", "load"}
  /\ Answer(r, "500")
  /\ \/ UNCHANGED <<accounts, players>>
     \/ /\ pc[r] = "register" /\ ~EmailTaken(doc[r].email)
        /\ accounts' = accounts \cup {doc[r]}
        /\ UNCHANGED players
     \/ /\ pc[r] = "create" /\ ~NameTaken(doc[r].name)
        /\ players' = Append(players, doc[r])
        /\ UNCHANGED accounts
  /\ UNCHANGED clock

Tick ==
  /\ clock < MaxTime
  /\ clock' = clock + 1
  /\ UNCHANGED <<accounts, players, pc, sender, doc, answer, plays, wallet>>

Send(r, c) ==
  \/ \E e \in Emails : Register(r, c, e) \/ Login(r, c, e)
  \/ \E t \in wallet[c] :
       \/ Refresh(r, c, t) \/ Show(r, t) \/ Handshake(r, c, t)
       \/ \E n \in Names : CreateCharacter(r, c, t, n)

Next ==
  \/ \E r \in Requests :
       \/ InsertAccount(r) \/ InsertPlayer(r) \/ LoadPlayer(r) \/ DbError(r)
       \/ \E c \in Clients : Send(r, c)
  \/ Tick

Spec == Init /\ [][Next]_vars

-------------------------------------------------------------------------------
TypeOK ==
  /\ accounts \subseteq Account
  /\ players \in Seq(Player)
  /\ pc \in [Requests -> {"new", "register", "create", "load", "done"}]
  /\ sender \in [Requests -> Clients \cup {Nobody}]
  /\ \A r \in Requests : pc[r] \in {"register", "create", "load"} => sender[r] \in Clients
  /\ \A r \in Requests : pc[r] = "register" => doc[r] \in Account
  /\ \A r \in Requests : pc[r] = "create" => doc[r] \in Player
  /\ answer \in [Requests -> {"none", "101", "200", "201", "401", "403", "409",
                              "500", "1008"}]
  /\ plays \in [Requests -> Requests \cup {Nobody}]
  /\ wallet \in [Clients -> SUBSET Token]
  /\ clock \in 0 .. MaxTime

(***************************************************************************)
(* However registrations of one address interleave, in whatever spelling,  *)
(* and whichever inserts were applied although they raised, an address has *)
(* one account; and a name, but for its case, one character, which belongs *)
(* to an account that exists.                                              *)
(***************************************************************************)
EmailsUnique ==
  \A a, b \in accounts : Lower[a.email] = Lower[b.email] => a = b

NamesUnique ==
  \A j, k \in DOMAIN players :
    /\ Fold[players[j].name] = Fold[players[k].name] => j = k
    /\ \E a \in accounts : a.id = players[j].accountId

(***************************************************************************)
(* Whatever chain of registrations, logins and refreshes a token comes     *)
(* from, and whoever lost a race for the address, the client that received *)
(* it knows the password of the account it names.                          *)
(***************************************************************************)
TokensStayWithOwner ==
  \A c \in Clients : \A t \in wallet[c] :
    \E a \in accounts : a.id = t.sub /\ a.passwordHash = Hash[Secret[c]]

OwnerOf(p) == {players[k].accountId : k \in {k \in DOMAIN players : players[k].id = p}}

(***************************************************************************)
(* All sessions of an account play the same character, its oldest, though  *)
(* the account may have several and create one while others connect.       *)
(* (Module GameServer takes the player of a socket to be fixed.)           *)
(***************************************************************************)
SamePlayerEachTime ==
  \A r, q \in Requests :
    /\ plays[r] # Nobody => OwnerOf(plays[r]) # {}
    /\ plays[r] # Nobody /\ plays[q] # Nobody /\ OwnerOf(plays[r]) = OwnerOf(plays[q])
         => plays[r] = plays[q]

(***************************************************************************)
(* While the database answers, a registration is answered 201, or 409 when *)
(* the address is in use (openapi): no request meets an internal error.    *)
(***************************************************************************)
NoInternalError == ~MayFail => \A r \in Requests : answer[r] # "500"
===============================================================================
