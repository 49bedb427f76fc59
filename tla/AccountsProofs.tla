---------------------------- MODULE AccountsProofs ----------------------------
(***************************************************************************)
(* Theorems of sign-up, sign-in and character creation for every number of *)
(* requests and clients, every spelling of addresses and names, and all    *)
(* database errors.                                                        *)
(***************************************************************************)
EXTENDS Accounts, TLAPS

\* An address is kept in the spelling it is looked up in, and what a request is
\* about to insert belongs to its client, or to an account.
Drafts ==
  /\ DOMAIN doc = Requests
  /\ \A a \in accounts : Lower[a.email] = a.email
  /\ \A r \in Requests : pc[r] = "register" =>
       /\ doc[r].id = r /\ Lower[doc[r].email] = doc[r].email
       /\ doc[r].passwordHash = Hash[Secret[sender[r]]]
  /\ \A r \in Requests : pc[r] = "create" =>
       doc[r].id = r /\ \E a \in accounts : a.id = doc[r].accountId

\* A request inserts once.
Numbered ==
  /\ \A k \in DOMAIN players : pc[players[k].id] = "done"
  /\ \A j, k \in DOMAIN players : players[j].id = players[k].id => j = k

\* What a session plays is, and stays, the first of its account.
IsFirst(k) == \A j \in DOMAIN players : players[j].accountId = players[k].accountId => k <= j
Given ==
  \A r \in Requests : plays[r] # Nobody =>
    \E k \in DOMAIN players : players[k].id = plays[r] /\ IsFirst(k)

Inv ==
  /\ TypeOK /\ Drafts /\ EmailsUnique /\ NamesUnique /\ TokensStayWithOwner
  /\ Numbered /\ Given

LEMMA AccountsInit == Init => Inv
  BY RequestAssumption, TtlAssumption
  DEF Init, Inv, TypeOK, Drafts, EmailsUnique, NamesUnique, TokensStayWithOwner,
      Numbered, Given, Player

-------------------------------------------------------------------------------
(* Steps that insert nothing.                                              *)

LEMMA AnswerInv ==
  ASSUME Inv, NEW r \in Requests, UNCHANGED <<accounts, players, clock>>,
         NEW code \in {"200", "201", "401", "403", "409", "500"}, Answer(r, code)
  PROVE  Inv'
  BY DEF Inv, TypeOK, Drafts, EmailsUnique, NamesUnique, TokensStayWithOwner, Numbered,
         Given, IsFirst, Answer, Done

\* A client is granted tokens of an account whose password it knows.
LEMMA GrantInv ==
  ASSUME Inv, NEW r \in Requests, NEW c \in Clients, NEW a \in Requests,
         UNCHANGED <<accounts, players, clock>>, Grant(r, c, "200", a),
         \E b \in accounts : b.id = a /\ b.passwordHash = Hash[Secret[c]]
  PROVE  Inv'
  <1>1. TokenPair(a) \subseteq Token /\ \A t \in TokenPair(a) : t.sub = a
    BY TtlAssumption DEF TokenPair, Token, Inv, TypeOK
  <1>2. TypeOK'
    BY <1>1 DEF Inv, TypeOK, Grant, Done
  <1>3. TokensStayWithOwner'
    BY <1>1 DEF Inv, TypeOK, TokensStayWithOwner, Grant
  <1>4. Drafts' /\ Numbered' /\ Given'
    BY DEF Inv, TypeOK, Drafts, Numbered, Given, IsFirst, Grant, Done
  <1>5. EmailsUnique' /\ NamesUnique'
    BY DEF Inv, EmailsUnique, NamesUnique
  <1>6. QED
    BY <1>2, <1>3, <1>4, <1>5 DEF Inv

LEMMA RegisterInv ==
  ASSUME Inv, NEW r \in Requests, NEW c \in Clients, NEW e \in Emails, Register(r, c, e)
  PROVE  Inv'
  <1> DEFINE a == [id |-> r, email |-> Lower[e], passwordHash |-> Hash[Secret[c]]]
  <1>1. CASE EmailTaken(Lower[e]) \/ Secret[c] \in Unhashable
    BY <1>1, AnswerInv DEF Register
  <1>2. CASE ~EmailTaken(Lower[e]) /\ Secret[c] \notin Unhashable
    <2>1. Await(r, c, "register", a) /\ UNCHANGED <<accounts, players, clock>>
      BY <1>2 DEF Register
    <2>2. /\ a \in Account /\ a.id = r /\ Lower[a.email] = a.email
          /\ a.passwordHash = Hash[Secret[c]]
      BY CredentialAssumption DEF Account, Range
    <2> HIDE DEF a
    <2>3. TypeOK'
      BY <2>1, <2>2 DEF Inv, TypeOK, Await, Drafts
    <2>4. Drafts'
      BY <2>1, <2>2 DEF Inv, TypeOK, Drafts, Await
    <2>5. Numbered' /\ Given' /\ EmailsUnique' /\ NamesUnique' /\ TokensStayWithOwner'
      BY <2>1 DEF Inv, TypeOK, Numbered, Given, IsFirst, EmailsUnique, NamesUnique,
                  TokensStayWithOwner, Await
    <2>6. QED
      BY <2>3, <2>4, <2>5 DEF Inv
  <1>3. QED
    BY <1>1, <1>2

LEMMA LoginInv ==
  ASSUME Inv, NEW r \in Requests, NEW c \in Clients, NEW e \in Emails, Login(r, c, e)
  PROVE  Inv'
  <1>1. CASE Answer(r, "401")
    BY <1>1, AnswerInv DEF Login
  <1>2. ASSUME NEW a \in WithEmail(Lower[e]), VerifyPassword(Secret[c], a.passwordHash),
               Grant(r, c, "200", a.id)
        PROVE  Inv'
    <2>1. a \in accounts /\ a.id \in Requests /\ a.passwordHash = Hash[Secret[c]]
      BY <1>2 DEF WithEmail, VerifyPassword, Inv, TypeOK, Account
    <2>2. QED
      BY <1>2, <2>1, GrantInv DEF Login
  <1>3. QED
    BY <1>1, <1>2 DEF Login

LEMMA RefreshInv ==
  ASSUME Inv, NEW r \in Requests, NEW c \in Clients, NEW t \in wallet[c], Refresh(r, c, t)
  PROVE  Inv'
  <1>1. CASE ~Current(t, "refresh")
    BY <1>1, AnswerInv DEF Refresh
  <1>2. CASE Current(t, "refresh")
    <2>1. \E a \in accounts : a.id = t.sub /\ a.passwordHash = Hash[Secret[c]]
      BY DEF Inv, TokensStayWithOwner
    <2>2. t.sub \in Requests
      BY DEF Inv, TypeOK, Token
    <2>3. QED
      BY <1>2, <2>1, <2>2, GrantInv DEF Refresh
  <1>3. QED
    BY <1>1, <1>2

LEMMA CreateInv ==
  ASSUME Inv, NEW r \in Requests, NEW c \in Clients, NEW t \in wallet[c], NEW n \in Names,
         CreateCharacter(r, c, t, n)
  PROVE  Inv'
  <1> DEFINE d == [id |-> r, accountId |-> t.sub, name |-> n]
  <1>1. CASE ~Current(t, "access")
    BY <1>1, AnswerInv DEF CreateCharacter
  <1>2. CASE Current(t, "access")
    <2>1. Await(r, c, "create", d) /\ UNCHANGED <<accounts, players, clock>>
      BY <1>2 DEF CreateCharacter
    <2>2. d \in Player /\ d.id = r /\ \E a \in accounts : a.id = d.accountId
      BY <1>2 DEF Player, Current, Inv, TypeOK, Token
    <2> HIDE DEF d
    <2>3. TypeOK'
      BY <2>1, <2>2 DEF Inv, TypeOK, Await, Drafts
    <2>4. Drafts'
      BY <2>1, <2>2 DEF Inv, TypeOK, Drafts, Await
    <2>5. Numbered' /\ Given' /\ EmailsUnique' /\ NamesUnique' /\ TokensStayWithOwner'
      BY <2>1 DEF Inv, TypeOK, Numbered, Given, IsFirst, EmailsUnique, NamesUnique,
                  TokensStayWithOwner, Await
    <2>6. QED
      BY <2>3, <2>4, <2>5 DEF Inv
  <1>3. QED
    BY <1>1, <1>2

LEMMA HandshakeInv ==
  ASSUME Inv, NEW r \in Requests, NEW c \in Clients, NEW t \in wallet[c],
         Handshake(r, c, t)
  PROVE  Inv'
  <1>1. CASE ~Valid(t, "access")
    BY <1>1, AnswerInv DEF Handshake
  <1>2. CASE Valid(t, "access")
    <2>1. Await(r, c, "load", t.sub) /\ UNCHANGED <<accounts, players, clock>>
      BY <1>2 DEF Handshake
    <2>2. QED
      BY <2>1 DEF Inv, TypeOK, Drafts, Numbered, Given, IsFirst, EmailsUnique, NamesUnique,
                  TokensStayWithOwner, Await
  <1>3. QED
    BY <1>1, <1>2

\* A handshake is given the first character, and later ones do not change that.
LEMMA LoadInv ==
  ASSUME Inv, NEW r \in Requests, LoadPlayer(r)
  PROVE  Inv'
  <1>0. /\ UNCHANGED <<accounts, players, sender, wallet, clock>> /\ Done(r)
        /\ \E code \in {"101", "1008"} : answer' = [answer EXCEPT ![r] = code]
    BY DEF LoadPlayer
  <1>1. \/ UNCHANGED plays
        \/ \E k \in DOMAIN players : IsFirst(k) /\ plays' = [plays EXCEPT ![r] = players[k].id]
    <2>1. CASE UNCHANGED plays
      BY <2>1
    <2>2. CASE \E p \in FirstPlayer(doc[r]) : plays' = [plays EXCEPT ![r] = p]
      <3>1. PICK k \in Theirs(doc[r]) :
              /\ \A j \in Theirs(doc[r]) : k <= j
              /\ plays' = [plays EXCEPT ![r] = players[k].id]
        BY <2>2 DEF FirstPlayer
      <3>2. k \in DOMAIN players /\ IsFirst(k)
        BY <3>1 DEF Theirs, IsFirst
      <3>3. QED
        BY <3>1, <3>2
    <2>3. QED
      BY <2>1, <2>2 DEF LoadPlayer
  <1>2. ASSUME NEW k \in DOMAIN players
        PROVE  players[k].id \in Requests
    <2>1. players \in Seq(Player)
      BY DEF Inv, TypeOK
    <2>2. players[k] \in Player
      BY <2>1
    <2>3. QED
      BY <2>2 DEF Player
  <1>3. TypeOK'
    BY <1>0, <1>1, <1>2 DEF Inv, TypeOK, Done, Drafts
  <1>4. Given'
    BY <1>0, <1>1 DEF Inv, TypeOK, Given, IsFirst
  <1>5. Drafts' /\ Numbered' /\ EmailsUnique' /\ NamesUnique' /\ TokensStayWithOwner'
    BY <1>0 DEF Inv, TypeOK, Drafts, Numbered, EmailsUnique, NamesUnique,
                TokensStayWithOwner, Done
  <1>6. QED
    BY <1>3, <1>4, <1>5 DEF Inv

-------------------------------------------------------------------------------
(* Inserts.                                                                *)

\* An insert of an account that the index lets pass, answered or not.
LEMMA AccountKept ==
  ASSUME Inv, NEW r \in Requests, pc[r] = "register", ~EmailTaken(doc[r].email),
         accounts' = accounts \cup {doc[r]}, UNCHANGED <<players, clock>>,
         Grant(r, sender[r], "201", r) \/ Answer(r, "500")
  PROVE  Inv'
  <1>1. /\ doc[r] \in Account /\ doc[r].id = r /\ Lower[doc[r].email] = doc[r].email
        /\ doc[r].passwordHash = Hash[Secret[sender[r]]] /\ sender[r] \in Clients
    BY DEF Inv, TypeOK, Drafts
  <1>2. Done(r) /\ UNCHANGED <<sender, plays>>
    BY DEF Grant, Answer
  <1>3. TokenPair(r) \subseteq Token /\ \A t \in TokenPair(r) : t.sub = r
    BY TtlAssumption DEF TokenPair, Token, Inv, TypeOK
  <1>4. \/ UNCHANGED wallet
        \/ wallet' = [wallet EXCEPT ![sender[r]] = wallet[sender[r]] \cup TokenPair(r)]
    BY DEF Grant, Answer
  <1>5. TypeOK'
    <2>1. wallet' \in [Clients -> SUBSET Token]
      BY <1>1, <1>3, <1>4 DEF Inv, TypeOK
    <2>2. answer' \in [Requests -> {"none", "101", "200", "201", "401", "403", "409",
                                    "500", "1008"}]
      BY DEF Inv, TypeOK, Grant, Answer
    <2>3. accounts' \subseteq Account
      BY <1>1 DEF Inv, TypeOK
    <2>4. QED
      BY <1>2, <2>1, <2>2, <2>3 DEF Inv, TypeOK, Done, Drafts
  <1>6. EmailsUnique'
    BY <1>1 DEF Inv, Drafts, EmailsUnique, EmailTaken, WithEmail
  <1>7. TokensStayWithOwner'
    BY <1>1, <1>3, <1>4 DEF Inv, TypeOK, TokensStayWithOwner
  <1>8. Drafts'
    BY <1>1, <1>2 DEF Inv, TypeOK, Drafts, Done
  <1>9. NamesUnique' /\ Numbered' /\ Given'
    BY <1>2 DEF Inv, TypeOK, NamesUnique, Numbered, Given, IsFirst, Done
  <1>10. QED
    BY <1>5, <1>6, <1>7, <1>8, <1>9 DEF Inv

\* An insert of a character that the index lets pass, answered or not.
LEMMA PlayerKept ==
  ASSUME Inv, NEW r \in Requests, pc[r] = "create", ~NameTaken(doc[r].name),
         players' = Append(players, doc[r]), UNCHANGED <<accounts, clock>>,
         NEW code \in {"201", "500"}, Answer(r, code)
  PROVE  Inv'
  <1> DEFINE n == Len(players) + 1
  <1>1. /\ doc[r] \in Player /\ doc[r].id = r
        /\ \E a \in accounts : a.id = doc[r].accountId
    BY DEF Inv, TypeOK, Drafts
  <1>2. /\ players' \in Seq(Player) /\ DOMAIN players' = DOMAIN players \cup {n}
        /\ players'[n] = doc[r] /\ \A k \in DOMAIN players : players'[k] = players[k]
        /\ DOMAIN players \subseteq Nat /\ \A k \in DOMAIN players : k < n
    BY <1>1 DEF Inv, TypeOK
  <1>3. TypeOK'
    BY <1>2 DEF Inv, TypeOK, Answer, Done
  <1>4. NamesUnique'
    BY <1>1, <1>2 DEF Inv, NamesUnique, NameTaken
  <1>5. Numbered'
    BY <1>1, <1>2 DEF Inv, TypeOK, Numbered, Answer, Done
  <1>6. \A k \in DOMAIN players : IsFirst(k) => IsFirst(k)'
    BY <1>2 DEF IsFirst
  <1>7. Given'
    BY <1>2, <1>6 DEF Inv, Given, Answer
  <1>8. Drafts' /\ EmailsUnique' /\ TokensStayWithOwner'
    BY DEF Inv, TypeOK, Drafts, EmailsUnique, TokensStayWithOwner, Answer, Done
  <1>9. QED
    BY <1>3, <1>4, <1>5, <1>7, <1>8 DEF Inv

LEMMA TickInv == Inv /\ Tick => Inv'
  BY TtlAssumption
  DEF Inv, TypeOK, Drafts, EmailsUnique, NamesUnique, TokensStayWithOwner, Numbered,
      Given, IsFirst, Tick

LEMMA AccountsNext == Inv /\ [Next]_vars => Inv'
  <1> SUFFICES ASSUME Inv, [Next]_vars
               PROVE  Inv'
    OBVIOUS
  <1>1. CASE UNCHANGED vars
    BY <1>1
    DEF vars, Inv, TypeOK, Drafts, EmailsUnique, NamesUnique, TokensStayWithOwner,
        Numbered, Given, IsFirst
  <1>2. CASE Tick
    BY <1>2, TickInv
  <1>3. CASE \E r \in Requests : InsertAccount(r)
    BY <1>3, AccountKept, AnswerInv DEF InsertAccount
  <1>4. CASE \E r \in Requests : InsertPlayer(r)
    BY <1>4, PlayerKept, AnswerInv DEF InsertPlayer
  <1>5. CASE \E r \in Requests : LoadPlayer(r)
    BY <1>5, LoadInv
  <1>6. CASE \E r \in Requests : DbError(r)
    BY <1>6, AccountKept, PlayerKept, AnswerInv DEF DbError
  <1>7. CASE \E r \in Requests, c \in Clients : Send(r, c)
    <2>1. PICK r \in Requests, c \in Clients : Send(r, c)
      BY <1>7
    <2>2. CASE \E e \in Emails : Register(r, c, e) \/ Login(r, c, e)
      BY <2>2, RegisterInv, LoginInv
    <2>3. CASE \E t \in wallet[c] : Refresh(r, c, t) \/ Handshake(r, c, t)
      BY <2>3, RefreshInv, HandshakeInv
    <2>4. CASE \E t \in wallet[c] : Show(r, t)
      BY <2>4, AnswerInv DEF Show
    <2>5. CASE \E t \in wallet[c], n \in Names : CreateCharacter(r, c, t, n)
      BY <2>5, CreateInv
    <2>6. QED
      BY <2>1, <2>2, <2>3, <2>4, <2>5 DEF Send
  <1>8. QED
    BY <1>1, <1>2, <1>3, <1>4, <1>5, <1>6, <1>7 DEF Next

LEMMA InvAlways == Spec => []Inv
  BY AccountsInit, AccountsNext, PTL DEF Spec

(***************************************************************************)
(* Every request keeps its types; in particular what is inserted is a      *)
(* complete document, and a handshake is given a player's id or nobody's.  *)
(***************************************************************************)
THEOREM AccountsTypes == Spec => []TypeOK
  BY InvAlways, PTL DEF Inv

(***************************************************************************)
(* However registrations and creations interleave and fail, one account    *)
(* has an address and one character a name.                                *)
(***************************************************************************)
THEOREM AccountsUnique == Spec => [](EmailsUnique /\ NamesUnique)
  BY InvAlways, PTL DEF Inv

(***************************************************************************)
(* Whoever holds a token knows the password of the account it names.       *)
(***************************************************************************)
THEOREM TokensOfOwner == Spec => []TokensStayWithOwner
  BY InvAlways, PTL DEF Inv

(***************************************************************************)
(* All sessions of an account play the same character, also while others   *)
(* are created: what module GameServer assumes of the players of sockets.  *)
(***************************************************************************)
THEOREM OnePlayerPerAccount == Spec => []SamePlayerEachTime
  <1>1. ASSUME Inv, NEW k \in DOMAIN players
        PROVE  OwnerOf(players[k].id) = {players[k].accountId}
    BY <1>1 DEF Inv, Numbered, OwnerOf
  <1>2. ASSUME Inv, NEW j \in DOMAIN players, NEW k \in DOMAIN players,
               IsFirst(j), IsFirst(k), players[j].accountId = players[k].accountId
        PROVE  j = k
    BY <1>2 DEF Inv, TypeOK, IsFirst
  <1>3. Inv => SamePlayerEachTime
    BY <1>1, <1>2 DEF Inv, Given, SamePlayerEachTime
  <1>4. QED
    BY <1>3, InvAlways, PTL
===============================================================================
