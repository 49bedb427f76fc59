CONSTANTS
  alice = alice
  bob = bob
  carol = carol
  mail = mail
  MAIL = MAIL
  pwA = pwA
  pwB = pwB
  pwC = pwC
  hashA = hashA
  hashB = hashB
  name = name
  NAME = NAME
  other = other
  one = one
  two = two
  Requests = {r1, r2, r3, r4, r5}
  Clients = {alice, bob, carol}
  Emails = {mail, MAIL}
  Lower <- MCLower
  Passwords = {pwA, pwB, pwC}
  Secret <- MCSecret
  Hash <- MCHash
  Unhashable = {pwC}
  Names = {name, NAME, other}
  Fold <- MCFold
  AccessTtl = 1
  RefreshTtl = 2
  MaxTime = 2
  MayFail = TRUE
  Nobody = Nobody
SPECIFICATION Spec
INVARIANTS TypeOK EmailsUnique NamesUnique TokensStayWithOwner SamePlayerEachTime
CHECK_DEADLOCK FALSE
SYMMETRY Anonymous
