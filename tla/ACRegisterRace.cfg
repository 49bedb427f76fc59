CONSTANTS
  alice = alice
  bob = bob
  carol = carol
  mail = mail
  MAIL = MAIL
  pwA = pwA
  pwB = pwB
  pwC = pwC
  hashA = hashA
  hashB = hashB
  name = name
  NAME = NAME
  other = other
  one = one
  two = two
  Requests = {r1, r2}
  Clients = {alice, bob}
  Emails = {mail, MAIL}
  Lower <- MCLower
  Passwords = {pwA, pwB, pwC}
  Secret <- MCSecret
  Hash <- MCHash
  Unhashable = {}
  Names = {name}
  Fold <- MCFold
  AccessTtl = 1
  RefreshTtl = 2
  MaxTime = 0
  MayFail = FALSE
  Nobody = Nobody
SPECIFICATION Spec
INVARIANTS NoInternalError
CHECK_DEADLOCK FALSE
