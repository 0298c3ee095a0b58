SPECIFICATION MCSpec
CONSTANTS
  example = example
  NotFound = NotFound
  DomainOf <- MCDomainOf
  Res = 1
  Request = {r1, r2}
  LoginToken = {t1, t2}
  Device = {phone}
  BackupCode = {b1}
  MaxSetups = 2
  MaxLost = 1
  User = {ann, bob}
  Program = {shop, blog}
  Client = {shop}
  AuthCode = {k1, k2}
  AccessToken = {a1, a2}
  Redemption = {r1, r2}
  CodeTTL = 0
  TokenTTL = 0
  MaxTicks = 1
  Domain = {example}
  Email = {e1, e2}
  Signup = {s1, s2}
  Process = {r1, r2}
CONSTRAINTS FewChanges StillOpen
SYMMETRY MCSym
INVARIANTS
  MCTypeOK
  UsedOnce
  
  ServedExplained
  
CHECK_DEADLOCK FALSE
