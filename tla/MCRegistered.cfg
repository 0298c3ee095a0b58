SPECIFICATION MCSpec
CONSTANTS
  example = example
  NotFound = NotFound
  DomainOf <- MCDomainOf
  Res = 1
  Request = {r1}
  LoginToken = {t1}
  Device = {phone}
  BackupCode = {b1}
  MaxSetups = 1
  MaxLost = 0
  User = {ann}
  Program = {shop}
  Client = {shop}
  AuthCode = {k1}
  AccessToken = {a1}
  Redemption = {r1}
  CodeTTL = 1
  TokenTTL = 1
  MaxTicks = 1
  Domain = {example}
  Email = {e1, e2}
  Signup = {s1, s2}
  Process = {r1}
PROPERTIES
  RegisteredStaysServed
CHECK_DEADLOCK FALSE
