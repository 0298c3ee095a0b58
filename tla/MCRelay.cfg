SPECIFICATION MCSpec
CONSTANTS
  d1 = d1
  d2 = d2
  ann = ann
  bob = bob
  list = list
  User = {s1}
  Report = {q1}
  Domain = {d1, d2}
  NoDomain = NoDomain
  Mail <- MCMail
  MxOf <- MCMxOf
  PolicyOf <- MCPolicyOf
  RuaOf <- MCRuaOf
  RelayHost <- MCRelayHost
  Attempts = 2
  DefaultAge = 1
  MaxClock = 1
  None = None
  DomainOf <- MCDomainOf
  NotFound = NotFound
  Res = 1
  Person <- MCPerson
  Local = {ann, bob}
  Robot = {list}
  Rule <- MCRule
  Letter <- MCLetter
  Cooldown = 1
  MaxTime = 2
  Job = {j1, j2}
  MaxLetters = 2
  MaxFaults = 1
  Ip = {i1, i2}
  Attempt = {g1, g2}
  MaxAuthFail = 2
  LockoutDur = 2
INVARIANTS
  MCTypeOK
  ProtectedInTransit
  CopiesNeedDoubt
  EventsCountedOnce
  
  
PROPERTIES
  KeepsPromise
  ExchangeEnds
  LockoutEnds
CHECK_DEADLOCK FALSE
