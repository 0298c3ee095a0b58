SPECIFICATION MCSpec
CONSTANTS
  a = a
  b = b
  example = example
  NotFound = NotFound
  DomainOf <- MCDomainOf
  Res = 2
  Email = {a, b}
  Name = {"n1", "n2"}
  Hash = {"", "h1", "h2"}
  Message <- MCMessage
  Folder = {"INBOX", "Sent"}
  Alias = {"office"}
  Target <- MCTarget
  List = {"team"}
  FilterId = {1, 2}
  Body <- MCBody
  Mail <- MCMail
  MaxNow = 4
  Cooldown = 3
  Status = {"", "ok"}
  Client <- MCClient
  Code = {"k1"}
  Token = {"t1"}
  Owner = {a, b}
  CardId = {u1}
  WebId = {w1}
  Data = {"d1", "d2"}
  Req = {r1, r2, r3, r4}
SYMMETRY MCSym
INVARIANTS
  MCTypeOK
  
  
  
  

  
CHECK_DEADLOCK FALSE
