CONSTANTS
  ann = ann  bob = bob  team = team  far = far  home = home  away = away
  m1 = m1  m2 = m2  s1 = s1  s2 = s2
  Nobody = Nobody
  Addr <- MCAddr
  Domain <- MCDomain
  DomainOf <- MCDomainOf
  AliasKey <- MCNone
  List <- MCList
  LoopDepth = 10
  Session <- MCOneSession
  Tables <- MCTables
  Msg <- MCOneMsg
  Header <- MCHeader
  Sender <- MCSender
  Fragile <- MCFragile
  Recipient <- MCAddr
  Served <- MCServed
  MaxTries = 1
SPECIFICATION Spec
INVARIANTS ListsDistribute
