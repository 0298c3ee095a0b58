CONSTANTS
  a1 = a1  a2 = a2  a3 = a3  d1 = d1  d2 = d2
  Addr <- MCAddr
  Domain <- MCDomain
  DomainOf <- MCDomainOf
  AliasKey <- MCServedKey
  List <- MCList
  LoopDepth = 10
SPECIFICATION DirSpec
SYMMETRY Sym
INVARIANTS AccountsKeepTheirMail
