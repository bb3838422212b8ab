\* An administrator, a process that resolves, one that lists; two names, one of them a default.
SPECIFICATION Spec
CONSTANTS
  admin = admin
  gateway = gateway
  compat = compat
  sonnet = sonnet
  mine = mine
  NoName = NoName
  Process = {admin, gateway, compat}
  Admins = {admin}
  Resolvers = {gateway}
  Listers = {compat}
  Name = {sonnet, mine}
  Default <- OneDefault
  CacheTTL = 2
  StackDepth = 2
  MaxId = 2
  MaxUses = 1
  MaxTime = 3
INVARIANTS
  TypeOK
  UsageCounted
  ListFresh
