SPECIFICATION FairSpec
CONSTANTS
  Clients = {4, 5, 6}
  Server = Server
  None = None
  MaxClients = 2
INVARIANTS
  TypeOK
  SlotsMatch
  PassServesAll
  KeepsRunning
PROPERTIES
  NoneDroppedWithoutCause
  PassEnds
  ImplementsRegistry
  LostAreRemoved
  SendersAreHeard
