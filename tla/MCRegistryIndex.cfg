SPECIFICATION RegSpec
CONSTANTS
  Clients = {c1, c2, c3, c4}
  Nicks = {n1, n2, n3}
  NoNick = NoNick
  NoClient = NoClient
  MaxClients = 3
SYMMETRY Symmetry
INVARIANTS
  IndexHoldsOnlyLive
