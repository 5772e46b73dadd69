SPECIFICATION Spec
CONSTANTS
  Clients = {c1, c2}
  Nicks = {n1, n2}
  NoNick = NoNick
  NoClient = NoClient
  MaxClients = 2
  Keys = {"key"}
  Limits = {0}
  NoLimit = NoLimit
  Topics = {}
  ChannelNames = {"#a", "#b"}
  JoinLists <- Lists
  PartLists <- Lists
  ModeRequests <- InviteOnly
VIEW View
SYMMETRY Symmetry
INVARIANTS
  ServerInv
PROPERTIES
  ImplementsMembership
