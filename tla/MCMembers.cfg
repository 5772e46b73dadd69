SPECIFICATION Spec
CONSTANTS
  Clients = {c1, c2, c3}
  Nicks = {n1, n2, n3}
  NoNick = NoNick
  NoClient = NoClient
  MaxClients = 3
  Keys = {"key"}
  Limits = {0}
  NoLimit = NoLimit
  Topics = {}
  ChannelNames = {"#a"}
  JoinLists <- Lists
  PartLists <- Lists
  ModeRequests <- OperatorRequests
VIEW View
SYMMETRY Symmetry
INVARIANTS
  RegTypeOK
  UniqueNicks
  NickIndexed
  RegisteredComplete
  MembersLive
  OperatorsAreMembers
  GrantsFindTheParticipant
PROPERTIES
  MembershipEnds
  OperatorsChange
  MembersAreTold
  MessagesReachLive
  OnlyFailuresDisconnect
  ImplementsMembership
