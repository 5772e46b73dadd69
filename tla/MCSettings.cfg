SPECIFICATION Spec
CONSTANTS
  Clients = {c1, c2}
  Nicks = {n1, n2}
  NoNick = NoNick
  NoClient = NoClient
  MaxClients = 2
  Keys = {"x", "key"}
  Limits = {0, 1}
  NoLimit = NoLimit
  Topics = {"topic"}
  ChannelNames = {"#a"}
  MaxLetters = 2
  JoinLists <- Joins
  PartLists <- Parts
  ModeRequests <- SettingRequests
VIEW View
SYMMETRY Symmetry
INVARIANTS
  SettingsConsistent
PROPERTIES
  SettingsGuarded
  EntryGuarded
  InvitationsGuarded
  ChangesAreTold
