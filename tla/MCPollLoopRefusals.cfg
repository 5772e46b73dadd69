SPECIFICATION FairSpec
CONSTANTS
  Clients = {4, 5}
  Server = Server
  None = None
  MaxClients = 1
PROPERTIES
  AcceptErrorsAreIgnored
