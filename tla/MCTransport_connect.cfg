SPECIFICATION Spec
CONSTANTS
  Acceptors = {}
  Servers = {}
  Clients = {c1}
  AutoClients = {}
  NoIOC = nil
  DeadAt = 10
  MaxHeld = 1
INVARIANT ConnectReturnsLive
