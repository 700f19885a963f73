SPECIFICATION OneKindSpec
CONSTANTS
  Acceptors = {a1}
  Servers = {s1}
  Clients = {c1}
  AutoClients = {c1}
  NoIOC = nil
  DeadAt = 2
  MaxHeld = 1
PROPERTIES
  DeletedInTheEnd
