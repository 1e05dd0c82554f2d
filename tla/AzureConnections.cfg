SPECIFICATION Spec
CONSTANTS
  Sessions = {s1}
  Requests = {r1, r2}
  Modes = {"vscode","anonymous"}
  TTL = 0
  Lifetimes = {1}
  MaxTime = 1
  MaxConns = 2
  MaxClients = 2
  MaxCreds = 2
  MaxPushes = 2
SYMMETRY Threads
CHECK_DEADLOCK FALSE
INVARIANT
  NoAnonymousDowngrade
  UnreachableIsClosed
  ClientsAreClosed
  SignOutDisconnects
