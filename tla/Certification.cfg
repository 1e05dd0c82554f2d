SPECIFICATION Spec
CONSTANTS
  Identity <- MCIdentity
  Here <- MCHere
  Default <- Dbo
  Hosts = {}
  Objects <- MCObjects
  Unseen <- MCUnseen
  Needs <- MCNeeds
  Cells <- MCCells
  ServersBefore <- MCServers
  Targets = {TRUE, FALSE}
  Reports <- MCReports
  Rounds = 4
  MaxFaults = 2
  MaxInterrupts = 1
INVARIANT
  VerdictsAreEarned
  OrderAllowsEveryDrop
PROPERTY
  ForeignUntouched
  AuthErrorStops
  KeepsPromise
