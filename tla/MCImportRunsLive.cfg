SPECIFICATION FairSpec
CONSTANTS
  a = a
  b = b
  n = n
  m = m
  p = p
  q = q
  None = None
  Foreign = Foreign
  Accounts <- MCAccounts
  Names <- MCNames
  FolderNames = {}
  Payloads = {p}
  Files <- MCTwoFiles
  RunIds = {1, 2}
  ClockStepsBack = FALSE
  MaxCrashes = 2
  MaxSaves = 2
  Touchable = {}
  MaxOutside = 0
  MaxRestores = 1
PROPERTIES
  EveryRunIsLogged
  AcceptedLeavesInbox
