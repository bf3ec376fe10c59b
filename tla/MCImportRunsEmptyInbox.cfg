SPECIFICATION Spec
CONSTANTS
  a = a
  b = b
  n = n
  m = m
  p = p
  q = q
  None = None
  Foreign = Foreign
  Accounts <- MCAccounts
  Names <- MCNames
  FolderNames = {m}
  Payloads <- MCPayloads
  Files <- MCFiles
  RunIds = {1, 2}
  ClockStepsBack = FALSE
  MaxCrashes = 1
  MaxSaves = 2
  Touchable = {}
  MaxOutside = 0
  MaxRestores = 0
INVARIANTS
  EveryImportLogsEveryRun
