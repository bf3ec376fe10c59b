SPECIFICATION Spec
CONSTANTS
  a = a
  b = b
  n = n
  m = m
  p = p
  q = q
  None = None
  Foreign = Foreign
  Accounts <- MCAccounts
  Names <- MCNames
  FolderNames = {}
  Payloads <- MCPayloads
  Files <- MCTwoFiles
  RunIds = {1, 2}
  ClockStepsBack = FALSE
  MaxCrashes = 0
  MaxSaves = 2
  Touchable = {}
  MaxOutside = 0
  MaxRestores = 0
PROPERTIES
  SavedOverStays
