SPECIFICATION Spec
CONSTANTS
  a = a
  b = b
  n = n
  m = m
  p = p
  q = q
  None = None
  Foreign = Foreign
  Accounts <- MCAccounts
  Names <- MCNames
  FolderNames = {m}
  Payloads <- MCPayloads
  Files <- MCFiles
  RunIds = {1, 2}
  ClockStepsBack = TRUE
  MaxCrashes = 1
  MaxSaves = 2
  Touchable <- MCTouchable
  MaxOutside = 1
  MaxRestores = 1
SYMMETRY Symmetry
INVARIANTS
  TypeOK
  OneOwner
  OnePayloadPerPlace
  LogRestatesBronze
  LogReplayable
  LoggedIsArchived
PROPERTIES
  CrashesNeverBlock
  ClearedOnlyWhenKept
CHECK_DEADLOCK TRUE
