SPECIFICATION MCSpec
CONSTANTS
  r1 = r1
  r2 = r2
  t1 = t1
  t2 = t2
  p1 = p1
  p2 = p2
  None = None
  Ids <- MCIds
  Recipes <- MCRecipes
  IdStep = 5
  MaxBuilds = 4
  MaxMoves = 4
  MaxFailures = 2
  MaxSets = 2
  MaxRestores = 2
  Targets <- MCTargets
  Payloads = {p1, p2}
  Kinds = {"classify", "pair", "withdrawn", "same-transaction", "retract"}
  DecisionIds = {1, 2, 3}
  HandLines <- MCHandLines
  Unset = Unset
  Garbled = Garbled
  MaxLines = 3
  MaxHands = 1
  MaxRecipes = 1
SYMMETRY MCSymmetry
INVARIANTS
  TypeOK
  CurrentAndPreviousKept
  HistoryIsSound
  PlanStaysNext
  PageSurvivesOneMove
  PageNeverMixes
  LeftoversHaveACause
  CatchUpUndoReturns
  LogTypeOK
  ClaimsDisjoint
  ReplayAgrees
  OwnEntriesStayValid
  NoFalseAlarm
PROPERTIES
  KeepsHistory
CHECK_DEADLOCK TRUE
