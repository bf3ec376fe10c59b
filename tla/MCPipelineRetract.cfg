CONSTANTS
  k1 = k1
  c1 = c1
  Runs = {r1}
  Codes = {k1}
  Configs = {c1}
  None = None
  MaxDecisions = 2
  MaxFailures = 0
  MaxEdits = 0
SPECIFICATION MCSpec
INVARIANT BuiltFromItsRecipe
