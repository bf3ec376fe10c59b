CONSTANTS
  k1 = k1
  c1 = c1
  Runs = {r1}
  Codes = {k1, k2}
  Configs = {c1, c2}
  None = None
  MaxDecisions = 2
  MaxFailures = 2
  MaxEdits = 1
SPECIFICATION MCFairSpec
INVARIANTS TypeOK EveryWriteIsBackedUp EndsCurrent
PROPERTIES QuietBuildsAreAsNamed PublishedFromStored EveryRunIsPublished
