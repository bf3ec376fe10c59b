SPECIFICATION MCSpec
CONSTANTS
  Stages <- MCStages
  StageOrder <- MCStages
  Nothing = Nothing
  Absent = Absent
  MaxVersion = 2
  MaxEntries = 2
  MaxSets = 3
  MaxTime = 2
  MomentsPerDay = 1
  DaysPerMonth = 2
  KeepAllDays = 1
  KeepDailyDays = 1
  KeepMonthly = 1
  MaxCuts = 1
  MaxLosses = 2
  MaxCodes = 1
  MaxRefreshes = 2
  MaxFailures = 2
INVARIANTS TypeOK Recoverable EveryLossIsReported DevelopmentIsWhole
CHECK_DEADLOCK FALSE
