CONSTANTS
  a = a
  b = b
  None = None
  Withdrawn = Withdrawn
  Undecided = Undecided
  Unset = Unset
  Nothing = Nothing
  Accounts <- MCAccounts
  Dates <- MCDates
  Legs <- MCLegs
  Registries <- MCRegistries
  Direction <- MCDirection
  Rules <- MCRules
  MaxGap = 1
  MaxInputs = 4
  Bookings <- MCBookings
  MaxDay = 2
  MaxBooked = 2
  MaxChanges = 1
  MaxExports = 2
  MaxFlaws = 0
  MonthDays = 1
  ClosedOn = None
SPECIFICATION MCSpec
INVARIANT GrowthOverAnyRange
CHECK_DEADLOCK FALSE
SYMMETRY MCSymmetry
