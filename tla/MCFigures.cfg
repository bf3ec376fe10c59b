CONSTANTS
  a = a
  b = b
  None = None
  Withdrawn = Withdrawn
  Undecided = Undecided
  Unset = Unset
  Nothing = Nothing
  Accounts <- MCAccounts
  Dates <- MCDates
  Legs <- MCLegs
  Registries <- MCRegistries
  Direction <- MCDirection
  Rules <- MCRules
  MaxGap = 1
  MaxInputs = 4
  Bookings <- MCBookings
  MaxDay = 2
  MaxBooked = 2
  MaxChanges = 1
  MaxExports = 3
  MaxFlaws = 1
  MonthDays = 1
  ClosedOn = None
SPECIFICATION MCSpec
INVARIANTS TypeOK DayIsItsExport GrowthIsAdmitted CompleteMonthsAddUp PairsAreSound NothingIsGuessed
CHECK_DEADLOCK FALSE
SYMMETRY MCSymmetry
