CONSTANTS
  h1 = h1
  h2 = h2
  u1 = u1
  Users = {u1}
  Handlers = {h1, h2}
  ResetDay <- MCResetDay
  Limit <- MCLimit
  MaxDay = 8
  StartDay = 4
  Ticks = 2
  Zone = 1
  LastMonth = 3
  MonthOf <- MCMonthOf
  FirstDay <- MCFirstDay
  LastResetDay = 2
  RetentionMonths = 2
  MaxBytes = 2
  None = None
SYMMETRY Symmetry
SPECIFICATION LedgerSpec
INVARIANTS
  TypeOK
  NeverOvercharged
  UsageIsComplete
PROPERTIES
  RefusedOnlyOverLimit
