SPECIFICATION DeskSpec
CONSTANTS
  r1 = r1 r2 = r2 r3 = r3
  DeskRows = {r1, r2}
  AccountOf <- BankAccounts
  SameDay <- TwoSides
  FirstAmounts <- Staged
  LaterAmounts <- Changed
  Categories = {"Wages"}
  Plans <- Payroll
  CorrectsPosted = TRUE
  MaxStops = 1
CHECK_DEADLOCK FALSE
INVARIANT RowHasOneEntry
