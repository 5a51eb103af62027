SPECIFICATION Review
CONSTANTS
  r1 = r1  r2 = r2  raw = raw  prefixed = prefixed  s1 = s1  s2 = s2
  Rows = {r1, r2}
  Spellings = {raw, prefixed}
  Cutover = {r2}
  Sessions = {s1}
  DeskRows = {r1, r2}
  AccountOf <- DeskAccounts
  SameDay <- DeskPairs
  FirstAmounts <- DeskFirst
  LaterAmounts <- DeskLater
  Categories = {"Wages", "Tax"}
  Plans <- DeskPlans
  CorrectsPosted = FALSE
  MaxStops = 1
  NoSession = NoSession  NoId = NoId
  MaxAliases = 4
  MaxCrashes = 2
CHECK_DEADLOCK FALSE
INVARIANTS RowAccountedFor DistinctIsBooked
PROPERTIES HeldUntilReviewed HeldRowsStayOut
INVARIANTS PostedAsApproved OpeningCarriesOver
PROPERTY StoppedConfirmFinishes
