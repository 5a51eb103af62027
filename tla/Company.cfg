SPECIFICATION Company
CONSTANTS
  p1 = p1  i1 = i1  c1 = c1  o1 = o1  o2 = o2  o3 = o3  n1 = n1  e1 = e1
  Payments = {p1}
  Spellings = {"raw", "prefixed"}
  Ops = {o1, o2, o3}
  References = {n1}
  Receivables = {i1}
  Credits = {c1}
  Evidence = {e1}
  NoEvidence = NoEvidence  NoPlan = NoPlan  NoJob = NoJob  NoItem = NoItem
  Cash <- OneCash
  Fee <- OneFee
  Split <- TwoShares
  Amounts = {1, 2}
  FeedTreatments = {"income", "Deposits"}
  AnySpelling = FALSE
  Lenient = {p1}
  MaxCrashes = 1
  Schedules = {"s1", "s2"}
  LastDay = 6
  MonthStarts = {1, 4}
  Terms <- SmallTerms
  CustomPlans <- SmallPlans
  Amount = 5
  Salvages = {0, 1}
  PaidOn = 2
  PaidLines <- SmallPayments
  Dates = {3, 4, 5, 6}
  Refunds = {0, 1}
  MaxChanges = 2
  MaxReopens = 1
CHECK_DEADLOCK FALSE
INVARIANTS ItemsMatchBooks EvidencePaysOnce
INVARIANTS ServiceIsRecognizedOnce OrderedSupportMatches
PROPERTY SettledLeavesReview
PROPERTY ClosedPastKeepsItsFigures
