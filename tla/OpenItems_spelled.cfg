SPECIFICATION Spec
CONSTANTS
  p1 = p1  i1 = i1  c1 = c1  o1 = o1  o2 = o2  o3 = o3  e1 = e1
  Payments = {p1}
  Spellings = {"raw", "prefixed"}
  Ops = {o1, o2, o3}
  References = {o1}
  Receivables = {i1}
  Credits = {c1}
  Evidence = {e1}
  NoEvidence = NoEvidence  NoPlan = NoPlan  NoJob = NoJob  NoItem = NoItem
  Cash <- OneCash
  Fee <- OneFee
  Split <- TwoShares
  Amounts = {1, 2, 3}
  FeedTreatments = {"income", "Deposits"}
  AnySpelling = TRUE
  Lenient = {}
  MaxCrashes = 1
CHECK_DEADLOCK FALSE
INVARIANT PaymentNotOverAllocated
