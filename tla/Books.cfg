SPECIFICATION Books
CONSTANTS
  r1 = r1  r2 = r2  r3 = r3
  Counterparties = {"acme"}
  CounterpartyOf <- SameCounterparty
  Sessions = {"q"}
  Rows = {r1}
  Spellings = {"raw", "banksync"}
  Categories = {"office", "travel"}
  HeldRows = {}
  Threshold = 1
  QueueAll = TRUE
  MaxRev = 2
  MaxCrashes = 2
  Requests <- Asked
  Suppliers = {3}
  Facts <- BankRows
  None = None
  MaxPlans = 3
  MaxReceipts = 3
  MaxRuleStops = 1
INVARIANTS RowPostedOnce FinalItemMatchesLedger NoRowLost RecordsReconcile RulesAsReviewed
PROPERTIES StoppedIsFinished TrustIsEarned RampIsEarned ReviewedAccountsForCash
