SPECIFICATION Spec
CONSTANTS
  r1 = r1  r2 = r2  r3 = r3
  Counterparties = {"acme"}
  CounterpartyOf <- SameCounterparty
  Sessions = {"q"}
  Rows = {r1}
  Spellings = {"raw"}
  Categories = {"office"}
  HeldRows = {}
  Threshold = 2
  QueueAll = TRUE
  MaxRev = 1
  MaxCrashes = 1
INVARIANT RelatedNeverLearned
