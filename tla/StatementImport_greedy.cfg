SPECIFICATION Spec
CONSTANTS
  None = None
  Txns <- TwoPurchases
  Files <- OneExport
  FeedDay <- SameDays
  FeedBatches <- LateFeed
  Boundaries = {9}
  OpeningDays = {}
  Learned = {"cafe"}
  NearDays = 3
  MaxOpenings = 0
  MaxStops = 0
CHECK_DEADLOCK FALSE
INVARIANT CountedOnce
