SPECIFICATION Spec
CONSTANTS
  r1 = r1  r2 = r2  raw = raw  prefixed = prefixed  s1 = s1  s2 = s2
  Rows = {r1, r2}
  Spellings = {raw}
  Cutover = {}
  Sessions = {s1, s2}
  NoSession = NoSession  NoId = NoId
  MaxAliases = 3
  MaxCrashes = 0
PROPERTY HeldUntilReviewed
