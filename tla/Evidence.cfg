SPECIFICATION Evidence
CONSTANTS
  i1 = i1  i2 = i2  i3 = i3  None = None
  Items = {i1, i2, i3}
  Interruptible = {}
  MaxOps = 2
  MaxCrashes = 2
  Movements = {1, 2}
  KindOf <- ChargeAndPayout
  Deposits = {i1}
  Resembles = {1}
  AccountRoles = 1
  Older = {}
  Budget = 2
CHECK_DEADLOCK FALSE
INVARIANTS ReadersSeeTheQueue NextCommandRecovers CountedExactlyOnce ProvenMonthIsTrue ReadAsBanked
PROPERTIES GroupsAreAtomic RowsAreSettledOnce
