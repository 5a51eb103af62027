SPECIFICATION Spec
CONSTANTS
  i1 = i1  i2 = i2  i3 = i3
  Items = {i1, i2}
  Interruptible = {"removal"}
  MaxOps = 2
  MaxCrashes = 1
PROPERTY GroupsAreAtomic
