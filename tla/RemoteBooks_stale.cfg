SPECIFICATION BooksSpec
CONSTANTS
  Desks = {"p1", "p2"}
  Commands = {"get", "put"}
  MaxOrders = 1
  MaxForeign = 1
  MaxEdits = 0
  MaxTokens = 0
  Unset = Unset
CHECK_DEADLOCK FALSE
PROPERTY CarriesItsOwnBaseline
