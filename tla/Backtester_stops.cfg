\* Two trades with stop losses and take profits, no stop orders.
SPECIFICATION Spec
CONSTANTS
  Clean = Clean
  MaxPrice = 3
  MaxShares = 1
  MaxTrades = 2
  MaxOrders = 0
  MaxOpened = 2
  Sides = {TRUE}
  Times = {1}
  TakeProfits = {0, 3}
  OpsInTrades = {"stop", "drop"}
  OpsInOrders = {"close"}
  OpsElsewhere = {"open", "close", "move"}
INVARIANTS
  CashBalanced
  StopsHonoured
PROPERTIES
  ImplementsAccount
