\* Two stop orders, placed and removed also from inside the loops.
SPECIFICATION Spec
CONSTANTS
  Clean = Clean
  MaxPrice = 3
  MaxShares = 1
  MaxTrades = 2
  MaxOrders = 2
  MaxOpened = 1
  Sides = {TRUE}
  Times = {1, 2}
  TakeProfits = {0}
  OpsInTrades = {"stop", "drop"}
  OpsInOrders = {"close"}
  OpsElsewhere = {"stop", "drop"}
INVARIANTS
  OrdersAccounted
  
PROPERTIES
  PessimisticFills
