\* Both sides, and a strategy that does in every callback whatever the code lets it.
SPECIFICATION FairSpec
CONSTANTS
  Clean = Clean
  MaxPrice = 3
  MaxShares = 1
  MaxTrades = 2
  MaxOrders = 2
  MaxOpened = 2
  Sides = {TRUE, FALSE}
  Times = {1}
  TakeProfits = {0, 3}
  OpsInTrades = {"close"}
  OpsInOrders = {"close", "drop", "stop"}
  OpsElsewhere = {"stop"}
INVARIANTS
  OpenedListExact

  
