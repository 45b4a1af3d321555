\* Short trades: the fill the executor was asked for fails the trade.
SPECIFICATION Spec
CONSTANTS
  MaxShares = 2
  Sides = {FALSE}
PROPERTIES
  GoodFillsAccepted
