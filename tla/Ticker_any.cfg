\* Ticks or bars, backtesting or live, two timeframes and a time filter on one.
SPECIFICATION Spec
CONSTANTS
  Day = 4
  History = 2
  Filtered = {2}
  From = 1
  Till = 3
  Periods = {2, 4}
  Base = 2
  MaxTime = 7
  MaxPrice = 2
  MaxData = 4
  Feeds = {"tick", "bar"}
  StaleKinds = {"tick", "bar", "notify"}
INVARIANTS
  BarsAreGroups
  StoredIsCurrent
  OpenThenClose
  FaultsExplained
PROPERTIES
  CallbacksInOrder
  OpenedTogether
