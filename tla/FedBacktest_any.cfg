\* Up to two tickers, one of bars and one of ticks, two days; any file.
SPECIFICATION Spec
CONSTANTS
  MaxTickers = 2
  BarTickers = {1}
  Times = {0, 2, 4, 6, 8}
  MaxRows = 4
  Never = 23
  Year = 12
  Sources = {"multi", "single", "memory"}
  Endings = {"eof", "broken", "absent"}
  Day = 6
  CallTimes = {1, 3}
  Required = {0, 1}
INVARIANTS
  FedInOrder
  EndsAsTheFilesSay
  BestIsNext
  NoDayMissed
  CallsKeepTheDay
