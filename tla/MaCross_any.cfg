SPECIFICATION Spec
CONSTANTS
    NaN = NaN
    Unit = 2
    Strategies = {"MaCross", "MaCrossO"}
    Slow = 2
    Fast = 1
    Prices = {1, 2, 3}
    LastDay = 5
    LastTime = 2
    EarliestDecisionMoment = 1
INVARIANT OneBarADay
PROPERTY OrdersAreCrossings
\* the last day ends the instance
CHECK_DEADLOCK FALSE
