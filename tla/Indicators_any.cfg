SPECIFICATION Spec
CONSTANTS
    NaN = NaN
    Unit <- MCUnit
    Requests <- MCRequests
    Values = {1, 2, 3}
    MaxBars = 4
    MaxLower = 2
    Slacks = {0, 2}
INVARIANTS ValuesAreRight
\* a rejected request, and the last bar, end the instance
CHECK_DEADLOCK FALSE
