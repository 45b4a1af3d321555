SPECIFICATION Spec
CONSTANTS
    Trades = {t1, t2, t3, t4}
    Data = {d1, d2}
    Nothing = Nothing
    invalid_tid = invalid_tid
    Capacities = {0, 1, 2, 3}
INVARIANTS DataFollowsTrade
