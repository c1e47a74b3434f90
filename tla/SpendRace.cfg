\* Two payments of 2 in one day against a limit of 3, nothing fails: does the
\* daily limit hold?
CONSTANTS
    t = t
    m = m
    u = u
    Payments <- MCPayments
    Kind <- MCKind
    Amount <- MCAmount
    Limit = 3
    MaxDay = 0
    MaxFaults = 0
SPECIFICATION Spec
INVARIANTS DailyLimitHolds
CHECK_DEADLOCK FALSE
