\* A transfer of 2, a merchant payment of 1 and a bill of 2 against a limit of
\* 3; one midnight and one fault.
CONSTANTS
    t = t
    m = m
    u = u
    Payments <- MCPayments
    Kind <- MCKind
    Amount <- MCAmount
    Limit = 3
    MaxDay = 1
    MaxFaults = 1
SPECIFICATION Spec
INVARIANTS OverspendExplained NotCountedTwice
CHECK_DEADLOCK FALSE
