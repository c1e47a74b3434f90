\* Two concurrent requests, a lock after two wrong guesses, one failed call.
CONSTANTS
    Requests = {r1, r2}
    Max = 2
    MaxFaults = 1
SPECIFICATION FairSpec
INVARIANTS GuessBound LockoutIsEffective LimitAlwaysLocks CounterHasDeadline
PROPERTIES LockoutEnds
