\* Two sessions of a user and two requests at once.
CONSTANTS
    s1 = s1
    s2 = s2
    q1 = q1
    q2 = q2
    PageSize = 1
    Kinds = {"airtime", "data", "elect", "bet", "cable", "bank", "swap", "deposit", "withdraw", "favorite"}
    Sessions = {s1, s2}
    Requests = {q1, q2}
    Lists = {1, 2}
    Plans = 2
    Buckets <- MCBuckets
    Unpriced = {2}
    Idents = {11, 12}
    Amounts = {21}
    MaxText = 6
    Budget = 2
SYMMETRY MCSymmetry
SPECIFICATION Spec
INVARIANTS BoughtAsWished BoughtOnce ValidPickIsTaken SavedBankIsMirrored
CHECK_DEADLOCK FALSE
