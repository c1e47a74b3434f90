\* Two sessions of a user and two requests at once; two flows, two orders, one
\* repeated request, token picked anew or failed Redis call.
CONSTANTS
    s1 = s1
    s2 = s2
    q1 = q1
    q2 = q2
    Sessions = {s1, s2}
    Requests = {q1, q2}
    MaxFlows = 2
    MaxPicks = 2
    MaxOrders = 2
    MaxTrouble = 1
SYMMETRY MCSymmetry
SPECIFICATION RampSpec
INVARIANTS RampTypeOK OrderIsWhole OrderIsOwn OneOrderPerFlow
CHECK_DEADLOCK FALSE
