\* Two transfers and a pool of 4, one client short of enough; no call hangs.
CONSTANTS
    Conns = {c1, c2, c3, c4}
    Handlers = {h1, h2}
    Tasks = {t1}
    Programs <- Transfers
    Depth = 3
    MaxHung = 0
    Free = Free
SPECIFICATION FairSpec
PROPERTIES EveryoneAnswered
CHECK_DEADLOCK FALSE
