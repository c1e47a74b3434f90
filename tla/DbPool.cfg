\* Two requests, a swap (2 clients deep) or a webhook each, a ledger task and
\* one call that hangs: 2 * (2 - 1) + 1 < 4.
CONSTANTS
    Conns = {c1, c2, c3, c4}
    Handlers = {h1, h2}
    Tasks = {t1}
    Programs <- SwapsAndWebhooks
    Depth = 2
    MaxHung = 1
    Free = Free
SPECIFICATION FairSpec
INVARIANTS PoolTypeOK NeverStuck
PROPERTIES EveryoneAnswered
