\* One offramp and one onramp order, two webhooks of each kind, one fault.
CONSTANTS
    Refs = {off, on}
    Offramps = {off}
    Deliveries = {d1, d2}
    Causes = {"insert", d1, d2}
    Sigs = {}
    NoSig = NoSig
    MaxFaults = 1
SPECIFICATION FairSpec
INVARIANTS PajTypeOK LedgerAgrees OutcomeOnItsWay NoticesMatchOrder DepositHasOrder
PROPERTIES ImplementsMirror OutcomeReachesLedger
CHECK_DEADLOCK FALSE
