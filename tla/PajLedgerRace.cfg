\* One onramp order, one webhook, Postgres up and no crash: is the outcome
\* always recorded in the ledger?
CONSTANTS
    Refs = {on}
    Offramps = {}
    Deliveries = {d1}
    Causes = {"insert", d1}
    Sigs = {}
    NoSig = NoSig
    MaxFaults = 0
SPECIFICATION FairSpec
PROPERTIES LedgerIsRaceSafe
CHECK_DEADLOCK FALSE
