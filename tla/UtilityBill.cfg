\* Two bills, two signatures, one fault (a failed write or a crash).
CONSTANTS
    Refs = {b1, b2}
    Causes = {"PENDING", "ONCHAIN_SUBMITTED", "COMPLETED", "FAILED"}
    Sigs = {s1, s2}
    NoSig = NoSig
    MaxFaults = 1
SPECIFICATION FairSpec
INVARIANTS BillTypeOK CompletedIsTaken TakenIsTraceable ConfirmedLedgerHasSignature PaidBillIsSettled
PROPERTIES ImplementsMirror OutcomeReachesLedger
CHECK_DEADLOCK FALSE
