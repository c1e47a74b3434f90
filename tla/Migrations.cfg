\* Two processes and four files, of which one may be run twice; two faults.
CONSTANTS
    Procs = {p1, p2}
    N = 4
    Strict = {1, 2, 4}
    SaysWhy = TRUE
    MaxFaults = 2
SPECIFICATION MigrationSpec
INVARIANTS ServingMeansMigrated
PROPERTIES LoneStartSucceeds
