\* Two concurrent requests of a phone that starts unregistered, two faults.
CONSTANTS
    Requests = {r1, r2}
    Limit = 2
    Imported = {"k1", "k2"}
    Codes = {"c1"}
    MaxFaults = 2
SPECIFICATION FairSpec
INVARIANTS AnswersHold DiesOnlyByRace
PROPERTIES OldKeyIsKept LimitEnds
