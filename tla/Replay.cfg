\* Two requests with two matches each compete for one slot; one of them may
\* replay the log of the other, and one write or the server may fail.
SPECIFICATION FairSpec
CONSTANTS
    Requests = {r1, r2}
    Originals = {o1}
    Recorded = {"queued", "failed"}
    MaxMatches = 2
    Limit = 1
    MaxFaults = 1
INVARIANTS
    SlotsAreReplays
    DoneMeansSettled
    ReplaySuccessIsSent
    OriginalKept
PROPERTIES
    AcceptedEnds
CHECK_DEADLOCK FALSE
