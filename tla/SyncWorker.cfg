\* Two nodes recover and join, three locks within ten seconds, two operations.
CONSTANTS
    Ids = {"A", "B"}
    Expirers = {"e1", "e2"}
    MaxLines = 2
    MaxLocks = 2
    MaxDebt = 1
SPECIFICATION FairSpec
INVARIANTS TypeOK LinesKept
PROPERTIES PauseHolds LinesReachFile EventLoopReturns
