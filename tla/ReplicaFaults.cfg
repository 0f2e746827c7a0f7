\* Two nodes that serve clients.  Crashes of nodes that have stored an operation
\* and not yet logged it and of the master at any time, two in all, prompt
\* restarts, timeouts, nodes taken for dead, expiry.
CONSTANTS
    Nodes = {"A", "B"}
    Queues = {"q"}
    Msgs = {"a"}
    Host <- HostOf
    Port <- PortOf
    Team <- TeamAB
    Prelude <- OneQueue
    Writers = {"A", "B"}
    Timeouts = TRUE
    Hangs = TRUE
    PromptRestart = TRUE
    CrashIn = {"stored", "master"}
    MaxOps = 2
    MaxCrash = 2
    MaxExpire = 1
SPECIFICATION FairSpec
INVARIANTS TypeOK WaitersServed LogTellsDb
PROPERTIES HistoryGrows RequestsAnswered
CHECK_DEADLOCK FALSE
