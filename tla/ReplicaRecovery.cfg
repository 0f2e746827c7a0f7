\* Three nodes, one serves clients.  A node goes down between two messages and
\* starts when the master has dropped it.
CONSTANTS
    Nodes = {"A", "B", "C"}
    Queues = {"q"}
    Msgs = {"a"}
    Host <- HostOf
    Port <- PortOf
    Team <- TeamABC
    Prelude <- Nothing
    Writers = {"A"}
    Timeouts = FALSE
    Hangs = FALSE
    PromptRestart = FALSE
    CrashIn = {"idle"}
    MaxOps = 4
    MaxCrash = 1
    MaxExpire = 0
SPECIFICATION FairSpec
INVARIANTS BackupsAgree BackupsTrail
PROPERTY StartersJoin
CHECK_DEADLOCK FALSE
