\* A backup goes down between two messages and starts at once.
CONSTANTS
    Nodes = {"A", "B"}
    Queues = {"q"}
    Msgs = {"a"}
    Host <- HostOf
    Port <- PortOf
    Team <- TeamAB
    Prelude <- Nothing
    Writers = {"A"}
    Timeouts = FALSE
    Hangs = FALSE
    PromptRestart = TRUE
    CrashIn = {"idle"}
    MaxOps = 2
    MaxCrash = 1
    MaxExpire = 0
SPECIFICATION Spec
INVARIANT BackupsAgree
CHECK_DEADLOCK FALSE
