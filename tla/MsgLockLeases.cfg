\* Two queues, no DELETE_MSG requests: locks are released by the timer only.
CONSTANTS
    Queues = {1, 2}
    MsgIds = {1, 2}
    Timeout = 2
    Gettable <- AllMessages
    Deletable <- Nothing
    MaxChain = 4
SPECIFICATION Spec
INVARIANT TimerSurvives
PROPERTY ImplementsLease
