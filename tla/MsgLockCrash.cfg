\* The timer thread reads head without the mutex, or without a test.
CONSTANTS
    Queues = {1}
    MsgIds = {1, 2}
    Timeout = 1
    Gettable <- AllMessages
    Deletable <- AllMessages
    MaxChain = 2
SPECIFICATION Spec
INVARIANT TimerSurvives
