\* Two queues, one with two messages, one with an id that is in both, and GET_MSG
\* and DELETE_MSG requests for any of them at any time.
CONSTANTS
    Queues = {1, 2}
    MsgIds = {1, 2}
    Timeout = 1
    Gettable <- ThreeMessages
    Deletable <- ThreeMessages
    MaxChain = 3
SPECIFICATION FairSpec
INVARIANTS TypeOK LockedHasEvent 
 
