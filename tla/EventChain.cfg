\* Two messages, two durations, that overlap in every way.
CONSTANTS
    Queues = {1}
    MsgIds = {1, 2}
    Times = {1, 3}
    MaxChain = 4
SPECIFICATION Spec
INVARIANT ChainSorted
PROPERTY FiredLeaves
