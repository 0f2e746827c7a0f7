\* One queue; one client calls, others change the store; one request is late;
\* one of two messages has a blank.
CONSTANTS
    Queues = {"q"}
    Msgs = {"a", "b"}
    Blank = {"b"}
    MaxLog = 5
    MaxLate = 1
SPECIFICATION FairSpec
INVARIANTS TypeOK LogRestores ReplayIsIdempotent IdsNotReused RequestsBounded
PROPERTIES SuccessIsReal CallsReturn
CHECK_DEADLOCK FALSE
