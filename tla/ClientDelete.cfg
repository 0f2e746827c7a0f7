\* A message is deleted next to another one; the first answer does not come.
CONSTANTS
    Queues = {"q"}
    Msgs = {"a"}
    Blank = {}
    MaxLog = 5
    MaxLate = 1
SPECIFICATION Spec
PROPERTY DeletesOnlyNamed
CHECK_DEADLOCK FALSE
