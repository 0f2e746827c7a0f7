\* One node that comes and goes, with three entries: entries of one node compare
\* equal, those of different nodes never meet.
CONSTANTS
    Nodes = {"A"}
    Cycle = 1
    Timeout = 2
    Misses = 2
    MaxJoins = 3
SPECIFICATION FairSpec
INVARIANTS TypeOK SteadyNodesAlive SilentNodesDead ClientsWatched
PROPERTIES DeadNodesDropped ThreadsEnd
