\* Comment: consistent across reprovisioning.
CONSTANTS
    node1 = node1
    node2 = node2
    Nodes = {node1, node2}
    Controller = node1
    Accidents = {"replace"}
    MaxRuns = 2
    MaxFailures = 2
    MaxMoves = 2
SPECIFICATION Spec
INVARIANTS NamesFollowNodes
\* Nothing happens after the last run.
CHECK_DEADLOCK FALSE
