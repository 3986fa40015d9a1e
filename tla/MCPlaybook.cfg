\* Runs of the playbook with failing hosts, reboots and nodes provisioned anew.
CONSTANTS
    node1 = node1
    node2 = node2
    Nodes = {node1, node2}
    Controller = node1
    Accidents = {"failure", "reboot", "rebuild", "replace", "wipe", "elsewhere"}
    MaxRuns = 3
    MaxFailures = 2
    MaxMoves = 2
SPECIFICATION Spec
INVARIANTS TypeOK OneKey OneConfiguration SurvivesReboot RunProvisions
PROPERTIES RerunKeepsKey RerunChangesNothing
\* Nothing happens after the last run.
CHECK_DEADLOCK FALSE
