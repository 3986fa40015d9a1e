\* Help of --continuous: runs until ctrl-C.
CONSTANTS
    Concurrencies = {1}
    Turns = 2
    Responses <- GoodResponse
    Refused = Refused
    Hung = Hung
    Faults = {"interrupt"}
    MaxSessions = 2
    MaxInjects = 1
    Stages <- OneStage
SPECIFICATION RampSpec
INVARIANTS InterruptedRunReports
\* The program ends.
CHECK_DEADLOCK FALSE
