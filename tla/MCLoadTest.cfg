\* The load generator on its own, in both modes, with and without the injector,
\* and as the child of a ramp; requests fail and hang, the user presses ctrl-C.
CONSTANTS
    Concurrencies = {1, 2}
    Turns = 2
    Responses <- AnyResponse
    Refused = Refused
    Hung = Hung
    Faults = {"inject", "interrupt"}
    MaxSessions = 5
    MaxInjects = 2
    Stages <- OneThenTwo
SPECIFICATION RampSpec
INVARIANTS TypeOK SteadyLoad CompleteReport
PROPERTIES EachResultOnce WindsDown ImplementsPool InterruptEndsRun RampEnds ImplementsPlan
\* The program ends.
CHECK_DEADLOCK FALSE
