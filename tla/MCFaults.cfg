\* One operator; the target, its count and the load change, requests fail, crashes.
CONSTANTS
    w1 = w1
    w2 = w2
    d1 = d1
    d2 = d2
    Garbage = Garbage
    NaN = NaN
    Half = 256
    Operators = {o1}
    Workloads = {w1}
    Deployments = {d1}
    Specs <- TwoSpecs
    Answers <- Extreme
    Counts = {0, 4}
    MaxGeneration = 1
    Disturbances = {"scale", "target", "touch", "fault", "restart", "load"}
    Absent = Absent
    Unreachable = Unreachable
    Hung = Hung
SPECIFICATION Spec
INVARIANTS PollsOnce
PROPERTIES MovesWithinBounds ScalesFromStoredCount UpdatesApproachRest
