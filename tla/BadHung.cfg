\* README: workloads do not affect each other.
CONSTANTS
    w1 = w1
    w2 = w2
    d1 = d1
    d2 = d2
    Garbage = Garbage
    NaN = NaN
    Half = 256
    Operators = {o1}
    Workloads = {w1, w2}
    Deployments = {d1, d2}
    Specs <- SpecPerTarget
    Answers <- HighOrHung
    Counts = {2}
    MaxGeneration = 1
    Disturbances = {}
    Absent = Absent
    Unreachable = Unreachable
    Hung = Hung
SPECIFICATION FairSpec
PROPERTIES EachWorkloadIsServed
\* A worker whose endpoint never answers has no further step.
CHECK_DEADLOCK FALSE
