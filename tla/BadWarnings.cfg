\* README: one Warning per outage.
CONSTANTS
    w1 = w1
    w2 = w2
    d1 = d1
    d2 = d2
    Garbage = Garbage
    NaN = NaN
    Half = 256
    Operators = {o1}
    Workloads = {w1}
    Deployments = {d1}
    Specs <- OneSpec
    Answers <- TooHigh
    Counts = {2}
    MaxGeneration = 1
    Disturbances = {}
    Absent = Absent
    Unreachable = Unreachable
    Hung = Hung
SPECIFICATION HistorySpec
PROPERTIES OneWarningPerOutage
