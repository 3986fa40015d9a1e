\* Two workloads share one worker, and perhaps a Deployment; requests fail.
CONSTANTS
    w1 = w1
    w2 = w2
    d1 = d1
    d2 = d2
    Garbage = Garbage
    NaN = NaN
    Half = 256
    Operators = {o1}
    Workloads = {w1, w2}
    Deployments = {d1, d2}
    Specs <- SpecPerTarget
    Answers <- High
    Counts = {2}
    MaxGeneration = 1
    Disturbances = {"fault"}
    Absent = Absent
    Unreachable = Unreachable
    Hung = Hung
SPECIFICATION FairSpec
PROPERTIES StatusSettles CountSettles
