\* Two operator processes (leader election is off by default), which may crash.
CONSTANTS
    w1 = w1
    w2 = w2
    d1 = d1
    d2 = d2
    Garbage = Garbage
    NaN = NaN
    Half = 256
    Operators = {o1, o2}
    Workloads = {w1}
    Deployments = {d1}
    Specs <- OneSpec
    Answers <- High
    Counts = {0, 2}
    MaxGeneration = 1
    Disturbances = {"restart"}
    Absent = Absent
    Unreachable = Unreachable
    Hung = Hung
SPECIFICATION Spec
SYMMETRY SameOperators
PROPERTIES ImplementsScaler RestIsSilent

