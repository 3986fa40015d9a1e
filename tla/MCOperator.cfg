\* One operator; specs edited, workloads and targets deleted and created anew,
\* requests that fail, crashes.
CONSTANTS
    w1 = w1
    w2 = w2
    d1 = d1
    d2 = d2
    Garbage = Garbage
    NaN = NaN
    Half = 256
    Operators = {o1}
    Workloads = {w1}
    Deployments = {d1}
    Specs <- TwoSpecs
    Answers <- Swing
    Counts = {2}
    MaxGeneration = 2
    Disturbances = {"edit", "fault", "target", "lifecycle", "restart"}
    Absent = Absent
    Unreachable = Unreachable
    Hung = Hung
SPECIFICATION FairSpec
INVARIANTS TypeOK CopiesAgree PollingNeverStops
PROPERTIES StatusVouchesForSpec NoSilentTransition StatusSettles CountSettles
