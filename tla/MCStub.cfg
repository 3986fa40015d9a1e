\* Three clients, one of them perhaps the operator, set and read the metrics.
CONSTANTS
    c1 = c1
    c2 = c2
    c3 = c3
    Clients <- ThreeClients
    Usages = {450, 900}
    Numbers = {0, 5}
    Garbage = Garbage
    Absent = Absent
    Reading = Reading
SPECIFICATION Spec
INVARIANTS TypeOK SetThenRead
PROPERTIES ImplementsGauges
SYMMETRY SameClients
