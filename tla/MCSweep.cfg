\* The scripts that report round by round; requests fail, fall silent, are interrupted.
CONSTANTS
    Programs <- Scripts
    Faults = {"garbled", "silent", "interrupt"}
    MaxChunks = 2
    MaxUnread = 1
    MaxTime = 1
SPECIFICATION Spec
INVARIANTS TypeOK TrueReport QuietBetween
PROPERTIES NoFurtherRequest ImplementsPlan EndsUnlessSilent
\* The programs end.
CHECK_DEADLOCK FALSE
