\* Crashes, restarts and failing log writes.
CONSTANTS
    s1 = s1
    s2 = s2
    Session = {s1, s2}
    p1 = p1
    Page = {p1}
    InitialRows = 1
    MaxSlots = 3
    MaxTxn = 3
    MaxRows = 1
    Configs <- MCConfigs
    None = None
SPECIFICATION Spec
CHECK_DEADLOCK FALSE
CONSTRAINT LsnKept
INVARIANTS TypeOK Recovered WriteAhead LsnAhead
