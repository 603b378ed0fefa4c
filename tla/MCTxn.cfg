\* Visibility, undo, collection and the commit history.
CONSTANTS
    s1 = s1  s2 = s2
    r1 = r1  r2 = r2
    None = None
    Session = {s1, s2}
    Rid = {r1, r2}
    SlotCount = 2
    FirstTxnId = 3
    MaxTxnId = 7
    Configs <- MCConfigs
SPECIFICATION Spec
CONSTRAINT NotOverwritten
INVARIANTS TypeOK CommittedRowsKept HistoryComplete
PROPERTIES SnapshotIsolation FirstUpdaterWins UndoOwnVersions
CHECK_DEADLOCK FALSE
