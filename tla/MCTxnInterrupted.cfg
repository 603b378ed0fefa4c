\* The WAL fails in the middle of a statement rollback.
CONSTANTS
    s1 = s1  s2 = s2
    r1 = r1  r2 = r2
    None = None
    Session = {s1, s2}
    Rid = {r1, r2}
    SlotCount = 2
    FirstTxnId = 3
    MaxTxnId = 8
    Configs <- Failing
SPECIFICATION Spec
PROPERTY RollbackIdempotent
CHECK_DEADLOCK FALSE
