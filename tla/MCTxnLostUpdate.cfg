\* Two updates of one row pass the recheck before either writes.
CONSTANTS
    s1 = s1  s2 = s2
    r1 = r1  r2 = r2  r3 = r3
    None = None
    Session = {s1, s2}
    Rid = {r1, r2, r3}
    SlotCount = 2
    FirstTxnId = 3
    MaxTxnId = 8
    Configs <- Updating
SPECIFICATION Spec
PROPERTY NoLostUpdate
CHECK_DEADLOCK FALSE
