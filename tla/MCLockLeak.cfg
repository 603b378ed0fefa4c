\* Does unlock_all release every lock of its transaction?
CONSTANTS
    t1 = t1
    t2 = t2
    x = x
    a = a
    r1 = r1
    r2 = r2
    Txn = {t1, t2}
    Autocommit = {}
    Table = {a}
    Rec = {r1}
    RecTable = a
    TableOf <- MCTableOf
    None = None
SPECIFICATION Spec
INVARIANT UnlockAllReleasesEverything
CHECK_DEADLOCK FALSE
