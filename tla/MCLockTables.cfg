\* Three transactions and two tables: upgrades, barging, wait-for cycles.
CONSTANTS
    t1 = t1
    t2 = t2
    t3 = t3
    a = a
    b = b
    Txn = {t1, t2, t3}
    Autocommit = {}
    Table = {a, b}
    Rec = {}
    RecTable = a
    TableOf <- MCTableOf
    None = None
SPECIFICATION Spec
INVARIANTS GrantedCompatible NoMissedGrant NoTableDeadlock
PROPERTY HeldUntilUnlockAll
SYMMETRY Symmetry
CHECK_DEADLOCK FALSE
