\* Two transactions and an executor outside a transaction, one table with two
\* records: record locks, unlock_table, unlock_record, the loop of unlock_all.
CONSTANTS
    t1 = t1
    t2 = t2
    x = x
    a = a
    r1 = r1
    r2 = r2
    Txn = {t1, t2, x}
    Autocommit = {x}
    Table = {a}
    Rec = {r1, r2}
    RecTable = a
    TableOf <- MCTableOf
    None = None
SPECIFICATION Spec
INVARIANTS TypeOK OneRequestPerTxn WaitingRequestHasWaiter
SYMMETRY Symmetry
