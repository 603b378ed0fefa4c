\* Two transactions on a table and a record, each ending once: every lock call
\* returns.  All transactions ending is a legitimate final state.
CONSTANTS
    t1 = t1
    t2 = t2
    x = x
    a = a
    r1 = r1
    r2 = r2
    Txn = {t1, t2}
    Autocommit = {}
    Table = {a}
    Rec = {r1}
    RecTable = a
    TableOf <- MCTableOf
    None = None
SPECIFICATION FairSpec
PROPERTY LockCallReturns
CHECK_DEADLOCK FALSE
