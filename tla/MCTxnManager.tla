---------------------------- MODULE MCTxnManager ----------------------------
(***************************************************************************)
(* Instances of TxnManager for TLC: two sessions on a page of two slots.   *)
(***************************************************************************)
EXTENDS TxnManager, TLC

CONSTANTS s1, s2, r1, r2

Workload(ser, rows, stmts, collect, fails) ==
    [serializable |-> ser, rows |-> rows, stmts |-> stmts, collect |-> collect,
     wal_fails |-> fails]

\* Session s1 and its statements beside session s2 and its own
Beside(mine, theirs, rows, collect, fails) ==
    Workload({}, rows, [s \in Session |-> IF s = s1 THEN mine ELSE theirs], collect, fails)

\* Two serializable sessions that read and delete
Serialized(rows) == Workload(Session, rows, [s \in Session |-> {"delete"}], {}, FALSE)

\* Deletes and inserts beside GC, updates beside VACUUM, updates and deletes
\* of one row, with WAL writes that fail; and a row that two serializable
\* transactions read and delete.
MCConfigs == {Beside({"delete"}, {"insert"}, {r1}, {"gc"}, TRUE),
              Beside({"update"}, {}, {r1}, {"vacuum"}, FALSE),
              Beside({"update"}, {"delete"}, {r1}, {}, TRUE),
              Serialized({r1})}

Inserting == {Beside({"insert"}, {"delete"}, {r1}, {}, FALSE)}
Deleting  == {Beside({"delete"}, {}, {r1}, {}, FALSE)}
Updating  == {Beside({"update"}, {"update"}, {r1}, {}, FALSE)}
Failing   == {Beside({"insert"}, {"insert"}, {}, {}, TRUE)}
Skewed    == {Serialized({r1, r2})}

\* After an xmax is overwritten little is claimed, and undo logs grow for ever.
NotOverwritten == "overwrite" \notin races

=============================================================================
