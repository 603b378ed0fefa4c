----------------------------- MODULE MCRecovery -----------------------------
(***************************************************************************)
(* Recovery for TLC: one page, two sessions at most.                       *)
(***************************************************************************)
EXTENDS Recovery, TLC

CONSTANTS s1, s2, p1

Workload(sessions, statements, events, lsn, crash) ==
    [sessions |-> sessions, statements |-> statements, events |-> events,
     max_lsn |-> lsn, max_crashes |-> crash]

\* Two sessions that write the same row; two that insert and roll back; two that
\* delete and roll back while log writes may fail; one with checkpoints, torn log
\* tails and two crashes, with statement or transaction rollbacks; one that
\* updates between checkpoints.
MCConfigs ==
    {Workload({s1, s2}, {"delete", "update"}, {"eviction"}, 7, 1),
     Workload({s1, s2}, {"insert", "rollback"}, {"eviction"}, 6, 1),
     Workload({s1, s2}, {"delete", "rollback"}, {"fsync"}, 5, 1),
     Workload({s1}, {"insert", "fail"}, {"eviction", "checkpoint", "torn"}, 5, 2),
     Workload({s1}, {"delete", "rollback"}, {"eviction", "checkpoint", "torn"}, 4, 2),
     Workload({s1}, {"update", "fail", "rollback"}, {"checkpoint"}, 5, 1)}

\* Two sessions that insert, and one crash
Inserting == {Workload({s1, s2}, {"insert"}, {}, 6, 1)}

\* Behaviours in which LSNs have restarted too low are not followed further.
LsnKept == races \cap LsnRaces = {}
=============================================================================
