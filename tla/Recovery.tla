------------------------------ MODULE Recovery ------------------------------
(***************************************************************************)
(* Write-ahead logging, page flushing, checkpoints, crashes and restarts:  *)
(* WalManager (recovery/wal.cpp), the heap pages it protects               *)
(* (storage/heap_file.cpp), the transaction status log and the control     *)
(* file of Database.                                                       *)
(*                                                                         *)
(* A page is its LSN and its sequence of slots.  mem is the buffer pool,   *)
(* disk what a crash leaves.  log is wal.log followed by the WAL buffer,   *)
(* of which the first synced records are on stable storage.  The WAL latch *)
(* makes every write_record one step; the heap latch is the variable       *)
(* latch.  Row locks exclude nobody (their mode is compatible with itself) *)
(* and are left out; isolation is TxnManager's subject.                    *)
(***************************************************************************)
EXTENDS Naturals, Sequences, SequencesExt

CONSTANTS Session,        \* threads that run transactions
          Page,           \* heap pages of one table
          InitialRows,    \* committed rows on every page at the start
          MaxSlots,       \* bound: line pointers per page
          MaxTxn,         \* bound: transaction and commit ids given out
          MaxRows,        \* bound: undo records of a transaction before its last statement
          Configs,        \* the workloads; a behavior runs one of them
          None

\* A workload: the sessions that run, the kinds of statements they run, what
\* else happens, and bounds on the log records ever written and on the crashes
\* (no transaction begins after the last)
Config == [sessions : SUBSET Session,
           statements : SUBSET {"insert", "delete", "update", "fail", "rollback"},
           events : SUBSET {"fsync", "torn", "eviction", "checkpoint"},
           max_lsn : Nat, max_crashes : Nat]

ASSUME ConstantsAssumption ==
    /\ {InitialRows, MaxSlots, MaxTxn, MaxRows} \subseteq Nat
    /\ \A c \in Configs : /\ c.sessions \subseteq Session
                          /\ {c.max_lsn, c.max_crashes} \subseteq Nat
    /\ None \notin Session

VARIABLES config,    \* the workload
          mem,       \* pages in the buffer pool
          disk,      \* pages on disk
          log,       \* wal.log and the WAL buffer
          synced,    \* how many of its records an fsync has covered
          wal,       \* next_lsn_ and durable_lsn_
          status,    \* TxnStatusLog
          control,   \* minidb.control: next_txn_id and checkpoint_lsn
          nextTxn,   \* next_txn_id_
          sess,      \* the transaction of each session
          latch,     \* owner of the heap latch
          cp,        \* progress of Database::checkpoint
          rec,       \* up, down after a crash, or flush after the replay
          crashes,
          won,       \* ghost: transactions whose commit holds
          eff,       \* ghost: versions each committing transaction adds and removes
          races      \* ghost: the orderings under which the program loses data

walVars == <<log, synced, wal>>
files == <<status, control>>
system == <<nextTxn, cp, rec, crashes>>
ghost == <<won, eff, races>>
vars == <<config, mem, disk, log, synced, wal, status, control, nextTxn, sess, latch, cp, rec,
          crashes, won, eff, races>>

LoaderId == 1
FirstTxnId == 3
TxnId == FirstTxnId .. FirstTxnId + MaxTxn - 1
Slot == 1 .. MaxSlots
Rid == Page \X Slot

-----------------------------------------------------------------------------
(* Pages *)

Unused == [st |-> "unused", xmin |-> 0, xmax |-> 0, next |-> None]
NewTuple(x) == [st |-> "normal", xmin |-> x, xmax |-> 0, next |-> None]

HasSlot(m, r) == r[2] <= Len(m[r[1]].slots)
At(m, r) == m[r[1]].slots[r[2]]
is_valid(m, r) == HasSlot(m, r) /\ At(m, r).st = "normal"
Version(m, r) == <<At(m, r).xmin, r>>

\* set_page_lsn: the LSN of a page only moves forward.
Stamped(m, p, lsn) == IF lsn > m[p].lsn THEN [m EXCEPT ![p].lsn = lsn] ELSE m
Put(m, r, t, lsn) == Stamped([m EXCEPT ![r[1]].slots[r[2]] = t], r[1], lsn)

\* A slot that is not in use, or the next one of the page; never one further on.
insert_tuple_at(m, r, t, lsn) ==
    Stamped([m EXCEPT ![r[1]].slots = IF HasSlot(m, r) THEN [@ EXCEPT ![r[2]] = t]
                                                       ELSE Append(@, t)], r[1], lsn)
Fits(m, r) == ~is_valid(m, r) /\ r[2] <= Len(m[r[1]].slots) + 1

predict_slot(m, p) ==
    LET free == {i \in 1 .. Len(m[p].slots) : m[p].slots[i].st = "unused"} IN
      IF free = {} THEN Len(m[p].slots) + 1 ELSE CHOOSE i \in free : \A j \in free : i <= j

mark_deleted(m, r, x, lsn) ==
    IF is_valid(m, r) THEN Put(m, r, [At(m, r) EXCEPT !.xmax = x], lsn) ELSE m
\* commit_old_tuple, or mark_deleted and set_next_version.
Superseded(m, r, x, n, lsn) ==
    IF is_valid(m, r) THEN Put(m, r, [At(m, r) EXCEPT !.xmax = x, !.next = n], lsn) ELSE m
rollback_insert(m, r, lsn) == IF HasSlot(m, r) THEN Put(m, r, Unused, lsn) ELSE m
rollback_delete(m, r, lsn) ==
    IF is_valid(m, r) THEN Put(m, r, [At(m, r) EXCEPT !.xmax = 0, !.next = None], lsn) ELSE m

-----------------------------------------------------------------------------
(* The log *)

Record(type, x, r, n, lsn) == [type |-> type, txn |-> x, rid |-> r, new |-> n, lsn |-> lsn]
TornRecord == Record("torn", 0, None, None, 0)

\* write_record: append to the buffer under the next LSN.
Write(type, x, r, n) ==
    /\ wal.next <= config.max_lsn
    /\ log' = Append(log, Record(type, x, r, n, wal.next))
    /\ wal' = [wal EXCEPT !.next = @ + 1]

\* flush_buffer and fsync: every record written is durable.
Sync ==
    /\ synced' = Len(log)
    /\ wal' = [wal EXCEPT !.durable = wal.next - 1]

\* What recovery reads of a log: it stops at the first record that is not intact.
Readable(l) ==
    LET torn == {i \in 1 .. Len(l) : l[i].type = "torn"} IN
      IF torn = {} THEN l ELSE SubSeq(l, 1, (CHOOSE i \in torn : \A j \in torn : i <= j) - 1)
Committed(l) == {l[i].txn : i \in {j \in 1 .. Len(l) : l[j].type = "commit"}}

-----------------------------------------------------------------------------
(* Sessions *)

Idle == [pc |-> "idle", id |-> 0, undo |-> <<>>, mark |-> 0, rid |-> None, new |-> None,
         lsn |-> 0, snap |-> {}]

Up == rec = "up"
AtPc(s, pc) == Up /\ sess[s].pc = pc
Active(s) == sess[s].pc \notin {"idle", "published", "pruning", "flipped", "aborting",
                                "logged", "undoing"}
ActiveIds == {sess[s].id : s \in {t \in Session : Active(t)}}
Flipped(s) == sess[s].pc \in {"flipped", "aborting", "logged", "undoing"}

\* TxnStatusLog::status; ids it has never recorded have no entry.
StatusOf(x) == IF x \in TxnId THEN status[x] ELSE "none"

\* is_visible's question about an id: the status log first, then the slots.
is_uncommitted(x) ==
    \/ StatusOf(x) = "aborted"
    \/ StatusOf(x) = "none" /\ \E s \in Session : sess[s].id = x /\ (Active(s) \/ Flipped(s))

CommittedFor(s, x) == x < sess[s].id /\ x \notin sess[s].snap /\ ~is_uncommitted(x)
Sees(s, r) ==
    LET t == At(mem, r) IN
      /\ is_valid(mem, r)
      /\ t.xmin # sess[s].id => CommittedFor(s, t.xmin)
      /\ t.xmax # sess[s].id
      /\ t.xmax # 0 => ~CommittedFor(s, t.xmax)

Goto(s, pc) == sess' = [sess EXCEPT ![s].pc = pc]
Ready(s, kind) == kind \in config.statements /\ Len(sess[s].undo) < MaxRows
Resume(t, undo) == [t EXCEPT !.pc = "active", !.rid = None, !.new = None, !.lsn = 0,
                             !.undo = t.undo \o undo]
Fail(t) == [Resume(t, <<>>) EXCEPT !.pc = "failed"]
UndoRec(del, r, ver) == [del |-> del, rid |-> r, ver |-> ver]

Begin(s) ==
    /\ AtPc(s, "idle") /\ s \in config.sessions /\ crashes < config.max_crashes
    /\ nextTxn \in TxnId
    /\ Write("begin", nextTxn, None, None)
    /\ nextTxn' = nextTxn + 1
    /\ sess' = [sess EXCEPT ![s] = [Idle EXCEPT !.pc = "active", !.id = nextTxn,
                                                !.snap = ActiveIds]]
    /\ races' = IF status[nextTxn] = "none" THEN races ELSE races \cup {"reissued"}
    /\ UNCHANGED <<mem, disk, synced, files, latch, cp, rec, crashes, won, eff>>

\* prepare_insert takes the heap latch and reserves a slot, then log_insert.
InsertLog(s, p) ==
    /\ AtPc(s, "active") /\ Ready(s, "insert") /\ latch = None
    /\ predict_slot(mem, p) \in Slot
    /\ Write("insert", sess[s].id, <<p, predict_slot(mem, p)>>, None)
    /\ latch' = s
    /\ sess' = [sess EXCEPT ![s].pc = "insert", ![s].rid = <<p, predict_slot(mem, p)>>,
                            ![s].lsn = wal.next, ![s].mark = Len(sess[s].undo)]
    /\ UNCHANGED <<mem, disk, synced, files, system, ghost>>

\* InsertReservation::commit, which releases the latch, and record_insert.
InsertApply(s) ==
    /\ AtPc(s, "insert")
    /\ LET t == sess[s] IN
         /\ mem' = insert_tuple_at(mem, t.rid, NewTuple(t.id), t.lsn)
         /\ sess' = [sess EXCEPT ![s] = Resume(t, <<UndoRec(FALSE, t.rid, <<t.id, t.rid>>)>>)]
    /\ latch' = None
    /\ UNCHANGED <<disk, walVars, files, system, ghost>>

\* The scan of a DELETE or UPDATE returns a row.
ScanRow(s, kind, r) ==
    /\ AtPc(s, "active") /\ Ready(s, kind)
    /\ HasSlot(mem, r) /\ Sees(s, r)
    /\ sess' = [sess EXCEPT ![s].pc = kind, ![s].rid = r, ![s].mark = Len(sess[s].undo)]
    /\ UNCHANGED <<mem, disk, walVars, files, latch, system, ghost>>

\* DELETE: log_delete, without the heap latch and without a look at the row.
DeleteLog(s) ==
    /\ AtPc(s, "delete")
    /\ Write("delete", sess[s].id, sess[s].rid, None)
    /\ sess' = [sess EXCEPT ![s].pc = "deleting", ![s].lsn = wal.next]
    /\ UNCHANGED <<mem, disk, synced, files, latch, system, ghost>>

\* mark_deleted_if_current and record_delete, or the compensating record.
DeleteApply(s) ==
    /\ AtPc(s, "deleting") /\ latch = None
    /\ LET t == sess[s] IN
         \/ /\ is_valid(mem, t.rid) /\ At(mem, t.rid).xmax \in {0, t.id}
            /\ mem' = mark_deleted(mem, t.rid, t.id, t.lsn)
            /\ sess' = [sess EXCEPT ![s] = Resume(t, <<UndoRec(TRUE, t.rid, Version(mem, t.rid))>>)]
            /\ UNCHANGED <<log, wal>>
         \/ /\ ~(is_valid(mem, t.rid) /\ At(mem, t.rid).xmax \in {0, t.id})
            /\ Write("undoDelete", t.id, t.rid, None)
            /\ sess' = [sess EXCEPT ![s] = Fail(t)]
            /\ UNCHANGED mem
    /\ UNCHANGED <<disk, synced, files, latch, system, ghost>>

\* UPDATE: read_tuple skips a row that has gone, the recheck of the slot and its
\* xmax under the row lock fails the statement.
UpdateCheck(s) ==
    /\ AtPc(s, "update")
    /\ LET t == sess[s]
           current == is_valid(mem, t.rid) /\ At(mem, t.rid).xmax \in {0, t.id}
       IN \/ current /\ Goto(s, "checked")
          \/ ~current /\ sess' = [sess EXCEPT ![s] = Fail(t)]
          \/ ~is_valid(mem, t.rid) /\ sess' = [sess EXCEPT ![s] = Resume(t, <<>>)]
    /\ UNCHANGED <<mem, disk, walVars, files, latch, system, ghost>>

\* prepare_insert for the new version takes the heap latch, then log_update.
UpdateLog(s, p) ==
    /\ AtPc(s, "checked") /\ latch = None
    /\ predict_slot(mem, p) \in Slot
    /\ Write("update", sess[s].id, sess[s].rid, <<p, predict_slot(mem, p)>>)
    /\ latch' = s
    /\ sess' = [sess EXCEPT ![s].pc = "install", ![s].lsn = wal.next,
                            ![s].new = <<p, predict_slot(mem, p)>>]
    /\ UNCHANGED <<mem, disk, synced, files, system, ghost>>

\* A mutated UpdateInstall whose reservation keeps the heap latch.
UpdateInstallKeepsLatch(s) ==
    /\ AtPc(s, "install")
    /\ mem' = insert_tuple_at(mem, sess[s].new, NewTuple(sess[s].id), sess[s].lsn)
    /\ Goto(s, "mark")
    /\ UNCHANGED <<disk, walVars, files, latch, system, ghost>>

\* InsertReservation::commit for the new version.
UpdateInstall(s) ==
    /\ AtPc(s, "install")
    /\ mem' = insert_tuple_at(mem, sess[s].new, NewTuple(sess[s].id), sess[s].lsn)
    /\ latch' = None
    /\ Goto(s, "mark")
    /\ UNCHANGED <<disk, walVars, files, system, ghost>>

\* commit_old_tuple and the two undo records, if the slot is still in use.
UpdateOld(s) ==
    /\ AtPc(s, "mark") /\ latch = None
    /\ LET t == sess[s] IN
         \/ /\ is_valid(mem, t.rid)
            /\ mem' = Superseded(mem, t.rid, t.id, t.new, t.lsn)
            /\ sess' = [sess EXCEPT ![s] = Resume(t, <<UndoRec(TRUE, t.rid, Version(mem, t.rid)),
                                                       UndoRec(FALSE, t.new, <<t.id, t.new>>)>>)]
            /\ races' = IF At(mem, t.rid).xmax \in {0, t.id} THEN races
                                                             ELSE races \cup {"overwrite"}
         \/ ~is_valid(mem, t.rid) /\ Goto(s, "orphan") /\ UNCHANGED <<mem, races>>
    /\ UNCHANGED <<disk, walVars, files, latch, system, won, eff>>

\* Otherwise the new version is taken out again ...
RemoveOrphan(s) ==
    /\ AtPc(s, "orphan") /\ latch = None
    /\ mem' = rollback_insert(mem, sess[s].new, sess[s].lsn)
    /\ Goto(s, "removed")
    /\ UNCHANGED <<disk, walVars, files, latch, system, ghost>>

\* ... and two compensating records follow, one at a time.
CompensateUpdate(s) ==
    /\ \/ /\ AtPc(s, "removed")
          /\ Write("undoInsert", sess[s].id, sess[s].new, None)
          /\ Goto(s, "halfway")
       \/ /\ AtPc(s, "halfway")
          /\ Write("undoDelete", sess[s].id, sess[s].rid, None)
          /\ sess' = [sess EXCEPT ![s] = Fail(sess[s])]
    /\ UNCHANGED <<mem, disk, synced, files, latch, system, ghost>>

-----------------------------------------------------------------------------
(* Statement rollback, commit, transaction rollback *)

StatementFails(s) ==
    /\ AtPc(s, "active") /\ "fail" \in config.statements
    /\ Len(sess[s].undo) > sess[s].mark
    /\ Goto(s, "failed")
    /\ UNCHANGED <<mem, disk, walVars, files, latch, system, ghost>>

\* rollback_to_savepoint, one record: the compensating record ...
SavepointLog(s) ==
    /\ AtPc(s, "failed")
    /\ IF Len(sess[s].undo) > sess[s].mark
       THEN LET u == Last(sess[s].undo) IN
              /\ Write(IF u.del THEN "undoDelete" ELSE "undoInsert", sess[s].id, u.rid, None)
              /\ sess' = [sess EXCEPT ![s].pc = "compensated", ![s].lsn = wal.next]
       ELSE sess' = [sess EXCEPT ![s].pc = "active", ![s].mark = 0] /\ UNCHANGED <<log, wal>>
    /\ UNCHANGED <<mem, disk, synced, files, latch, system, ghost>>

Undone(u, lsn) ==
    IF u.del THEN rollback_delete(mem, u.rid, lsn) ELSE rollback_insert(mem, u.rid, lsn)

\* ... then the heap, without a new page LSN.
SavepointApply(s) ==
    /\ AtPc(s, "compensated") /\ latch = None
    /\ mem' = Undone(Last(sess[s].undo), 0)
    /\ sess' = [sess EXCEPT ![s].pc = "failed", ![s].undo = Front(@), ![s].lsn = 0]
    /\ UNCHANGED <<disk, walVars, files, latch, system, ghost>>

\* log_commit: the commit record ...
CommitLog(s) ==
    /\ AtPc(s, "active")
    /\ Write("commit", sess[s].id, None, None)
    /\ eff' = [eff EXCEPT ![sess[s].id] =
                 [ins |-> {u.ver : u \in {v \in Range(sess[s].undo) : ~v.del}},
                  del |-> {u.ver : u \in {v \in Range(sess[s].undo) : v.del}}]]
    /\ sess' = [sess EXCEPT ![s].pc = "committing", ![s].lsn = wal.next, ![s].mark = 0]
    /\ UNCHANGED <<mem, disk, synced, files, latch, system, won, races>>

\* ... then flush_commit.
CommitFlush(s) ==
    /\ AtPc(s, "committing")
    /\ Sync
    /\ Goto(s, "durable")
    /\ UNCHANGED <<mem, disk, log, files, latch, system, ghost>>

\* flush_commit fails: the record stays in the log and the transaction is
\* rolled back.
CommitFlushFails(s) ==
    /\ AtPc(s, "committing") /\ "fsync" \in config.events
    /\ sess' = [sess EXCEPT ![s].pc = "flipped", ![s].lsn = 0]
    /\ UNCHANGED <<mem, disk, walVars, files, latch, system, ghost>>

\* The slot becomes kCommitted and takes the next id as its commit id; the ids
\* still active bound the pruning.
Publish(s) ==
    /\ AtPc(s, "durable")
    /\ won' = won \cup {sess[s].id}
    /\ nextTxn' = nextTxn + 1
    /\ sess' = [sess EXCEPT ![s].pc = "published", ![s].snap = ActiveIds \ {sess[s].id}]
    /\ UNCHANGED <<mem, disk, walVars, files, latch, cp, rec, crashes, eff, races>>

RecordCommit(s) ==
    /\ AtPc(s, "published")
    /\ status' = [status EXCEPT ![sess[s].id] = "committed"]
    /\ Goto(s, "pruning")
    /\ UNCHANGED <<mem, disk, walVars, control, latch, system, ghost>>

\* prune_obsolete_version for the next version this transaction deleted: the
\* slot becomes a redirect or free.  No log record.
Prune(s) ==
    /\ AtPc(s, "pruning") /\ latch = None
    /\ IF sess[s].undo = <<>>
       THEN sess' = [sess EXCEPT ![s] = Idle] /\ UNCHANGED mem
       ELSE LET u == Head(sess[s].undo)
                obsolete == /\ u.del /\ \A x \in sess[s].snap : sess[s].id < x
                            /\ is_valid(mem, u.rid) /\ At(mem, u.rid).xmax = sess[s].id
                hot == At(mem, u.rid).next # None /\ At(mem, u.rid).next[1] = u.rid[1]
            IN /\ mem' = IF obsolete
                         THEN Put(mem, u.rid, IF hot THEN [Unused EXCEPT !.st = "redirect"]
                                                     ELSE Unused, sess[s].lsn)
                         ELSE mem
               /\ sess' = [sess EXCEPT ![s].undo = Tail(@)]
    /\ UNCHANGED <<disk, walVars, files, latch, system, ghost>>

\* TransactionManager::rollback: the slot leaves kActive first.
Rollback(s) ==
    /\ AtPc(s, "active") /\ "rollback" \in config.statements
    /\ sess' = [sess EXCEPT ![s].pc = "flipped", ![s].mark = 0]
    /\ UNCHANGED <<mem, disk, walVars, files, latch, system, ghost>>

RecordAbort(s) ==
    /\ AtPc(s, "flipped")
    /\ status' = [status EXCEPT ![sess[s].id] = "aborted"]
    /\ Goto(s, "aborting")
    /\ UNCHANGED <<mem, disk, walVars, control, latch, system, ghost>>

\* log_abort: the record, then, after the latch was free, an fsync that sets
\* durable_lsn_ to this record's LSN.
LogAbort(s) ==
    /\ AtPc(s, "aborting")
    /\ Write("abort", sess[s].id, None, None)
    /\ sess' = [sess EXCEPT ![s].pc = "logged", ![s].lsn = wal.next]
    /\ UNCHANGED <<mem, disk, synced, files, latch, system, ghost>>

AbortSync(s) ==
    /\ AtPc(s, "logged")
    /\ synced' = Len(log)
    /\ wal' = [wal EXCEPT !.durable = sess[s].lsn]
    /\ races' = IF sess[s].lsn < wal.durable THEN races \cup {"regress"} ELSE races
    /\ Goto(s, "undoing")
    /\ UNCHANGED <<mem, disk, log, files, latch, system, won, eff>>

\* log_abort fails, at the record or at the fsync: rollback goes on without.
LogAbortFails(s) ==
    /\ "fsync" \in config.events
    /\ AtPc(s, "aborting") \/ AtPc(s, "logged")
    /\ Goto(s, "undoing")
    /\ UNCHANGED <<mem, disk, walVars, files, latch, system, ghost>>

UndoStep(s) ==
    /\ AtPc(s, "undoing") /\ latch = None
    /\ IF sess[s].undo = <<>>
       THEN sess' = [sess EXCEPT ![s] = Idle] /\ UNCHANGED mem
       ELSE /\ mem' = Undone(Last(sess[s].undo), sess[s].lsn)
            /\ sess' = [sess EXCEPT ![s].undo = Front(@)]
    /\ UNCHANGED <<disk, walVars, files, latch, system, ghost>>

-----------------------------------------------------------------------------
(* Page flushes and checkpoints *)

\* A record is logged, its page has a later LSN, and its change is not yet there.
Behind(p) ==
    \E s \in Session :
       /\ \/ sess[s].pc \in {"insert", "deleting", "mark", "compensated"} /\
             (IF sess[s].pc = "compensated" THEN Last(sess[s].undo).rid ELSE sess[s].rid)[1] = p
          \/ sess[s].pc = "install" /\ p \in {sess[s].rid[1], sess[s].new[1]}
       /\ mem[p].lsn >= sess[s].lsn
Reordered == IF \E p \in Page : disk'[p] # disk[p] /\ Behind(p)
             THEN races \cup {"reordered"} ELSE races

\* A mutated eviction that writes the page before the log.
FlushPageFirst(p) ==
    /\ rec \in {"up", "flush"} /\ "eviction" \in config.events
    /\ disk[p] # mem[p]
    /\ disk' = [disk EXCEPT ![p] = mem[p]]
    /\ races' = Reordered
    /\ UNCHANGED <<mem, walVars, files, sess, latch, system, won, eff>>

\* Eviction or background flush: flush_frame_wal_first, then the write.
FlushPage(p) ==
    /\ rec \in {"up", "flush"} /\ "eviction" \in config.events
    /\ disk[p] # mem[p]
    /\ IF mem[p].lsn > wal.durable THEN Sync ELSE UNCHANGED <<synced, wal>>
    /\ disk' = [disk EXCEPT ![p] = mem[p]]
    /\ races' = Reordered
    /\ UNCHANGED <<mem, log, files, sess, latch, system, won, eff>>

\* Database::checkpoint asks whether a transaction is active ...
CheckpointStart ==
    /\ Up /\ cp.pc = "idle" /\ "checkpoint" \in config.events /\ crashes < config.max_crashes
    /\ cp' = [pc |-> "started", truncate |-> ActiveIds = {}]
    /\ UNCHANGED <<mem, disk, walVars, files, sess, latch, nextTxn, rec, crashes, ghost>>

Unresolved(s) ==
    /\ sess[s].pc \notin {"idle", "published", "pruning"}
    /\ status[sess[s].id] = "none"

\* ... WalManager::checkpoint, under the WAL latch: marker, fsync, page flush,
\* truncation ...
Checkpoint ==
    /\ Up /\ cp.pc = "started"
    /\ wal.next <= config.max_lsn
    /\ wal' = [next |-> wal.next + 1, durable |-> wal.next]
    /\ disk' = mem
    /\ log' = IF cp.truncate THEN <<>>
              ELSE Append(log, Record("checkpoint", 0, None, None, wal.next))
    /\ synced' = Len(log')
    /\ cp' = [cp EXCEPT !.pc = "flushed"]
    /\ races' = Reordered \cup (IF cp.truncate /\ \E s \in Session : Unresolved(s)
                                THEN {"truncated"} ELSE {})
    /\ UNCHANGED <<mem, files, sess, latch, nextTxn, rec, crashes, won, eff>>

\* ... and save_control_file.
SaveControl ==
    /\ Up /\ cp.pc = "flushed"
    /\ control' = [next |-> nextTxn, lsn |-> wal.durable]
    /\ cp' = [pc |-> "idle", truncate |-> FALSE]
    /\ UNCHANGED <<mem, disk, walVars, status, sess, latch, nextTxn, rec, crashes, ghost>>

-----------------------------------------------------------------------------
(* Crash and recovery *)

NoSession == [s \in Session |-> Idle]

\* The process dies.  A prefix of the unsynced records has reached the file,
\* perhaps followed by a part of the next one.
Crash(kept, torn) ==
    /\ crashes < config.max_crashes /\ rec # "down"
    /\ kept \in synced .. Len(log)
    /\ torn => "torn" \in config.events /\ kept < Len(log)
    /\ log' = SubSeq(log, 1, kept) \o (IF torn THEN <<TornRecord>> ELSE <<>>)
    /\ synced' = Len(log')
    /\ mem' = disk
    /\ sess' = NoSession /\ latch' = None
    /\ cp' = [pc |-> "idle", truncate |-> FALSE]
    /\ rec' = "down"
    /\ crashes' = crashes + 1
    /\ races' = races \cup
          (IF cp.pc = "flushed" /\ cp.truncate THEN {"control"} ELSE {}) \cup
          (IF \E i \in 1 .. Len(log') : log'[i].type = "torn" /\
                 \E j \in i + 1 .. Len(log') : log'[j].type # "torn" THEN {"torn"} ELSE {})
    /\ wal' = [next |-> 1, durable |-> 0] /\ nextTxn' = FirstTxnId
    /\ UNCHANGED <<disk, files, won, eff>>

\* The recovery of one record turns a heap h = [pages, races] into the next.
Heap(pages, found) == [pages |-> pages, races |-> found]
Note(h, pages, race, happened) ==
    Heap(pages, IF happened THEN h.races \cup {race} ELSE h.races)
Redone(h, p, l) == h.pages[p].lsn >= l.lsn
ForeignXmax(h, r, l) == is_valid(h.pages, r) /\ At(h.pages, r).xmax \notin {0, l.txn}

\* recover_insert_at: a slot already in use is taken for the record's own, and
\* a slot beyond the next free one is refused.
recover_insert_at(h, r, l) ==
    IF Redone(h, r[1], l) THEN h
    ELSE IF is_valid(h.pages, r)
         THEN Note(h, Stamped(h.pages, r[1], l.lsn), "reused", At(h.pages, r).xmin # l.txn)
    ELSE IF Fits(h.pages, r)
         THEN Heap(insert_tuple_at(h.pages, r, NewTuple(l.txn), l.lsn), h.races)
    ELSE Note(h, h.pages, "gap", TRUE)

redo_delete(h, l) ==
    IF Redone(h, l.rid[1], l) THEN h
    ELSE Note(h, mark_deleted(h.pages, l.rid, l.txn, l.lsn), "overwrite",
              ForeignXmax(h, l.rid, l))

\* A mutated redo that looks at the old page's LSN after it has put the new
\* version on the same page.
redo_update_late(h, l) ==
    LET n == recover_insert_at(h, l.new, l) IN
      IF Redone(n, l.rid[1], l) \/ ~is_valid(n.pages, l.rid) THEN n
      ELSE Heap(Superseded(n.pages, l.rid, l.txn, l.new, l.lsn), n.races)

redo_update(h, l) ==
    LET inserting == ~Redone(h, l.new[1], l) /\ ~is_valid(h.pages, l.new)
        n == recover_insert_at(h, l.new, l)
    IN IF Redone(h, l.rid[1], l) \/ (inserting /\ ~Fits(h.pages, l.new)) THEN n
       ELSE IF is_valid(n.pages, l.rid)
            THEN Note(n, Superseded(n.pages, l.rid, l.txn, l.new, l.lsn), "overwrite",
                      ForeignXmax(n, l.rid, l))
       ELSE IF inserting THEN Heap(rollback_insert(n.pages, l.new, l.lsn), n.races) ELSE n

\* Savepoint compensation is replayed whatever became of the transaction.
redo_compensation(h, l) ==
    IF Redone(h, l.rid[1], l) THEN h
    ELSE IF l.type = "undoInsert" THEN Heap(rollback_insert(h.pages, l.rid, l.lsn), h.races)
    ELSE Note(h, rollback_delete(h.pages, l.rid, l.lsn), "undone", ForeignXmax(h, l.rid, l))

Redo(committed, h, l) ==
    CASE l.type \in {"undoInsert", "undoDelete"}        -> redo_compensation(h, l)
      [] l.type = "insert" /\ l.txn \in committed -> recover_insert_at(h, l.rid, l)
      [] l.type = "delete" /\ l.txn \in committed -> redo_delete(h, l)
      [] l.type = "update" /\ l.txn \in committed -> redo_update(h, l)
      [] OTHER -> h

rollback_insert_if_xmin(m, r, x, lsn) ==
    IF is_valid(m, r) /\ At(m, r).xmin = x THEN rollback_insert(m, r, lsn) ELSE m

\* The undo pass does not look at page LSNs.
UndoOf(committed, h, l) ==
    IF l.txn \in committed \/ l.type \notin {"insert", "delete", "update"} THEN h
    ELSE IF l.type = "insert"
         THEN Heap(rollback_insert_if_xmin(h.pages, l.rid, l.txn, l.lsn), h.races)
    ELSE LET m == rollback_delete(h.pages, l.rid, l.lsn) IN
           Note(h, IF l.type = "delete" THEN m
                   ELSE rollback_insert_if_xmin(m, l.new, l.txn, l.lsn),
                "undone", ForeignXmax(h, l.rid, l))

Maximum(S) == CHOOSE n \in S : \A m \in S : m <= n

\* A mutated restart that trusts the log alone.
RestoredLsnLog(l) == Maximum({0} \cup {l[i].lsn : i \in {j \in {Len(l)} : j > 0}})

\* The LSN counter after the control file and the log have been read.
RestoredLsn(l) == Maximum({control.lsn} \cup {l[i].lsn : i \in {j \in {Len(l)} : j > 0}})

\* The constructor of Database: the control file, then WalManager::recover.
\* One step: nothing else runs, and no page reaches the disk before it ends,
\* because durable_lsn_ is behind the replayed LSNs until then; a crash inside
\* it leaves what a crash before it leaves.
Recover ==
    /\ rec = "down"
    /\ LET l == Readable(log)
           c == Committed(l)
           redo == FoldLeft(LAMBDA h, x : Redo(c, h, x), Heap(disk, races), l)
           undo == FoldRight(LAMBDA x, h : UndoOf(c, h, x), l, redo)
           lsn == RestoredLsn(l)
       IN /\ mem' = undo.pages
          /\ races' = undo.races
          /\ wal' = [next |-> lsn + 1, durable |-> lsn]
          /\ nextTxn' = Maximum({control.next} \cup {l[i].txn + 1 : i \in 1 .. Len(l)})
          /\ won' = won \cup {x \in c : status[x] # "aborted"}
    /\ rec' = "flush"
    /\ UNCHANGED <<disk, log, synced, files, sess, latch, cp, crashes, eff>>

\* Database::flush after recovery; then the database is open.
Open ==
    /\ rec = "flush"
    /\ disk' = mem
    /\ rec' = "up"
    /\ UNCHANGED <<mem, walVars, files, nextTxn, sess, latch, cp, crashes, ghost>>

-----------------------------------------------------------------------------
InitialPage == [lsn |-> 0, slots |-> [i \in 1 .. InitialRows |-> NewTuple(LoaderId)]]

Init ==
    /\ config \in Configs
    /\ mem = [p \in Page |-> InitialPage] /\ disk = mem
    /\ log = <<>> /\ synced = 0 /\ wal = [next |-> 1, durable |-> 0]
    /\ status = [x \in TxnId |-> "none"]
    /\ control = [next |-> FirstTxnId, lsn |-> 0]
    /\ nextTxn = FirstTxnId
    /\ sess = NoSession /\ latch = None
    /\ cp = [pc |-> "idle", truncate |-> FALSE]
    /\ rec = "up"
    /\ crashes = 0
    /\ won = {} /\ eff = [x \in TxnId |-> [ins |-> {}, del |-> {}]] /\ races = {}

Step(s) ==
    /\ Up
    /\ \/ Begin(s)
       \/ \E p \in Page : InsertLog(s, p)
       \/ \E kind \in {"delete", "update"}, r \in Rid : ScanRow(s, kind, r)
       \/ InsertApply(s) \/ DeleteLog(s) \/ DeleteApply(s)
       \/ UpdateCheck(s) \/ (\E p \in Page : UpdateLog(s, p)) \/ UpdateInstall(s)
       \/ UpdateOld(s) \/ RemoveOrphan(s) \/ CompensateUpdate(s)
       \/ StatementFails(s) \/ SavepointLog(s) \/ SavepointApply(s)
       \/ CommitLog(s) \/ CommitFlush(s) \/ CommitFlushFails(s)
       \/ Publish(s) \/ RecordCommit(s) \/ Prune(s)
       \/ Rollback(s) \/ RecordAbort(s) \/ LogAbort(s) \/ AbortSync(s)
       \/ LogAbortFails(s) \/ UndoStep(s)

Next ==
    /\ \/ \E s \in Session : Step(s)
       \/ \E p \in Page : FlushPage(p)
       \/ CheckpointStart \/ Checkpoint \/ SaveControl
       \/ crashes < config.max_crashes
            /\ \E kept \in synced .. Len(log), torn \in BOOLEAN : Crash(kept, torn)
       \/ Recover \/ Open
    /\ UNCHANGED config

Spec == Init /\ [][Next]_vars

-----------------------------------------------------------------------------
(* Properties *)

Tuple == [st : {"unused", "normal", "redirect"}, xmin : Nat, xmax : Nat,
          next : Rid \cup {None}]
IsPage(pg) ==
    /\ pg.lsn \in 0 .. config.max_lsn
    /\ Len(pg.slots) <= MaxSlots /\ \A i \in 1 .. Len(pg.slots) : pg.slots[i] \in Tuple

\* Types: pages hold at most MaxSlots well-formed slots and LSNs that were
\* given out, counters stay in range, only a running session holds the latch.
TypeOK ==
    /\ \A p \in Page : IsPage(mem[p]) /\ IsPage(disk[p])
    /\ synced \in 0 .. Len(log)
    /\ wal.next \in 1 .. config.max_lsn + 1 /\ wal.durable \in 0 .. config.max_lsn
    /\ latch \in {None} \cup {s \in Session : sess[s].pc \in {"insert", "install"}}
    /\ rec \in {"up", "down", "flush"}
    /\ won \subseteq TxnId

CommittedNow(x) == x \notin ActiveIds /\ ~is_uncommitted(x)
VisibleVersions ==
    {Version(mem, r) : r \in {q \in Rid :
        /\ is_valid(mem, q)
        /\ CommittedNow(At(mem, q).xmin)
        /\ At(mem, q).xmax = 0 \/ ~CommittedNow(At(mem, q).xmax)}}
InitialVersions == {<<LoaderId, <<p, i>>>> : p \in Page, i \in 1 .. InitialRows}
Expected == (InitialVersions \cup UNION {eff[x].ins : x \in won})
                \ UNION {eff[x].del : x \in won}

\* Atomicity and durability: unless one of the listed orderings has happened,
\* what a new transaction sees, before and after any number of crashes, even
\* crashes in the middle of recovery, is the work of exactly the transactions
\* whose commit was durable, and nothing of the others.
Recovered == Up /\ races = {} => VisibleVersions = Expected

\* The same without the proviso, as WAL_RECOVERY_PROTOCOL.md promises it.
CommittedRedone == Up => Expected \subseteq VisibleVersions

\* The races after which LSNs restart too low.
LsnRaces == {"control", "regress", "torn"}

\* Write-ahead: a page on disk never carries the LSN of a record that a crash
\* could still take away, whatever the sessions, evictions, checkpoints and
\* restarts do, unless a restart has lost the LSN counter.
WriteAhead ==
    races \cap LsnRaces = {}
        => \A p \in Page : \A i \in synced + 1 .. Len(log) : log[i].lsn > disk[p].lsn

\* LSNs stay ahead of the pages across truncation, crash and restart, or redo
\* would take new records for old ones.
LsnAhead ==
    races \cap LsnRaces = {} /\ rec # "down"
        => \A p \in Page : mem[p].lsn < wal.next /\ disk[p].lsn < wal.next
=============================================================================
