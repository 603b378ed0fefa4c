----------------------------- MODULE TxnManager -----------------------------
(***************************************************************************)
(* Transactions and multi-version visibility: TransactionManager and       *)
(* TxnStatusLog (src/transaction), the xmin/xmax operations of HeapFile on *)
(* the tuple versions of one heap page, the row steps of the DELETE and    *)
(* UPDATE executors, and the garbage collector (src/recovery/gc.cpp).      *)
(*                                                                         *)
(* A session is a server thread; it runs one transaction at a time.  One   *)
(* step is one critical section: under TransactionManager::latch_, under   *)
(* TxnStatusLog::latch_, or under HeapFile::latch_.  A scan copies a tuple *)
(* without a latch, which is a step of its own (a torn copy is left out).  *)
(* Commit, rollback and is_visible are split exactly where the code leaves *)
(* one of these latches.  The lock manager is left out: every row lock is  *)
(* taken in kRowExclusive, which is compatible with itself, so row locks   *)
(* never delay a row operation (see the module LockManager).               *)
(*                                                                         *)
(* Ghost state (never read by the program): db, base, commits, races, and  *)
(* the fields ver and seen.  A version is named by its creator and slot.   *)
(* races remembers which of the races listed at Race has happened.         *)
(***************************************************************************)
EXTENDS Integers, Sequences, FiniteSets

CONSTANTS
    Session,       \* server threads
    Rid,           \* the line pointers of the heap page
    SlotCount,     \* config max_active_transactions
    FirstTxnId,    \* next_txn_id_ when the run starts
    MaxTxnId,      \* bound on next_txn_id_
    Configs,       \* the workloads; a behavior runs one of them
    None           \* no slot

kInvalidTxnId == 0
kFrozenTxnId  == 2
LoaderId      == 1      \* the transaction that wrote the initial rows

\* A workload: the sessions at IsolationLevel::kSerializable, the slots that
\* hold a committed row at the start, the statements of each session, the
\* collectors that run, whether a WAL write may fail
Config == [serializable : SUBSET Session, rows : SUBSET Rid,
           stmts : [Session -> SUBSET {"insert", "delete", "update"}],
           collect : SUBSET {"gc", "vacuum"}, wal_fails : BOOLEAN]

ASSUME TxnAssumption ==
    /\ SlotCount \in Nat \ {0}
    /\ FirstTxnId \in Nat /\ FirstTxnId > kFrozenTxnId
    /\ MaxTxnId \in Nat /\ FirstTxnId <= MaxTxnId
    /\ Configs \subseteq Config
    /\ None \notin Rid

TxnId   == 0 .. MaxTxnId
SlotIx  == 1 .. SlotCount
Version == TxnId \X Rid

VARIABLES
    config,     \* the workload
    nextTxnId,  \* next_txn_id_
    slots,      \* txn_slots_
    statusLog,  \* TxnStatusLog::states_
    history,    \* committed_history_
    heap,       \* the heap page
    txn,        \* the transaction of each session and where its thread is
    gc,         \* the collector: the horizon it has read, 0 when it is idle
    db,         \* ghost: the versions that are committed and not deleted
    base,       \* ghost: db at the begin of each session's transaction
    commits,    \* ghost: every transaction published so far
    races       \* ghost: the races that have happened

mgr   == <<nextTxnId, slots, statusLog, history>>
ghost == <<db, base, commits>>
vars  == <<config, mgr, heap, txn, gc, ghost, races>>

-----------------------------------------------------------------------------
(* Types *)

TxnSlot == [id : TxnId, snap : TxnId, state : {"active", "committed", "aborted"}]

Tuple == [st : {"unused", "normal", "redirect"}, xmin : TxnId, xmax : TxnId,
          next : Rid \cup {None}, ver : Version \cup {None}]

Unused == [st |-> "unused", xmin |-> 0, xmax |-> 0, next |-> None, ver |-> None]

UndoRecord == [stmt : {"insert", "delete", "update"}, del : BOOLEAN, rid : Rid,
               ver : Version]

\* A scan: xmin and xmax are about to be asked for in the status log, or, the
\* log having no entry, in the slots.
ScanPc == {"xmin", "xminSlot", "xmax", "xmaxSlot"}

Pc == ScanPc \cup
      {"none", "active", "deleting", "updating", "checked", "installed", "orphan",
       "stmtError", "savepoint", "committing", "published", "pruning",
       "rollback", "flipped", "undoing"}

NoTxn == [pc |-> "none", id |-> 0, snap |-> 0, active |-> {}, reads |-> {},
          undo |-> <<>>, pos |-> 0, mark |-> 0, oldest |-> 0,
          target |-> None, new |-> None, seen |-> None,
          want |-> "none", xmin |-> 0, xmax |-> 0]

Committed == [id : TxnId, snap : TxnId, commit : TxnId, ser : BOOLEAN,
              reads : SUBSET Rid, writes : SUBSET Rid]

\* The orders of events from which the program goes wrong:
\*   recycled     begin takes the slot of an aborted transaction whose abort is
\*                not yet in the status log, or was not when a scan asked there
\*                that has still to look at the slots;
\*   overwrite    commit_old_tuple overwrites the xmax of another transaction;
\*   frozen       VACUUM freezes a version that a running snapshot does not
\*                hold, or a frozen version gets an xmax;
\*   interrupted  the WAL fails in a statement rollback that has undone a part
\*                of the statement, which the full rollback undoes once more.
Race == {"recycled", "overwrite", "frozen", "interrupted"}

Happens(race, cond) == races' = IF cond THEN races \cup {race} ELSE races

\* Types: slots, status log, history, page and sessions hold the values the
\* program can put there; in particular pruning leaves no dead line pointer.
TypeOK ==
    /\ nextTxnId \in TxnId
    /\ slots \in [SlotIx -> TxnSlot]
    /\ statusLog \in [TxnId -> {"none", "committed", "aborted"}]
    /\ history \subseteq [commit : TxnId, id : TxnId, writes : SUBSET Rid]
    /\ heap \in [Rid -> Tuple]
    /\ txn \in [Session ->
                  [pc : Pc, id : TxnId, snap : TxnId, active : SUBSET TxnId,
                   reads : SUBSET Rid, undo : Seq(UndoRecord),
                   pos : Nat, mark : Nat, oldest : TxnId,
                   target : Rid \cup {None}, new : Rid \cup {None},
                   seen : Version \cup {None},
                   want : {"none", "read", "delete", "update"},
                   xmin : TxnId, xmax : TxnId]]
    /\ gc \in [oldest : TxnId, vacuum : BOOLEAN]
    /\ db \subseteq Version
    /\ base \in [Session -> SUBSET Version]
    /\ commits \subseteq Committed
    /\ races \subseteq Race

-----------------------------------------------------------------------------
(* Transaction slots and the status log *)

ActiveSlots == {i \in SlotIx : slots[i].id # kInvalidTxnId /\ slots[i].state = "active"}
ActiveIds   == {slots[i].id : i \in ActiveSlots}

\* The slot that the scan of begin() keeps: the first one that is not active.
IsFreeSlot(i) ==
    /\ i \in SlotIx \ ActiveSlots
    /\ \A j \in SlotIx \ ActiveSlots : i <= j

\* get_oldest_active_txn_id and the loop of commit: the smallest id of an
\* active slot, or the next id to be given out.
IsOldestActive(m, sl, next) ==
    LET ids == {sl[i].id : i \in {j \in SlotIx : /\ sl[j].id # kInvalidTxnId
                                                 /\ sl[j].state = "active"}}
    IN  /\ m \in ids \cup {next}
        /\ \A n \in ids \cup {next} : m <= n

\* get_txn_state finds a slot for x that is not committed.
UncommittedSlot(x) == \E i \in SlotIx : slots[i].id = x /\ slots[i].state # "committed"

is_txn_committed(x) ==
    \/ \E i \in SlotIx : slots[i].id = x /\ slots[i].state = "committed"
    \/ /\ \A i \in SlotIx : slots[i].id # x
       /\ statusLog[x] = "committed"

-----------------------------------------------------------------------------
(* Visibility *)

\* is_visible for the transaction x on the ids x.xmin, x.xmax of the copied
\* tuple.  The ids alone decide unless they precede the snapshot and were not
\* active in it.
AsksXmin(x) == /\ x.xmin \notin {kInvalidTxnId, kFrozenTxnId, x.id}
               /\ x.xmin < x.snap /\ x.xmin \notin x.active

AsksXmax(x) == /\ x.xmax \notin {kInvalidTxnId, x.id}
               /\ x.xmax < x.snap /\ x.xmax \notin x.active

VisibleByIds(x) ==
    \/ x.xmin = kFrozenTxnId /\ x.xmax = kInvalidTxnId
    \/ x.xmin \notin {kInvalidTxnId, kFrozenTxnId} /\ x.xmin = x.id /\ x.xmax # x.id

Normal(r) == heap[r].st = "normal"

-----------------------------------------------------------------------------
(* Begin *)

At(s, pc) == txn[s].pc = pc

Goto(s, pc) == txn' = [txn EXCEPT ![s].pc = pc]

Init ==
    /\ config \in Configs
    /\ nextTxnId = FirstTxnId
    /\ slots = [i \in SlotIx |-> [id |-> 0, snap |-> 0, state |-> "active"]]
    /\ statusLog = [x \in TxnId |->
                      IF x = LoaderId /\ config.rows # {} THEN "committed" ELSE "none"]
    /\ history = {}
    /\ heap = [r \in Rid |->
                 IF r \in config.rows
                 THEN [st |-> "normal", xmin |-> LoaderId, xmax |-> 0,
                       next |-> None, ver |-> <<LoaderId, r>>]
                 ELSE Unused]
    /\ txn = [s \in Session |-> NoTxn]
    /\ gc = [oldest |-> 0, vacuum |-> FALSE]
    /\ db = {<<LoaderId, r>> : r \in config.rows}
    /\ base = [s \in Session |-> {}]
    /\ commits = {}
    /\ races = {}

\* Session q is between the two updates of its abort, or between the two
\* lookups of a transaction by a scan.
StillNeeds(q, x) ==
    \/ At(q, "flipped") /\ txn[q].id = x
    \/ At(q, "xminSlot") /\ txn[q].xmin = x
    \/ At(q, "xmaxSlot") /\ txn[q].xmax = x

\* TransactionManager::begin.  With every slot active it returns nullptr.
Begin(s) ==
    /\ At(s, "none")
    /\ nextTxnId < MaxTxnId
    /\ \E i \in SlotIx :
          /\ IsFreeSlot(i)
          /\ slots' = [slots EXCEPT ![i] =
                         [id |-> nextTxnId, snap |-> nextTxnId + 1, state |-> "active"]]
          /\ Happens("recycled", /\ slots[i].state = "aborted"
                                 /\ \E q \in Session : StillNeeds(q, slots[i].id))
    /\ txn' = [txn EXCEPT ![s] =
                 [NoTxn EXCEPT !.pc = "active", !.id = nextTxnId,
                               !.snap = nextTxnId + 1, !.active = ActiveIds]]
    /\ nextTxnId' = nextTxnId + 1
    /\ base' = [base EXCEPT ![s] = db]
    /\ UNCHANGED <<statusLog, history, heap, gc, db, commits>>

-----------------------------------------------------------------------------
(* What a transaction must see (ghost): the versions committed when it     *)
(* began, with its own changes; the changes past the mark are on their way *)
(* out during a rollback to a savepoint.                                   *)

Changes(s) == IF At(s, "savepoint") THEN 1 .. txn[s].mark ELSE DOMAIN txn[s].undo
Ins(s) == {txn[s].undo[i].ver : i \in {j \in Changes(s) : ~txn[s].undo[j].del}}
Del(s) == {txn[s].undo[i].ver : i \in {j \in Changes(s) : txn[s].undo[j].del}}

Snapshot(s) == (base[s] \cup Ins(s)) \ Del(s)

Running(s) == txn[s].pc \notin {"none", "committing", "published", "pruning",
                               "rollback", "flipped", "undoing"}

-----------------------------------------------------------------------------
(* Row operations of a statement *)

\* A scan copies the tuple in slot r, for a statement that only reads (which
\* matters to a serializable transaction), deletes or updates.
ScanRow(s, r, want) ==
    /\ At(s, "active")
    /\ Normal(r)
    /\ IF want = "read" THEN s \in config.serializable ELSE want \in config.stmts[s]
    /\ txn' = [txn EXCEPT ![s].pc = "xmin", ![s].want = want, ![s].target = r,
                          ![s].xmin = heap[r].xmin, ![s].xmax = heap[r].xmax,
                          ![s].seen = heap[r].ver]
    /\ UNCHANGED <<mgr, heap, gc, ghost, races>>

\* The transaction x of session s after is_visible has returned vis: the scan
\* emits the row, and records the read, or goes on.
Returned(s, x, vis) ==
    LET y == [x EXCEPT !.want = "none", !.xmin = 0, !.xmax = 0, !.seen = None,
                       !.reads = IF vis /\ s \in config.serializable
                                 THEN @ \cup {x.target} ELSE @]
    IN  IF vis /\ x.want # "read"
        THEN [y EXCEPT !.pc = IF x.want = "delete" THEN "deleting" ELSE "updating"]
        ELSE [y EXCEPT !.pc = "active", !.target = None]

\* is_uncommitted has answered unc for xmin, or for xmax.
Answered(s, x, unc) ==
    IF x.pc \in {"xmax", "xmaxSlot"} THEN Returned(s, x, unc)
    ELSE IF ~unc /\ AsksXmax(x) THEN [x EXCEPT !.pc = "xmax"]
    ELSE Returned(s, x, ~unc /\ x.xmax # x.id)

\* A mutated step that takes a transaction without a status entry for finished.
ScanStatusOnly(s) ==
    /\ txn[s].pc \in {"xmin", "xmax"}
    /\ LET x == txn[s]
       IN  txn' = [txn EXCEPT ![s] =
              IF x.pc = "xmin" /\ ~AsksXmin(x) THEN Returned(s, x, VisibleByIds(x))
              ELSE Answered(s, x, statusLog[IF x.pc = "xmin" THEN x.xmin ELSE x.xmax] = "aborted")]
    /\ UNCHANGED <<mgr, heap, gc, ghost, races>>

\* is_visible up to the answer of the status log.
ScanStatus(s) ==
    /\ txn[s].pc \in {"xmin", "xmax"}
    /\ LET x == txn[s]
           status == statusLog[IF x.pc = "xmin" THEN x.xmin ELSE x.xmax]
       IN  txn' = [txn EXCEPT ![s] =
              IF x.pc = "xmin" /\ ~AsksXmin(x) THEN Returned(s, x, VisibleByIds(x))
              ELSE IF status # "none" THEN Answered(s, x, status = "aborted")
              ELSE [x EXCEPT !.pc = IF @ = "xmin" THEN "xminSlot" ELSE "xmaxSlot"]]
    /\ UNCHANGED <<mgr, heap, gc, ghost, races>>

\* The status log had no entry: get_txn_state.
ScanSlot(s) ==
    /\ txn[s].pc \in {"xminSlot", "xmaxSlot"}
    /\ LET x == txn[s]
       IN  txn' = [txn EXCEPT ![s] =
              Answered(s, x, UncommittedSlot(IF x.pc = "xminSlot" THEN x.xmin ELSE x.xmax))]
    /\ UNCHANGED <<mgr, heap, gc, ghost, races>>

NewVersion(s, r) == [st |-> "normal", xmin |-> txn[s].id, xmax |-> 0,
                     next |-> None, ver |-> <<txn[s].id, r>>]

Undo(stmt, del, r, ver) == [stmt |-> stmt, del |-> del, rid |-> r, ver |-> ver]

\* INSERT of one row: prepare_insert .. InsertReservation::commit hold latch_.
Insert(s, r) ==
    /\ At(s, "active") /\ "insert" \in config.stmts[s]
    /\ heap[r].st = "unused"
    /\ heap' = [heap EXCEPT ![r] = NewVersion(s, r)]
    /\ LET v == <<txn[s].id, r>>
       IN  txn' = [txn EXCEPT ![s].undo = Append(@, Undo("insert", FALSE, r, v))]
    /\ UNCHANGED <<mgr, gc, ghost, races>>

\* A DELETE that overwrites whatever xmax it finds (HeapFile::mark_deleted).
DeleteRowUnchecked(s) ==
    /\ At(s, "deleting")
    /\ LET r == txn[s].target IN
         /\ Normal(r)
         /\ heap' = [heap EXCEPT ![r].xmax = txn[s].id]
         /\ Happens("frozen", heap[r].xmin = kFrozenTxnId)
         /\ txn' = [txn EXCEPT ![s].pc = "active", ![s].target = None,
                      ![s].undo = Append(@, Undo("delete", TRUE, r, heap[r].ver))]
    /\ UNCHANGED <<mgr, gc, ghost>>

\* DeleteExecutor::next for one row: mark_deleted_if_current, then the undo.
DeleteRow(s) ==
    /\ At(s, "deleting")
    /\ LET r == txn[s].target IN
         \/ /\ Normal(r) /\ heap[r].xmax \in {kInvalidTxnId, txn[s].id}
            /\ heap' = [heap EXCEPT ![r].xmax = txn[s].id]
            /\ Happens("frozen", heap[r].xmin = kFrozenTxnId)
            /\ txn' = [txn EXCEPT ![s].pc = "active", ![s].target = None,
                         ![s].undo = Append(@, Undo("delete", TRUE, r, heap[r].ver))]
         \/ /\ ~(Normal(r) /\ heap[r].xmax \in {kInvalidTxnId, txn[s].id})
            /\ txn' = [txn EXCEPT ![s].pc = "stmtError", ![s].target = None]
            /\ UNCHANGED <<heap, races>>
    /\ UNCHANGED <<mgr, gc, ghost>>

\* UpdateExecutor::next: read_tuple skips a row that is gone, the recheck of
\* xmax after the row lock fails the statement.
UpdateCheck(s) ==
    /\ At(s, "updating")
    /\ LET r == txn[s].target IN
         \/ /\ Normal(r) /\ heap[r].xmax \in {kInvalidTxnId, txn[s].id}
            /\ Goto(s, "checked")
         \/ /\ ~Normal(r)
            /\ \E pc \in {"active", "stmtError"} :
                  txn' = [txn EXCEPT ![s].pc = pc, ![s].target = None]
         \/ /\ Normal(r) /\ heap[r].xmax \notin {kInvalidTxnId, txn[s].id}
            /\ txn' = [txn EXCEPT ![s].pc = "stmtError", ![s].target = None]
    /\ UNCHANGED <<mgr, heap, gc, ghost, races>>

\* The reservation of the new version is committed.
UpdateInstall(s, r) ==
    /\ At(s, "checked")
    /\ heap[r].st = "unused"
    /\ heap' = [heap EXCEPT ![r] = NewVersion(s, r)]
    /\ txn' = [txn EXCEPT ![s].pc = "installed", ![s].new = r]
    /\ UNCHANGED <<mgr, gc, ghost, races>>

\* commit_old_tuple, which overwrites xmax and the next pointer, then the two
\* undo records; it fails when the old version has gone.
UpdateOld(s) ==
    /\ At(s, "installed")
    /\ LET r == txn[s].target  n == txn[s].new  v == <<txn[s].id, txn[s].new>> IN
         \/ /\ Normal(r)
            /\ heap' = [heap EXCEPT ![r].xmax = txn[s].id, ![r].next = n]
            /\ races' = races \cup {c \in {"frozen", "overwrite"} :
                  \/ c = "frozen" /\ heap[r].xmin = kFrozenTxnId
                  \/ c = "overwrite" /\ heap[r].xmax \notin {kInvalidTxnId, txn[s].id}}
            /\ txn' = [txn EXCEPT ![s].pc = "active", ![s].target = None,
                         ![s].new = None,
                         ![s].undo = @ \o <<Undo("update", TRUE, r, heap[r].ver),
                                            Undo("update", FALSE, n, v)>>]
         \/ ~Normal(r) /\ Goto(s, "orphan") /\ UNCHANGED <<heap, races>>
    /\ UNCHANGED <<mgr, gc, ghost>>

\* Then rollback_insert takes the new version out and the statement fails.
RemoveOrphan(s) ==
    /\ At(s, "orphan")
    /\ heap' = [heap EXCEPT ![txn[s].new] = Unused]
    /\ txn' = [txn EXCEPT ![s].pc = "stmtError", ![s].target = None, ![s].new = None]
    /\ UNCHANGED <<mgr, gc, ghost, races>>

-----------------------------------------------------------------------------
(* Undo *)

\* What rollback_insert and rollback_delete leave in the slot of record u:
\* neither looks at who owns the slot now.
Undone(u) ==
    IF u.del
    THEN IF Normal(u.rid) THEN [heap[u.rid] EXCEPT !.xmax = 0, !.next = None]
                          ELSE heap[u.rid]
    ELSE Unused

\* The undo positions at which the last statement may have started.
StatementMarks(u) ==
    {m \in 0 .. Len(u) :
        /\ \A i, j \in m + 1 .. Len(u) : u[i].stmt = u[j].stmt
        /\ m < Len(u) /\ u[Len(u)].stmt = "update" => (Len(u) - m) % 2 = 0}

\* The server rolls a failed or timed-out statement back to its savepoint.
StatementFails(s) ==
    /\ txn[s].pc \in {"active", "stmtError"}
    /\ \E m \in StatementMarks(txn[s].undo) :
          txn' = [txn EXCEPT ![s].pc = "savepoint", ![s].mark = m,
                             ![s].pos = Len(txn[s].undo)]
    /\ UNCHANGED <<mgr, heap, gc, ghost, races>>

\* A mutated step that leaves the undone records in the undo log.
SavepointUndoKeepsRecords(s) ==
    /\ At(s, "savepoint")
    /\ \/ /\ txn[s].pos > txn[s].mark
          /\ LET u == txn[s].undo[txn[s].pos]
             IN  heap' = [heap EXCEPT ![u.rid] = Undone(u)]
          /\ txn' = [txn EXCEPT ![s].pos = @ - 1]
       \/ /\ txn[s].pos = txn[s].mark
          /\ txn' = [txn EXCEPT ![s].pc = "active", ![s].pos = 0, ![s].mark = 0]
          /\ UNCHANGED heap
    /\ UNCHANGED <<mgr, gc, ghost, races>>

\* One round of rollback_to_savepoint, or its final truncate_undo.
SavepointUndo(s) ==
    /\ At(s, "savepoint")
    /\ \/ /\ txn[s].pos > txn[s].mark
          /\ LET u == txn[s].undo[txn[s].pos]
             IN  heap' = [heap EXCEPT ![u.rid] = Undone(u)]
          /\ txn' = [txn EXCEPT ![s].pos = @ - 1]
       \/ /\ txn[s].pos = txn[s].mark
          /\ txn' = [txn EXCEPT ![s].pc = "active", ![s].pos = 0, ![s].mark = 0,
                                ![s].undo = SubSeq(@, 1, txn[s].mark)]
          /\ UNCHANGED heap
    /\ UNCHANGED <<mgr, gc, ghost, races>>

\* The compensating WAL write fails: the undo log stays as it is and the
\* caller escalates to a full rollback.
SavepointWalFails(s) ==
    /\ config.wal_fails
    /\ At(s, "savepoint") /\ txn[s].pos > txn[s].mark
    /\ txn' = [txn EXCEPT ![s].pc = "rollback", ![s].pos = 0, ![s].mark = 0]
    /\ Happens("interrupted", txn[s].pos < Len(txn[s].undo))
    /\ UNCHANGED <<mgr, heap, gc, ghost>>

-----------------------------------------------------------------------------
(* Commit *)

Writes(s) == {txn[s].undo[i].rid : i \in DOMAIN txn[s].undo}

ssi_check_conflict(s) ==
    \E e \in history : /\ e.id # txn[s].id
                       /\ e.commit >= txn[s].snap
                       /\ e.writes \cap txn[s].reads # {}

\* commit up to the call of log_commit: the serializable check.
Commit(s) ==
    /\ At(s, "active")
    /\ Goto(s, IF s \in config.serializable /\ ssi_check_conflict(s) THEN "rollback"
                                                              ELSE "committing")
    /\ UNCHANGED <<mgr, heap, gc, ghost, races>>

\* log_commit returns 0.
CommitWalFails(s) ==
    /\ config.wal_fails
    /\ At(s, "committing")
    /\ Goto(s, "rollback")
    /\ UNCHANGED <<mgr, heap, gc, ghost, races>>

\* A mutated step that drops the entry whose commit id equals the oldest snapshot.
prune_committed_history_late(h, sl) ==
    {e \in h : \E i \in SlotIx : /\ sl[i].id # kInvalidTxnId /\ sl[i].state = "active"
                                 /\ e.commit > sl[i].snap}

\* prune_committed_history: an entry stays while some active snapshot is not
\* past it.
prune_committed_history(h, sl) ==
    {e \in h : \E i \in SlotIx : /\ sl[i].id # kInvalidTxnId /\ sl[i].state = "active"
                                 /\ e.commit >= sl[i].snap}

\* The critical section of commit that makes it visible.
Publish(s) ==
    /\ At(s, "committing")
    /\ nextTxnId < MaxTxnId
    /\ nextTxnId' = nextTxnId + 1
    /\ slots' = [i \in SlotIx |->
                   IF slots[i].id = txn[s].id /\ slots[i].state = "active"
                   THEN [slots[i] EXCEPT !.state = "committed"] ELSE slots[i]]
    /\ \E m \in TxnId :
          /\ IsOldestActive(m, slots', nextTxnId')
          /\ txn' = [txn EXCEPT ![s].pc = "published", ![s].oldest = m]
    /\ history' = prune_committed_history(
                     history \cup {[commit |-> nextTxnId, id |-> txn[s].id,
                                    writes |-> Writes(s)]}, slots')
    /\ db' = (db \cup Ins(s)) \ Del(s)
    /\ commits' = commits \cup
          {[id |-> txn[s].id, snap |-> txn[s].snap, commit |-> nextTxnId,
            ser |-> s \in config.serializable, reads |-> txn[s].reads, writes |-> Writes(s)]}
    /\ UNCHANGED <<statusLog, heap, gc, base, races>>

\* status_log_->record(txn_id, kCommitted).
RecordCommit(s) ==
    /\ At(s, "published")
    /\ statusLog' = [statusLog EXCEPT ![txn[s].id] = "committed"]
    /\ txn' = [txn EXCEPT ![s].pc = "pruning", ![s].pos = 1]
    /\ UNCHANGED <<nextTxnId, slots, history, heap, gc, ghost, races>>

\* A mutated prune that marks the tail of a chain dead and leaves it at that.
ReclaimedDead(t) ==
    IF t.next # None THEN [Unused EXCEPT !.st = "redirect", !.next = t.next]
                     ELSE [Unused EXCEPT !.st = "dead"]

\* What pruning leaves of a slot whose version is obsolete: the head of a
\* chain on the page becomes a redirect, the tail is marked dead and pruned.
Reclaimed(t) ==
    IF t.next # None THEN [Unused EXCEPT !.st = "redirect", !.next = t.next] ELSE Unused

prune_obsolete_version(r, oldest, xmax) ==
    IF xmax < oldest /\ Normal(r) /\ heap[r].xmax = xmax
    THEN Reclaimed(heap[r]) ELSE heap[r]

\* The loop of commit over the undo records, then unlock_all and the return.
PruneStep(s) ==
    /\ At(s, "pruning")
    /\ \/ /\ txn[s].pos <= Len(txn[s].undo)
          /\ LET u == txn[s].undo[txn[s].pos]
                 t == prune_obsolete_version(u.rid, txn[s].oldest, txn[s].id)
             IN  heap' = IF u.del THEN [heap EXCEPT ![u.rid] = t] ELSE heap
          /\ txn' = [txn EXCEPT ![s].pos = @ + 1]
       \/ /\ txn[s].pos > Len(txn[s].undo)
          /\ txn' = [txn EXCEPT ![s] = NoTxn]
          /\ UNCHANGED heap
    /\ UNCHANGED <<mgr, gc, ghost, races>>

-----------------------------------------------------------------------------
(* Rollback *)

\* Phase 1 of rollback: the slot leaves kActive.
Rollback(s) ==
    /\ txn[s].pc \in {"active", "stmtError", "rollback"}
    /\ slots' = [i \in SlotIx |->
                   IF slots[i].id = txn[s].id
                   THEN [slots[i] EXCEPT !.state = "aborted"] ELSE slots[i]]
    /\ Goto(s, "flipped")
    /\ UNCHANGED <<nextTxnId, statusLog, history, heap, gc, ghost, races>>

\* status_log_->record(aborted_xid, kAborted), log_abort and unlock_all.
RecordAbort(s) ==
    /\ At(s, "flipped")
    /\ statusLog' = [statusLog EXCEPT ![txn[s].id] = "aborted"]
    /\ txn' = [txn EXCEPT ![s].pc = "undoing", ![s].pos = Len(txn[s].undo)]
    /\ UNCHANGED <<nextTxnId, slots, history, heap, gc, ghost, races>>

\* One undo record, newest first; after the last one the transaction is gone.
UndoStep(s) ==
    /\ At(s, "undoing")
    /\ \/ /\ txn[s].pos > 0
          /\ LET u == txn[s].undo[txn[s].pos]
             IN  heap' = [heap EXCEPT ![u.rid] = Undone(u)]
          /\ txn' = [txn EXCEPT ![s].pos = @ - 1]
       \/ /\ txn[s].pos = 0
          /\ txn' = [txn EXCEPT ![s] = NoTxn]
          /\ UNCHANGED heap
    /\ UNCHANGED <<mgr, gc, ghost, races>>

-----------------------------------------------------------------------------
(* Garbage collection and VACUUM *)

\* run_gc and run_vacuum read the horizon before they take the heap latch.
CollectStart(vacuum) ==
    /\ gc.oldest = 0
    /\ (IF vacuum THEN "vacuum" ELSE "gc") \in config.collect
    /\ \E m \in TxnId : /\ IsOldestActive(m, slots, nextTxnId)
                        /\ gc' = [oldest |-> m, vacuum |-> vacuum]
    /\ UNCHANGED <<mgr, heap, txn, ghost, races>>

\* A mutated collector that takes any deleted version below the horizon.
is_garbage_unchecked(t, oldest) ==
    /\ t.st = "normal"
    /\ t.xmin # kInvalidTxnId /\ is_txn_committed(t.xmin) /\ t.xmin < oldest
    /\ t.xmax # kInvalidTxnId /\ t.xmax < oldest

is_garbage(t, oldest) ==
    /\ t.st = "normal"
    /\ t.xmin # kInvalidTxnId /\ is_txn_committed(t.xmin) /\ t.xmin < oldest
    /\ t.xmax # kInvalidTxnId /\ is_txn_committed(t.xmax) /\ t.xmax < oldest

Freezable(t, oldest) ==
    /\ t.st = "normal"
    /\ t.xmin \notin {kInvalidTxnId, kFrozenTxnId}
    /\ is_txn_committed(t.xmin) /\ t.xmin < oldest
    /\ t.xmax = kInvalidTxnId

\* The pass over the page, with the heap latch held.
CollectPage ==
    /\ gc.oldest # 0
    /\ heap' = [r \in Rid |->
                  IF is_garbage(heap[r], gc.oldest) THEN Reclaimed(heap[r])
                  ELSE IF gc.vacuum /\ Freezable(heap[r], gc.oldest)
                       THEN [heap[r] EXCEPT !.xmin = kFrozenTxnId]
                       ELSE heap[r]]
    /\ gc' = [oldest |-> 0, vacuum |-> FALSE]
    /\ Happens("frozen", \E r \in Rid, q \in Session :
                            /\ gc.vacuum /\ Freezable(heap[r], gc.oldest)
                            /\ Running(q) /\ heap[r].ver \notin Snapshot(q))
    /\ UNCHANGED <<mgr, txn, ghost>>

-----------------------------------------------------------------------------
Step(s) ==
    \/ Begin(s)
    \/ \E r \in Rid : Insert(s, r) \/ UpdateInstall(s, r)
    \/ \E r \in Rid, want \in {"read", "delete", "update"} : ScanRow(s, r, want)
    \/ ScanStatus(s) \/ ScanSlot(s)
    \/ DeleteRow(s) \/ UpdateCheck(s) \/ UpdateOld(s) \/ RemoveOrphan(s)
    \/ StatementFails(s) \/ SavepointUndo(s) \/ SavepointWalFails(s)
    \/ Commit(s) \/ CommitWalFails(s) \/ Publish(s) \/ RecordCommit(s) \/ PruneStep(s)
    \/ Rollback(s) \/ RecordAbort(s) \/ UndoStep(s)

Next ==
    /\ \/ \E s \in Session : Step(s)
       \/ \E v \in BOOLEAN : CollectStart(v)
       \/ CollectPage
    /\ UNCHANGED config

Spec == Init /\ [][Next]_vars

-----------------------------------------------------------------------------
(* Properties *)

Versions == {heap[r].ver : r \in {q \in Rid : Normal(q)}}

\* The scan of session s for a DELETE or an UPDATE ends with the next step, and
\* emits the row or does not.
ScanEnds(s) == txn[s].pc \in ScanPc /\ txn'[s].pc \notin ScanPc /\ txn[s].want # "read"
Emitted(s)  == txn'[s].pc \in {"deleting", "updating"}

\* Snapshot isolation: unless a slot was recycled too early, an xmax was
\* overwritten or a version frozen too early, a scan emits a version exactly
\* when it was committed when the transaction began, or is the work of the
\* transaction itself, whatever commits, rollbacks, undo steps, collectors and
\* reuse of slots come between the copy of the tuple and the two lookups of
\* each of its transactions.
SnapshotIsolation ==
    [][\A s \in Session : ScanEnds(s) /\ races \subseteq {"interrupted"} =>
           (Emitted(s) <=> txn[s].seen \in Snapshot(s))]_vars

\* What rollback's comment claims without that proviso: a scan never takes the
\* row of an aborted transaction for a committed one.
NoDirtyRead ==
    [][\A s \in Session : ScanEnds(s) /\ Emitted(s) => txn[s].seen \in Snapshot(s)]_vars

\* What the collector claims: a version is reclaimed only when no running
\* transaction can see it.
SnapshotRowsKept == \A s \in Session : At(s, "active") => Snapshot(s) \subseteq Versions

\* Pruning at commit, the collectors with the horizon they read earlier, reuse
\* of slots and undo keep the committed version of every row, also when no
\* snapshot holds it, unless a statement rollback was interrupted or an xmax
\* overwritten.
CommittedRowsKept == races \subseteq {"recycled", "frozen"} => db \subseteq Versions

LostUpdate(s) == \E i \in DOMAIN txn[s].undo :
    LET u == txn[s].undo[i] IN u.del /\ u.ver \in base[s] \ db

\* First updater wins: unless UPDATE has overwritten an xmax, a transaction that
\* commits has deleted or replaced only versions that no transaction has
\* removed since its snapshot.
FirstUpdaterWins ==
    [][\A s \in Session : Publish(s) /\ "overwrite" \notin races => ~LostUpdate(s)]_vars

\* The same without the proviso, which is what UPDATE's recheck of xmax after
\* the row lock is there for.
NoLostUpdate == [][\A s \in Session : Publish(s) => ~LostUpdate(s)]_vars

\* A step of a statement rollback or of a full rollback
Undoing(s) == txn[s].pc \in {"savepoint", "undoing"} /\ txn'[s] # txn[s]

\* A step of session s changes only versions that its transaction has created
\* or marked.
OwnVersionsOnly(s) == \A r \in Rid :
    heap'[r] # heap[r] => txn[s].id \in {heap[r].xmin, heap[r].xmax}

\* Undo, which runs after the locks are released and looks at no owner, finds
\* in every slot the version its record is about: unless an xmax was
\* overwritten or a statement rollback interrupted, neither a statement
\* rollback nor a full rollback changes a version of another transaction.
UndoOwnVersions ==
    [][\A s \in Session : Undoing(s) /\ races \subseteq {"recycled", "frozen"}
                             => OwnVersionsOnly(s)]_vars

\* The same without the proviso: a rollback may be applied twice.
RollbackIdempotent ==
    [][\A s \in Session : Undoing(s) => OwnVersionsOnly(s)]_vars

\* prune_committed_history keeps every entry that a running transaction still
\* has to be checked against.
HistoryComplete ==
    \A s \in Session : txn[s].pc \notin {"none", "flipped", "undoing", "published", "pruning"} =>
        \A c \in commits : c.commit >= txn[s].snap =>
            [commit |-> c.commit, id |-> c.id, writes |-> c.writes] \in history


=============================================================================
