---------------------------- MODULE LockManager ----------------------------
(***************************************************************************)
(* The lock manager (src/concurrency/lock_manager.{h,cpp}) together with   *)
(* the way its callers use it: transactions take table locks and record or *)
(* key locks one call at a time, block on the shared condition variable    *)
(* with a timeout, and give everything back with unlock_all at commit or   *)
(* rollback.  An executor that runs outside a transaction locks under the  *)
(* address of the executor and releases object by object; the members of   *)
(* Autocommit are such lockers.                                            *)
(*                                                                         *)
(* Every critical section under latch_ is one step, except the record loop *)
(* of unlock_all, which is one step per record with latch_ held.  A call   *)
(* that finds a sufficient lock already held, and an upgrade that is       *)
(* refused, return without changing any state and are stuttering steps.    *)
(* granted_mask is written and never read; it is left out, as is the       *)
(* waiting flag, which is always the negation of granted.                  *)
(***************************************************************************)
EXTENDS Integers, Sequences, FiniteSets

CONSTANTS
    Txn,         \* lockers: transaction ids and executors outside a transaction
    Autocommit,  \* the lockers that are executors outside a transaction
    Table,       \* lock objects of lock_table_
    Rec,         \* lock objects of record_locks_: records and logical keys
    TableOf,     \* the table a record or key belongs to
    None         \* no holder of latch_

ASSUME LockerAssumption == Autocommit \subseteq Txn /\ None \notin Txn
ASSUME ObjectAssumption == Table \cap Rec = {} /\ TableOf \in [Rec -> Table]

VARIABLES
    requests,        \* LockObject::requests, the wait queue of every object
    txnLocks,        \* txn_locks_: has an entry, and the table ids in it
    txnRecordLocks,  \* txn_record_locks_
    call,            \* what the thread of each locker is doing
    tableIds,        \* the local copy table_ids of unlock_all
    latch            \* the locker inside the record loop of unlock_all

vars == <<requests, txnLocks, txnRecordLocks, call, tableIds, latch>>

-----------------------------------------------------------------------------
(* Lock modes and their compatibility. *)

kAccessShare     == 0
kRowExclusive    == 1
kExclusive       == 2
kAccessExclusive == 3

LockMode == kAccessShare .. kAccessExclusive

kLockCompatibility ==
    { <<kAccessShare, kAccessShare>>,  <<kAccessShare, kRowExclusive>>,
      <<kAccessShare, kExclusive>>,    <<kRowExclusive, kAccessShare>>,
      <<kRowExclusive, kRowExclusive>>, <<kExclusive, kAccessShare>> }

is_compatible(held, requested) == <<held, requested>> \in kLockCompatibility

Obj == Table \cup Rec

LockRequest == [txn : Txn, mode : LockMode, granted : BOOLEAN]

\* The modes the callers ask for.  Rows and unique keys are always locked in
\* RowExclusive; tables in the mode of the statement or DDL operation; an insert
\* outside a transaction locks its table, if at all, in Exclusive.
ModesOf(t, o) ==
    IF o \in Rec THEN {kRowExclusive}
    ELSE IF t \in Autocommit THEN {kExclusive} ELSE LockMode

-----------------------------------------------------------------------------
(* Queues. *)

Append1(q, t, m) ==
    [i \in 1 .. Len(q) + 1 |->
        IF i <= Len(q) THEN q[i] ELSE [txn |-> t, mode |-> m, granted |-> FALSE]]

\* The shift loop that drops the i-th request.
DropAt(q, i) == [j \in 1 .. Len(q) - 1 |-> IF j < i THEN q[j] ELSE q[j + 1]]

\* The queues left when the requests of t are taken out: a locker has at most
\* one request per object (OneRequestPerTxn), so there is at most one to drop.
Without(q, t) ==
    IF \E i \in 1 .. Len(q) : q[i].txn = t
    THEN {DropAt(q, i) : i \in {k \in 1 .. Len(q) : q[k].txn = t}}
    ELSE {q}

can_grant(q, granted, i) ==
    \A j \in granted :
        q[j].txn # q[i].txn =>
            /\ is_compatible(q[j].mode, q[i].mode)
            /\ is_compatible(q[i].mode, q[j].mode)

GrantedIn(q) == {i \in 1 .. Len(q) : q[i].granted}

\* The set g that grant_pending makes of the granted requests: it walks the
\* queue once, in order, and a request is tested against the requests granted
\* before the walk and the ones the walk has granted so far.
IsGrantedSet(q, g) ==
    \A i \in 1 .. Len(q) :
        i \in g <=> \/ q[i].granted
                    \/ can_grant(q, GrantedIn(q) \cup {j \in g : j < i}, i)

grant_pending(q) ==
    {[i \in 1 .. Len(q) |-> [q[i] EXCEPT !.granted = (i \in g)]] :
        g \in {h \in SUBSET (1 .. Len(q)) : IsGrantedSet(q, h)}}

HoldsAt(q, t) == \E i \in 1 .. Len(q) : q[i].txn = t /\ q[i].granted

Holds(t, o) == HoldsAt(requests[o], t)

-----------------------------------------------------------------------------
(* Deadlock detection: find_holder_for follows the wait-for edges of table *)
(* locks only, and the search succeeds when t is reachable from itself.    *)

find_holder_for(reqs, t) ==
    {u \in Txn :
        \E o \in Table : \E i, j \in 1 .. Len(reqs[o]) :
            /\ reqs[o][i].txn = t /\ ~reqs[o][i].granted
            /\ reqs[o][j].txn = u /\ reqs[o][j].granted
            /\ ~is_compatible(reqs[o][j].mode, reqs[o][i].mode)}

detect_deadlock(reqs, t) ==
    \A S \in SUBSET Txn :
        (/\ find_holder_for(reqs, t) \subseteq S
         /\ \A u \in S : find_holder_for(reqs, u) \subseteq S) => t \in S

-----------------------------------------------------------------------------
\* A thread inside lock_table or lock_record is blocked in timed_wait, or was
\* released by a broadcast, or timed out and is about to return.
Waiting == {"asleep", "woken", "expired"}

Call == [pc : Waiting \cup {"idle", "unlocking", "done"},
         obj : Obj \cup {None}, mode : LockMode]

At(pc) == [pc |-> pc, obj |-> None, mode |-> kAccessShare]

Idle == At("idle")

Init ==
    /\ requests = [o \in Obj |-> <<>>]
    /\ txnLocks = [t \in Txn |-> [has |-> FALSE, ids |-> {}]]
    /\ txnRecordLocks = [t \in Txn |-> {}]
    /\ call = [t \in Txn |-> Idle]
    /\ tableIds = [t \in Txn |-> {}]
    /\ latch = None

\* cond_.broadcast(): every thread blocked in timed_wait is released.
Woken(c) ==
    [u \in Txn |-> IF c[u].pc = "asleep" THEN [c[u] EXCEPT !.pc = "woken"] ELSE c[u]]

\* Variant of Succeed with the two lists exchanged.
SucceedListsSwapped(t, o) ==
    /\ call' = [call EXCEPT ![t] = Idle]
    /\ IF o \in Rec
       THEN /\ txnLocks' = [txnLocks EXCEPT ![t] =
                               [has |-> TRUE, ids |-> txnLocks[t].ids \cup {o}]]
            /\ UNCHANGED txnRecordLocks
       ELSE /\ txnRecordLocks' = [txnRecordLocks EXCEPT ![t] = @ \cup {o}]
            /\ UNCHANGED txnLocks

\* The lock call returns success: the object joins the locker's own list.
Succeed(t, o) ==
    /\ call' = [call EXCEPT ![t] = Idle]
    /\ IF o \in Table
       THEN /\ txnLocks' = [txnLocks EXCEPT ![t] =
                               [has |-> TRUE, ids |-> txnLocks[t].ids \cup {o}]]
            /\ UNCHANGED txnRecordLocks
       ELSE /\ txnRecordLocks' = [txnRecordLocks EXCEPT ![t] = @ \cup {o}]
            /\ UNCHANGED txnLocks

\* Variant of GiveUp that leaves the request in the queue.
GiveUpKeepsRequest(t, o, q) ==
    /\ requests' = [requests EXCEPT ![o] = q]
    /\ call' = [call EXCEPT ![t] = Idle]
    /\ UNCHANGED <<txnLocks, txnRecordLocks>>

\* The lock call gives up: the request is taken out unless it is granted.
GiveUp(t, o, q) ==
    /\ IF HoldsAt(q, t)
       THEN requests' = [requests EXCEPT ![o] = q]
       ELSE \E r \in Without(q, t) : requests' = [requests EXCEPT ![o] = r]
    /\ call' = [call EXCEPT ![t] = Idle]
    /\ UNCHANGED <<txnLocks, txnRecordLocks>>

\* Variant of WaitLoop that goes to sleep without looking for a deadlock.
WaitLoopNoDetect(t, o, m, q) ==
    \E r \in grant_pending(q) :
        /\ requests' = [requests EXCEPT ![o] = r]
        /\ IF HoldsAt(r, t)
           THEN Succeed(t, o)
           ELSE /\ call' = [call EXCEPT ![t] =
                               [pc |-> "asleep", obj |-> o, mode |-> m]]
                /\ UNCHANGED <<txnLocks, txnRecordLocks>>

\* One round of the wait loop of lock_table and lock_record on the queue q.
WaitLoop(t, o, m, q) ==
    \E r \in grant_pending(q) :
        \/ /\ HoldsAt(r, t)
           /\ requests' = [requests EXCEPT ![o] = r]
           /\ Succeed(t, o)
        \/ /\ ~HoldsAt(r, t)
           /\ IF o \in Table /\ detect_deadlock([requests EXCEPT ![o] = r], t)
              THEN GiveUp(t, o, r)
              ELSE /\ requests' = [requests EXCEPT ![o] = r]
                   /\ call' = [call EXCEPT ![t] =
                                  [pc |-> "asleep", obj |-> o, mode |-> m]]
                   /\ UNCHANGED <<txnLocks, txnRecordLocks>>

-----------------------------------------------------------------------------
(* The operations. *)

\* A transaction writes rows of a table only when its statement got the table
\* lock, RowExclusive at least; an executor outside a transaction takes none.
MayLock(t, o) ==
    o \in Rec => \/ t \in Autocommit
                 \/ \E i \in 1 .. Len(requests[TableOf[o]]) :
                       LET r == requests[TableOf[o]][i]
                       IN  r.txn = t /\ r.granted /\ r.mode >= kRowExclusive

\* Variant of Lock that does not look for a lock already held.
LockHeldAgain(t, o, m) ==
    /\ latch = None
    /\ call[t] = Idle
    /\ m \in ModesOf(t, o) /\ MayLock(t, o)
    /\ WaitLoop(t, o, m, Append1(requests[o], t, m))
    /\ UNCHANGED <<tableIds, latch>>

\* lock_table and lock_record by a locker with no granted request there.
Lock(t, o, m) ==
    /\ latch = None
    /\ call[t] = Idle
    /\ m \in ModesOf(t, o) /\ MayLock(t, o)
    /\ ~Holds(t, o)
    /\ WaitLoop(t, o, m, Append1(requests[o], t, m))
    /\ UNCHANGED <<tableIds, latch>>

\* Variant of can_upgrade that stops at the request's own position.
can_upgrade_prefix(q, i, m) ==
    \A j \in 1 .. i - 1 : q[j].granted => is_compatible(q[j].mode, m)

can_upgrade(q, i, m) ==
    \A j \in 1 .. Len(q) : (j # i /\ q[j].granted) => is_compatible(q[j].mode, m)

\* lock_table by a locker that holds a weaker mode: in place, never waiting.
Upgrade(t, o, m) ==
    /\ latch = None
    /\ call[t] = Idle
    /\ o \in Table /\ m \in ModesOf(t, o)
    /\ \E i \in 1 .. Len(requests[o]) :
          /\ requests[o][i].txn = t /\ requests[o][i].granted
          /\ requests[o][i].mode < m
          /\ can_upgrade(requests[o], i, m)
          /\ requests' = [requests EXCEPT ![o][i].mode = m]
    /\ UNCHANGED <<txnLocks, txnRecordLocks, call, tableIds, latch>>

\* timed_wait returns true and the thread has latch_ again.
Retry(t) ==
    /\ latch = None
    /\ call[t].pc = "woken"
    /\ WaitLoop(t, call[t].obj, call[t].mode, requests[call[t].obj])
    /\ UNCHANGED <<tableIds, latch>>

\* The wait times out; the thread still has to get latch_ back.
Expire(t) ==
    /\ call[t].pc = "asleep"
    /\ call' = [call EXCEPT ![t].pc = "expired"]
    /\ UNCHANGED <<requests, txnLocks, txnRecordLocks, tableIds, latch>>

\* Variant of TimeoutReturn that waits again.
TimeoutReturnWaitsAgain(t) ==
    /\ latch = None
    /\ call[t].pc = "expired"
    /\ call' = [call EXCEPT ![t].pc = "asleep"]
    /\ UNCHANGED <<requests, txnLocks, txnRecordLocks, tableIds, latch>>

\* timed_wait returns false: clean up and report a lock conflict.
TimeoutReturn(t) ==
    /\ latch = None
    /\ call[t].pc = "expired"
    /\ GiveUp(t, call[t].obj, requests[call[t].obj])
    /\ UNCHANGED <<tableIds, latch>>

\* Variant of Release that leaves the waiting requests as they are.
ReleaseNoGrant(t, o) ==
    \E w \in Without(requests[o], t) : requests' = [requests EXCEPT ![o] = w]

\* Variant of Release that drops the head of the queue, whoever owns it.
ReleaseHead(t, o) ==
    \E r \in grant_pending(DropAt(requests[o], 1)) :
        requests' = [requests EXCEPT ![o] = r]

\* The requests of t leave the queue of o and waiting ones are granted.
Release(t, o) ==
    \E w \in Without(requests[o], t) : \E r \in grant_pending(w) :
        requests' = [requests EXCEPT ![o] = r]

\* unlock_table, called directly by an insert outside a transaction.
UnlockTable(t, o) ==
    /\ latch = None
    /\ t \in Autocommit /\ call[t] = Idle
    /\ o \in Table /\ Holds(t, o)
    /\ Release(t, o)
    /\ txnLocks' = [txnLocks EXCEPT ![t].ids = @ \ {o}]
    /\ call' = Woken(call)
    /\ UNCHANGED <<txnRecordLocks, tableIds, latch>>

\* unlock_record and unlock_key: txn_record_locks_ keeps its entry.
UnlockRecord(t, o) ==
    /\ latch = None
    /\ t \in Autocommit /\ call[t] = Idle
    /\ o \in Rec /\ Holds(t, o)
    /\ Release(t, o)
    /\ call' = Woken(call)
    /\ UNCHANGED <<txnLocks, txnRecordLocks, tableIds, latch>>

\* unlock_all: nothing is released when txn_locks_ has no entry.
UnlockAll(t) ==
    /\ latch = None
    /\ t \notin Autocommit /\ call[t] = Idle
    /\ call' = [call EXCEPT ![t] =
                   At(IF txnLocks[t].has THEN "unlocking" ELSE "done")]
    /\ tableIds' = [tableIds EXCEPT ![t] = txnLocks[t].ids]
    /\ UNCHANGED <<requests, txnLocks, txnRecordLocks, latch>>

\* unlock_all calls unlock_table for one of the tables it copied.
UnlockAllTable(t, o) ==
    /\ latch = None
    /\ call[t].pc = "unlocking"
    /\ o \in tableIds[t]
    /\ Release(t, o)
    /\ txnLocks' = [txnLocks EXCEPT ![t].ids = @ \ {o}]
    /\ tableIds' = [tableIds EXCEPT ![t] = @ \ {o}]
    /\ call' = Woken(call)
    /\ UNCHANGED <<txnRecordLocks, latch>>

\* One round of the record loop, under latch_ until the loop ends.
UnlockAllRecord(t, o) ==
    /\ latch \in {None, t}
    /\ call[t].pc = "unlocking" /\ tableIds[t] = {}
    /\ o \in txnRecordLocks[t]
    /\ Release(t, o)
    /\ txnRecordLocks' = [txnRecordLocks EXCEPT ![t] = @ \ {o}]
    /\ latch' = t
    /\ call' = Woken(call)
    /\ UNCHANGED <<txnLocks, tableIds>>

\* The lists of the transaction are erased and latch_ is released.
UnlockAllDone(t) ==
    /\ latch \in {None, t}
    /\ call[t].pc = "unlocking" /\ tableIds[t] = {} /\ txnRecordLocks[t] = {}
    /\ txnLocks' = [txnLocks EXCEPT ![t] = [has |-> FALSE, ids |-> {}]]
    /\ call' = [call EXCEPT ![t] = At("done")]
    /\ latch' = None
    /\ UNCHANGED <<requests, txnRecordLocks, tableIds>>

UnlockAllStep(t) ==
    \/ \E o \in Table : UnlockAllTable(t, o)
    \/ \E o \in Rec : UnlockAllRecord(t, o)
    \/ UnlockAllDone(t)

Next ==
    \E t \in Txn :
        \/ \E o \in Obj, m \in LockMode : Lock(t, o, m) \/ Upgrade(t, o, m)
        \/ Retry(t) \/ Expire(t) \/ TimeoutReturn(t)
        \/ \E o \in Table : UnlockTable(t, o)
        \/ \E o \in Rec : UnlockRecord(t, o)
        \/ UnlockAll(t)
        \/ UnlockAllStep(t)

Spec == Init /\ [][Next]_vars

\* A released thread gets scheduled and gets latch_, the timer of a thread that
\* stays blocked fires, and unlock_all, once begun, runs on.
Fairness ==
    \A t \in Txn : /\ WF_vars(Retry(t)) /\ WF_vars(TimeoutReturn(t))
                   /\ WF_vars(Expire(t)) /\ WF_vars(UnlockAllStep(t))

FairSpec == Spec /\ Fairness

-----------------------------------------------------------------------------
(* Properties. *)

\* Types: queues of requests, the two lists of every locker, and a thread that is
\* inside a lock call knows the object it waits for.
TypeOK ==
    /\ requests \in [Obj -> Seq(LockRequest)]
    /\ txnLocks \in [Txn -> [has : BOOLEAN, ids : SUBSET Table]]
    /\ txnRecordLocks \in [Txn -> SUBSET Rec]
    /\ call \in [Txn -> Call]
    /\ \A t \in Txn : call[t].pc \in Waiting => call[t].obj \in Obj
    /\ tableIds \in [Txn -> SUBSET Table]
    /\ latch \in Txn \cup {None}

CompatibleQueue(q) ==
    \A i, j \in 1 .. Len(q) :
        (q[i].granted /\ q[j].granted /\ q[i].txn # q[j].txn)
            => is_compatible(q[i].mode, q[j].mode)

\* No two lockers are ever granted incompatible modes on one object, whatever
\* the order of requests, upgrades, timeouts and releases (lock_manager.cpp
\* can_grant, grant_pending and the in-place upgrade of lock_table).
GrantedCompatible == \A o \in Obj : CompatibleQueue(requests[o])

SingleQueue(q) == \A i, j \in 1 .. Len(q) : q[i].txn = q[j].txn => i = j

\* A locker has at most one request in a queue.  The upgrade test skips one
\* index and the release paths drop the locker's requests relying on it.
OneRequestPerTxn == \A o \in Obj : SingleQueue(requests[o])

SettledQueue(q) ==
    \A i \in 1 .. Len(q) :
        ~q[i].granted =>
            \E j \in 1 .. Len(q) : /\ q[j].granted /\ q[j].txn # q[i].txn
                                  /\ ~is_compatible(q[j].mode, q[i].mode)

\* A request is left waiting only while some other locker is granted a mode it
\* is incompatible with: no release, timeout or upgrade forgets a waiter that
\* could go ahead (grant_pending is called wherever a granted request leaves).
NoMissedGrant == \A o \in Obj : SettledQueue(requests[o])

\* A request left ungranted in a queue belongs to a thread that is still inside
\* the lock call for that object: a call that failed leaves no request behind
\* (clean-up loops at the end of lock_table and lock_record).
WaitingRequestHasWaiter ==
    \A o \in Obj : \A i \in 1 .. Len(requests[o]) :
        ~requests[o][i].granted =>
            /\ call[requests[o][i].txn].pc \in Waiting
            /\ call[requests[o][i].txn].obj = o

\* The table wait-for graph never has a cycle between two critical sections:
\* testing only the thread about to sleep (lock_table calls detect_deadlock on
\* itself) is enough, since grants and upgrades made meanwhile close none.
NoTableDeadlock == \A t \in Txn : ~detect_deadlock(requests, t)

\* What a transaction is granted stays granted, in the same or a stronger mode,
\* until its own unlock_all (comment H1 in lock_record: a timeout never revokes
\* another transaction's granted lock).  The one request not covered is the one
\* whose own wait has just timed out.
HeldUntilUnlockAll ==
    [][\A t \in Txn \ Autocommit : \A o \in Obj :
          ~(\/ call[t].pc = "unlocking"
            \/ call[t].pc = "expired" /\ call[t].obj = o) =>
              \A i \in 1 .. Len(requests[o]) :
                  (requests[o][i].txn = t /\ requests[o][i].granted) =>
                      \E j \in 1 .. Len(requests'[o]) :
                          /\ requests'[o][j].txn = t /\ requests'[o][j].granted
                          /\ requests'[o][j].mode >= requests[o][i].mode]_vars

\* Every lock call returns: granted, refused for a deadlock, or timed out
\* (lock_manager.h: "blocks until granted or timed out").
LockCallReturns ==
    \A t \in Txn :
        (call[t].pc \in Waiting) ~> (call[t] = Idle)

\* lock_manager.h says unlock_all releases every lock held by the transaction:
\* once it has run, no queue holds a granted request of the transaction.
UnlockAllReleasesEverything ==
    \A t \in Txn : call[t].pc = "done" => \A o \in Obj : ~Holds(t, o)

=============================================================================
