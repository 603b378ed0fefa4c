------------------------- MODULE LockManagerProofs -------------------------
(***************************************************************************)
(* Proofs about LockManager for any set of lockers, tables and records.    *)
(***************************************************************************)
EXTENDS LockManager, TLAPS

-----------------------------------------------------------------------------
(* Facts about modes and queues. *)

\* The compatibility matrix is symmetric.
LEMMA CompatibleSymmetric ==
    ASSUME NEW a \in LockMode, NEW b \in LockMode
    PROVE  is_compatible(a, b) <=> is_compatible(b, a)
  BY DEF LockMode, is_compatible, kLockCompatibility, kAccessShare,
         kRowExclusive, kExclusive, kAccessExclusive

\* A stronger mode is incompatible with everything a weaker one is.
LEMMA IncompatibleMonotone ==
    ASSUME NEW a \in LockMode, NEW b \in LockMode, NEW c \in LockMode,
           a < b, ~is_compatible(a, c)
    PROVE  ~is_compatible(b, c)
  BY DEF LockMode, is_compatible, kLockCompatibility, kAccessShare,
         kRowExclusive, kExclusive, kAccessExclusive

\* A function on 1 .. n into S is a sequence over S of length n.
LEMMA FunctionIsSeq ==
    ASSUME NEW S, NEW n \in Nat, NEW f \in [1 .. n -> S]
    PROVE  f \in Seq(S) /\ Len(f) = n
  OBVIOUS

\* The entries of a queue are requests, and setting granted keeps them so.
LEMMA RequestFacts ==
    ASSUME NEW q \in Seq(LockRequest), NEW i \in 1 .. Len(q), NEW b \in BOOLEAN
    PROVE  /\ q[i] \in LockRequest
           /\ q[i].txn \in Txn /\ q[i].mode \in LockMode /\ q[i].granted \in BOOLEAN
           /\ [q[i] EXCEPT !.granted = b] \in LockRequest
           /\ [q[i] EXCEPT !.granted = b].txn = q[i].txn
           /\ [q[i] EXCEPT !.granted = b].mode = q[i].mode
           /\ [q[i] EXCEPT !.granted = b].granted = b
  <1>1. q[i] \in LockRequest
    OBVIOUS
  <1> QED
    BY <1>1 DEF LockRequest

\* Appending an ungranted request of a locker that has none in the queue.
LEMMA AppendFacts ==
    ASSUME NEW q \in Seq(LockRequest), NEW t \in Txn, NEW m \in LockMode,
           NEW r, r = Append1(q, t, m),
           SingleQueue(q), CompatibleQueue(q),
           \A i \in 1 .. Len(q) : q[i].txn # t
    PROVE  /\ r \in Seq(LockRequest)
           /\ SingleQueue(r) /\ CompatibleQueue(r)
           /\ \A i \in 1 .. Len(r) : ~r[i].granted =>
                 r[i].txn = t \/ \E j \in 1 .. Len(q) : r[i] = q[j]
           /\ \E i \in 1 .. Len(r) : r[i].txn = t
  <1> DEFINE new == [txn |-> t, mode |-> m, granted |-> FALSE]
  <1>a. new \in LockRequest
    BY DEF LockRequest
  <1>1. r \in [1 .. Len(q) + 1 -> LockRequest]
    <2> HIDE DEF new
    <2>1. r = [i \in 1 .. Len(q) + 1 |-> IF i <= Len(q) THEN q[i] ELSE new]
      BY DEF Append1, new
    <2> QED
      BY <1>a, <2>1
  <1>2. r \in Seq(LockRequest) /\ Len(r) = Len(q) + 1
    BY <1>1, FunctionIsSeq
  <1>3. /\ \A i \in 1 .. Len(q) : r[i] = q[i]
        /\ r[Len(q) + 1] = [txn |-> t, mode |-> m, granted |-> FALSE]
    BY DEF Append1
  <1>4. SingleQueue(r)
    <2> SUFFICES ASSUME NEW i \in 1 .. Len(r), NEW j \in 1 .. Len(r),
                        r[i].txn = r[j].txn
                 PROVE  i = j
      BY DEF SingleQueue
    <2>1. r[Len(q) + 1].txn = t
      BY <1>3
    <2>2. \A k \in 1 .. Len(q) : r[k].txn = q[k].txn /\ q[k].txn # t
      BY <1>3
    <2>3. CASE i \in 1 .. Len(q) /\ j \in 1 .. Len(q)
      BY <2>2, <2>3 DEF SingleQueue
    <2>4. CASE i = Len(q) + 1 \/ j = Len(q) + 1
      BY <1>2, <2>1, <2>2, <2>4
    <2> QED
      BY <1>2, <2>3, <2>4
  <1>5. CompatibleQueue(r)
    <2> SUFFICES ASSUME NEW i \in 1 .. Len(r), NEW j \in 1 .. Len(r),
                        r[i].granted, r[j].granted, r[i].txn # r[j].txn
                 PROVE  is_compatible(r[i].mode, r[j].mode)
      BY DEF CompatibleQueue
    <2>1. ~r[Len(q) + 1].granted
      BY <1>3
    <2>2. i # Len(q) + 1 /\ j # Len(q) + 1
      BY <2>1
    <2>3. i \in 1 .. Len(q) /\ j \in 1 .. Len(q)
      BY <1>2, <2>2
    <2>4. r[i] = q[i] /\ r[j] = q[j]
      BY <1>3, <2>3
    <2> QED
      BY <2>3, <2>4 DEF CompatibleQueue
  <1> QED
    BY <1>2, <1>3, <1>4, <1>5

\* Dropping one request.
LEMMA DropFacts ==
    ASSUME NEW q \in Seq(LockRequest), NEW i \in 1 .. Len(q),
           NEW r, r = DropAt(q, i)
    PROVE  /\ r \in Seq(LockRequest)
           /\ Len(r) = Len(q) - 1
           /\ \A k \in 1 .. Len(r) : r[k] = IF k < i THEN q[k] ELSE q[k + 1]
  <1>1. r \in [1 .. Len(q) - 1 -> LockRequest]
    BY DEF DropAt
  <1>2. r \in Seq(LockRequest) /\ Len(r) = Len(q) - 1
    BY <1>1, FunctionIsSeq
  <1> QED
    BY <1>2 DEF DropAt

\* Taking out the requests of t keeps the shape of the queue, leaves none of t
\* and brings in nothing new.
LEMMA WithoutFacts ==
    ASSUME NEW q \in Seq(LockRequest), NEW t \in Txn, SingleQueue(q),
           NEW r \in Without(q, t)
    PROVE  /\ r \in Seq(LockRequest)
           /\ SingleQueue(r)
           /\ CompatibleQueue(q) => CompatibleQueue(r)
           /\ \A k \in 1 .. Len(r) : /\ r[k].txn # t
                                     /\ \E l \in 1 .. Len(q) : r[k] = q[l]
           /\ \A l \in 1 .. Len(q) : q[l].txn # t =>
                 \E k \in 1 .. Len(r) : r[k] = q[l]
  <1>1. CASE ~\E i \in 1 .. Len(q) : q[i].txn = t
    BY <1>1 DEF Without
  <1>2. CASE \E i \in 1 .. Len(q) : q[i].txn = t
    <2>1. PICK i \in 1 .. Len(q) : q[i].txn = t /\ r = DropAt(q, i)
      BY <1>2 DEF Without
    <2>2. /\ r \in Seq(LockRequest)
          /\ Len(r) = Len(q) - 1
          /\ \A k \in 1 .. Len(r) : r[k] = IF k < i THEN q[k] ELSE q[k + 1]
      BY <2>1, DropFacts
    <2> DEFINE at(k) == IF k < i THEN k ELSE k + 1
    <2>a. \A k \in 1 .. Len(r) : at(k) \in 1 .. Len(q) /\ r[k] = q[at(k)]
      BY <2>2
    <2>b. \A k, l \in 1 .. Len(r) : at(k) = at(l) => k = l
      BY <2>2
    <2> HIDE DEF at
    <2>3. SingleQueue(r)
      BY <2>a, <2>b DEF SingleQueue
    <2>4. CompatibleQueue(q) => CompatibleQueue(r)
      <3> SUFFICES ASSUME CompatibleQueue(q),
                          NEW k \in 1 .. Len(r), NEW l \in 1 .. Len(r),
                          r[k].granted, r[l].granted, r[k].txn # r[l].txn
                   PROVE  is_compatible(r[k].mode, r[l].mode)
        BY DEF CompatibleQueue
      <3>1. /\ at(k) \in 1 .. Len(q) /\ r[k] = q[at(k)]
            /\ at(l) \in 1 .. Len(q) /\ r[l] = q[at(l)]
        BY <2>a
      <3> QED
        BY <3>1 DEF CompatibleQueue
    <2>5. ASSUME NEW k \in 1 .. Len(r)
          PROVE  r[k].txn # t /\ \E l \in 1 .. Len(q) : r[k] = q[l]
      <3>1. at(k) \in 1 .. Len(q) /\ r[k] = q[at(k)]
        BY <2>a
      <3>2. at(k) # i
        BY DEF at
      <3>3. q[at(k)].txn # t
        BY <2>1, <3>1, <3>2 DEF SingleQueue
      <3> QED
        BY <3>1, <3>3
    <2>6. ASSUME NEW l \in 1 .. Len(q), q[l].txn # t
          PROVE  \E k \in 1 .. Len(r) : r[k] = q[l]
      <3>1. CASE l < i
        BY <2>1, <2>2, <2>6, <3>1
      <3>2. CASE l > i
        <4>1. l - 1 \in 1 .. Len(r) /\ r[l - 1] = q[l]
          BY <2>1, <2>2, <3>2
        <4> QED
          BY <4>1
      <3> QED
        BY <2>1, <2>6, <3>1, <3>2
    <2> QED
      BY <2>2, <2>3, <2>4, <2>5, <2>6
  <1> QED
    BY <1>1, <1>2

\* What grant_pending does to a queue: it only turns requests to granted, never
\* two incompatible ones, and leaves waiting only requests that conflict.
LEMMA GrantFacts ==
    ASSUME NEW q \in Seq(LockRequest), NEW r \in grant_pending(q)
    PROVE  /\ r \in Seq(LockRequest)
           /\ Len(r) = Len(q)
           /\ \A i \in 1 .. Len(q) : /\ r[i].txn = q[i].txn
                                     /\ r[i].mode = q[i].mode
                                     /\ q[i].granted => r[i].granted
           /\ SingleQueue(q) => SingleQueue(r)
           /\ CompatibleQueue(q) => CompatibleQueue(r)
           /\ SettledQueue(r)
  <1>1. PICK g \in SUBSET (1 .. Len(q)) :
            /\ IsGrantedSet(q, g)
            /\ r = [i \in 1 .. Len(q) |-> [q[i] EXCEPT !.granted = (i \in g)]]
    BY DEF grant_pending
  <1>2. \A i \in 1 .. Len(q) : [q[i] EXCEPT !.granted = (i \in g)] \in LockRequest
    <2> TAKE i \in 1 .. Len(q)
    <2>1. (i \in g) \in BOOLEAN
      OBVIOUS
    <2> QED
      BY <2>1, RequestFacts, Zenon
  <1>3. r \in Seq(LockRequest) /\ Len(r) = Len(q)
    BY <1>1, <1>2, FunctionIsSeq
  <1>4. \A i \in 1 .. Len(q) : /\ r[i].txn = q[i].txn
                               /\ r[i].mode = q[i].mode
                               /\ r[i].granted <=> i \in g
    <2> SUFFICES ASSUME NEW i \in 1 .. Len(q)
                 PROVE  /\ r[i].txn = q[i].txn /\ r[i].mode = q[i].mode
                        /\ r[i].granted = (i \in g)
      OBVIOUS
    <2>1. r[i] = [q[i] EXCEPT !.granted = (i \in g)]
      BY <1>1
    <2> QED
      BY <2>1, RequestFacts
  <1>5. \A i \in 1 .. Len(q) : q[i].granted => i \in g
    BY <1>1 DEF IsGrantedSet
  <1>6. \A i \in 1 .. Len(q) : q[i].mode \in LockMode
    BY RequestFacts
  <1>7. SingleQueue(q) => SingleQueue(r)
    BY <1>3, <1>4 DEF SingleQueue
  <1>8. ASSUME CompatibleQueue(q) PROVE CompatibleQueue(r)
    <2>1. ASSUME NEW i \in 1 .. Len(q), NEW j \in 1 .. Len(q), j < i,
                 i \in g, j \in g, q[i].txn # q[j].txn
          PROVE  /\ is_compatible(q[i].mode, q[j].mode)
                 /\ is_compatible(q[j].mode, q[i].mode)
      <3>1. CASE ~q[i].granted
        <4>1. can_grant(q, GrantedIn(q) \cup {k \in g : k < i}, i)
          BY <1>1, <2>1, <3>1 DEF IsGrantedSet
        <4> QED
          BY <2>1, <4>1 DEF can_grant
      <3>2. CASE q[i].granted /\ ~q[j].granted
        <4>1. can_grant(q, GrantedIn(q) \cup {k \in g : k < j}, j)
          BY <1>1, <2>1, <3>2 DEF IsGrantedSet
        <4>2. i \in GrantedIn(q)
          BY <3>2 DEF GrantedIn
        <4> QED
          BY <2>1, <4>1, <4>2 DEF can_grant
      <3>3. CASE q[i].granted /\ q[j].granted
        BY <1>8, <2>1, <3>3 DEF CompatibleQueue
      <3> QED
        BY <3>1, <3>2, <3>3
    <2>2. ASSUME NEW i \in 1 .. Len(q), NEW j \in 1 .. Len(q),
                 i \in g, j \in g, q[i].txn # q[j].txn
          PROVE  is_compatible(q[i].mode, q[j].mode)
      <3>1. CASE j < i
        BY <2>1, <2>2, <3>1
      <3>2. CASE i < j
        BY <2>1, <2>2, <3>2
      <3> QED
        BY <2>2, <3>1, <3>2
    <2> QED
      BY <1>3, <1>4, <2>2 DEF CompatibleQueue
  <1>9. SettledQueue(r)
    <2>1. ASSUME NEW i \in 1 .. Len(q), i \notin g
          PROVE  \E j \in g : /\ q[j].txn # q[i].txn
                              /\ ~is_compatible(q[j].mode, q[i].mode)
      <3>1. ~can_grant(q, GrantedIn(q) \cup {k \in g : k < i}, i)
        BY <1>1, <2>1 DEF IsGrantedSet
      <3>2. PICK j \in GrantedIn(q) \cup {k \in g : k < i} :
                /\ q[j].txn # q[i].txn
                /\ ~(/\ is_compatible(q[j].mode, q[i].mode)
                     /\ is_compatible(q[i].mode, q[j].mode))
        BY <3>1 DEF can_grant
      <3>3. j \in g /\ j \in 1 .. Len(q)
        BY <1>5 DEF GrantedIn
      <3>4. ~is_compatible(q[j].mode, q[i].mode)
        BY <1>6, <3>2, <3>3, CompatibleSymmetric
      <3> QED
        BY <3>2, <3>3, <3>4
    <2> QED
      BY <1>3, <1>4, <2>1 DEF SettledQueue
  <1> QED
    BY <1>3, <1>4, <1>5, <1>7, <1>8, <1>9

\* Taking out the ungranted request of t leaves the rest of the queue settled.
LEMMA SettledWithout ==
    ASSUME NEW q \in Seq(LockRequest), NEW t \in Txn, SingleQueue(q),
           SettledQueue(q), ~HoldsAt(q, t), NEW r \in Without(q, t)
    PROVE  SettledQueue(r)
  <1>1. /\ \A k \in 1 .. Len(r) : \E l \in 1 .. Len(q) : r[k] = q[l]
        /\ \A l \in 1 .. Len(q) : q[l].txn # t =>
              \E k \in 1 .. Len(r) : r[k] = q[l]
    BY WithoutFacts
  <1>2. ASSUME NEW k \in 1 .. Len(r), ~r[k].granted
        PROVE  \E n \in 1 .. Len(r) : /\ r[n].granted /\ r[n].txn # r[k].txn
                                      /\ ~is_compatible(r[n].mode, r[k].mode)
    <2>1. PICK l \in 1 .. Len(q) : r[k] = q[l]
      BY <1>1
    <2>2. PICK j \in 1 .. Len(q) : /\ q[j].granted /\ q[j].txn # q[l].txn
                                   /\ ~is_compatible(q[j].mode, q[l].mode)
      BY <1>2, <2>1 DEF SettledQueue
    <2>3. q[j].txn # t
      BY <2>2 DEF HoldsAt
    <2>4. PICK n \in 1 .. Len(r) : r[n] = q[j]
      BY <1>1, <2>3
    <2> QED
      BY <2>1, <2>2, <2>4
  <1> QED
    BY <1>2 DEF SettledQueue

-----------------------------------------------------------------------------
(* The inductive invariant: NoMissedGrant and GrantedCompatible need that a *)
(* locker has one request per queue, and that needs that an idle locker     *)
(* has no ungranted request anywhere.                                      *)

LockInv ==
    /\ TypeOK
    /\ OneRequestPerTxn
    /\ GrantedCompatible
    /\ NoMissedGrant
    /\ WaitingRequestHasWaiter

\* Replacing one queue by a well-formed one keeps the queue invariants.
LEMMA ReplaceQueue ==
    ASSUME LockInv, NEW o \in Obj, NEW r \in Seq(LockRequest),
           SingleQueue(r), CompatibleQueue(r), SettledQueue(r),
           requests' = [requests EXCEPT ![o] = r]
    PROVE  /\ requests' \in [Obj -> Seq(LockRequest)]
           /\ OneRequestPerTxn' /\ GrantedCompatible' /\ NoMissedGrant'
  <1>1. requests \in [Obj -> Seq(LockRequest)]
    BY DEF LockInv, TypeOK
  <1>2. \A p \in Obj : requests'[p] = IF p = o THEN r ELSE requests[p]
    BY <1>1
  <1>3. OneRequestPerTxn'
    BY <1>2 DEF LockInv, OneRequestPerTxn
  <1>4. GrantedCompatible'
    BY <1>2 DEF LockInv, GrantedCompatible
  <1>5. NoMissedGrant'
    BY <1>2 DEF LockInv, NoMissedGrant
  <1> QED
    BY <1>1, <1>3, <1>4, <1>5

\* Ungranted requests keep their waiters when one queue is replaced, if those
\* in the new queue have theirs and no other locker's call changes its object.
LEMMA ReplaceWaiters ==
    ASSUME LockInv, NEW o \in Obj, NEW r, NEW t \in Txn,
           requests' = [requests EXCEPT ![o] = r],
           r \in Seq(LockRequest),
           \A u \in Txn \ {t} : call[u].pc \in Waiting =>
               call'[u].pc \in Waiting /\ call'[u].obj = call[u].obj,
           \A k \in 1 .. Len(r) : ~r[k].granted =>
               call'[r[k].txn].pc \in Waiting /\ call'[r[k].txn].obj = o,
           call[t].pc \in Waiting => call[t].obj = o
    PROVE  WaitingRequestHasWaiter'
  <1>1. requests \in [Obj -> Seq(LockRequest)]
    BY DEF LockInv, TypeOK
  <1>2. ASSUME NEW p \in Obj, p # o, NEW i \in 1 .. Len(requests[p]),
               ~requests[p][i].granted
        PROVE  /\ call'[requests[p][i].txn].pc \in Waiting
               /\ call'[requests[p][i].txn].obj = p
    <2>1. requests[p] \in Seq(LockRequest)
      BY <1>1
    <2>2. requests[p][i].txn \in Txn
      BY <2>1, RequestFacts
    <2>3. /\ call[requests[p][i].txn].pc \in Waiting
          /\ call[requests[p][i].txn].obj = p
      BY <1>2 DEF LockInv, WaitingRequestHasWaiter
    <2>4. requests[p][i].txn # t
      BY <1>2, <2>3
    <2> QED
      BY <2>2, <2>3, <2>4
  <1>3. \A p \in Obj : requests'[p] = IF p = o THEN r ELSE requests[p]
    BY <1>1
  <1> QED
    BY <1>2, <1>3 DEF WaitingRequestHasWaiter

\* A locker that holds the object through q has no ungranted request in q.
LEMMA HolderHasNoWait ==
    ASSUME NEW q, NEW t, SingleQueue(q), HoldsAt(q, t),
           NEW k \in 1 .. Len(q), ~q[k].granted
    PROVE  q[k].txn # t
  BY DEF SingleQueue, HoldsAt

\* The states of a thread outside a lock call.
LEMMA CallFacts ==
    /\ Idle \in Call /\ Idle.pc \notin Waiting
    /\ At("done") \in Call /\ At("done").pc \notin Waiting
    /\ At("unlocking") \in Call /\ At("unlocking").pc \notin Waiting
  BY DEF Idle, At, Call, Waiting, LockMode, kAccessShare, kAccessExclusive

\* Giving up a wait preserves the invariant.
LEMMA GiveUpStep ==
    ASSUME LockInv, NEW t \in Txn, NEW o \in Obj, NEW q \in Seq(LockRequest),
           SingleQueue(q), CompatibleQueue(q), SettledQueue(q),
           call[t].pc \in Waiting => call[t].obj = o,
           \A k \in 1 .. Len(q) : ~q[k].granted =>
               \/ q[k].txn = t
               \/ call[q[k].txn].pc \in Waiting /\ call[q[k].txn].obj = o,
           GiveUp(t, o, q), UNCHANGED <<tableIds, latch>>
    PROVE  LockInv'
  <1> USE DEF GiveUp
  <1>1. PICK r \in Seq(LockRequest) :
            /\ requests' = [requests EXCEPT ![o] = r]
            /\ SingleQueue(r) /\ CompatibleQueue(r) /\ SettledQueue(r)
            /\ \A k \in 1 .. Len(r) : ~r[k].granted =>
                  r[k].txn # t /\ \E l \in 1 .. Len(q) : r[k] = q[l]
    <2>1. CASE HoldsAt(q, t)
      BY <2>1, HolderHasNoWait
    <2>2. CASE ~HoldsAt(q, t)
      <3>1. PICK r \in Without(q, t) : requests' = [requests EXCEPT ![o] = r]
        BY <2>2
      <3>2. /\ r \in Seq(LockRequest) /\ SingleQueue(r) /\ CompatibleQueue(r)
            /\ \A k \in 1 .. Len(r) : /\ r[k].txn # t
                                      /\ \E l \in 1 .. Len(q) : r[k] = q[l]
        BY WithoutFacts
      <3>3. SettledQueue(r)
        BY <2>2, SettledWithout
      <3> QED
        BY <3>1, <3>2, <3>3
    <2> QED
      BY <2>1, <2>2
  <1>2. /\ requests' \in [Obj -> Seq(LockRequest)]
        /\ OneRequestPerTxn' /\ GrantedCompatible' /\ NoMissedGrant'
    BY <1>1, ReplaceQueue
  <1>3. /\ call \in [Txn -> Call]
        /\ call' = [call EXCEPT ![t] = Idle]
    BY DEF LockInv, TypeOK
  <1>4. Idle \in Call /\ Idle.pc \notin Waiting
    BY CallFacts
  <1>5. \A u \in Txn : call'[u] = IF u = t THEN Idle ELSE call[u]
    BY <1>3
  <1>6. TypeOK'
    BY <1>2, <1>3, <1>4, <1>5 DEF LockInv, TypeOK
  <1>7. \A k \in 1 .. Len(r) : ~r[k].granted =>
            call'[r[k].txn].pc \in Waiting /\ call'[r[k].txn].obj = o
    <2> SUFFICES ASSUME NEW k \in 1 .. Len(r), ~r[k].granted
                 PROVE  call'[r[k].txn].pc \in Waiting /\ call'[r[k].txn].obj = o
      OBVIOUS
    <2>1. r[k].txn \in Txn
      BY RequestFacts
    <2>2. PICK l \in 1 .. Len(q) : r[k] = q[l]
      BY <1>1
    <2>3. r[k].txn # t
      BY <1>1
    <2>4. call[r[k].txn].pc \in Waiting /\ call[r[k].txn].obj = o
      BY <2>2, <2>3
    <2> QED
      BY <1>5, <2>1, <2>3, <2>4
  <1>8. WaitingRequestHasWaiter'
    <2>1. \A u \in Txn \ {t} : call[u].pc \in Waiting =>
            call'[u].pc \in Waiting /\ call'[u].obj = call[u].obj
      BY <1>5
    <2> QED
      BY <1>1, <1>7, <2>1, ReplaceWaiters
  <1> QED
    BY <1>2, <1>6, <1>8 DEF LockInv

\* One round of the wait loop preserves the invariant.
LEMMA WaitLoopStep ==
    ASSUME LockInv, NEW t \in Txn, NEW o \in Obj, NEW m \in LockMode,
           NEW q \in Seq(LockRequest), SingleQueue(q), CompatibleQueue(q),
           call[t].pc \in Waiting => call[t].obj = o,
           \A k \in 1 .. Len(q) : ~q[k].granted =>
               \/ q[k].txn = t
               \/ call[q[k].txn].pc \in Waiting /\ call[q[k].txn].obj = o,
           WaitLoop(t, o, m, q), UNCHANGED <<tableIds, latch>>
    PROVE  LockInv'
  <1>1. PICK r \in grant_pending(q) :
            \/ /\ HoldsAt(r, t)
               /\ requests' = [requests EXCEPT ![o] = r]
               /\ Succeed(t, o)
            \/ GiveUp(t, o, r)
            \/ /\ requests' = [requests EXCEPT ![o] = r]
               /\ call' = [call EXCEPT ![t] = [pc |-> "asleep", obj |-> o, mode |-> m]]
               /\ UNCHANGED <<txnLocks, txnRecordLocks>>
    BY DEF WaitLoop
  <1>2. /\ r \in Seq(LockRequest) /\ Len(r) = Len(q)
        /\ \A i \in 1 .. Len(q) : /\ r[i].txn = q[i].txn
                                  /\ q[i].granted => r[i].granted
        /\ SingleQueue(r) /\ CompatibleQueue(r) /\ SettledQueue(r)
    BY GrantFacts
  <1>3. \A k \in 1 .. Len(r) : ~r[k].granted =>
               \/ r[k].txn = t
               \/ call[r[k].txn].pc \in Waiting /\ call[r[k].txn].obj = o
    BY <1>2
  <1>t. /\ call \in [Txn -> Call]
        /\ txnLocks \in [Txn -> [has : BOOLEAN, ids : SUBSET Table]]
        /\ txnRecordLocks \in [Txn -> SUBSET Rec]
        /\ \A k \in 1 .. Len(r) : r[k].txn \in Txn
    BY <1>2, RequestFacts DEF LockInv, TypeOK
  <1>4. CASE GiveUp(t, o, r)
    BY <1>2, <1>3, <1>4, GiveUpStep
  <1>5. CASE /\ HoldsAt(r, t)
             /\ requests' = [requests EXCEPT ![o] = r]
             /\ Succeed(t, o)
    <2>1. /\ requests' \in [Obj -> Seq(LockRequest)]
          /\ OneRequestPerTxn' /\ GrantedCompatible' /\ NoMissedGrant'
      BY <1>2, <1>5, ReplaceQueue
    <2>2. /\ Idle \in Call /\ Idle.pc \notin Waiting
      BY CallFacts
    <2>3. \A u \in Txn : call'[u] = IF u = t THEN Idle ELSE call[u]
      BY <1>5, <1>t DEF Succeed
    <2>4. call' \in [Txn -> Call]
      BY <1>5, <1>t, <2>2 DEF Succeed
    <2>5. /\ txnLocks' \in [Txn -> [has : BOOLEAN, ids : SUBSET Table]]
          /\ txnRecordLocks' \in [Txn -> SUBSET Rec]
      <3>1. CASE o \in Table
        <4>1. [has |-> TRUE, ids |-> txnLocks[t].ids \cup {o}]
                 \in [has : BOOLEAN, ids : SUBSET Table]
          BY <1>t, <3>1
        <4> QED
          BY <1>5, <1>t, <3>1, <4>1 DEF Succeed
      <3>2. CASE o \notin Table
        <4>1. o \in Rec
          BY <3>2 DEF Obj
        <4>2. /\ txnRecordLocks' = [txnRecordLocks EXCEPT ![t] = @ \cup {o}]
              /\ txnLocks' = txnLocks
          BY <1>5, <3>2 DEF Succeed
        <4> QED
          BY <1>t, <4>1, <4>2
      <3> QED
        BY <3>1, <3>2
    <2>6. TypeOK'
      BY <2>1, <2>2, <2>3, <2>4, <2>5 DEF LockInv, TypeOK
    <2>7. \A k \in 1 .. Len(r) : ~r[k].granted => r[k].txn # t
      BY <1>2, <1>5, HolderHasNoWait
    <2>8. \A k \in 1 .. Len(r) : ~r[k].granted =>
              call'[r[k].txn].pc \in Waiting /\ call'[r[k].txn].obj = o
      BY <1>3, <1>t, <2>3, <2>7
    <2>9. WaitingRequestHasWaiter'
      <3>1. \A u \in Txn \ {t} : call[u].pc \in Waiting =>
              call'[u].pc \in Waiting /\ call'[u].obj = call[u].obj
        BY <2>3
      <3>2. requests' = [requests EXCEPT ![o] = r] /\ r \in Seq(LockRequest)
        BY <1>2, <1>5
      <3> QED
        BY <2>8, <3>1, <3>2, ReplaceWaiters, Zenon
    <2> QED
      BY <2>1, <2>6, <2>9 DEF LockInv
  <1>6. CASE /\ requests' = [requests EXCEPT ![o] = r]
             /\ call' = [call EXCEPT ![t] = [pc |-> "asleep", obj |-> o, mode |-> m]]
             /\ UNCHANGED <<txnLocks, txnRecordLocks>>
    <2> DEFINE c == [pc |-> "asleep", obj |-> o, mode |-> m]
    <2>1. /\ requests' \in [Obj -> Seq(LockRequest)]
          /\ OneRequestPerTxn' /\ GrantedCompatible' /\ NoMissedGrant'
      BY <1>2, <1>6, ReplaceQueue
    <2>2. /\ c \in Call /\ c.pc \in Waiting /\ c.obj = o
      BY DEF Call, Waiting
    <2> HIDE DEF c
    <2>3. \A u \in Txn : call'[u] = IF u = t THEN c ELSE call[u]
      BY <1>6, <1>t DEF c
    <2>4. call' \in [Txn -> Call]
      BY <1>6, <1>t, <2>2 DEF c
    <2>5. TypeOK'
      BY <1>6, <1>t, <2>1, <2>2, <2>3, <2>4 DEF LockInv, TypeOK
    <2>6. \A k \in 1 .. Len(r) : ~r[k].granted =>
              call'[r[k].txn].pc \in Waiting /\ call'[r[k].txn].obj = o
      BY <1>3, <1>t, <2>2, <2>3
    <2>7. WaitingRequestHasWaiter'
      <3>1. \A u \in Txn \ {t} : call[u].pc \in Waiting =>
              call'[u].pc \in Waiting /\ call'[u].obj = call[u].obj
        BY <2>3
      <3>2. requests' = [requests EXCEPT ![o] = r] /\ r \in Seq(LockRequest)
        BY <1>2, <1>6
      <3> QED
        BY <2>6, <3>1, <3>2, ReplaceWaiters, Zenon
    <2> QED
      BY <2>1, <2>5, <2>7 DEF LockInv
  <1> QED
    BY <1>1, <1>4, <1>5, <1>6

\* A broadcast keeps every waiter waiting for its object.
LEMMA WokenFacts ==
    ASSUME call \in [Txn -> Call]
    PROVE  /\ Woken(call) \in [Txn -> Call]
           /\ \A u \in Txn : /\ Woken(call)[u].pc \in Waiting <=> call[u].pc \in Waiting
                             /\ Woken(call)[u].obj = call[u].obj
  <1>1. ASSUME NEW u \in Txn
        PROVE  /\ Woken(call)[u] \in Call
               /\ Woken(call)[u].pc \in Waiting <=> call[u].pc \in Waiting
               /\ Woken(call)[u].obj = call[u].obj
    <2>1. call[u] \in Call
      OBVIOUS
    <2>2. Woken(call)[u] = IF call[u].pc = "asleep"
                           THEN [call[u] EXCEPT !.pc = "woken"] ELSE call[u]
      BY DEF Woken
    <2> QED
      BY <2>1, <2>2 DEF Call, Waiting
  <1> QED
    BY <1>1 DEF Woken

\* Releasing the requests of a locker that is not waiting, with the broadcast
\* that follows, preserves the queue invariants.
LEMMA ReleaseStep ==
    ASSUME LockInv, NEW t \in Txn, NEW o \in Obj, call[t].pc \notin Waiting,
           Release(t, o), call' = Woken(call)
    PROVE  /\ requests' \in [Obj -> Seq(LockRequest)]
           /\ call' \in [Txn -> Call]
           /\ \A u \in Txn : call'[u].pc \in Waiting => call'[u].obj \in Obj
           /\ OneRequestPerTxn' /\ GrantedCompatible' /\ NoMissedGrant'
           /\ WaitingRequestHasWaiter'
  <1> DEFINE q == requests[o]
  <1>1. /\ q \in Seq(LockRequest) /\ SingleQueue(q) /\ CompatibleQueue(q)
        /\ call \in [Txn -> Call]
        /\ \A u \in Txn : call[u].pc \in Waiting => call[u].obj \in Obj
        /\ \A k \in 1 .. Len(q) : ~q[k].granted =>
              call[q[k].txn].pc \in Waiting /\ call[q[k].txn].obj = o
    BY DEF LockInv, TypeOK, OneRequestPerTxn, GrantedCompatible,
           WaitingRequestHasWaiter
  <1>a. PICK w \in Without(q, t) : \E r \in grant_pending(w) :
            requests' = [requests EXCEPT ![o] = r]
    BY DEF Release
  <1>2. PICK r \in grant_pending(w) : requests' = [requests EXCEPT ![o] = r]
    BY <1>a
  <1> HIDE DEF q
  <1>3. /\ w \in Seq(LockRequest) /\ SingleQueue(w) /\ CompatibleQueue(w)
        /\ \A k \in 1 .. Len(w) : /\ w[k].txn # t
                                  /\ \E l \in 1 .. Len(q) : w[k] = q[l]
    BY <1>1, WithoutFacts
  <1>4. /\ r \in Seq(LockRequest) /\ Len(r) = Len(w)
        /\ \A i \in 1 .. Len(w) : /\ r[i].txn = w[i].txn
                                  /\ w[i].granted => r[i].granted
        /\ SingleQueue(r) /\ CompatibleQueue(r) /\ SettledQueue(r)
    BY <1>3, GrantFacts
  <1>5. /\ requests' \in [Obj -> Seq(LockRequest)]
        /\ OneRequestPerTxn' /\ GrantedCompatible' /\ NoMissedGrant'
    BY <1>2, <1>4, ReplaceQueue
  <1>6. /\ call' \in [Txn -> Call]
        /\ \A u \in Txn : /\ call'[u].pc \in Waiting <=> call[u].pc \in Waiting
                          /\ call'[u].obj = call[u].obj
    BY <1>1, WokenFacts
  <1>7. \A k \in 1 .. Len(r) : ~r[k].granted =>
            call'[r[k].txn].pc \in Waiting /\ call'[r[k].txn].obj = o
    <2> SUFFICES ASSUME NEW k \in 1 .. Len(r), ~r[k].granted
                 PROVE  call'[r[k].txn].pc \in Waiting /\ call'[r[k].txn].obj = o
      OBVIOUS
    <2>1. r[k].txn \in Txn /\ k \in 1 .. Len(w) /\ ~w[k].granted /\ r[k].txn = w[k].txn
      BY <1>4, RequestFacts
    <2>2. PICK l \in 1 .. Len(q) : w[k] = q[l]
      BY <1>3, <2>1
    <2>3. call[r[k].txn].pc \in Waiting /\ call[r[k].txn].obj = o
      BY <1>1, <2>1, <2>2
    <2> QED
      BY <1>6, <2>1, <2>3
  <1>8. WaitingRequestHasWaiter'
    <2>1. \A u \in Txn \ {t} : call[u].pc \in Waiting =>
              call'[u].pc \in Waiting /\ call'[u].obj = call[u].obj
      BY <1>6
    <2> QED
      BY <1>2, <1>4, <1>7, <2>1, ReplaceWaiters
  <1>9. \A u \in Txn : call'[u].pc \in Waiting => call'[u].obj \in Obj
    BY <1>1, <1>6
  <1> QED
    BY <1>5, <1>6, <1>8, <1>9

\* An upgrade in place keeps its queue well formed and settled.
LEMMA UpgradeFacts ==
    ASSUME NEW q \in Seq(LockRequest), SingleQueue(q), CompatibleQueue(q),
           SettledQueue(q), NEW i \in 1 .. Len(q), NEW m \in LockMode,
           q[i].granted, q[i].mode < m, can_upgrade(q, i, m),
           NEW r, r = [q EXCEPT ![i].mode = m]
    PROVE  /\ r \in Seq(LockRequest)
           /\ SingleQueue(r) /\ CompatibleQueue(r) /\ SettledQueue(r)
           /\ Len(r) = Len(q)
           /\ \A k \in 1 .. Len(q) : r[k].txn = q[k].txn /\ r[k].granted = q[k].granted
  <1>1. q[i] \in LockRequest /\ \A k \in 1 .. Len(q) : q[k].mode \in LockMode
    BY RequestFacts
  <1>2. /\ [q[i] EXCEPT !.mode = m] \in LockRequest
        /\ [q[i] EXCEPT !.mode = m].txn = q[i].txn
        /\ [q[i] EXCEPT !.mode = m].mode = m
        /\ [q[i] EXCEPT !.mode = m].granted = q[i].granted
    BY <1>1 DEF LockRequest
  <1>3. /\ r \in Seq(LockRequest) /\ Len(r) = Len(q)
        /\ \A k \in 1 .. Len(q) :
              r[k] = IF k = i THEN [q[i] EXCEPT !.mode = m] ELSE q[k]
    BY <1>2
  <1>4. \A k \in 1 .. Len(q) :
            /\ r[k].txn = q[k].txn /\ r[k].granted = q[k].granted
            /\ r[k].mode = IF k = i THEN m ELSE q[k].mode
    BY <1>2, <1>3
  <1>5. SingleQueue(r)
    BY <1>3, <1>4 DEF SingleQueue
  <1>6. CompatibleQueue(r)
    <2> SUFFICES ASSUME NEW j \in 1 .. Len(q), NEW k \in 1 .. Len(q),
                        q[j].granted, q[k].granted, q[j].txn # q[k].txn
                 PROVE  is_compatible(r[j].mode, r[k].mode)
      BY <1>3, <1>4 DEF CompatibleQueue
    <2>1. CASE j # i /\ k # i
      BY <1>4, <2>1 DEF CompatibleQueue
    <2>2. CASE j # i /\ k = i
      BY <1>4, <2>2 DEF can_upgrade
    <2>3. CASE j = i /\ k # i
      <3>1. is_compatible(q[k].mode, m)
        BY <2>3 DEF can_upgrade
      <3> QED
        BY <1>1, <1>4, <2>3, <3>1, CompatibleSymmetric
    <2> QED
      BY <2>1, <2>2, <2>3
  <1>7. SettledQueue(r)
    <2> SUFFICES ASSUME NEW k \in 1 .. Len(q), ~q[k].granted
                 PROVE  \E j \in 1 .. Len(q) :
                            /\ q[j].granted /\ q[j].txn # q[k].txn
                            /\ ~is_compatible(r[j].mode, r[k].mode)
      BY <1>3, <1>4 DEF SettledQueue
    <2>1. PICK j \in 1 .. Len(q) : /\ q[j].granted /\ q[j].txn # q[k].txn
                                   /\ ~is_compatible(q[j].mode, q[k].mode)
      BY DEF SettledQueue
    <2>2. k # i /\ r[k].mode = q[k].mode
      BY <1>4
    <2>3. ~is_compatible(r[j].mode, q[k].mode)
      BY <1>1, <1>4, <2>1, IncompatibleMonotone
    <2> QED
      BY <2>1, <2>2, <2>3
  <1> QED
    BY <1>3, <1>4, <1>5, <1>6, <1>7

-----------------------------------------------------------------------------
\* The invariant holds initially.
LEMMA InitInv == Init => LockInv
  <1> SUFFICES ASSUME Init PROVE LockInv
    OBVIOUS
  <1> USE DEF Init
  <1>1. Idle \in Call /\ Idle.pc \notin Waiting
    BY CallFacts
  <1>2. \A o \in Obj : requests[o] = <<>> /\ Len(requests[o]) = 0
    OBVIOUS
  <1>3. TypeOK
    BY <1>1 DEF TypeOK
  <1>4. /\ OneRequestPerTxn /\ GrantedCompatible /\ NoMissedGrant
        /\ WaitingRequestHasWaiter
    BY <1>2 DEF OneRequestPerTxn, SingleQueue, GrantedCompatible, CompatibleQueue,
                NoMissedGrant, SettledQueue, WaitingRequestHasWaiter
  <1> QED
    BY <1>3, <1>4 DEF LockInv

\* Every step preserves the invariant, one case per operation.
LEMMA NextInv == LockInv /\ [Next]_vars => LockInv'
  <1> SUFFICES ASSUME LockInv, [Next]_vars PROVE LockInv'
    OBVIOUS
  <1>i. /\ requests \in [Obj -> Seq(LockRequest)]
        /\ call \in [Txn -> Call]
        /\ \A t \in Txn : call[t].pc \in Waiting => call[t].obj \in Obj
        /\ \A t \in Txn : call[t].mode \in LockMode
        /\ \A o \in Obj : /\ SingleQueue(requests[o]) /\ CompatibleQueue(requests[o])
                          /\ SettledQueue(requests[o])
    <2>1. \A t \in Txn : call[t].mode \in LockMode
      BY DEF LockInv, TypeOK, Call
    <2> QED
      BY <2>1 DEF LockInv, TypeOK, OneRequestPerTxn, GrantedCompatible, NoMissedGrant
  <1>w. \A o \in Obj : \A k \in 1 .. Len(requests[o]) : ~requests[o][k].granted =>
              /\ call[requests[o][k].txn].pc \in Waiting
              /\ call[requests[o][k].txn].obj = o
    BY DEF LockInv, WaitingRequestHasWaiter
  <1>idle. /\ Idle \in Call /\ Idle.pc \notin Waiting
           /\ At("done") \in Call /\ At("done").pc \notin Waiting
           /\ At("unlocking") \in Call /\ At("unlocking").pc \notin Waiting
    BY CallFacts
  <1>1. ASSUME NEW t \in Txn, NEW o \in Obj, NEW m \in LockMode, Lock(t, o, m)
        PROVE  LockInv'
    <2> DEFINE q == requests[o]
    <2>1. q \in Seq(LockRequest) /\ SingleQueue(q) /\ CompatibleQueue(q)
      BY <1>i
    <2>2. /\ call[t] = Idle /\ ~HoldsAt(q, t)
          /\ WaitLoop(t, o, m, Append1(q, t, m)) /\ UNCHANGED <<tableIds, latch>>
      BY <1>1 DEF Lock, Holds
    <2>3. \A k \in 1 .. Len(q) : q[k].txn # t
      <3> SUFFICES ASSUME NEW k \in 1 .. Len(q), q[k].txn = t
                   PROVE  FALSE
        OBVIOUS
      <3>1. ~q[k].granted
        BY <2>2 DEF HoldsAt
      <3>2. call[q[k].txn].pc \in Waiting
        BY <1>w, <3>1
      <3> QED
        BY <1>idle, <2>2, <3>2
    <2>4. \A k \in 1 .. Len(q) : ~q[k].granted =>
              call[q[k].txn].pc \in Waiting /\ call[q[k].txn].obj = o
      BY <1>w
    <2> HIDE DEF q
    <2> DEFINE r == Append1(q, t, m)
    <2>5. /\ r \in Seq(LockRequest) /\ SingleQueue(r) /\ CompatibleQueue(r)
          /\ \A i \in 1 .. Len(r) : ~r[i].granted =>
                 r[i].txn = t \/ \E j \in 1 .. Len(q) : r[i] = q[j]
      BY <2>1, <2>3, AppendFacts
    <2> HIDE DEF r
    <2>6. \A i \in 1 .. Len(r) : ~r[i].granted =>
              \/ r[i].txn = t
              \/ call[r[i].txn].pc \in Waiting /\ call[r[i].txn].obj = o
      BY <2>4, <2>5
    <2>7. WaitLoop(t, o, m, r) /\ (call[t].pc \in Waiting => call[t].obj = o)
      BY <1>idle, <2>2 DEF r
    <2> QED
      BY <2>2, <2>5, <2>6, <2>7, WaitLoopStep
  <1>2. ASSUME NEW t \in Txn, NEW o \in Obj, NEW m \in LockMode, Upgrade(t, o, m)
        PROVE  LockInv'
    <2>1. PICK i \in 1 .. Len(requests[o]) :
              /\ requests[o][i].granted /\ requests[o][i].mode < m
              /\ can_upgrade(requests[o], i, m)
              /\ requests' = [requests EXCEPT ![o][i].mode = m]
      BY <1>2 DEF Upgrade
    <2> DEFINE q == requests[o]
               r == [q EXCEPT ![i].mode = m]
    <2>2. requests' = [requests EXCEPT ![o] = r]
      BY <2>1
    <2>a. /\ q \in Seq(LockRequest) /\ i \in 1 .. Len(q)
          /\ SingleQueue(q) /\ CompatibleQueue(q) /\ SettledQueue(q)
          /\ q[i].granted /\ q[i].mode < m /\ can_upgrade(q, i, m)
          /\ \A k \in 1 .. Len(q) : ~q[k].granted =>
                call[q[k].txn].pc \in Waiting /\ call[q[k].txn].obj = o
      BY <1>i, <1>w, <2>1
    <2> HIDE DEF q
    <2>3. /\ r \in Seq(LockRequest)
          /\ SingleQueue(r) /\ CompatibleQueue(r) /\ SettledQueue(r)
          /\ Len(r) = Len(q)
          /\ \A k \in 1 .. Len(q) : r[k].txn = q[k].txn /\ r[k].granted = q[k].granted
      BY <2>a, UpgradeFacts
    <2> HIDE DEF r
    <2>4. UNCHANGED <<txnLocks, txnRecordLocks, call, tableIds, latch>>
      BY <1>2 DEF Upgrade
    <2>5. /\ requests' \in [Obj -> Seq(LockRequest)]
          /\ OneRequestPerTxn' /\ GrantedCompatible' /\ NoMissedGrant'
      BY <2>2, <2>3, ReplaceQueue
    <2>6. TypeOK'
      BY <2>4, <2>5 DEF LockInv, TypeOK
    <2>7. WaitingRequestHasWaiter'
      <3>1. \A p \in Obj : requests'[p] = IF p = o THEN r ELSE requests[p]
        BY <1>i, <2>2
      <3>2. \A k \in 1 .. Len(r) : ~r[k].granted =>
                call[r[k].txn].pc \in Waiting /\ call[r[k].txn].obj = o
        BY <2>3, <2>a
      <3> SUFFICES ASSUME NEW p \in Obj, NEW k \in 1 .. Len(requests'[p]),
                          ~requests'[p][k].granted
                   PROVE  /\ call'[requests'[p][k].txn].pc \in Waiting
                          /\ call'[requests'[p][k].txn].obj = p
        BY Zenon DEF WaitingRequestHasWaiter
      <3>3. call' = call
        BY <2>4
      <3>4. CASE p = o
        BY <3>1, <3>2, <3>3, <3>4
      <3>5. CASE p # o
        <4>1. requests'[p] = requests[p]
          BY <3>1, <3>5
        <4> QED
          BY <1>w, <3>3, <4>1
      <3> QED
        BY <3>4, <3>5
    <2> QED
      BY <2>5, <2>6, <2>7 DEF LockInv
  <1>3. ASSUME NEW t \in Txn, Retry(t) PROVE LockInv'
    <2>1. /\ call[t].pc \in Waiting /\ UNCHANGED <<tableIds, latch>>
          /\ WaitLoop(t, call[t].obj, call[t].mode, requests[call[t].obj])
      BY <1>3 DEF Retry, Waiting
    <2>2. call[t].obj \in Obj /\ call[t].mode \in LockMode
      BY <1>i, <2>1
    <2>3. PICK o \in Obj : o = call[t].obj
      BY <2>2
    <2>4. PICK q \in Seq(LockRequest) :
              /\ q = requests[o] /\ SingleQueue(q) /\ CompatibleQueue(q)
              /\ \A k \in 1 .. Len(q) : ~q[k].granted =>
                    call[q[k].txn].pc \in Waiting /\ call[q[k].txn].obj = o
      BY <1>i, <1>w
    <2> QED
      BY <2>1, <2>2, <2>3, <2>4, WaitLoopStep
  <1>4. ASSUME NEW t \in Txn, Expire(t) PROVE LockInv'
    <2>1. /\ call[t].pc = "asleep" /\ call' = [call EXCEPT ![t].pc = "expired"]
          /\ UNCHANGED <<requests, txnLocks, txnRecordLocks, tableIds, latch>>
      BY <1>4 DEF Expire
    <2>2. /\ call' \in [Txn -> Call]
          /\ \A u \in Txn : /\ call'[u].pc \in Waiting <=> call[u].pc \in Waiting
                            /\ call'[u].obj = call[u].obj
      <3>1. call[t] \in Call
        BY <1>i
      <3>2. /\ [call[t] EXCEPT !.pc = "expired"] \in Call
            /\ [call[t] EXCEPT !.pc = "expired"].pc \in Waiting
            /\ [call[t] EXCEPT !.pc = "expired"].obj = call[t].obj
        BY <3>1 DEF Call, Waiting
      <3>3. call[t].pc \in Waiting
        BY <2>1 DEF Waiting
      <3>4. call' = [call EXCEPT ![t] = [call[t] EXCEPT !.pc = "expired"]]
        BY <2>1
      <3> QED
        BY <1>i, <3>2, <3>3, <3>4
    <2>3. TypeOK'
      BY <1>i, <2>1, <2>2 DEF LockInv, TypeOK
    <2>4. OneRequestPerTxn' /\ GrantedCompatible' /\ NoMissedGrant'
      BY <2>1 DEF LockInv, OneRequestPerTxn, GrantedCompatible, NoMissedGrant
    <2>5. \A o \in Obj : \A k \in 1 .. Len(requests[o]) : requests[o][k].txn \in Txn
      BY <1>i, RequestFacts
    <2>6. WaitingRequestHasWaiter'
      <3>r. requests' = requests
        BY <2>1
      <3> SUFFICES ASSUME NEW p \in Obj, NEW k \in 1 .. Len(requests[p]),
                          ~requests[p][k].granted
                   PROVE  /\ call'[requests[p][k].txn].pc \in Waiting
                          /\ call'[requests[p][k].txn].obj = p
        BY <3>r, Zenon DEF WaitingRequestHasWaiter
      <3>1. /\ call[requests[p][k].txn].pc \in Waiting
            /\ call[requests[p][k].txn].obj = p
        BY <1>w
      <3>2. requests[p][k].txn \in Txn
        BY <2>5
      <3> QED
        BY <2>2, <3>1, <3>2
    <2> QED
      BY <2>3, <2>4, <2>6 DEF LockInv
  <1>5. ASSUME NEW t \in Txn, TimeoutReturn(t) PROVE LockInv'
    <2>1. /\ call[t].pc \in Waiting /\ UNCHANGED <<tableIds, latch>>
          /\ GiveUp(t, call[t].obj, requests[call[t].obj])
      BY <1>5 DEF TimeoutReturn, Waiting
    <2>3. PICK o \in Obj : o = call[t].obj
      BY <1>i, <2>1
    <2>4. PICK q \in Seq(LockRequest) :
              /\ q = requests[o]
              /\ SingleQueue(q) /\ CompatibleQueue(q) /\ SettledQueue(q)
              /\ \A k \in 1 .. Len(q) : ~q[k].granted =>
                    call[q[k].txn].pc \in Waiting /\ call[q[k].txn].obj = o
      BY <1>i, <1>w
    <2> QED
      BY <2>1, <2>3, <2>4, GiveUpStep
  <1>6. ASSUME NEW t \in Txn, NEW o \in Table, UnlockTable(t, o) PROVE LockInv'
    <2>1. /\ o \in Obj /\ call[t].pc \notin Waiting
          /\ Release(t, o) /\ call' = Woken(call)
          /\ txnLocks' = [txnLocks EXCEPT ![t].ids = @ \ {o}]
          /\ UNCHANGED <<txnRecordLocks, tableIds, latch>>
      BY <1>6, <1>idle DEF UnlockTable, Obj
    <2> QED
      BY <2>1, ReleaseStep DEF LockInv, TypeOK
  <1>7. ASSUME NEW t \in Txn, NEW o \in Rec, UnlockRecord(t, o) PROVE LockInv'
    <2>1. /\ o \in Obj /\ call[t].pc \notin Waiting
          /\ Release(t, o) /\ call' = Woken(call)
          /\ UNCHANGED <<txnLocks, txnRecordLocks, tableIds, latch>>
      BY <1>7, <1>idle DEF UnlockRecord, Obj
    <2> QED
      BY <2>1, ReleaseStep DEF LockInv, TypeOK
  <1>8. ASSUME NEW t \in Txn, UnlockAll(t) PROVE LockInv'
    <2>1. PICK c \in Call : call' = [call EXCEPT ![t] = c] /\ c.pc \notin Waiting
      BY <1>8, <1>idle DEF UnlockAll
    <2>2. /\ call[t].pc \notin Waiting
          /\ tableIds' = [tableIds EXCEPT ![t] = txnLocks[t].ids]
          /\ UNCHANGED <<requests, txnLocks, txnRecordLocks, latch>>
      BY <1>8, <1>idle DEF UnlockAll
    <2>3. \A u \in Txn : call'[u] = IF u = t THEN c ELSE call[u]
      BY <1>i, <2>1
    <2>4. TypeOK'
      BY <1>i, <2>1, <2>2, <2>3 DEF LockInv, TypeOK
    <2>5. OneRequestPerTxn' /\ GrantedCompatible' /\ NoMissedGrant'
      BY <2>2 DEF LockInv, OneRequestPerTxn, GrantedCompatible, NoMissedGrant
    <2>6. \A o \in Obj : \A k \in 1 .. Len(requests[o]) : requests[o][k].txn \in Txn
      BY <1>i, RequestFacts
    <2>7. WaitingRequestHasWaiter'
      <3>r. requests' = requests
        BY <2>2
      <3> SUFFICES ASSUME NEW p \in Obj, NEW k \in 1 .. Len(requests[p]),
                          ~requests[p][k].granted
                   PROVE  /\ call'[requests[p][k].txn].pc \in Waiting
                          /\ call'[requests[p][k].txn].obj = p
        BY <3>r, Zenon DEF WaitingRequestHasWaiter
      <3>1. /\ call[requests[p][k].txn].pc \in Waiting
            /\ call[requests[p][k].txn].obj = p
        BY <1>w DEF WaitingRequestHasWaiter
      <3>2. requests[p][k].txn \in Txn /\ requests[p][k].txn # t
        BY <2>2, <2>6, <3>1
      <3> QED
        BY <2>3, <3>1, <3>2
    <2> QED
      BY <2>4, <2>5, <2>7 DEF LockInv
  <1>9. ASSUME NEW t \in Txn, NEW o \in Table, UnlockAllTable(t, o) PROVE LockInv'
    <2>1. /\ o \in Obj /\ call[t].pc \notin Waiting
          /\ Release(t, o) /\ call' = Woken(call)
          /\ txnLocks' = [txnLocks EXCEPT ![t].ids = @ \ {o}]
          /\ tableIds' = [tableIds EXCEPT ![t] = @ \ {o}]
          /\ UNCHANGED <<txnRecordLocks, latch>>
      BY <1>9 DEF UnlockAllTable, Obj, Waiting
    <2> QED
      BY <2>1, ReleaseStep DEF LockInv, TypeOK
  <1>10. ASSUME NEW t \in Txn, NEW o \in Rec, UnlockAllRecord(t, o) PROVE LockInv'
    <2>1. /\ o \in Obj /\ call[t].pc \notin Waiting
          /\ Release(t, o) /\ call' = Woken(call)
          /\ txnRecordLocks' = [txnRecordLocks EXCEPT ![t] = @ \ {o}]
          /\ latch' = t
          /\ UNCHANGED <<txnLocks, tableIds>>
      BY <1>10 DEF UnlockAllRecord, Obj, Waiting
    <2> QED
      BY <2>1, ReleaseStep DEF LockInv, TypeOK
  <1>11. ASSUME NEW t \in Txn, UnlockAllDone(t) PROVE LockInv'
    <2>1. /\ call' = [call EXCEPT ![t] = At("done")] /\ call[t].pc \notin Waiting
          /\ txnLocks' = [txnLocks EXCEPT ![t] = [has |-> FALSE, ids |-> {}]]
          /\ latch' = None
          /\ UNCHANGED <<requests, txnRecordLocks, tableIds>>
      BY <1>11 DEF UnlockAllDone, Waiting
    <2>3. \A u \in Txn : call'[u] = IF u = t THEN At("done") ELSE call[u]
      BY <1>i, <2>1
    <2>4. TypeOK'
      BY <1>i, <1>idle, <2>1, <2>3 DEF LockInv, TypeOK
    <2>5. OneRequestPerTxn' /\ GrantedCompatible' /\ NoMissedGrant'
      BY <2>1 DEF LockInv, OneRequestPerTxn, GrantedCompatible, NoMissedGrant
    <2>6. \A o \in Obj : \A k \in 1 .. Len(requests[o]) : requests[o][k].txn \in Txn
      BY <1>i, RequestFacts
    <2>7. WaitingRequestHasWaiter'
      <3>r. requests' = requests
        BY <2>1
      <3> SUFFICES ASSUME NEW p \in Obj, NEW k \in 1 .. Len(requests[p]),
                          ~requests[p][k].granted
                   PROVE  /\ call'[requests[p][k].txn].pc \in Waiting
                          /\ call'[requests[p][k].txn].obj = p
        BY <3>r, Zenon DEF WaitingRequestHasWaiter
      <3>1. /\ call[requests[p][k].txn].pc \in Waiting
            /\ call[requests[p][k].txn].obj = p
        BY <1>w DEF WaitingRequestHasWaiter
      <3>2. requests[p][k].txn \in Txn /\ requests[p][k].txn # t
        BY <2>1, <2>6, <3>1
      <3> QED
        BY <2>3, <3>1, <3>2
    <2> QED
      BY <2>4, <2>5, <2>7 DEF LockInv
  <1>12. CASE UNCHANGED vars
    BY <1>12 DEF LockInv, vars, TypeOK, OneRequestPerTxn, GrantedCompatible,
                 NoMissedGrant, WaitingRequestHasWaiter
  <1> QED
    BY <1>1, <1>2, <1>3, <1>4, <1>5, <1>6, <1>7, <1>8, <1>9, <1>10, <1>11, <1>12
       DEF Next, UnlockAllStep

-----------------------------------------------------------------------------
\* The types of the lock manager's state are respected by every operation.
THEOREM LockTypeOK == Spec => []TypeOK
  <1>1. LockInv => TypeOK
    BY DEF LockInv
  <1> QED
    BY InitInv, NextInv, <1>1, PTL DEF Spec

\* Whatever the lockers do, no two of them are granted incompatible modes on
\* one table, record or key.
THEOREM LockGrantedCompatible == Spec => []GrantedCompatible
  <1>1. LockInv => GrantedCompatible
    BY DEF LockInv
  <1> QED
    BY InitInv, NextInv, <1>1, PTL DEF Spec

\* No request is left waiting that could be granted.
THEOREM LockNoMissedGrant == Spec => []NoMissedGrant
  <1>1. LockInv => NoMissedGrant
    BY DEF LockInv
  <1> QED
    BY InitInv, NextInv, <1>1, PTL DEF Spec

\* A locker has one request per queue, and an ungranted request belongs to a
\* thread that is inside the lock call for it.
THEOREM LockRequestsOwned == Spec => [](OneRequestPerTxn /\ WaitingRequestHasWaiter)
  <1>1. LockInv => OneRequestPerTxn /\ WaitingRequestHasWaiter
    BY DEF LockInv
  <1> QED
    BY InitInv, NextInv, <1>1, PTL DEF Spec

=============================================================================
