---------------------------- MODULE StorageProofs ----------------------------
(***************************************************************************)
(* What the statements of Storage preserve: the type of their table, and   *)
(* for those on queue_items, that no item starts running and that no two   *)
(* active items come to share a dedupe key.                                *)
(***************************************************************************)
EXTENDS Storage, TLAPS

QueueTable == [Items -> ItemRow]

\* The index's demand, as a predicate on the contents of the table.
IndexHolds(q) == \A i, j \in Items :
                   /\ Active(q, i) /\ Active(q, j) /\ i # j
                   => q[i].key # q[j].key \/ KeyType[q[i].key] \notin IndexedTypes

-----------------------------------------------------------------------------

\* SetStatus rewrites status columns only.
LEMMA SetStatusType ==
    ASSUME NEW q \in QueueTable, NEW S, NEW st \in ItemStatus
    PROVE  SetStatus(q, S, st) \in QueueTable
BY DEF QueueTable, SetStatus, ItemRow

\* A statement that writes another status than "running" starts no item.
LEMMA SetStatusStartsNone ==
    ASSUME NEW q \in QueueTable, NEW S, NEW st, st # "running"
    PROVE  Running(SetStatus(q, S, st)) \subseteq Running(q)
BY DEF QueueTable, SetStatus, Running, ItemRow

\* A statement that writes a terminal status keeps the index.
LEMMA EndingKeepsIndex ==
    ASSUME NEW q \in QueueTable, NEW S, NEW st \in TerminalStatus, IndexHolds(q)
    PROVE  IndexHolds(SetStatus(q, S, st))
BY DEF QueueTable, SetStatus, IndexHolds, Active, ActiveStatus, TerminalStatus, ItemRow

\* One that moves active items between the active statuses keeps it too.
LEMMA ActiveMoveKeepsIndex ==
    ASSUME NEW q \in QueueTable, NEW S \in SUBSET Items, NEW st \in ActiveStatus,
           \A i \in S : Active(q, i), IndexHolds(q)
    PROVE  IndexHolds(SetStatus(q, S, st))
BY DEF QueueTable, SetStatus, IndexHolds, Active, ActiveStatus, ItemRow

\* Making one row active when the index allows it keeps the index.
LEMMA AllowedMoveKeepsIndex ==
    ASSUME NEW q \in QueueTable, NEW i \in Items, NEW st \in ActiveStatus,
           IndexAllows(q, i), IndexHolds(q)
    PROVE  IndexHolds(SetStatus(q, {i}, st))
BY DEF QueueTable, SetStatus, IndexHolds, IndexAllows, FindActive, Active, ActiveStatus, ItemRow

\* A cancellation is well typed, starts no item and keeps the index.
LEMMA CancelActiveType ==
    ASSUME NEW q \in QueueTable, NEW S \in SUBSET Items
    PROVE  /\ CancelActive(q, S) \in QueueTable
           /\ Running(CancelActive(q, S)) \subseteq Running(q)
           /\ IndexHolds(q) => IndexHolds(CancelActive(q, S))
<1> DEFINE T == {i \in S : Active(q, i)}
<1>1. CancelActive(q, S) = SetStatus(q, T, "cancelled")
  BY DEF CancelActive
<1>2. "cancelled" \in ItemStatus /\ "cancelled" \in TerminalStatus
  BY DEF ItemStatus, TerminalStatus
<1> QED BY <1>1, <1>2, SetStatusType, SetStatusStartsNone, EndingKeepsIndex

\* mark_retry starts no item, and keeps the index when the index lets it pass.
LEMMA MarkRetryLemma ==
    ASSUME NEW q \in QueueTable, NEW i \in Items, NEW a \in 0 .. LongTermThreshold
    PROVE  /\ MarkRetry(q, i, a) \in QueueTable
           /\ Running(MarkRetry(q, i, a)) \subseteq Running(q)
           /\ IndexHolds(q) /\ IndexAllows(q, i) => IndexHolds(MarkRetry(q, i, a))
<1>1. MarkRetry(q, i, a) \in QueueTable
  BY ZenonT(30) DEF MarkRetry, QueueTable, ItemRow, ItemStatus, ActiveStatus
<1>2. Running(MarkRetry(q, i, a)) \subseteq Running(q)
  BY DEF MarkRetry, QueueTable, Running, ItemRow
<1>3. IndexHolds(q) /\ IndexAllows(q, i) => IndexHolds(MarkRetry(q, i, a))
  BY DEF MarkRetry, QueueTable, IndexHolds, IndexAllows, FindActive, Active, ActiveStatus, ItemRow
<1> QED BY <1>1, <1>2, <1>3

\* The attempts counter stays within its bound.
LEMMA NextAttemptType ==
    ASSUME NEW a \in 0 .. LongTermThreshold, LongTermThreshold \in Nat \ {0}
    PROVE  NextAttempt(a) \in 0 .. LongTermThreshold
BY DEF NextAttempt

\* A row written as queued keeps the index if it is alone with its key.
LEMMA WriteItemLemma ==
    ASSUME NEW q \in QueueTable, NEW i \in Items, NEW k \in Keys,
           NEW l \in Loops \cup {NoLoop}, NEW lk \in BOOLEAN, LongTermThreshold \in Nat
    PROVE  /\ WriteItem(q, i, k, l, lk) \in QueueTable
           /\ Running(WriteItem(q, i, k, l, lk)) \subseteq Running(q)
           /\ IndexHolds(q) /\ FindActive(q, k) \subseteq {i}
                => IndexHolds(WriteItem(q, i, k, l, lk))
<1>1. WriteItem(q, i, k, l, lk) \in QueueTable
  BY DEF WriteItem, QueueTable, ItemRow, ItemStatus, ActiveStatus
<1>2. Running(WriteItem(q, i, k, l, lk)) \subseteq Running(q)
  BY DEF WriteItem, QueueTable, Running, ItemRow
<1>3. IndexHolds(q) /\ FindActive(q, k) \subseteq {i} => IndexHolds(WriteItem(q, i, k, l, lk))
  BY DEF WriteItem, QueueTable, IndexHolds, FindActive, Active, ActiveStatus, ItemRow
<1> QED BY <1>1, <1>2, <1>3

\* Whichever of its results the insertion has, and likewise the other two.
LEMMA InsertItemLemma ==
    ASSUME NEW q \in QueueTable, NEW k \in Keys, NEW l \in Loops \cup {NoLoop},
           NEW lk \in BOOLEAN, LongTermThreshold \in Nat, NEW r \in InsertItem(q, k, l, lk)
    PROVE  /\ r \in QueueTable
           /\ Running(r) \subseteq Running(q)
           /\ IndexHolds(q) /\ (KeyType[k] \in IndexedTypes => FindActive(q, k) = {})
                => IndexHolds(r)
<1>1. CASE r = q
  BY <1>1
<1>2. CASE \E i \in Items : r = WriteItem(q, i, k, l, lk)
  <2>1. PICK i \in Items : r = WriteItem(q, i, k, l, lk)
    BY <1>2
  <2>2. ASSUME IndexHolds(q), KeyType[k] \notin IndexedTypes
        PROVE  IndexHolds(r)
    BY <2>1, <2>2 DEF WriteItem, QueueTable, IndexHolds, Active, ActiveStatus, ItemRow
  <2> QED BY <2>1, <2>2, WriteItemLemma
<1> QED BY <1>1, <1>2 DEF InsertItem

\* create_or_get_active_by_dedupe keeps the index whatever it meets.
LEMMA CreateOrGetLemma ==
    ASSUME NEW q \in QueueTable, NEW k \in Keys, NEW l \in Loops \cup {NoLoop},
           NEW lk \in BOOLEAN, LongTermThreshold \in Nat, NEW r \in CreateOrGet(q, k, l, lk)
    PROVE  /\ r \in QueueTable
           /\ Running(r) \subseteq Running(q)
           /\ IndexHolds(q) => IndexHolds(r)
<1>1. CASE r = q
  BY <1>1
<1>2. CASE r \in InsertItem(q, k, l, lk) /\ (KeyType[k] \in IndexedTypes => FindActive(q, k) = {})
  BY <1>2, InsertItemLemma
<1> QED BY <1>1, <1>2 DEF CreateOrGet

\* upsert_active_by_dedupe_or_get_existing does, although it resets a row.
LEMMA UpsertActiveLemma ==
    ASSUME NEW q \in QueueTable, NEW k \in Keys, NEW l \in Loops \cup {NoLoop},
           NEW lk \in BOOLEAN, LongTermThreshold \in Nat, NEW r \in UpsertActive(q, k, l, lk)
    PROVE  /\ r \in QueueTable
           /\ Running(r) \subseteq Running(q)
           /\ IndexHolds(q) => IndexHolds(r)
<1>1. CASE \E i \in FindActive(q, k) : r = WriteItem(q, i, k, l, lk)
  <2>1. PICK i \in FindActive(q, k) : r = WriteItem(q, i, k, l, lk)
    BY <1>1
  <2>2. i \in Items /\ Active(q, i) /\ q[i].key = k
    BY <2>1 DEF FindActive
  <2>3. ASSUME IndexHolds(q)
        PROVE  IndexHolds(r)
    BY <2>1, <2>2, <2>3
       DEF WriteItem, QueueTable, IndexHolds, Active, ActiveStatus, ItemRow
  <2> QED BY <2>1, <2>2, <2>3, WriteItemLemma
<1>2. CASE FindActive(q, k) = {} /\ r \in InsertItem(q, k, l, lk)
  BY <1>2, InsertItemLemma
<1> QED BY <1>1, <1>2 DEF UpsertActive

\* The claim statement starts exactly the item it takes.
LEMMA ClaimItemLemma ==
    ASSUME NEW q \in QueueTable, NEW i \in Items, q[i].status = "queued"
    PROVE  /\ ClaimItem(q, i) \in QueueTable
           /\ Running(ClaimItem(q, i)) = Running(q) \cup {i}
           /\ i \notin Running(q)
           /\ IndexHolds(q) => IndexHolds(ClaimItem(q, i))
<1>1. ClaimItem(q, i) \in QueueTable
  BY DEF ClaimItem, QueueTable, ItemRow, ItemStatus, ActiveStatus
<1>2. Running(ClaimItem(q, i)) = Running(q) \cup {i} /\ i \notin Running(q)
  BY DEF ClaimItem, QueueTable, Running, ItemRow
<1>3. IndexHolds(q) => IndexHolds(ClaimItem(q, i))
  BY DEF ClaimItem, QueueTable, IndexHolds, Active, ActiveStatus, ItemRow
<1> QED BY <1>1, <1>2, <1>3

\* Row i is about the same key and loop in both tables.
SameSubject(q, r, i) == r[i].key = q[i].key /\ r[i].loop = q[i].loop

\* Statements on the status column leave a row's subject alone.
LEMMA StatusKeepsSubjects ==
    ASSUME NEW q \in QueueTable, NEW S, NEW st, NEW j \in Items, NEW a, NEW i \in Items
    PROVE  /\ SameSubject(q, SetStatus(q, S, st), i)
           /\ SameSubject(q, CancelActive(q, S), i)
           /\ SameSubject(q, MarkRetry(q, j, a), i)
           /\ SameSubject(q, ClaimItem(q, j), i)
BY DEF SameSubject, SetStatus, CancelActive, MarkRetry, ClaimItem, QueueTable, ItemRow

\* The two that insert or reset a row give it theirs, as a queued one.
LEMMA InsertedSubject ==
    ASSUME NEW q \in QueueTable, NEW k, NEW l, NEW lk,
           NEW r \in CreateOrGet(q, k, l, lk) \cup UpsertActive(q, k, l, lk), NEW i \in Items
    PROVE  r[i] = q[i] \/ (r[i].status = "queued" /\ r[i].key = k /\ r[i].loop = l)
<1>1. r = q \/ \E j \in Items : r = WriteItem(q, j, k, l, lk)
  BY DEF CreateOrGet, UpsertActive, InsertItem, FindActive
<1> QED BY <1>1 DEF WriteItem, QueueTable

-----------------------------------------------------------------------------
(* loops, runs *)

\* No loop row that exists goes, or changes its type or target.
LoopsKept(ls, ms) == \A l \in Loops : LoopExists(ls, l) =>
                       /\ LoopExists(ms, l)
                       /\ ms[l].type = ls[l].type /\ ms[l].target = ls[l].target

\* A status that is written, and a row that is inserted, keep the others.
LEMMA StatementsKeepLoops ==
    ASSUME NEW ls \in [Loops -> LoopRow], NEW l, NEW st, NEW ty, NEW tg, NEW f
    PROVE  /\ st # "absent" => LoopsKept(ls, SetLoop(ls, l, st))
           /\ NextLoop(ls, l) => LoopsKept(ls, InsertLoop(ls, l, st, ty, tg, f))
BY DEF LoopsKept, LoopExists, NextLoop, SetLoop, InsertLoop, LoopRow

\* Writing a loop's status keeps the table's type.
LEMMA SetLoopType ==
    ASSUME NEW ls \in [Loops -> LoopRow], NEW l \in Loops, NEW st \in LoopStatus
    PROVE  SetLoop(ls, l, st) \in [Loops -> LoopRow]
BY DEF SetLoop, LoopRow

\* Inserting a loop does.
LEMMA InsertLoopType ==
    ASSUME NEW ls \in [Loops -> LoopRow], NEW l \in Loops, NEW st \in LoopStatus,
           NEW ty \in LoopTypes, NEW k \in Keys, NEW f \in TargetForm
    PROVE  InsertLoop(ls, l, st, ty, KeyTarget[k], f) \in [Loops -> LoopRow]
BY DEF InsertLoop, LoopRow

\* Writing a run, with the rows it replaces, does.
LEMMA UpsertRunType ==
    ASSUME NEW rs \in [Runs -> RunRow], NEW r \in Runs, NEW l \in Loops \cup {NoLoop},
           NEW st \in RunStatus
    PROVE  UpsertRun(rs, r, l, st) \in [Runs -> RunRow]
BY DEF UpsertRun, RunRow, RunStatus

=============================================================================
