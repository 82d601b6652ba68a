------------------------------- MODULE Storage -------------------------------
(***************************************************************************)
(* The SQLite tables the daemon's threads share (crate looper-storage):    *)
(* queue_items, loops, runs and locks, and the repository statements on    *)
(* them.  Every operator that ends in a table is ONE SQL statement, from   *)
(* the old contents of the table to the new; the modules that extend this  *)
(* one decide which statements run together under a mutex and which can be *)
(* interleaved with those of another thread.                               *)
(*                                                                         *)
(* Rows are numbered in order of creation.  Timestamps are abstracted:     *)
(* available_at is always "now" in the code that runs (no caller of        *)
(* mark_retry passes a later time), so it never holds an item back, and    *)
(* ties among rows that a query orders by a time are left open.            *)
(* A table that is full rejects an insertion, as the database may for      *)
(* reasons of its own; the callers then take their error path.             *)
(***************************************************************************)
EXTENDS Naturals, FiniteSets

CONSTANTS
    Keys,               \* the values of dedupe_key in play
    KeyType,            \* the queue type of the items under a key
    KeyTarget,          \* the issue or pull request a key is about
    KeyPriority,        \* the priority of the items under a key
    LongTermThreshold,  \* QUEUE_LONG_TERM_RETRY_ATTEMPT_THRESHOLD
    MaxItems,           \* bound: rows ever inserted in queue_items
    MaxLoops,           \* bound: rows ever inserted in loops
    MaxRuns             \* bound: rows ever inserted in runs

IndexedTypes == {"planner", "reviewer", "worker", "fixer"}
QueueTypes   == IndexedTypes \cup {"other"}   \* /enqueue accepts any string
LoopTypes    == IndexedTypes \cup {"review"}  \* discovery writes "review"

ASSUME StorageAssumption ==
    /\ Keys # {}
    /\ KeyType \in [Keys -> QueueTypes]
    /\ KeyPriority \in [Keys -> Nat]
    /\ LongTermThreshold \in Nat \ {0}
    /\ MaxItems \in Nat \ {0} /\ MaxLoops \in Nat \ {0} /\ MaxRuns \in Nat \ {0}

VARIABLES queue, loops, runs, locks

storeVars == <<queue, loops, runs, locks>>

Items == 1 .. MaxItems
Loops == 1 .. MaxLoops
Runs  == 1 .. MaxRuns
NoLoop == 0

ActiveStatus   == {"queued", "running"}
TerminalStatus == {"completed", "failed", "cancelled"}
ItemStatus     == {"absent"} \cup ActiveStatus \cup TerminalStatus
LoopStatus     == {"absent", "idle", "active", "queued", "running", "paused",
                   "stopped", "closed", "completed", "failed"}
RunStatus      == {"absent", "running", "success", "failed", "interrupted"}

\* lockable: the row has a lock_key (which is then its dedupe_key).
ItemRow == [status : ItemStatus, key : Keys, loop : Loops \cup {NoLoop},
            attempts : 0 .. LongTermThreshold, lockable : BOOLEAN]
\* form: how target_id names the target, as owner/repo#n (admit_work), without
\* the repository (create_loop) or as the bare number (discovery, handoff).
TargetForm == {"full", "noRepo", "bare"}
LoopRow == [status : LoopStatus, type : LoopTypes, target : {KeyTarget[k] : k \in Keys},
            form : TargetForm]
RunRow  == [status : RunStatus, loop : Loops \cup {NoLoop}]

StorageTypeOK ==
    /\ queue \in [Items -> ItemRow]
    /\ loops \in [Loops -> LoopRow]
    /\ runs \in [Runs -> RunRow]
    /\ locks \subseteq Keys

SomeKey == CHOOSE k \in Keys : TRUE

StorageInit ==
    /\ queue = [i \in Items |-> [status |-> "absent", key |-> SomeKey, loop |-> NoLoop,
                                 attempts |-> 0, lockable |-> FALSE]]
    /\ loops = [l \in Loops |-> [status |-> "absent", type |-> "worker",
                                 target |-> KeyTarget[SomeKey], form |-> "bare"]]
    /\ runs = [r \in Runs |-> [status |-> "absent", loop |-> NoLoop]]
    /\ locks = {}

-----------------------------------------------------------------------------
(* queue_items *)

Active(q, i) == q[i].status \in ActiveStatus
Running(q)   == {i \in Items : q[i].status = "running"}

FindActive(q, k) == {i \in Items : Active(q, i) /\ q[i].key = k}

\* Mutant: the index covers queued rows only.
IndexOfQueuedOnly(q, i) ==
    \A j \in FindActive(q, q[i].key) \ {i} : q[j].status = "running"

\* The partial unique index idx_queue_items_one_active_dedupe: a statement
\* that would leave row i active beside another active row of its key fails.
IndexAllows(q, i) ==
    KeyType[q[i].key] \in IndexedTypes => FindActive(q, q[i].key) \subseteq {i}

NextItem(q, i) == /\ q[i].status = "absent"
                  /\ \A j \in Items : j < i => q[j].status # "absent"

WriteItem(q, i, k, l, lk) ==
    [q EXCEPT ![i] = [status |-> "queued", key |-> k, loop |-> l,
                      attempts |-> 0, lockable |-> lk]]

\* The possible results of inserting a row.
InsertItem(q, k, l, lk) ==
    IF \E i \in Items : NextItem(q, i)
    THEN {WriteItem(q, i, k, l, lk) : i \in {j \in Items : NextItem(q, j)}}
    ELSE {q}

\* Mutant: the lookup trusts a caller that found nothing a moment ago.
InsertUnchecked(q, k, l, lk) == InsertItem(q, k, l, lk)

\* create_or_get_active_by_dedupe, as the set of its possible results: the
\* active row of the key when there is one (found, or met as an index
\* conflict), a new row otherwise.  Types outside the index are inserted
\* whatever is there: their lookup is EnqueueFind's, an earlier statement.
CreateOrGet(q, k, l, lk) ==
    IF KeyType[k] \in IndexedTypes /\ FindActive(q, k) # {} THEN {q}
    ELSE InsertItem(q, k, l, lk)

\* upsert_active_by_dedupe_or_get_existing: ON CONFLICT ... DO UPDATE resets
\* the active row, a running one too.
UpsertActive(q, k, l, lk) ==
    IF FindActive(q, k) # {}
    THEN {WriteItem(q, i, k, l, lk) : i \in FindActive(q, k)}
    ELSE InsertItem(q, k, l, lk)

SetStatus(q, S, st) == [i \in Items |-> IF i \in S THEN [q[i] EXCEPT !.status = st] ELSE q[i]]

CancelActive(q, S) == SetStatus(q, {i \in S : Active(q, i)}, "cancelled")

ItemsOf(q, l, st) == {i \in Items : q[i].loop = l /\ q[i].status = st}

MarkRetry(q, i, a) == [q EXCEPT ![i].status = "queued", ![i].attempts = a]

NextAttempt(a) == IF a < LongTermThreshold THEN a + 1 ELSE a  \* bound: saturates

-----------------------------------------------------------------------------
(* The claim query *)

BlockedLoopStatus == {"completed", "cancelled", "failed", "paused"}

\* scheduled_queue_conditions (available_at and archived projects aside).
Scheduled(q, ls, lk, i) ==
    /\ q[i].status = "queued"
    /\ q[i].lockable => q[i].key \notin lk
    /\ ~ /\ KeyType[q[i].key] = "fixer"
         /\ \E j \in Items : /\ Active(q, j)
                             /\ KeyType[q[j].key] = "reviewer"
                             /\ q[j].loop = q[i].loop /\ q[i].loop # NoLoop
    /\ q[i].loop # NoLoop => ls[q[i].loop].status \notin BlockedLoopStatus

\* attempts > 0 only after mark_retry, which always sets a retryable
\* last_error_kind, so the kind column never decides between the two queries.
FreshCandidates(q, ls, lk) ==
    {i \in Items : Scheduled(q, ls, lk, i) /\ q[i].attempts < LongTermThreshold}
LongCandidates(q, ls, lk) ==
    {i \in Items : Scheduled(q, ls, lk, i) /\ q[i].attempts >= LongTermThreshold}

FirstByPriority(q, S) ==
    {i \in S : \A j \in S : KeyPriority[q[i].key] <= KeyPriority[q[j].key]}

ClaimItem(q, i) == [q EXCEPT ![i].status = "running"]

-----------------------------------------------------------------------------
(* loops, runs *)

LoopExists(ls, l) == ls[l].status # "absent"
NextLoop(ls, l) == ~LoopExists(ls, l) /\ \A m \in Loops : m < l => LoopExists(ls, m)
LoopsFull(ls) == \A l \in Loops : LoopExists(ls, l)

InsertLoop(ls, l, st, ty, tg, f) ==
    [ls EXCEPT ![l] = [status |-> st, type |-> ty, target |-> tg, form |-> f]]
SetLoop(ls, l, st) == [ls EXCEPT ![l].status = st]

RunsOf(rs, l) == {r \in Runs : rs[r].status # "absent" /\ rs[r].loop = l}
IsLatestRun(rs, l, r) == r \in RunsOf(rs, l) /\ \A s \in RunsOf(rs, l) : s <= r
RunsFull(rs) == \A r \in Runs : rs[r].status # "absent"
NextRun(rs, r) == rs[r].status = "absent" /\ \A s \in Runs : s < r => rs[s].status # "absent"

\* runs.upsert is INSERT OR REPLACE: writing a running row deletes every
\* other running row of its loop (index idx_runs_one_running_per_loop).
UpsertRun(rs, r, l, st) ==
    [x \in Runs |-> IF x = r THEN [status |-> st, loop |-> l]
                    ELSE IF st = "running" /\ rs[x].status = "running" /\ rs[x].loop = l
                         THEN [status |-> "absent", loop |-> NoLoop]
                         ELSE rs[x]]

=============================================================================
