------------------------------ MODULE Recovery ------------------------------
(***************************************************************************)
(* The libraries for failures and restarts: classification and retry       *)
(* (failure.rs) and the recovery after a death, once in looper-scheduler   *)
(* with its reconciliation of stale runs and once, under the same name, in *)
(* looper-infra.  looperd calls neither; when they are called - at startup,*)
(* and the reconciliation at any time - is an assumption of this module,   *)
(* and so are the claims and ends of items, which Storage and Runner       *)
(* model.                                                                  *)
(***************************************************************************)
EXTENDS Integers, FiniteSets, FiniteSetsExt

CONSTANTS
    Loops,
    MaxTries,     \* bound: attempts of an item
    BaseDelay,    \* base_delay_ms
    DelayCap,     \* the cap of a delay
    DelayRange,   \* integers wrap here
    MaxRestarts   \* bound: deaths of looperd

ASSUME RecoveryAssumption ==
    /\ {MaxTries, BaseDelay, DelayCap, DelayRange} \subseteq Nat \ {0} /\ MaxRestarts \in Nat

Slots == 1 .. 2
ItemStatuses == {"absent", "queued", "running", "completed", "failed", "cancelled", "manual_intervention"}

VARIABLES
    items,    \* two queue items of every loop
    runs,     \* the latest run of a loop, and whether its heartbeat is old
    execs,    \* its agent execution, and what has the PID of it
    locks,    \* the lock of the loop
    phase,    \* what looperd is doing
    todo,     \* the loops whose runs a reconciliation has still to interrupt
    repair,   \* what it has still to do to the items of a loop
    owed,     \* history: the items that were due when looperd died, of loops
              \* without a run in progress
    restarts

recVars == <<items, runs, execs, locks, phase, todo, repair, owed, restarts>>

\* An item waits for a later time; or is due; or is due and its time came less
\* than a second before a recovery began, or after: "fresh".
RecoveryTypeOK ==
    /\ items \in [Loops -> [Slots -> [status : ItemStatuses, due : {"later", "fresh", "due"},
                                     attempts : 0 .. MaxTries]]]
    /\ runs \in [Loops -> [status : {"none", "running", "success", "failed", "interrupted"}, old : BOOLEAN]]
    /\ execs \in [Loops -> [status : {"none", "running", "ended", "orphaned"},
                            command : BOOLEAN, process : {"agent", "other", "gone"}]]
    /\ locks \in [Loops -> {"none", "held", "expired"}]
    /\ phase \in {"up", "down", "orphans", "locks", "runs", "cleanup", "ready"}
    /\ todo \subseteq Loops /\ repair \in [Loops -> {"none", "cancel", "requeue"}]
    /\ owed \subseteq Loops \X Slots /\ restarts \in 0 .. MaxRestarts

RecoveryInit ==
    /\ items = [l \in Loops |-> [n \in Slots |-> [status |-> "absent", due |-> "fresh", attempts |-> 0]]]
    /\ runs = [l \in Loops |-> [status |-> "none", old |-> FALSE]]
    /\ execs = [l \in Loops |-> [status |-> "none", command |-> TRUE, process |-> "gone"]]
    /\ locks = [l \in Loops |-> "none"] /\ phase = "up" /\ restarts = 0
    /\ todo = {} /\ repair = [l \in Loops |-> "none"] /\ owed = {}

------------------------------------------------------------------------------
(* failure.rs and retry_policy.rs *)

External == {"GitRemote", "GitHubAPI", "ModelProvider", "AgentProcess"}
\* Which boundary a step fails at.
StepBoundary(step) ==
    CASE step \in {"prepare-worktree", "create-worktree", "push-fix", "commit-push"} -> "GitRemote"
      [] step = "write-spec" -> "ModelProvider"
      [] step = "implement" -> "AgentProcess"
      [] step \in {"check-worktree", "commit-fix"} -> "GitLocal"
      [] step \in {"discover-issues", "publish", "notify", "review-pr", "submit-review", "update-pr",
                   "fix-pr", "process-issue", "open-pr"} -> "GitHubAPI"
      [] OTHER -> "Unknown"

\* What the patterns find in the message of an error.
Messages == {"dirty worktree", "unauthorized", "not found", "unprocessable", "other"}
Classify(boundary, message) ==
    LET refused == message = "not found" \/ (boundary = "GitHubAPI" /\ message = "unprocessable")
    IN  IF message = "dirty worktree" \/ boundary = "LocalWorktree" THEN "manual_intervention"
        ELSE IF boundary \in External /\ ~refused THEN "retryable_transient"
        ELSE "non_retryable"

\* The number of attempts bounds only what is called not retryable.
ShouldRetry(item, kind) ==
    \/ kind \in {"retryable_transient", "retryable_after_resume"}
    \/ kind = "non_retryable" /\ item.attempts < MaxTries

\* compute_retry_delay wraps before it is capped.
RetryDelay(attempt) == Min({(BaseDelay * (2 ^ attempt % DelayRange)) % DelayRange, DelayCap})

------------------------------------------------------------------------------
(* Items and runs while looperd is up: external to this module *)

ActiveItems(l) == {n \in Slots : items[l][n].status \in {"queued", "running"}}
With(l, n, status) == [items EXCEPT ![l][n].status = status]

Enqueue(l, n) ==
    /\ phase = "up" /\ items[l][n].status = "absent"
    /\ items' = With(l, n, "queued")
    /\ UNCHANGED <<runs, execs, locks, phase, todo, repair, owed, restarts>>

\* Bound: not while a reconciliation has still to look at the loop's last run.
Claim(l, n) ==
    /\ phase = "up" /\ items[l][n].status = "queued" /\ items[l][n].due # "later"
    /\ locks[l] # "held" /\ runs[l].status # "running" /\ l \notin todo
    /\ items' = With(l, n, "running")
    /\ runs' = [runs EXCEPT ![l] = [status |-> "running", old |-> FALSE]]
    /\ \E command \in BOOLEAN :
         execs' = [execs EXCEPT ![l] = [status |-> "running", command |-> command, process |-> "agent"]]
    /\ \E lock \in {"none", "held"} : locks' = [locks EXCEPT ![l] = lock]
    /\ UNCHANGED <<phase, todo, repair, owed, restarts>>

\* The step's end, with what the failure makes of the item: retried after a
\* delay, handed to a person, or ended by the runner as failed.
Ended(l, status) ==
    /\ runs' = [runs EXCEPT ![l].status = status]
    /\ execs' = [execs EXCEPT ![l] = [@ EXCEPT !.status = "ended", !.process = "gone"]]
    /\ locks' = [locks EXCEPT ![l] = "none"]
    /\ UNCHANGED <<phase, todo, repair, owed, restarts>>
Working(l, n) == phase = "up" /\ items[l][n].status = "running" /\ runs[l].status = "running"
EndSuccess(l, n) == Working(l, n) /\ items' = With(l, n, "completed") /\ Ended(l, "success")
FailTerminal(l, n) == Working(l, n) /\ items' = With(l, n, "failed") /\ Ended(l, "failed")
FailRetryable(l, n) ==
    /\ Working(l, n)
    /\ \E step \in {"write-spec", "commit-fix", "notify"}, message \in Messages :
         LET item == items[l][n]
             kind == Classify(StepBoundary(step), message)
         IN items' = [items EXCEPT ![l][n] =
                        IF ShouldRetry(item, kind)
                        THEN [status |-> "queued", due |-> IF RetryDelay(item.attempts) = 0 THEN "fresh" ELSE "later",
                              attempts |-> Min({item.attempts + 1, MaxTries})]
                        ELSE [item EXCEPT !.status = "manual_intervention"]]
    /\ Ended(l, "failed")

\* Time passes.  A recovery reads the clock once, when it begins, and kills
\* agents for seconds: what becomes due meanwhile is not due to it.
Recovering == phase \notin {"up", "down", "ready"}
Aged(due, next) == IF due = "later" THEN next
                     ELSE IF due = "fresh" /\ ~Recovering THEN "due" ELSE due
Later ==
    /\ \E next \in IF Recovering THEN {"fresh"} ELSE {"fresh", "due"} :
         items' = [l \in Loops |-> [n \in Slots |-> [items[l][n] EXCEPT !.due = Aged(@, next)]]]
    /\ locks' = [l \in Loops |-> IF locks[l] = "held" THEN "expired" ELSE locks[l]]
    /\ runs' = [l \in Loops |-> [runs[l] EXCEPT !.old = TRUE]]
    /\ UNCHANGED <<execs, phase, todo, repair, owed, restarts>>

\* Death at any point, also of a recovery; agents live on, end, and leave their
\* PID to another process.
DieAnywhere ==
    /\ phase # "down" /\ restarts < MaxRestarts
    /\ phase' = "down" /\ restarts' = restarts + 1
    /\ todo' = {} /\ repair' = [l \in Loops |-> "none"]
    /\ owed' = IF phase = "up"
               THEN {q \in Loops \X Slots : /\ items[q[1]][q[2]].status = "queued"
                                            /\ items[q[1]][q[2]].due = "due"
                                            /\ runs[q[1]].status # "running"}
               ELSE owed
    /\ UNCHANGED <<items, runs, execs, locks>>
ProcessGoes(l) ==
    /\ execs[l].process # "other"
    /\ execs' = [execs EXCEPT ![l].process = IF @ = "agent" THEN "gone" ELSE "other"]
    /\ UNCHANGED <<items, runs, locks, phase, todo, repair, owed, restarts>>

------------------------------------------------------------------------------
(* looper-scheduler: run_recovery *)

\* Any process has the identity of an execution without a command, for the
\* empty string is part of every string.
SameIdentity(e) == e.process = "agent" \/ ~e.command
Orphans ==
    /\ phase = "orphans"
    /\ execs' = [l \in Loops |-> IF execs[l].status = "running" /\ SameIdentity(execs[l])
                                 THEN [execs[l] EXCEPT !.process = "gone"] ELSE execs[l]]
    /\ phase' = "locks"
    /\ UNCHANGED <<items, runs, locks, todo, repair, owed, restarts>>

ReleaseExpired == [l \in Loops |-> IF locks[l] = "expired" THEN "none" ELSE locks[l]]
\* Both lists that decide are read at once.  At startup a run without an
\* execution is uncertain and left alone, and an execution that the first phase
\* has ended still counts; later only the age of the heartbeat does.
Stale(l) == IF phase = "locks" THEN execs[l].status = "running" ELSE runs[l].old
StaleRuns == {l \in Loops : runs[l].status = "running" /\ Stale(l)}
ExpiredLocks ==
    /\ phase = "locks" /\ locks' = ReleaseExpired
    /\ phase' = "runs" /\ todo' = StaleRuns
    /\ UNCHANGED <<items, runs, execs, repair, owed, restarts>>

\* One run after the other is written as it was read, but for its status; then
\* all active items of its loop are cancelled, and one that failed before is
\* queued again.
NoRepair == \A l \in Loops : repair[l] = "none"
InterruptRun(l) == /\ l \in todo /\ NoRepair
                   /\ todo' = todo \ {l} /\ repair' = [repair EXCEPT ![l] = "cancel"]
                   /\ runs' = [runs EXCEPT ![l].status = "interrupted"]
                   /\ UNCHANGED <<items, execs, locks, phase, owed, restarts>>
Cancelled(l) == [n \in Slots |-> IF n \in ActiveItems(l) THEN [items[l][n] EXCEPT !.status = "cancelled"]
                                                    ELSE items[l][n]]
CancelItems(l) == /\ repair[l] = "cancel" /\ repair' = [repair EXCEPT ![l] = "requeue"]
                  /\ items' = [items EXCEPT ![l] = Cancelled(l)]
                  /\ UNCHANGED <<runs, execs, locks, phase, todo, owed, restarts>>
RequeueFailed(l) ==
    /\ repair[l] = "requeue" /\ repair' = [repair EXCEPT ![l] = "none"]
    /\ LET failed == {n \in Slots : items[l][n].status = "failed"}
       IN IF failed = {} THEN UNCHANGED items
          ELSE \E n \in failed :
                 items' = [items EXCEPT ![l][n] = [@ EXCEPT !.status = "queued", !.due = "due"]]
    /\ UNCHANGED <<runs, execs, locks, phase, todo, owed, restarts>>

RunsDone == /\ phase = "runs" /\ todo = {} /\ NoRepair /\ phase' = "cleanup"
            /\ UNCHANGED <<items, runs, execs, locks, todo, repair, owed, restarts>>

\* What waits for its delay is "stale" and cancelled, and so is what has become
\* due since the recovery began: it compares with the time it began, cut to a
\* second.
Cleaned(stale) ==
    [l \in Loops |-> [n \in Slots |-> IF items[l][n].status = "queued" /\ items[l][n].due \in stale
                                      THEN [items[l][n] EXCEPT !.status = "cancelled"] ELSE items[l][n]]]
\* Mutant: all that is queued is cleaned up.
CleanupAllQueued == /\ phase = "cleanup" /\ phase' = "ready"
                    /\ items' = Cleaned({"later", "fresh", "due"})
                    /\ UNCHANGED <<runs, execs, locks, todo, repair, owed, restarts>>
CleanupStaleQueued == /\ phase = "cleanup" /\ phase' = "ready"
                      /\ items' = Cleaned({"later", "fresh"})
                      /\ UNCHANGED <<runs, execs, locks, todo, repair, owed, restarts>>

\* The mode for a daemon that is up; the rest of it works on.
ReconcileLive == /\ phase = "up" /\ todo = {} /\ NoRepair
                 /\ todo' = StaleRuns
                 /\ UNCHANGED <<items, runs, execs, locks, phase, repair, owed, restarts>>

------------------------------------------------------------------------------
(* looper-infra: run_recovery.  Its runs are interrupted by their age whatever  *)
(* their status is; items and processes are left alone.                        *)

InfraRecovery ==
    /\ phase = "orphans" /\ phase' = "ready"
    /\ execs' = [l \in Loops |-> IF execs[l].status = "running" /\ execs[l].process = "gone"
                                 THEN [execs[l] EXCEPT !.status = "orphaned"] ELSE execs[l]]
    /\ locks' = ReleaseExpired
    /\ runs' = [l \in Loops |-> IF runs[l].status # "none" /\ runs[l].old
                                THEN [runs[l] EXCEPT !.status = "interrupted"] ELSE runs[l]]
    /\ UNCHANGED <<items, todo, repair, owed, restarts>>

\* looperd starts with a recovery, and then its threads.
Reboot == /\ phase = "down" /\ phase' = "orphans"
          /\ UNCHANGED <<items, runs, execs, locks, todo, repair, owed, restarts>>

StartThreads == /\ phase = "ready" /\ phase' = "up" /\ owed' = {}
                /\ UNCHANGED <<items, runs, execs, locks, todo, repair, restarts>>

RecoveryNext ==
    \/ \E l \in Loops : \/ ProcessGoes(l) \/ InterruptRun(l) \/ CancelItems(l) \/ RequeueFailed(l)
                        \/ \E n \in Slots : \/ Enqueue(l, n) \/ Claim(l, n)
                                            \/ EndSuccess(l, n) \/ FailTerminal(l, n) \/ FailRetryable(l, n)
    \/ Later \/ DieAnywhere \/ Reboot \/ Orphans \/ ExpiredLocks \/ RunsDone \/ CleanupStaleQueued
    \/ ReconcileLive \/ InfraRecovery \/ StartThreads

------------------------------------------------------------------------------
(* Properties *)

\* An item that was due when looperd died, of a loop without a run in progress,
\* is queued when looperd works again, however often a recovery, which
\* interrupts and repairs other loops and cleans the queue, was cut short and
\* begun again (recovery.rs:11-50, 153-165, queue.rs:417).
DueWorkSurvives == \A q \in owed : items[q[1]][q[2]].status = "queued"
============================================================================
