-------------------------------- MODULE Runner --------------------------------
(***************************************************************************)
(* The pipelines (crate looper-runner): one OS thread per dispatched queue *)
(* item, running the planner, worker, reviewer or fixer procedure on a     *)
(* snapshot of the item.  All pipelines share one Repositories behind a    *)
(* mutex (SendRepos); a step below is one critical section, and a section  *)
(* that reads a row and writes it back is two steps that hold the mutex,   *)
(* because the HTTP handlers use other connections and do not take it.     *)
(*                                                                         *)
(* Agent runs, git and GitHub are abstracted to their outcome.             *)
(***************************************************************************)
EXTENDS Storage

CONSTANTS
    Pipes,          \* bound: the pipeline threads there may be at once
    Claimants,      \* the threads that claim: "tick", and "pump" if it ever wakes
    HandoffKeys     \* fixer keys a review may enqueue

VARIABLES
    reposMu,        \* holder of the SendRepos mutex
    pipes           \* pipeline threads

Free == "free"

ASSUME RunnerAssumption ==
    /\ "tick" \in Claimants /\ Claimants \subseteq {"tick", "pump"}
    /\ Pipes \cap ({Free} \cup Claimants) = {}
    /\ HandoffKeys \subseteq {k \in Keys : KeyType[k] = "fixer"}

PipePC == {"free", "start", "title", "titleWrite", "flip", "prepare", "prepareWrite",
           "work", "openPr", "openPrWrite", "check", "repair", "retry", "retryRun",
           "handoff", "handoffInsert", "runDone", "queueDone", "loopDone",
           "planFailRun", "planFailQueue", "planFailLoop", "errQueue", "errLoop"}

\* What a pipeline thread holds: the claimed item's id and the key, loop and
\* attempts it had when claimed, its run, and what it has read of a loop row.
Claim == [item : Items, key : Keys, loop : Loops \cup {NoLoop},
          attempts : 0 .. LongTermThreshold]
PipeState == [pc : PipePC, claim : Claim, run : Runs, seen : LoopStatus,
              newLoop : Loops \cup {NoLoop}]

IdleClaim == [item |-> 1, key |-> SomeKey, loop |-> NoLoop, attempts |-> 0]
IdlePipe  == [pc |-> "free", claim |-> IdleClaim, run |-> 1, seen |-> "absent",
              newLoop |-> NoLoop]

runnerVars == <<reposMu, pipes>>

RunnerTypeOK ==
    /\ reposMu \in {Free} \cup Claimants \cup Pipes
    /\ pipes \in [Pipes -> PipeState]

RunnerInit ==
    /\ reposMu = Free
    /\ pipes = [p \in Pipes |-> IdlePipe]

-----------------------------------------------------------------------------
PItem(p) == pipes[p].claim.item
PLoop(p) == pipes[p].claim.loop
PType(p) == KeyType[pipes[p].claim.key]
At(p, pc) == pipes[p].pc = pc
Goto(p, pc) == pipes' = [pipes EXCEPT ![p].pc = pc]
Exit(p) == pipes' = [pipes EXCEPT ![p] = IdlePipe]

\* Enter a critical section, or continue the one p is in.
Locked(p) == reposMu = Free \/ reposMu = p
Release == reposMu' = Free
Hold(p) == reposMu' = p

\* A worker that continues an existing pull request first saves its number;
\* a resumed run goes on after its last completed step, which may be the last.
FirstStep == [planner |-> {"title"}, worker |-> {"prepare", "work"},
              reviewer |-> {"work"}, fixer |-> {"check"}]
Begin(p, r) ==
    \E pc \in FirstStep[PType(p)] \cup {"runDone"} :
        /\ pc = "runDone" => PType(p) # "planner" /\ runs[r].status = "running"
        /\ pipes' = [pipes EXCEPT ![p].run = r, ![p].pc = pc]

\* Mutant: a retry creates a run of its own, though one is in progress.
StartAfresh(p) ==
    /\ At(p, "start") /\ Locked(p) /\ PLoop(p) # NoLoop
    /\ \E r \in Runs :
         /\ NextRun(runs, r)
         /\ runs' = UpsertRun(runs, r, PLoop(p), "running")
         /\ Begin(p, r)
    /\ UNCHANGED <<queue, loops, locks, reposMu>>

\* Mutant: a retry resumes any run of the loop that did not succeed.
StartUnfinished(p) ==
    /\ At(p, "start") /\ Locked(p) /\ PLoop(p) # NoLoop
    /\ \E r \in Runs :
         /\ \/ r \in RunsOf(runs, PLoop(p)) /\ runs[r].status # "success"
            \/ NextRun(runs, r)
         /\ runs' = UpsertRun(runs, r, PLoop(p), "running")
         /\ Begin(p, r)
    /\ UNCHANGED <<queue, loops, locks, reposMu>>

\* Create or resume the run.  An item without a loop, and a run that cannot
\* be created, make the planner return at once, leaving the item running; the
\* others report an error.
Start(p) ==
    /\ At(p, "start") /\ Locked(p)
    /\ \/ /\ PLoop(p) = NoLoop /\ PType(p) = "planner"
          /\ Exit(p) /\ UNCHANGED runs
       \/ /\ PLoop(p) = NoLoop /\ PType(p) # "planner"
          /\ Goto(p, "errQueue") /\ UNCHANGED runs
       \/ /\ PLoop(p) # NoLoop
          /\ \E r \in Runs :
               /\ \/ IsLatestRun(runs, PLoop(p), r) /\ runs[r].status = "running"
                  \/ /\ NextRun(runs, r)
                     /\ \A s \in Runs :
                          IsLatestRun(runs, PLoop(p), s) => runs[s].status # "running"
               /\ runs' = UpsertRun(runs, r, PLoop(p), "running")
               /\ Begin(p, r)
       \/ /\ PLoop(p) # NoLoop /\ RunsFull(runs)
          /\ \A s \in Runs : IsLatestRun(runs, PLoop(p), s) => runs[s].status # "running"
          /\ IF PType(p) = "planner" THEN Exit(p) ELSE Goto(p, "errQueue")
          /\ UNCHANGED runs
    /\ UNCHANGED <<queue, loops, locks, reposMu>>

-----------------------------------------------------------------------------
(* Planner *)

\* The issue title, the number of a pull request that is continued, and that
\* of the one opened are saved with a read and a write-back of the whole row.
SavesLoopRow == [title |-> "titleWrite", prepare |-> "prepareWrite", openPr |-> "openPrWrite"]
AfterSave    == [titleWrite |-> "flip", prepareWrite |-> "work", openPrWrite |-> "runDone"]

LoopRowRead(p) ==
    /\ pipes[p].pc \in DOMAIN SavesLoopRow /\ Locked(p) /\ Hold(p)
    /\ pipes' = [pipes EXCEPT ![p].seen = loops[PLoop(p)].status,
                             ![p].pc = SavesLoopRow[@]]
    /\ UNCHANGED storeVars

LoopRowWrite(p) ==
    /\ pipes[p].pc \in DOMAIN AfterSave /\ Locked(p) /\ Release
    /\ loops' = SetLoop(loops, PLoop(p), pipes[p].seen)
    /\ pipes' = [pipes EXCEPT ![p].seen = "absent", ![p].pc = AfterSave[@]]
    /\ UNCHANGED <<queue, runs, locks>>

FlipToRunning(p) ==
    /\ At(p, "flip") /\ Locked(p)
    /\ loops' = SetLoop(loops, PLoop(p), "running")
    /\ Goto(p, "work")
    /\ UNCHANGED <<queue, runs, locks, reposMu>>

PlannerWork(p) ==
    /\ At(p, "work") /\ PType(p) = "planner"
    /\ \E pc \in {"openPr", "runDone", "planFailRun"} : Goto(p, pc)
    /\ UNCHANGED <<storeVars, reposMu>>

\* The planner's failure exit: three statements in one critical section.
PlannerFailRun(p) ==
    /\ At(p, "planFailRun") /\ Locked(p)
    /\ IF runs[pipes[p].run].status = "absent"
       THEN Exit(p) /\ UNCHANGED <<runs, reposMu>>
       ELSE /\ runs' = UpsertRun(runs, pipes[p].run, PLoop(p), "failed")
            /\ Goto(p, "planFailQueue") /\ Hold(p)
    /\ UNCHANGED <<queue, loops, locks>>

PlannerFailQueue(p) ==
    /\ At(p, "planFailQueue") /\ Locked(p) /\ Hold(p)
    /\ queue' = SetStatus(queue, {PItem(p)}, "failed")
    /\ Goto(p, "planFailLoop")
    /\ UNCHANGED <<loops, runs, locks>>

PlannerFailLoop(p) ==
    /\ At(p, "planFailLoop") /\ Locked(p) /\ Release
    /\ loops' = SetLoop(loops, PLoop(p), "paused")
    /\ Exit(p)
    /\ UNCHANGED <<queue, runs, locks>>

-----------------------------------------------------------------------------
(* Worker *)

\* The steps up to the push: validation may fail, and so may the push or the
\* creation of the pull request, an error that leaves the run running.
WorkerWork(p) ==
    /\ At(p, "work") /\ PType(p) = "worker"
    /\ \E pc \in {"retry", "errQueue", "openPr", "runDone"} : Goto(p, pc)
    /\ UNCHANGED <<storeVars, reposMu>>

\* The worker's failed validation and the fixer's apply_repair_fail_closed:
\* the item for retry, then the run as failed.  The fixer does both in one
\* critical section and leaves when the first fails; the worker only logs it.
MarkedForRetry(p) ==
    /\ At(p, "retry") /\ Locked(p)
    /\ \/ /\ IndexAllows(queue, PItem(p))
          /\ queue' = MarkRetry(queue, PItem(p), NextAttempt(pipes[p].claim.attempts))
          /\ Goto(p, "retryRun")
          /\ IF PType(p) = "fixer" THEN Hold(p) ELSE UNCHANGED reposMu
       \/ /\ ~IndexAllows(queue, PItem(p)) /\ UNCHANGED <<queue, reposMu>>
          /\ Goto(p, IF PType(p) = "fixer" THEN "errQueue" ELSE "retryRun")
    /\ UNCHANGED <<loops, runs, locks>>

RetriedRunFailed(p) ==
    /\ At(p, "retryRun") /\ Locked(p) /\ Release
    /\ runs' = IF runs[pipes[p].run].status = "absent" THEN runs
               ELSE UpsertRun(runs, pipes[p].run, PLoop(p), "failed")
    /\ Goto(p, "errQueue")
    /\ UNCHANGED <<queue, loops, locks>>

-----------------------------------------------------------------------------
(* Reviewer *)

ReviewerWork(p) ==
    /\ At(p, "work") /\ PType(p) = "reviewer"
    /\ \/ Goto(p, "runDone")
       \/ /\ \E k \in HandoffKeys : KeyTarget[k] = KeyTarget[pipes[p].claim.key]
          /\ Goto(p, "handoff")
    /\ UNCHANGED <<storeVars, reposMu>>

TerminalLoopStatuses == {"completed", "failed", "cancelled", "terminated"}

ReusableFixerLoops(ls, k) ==
    {l \in Loops : /\ LoopExists(ls, l) /\ ls[l].type = "fixer"
                   /\ ls[l].target = KeyTarget[k]
                   /\ ls[l].status \notin TerminalLoopStatuses}

HandoffKey(p) == CHOOSE k \in HandoffKeys : KeyTarget[k] = KeyTarget[pipes[p].claim.key]

\* Mutant: the handoff looks for a loop before it has the mutex.
HandoffUnlocked(p) ==
    /\ At(p, "handoff")
    /\ \E l \in Loops :
         /\ \/ l \in ReusableFixerLoops(loops, HandoffKey(p)) /\ UNCHANGED loops
            \/ /\ ReusableFixerLoops(loops, HandoffKey(p)) = {} /\ NextLoop(loops, l)
               /\ loops' = InsertLoop(loops, l, "queued", "fixer",
                                      KeyTarget[HandoffKey(p)], "bare")
         /\ pipes' = [pipes EXCEPT ![p].newLoop = l, ![p].pc = "handoffInsert"]
    /\ UNCHANGED <<queue, runs, locks, reposMu>>

\* Mutant: the second half takes the mutex its caller already holds.
HandoffRelock(p) ==
    /\ At(p, "handoffInsert") /\ reposMu = Free
    /\ queue' \in CreateOrGet(queue, HandoffKey(p), pipes[p].newLoop, FALSE)
    /\ pipes' = [pipes EXCEPT ![p].newLoop = NoLoop, ![p].pc = "runDone"]
    /\ UNCHANGED <<loops, runs, locks, reposMu>>

\* ensure_fixer_queue_item, first half: reuse a fixer loop or create one.
HandoffLoop(p) ==
    /\ At(p, "handoff") /\ Locked(p)
    /\ \/ \E l \in Loops :
            /\ \/ l \in ReusableFixerLoops(loops, HandoffKey(p)) /\ UNCHANGED loops
               \/ /\ ReusableFixerLoops(loops, HandoffKey(p)) = {}
                  /\ NextLoop(loops, l)
                  /\ loops' = InsertLoop(loops, l, "queued", "fixer",
                                         KeyTarget[HandoffKey(p)], "bare")
            /\ pipes' = [pipes EXCEPT ![p].newLoop = l, ![p].pc = "handoffInsert"]
            /\ Hold(p)
       \/ /\ ReusableFixerLoops(loops, HandoffKey(p)) = {} /\ LoopsFull(loops)
          /\ Goto(p, "runDone") /\ Release /\ UNCHANGED loops
    /\ UNCHANGED <<queue, runs, locks>>

HandoffInsert(p) ==
    /\ At(p, "handoffInsert") /\ Locked(p) /\ Release
    /\ queue' \in CreateOrGet(queue, HandoffKey(p), pipes[p].newLoop, FALSE)
    /\ pipes' = [pipes EXCEPT ![p].newLoop = NoLoop, ![p].pc = "runDone"]
    /\ UNCHANGED <<loops, runs, locks>>

-----------------------------------------------------------------------------
(* Fixer *)

\* B7: a paused loop does not start the repair agent.
PauseCheck(p) ==
    /\ At(p, "check") /\ Locked(p)
    /\ Goto(p, IF loops[PLoop(p)].status = "paused" THEN "retry" ELSE "repair")
    /\ UNCHANGED <<storeVars, reposMu>>

Repair(p) ==
    /\ At(p, "repair")
    /\ \/ Goto(p, "runDone")
       \/ Goto(p, "retry")
    /\ UNCHANGED <<storeVars, reposMu>>

-----------------------------------------------------------------------------
(* The exits the pipelines share *)

\* Mutant: the planner drops its guard after the run, as the others do.
KeepNothing(p) == UNCHANGED reposMu

\* The planner keeps the mutex from here to LoopCompleted, the others take it
\* once for each of the three writes.
KeepIfPlanner(p) == IF PType(p) = "planner" THEN Hold(p) ELSE UNCHANGED reposMu

RunSucceeded(p) ==
    /\ At(p, "runDone") /\ Locked(p)
    /\ IF runs[pipes[p].run].status # "absent"
       THEN /\ runs' = UpsertRun(runs, pipes[p].run, PLoop(p), "success")
            /\ Goto(p, "queueDone") /\ KeepIfPlanner(p)
       ELSE /\ UNCHANGED <<runs, reposMu>>
            /\ IF PType(p) = "planner" THEN Exit(p) ELSE Goto(p, "errQueue")
    /\ UNCHANGED <<queue, loops, locks>>

\* Mutant: the item's update fails and is only logged.
QueueNotCompleted(p) ==
    /\ At(p, "queueDone") /\ Locked(p)
    /\ Goto(p, "loopDone")
    /\ UNCHANGED <<storeVars, reposMu>>

\* mark_queue_terminal(..., "completed"): whatever the status was.
QueueCompleted(p) ==
    /\ At(p, "queueDone") /\ Locked(p)
    /\ queue' = SetStatus(queue, {PItem(p)}, "completed")
    /\ Goto(p, "loopDone")
    /\ UNCHANGED <<loops, runs, locks, reposMu>>

LoopCompleted(p) ==
    /\ At(p, "loopDone") /\ Locked(p) /\ Release
    /\ loops' = SetLoop(loops, PLoop(p), "completed")
    /\ Exit(p)
    /\ UNCHANGED <<queue, runs, locks>>

\* Mutant: an error returns early, as in the planner, and the item stays running.
EarlyReturn(p) ==
    /\ At(p, "errQueue") /\ Locked(p)
    /\ Exit(p)
    /\ UNCHANGED <<storeVars, reposMu>>

\* process_claimed_queue_item on an error: mark_queue_terminal(..., "failed").
QueueFailed(p) ==
    /\ At(p, "errQueue") /\ Locked(p)
    /\ queue' = SetStatus(queue, {PItem(p)}, "failed")
    /\ IF PLoop(p) = NoLoop THEN Exit(p) ELSE Goto(p, "errLoop")
    /\ UNCHANGED <<loops, runs, locks, reposMu>>

LoopFailed(p) ==
    /\ At(p, "errLoop") /\ Locked(p)
    /\ loops' = SetLoop(loops, PLoop(p), "failed")
    /\ Exit(p)
    /\ UNCHANGED <<queue, runs, locks, reposMu>>

PlannerStep(p) == \/ FlipToRunning(p) \/ PlannerWork(p)
                  \/ PlannerFailRun(p) \/ PlannerFailQueue(p) \/ PlannerFailLoop(p)
LoopRowStep(p) == LoopRowRead(p) \/ LoopRowWrite(p)
RetryStep(p)   == MarkedForRetry(p) \/ RetriedRunFailed(p)
ReviewerStep(p) == ReviewerWork(p) \/ HandoffLoop(p) \/ HandoffInsert(p)
FixerStep(p)   == PauseCheck(p) \/ Repair(p)
ExitStep(p)    == \/ RunSucceeded(p) \/ QueueCompleted(p) \/ LoopCompleted(p)
                  \/ QueueFailed(p) \/ LoopFailed(p)

PipeStep(p) == \/ Start(p) \/ LoopRowStep(p) \/ PlannerStep(p) \/ WorkerWork(p)
               \/ RetryStep(p) \/ ReviewerStep(p) \/ FixerStep(p) \/ ExitStep(p)

=============================================================================
