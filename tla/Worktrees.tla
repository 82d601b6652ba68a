----------------------------- MODULE Worktrees -----------------------------
(***************************************************************************)
(* The planner's worktrees: the row in the table worktrees, the directory  *)
(* on disk, the worker run that continues on the planner's branch, and the *)
(* cleanup that looperd does every hour or when a client asks for it       *)
(* (looper-infra worktree_cleanup).  The gateway of looperd has no         *)
(* repositories, so the pipelines themselves never touch a row again.      *)
(***************************************************************************)
EXTENDS Naturals, FiniteSets, FiniteSetsExt

CONSTANTS
    PlannerLoops,   \* each has the branch planner/<loop> and a path of its own
    RetentionDays,  \* retention_days
    MaxPerTick,     \* max_per_tick
    MaxAttempts,    \* bound: planner attempts of a loop
    MaxWorkerRuns,  \* bound: worker runs on a planner's branch
    MaxWtDeaths,    \* bound: deaths of looperd
    MaxClientPasses \* bound: POST worktree cleanup

ASSUME WorktreesAssumption ==
    /\ {RetentionDays, MaxPerTick, MaxAttempts, MaxWorkerRuns, MaxWtDeaths, MaxClientPasses} \subseteq Nat
    /\ MaxPerTick > 0

VARIABLES
    wtRow,    \* status of the loop's row, or "none"
    dir,      \* the directories that exist
    planner,  \* what the loop's planner pipeline is doing
    run,      \* latest run of the worker whose checkpoints name the planner's
              \* branch, and whether a pipeline is at work on it
    plans,    \* for the hourly and the client's pass, the worktrees still to clean
    spent     \* counters of the bounded actions

wtVars == <<wtRow, dir, planner, run, plans, spent>>

Passes == {"hourly", "client"}
RunStatuses == {"none", "running", "success", "failed", "interrupted"}
PlannerPhases == {"idle", "prepared", "working"}

WorktreesTypeOK ==
    /\ wtRow \in [PlannerLoops -> {"none", "created", "cleaned"}]
    /\ dir \subseteq PlannerLoops
    /\ planner \in [PlannerLoops -> PlannerPhases]
    /\ run \in [PlannerLoops -> [status : RunStatuses, age : 0 .. RetentionDays, busy : BOOLEAN]]
    /\ plans \in [Passes -> SUBSET PlannerLoops]
    /\ spent \in [attempts : [PlannerLoops -> 0 .. MaxAttempts],
                  runs : [PlannerLoops -> 0 .. MaxWorkerRuns],
                  deaths : 0 .. MaxWtDeaths, passes : 0 .. MaxClientPasses]

WorktreesInit ==
    /\ wtRow = [l \in PlannerLoops |-> "none"] /\ dir = {}
    /\ planner = [l \in PlannerLoops |-> "idle"]
    /\ run = [l \in PlannerLoops |-> [status |-> "none", age |-> 0, busy |-> FALSE]]
    /\ plans = [p \in Passes |-> {}]
    /\ spent = [attempts |-> [l \in PlannerLoops |-> 0], runs |-> [l \in PlannerLoops |-> 0],
                deaths |-> 0, passes |-> 0]

------------------------------------------------------------------------------
(* The pipelines *)

\* Branch and path are unique and the id is new every time: the insert of a
\* second attempt fails with a warning and the row stays as it was.
InsertRow(l) ==
    /\ planner[l] = "idle" /\ spent.attempts[l] < MaxAttempts
    /\ wtRow' = [wtRow EXCEPT ![l] = IF @ = "none" THEN "created" ELSE @]
    /\ planner' = [planner EXCEPT ![l] = "prepared"]
    /\ spent' = [spent EXCEPT !.attempts[l] = @ + 1]
    /\ UNCHANGED <<dir, run, plans>>

\* git worktree add may fail; its result is ignored.
CreateDir(l) ==
    /\ planner[l] = "prepared"
    /\ dir' \in {dir, dir \cup {l}}
    /\ planner' = [planner EXCEPT ![l] = "working"]
    /\ UNCHANGED <<wtRow, run, plans, spent>>

\* The pipeline's end: git worktree remove, then the directory whatever git said.
RemoveDir(l) ==
    /\ planner[l] = "working"
    /\ dir' = dir \ {l}
    /\ planner' = [planner EXCEPT ![l] = "idle"]
    /\ UNCHANGED <<wtRow, run, plans, spent>>

\* A worker that found the planner's pull request writes its branch into the
\* checkpoint of its run, and has a worktree of its own.  The run is a new one,
\* or one that an earlier pipeline left unfinished.
StartWorker(l) ==
    /\ wtRow[l] # "none" /\ planner[l] = "idle" /\ ~run[l].busy
    /\ spent.runs[l] < MaxWorkerRuns
    /\ run' = [run EXCEPT ![l] = [status |-> "running", age |-> 0, busy |-> TRUE]]
    /\ spent' = [spent EXCEPT !.runs[l] = @ + 1]
    /\ UNCHANGED <<wtRow, dir, planner, plans>>

\* The end of a pipeline that went through removes the planner's directory, not
\* the worker's own, which has the number of the pull request in its name.
EndWorker(l) ==
    /\ run[l].busy
    /\ run' = [run EXCEPT ![l] = [status |-> "success", age |-> 0, busy |-> FALSE]]
    /\ dir' = dir \ {l}
    /\ UNCHANGED <<wtRow, planner, plans, spent>>

\* A failed validation ends the run and removes nothing.
FailWorker(l) ==
    /\ run[l].busy
    /\ run' = [run EXCEPT ![l] = [status |-> "failed", age |-> 0, busy |-> FALSE]]
    /\ UNCHANGED <<wtRow, dir, planner, plans, spent>>

\* A push or a pull request that fails, or no gateway, ends the pipeline and
\* leaves its run running.
LeaveWorker(l) ==
    /\ run[l].busy
    /\ run' = [run EXCEPT ![l].busy = FALSE]
    /\ UNCHANGED <<wtRow, dir, planner, plans, spent>>

\* Death and restart: the directories stay, and startup interrupts the running
\* runs whose last heartbeat is ten minutes old.
DieAndRestart ==
    /\ spent.deaths < MaxWtDeaths
    /\ planner' = [l \in PlannerLoops |-> "idle"]
    /\ \E stale \in SUBSET {l \in PlannerLoops : run[l].status = "running"} :
         run' = [l \in PlannerLoops |-> IF l \in stale
                                        THEN [status |-> "interrupted", age |-> 0, busy |-> FALSE]
                                        ELSE [run[l] EXCEPT !.busy = FALSE]]
    /\ plans' = [p \in Passes |-> {}]
    /\ spent' = [spent EXCEPT !.deaths = @ + 1]
    /\ UNCHANGED <<wtRow, dir>>

\* A day passes for what is over.
DayPasses ==
    /\ run' = [l \in PlannerLoops |-> IF run[l].status \notin {"none", "running"}
                                      THEN [run[l] EXCEPT !.age = Min({@ + 1, RetentionDays})] ELSE run[l]]
    /\ UNCHANGED <<wtRow, dir, planner, plans, spent>>

------------------------------------------------------------------------------
(* The cleanup *)

\* No loop's metadata and no queue item's payload holds a planner's path or
\* branch, so only the worker's run refers to it.
BlockedUnlessSuccess(l) == run[l].status \notin {"none", "success"}
Blocked(l) == run[l].status = "running"
Orphan(l)  == run[l].status = "none"
InRetention(l) == ~Orphan(l) /\ run[l].age < RetentionDays

Eligible(options) ==
    {l \in PlannerLoops : /\ wtRow[l] = "created" /\ ~Blocked(l) /\ ~InRetention(l)
                          /\ Orphan(l) => options.includeOrphans}

Options == [includeOrphans : BOOLEAN, dryRun : BOOLEAN, maxPerTick : 0 .. MaxPerTick]
DefaultOptions == [includeOrphans |-> TRUE, dryRun |-> FALSE, maxPerTick |-> MaxPerTick]

\* The first maxPerTick that are eligible, in the order of updated_at, which
\* nothing here depends on.
PlanPass(p, options) ==
    /\ plans[p] = {}
    /\ \E S \in SUBSET Eligible(options) :
         /\ Cardinality(S) = Min({options.maxPerTick, Cardinality(Eligible(options))})
         /\ plans' = [plans EXCEPT ![p] = IF options.dryRun THEN {} ELSE S]
    /\ UNCHANGED <<wtRow, dir, planner, run>>

HourlyPlan == PlanPass("hourly", DefaultOptions) /\ UNCHANGED spent
ClientPlan == /\ spent.passes < MaxClientPasses
              /\ \E options \in Options : PlanPass("client", options)
              /\ spent' = [spent EXCEPT !.passes = @ + 1]

\* git worktree remove --force, then the directory, then the row, which is
\* marked cleaned also when the directory could not be removed.
Clean(p, l) ==
    /\ l \in plans[p]
    /\ dir' \in {dir, dir \ {l}}
    /\ wtRow' = [wtRow EXCEPT ![l] = "cleaned"]
    /\ plans' = [plans EXCEPT ![p] = @ \ {l}]
    /\ UNCHANGED <<planner, run, spent>>

WorktreesNext ==
    \/ \E l \in PlannerLoops : \/ InsertRow(l) \/ CreateDir(l) \/ RemoveDir(l)
                               \/ StartWorker(l) \/ EndWorker(l) \/ FailWorker(l) \/ LeaveWorker(l)
    \/ DieAndRestart \/ DayPasses
    \/ HourlyPlan \/ ClientPlan
    \/ \E p \in Passes, l \in PlannerLoops : Clean(p, l)

\* The hourly thread runs as long as looperd does, and days pass.
WorktreesFairness ==
    /\ WF_wtVars(DayPasses) /\ WF_wtVars(HourlyPlan)
    /\ \A l \in PlannerLoops : WF_wtVars(Clean("hourly", l))
WorktreesSpec == WorktreesInit /\ [][WorktreesNext]_wtVars /\ WorktreesFairness

------------------------------------------------------------------------------
(* Properties                                                            *)

\* No worktree leaks: whatever happened to the planner and the workers that used
\* it, the row is cleaned in the end (plan.rs:241-244: terminal and dead
\* statuses must not protect worktrees forever), unless a worker's run on its
\* branch is running for ever, as one is that a failed push left and no restart
\* interrupts.
RowsAreCleaned ==
    \A l \in PlannerLoops :
       wtRow[l] = "created" ~> (wtRow[l] = "cleaned" \/ [](run[l].status = "running"))

\* The comment at plan.rs:241: "Only block cleanup for loops that may still use
\* the worktree."  A worktree whose planner is at work is not removed under it.
InUseIsKept ==
    [][\A l \in PlannerLoops : planner[l] = "working" /\ planner'[l] = "working" /\ l \in dir
                                 => l \in dir']_wtVars
==============================================================================
