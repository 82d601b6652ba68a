------------------------------ MODULE Services ------------------------------
(***************************************************************************)
(* The services over the tables projects, loops, runs and queue_items      *)
(* (crate looper-service): ProjectService, LoopService and RunService.     *)
(*                                                                         *)
(* Each call is here statement by statement, as a thread that serves it    *)
(* makes them, and works on the row it read first: no call of the three is *)
(* a transaction, and upsert writes the whole row.  The daemon wires       *)
(* ProjectService and LoopService::create to HTTP routes; that threads     *)
(* share the rest of LoopService and RunService is an assumption.          *)
(* Every table refers to projects with ON DELETE CASCADE, and              *)
(* ProjectsRepository::upsert is INSERT OR REPLACE, which deletes the old  *)
(* row first: what hangs on the project goes with it.                      *)
(* Names, paths, branches, dates and the event log are left out, and so    *)
(* are the discoveries of add_project, whose callbacks the daemon leaves   *)
(* unset; a GitHub repository is known or not.                             *)
(***************************************************************************)
EXTENDS Integers, FiniteSets

CONSTANTS
    Projects,    \* project ids
    Targets,     \* targets of loops: a loop type with an issue or pull request
    Threads,     \* threads that answer requests
    Configured,  \* the projects that the configuration names and enables
    MaxLoops,    \* bound: loops ever created
    MaxRuns,     \* bound: runs ever started
    MaxRequests  \* bound: requests

ASSUME ServicesAssumption == /\ Configured \subseteq Projects /\ Projects # {} /\ Targets # {}
                             /\ MaxLoops \in Nat \ {0} /\ MaxRuns \in Nat /\ MaxRequests \in Nat

LoopIds == 1 .. MaxLoops
RunIds == 1 .. MaxRuns

VARIABLES
    projects,  \* the row of each project
    loops,     \* the row of each loop; its one queue item is item
    item,      \* the status of the queue item of each loop
    runRows,   \* the row of each run
    call,      \* the request of each thread: where it is and what it read
    requests,  \* how many requests there were
    removed    \* history: projects removed, and not written by a request since

servicesVars == <<projects, loops, item, runRows, call, requests, removed>>

ProjectRow == [there : BOOLEAN, archived : BOOLEAN, source : {"api", "config"}, repo : BOOLEAN]
NoProject == [there |-> FALSE, archived |-> FALSE, source |-> "api", repo |-> FALSE]

LoopStatus == {"idle", "queued", "running", "paused", "waiting", "stopped", "terminated",
               "completed", "failed", "interrupted"}
LoopRow == [there : BOOLEAN, project : Projects, target : Targets, status : LoopStatus]
NoLoop == [there |-> FALSE, project |-> CHOOSE p \in Projects : TRUE,
           target |-> CHOOSE t \in Targets : TRUE, status |-> "idle"]

RunStatus == {"queued", "running", "success", "failed", "cancelled", "interrupted", "parse_failed"}
RunRow == [there : BOOLEAN, loop : LoopIds, status : RunStatus]
NoRun == [there |-> FALSE, loop |-> 1, status |-> "queued"]

ItemStatus == {"none", "queued", "running", "cancelled", "completed"}

\* new, row, runRow: the row a request will write; then: what it does after it
\* has written a loop.
Request == [pc : {"idle", "add", "archive", "terminate", "cancel", "update", "sync", "create",
                  "start", "saveLoop", "cancelItem", "insertRun", "saveRun"},
            project : Projects, new : ProjectRow, target : Targets,
            loop : LoopIds, row : LoopRow, then : {"end", "cancelItem", "insertRun"},
            run : RunIds \cup {0}, runRow : RunRow]
NoRequest == [pc |-> "idle", project |-> CHOOSE p \in Projects : TRUE, new |-> NoProject,
              target |-> CHOOSE t \in Targets : TRUE,
              loop |-> 1, row |-> NoLoop, then |-> "end", run |-> 0, runRow |-> NoRun]

ServicesTypeOK ==
    /\ projects \in [Projects -> ProjectRow]
    /\ loops \in [LoopIds -> LoopRow]
    /\ item \in [LoopIds -> ItemStatus]
    /\ runRows \in [RunIds -> RunRow]
    /\ call \in [Threads -> Request]
    /\ requests \in 0 .. MaxRequests
    /\ removed \subseteq Projects

ServicesInit ==
    /\ projects = [p \in Projects |-> NoProject]
    /\ loops = [l \in LoopIds |-> NoLoop]
    /\ item = [l \in LoopIds |-> "none"]
    /\ runRows = [r \in RunIds |-> NoRun]
    /\ call = [c \in Threads |-> NoRequest]
    /\ requests = 0
    /\ removed = {}

-----------------------------------------------------------------------------
(* State machines and tables *)

\* LoopStatus::can_transition_to and RunStatus::can_transition_to.
LoopSteps == [s \in LoopStatus |->
    CASE s = "idle"    -> {"queued"}
      [] s = "queued"  -> {"running", "stopped", "interrupted"}
      [] s = "running" -> {"paused", "waiting", "stopped", "terminated", "completed", "failed",
                           "interrupted"}
      [] s = "paused"  -> {"queued", "running", "stopped", "terminated", "interrupted"}
      [] s = "waiting" -> {"running", "stopped", "interrupted"}
      [] s \in {"stopped", "failed", "interrupted"}  -> {"queued"}
      [] s \in {"terminated", "completed"} -> {}]
RunSteps == [s \in RunStatus |->
    CASE s = "queued"  -> {"running", "cancelled", "interrupted"}
      [] s = "running" -> {"success", "failed", "cancelled", "interrupted", "parse_failed"}
      [] OTHER         -> {}]

Schedulable == {"idle", "queued", "running", "paused"}

\* INSERT OR REPLACE of a project whose row exists: ON DELETE CASCADE takes its
\* loops and queue items, and with the loops their runs.
LoopsOf(p) == {l \in LoopIds : loops[l].there /\ loops[l].project = p}
Replace(p, row) ==
    LET gone == IF projects[p].there THEN LoopsOf(p) ELSE {} IN
    /\ projects' = [projects EXCEPT ![p] = row]
    /\ loops' = [l \in LoopIds |-> IF l \in gone THEN NoLoop ELSE loops[l]]
    /\ item' = [l \in LoopIds |-> IF l \in gone THEN "none" ELSE item[l]]
    /\ runRows' = [r \in RunIds |-> IF runRows[r].there /\ runRows[r].loop \in gone
                                   THEN NoRun ELSE runRows[r]]

\* A number stands for a row and not for its id, which is never used again: it
\* is free when there is no such row and no request holds one.
OnLoop == {"start", "saveLoop", "cancelItem", "insertRun"}
HeldLoops == {call[c].loop : c \in {d \in Threads : call[d].pc \in OnLoop}}
             \cup {call[c].runRow.loop : c \in {d \in Threads : call[d].pc = "saveRun"}}
FreeLoops == {l \in LoopIds : ~loops[l].there /\ l \notin HeldLoops}
FreeRuns == {r \in RunIds : /\ ~runRows[r].there
                            /\ \A c \in Threads : call[c].pc = "saveRun" => call[c].run # r}
\* Which of them a new row takes makes no difference.
FirstOf(ids) == {i \in ids : \A j \in ids : i <= j}

-----------------------------------------------------------------------------
(* ProjectService, as the daemon requests it *)

Ask(c, p) == /\ call[c].pc = "idle" /\ requests < MaxRequests /\ requests' = requests + 1
Tables == <<projects, loops, item, runRows>>

\* resolve_repo_for_add: is there a repository given, or else detected?
ResolvedForAdd(given, detected) == given \/ detected

\* add_project reads the row: an id in use is refused unless its project is
\* archived.
AddRead(c, p) ==
    /\ Ask(c, p)
    /\ ~projects[p].there \/ projects[p].archived
    /\ \E given, detected \in BOOLEAN :
         call' = [call EXCEPT ![c].pc = "add", ![c].project = p,
                              ![c].new = [there |-> TRUE, archived |-> FALSE, source |-> "api",
                                          repo |-> ResolvedForAdd(given, detected)]]
    /\ UNCHANGED <<Tables, removed>>

\* remove_project finds a project that is not archived and not of the
\* configuration.
RemoveRead(c, p) ==
    /\ Ask(c, p)
    /\ projects[p].there /\ ~projects[p].archived /\ projects[p].source # "config"
    /\ call' = [call EXCEPT ![c].pc = "archive", ![c].project = p]
    /\ UNCHANGED <<Tables, removed>>

\* archive: an UPDATE of the row, if it is still there.
Archive(c) ==
    /\ call[c].pc = "archive"
    /\ IF projects[call[c].project].there
       THEN /\ projects' = [projects EXCEPT ![call[c].project].archived = TRUE]
            /\ call' = [call EXCEPT ![c].pc = "terminate"]
       ELSE call' = [call EXCEPT ![c] = NoRequest] /\ UNCHANGED projects
    /\ UNCHANGED <<loops, item, runRows, requests, removed>>

TerminateByProject(c) ==
    /\ call[c].pc = "terminate"
    /\ loops' = [l \in LoopIds |->
                   IF /\ l \in LoopsOf(call[c].project)
                      /\ loops[l].status \notin {"completed", "terminated", "stopped"}
                   THEN [loops[l] EXCEPT !.status = "terminated"] ELSE loops[l]]
    /\ call' = [call EXCEPT ![c].pc = "cancel"]
    /\ UNCHANGED <<projects, item, runRows, requests, removed>>

\* Mutant: the items are cancelled by the status that admission gives them.
CancelQueuedByProject(c) ==
    /\ call[c].pc = "cancel"
    /\ item' = [l \in LoopIds |-> IF l \in LoopsOf(call[c].project) /\ item[l] = "queued"
                                  THEN "cancelled" ELSE item[l]]
    /\ removed' = IF projects[call[c].project].archived THEN removed \cup {call[c].project} ELSE removed
    /\ call' = [call EXCEPT ![c] = NoRequest]
    /\ UNCHANGED <<projects, loops, runRows, requests>>

CancelByProject(c) ==
    /\ call[c].pc = "cancel"
    /\ item' = [l \in LoopIds |->
                  IF l \in LoopsOf(call[c].project) /\ item[l] \in {"queued", "running"}
                  THEN "cancelled" ELSE item[l]]
    /\ removed' = IF projects[call[c].project].archived THEN removed \cup {call[c].project} ELSE removed
    /\ call' = [call EXCEPT ![c] = NoRequest]
    /\ UNCHANGED <<projects, loops, runRows, requests>>

\* update_project reads the row, changes what the request names (enabled is
\* archived, negated; the repository is the given or a newly detected one) and
\* writes all of it.
UpdateRead(c, p) ==
    /\ Ask(c, p)
    /\ projects[p].there
    /\ \E archived \in BOOLEAN, given, moved, detected \in BOOLEAN :
         call' = [call EXCEPT ![c].pc = "update", ![c].project = p,
                              ![c].new = [projects[p] EXCEPT !.archived = archived,
                                          !.repo = @ \/ given \/ (moved /\ detected)]]
    /\ UNCHANGED <<Tables, removed>>

\* sync_configured, for one project of the configuration: what detect_repo
\* finds, or what was known.
SyncRead(c, p) ==
    /\ Ask(c, p)
    /\ p \in Configured
    /\ \E found \in BOOLEAN :
         call' = [call EXCEPT ![c].pc = "sync", ![c].project = p,
                              ![c].new = [there |-> TRUE, archived |-> FALSE, source |-> "config",
                                          repo |-> found \/ projects[p].repo]]
    /\ UNCHANGED <<Tables, removed>>

\* projects.upsert, the last statement of the three.
WriteProject(c) ==
    /\ call[c].pc \in {"add", "update", "sync"}
    /\ Replace(call[c].project, call[c].new)
    /\ removed' = removed \ {call[c].project}
    /\ call' = [call EXCEPT ![c] = NoRequest]
    /\ UNCHANGED requests

-----------------------------------------------------------------------------
(* LoopService and RunService *)

\* create: no schedulable loop of the project and target, then the insertion,
\* which fails when the project is gone.
CreateCheck(c, p, t) ==
    /\ Ask(c, p)
    /\ projects[p].there
    /\ ~\E l \in LoopsOf(p) : loops[l].target = t /\ loops[l].status \in Schedulable
    /\ call' = [call EXCEPT ![c].pc = "create", ![c].project = p, ![c].target = t]
    /\ UNCHANGED <<Tables, removed>>

CreateInsert(c) ==
    /\ call[c].pc = "create"
    /\ call' = [call EXCEPT ![c] = NoRequest]
    /\ IF projects[call[c].project].there
       THEN \E l \in FirstOf(FreeLoops) :
            \E s \in {"idle", "queued", "running"} :
               loops' = [loops EXCEPT ![l] = [there |-> TRUE, project |-> call[c].project,
                                              target |-> call[c].target, status |-> s]]
       ELSE UNCHANGED loops
    /\ UNCHANGED <<projects, item, runRows, requests, removed>>

\* A call about a loop that is there reads its row and checks the transition.
LoopRead(c, l, status, then) ==
    /\ call[c].pc = "idle" /\ requests < MaxRequests /\ requests' = requests + 1
    /\ loops[l].there
    /\ call' = [call EXCEPT ![c].pc = "saveLoop", ![c].loop = l, ![c].then = then,
                            ![c].row = [loops[l] EXCEPT !.status = status]]
    /\ UNCHANGED <<Tables, removed>>

\* transition_status; resume is the transition to queued.
Transition(c, l, s) == s \in LoopSteps[loops[l].status] /\ LoopRead(c, l, s, "end")
Pause(c, l) ==
    /\ loops[l].status = "paused" \/ "paused" \in LoopSteps[loops[l].status]
    /\ LoopRead(c, l, "paused", "cancelItem")
Terminate(c, l) ==
    "terminated" \in LoopSteps[loops[l].status] /\ LoopRead(c, l, "terminated", "cancelItem")

\* loops.upsert: UPDATE of the whole row, or the INSERT of a loop that is gone,
\* which fails when its project is gone too.
SaveLoop(c) ==
    /\ call[c].pc = "saveLoop"
    /\ IF loops[call[c].loop].there \/ projects[call[c].row.project].there
       THEN /\ loops' = [loops EXCEPT ![call[c].loop] = call[c].row]
            /\ call' = [call EXCEPT ![c] = IF call[c].then = "end" THEN NoRequest
                                           ELSE [call[c] EXCEPT !.pc = call[c].then]]
       ELSE call' = [call EXCEPT ![c] = NoRequest] /\ UNCHANGED loops
    /\ UNCHANGED <<projects, item, runRows, requests, removed>>

\* cancel_by_loop.
CancelItem(c) ==
    /\ call[c].pc = "cancelItem"
    /\ item' = [item EXCEPT ![call[c].loop] = IF @ \in {"queued", "running"} THEN "cancelled" ELSE @]
    /\ call' = [call EXCEPT ![c] = NoRequest]
    /\ UNCHANGED <<projects, loops, runRows, requests, removed>>

\* start_run reads the loop, then looks for a running run and checks the
\* transition, writes the loop and inserts the run.
HasRunning(l) ==
    \E r \in RunIds : runRows[r].there /\ runRows[r].loop = l /\ runRows[r].status = "running"
StartGuard(row) == row.status = "running" \/ "running" \in LoopSteps[row.status]

StartRead(c, l) ==
    /\ call[c].pc = "idle" /\ requests < MaxRequests /\ requests' = requests + 1
    /\ loops[l].there
    /\ call' = [call EXCEPT ![c].pc = "start", ![c].loop = l, ![c].row = loops[l]]
    /\ UNCHANGED <<Tables, removed>>
StartCheck(c) ==
    /\ call[c].pc = "start"
    /\ call' = [call EXCEPT ![c] =
                   IF ~HasRunning(call[c].loop) /\ StartGuard(call[c].row)
                   THEN [call[c] EXCEPT !.pc = "saveLoop", !.then = "insertRun", !.row.status = "running"]
                   ELSE NoRequest]
    /\ UNCHANGED <<Tables, requests, removed>>

\* runs.upsert: INSERT OR REPLACE under the unique index of running runs, so a
\* running run of the loop makes way.  It fails when the loop is gone.
UpsertRun(r, row) ==
    IF loops[row.loop].there
    THEN runRows' = [q \in RunIds |->
                       IF q = r THEN row
                       ELSE IF /\ row.status = "running"
                               /\ runRows[q].there /\ runRows[q].loop = row.loop
                               /\ runRows[q].status = "running"
                            THEN NoRun ELSE runRows[q]]
    ELSE UNCHANGED runRows
InsertRun(c) ==
    /\ call[c].pc = "insertRun"
    /\ \E r \in FirstOf(FreeRuns) :
         UpsertRun(r, [there |-> TRUE, loop |-> call[c].loop, status |-> "running"])
    /\ call' = [call EXCEPT ![c] = NoRequest]
    /\ UNCHANGED <<projects, loops, item, requests, removed>>

\* complete and record_step, which leaves the status as it read it, write the
\* row they read.
RunRead(c, r, s) ==
    /\ call[c].pc = "idle" /\ requests < MaxRequests /\ requests' = requests + 1
    /\ runRows[r].there /\ s \in RunSteps[runRows[r].status] \cup {runRows[r].status}
    /\ call' = [call EXCEPT ![c].pc = "saveRun", ![c].run = r,
                            ![c].runRow = [runRows[r] EXCEPT !.status = s]]
    /\ UNCHANGED <<Tables, removed>>
SaveRun(c) ==
    /\ call[c].pc = "saveRun"
    /\ UpsertRun(call[c].run, call[c].runRow)
    /\ call' = [call EXCEPT ![c] = NoRequest]
    /\ UNCHANGED <<projects, loops, item, requests, removed>>

-----------------------------------------------------------------------------
(* The queue, as the rest of the daemon uses it: admission inserts an item for *)
(* a loop, a claim takes it unless its project is archived or its loop is      *)
(* completed, failed or paused, and its pipeline ends it.                      *)

QueueItem(l) ==
    /\ loops[l].there /\ item[l] \notin {"queued", "running"}
    /\ item' = [item EXCEPT ![l] = "queued"]
    /\ UNCHANGED <<projects, loops, runRows, call, requests, removed>>

ClaimItem(l) ==
    /\ item[l] = "queued" /\ ~projects[loops[l].project].archived
    /\ loops[l].status \notin {"completed", "failed", "paused"}
    /\ item' = [item EXCEPT ![l] = "running"]
    /\ UNCHANGED <<projects, loops, runRows, call, requests, removed>>

EndItem(l) ==
    /\ item[l] = "running"
    /\ item' = [item EXCEPT ![l] = "completed"]
    /\ UNCHANGED <<projects, loops, runRows, call, requests, removed>>

-----------------------------------------------------------------------------
ProjectStep(c) ==
    \/ \E p \in Projects : AddRead(c, p) \/ RemoveRead(c, p) \/ UpdateRead(c, p) \/ SyncRead(c, p)
    \/ Archive(c) \/ TerminateByProject(c) \/ CancelByProject(c) \/ WriteProject(c)
CreateStep(c) ==
    \/ \E p \in Projects, t \in Targets : CreateCheck(c, p, t)
    \/ CreateInsert(c)
LoopStep(c) ==
    \/ \E l \in LoopIds : \/ \E s \in LoopStatus : Transition(c, l, s)
                          \/ Pause(c, l) \/ Terminate(c, l) \/ StartRead(c, l)
    \/ SaveLoop(c) \/ CancelItem(c) \/ StartCheck(c)
RunStep(c) ==
    \/ \E r \in RunIds, s \in RunStatus : RunRead(c, r, s)
    \/ InsertRun(c) \/ SaveRun(c)
QueueStep(l) == QueueItem(l) \/ ClaimItem(l) \/ EndItem(l)

ServicesNext ==
    \/ \E c \in Threads : ProjectStep(c) \/ CreateStep(c) \/ LoopStep(c) \/ RunStep(c)
    \/ \E l \in LoopIds : QueueStep(l)

ServicesSpec == ServicesInit /\ [][ServicesNext]_servicesVars

-----------------------------------------------------------------------------
(* Properties *)

\* A project that was removed has no item running, until a request writes the
\* project again: remove_project archives before it cancels, so that no claim
\* falls between (queue.rs:50).
RemovedIsIdle ==
    \A l \in LoopIds : loops[l].there /\ loops[l].project \in removed => item[l] # "running"

=============================================================================
