# Looper: a TLA+ model of the daemon and of what surrounds it

Looper (`looperd`) is a daemon that lets coding agents plan issues, write code,
review pull requests and repair them. Its state is an SQLite database; its work
is a queue of items that two scheduler threads claim and a pipeline thread each
executes. The core of this directory models the part where mistakes are made by
several threads together: the queue, the claims, the pipelines, discovery, the
HTTP handlers that steer them, and the death and restart of the process. Around
it stand models of the other parts that keep state or decide: the road of an
issue through the labels of GitHub, agents, worktrees and checkouts, projects,
the network of daemons, webhooks, recovery, configuration, and the libraries the
runners judge by.

All paths below are under `src/crates/` unless they say otherwise.

## 1. Inventory of the system

| Component | State | Operations | Interacts through |
|---|---|---|---|
| `looper-storage` | tables `queue_items`, `loops`, `runs`, `locks`, `projects`, `worktrees`, `agent_executions`, `takeover_sessions`; partial unique indexes on active dedupe keys and on running runs | one SQL statement each: insert, upsert, claim, cancel, requeue, retry, mark terminal | every other component |
| `looper-scheduler` | `claim_mu`, the tick thread's place in its round, a batch of claimed items | claim pass, dispatch, discovery round; recovery and retry delays (not called by looperd) | storage under the `SendRepos` mutex; a thread per claimed item |
| `looper-runner` | a thread per pipeline with a snapshot of its item; run, loop and item rows; checkpoints | planner, worker, reviewer, fixer and coordinator procedures; handoff from reviewer to fixer; discovery; triage, dispatch, dependency graph, merge watch, lifecycle | storage under `SendRepos`; agent, git, GitHub |
| `looper-api`, `looper-service` | none of their own | pause, resume, stop, close, stop all, dequeue, locks, create loop, admit, enqueue, repair; projects; sessions; cleanup | storage on connections of their own, without any mutex |
| `looperd`, `looper-infra` | the process; circuit breaker, pid lock, supervisors; the plan of a cleanup | assembly, startup, shutdown, hourly cleanup, recovery of orphans | storage, file system, processes |
| `looper-net` | join keys, nodes, coordinator lease with fencing token (a database of its own) | join, leave, heartbeat, acquire, renew, expire, hand off | HTTP between nodes |
| `looper-webhook` | work queue of coalesced deliveries, tunnels | receive, worker loop, retry, close | not connected to looperd |
| `looper-agent` | child processes, `agent_executions` | start, wait, kill, timeouts | storage (that table), signals |
| `looper-git`, `looper-github` | worktrees and branches; a cache of lists | commands and HTTP requests | outside world |
| `looper-config` | the loaded configuration | load, merge, normalise, validate | files, environment |
| `looper-cli` | none | start, stop, restart, install; takeover; one request per other command | HTTP |
| `diffanchor` | the index of a diff | read a diff, validate an anchor | called by its tests only; the reviewer reads diffs by itself |
| `looper-e2e` | the state file of the double of `gh` | what GitHub would do | tests |
| `looper-types`, `looper-plane`, `looper-forge`, `looper-release` | none shared | statuses; clients; packaging | - |

**How the parts of the core interact.** `looperd` opens one `Repositories` and
wraps it in a mutex, `SendRepos`, that the scheduler and all runners share. A
handler of the HTTP API uses another connection and takes no mutex at all: what
it does is atomic only statement by statement. The tick thread alternates claim
phases with discovery; the pump claims when it is woken. Both take `claim_mu`
for a whole claim pass. A claimed item is handed to a new OS thread with a
snapshot of its row; nothing ties the thread to the row afterwards, so a row
that is paused, resumed and claimed again has two threads. The runners talk to
each other only through tables and through labels on GitHub, which they read
from lists that may be 30 seconds old.

**What is hard here, and what makes each component correct.**

- *Slots.* The limit on concurrency is a count of rows, taken and then used.
  Two threads use it, and clients change the rows in between.
- *Deduplication.* Five ways to insert an item (admission, enqueue, repair,
  discovery, handoff) and three to revive one (retry, resume, reset by upsert)
  must leave one active item for a key.
- *Control.* Pause, resume and stop are sequences of statements that claims and
  pipelines can fall between; a pause that has answered must have stopped work.
- *Runs.* `INSERT OR REPLACE` under a unique index deletes rows silently; what
  keeps it from deleting another pipeline's run is the order of two lookups.
- *Handoff and outcome.* One live fixer loop for a pull request, whoever asks
  for it; the planner writes run, item and loop in one critical section.
- *Labels.* The road from an issue to its code is a protocol of labels whose
  writes may fail after having had their effect, and whose reader is a cache.
- *Progress.* Queued work is claimed; a claimed item ends; an agent does not
  outlive its time; a daemon that was told to stop stops.
- *Crashes.* The tables, agents and directories survive, the threads do not.
- *Network.* A key admits one node; tokens order the coordinators.
- *Judgement.* Two readers of one diff, two judges of one pull request, a
  search for cycles, layers of configuration: they must agree, or miss each other
  by no more than one can say.

`PROJECT.json` lists each hazard at its line, with the property that covers it
or the reason why none does.

## 2. Modules

The core, composed by extension:

| Module | Models | Variables |
|---|---|---|
| `Storage` | `looper-storage/src/repos/{queue,loops,runs,locks}.rs` | `queue`, `loops`, `runs`, `locks` |
| `Runner` (extends `Storage`) | `looper-runner/src/{planner,worker,reviewer,fixer,fixer_handoff,completion}.rs` | `reposMu`, `pipes` |
| `Scheduler` (extends `Runner`) | `looper-scheduler/src/{scheduler,claim,tick}.rs` and the discovery procedures of the runners | `claimMu`, `pass`, `tick` |
| `Api` (extends `Scheduler`) | `looper-api/src/routes.rs`, `looper-service/src/admit_work.rs` | `api` |
| `Daemon` (extends `Api`) | `looperd/src/main.rs`, `looper-infra/src/agent_cleanup.rs`; the composition, fairness and the core's properties | `up`, `crashes` |
| `SlotPool` | the abstract promise of the scheduler: a pool of slots | `held` |
| `StorageProofs`, `DaemonProofs`, `LoopProofs` | what each statement does to the table; theorems on slots and items; on loops, runs and the mutex | - |

The road of one issue:

| Module | Models | Variables |
|---|---|---|
| `GitHub` | an issue, its pull requests, failing calls, the cache of lists (`looper-github`) | `gh`, `cache`, `troubles` |
| `Flow` (extends `GitHub`) | coordinator, planner, reviewer and worker between their calls to GitHub, with their checkpoints | `tick`, `planner`, `worker`, `reviewer` |
| `FlowProofs` | theorems on both | - |

Parts with a state of their own:

| Module | Models | Run |
|---|---|---|
| `Network` | `looper-net`: server tables statement by statement, managers and their heartbeats | `network`, `heartbeat` |
| `Services` | `looper-service`: projects, loops and runs with the cascade of `projects` | `libraries` |
| `Agents` | `looper-agent/src/executor.rs`, recovery of orphans | `periphery` |
| `Webhook` | `looper-webhook/src/{forwarder,routing}.rs` | `periphery` |
| `Worktrees` | planner's worktrees, `looper-infra/src/worktree_cleanup` | `periphery`, `worktree_in_use` |
| `Process` | start and end of looperd, `looper-cli/src/daemon.rs` | `periphery` |
| `Supervision` | circuit breaker, daemon lock, forwarder supervisor | `periphery` |
| `Checkouts` | directories and branches that worker and fixers share | `libraries` |
| `Takeover` | takeover sessions | `libraries` |
| `FakeGh` | the double of `gh` in the tests | `libraries` |
| `Recovery` | retry delays and the recoveries of scheduler and infra | `libraries` |
| `Intake` | triage and dispatch of an issue | `libraries` |
| `DepGraph` | the dependency graph and its search for cycles | `libraries` |
| `PullWatch` | the judges of a pull request | `libraries` |
| `Lifecycle` | who did what in a run | `libraries` |
| `Settings` | the layers of configuration | `libraries`, `config_precedence` |
| `Anchors` | the two readers of a diff | `libraries` |

The theorems on these parts are in `NetworkProofs`, `ServicesProofs`, `PeripheryProofs`
(`Agents`, `Webhook`) and `LibraryProofs` (every part of the run `libraries`, a section
each).

`MCDaemon`, `MCNetwork`, `MCLibraries` and `MCPeriphery` are the instances that TLC
checks. The last two hold parts that share no state: the first state chooses a
part and only this part moves, so one run explores the sum of the parts and not
their product.

**Statements as operators.** In `Storage` an operator that ends in a table is one
SQL statement. `CreateOrGet`, `UpsertActive` and `InsertItem` return the *set* of
possible results, because an insertion fails when the bound is reached (as a
database can for its own reasons), and then the caller takes its error path.

**Pipelines.** `pipes[p]` is a thread: its place (`pc`), the snapshot it was
given (`claim`), its run, and what it has read of a row it will write back
(`seen`). One action is one critical section under the mutex. Where the code
reads a whole loop row and writes it back, it is two actions that hold the
mutex, because a handler can change the row in between. Agent, git and GitHub
work is the choice of the next `pc`; `Flow` and `Checkouts` look into it.

**Passes and rounds.** `pass[c]` is a claim pass of thread `c`: its slots, what
it has claimed and not yet dispatched. `Round` is the tick thread's round for the
discovery flags that are on; `tick` is its place in it. `TickOrder` is the order
of `tick.rs`.

**Handlers.** `api[h]` is a request; the actions of `Api` are the statements of
its handler in their order. Requests with a single statement are one action.
`Network`, `Services`, `Takeover` and the repairs of `Recovery` follow the same rule.

**Death.** `Crash` forgets every thread, mutex and request and keeps the tables;
`Restart` is `interrupt_stale_runs`. A graceful shutdown is the same for these
tables: it writes outcome rows and requeues nothing. In `Flow` a death keeps
GitHub and the checkpoints, in `Agents` the children, in `Worktrees` and
`Checkouts` the directories.

**Calls to GitHub.** A call that writes succeeds, fails, or fails after having had
its effect (`gh` is a child process that may end badly). Lists are answered from
a cache that nothing invalidates. A list or view that fails costs nothing; a
failed write, a death and a pull request that goes stale count as `troubles`.

### What is abstracted

- Times. `available_at` is always "now" on the modelled paths, so it never holds
  an item back; ties in an ordering by time are left open (any candidate). The
  latest run of a loop is the last inserted; `created_at` is in fact taken just
  before the mutex (`worker.rs:209`). Elsewhere a clock is a flag that may be
  set (a timeout that is over, a lease that ran out) or a bounded day.
- `form` in a loop row stands for how `target_id` spells the target: with the
  repository (`admit_work`), without it (`create_loop`), or as a bare number
  (discovery and handoff). It decides who finds whose loop.
- Checkpoints of a run rewrite the row with the status they read, under the
  mutex: no change of state in the core. What they hold matters in `Flow`, where
  they are modelled. A resumed run continues after its last step.
- Attempts saturate at the threshold that makes an item a long-term retry.
- The reviewer's early ends (spec ready, needs a human) are its normal outcome
  in the core; `Flow` tells them apart.
- Worker keys are about issues, and a pipeline's saved pull request number is
  not kept: only the admission of a worker by pull request number would notice.
- Reviewer discovery lists the loops once and holds the mutex for all its pull
  requests; the model takes and releases it for each, which allows more.
- The post-discovery claim phase follows another one directly and is one with
  it. Coordinator discovery touches no queue row and is left out of the round;
  its work on GitHub is in `Flow`.
- In `Flow` an item that discovery inserts is claimed at once, and there is one
  issue; what the queue does with items is the subject of `Daemon`.
- Names, texts, paths and commit contents are members of small sets; a commit is
  the edits it brings, a diff is its signs line by line.
- Errors of the database other than a full table, and panics, are left out.
- For code that looperd does not call (`Supervision`, `Intake`, `Lifecycle`,
  `Recovery`, `Webhook`, the managers of `Network`, all of `Services` but the
  project routes and `LoopService::create`, the index of `Anchors`), who calls it
  and when is an assumption, which the header of the module states.
- In `Recovery` the clock is three ages of an item's `available_at`: still to come,
  past by a second or more when a recovery would begin, and in between. A recovery
  compares with the second in which it began, and kills orphans for seconds, so
  what becomes due meanwhile is not due to it (`recovery.rs:11`, 48, 239, 265).
- In `Intake` people take dispatch labels away and never add one by hand, though the
  comment looper writes asks them to (`dispatch.rs:193-199`): a label of theirs would
  be no verdict of triage, and `DispatchedWasValid` is about what looper dispatches.

## 3. Runs

Bounds common to the core's configurations: `MaxItems`, `MaxLoops`, `MaxRuns` (rows
ever inserted), `Pipes` and `Handlers` (threads and requests at once), `MaxCrashes`.
The claim pass waits until there is a pipeline for each of its slots, so `Pipes`
never cuts a dispatch short. Pipelines and handlers are symmetric in the safety
runs. The other bounds are named where each module declares them.

| Run | Instance | Checks |
|---|---|---|
| `claims` | both claiming threads, 1 slot, 2 items of a worker, a type no runner handles, or a repair; enqueue, create loop, repair, dequeue | `RunningWithinLimit`, `Inv`, `ImplementsSlotPool` |
| `control` | 2 handlers among admit, pause, resume, close, repair on one fixer loop | `PausedIsQuiet`, `OneActivePerDedupe` |
| `handoff` | reviewer, fixer and planner with their discoveries, 2 slots, 3 loops, dequeue, stop all | `PlannerOutcomeIsWhole`, `OneFixerLoop` |
| `recovery` | one worker loop, 2 runs, a crash, admit, resume, stop, close | `RunningRunIsLatest`, `PipesOwnTheirRun` |
| `liveness` | reviewer discovery and handoff under `FairSpec`, both threads, locks that come and go | `QueuedIsTaken`, `ClaimEnds` |
| `network` | 2 daemons on 2 machines, 2 join keys, 2 identities, 2 tokens, 6 commands, under `FairSpec` | `KeyAdmitsOneNode`, `FencingOrdersHolders`, `ActiveNodesAreKept`, `FirstTickFills` |
| `libraries` | each part by itself: 3 days and 1 comment (`Intake`); every graph of 3 issues with up to 2 dependencies each (`DepGraph`); 1 push (`PullWatch`); 1 commit (`Lifecycle`); 2 items of a loop, 1 attempt, 2 deaths (`Recovery`); every combination of 5 files, 6 environments and 4 sets of overrides (`Settings`); 2 files, 4 lines, 3 hunks (`Anchors`); a worker and 2 fixers, 3 attempts, 1 failing command, 1 death (`Checkouts`); 2 callers, 3 calls of 19 (`FakeGh`); 2 clients, 2 sessions (`Takeover`); one project, 2 threads, 5 requests, 1 loop, 2 runs (`Services`) | `DispatchedWasValid`; `CyclesAreReal`, `KnotsAreReported`; `WatchersAgree`; `AttributionIsSound`; `DueWorkSurvives`; `StrongestSays`; `EvidenceIsPlaced`; `DoneIsDelivered`; `SavesAreKept`; `StoppedIsStopped`; `RemovedIsIdle` |
| `periphery` | each part by itself: 1 agent, 2 deaths of looperd (`Agents`); 2 workers, 3 deliveries of 5 kinds (`Webhook`); 2 planner loops, 1 attempt, 2 worker runs, 1 death, 1 pass by a client (`Worktrees`); 2 processes, 1 accident (`Process`); 2 callers, 2 lock users, 2 repositories (`Supervision`) | `TerminalIsDead`, `ActiveIsSupervised`, `RuntimeIsBounded`; `WorksMatchQueue`, `AwakeWorkerDrains`; `RowsAreCleaned`; `ToldEnds`; `OpenRecovers` |
| `flow` | one issue, 2 loops of each runner, 3 pull requests, 1 trouble, the cache of the unfiltered list | `ImplementsInPlace`, `BlockedIsNotReady`, `TransitionHeals`, `PlannedIsImplemented` |

Why the bounds are enough: a race needs two actors and one row they fight for,
or one row and its successor. Two pipelines or two handlers on one key, with two
items, two runs and one crash, let every pair of statements of the two meet in
every order; what a third actor does to the invariants proved below is settled
by the proofs, which have no bounds on the number of anything. The smallest
number of slots at which a limit can be exceeded is 1. Two daemons with two
keys reach every way of joining twice, and two tokens a holder and its
successor. A recovery that dies is cut short by the second death only, which is
why `Recovery` has two. Three issues are the smallest graph with two cycles that share a
node and a knot that the search may enter in the middle. A second fixer is what
finds the directory that the first left behind, and three hunks are a first, a
later one and one of another file. One trouble at any point of the road of an
issue already allows every half-done step; two are too large, and so is a cache
for each list (the cached list is the one without a label, which only the worker
reads).

Deadlock is checked in `claims`, `control`, `handoff`, `recovery`, `liveness`
and `flow`, where the tick thread's round never stops. The others say
`CHECK_DEADLOCK FALSE`: there the requests, processes and inputs are bounded and
may run out. The type invariants of the modules (`StorageTypeOK` to `ApiTypeOK`
are parts of `Inv`) hold on these instances; those outside the core are kept as
declarations of the variables and not listed in the runs.

### Disagreements the runs show

| Run | What the document says | What happens |
|---|---|---|
| `heartbeat` | `manager.rs:94-95`: "Spawns a tokio task that runs until cancelled.", 193: "Lease vacant or expired and eligible → acquire" | `tick_heartbeat` holds the read guard of its state (134) while it awaits the write lock (164): after the first status it can read it waits for itself, and a lease that becomes vacant later is not acquired by it |
| `config_precedence` | `loader.rs:17-21`: overrides, environment, file, defaults, in this order | merging replaces whole sections (`partial.rs:67`): a variable that sets one field drops the file's other fields of its section, and the defaults stand in |
| `worktree_in_use` | `plan.rs:241`: "Only block cleanup for loops that may still use the worktree." | a loop is matched by metadata that no planner loop has; the hourly pass removes the worktree of a planner at work |

### Behaviours of the code that the models have and no run names

They were met while modelling. Most are in the models as the code has them, and
are the reason why a property above says less than one would like; the rest
are in what a model abstracts (a second issue, texts, the number of rows) and
were noted while reading.

*Queue, loops and runs.* A worker's failed validation marks the item for retry
and then failed (`worker.rs:685`, `1044`). After a restart, items stay running
without a thread and keep their slots. Pause and resume requeue an item whose
pipeline is alive: more tasks than `max-workers`. The loop of a failed planner
stays paused and discovery makes another (`planner.rs:986`). Discovery and
admission spell a review's dedupe key differently, and queue it twice
(`reviewer.rs:1017`). The claim query does not know the status `stopped`
(`queue.rs:51`). The guard against overwriting a terminal status is an empty
branch (`completion.rs:16`). Resume accepts a completed loop, a sink of
`loop_status.rs:40`. `admit_work` does not find the loop that `POST loops` made.
An item of a type without a runner is claimed and stays running
(`claim.rs:48`), and so does the planner's when it has no loop
(`planner.rs:292`).

*Road of an issue.* After a worker ended, the coordinator adds the label again
and the issue is implemented again (`coordinator.rs:428`; the comment at
`worker.rs:862` means to avoid that). The worker may adopt the spec of another
issue whose number begins alike (`worker.rs:184`). A spec that was blocked is
not reviewed again. The commit that is approved is read when the review is
published (`reviewer.rs:689`), and a review that fails to be submitted still
makes the spec ready (`reviewer.rs:700`, `764`). The criteria's checkpoint
overwrites the agent's output (`reviewer.rs:561`). `remove_issue_labels` always
succeeds (`looper-github/src/gateway.rs:536`). A list may be 30 seconds old where
`worker.rs:128` says that it is fresh.

*Judgement.* The coordinator merges with `--auto` without looking at the checks
(`coordinator.rs:488-494`) and passes the watch neither marker nor budget (475); the
gateway never fills `mergeable` and gives states in upper case
(`gateway.rs:1856`), so that looperd reaches only a part of what the judges can say. A
pull request with pending checks and no approval is stuck (`merge_watch.rs:136`).
Triage leaves trigger labels behind (`triage.rs:389`) and answers its own reply
when both fall in one second (312); dispatch ignores the hold label in
human-gated mode (`dispatch.rs:143`) and takes an old command again. The search
for cycles misses some (`depgraph.rs:289`), and whether a dependency is satisfied
ignores the repository (187-204). A report without provenance overwrites it with
the default (`lifecycle.rs:410`), and any text passes as a source (484-491). Anchors on the left side are checked against
ranges that later hunks do not extend (`diffanchor/src/lib.rs:107-119`, `197-203`);
an added line `++ x` is read as a header (66), and so is a line of context that
reads ` @@ -1 +1 @@` (301); a range ends one past its hunk. The criteria's reader
counts remarks about newlines (`reviewer_criteria.rs:311-316`), and the reviewer
gives it the whole diff as one file named `full_diff` (`reviewer.rs:532-536`), a
path that no index has: `EvidenceIsPlaced` speaks of the line and of the file it
really is in.

*Checkouts and worktrees.* Worker and fixers of a pull request share a directory
and a fixer's cleanup removes the worker's. A fix on `fix/<loop>` never reaches
the pull request's branch (`fixer.rs:435`). Errors of commit and push are ignored
and the directory is deleted (`worker.rs:838`, `fixer.rs:765-910`). Where git ignores
`.looper`, a fixer may commit nothing (`fixer.rs:63`; the constant `Ignored`). A row
that was cleaned once hides a second attempt (`planner.rs:524`), a failed removal
is marked cleaned (`run.rs:128-139`), and only the first 100 rows are looked at
(`looper-storage/src/repos/worktrees.rs:89`). A worker whose push fails, or whose pull
request is not made, ends with its run still running and cleans nothing
(`worker.rs:854`, 860, 921): the planner's row is blocked (`plan.rs:138`) until a
restart interrupts the run, or for ever.

*Agents.* The run loop holds the state lock while it awaits the readers, and a
reader needs it for its last chunk: neither goes on and the exit is never
recorded, where `executor.rs:699` promises to record it always. An error after the
spawn leaves a child without supervision (197, 259). `kill()` sends only SIGTERM
(484-493). Recovery kills by a process id that may be another's
(`agent_cleanup.rs:48`).

*Process.* `scheduler.shutdown` is never called (`main.rs:643`), a failed bind is not
noticed (596), the daemon lock is never taken (390), `restart` fails when nothing
runs (`looper-cli/src/daemon.rs:75`), `uninstall` removes data while the daemon
drains (211).

*Services.* `ProjectsRepository::upsert` is `INSERT OR REPLACE`: an update or a
synchronisation deletes loops, runs and items of the project by cascade
(`projects.rs:32`, `project_service.rs:307`). An archived project accepts new loops.
`LoopService` and `RunService` read a row, check the transition and write the whole
row back without a transaction (`loop_service.rs:118-151`): a loop that a removal
terminated in between is live again, where `loop_status.rs:39-41` calls terminated
and completed sinks. `RemovedIsIdle` holds all the same: the write brings no item
back. looperd calls only `LoopService::create` (`routes.rs:178`).

*Network.* A heartbeat deadlocks on its own lock when it has read one status
(`manager.rs:134`, 164; the run `heartbeat`): it neither stores the status nor
reconciles the lease again, so only what it does before that is
promised, in `FirstTickFills`. A decoded status hangs it after the requests to the
lease, so `FencingOrdersHolders` speaks of the status by which a heartbeat acts or
hangs. Nothing in looperd makes a `Manager`. No statement inserts the row of the lease,
so both properties speak of a server that has it (`Network` starts with and
without). A lease that ran out and still names a dead holder is not taken, although
the comment at `manager.rs:193` says "vacant or expired". A rejected join uses up its key
(`handlers.rs:212-246`); a lost answer leaves a name that cannot join. A handoff
keeps the token. `client.rs` does not decode the envelope that the server sends;
the model has both shapes (`bare`).

*Webhooks.* `project_id` is never filled, so no item can be executed
(`forwarder.rs:247`, `403`); a coalesced delivery loses its lane (144); an event of
both lanes is executed twice (165, 320); a worker that looks before it listens
misses the last wake-up (304; the comment at 178 promises otherwise), which is
why `AwakeWorkerDrains` is about workers that are awake.

*Recovery.* Delayed retries are cancelled at startup (`queue.rs:417`), and so is what
fell due since the second in which the recovery began, which each kill lengthens by
five (`recovery.rs:11`, 48, 239, 265): `DueWorkSurvives` speaks of what was due
before. A run without execution stays running (182); a death between interrupt and
repair leaves the items of the loop active, and nobody repairs them later, since the
run is no longer running (145-153); cancel and requeue are two statements (163-164); the delay overflows from attempt 64 on
(`failure.rs:139`); transient failures are retried without bound (130).

*Supervision.* A late success closes an open breaker (`circuit_breaker.rs:107`);
half-open lets everybody through (100; the comment at 86 says one); two
processes can hold the lock, since the file is removed before it is closed
(`daemon_lock.rs:98-103`, against line 11); the forwarder supervisor never restarts
what it gave up.

*Configuration.* `pool` is not merged (`main.rs:416` of looperd falls back to
defaults); a variable with a bad value erases its section (`env.rs:40`);
normalising happens after merging (`normalize.rs:13`).

*Sessions and tests.* No step of the daemon advances or ends a session, and its
budget of errors is unused (`looper-types/src/takeover.rs:3`); stop ends the newest
session of a name (`routes.rs:1048`), and finds, ends and cancels in three
statements, so that two stops may find one session and both answer that they
stopped it. Processes of the double of `gh` lose each other's updates
(`fake-gh/main.rs:1386`, `1401`); and a merge of a pull request it does not find
answers with success and saves nothing (475-492). So `SavesAreKept` counts the
answers of calls that saved, until one of them saves over a save it did not see; the gateway passes GraphQL values
with the quotes of JSON (`gateway.rs:1660`), so threads are not resolved, and the
error is ignored (`fixer.rs:814`).

## 4. Fairness

*Core.* `FairSpec` assumes strong fairness of the pipelines, of the tick thread's
claim passes and of its discovery steps, and of the pump once it is in a pass.
Pipelines are OS threads; that their waits for agents end is assumed (what an
agent's timeouts promise is `RuntimeIsBounded`, and the deadlock after its exit is
described above). The tick thread is woken every poll interval (`scheduler.rs`,
`recv_timeout`) and sleeps in between without a mutex, and pipelines hold it for a
few statements only, so a thread that waits for a mutex gets it: that is why
fairness is strong. Nothing is assumed of the pump's wake-ups, of clients or of
crashes: the liveness run has no clients that steer loops and no crash, because a
client may pause and resume for ever. Discovery of a key may be repeated for
ever; it is not assumed to happen.

*Network.* Weak fairness of a request that the server has begun (its threads
run), strong fairness of a daemon's heartbeat until it hangs, which a timer repeats:
commands of the same machine may stop it for a while, not for ever. Commands,
restarts and losses are not fair.

*Flow.* Weak fairness of the tick and of the cache's expiry, strong fairness of
the pipelines, which a death interrupts. Calls may fail `MaxTroubles` times.

*Periphery.* An agent's supervisor, readers and timers are weakly fair, and so is
the death of a child that was sent SIGKILL; its exit by itself is not. A webhook
worker's steps are weakly fair. In `Worktrees` days pass and the hourly pass comes
and goes on; nothing is assumed of workers on a planner's branch: `RowsAreCleaned`
excepts a row whose worker's run is running for ever. The steps of a shutdown are
weakly fair (its drain is under a timeout); clients that hold a stream are not.
The cooldown of a breaker passes.

## 5. Proofs

Every safety invariant and every action property that a passing run checks is also
proved, for every value of the constants that the modules' named assumptions allow.
`AnchorsAssumption`, `ApiAssumption`, `CheckoutsAssumption`, `DaemonAssumption`,
`DepGraphAssumption`, `FakeGhAssumption`, `GitHubAssumption`, `IntakeAssumption`,
`NetworkAssumption`, `PullWatchAssumption`, `RecoveryAssumption`, `RunnerAssumption`,
`SchedulerAssumption`, `ServicesAssumption`, `StorageAssumption`, `TakeoverAssumption`
and `WebhookAssumption` give the types of the parameters, say that threads and
commits have different names and that a set of names is not empty; `LayersParse` (in
`Settings`) is what serde makes of a layer: no section or field it does not know.

| Theorem | States | By the inductive invariant |
|---|---|---|
| `Invariance`, `TypeCorrect` | `Spec => []Inv`, `Spec => []TypeOK` | `Inv` |
| `Limit` | `Spec => []RunningWithinLimit` | `Inv` |
| `Refinement` | `Spec => ImplementsSlotPool` | `Inv` |
| `Dedupe` | `Spec => []OneActivePerDedupe` | `Inv` |
| `RunningIsLatest`, `OwnRun` | `Spec => []RunningRunIsLatest`, `... []PipesOwnTheirRun` | `RunInv` |
| `MutexInvariance` | `Spec => []MutexInv` | `MutexInv` |
| `RefInvariance` | `Spec => []RefInv`, if `NoPlannerEnqueue` | `RefInv` |
| `OneFixer` | `Spec => []OneFixerLoop`, if `NoPlannerEnqueue`, `NoLoopClients`, `NoFixerAdmission` | `FixerInv` |
| `PauseIsQuiet` | `Spec => [](crashes = 0 => PausedIsQuiet)`, if `NoPlannerEnqueue` | `PauseInv` |
| `OutcomeIsWhole` | `Spec => [](crashes = 0 => PlannerOutcomeIsWhole)`, if `NoEnqueue`, `NoLoopClients`, `NoPlannerAdmission`, `IssuesApart` | `NameInv`, `PlanInv` |
| `OneNodePerKey`, `ActiveKept`, `TokensOrder` | `KeyAdmitsOneNode`, `ActiveNodesAreKept`, `FencingOrdersHolders` | `NetInv` |
| `RemovedStaysIdle` | `RemovedIsIdle` | `RemovalInv` |
| `InPlace`, `BlockedStays` | `ImplementsInPlace`, `BlockedIsNotReady` | `FlowInv` |
| `OutcomeMeansDead`, `NoActiveOrphans` | `TerminalIsDead`, `ActiveIsSupervised` | `AgentsInv` |
| `QueueIsTrue` | `WorksMatchQueue` | `HookInv` |
| `OnlyValidIsDispatched` | `DispatchedWasValid` | `IntakeInv` |
| `CyclesAreRealAlways`, `KnotsAreFound` | `CyclesAreReal`, `KnotsAreReported` | `GraphInv`, `Searched` |
| `JudgesAgree` | `WatchersAgree` | `PullWatchTypeOK` |
| `AttributionStaysSound` | `AttributionIsSound` | `LifeInv` |
| `DueWorkIsKept` | `DueWorkSurvives` | `RecInv` |
| `StrongestStands` | `StrongestSays` | `SettingsInv` |
| `WorkIsDelivered` | `DoneIsDelivered`, if `Ignored = FALSE` | `CheckInv` |
| `EvidenceStaysPlaced` | `EvidenceIsPlaced` | `AnchorsInv` |
| `SavesStay` | `SavesAreKept` | `FakeInv` |
| `StopIsHonest` | `StoppedIsStopped` | `StopInv` |

### The hypotheses

Five theorems say what the code promises only under a condition, and the runs of those
properties have it too. Four conditions are needed: TLC finds the property violated in a
variant of its run without the condition.

- `NoEnqueue`: `/enqueue` takes any type with any loop. Work of another type that is put
  on a planner's loop writes the run and the status that are the planner's outcome.
- `NoLoopClients`: pause, resume, stop and close write the status of a loop that has
  ended since they read it, which makes it live again, beside a loop created since; and
  they write over what a planner has just written.
- `NoFixerAdmission`: admission looks for a loop and creates one without the mutex, so it
  may create the second fixer loop of a pull request.
- `crashes = 0`: after a death items stay `running` under a paused loop, and a death may
  cut the three statements that write an outcome. Both theorems speak of all states
  before the first death. `PausedIsQuiet` leaves out planners' loops, which the planner
  itself pauses.

Three more are what the argument uses; no variant of a run showed a violation
without `NoPlannerEnqueue` or `NoPlannerAdmission`, so they may be stronger than needed:

- `NoPlannerEnqueue`: the argument keeps planners on planners' loops (`RefInv`), and
  `/enqueue` may name any loop.
- `NoPlannerAdmission`: it also keeps one item of a planner's loop in the system
  (`OneToken`), which admission inserts without the mutex.
- `IssuesApart` is what the rows are: planners have targets of type `issue`, and
  reviewers take up only loops of type `pull_request`.

`WorkIsDelivered` has `Ignored = FALSE`: where git ignores `.looper` the worker's work
may be lost, as the comment at `DoneIsDelivered` tells.

### The core

**Slots.** `RunningWithinLimit` is not inductive: a claim adds a running item, and
nothing in the limit says that a slot was free. `SlotInv` adds what the code relies on: a
pass under way holds `claim_mu`, a pass that is not has no slots, and running items
*plus the slots of any pass* do not exceed the limit. With one pass at a time this
survives each step: counting makes slots out of free room, a claim turns a slot into a
running item, everything else only takes items out of running. `SoundPipe` and
`SoundCall` are what `TypeOK` needs of the records that threads carry. `TypeOK`,
`SoundPipe`, `SoundCall` and `SlotInv` together are `Inv`, which the run `claims` also
checks. Each step either claims one item in a pass with a slot (`ClaimStep`) or makes no
item running (`QuietStep`); this case split gives the accounting and the refinement: a
claim is `Take`, a quiet step is `GiveBack` of the items that left running, or a stutter.

**Deduplication.** `Dedupe` is inductive relative to `Inv`: `StorageProofs` shows of
each statement that it leaves the index satisfied when it was, and each action
is one statement on the queue at most.

**Runs.** A resumed run is written with INSERT OR REPLACE, which deletes the other running
rows of its loop. `RunInv` says that the running run is the latest of its loop, that every
pipeline has a run of its loop, and that rows are numbered without gaps: only so is a new
row later than all others.

**The mutex.** In the code the holder of the repositories' mutex is whoever has a guard in
scope. `MutexInv` says at which places of a pipeline, a pass and a discovery that is. From
it follows that a row read in one critical section is unchanged when the same section
writes it back, unless a client wrote, and that no loop was created between the lookup
and the insertion of a fixer loop (`FixerInv`: `SeenIsCurrent`, `NoneWasFound`).

**Pause.** `PauseInv` needs the rows pipelines have read as well as those in the table: a
pipeline writes back the status it has seen, so one that has seen `paused` must be of a
loop whose items are cancelled or about to be.

**A planner's outcome.** Three statements write it (run, item, loop) and nothing but the
item's way through the system keeps another from writing between them. `PlanInv` follows
the item: from discovery through the queue and a batch to one pipeline it is at one place
(`OneToken`), and the run of the loop is as far as the pipeline has come (`RunAsFar`).
`NameInv` says that no item, claim or request of another type names a planner's loop.

### The parts

- `NetInv`: ids are issued in order, each for one key, and the rows and requests hold no
  others (`AdmitInv`); no sighting of the lease is ahead of it, and any two sightings with
  one token have one holder, unless the token was handed on (`FenceInv`).
- `RemovalInv`: an id is in the history of removals only with an archived row, no item
  outlives its loop's row, and the loop row that a request has read and will write back
  is of the project it was read with (`HeldRowsAreTrue`): a stale write changes a status,
  it moves no loop and makes no item.
- `FlowInv`: the verdict a reviewer marks by is the one it has recorded (`ReviewInv`); a
  worker that looked with fresh answers and found nothing creates a pull request only
  while there is still nothing, also when it comes back after a death (`WorkInv`).
- `AgentsInv`: where a run loop may be, by what its child, its signals and its row say.
- `HookInv`: types and the property itself; the work is in counting what a delivery adds to
  the queue for a set of keys, and in the loop that forgets them.
- `GraphInv`: the stack is a path of the graph, so an edge from the top back into it closes
  a cycle. `Searched` ranks the issues the search has come back from: an edge inside a
  knot leads to a lower rank, or is being followed, or a cycle of its knot was recorded.
  At the end the issues below `n` in rank would be closed under edges, which a knot through
  `n` without a cycle recorded contradicts; no induction over paths is needed.
- `RecInv`: an owed item is queued and due, its loop has no run in progress, and no
  reconciliation has the loop on its list or in repair (`OwedIsSafe`), whichever loop it
  is at when looperd dies.
- `IntakeInv`: an issue with a dispatch label was found valid by its last triage and is
  not marked unclear, which a re-triage needs.
- `LifeInv`, `SettingsInv`, `PullWatchTypeOK`: what the last step leaves is sound by itself; the proofs are about what the operators return (the merge of
  layers, `ParseDecision`, the merge of attributions) for any argument.
- `CheckInv`: an edit is in the directory of its actor or in a commit of the branch checked
  out there, until the push; a worker on the planner's pull request, whose directory a
  fixer may remove, has then another branch there and fails.
- `AnchorsInv`: the criteria's reader is ahead of the true line by the lines that slipped,
  and in a file's first hunk that no path interrupts, one range is open, behind the line
  by the lines that read as headers (`ReadersAgree`); ranges only grow (`RangesGrow`).
- `FakeInv`: until a save is lost, the file holds what was answered, and so does what any
  process that is not stale has loaded or will save (`Loyal`).
- `StopInv`: of every name there are no more listed sessions active than sessions started
  and ended since, plus requests still to be sent, plus the session that a request has
  found and not ended yet.

### What only TLC checks

Liveness under fairness (`QueuedIsTaken`, `ClaimEnds`, `FirstTickFills`,
`RuntimeIsBounded`, `AwakeWorkerDrains`, `RowsAreCleaned`, `ToldEnds`, `OpenRecovers`,
`TransitionHeals`, `PlannedIsImplemented`), which is out of the reach of the proof system;
and the three refutations. `Worktrees`, `Process` and `Supervision` have only properties of
this kind and so no theorem.

## 6. Plan

1. Core: `Storage`, `Runner`, `Scheduler`, `Api`, `Daemon`, `SlotPool`, with their
   theorems: done.
2. The parts around it, in `flow`, `network`, `periphery` and `libraries`: done, as far as section 7 leaves them.
3. The theorems of section 5: done. Still possible: type correctness of the parts whose
   inductive invariant names only the fields it needs (`Checkouts`, `Takeover`, `FakeGh`),
   and safety invariants of `Worktrees`, `Process` and `Supervision`, which first need to
   be stated and checked.
4. Models still possible: the revalidation of webhook owners (`handlers.rs:512-548`),
   which reads the lease before it waits for a probe; review threads of the
   fixer.

## 7. Not modelled

Audit tables (outcomes, events, notifications, snapshots), which are written and
listed; the dashboard, the event stream's contents and the metrics; the
webhook tunnel, the agent pool, plugins, planes, forges and release, which looperd
does not use or which only build and parse text; human-in-the-loop texts,
permissions, notifications; the commands of the command line that send one
request each; the path checks of `safety.rs`; parsing of configuration formats and
of GitHub's answers; what agents do in their directories beyond the edits they
leave. `PROJECT.json` lists each with its reason.
