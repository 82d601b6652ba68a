-------------------------------- MODULE Daemon --------------------------------
(***************************************************************************)
(* looperd: the scheduler threads, the pipelines and the HTTP handlers on  *)
(* one database, with the death of the process (a crash, or the end of a   *)
(* graceful shutdown, which records outcomes and requeues nothing) and the *)
(* startup that follows it.                                                *)
(***************************************************************************)
EXTENDS Api

CONSTANT MaxCrashes   \* bound: deaths of the process

ASSUME DaemonAssumption == MaxCrashes \in Nat

VARIABLES up, crashes

lifeVars == <<up, crashes>>
vars == <<storeVars, runnerVars, schedVars, api, lifeVars>>

TypeOK == /\ StorageTypeOK /\ RunnerTypeOK /\ SchedulerTypeOK /\ ApiTypeOK
          /\ up \in BOOLEAN /\ crashes \in 0 .. MaxCrashes

Init == /\ StorageInit /\ RunnerInit /\ SchedulerInit /\ ApiInit
        /\ up = TRUE /\ crashes = 0

\* Threads, mutexes and requests are gone; the tables stay.
Crash ==
    /\ up /\ crashes < MaxCrashes
    /\ up' = FALSE /\ crashes' = crashes + 1
    /\ reposMu' = Free /\ pipes' = [p \in Pipes |-> IdlePipe]
    /\ claimMu' = Free /\ pass' = [c \in Claimants |-> IdlePass]
    /\ tick' = FirstPhase
    /\ api' = [h \in Handlers |-> IdleApi]
    /\ UNCHANGED storeVars

\* interrupt_stale_runs(600): the running runs whose heartbeat is older than
\* ten minutes, any of them as the model has no clock.
Restart ==
    /\ ~up /\ up' = TRUE
    /\ \E stale \in SUBSET {r \in Runs : runs[r].status = "running"} :
         runs' = [r \in Runs |-> IF r \in stale THEN [runs[r] EXCEPT !.status = "interrupted"]
                                 ELSE runs[r]]
    /\ UNCHANGED <<queue, loops, locks, runnerVars, schedVars, api, crashes>>

RunPipe(p) == up /\ PipeStep(p) /\ UNCHANGED <<schedVars, api, lifeVars>>
RunTick    == up /\ TickStep /\ UNCHANGED <<api, lifeVars>>
RunPump    == up /\ PumpStep /\ UNCHANGED <<api, lifeVars>>
RunApi(h)  == up /\ HandlerStep(h) /\ UNCHANGED lifeVars

Next == \/ \E p \in Pipes : RunPipe(p)
        \/ RunTick \/ RunPump
        \/ \E h \in Handlers : RunApi(h)
        \/ Crash \/ Restart

Spec == Init /\ [][Next]_vars

-----------------------------------------------------------------------------
(* Fairness.  Pipelines run on OS threads of their own, and the agent, git *)
(* and GitHub calls they wait for have timeouts.  The tick thread is woken *)
(* every poll interval and sleeps in between with no mutex held, so that a *)
(* thread that waits for a mutex gets it: hence strong fairness.  Nothing  *)
(* is assumed of the pump's wake-ups, of the clients or of crashes.        *)

DiscoveryGoesOn == DiscoveryEnd \/ CreateIssueLoop \/ InsertIssueItem
                   \/ CreatePrLoop \/ InsertPrItem

Fairness == /\ \A p \in Pipes : SF_vars(RunPipe(p))
            /\ SF_vars(up /\ PassStep("tick") /\ UNCHANGED <<api, lifeVars>>)
            /\ SF_vars(up /\ DiscoveryGoesOn /\ UNCHANGED <<api, lifeVars>>)
            /\ SF_vars(RunPump /\ pass["pump"].pc # "idle")

FairSpec == Spec /\ Fairness

-----------------------------------------------------------------------------
(* Safety *)

\* Never more than max_concurrent_runs items are running, whatever the two
\* claiming threads and the clients do (compute_available_slots, claim_mu).
RunningWithinLimit == Cardinality(Running(queue)) <= MaxConcurrentRuns

\* The running items are the held slots of a pool: each claim takes one free
\* slot, and nothing but a claim takes one (claim_next_impl is the only
\* statement that makes an item running).
Pool == INSTANCE SlotPool WITH Members <- Items, Limit <- MaxConcurrentRuns,
                               held <- Running(queue)
ImplementsSlotPool == Pool!Spec

\* No two active items share a dedupe key: admission, discovery, handoff,
\* retry and resume together keep what the partial unique index demands.
OneActivePerDedupe ==
    \A i, j \in Items :
        /\ Active(queue, i) /\ Active(queue, j) /\ i # j
        => queue[i].key # queue[j].key \/ KeyType[queue[i].key] \notin IndexedTypes

\* Once pause_loop has answered, no item of the loop is running for as long
\* as the loop is paused: the order of its two statements matters to a claim
\* that falls between them.  Planner loops apart: planner.rs overwrites a pause
\* when it starts, and pauses the loop when it fails without cancelling items.
\* A crash between the two statements leaves them running: MaxCrashes = 0.
Pausing(l) == \E h \in Handlers : AtApi(h, "pauseCancel") /\ ALoop(h) = l
PausedIsQuiet ==
    \A l \in Loops : /\ loops[l].status = "paused" /\ loops[l].type # "planner"
                      /\ ~Pausing(l)
                      => ItemsOf(queue, l, "running") = {}

\* The running run of a loop is its latest: get_latest_by_loop_id never
\* misses a run in progress, through crashes and partial startup recovery.
RunningRunIsLatest ==
    \A r, s \in Runs : /\ runs[r].status = "running" /\ runs[s].status # "absent"
                       /\ runs[s].loop = runs[r].loop
                       => s <= r

\* A pipeline between its start and its error exit works on a run of its own
\* loop, whichever pipelines of that loop are still alive.
PipesOwnTheirRun ==
    \A p \in Pipes : pipes[p].pc \notin {"free", "start", "errQueue", "errLoop"}
                     => LET r == runs[pipes[p].run]
                        IN r.status # "absent" /\ r.loop = PLoop(p)

\* A thread that finds the mutex free sees a planner's outcome whole: when the
\* latest run of a planner loop has succeeded the loop is completed, and when
\* it has failed the loop is paused (planner.rs writes run, queue and loop in
\* one critical section).  Without clients that write loops or items.
OutcomeOf == [success |-> "completed", failed |-> "paused"]
PlannerOutcomeIsWhole ==
    reposMu = Free =>
        \A l \in Loops, r \in Runs :
            /\ IsLatestRun(runs, l, r) /\ loops[l].type = "planner"
            /\ runs[r].status \in DOMAIN OutcomeOf
            => loops[l].status = OutcomeOf[runs[r].status]

\* One live fixer loop per pull request: fixer discovery and the handoffs of
\* reviews look for a loop and create it under one hold of the mutex.
OneFixerLoop ==
    \A l, m \in Loops :
        /\ LoopExists(loops, l) /\ LoopExists(loops, m)
        /\ loops[l].type = "fixer" /\ loops[m].type = "fixer"
        /\ loops[l].target = loops[m].target
        /\ {loops[l].status, loops[m].status} \cap TerminalLoopStatuses = {}
        => l = m

-----------------------------------------------------------------------------
(* The inductive invariant of the proofs *)

\* A pipeline has a key some runner handles; past its start it has a loop; and
\* a review that hands over has a fixer key for its pull request.
SoundPipe(x) ==
    /\ x.pc # "free" => KeyType[x.claim.key] \in IndexedTypes
    /\ x.pc \notin {"free", "start", "errQueue"} => x.claim.loop \in Loops
    /\ x.pc \in {"handoff", "handoffInsert"}
       => \E k \in HandoffKeys : KeyTarget[k] = KeyTarget[x.claim.key]

\* A request that creates a loop is about a key with a loop type.
SoundCall(x) == x.pc \in {"create", "createLoop"} => KeyType[x.key] \in IndexedTypes

\* A pass that is under way holds claim_mu, and its slots are free ones.
SlotInv ==
    \A c \in Claimants :
        /\ pass[c].pc # "idle" => claimMu = c
        /\ pass[c].pc = "idle" => pass[c].slots = 0
        /\ Cardinality(Running(queue)) + pass[c].slots <= MaxConcurrentRuns

Inv == /\ TypeOK
       /\ \A p \in Pipes : SoundPipe(pipes[p])
       /\ \A h \in Handlers : SoundCall(api[h])
       /\ SlotInv

-----------------------------------------------------------------------------
(* Liveness *)

\* A queued item is claimed, or its loop is paused or ends.
QueuedIsTaken ==
    \A i \in Items :
        Scheduled(queue, loops, locks, i) ~> ~Scheduled(queue, loops, locks, i)

\* An item that a pipeline has been given leaves running.
ClaimEnds == \A i \in Items : queue[i].status = "running" ~> queue[i].status # "running"

=============================================================================
