------------------------------ MODULE LoopProofs ------------------------------
(***************************************************************************)
(* Loops, their runs and the SendRepos mutex, for every value of the       *)
(* constants.                                                              *)
(*                                                                         *)
(* Runs: the running run of a loop is its latest, and a pipeline at work   *)
(* has a run of its own loop.  Neither is inductive alone.  A resumed run  *)
(* is written back with INSERT OR REPLACE, which deletes the loop's other  *)
(* running rows: that there is none is the first property.  That a new run *)
(* comes after the loop's others needs the table to be dense, and it stays *)
(* dense because no row is ever deleted.                                   *)
(*                                                                         *)
(* Loops: first who holds the mutex where (MutexInv), which the code       *)
(* leaves to the scopes of its guards; then which loop an item, a claim, a *)
(* pipeline or a request may name (RefInv); and from the two, that one     *)
(* fixer loop per pull request is live and that a paused loop is quiet.    *)
(*                                                                         *)
(* Planners: no two loops stand for the same subject (NameInv); a planner's*)
(* loop and its runs tell of one outcome outside the critical section that *)
(* writes them (PlanInv).                                                  *)
(***************************************************************************)
EXTENDS DaemonProofs

-----------------------------------------------------------------------------
(* Runs: the table and what a pipeline has of it *)

Present(rs, r) == rs[r].status # "absent"
RunTable == [Runs -> RunRow]

\* Rows are numbered without gaps.
RunsDense(rs) == \A r, s \in Runs : Present(rs, r) /\ s < r => Present(rs, s)

\* RunningRunIsLatest, of any contents of the table.
LatestRuns(rs) == \A r, s \in Runs : /\ rs[r].status = "running" /\ Present(rs, s)
                                     /\ rs[s].loop = rs[r].loop
                                     => s <= r

\* A pipeline that is past its start and has met no error, and the run it has.
Works(x) == x.pc \notin {"free", "start", "errQueue", "errLoop"}
Owns(x, rs) == Present(rs, x.run) /\ rs[x.run].loop = x.claim.loop

RunInv == /\ RunsDense(runs)
          /\ LatestRuns(runs)
          /\ \A p \in Pipes : Works(pipes[p]) => Owns(pipes[p], runs)

-----------------------------------------------------------------------------
(* What a step does to the table *)

\* No row comes, goes, changes loop or starts to run.
RunsQuiet == \A r \in Runs : /\ Present(runs', r) <=> Present(runs, r)
                             /\ runs'[r].loop = runs[r].loop
                             /\ runs'[r].status = "running" => runs[r].status = "running"

\* The next row is inserted, for a loop none of whose runs is running.
RunsGrow == \E r \in Runs, l \in Loops :
              /\ NextRun(runs, r)
              /\ \A s \in Runs : runs[s].loop = l => runs[s].status # "running"
              /\ runs' = [runs EXCEPT ![r] = [status |-> "running", loop |-> l]]

\* And to the pipelines: whichever works afterwards worked on that run before.
PipesFollow == \A p \in Pipes : Works(pipes'[p]) =>
                  /\ Works(pipes[p])
                  /\ pipes'[p].run = pipes[p].run
                  /\ pipes'[p].claim.loop = pipes[p].claim.loop

\* A write that finds no other running row of the loop replaces only its own.
LEMMA UpsertAlone ==
    ASSUME NEW rs \in RunTable, NEW r \in Runs, NEW l, NEW st,
           st = "running" => \A x \in Runs \ {r} : rs[x].loop = l => rs[x].status # "running"
    PROVE  UpsertRun(rs, r, l, st) = [rs EXCEPT ![r] = [status |-> st, loop |-> l]]
BY DEF UpsertRun, RunTable

\* The facts that do not depend on the step, both with their types.
LEMMA RunTypes ==
    ASSUME PipeBefore
    PROVE  /\ runs \in RunTable
           /\ \A p \in Pipes : pipes[p].run \in Runs
           /\ \A r \in Runs : r \in Int
BY PipeTypes DEF PipeBefore, StorageTypeOK, RunTable, Runs

\* A quiet step keeps everything.
LEMMA QuietRuns ==
    ASSUME PipeBefore, RunInv, RunsQuiet, PipesFollow
    PROVE  RunInv'
<1>1. RunsDense(runs')
  BY DEF RunInv, RunsDense, RunsQuiet
<1>2. LatestRuns(runs')
  BY DEF RunInv, LatestRuns, RunsQuiet
<1>3. ASSUME NEW p \in Pipes, Works(pipes'[p])
      PROVE  Owns(pipes'[p], runs')
  BY <1>3, RunTypes DEF RunInv, PipesFollow, RunsQuiet, Owns
<1> QED BY <1>1, <1>2, <1>3 DEF RunInv

\* So does an insertion, for the pipelines that worked before.
LEMMA GrownRuns ==
    ASSUME PipeBefore, RunInv, RunsGrow
    PROVE  /\ RunsDense(runs') /\ LatestRuns(runs')
           /\ \A p \in Pipes : Works(pipes[p]) => Owns(pipes[p], runs')
<1>1. PICK r \in Runs, l \in Loops :
        /\ NextRun(runs, r)
        /\ \A s \in Runs : runs[s].loop = l => runs[s].status # "running"
        /\ runs' = [runs EXCEPT ![r] = [status |-> "running", loop |-> l]]
  BY DEF RunsGrow
<1>2. /\ runs'[r] = [status |-> "running", loop |-> l]
      /\ \A s \in Runs \ {r} : runs'[s] = runs[s]
  BY <1>1, RunTypes DEF RunTable
<1>3. ~Present(runs, r) /\ \A s \in Runs : s < r => Present(runs, s)
  BY <1>1 DEF NextRun, Present
<1>4. \A s \in Runs : s > r => ~Present(runs, s)
  BY <1>3 DEF RunInv, RunsDense
<1>5. RunsDense(runs')
  BY <1>2, <1>3, <1>4, RunTypes DEF RunsDense, Present
<1>6. LatestRuns(runs')
  <2> SUFFICES ASSUME NEW x \in Runs, NEW s \in Runs, runs'[x].status = "running",
                      Present(runs', s), runs'[s].loop = runs'[x].loop
               PROVE  s <= x
    BY DEF LatestRuns
  <2>1. CASE x = r
    BY <1>2, <1>4, <2>1, RunTypes DEF Present
  <2>2. CASE x # r /\ s = r
    BY <1>1, <1>2, <2>2
  <2>3. CASE x # r /\ s # r
    BY <1>2, <2>3 DEF RunInv, LatestRuns, Present
  <2> QED BY <2>1, <2>2, <2>3
<1>7. ASSUME NEW p \in Pipes, Works(pipes[p])
      PROVE  Owns(pipes[p], runs')
  BY <1>2, <1>3, <1>7, RunTypes DEF RunInv, Owns, Present
<1> QED BY <1>5, <1>6, <1>7

-----------------------------------------------------------------------------
(* The steps of a pipeline *)

\* A pipeline that moves on while it works, or leaves.
LEMMA WorkFollows ==
    ASSUME PipeBefore, NEW p \in Pipes,
           \/ Exit(p) \/ Goto(p, "errQueue") \/ Goto(p, "errLoop")
           \/ /\ Works(pipes[p])
              /\ \/ \E pc : Goto(p, pc)
                 \/ \E pc, s : pipes' = [pipes EXCEPT ![p].seen = s, ![p].pc = pc]
                 \/ \E pc, l : pipes' = [pipes EXCEPT ![p].newLoop = l, ![p].pc = pc]
    PROVE  PipesFollow
<1> SUFFICES ASSUME NEW x \in Pipes, Works(pipes'[x])
             PROVE  /\ Works(pipes[x]) /\ pipes'[x].run = pipes[x].run
                    /\ pipes'[x].claim.loop = pipes[x].claim.loop
  BY DEF PipesFollow
<1>1. pipes \in [Pipes -> PipeState]
  BY DEF PipeBefore, RunnerTypeOK
<1>2. CASE x # p
  BY <1>1, <1>2 DEF Exit, Goto
<1>3. CASE x = p
  <2>1. CASE Exit(p) \/ Goto(p, "errQueue") \/ Goto(p, "errLoop")
    BY <1>1, <1>3, <2>1 DEF Exit, Goto, Works, IdlePipe, PipeState
  <2>2. CASE Works(pipes[p]) /\ \E pc : Goto(p, pc)
    BY ZenonT(30), <1>1, <1>3, <2>2 DEF Goto, PipeState
  <2>3. CASE Works(pipes[p]) /\ \E pc, s : pipes' = [pipes EXCEPT ![p].seen = s, ![p].pc = pc]
    BY <1>1, <1>3, <2>3 DEF PipeState
  <2>4. CASE Works(pipes[p]) /\ \E pc, l : pipes' = [pipes EXCEPT ![p].newLoop = l, ![p].pc = pc]
    BY ZenonT(30), <1>1, <1>3, <2>4 DEF PipeState
  <2> QED BY <2>1, <2>2, <2>3, <2>4
<1> QED BY <1>2, <1>3

\* The latest run of a loop is resumed if it is running, and otherwise there
\* is no running one.
LEMMA StartRuns ==
    ASSUME PipeBefore, RunInv, NEW p \in Pipes, Start(p)
    PROVE  RunInv'
<1>1. CASE runs' = runs /\ (Exit(p) \/ Goto(p, "errQueue"))
  BY <1>1, WorkFollows, QuietRuns DEF RunsQuiet
<1>2. CASE PLoop(p) # NoLoop /\ \E r \in Runs :
             /\ \/ IsLatestRun(runs, PLoop(p), r) /\ runs[r].status = "running"
                \/ /\ NextRun(runs, r)
                   /\ \A s \in Runs :
                        IsLatestRun(runs, PLoop(p), s) => runs[s].status # "running"
             /\ runs' = UpsertRun(runs, r, PLoop(p), "running")
             /\ Begin(p, r)
  <2>1. PICK r \in Runs :
             /\ \/ IsLatestRun(runs, PLoop(p), r) /\ runs[r].status = "running"
                \/ /\ NextRun(runs, r)
                   /\ \A s \in Runs :
                        IsLatestRun(runs, PLoop(p), s) => runs[s].status # "running"
             /\ runs' = UpsertRun(runs, r, PLoop(p), "running")
             /\ Begin(p, r)
    BY <1>2
  <2> DEFINE l == PLoop(p)
  <2>2. l \in Loops
    BY <1>2, PipeTypes
  <2>3. \A s \in Runs : runs[s].loop = l /\ runs[s].status = "running"
                        => IsLatestRun(runs, l, s)
    BY DEF RunInv, LatestRuns, Present, IsLatestRun, RunsOf
  <2>4. \A s \in Runs \ {r} : runs[s].loop = l => runs[s].status # "running"
    BY <2>1, <2>3, RunTypes DEF IsLatestRun, RunsOf
  <2>5. runs' = [runs EXCEPT ![r] = [status |-> "running", loop |-> l]]
    BY <2>1, <2>4, RunTypes, UpsertAlone
  <2>6. /\ RunsDense(runs') /\ LatestRuns(runs')
        /\ \A x \in Pipes : Works(pipes[x]) => Owns(pipes[x], runs')
    <3>1. CASE IsLatestRun(runs, l, r) /\ runs[r].status = "running"
      <4>1. runs[r] = [status |-> "running", loop |-> l]
        BY <3>1, RunTypes DEF IsLatestRun, RunsOf, RunTable, RunRow
      <4>2. runs' = runs
        BY <2>5, <4>1, RunTypes DEF RunTable
      <4> QED BY <4>2 DEF RunInv
    <3>2. CASE /\ NextRun(runs, r)
               /\ \A s \in Runs : IsLatestRun(runs, l, s) => runs[s].status # "running"
      <4>1. RunsGrow
        BY <2>2, <2>3, <2>5, <3>2 DEF RunsGrow
      <4> QED BY <4>1, GrownRuns
    <3> QED BY <2>1, <3>1, <3>2
  <2>7. PICK pc : pipes' = [pipes EXCEPT ![p].run = r, ![p].pc = pc]
    BY <2>1 DEF Begin
  <2>8. /\ pipes'[p].run = r /\ pipes'[p].claim = pipes[p].claim
        /\ \A x \in Pipes \ {p} : pipes'[x] = pipes[x]
    BY <2>7, PipeTypes DEF PipeBefore, RunnerTypeOK, PipeState
  <2>9. Owns(pipes'[p], runs')
    BY <2>5, <2>8, RunTypes DEF Owns, Present, PLoop, RunTable
  <2> QED BY <2>6, <2>8, <2>9 DEF RunInv
<1> QED BY <1>1, <1>2 DEF Start

\* A pipeline ends its own run.
LEMMA EndOfRun ==
    ASSUME PipeBefore, RunInv, NEW p \in Pipes, Works(pipes[p]), NEW st \in {"success", "failed"},
           runs' = UpsertRun(runs, pipes[p].run, PLoop(p), st)
    PROVE  RunsQuiet
<1>1. Owns(pipes[p], runs)
  BY DEF RunInv
<1>2. runs' = [runs EXCEPT ![pipes[p].run] = [status |-> st, loop |-> PLoop(p)]]
  BY RunTypes, UpsertAlone
<1>3. \A r \in Runs : r # pipes[p].run => runs'[r] = runs[r]
  BY <1>2, RunTypes DEF RunTable
<1>4. runs'[pipes[p].run] = [status |-> st, loop |-> runs[pipes[p].run].loop]
  BY <1>1, <1>2, RunTypes DEF RunTable, Owns, PLoop
<1> QED BY <1>1, <1>3, <1>4, RunTypes DEF RunsQuiet, Present, Owns

\* Every step of a pipeline past its start.
LEMMA LaterRuns ==
    ASSUME PipeBefore, RunInv, NEW p \in Pipes,
           \/ LoopRowStep(p) \/ PlannerStep(p) \/ WorkerWork(p) \/ RetryStep(p)
           \/ ReviewerStep(p) \/ FixerStep(p) \/ ExitStep(p)
    PROVE  RunInv'
<1>1. CASE LoopRowStep(p)
  <2>1. runs' = runs /\ Works(pipes[p])
    BY <1>1 DEF LoopRowStep, LoopRowRead, LoopRowWrite, SavesLoopRow, AfterSave, storeVars, Works
  <2>2. \E pc, s : pipes' = [pipes EXCEPT ![p].seen = s, ![p].pc = pc]
    BY <1>1, PipeTypes DEF LoopRowStep, LoopRowRead, LoopRowWrite, PipeBefore, RunnerTypeOK,
                           PipeState
  <2>3. PipesFollow
    BY <2>1, <2>2, WorkFollows
  <2> QED BY <2>1, <2>3, QuietRuns DEF RunsQuiet
<1>2. CASE PlannerStep(p)
  <2>1. Works(pipes[p]) /\ (Exit(p) \/ \E pc : Goto(p, pc))
    BY <1>2 DEF PlannerStep, FlipToRunning, PlannerWork, PlannerFailRun, PlannerFailQueue,
                PlannerFailLoop, At, Works
  <2>2. runs' = runs \/ runs' = UpsertRun(runs, pipes[p].run, PLoop(p), "failed")
    BY <1>2 DEF PlannerStep, FlipToRunning, PlannerWork, PlannerFailRun, PlannerFailQueue,
                PlannerFailLoop, storeVars
  <2>3. RunsQuiet
    BY <2>1, <2>2, EndOfRun DEF RunsQuiet
  <2> QED BY <2>1, <2>3, WorkFollows, QuietRuns
<1>3. CASE WorkerWork(p) \/ FixerStep(p)
  <2>1. runs' = runs /\ Works(pipes[p]) /\ \E pc : Goto(p, pc)
    BY <1>3 DEF WorkerWork, FixerStep, PauseCheck, Repair, At, Works, storeVars
  <2> QED BY <2>1, WorkFollows, QuietRuns DEF RunsQuiet
<1>4. CASE RetryStep(p)
  <2>1. Works(pipes[p]) /\ \E pc : Goto(p, pc)
    BY <1>4 DEF RetryStep, MarkedForRetry, RetriedRunFailed, At, Works
  <2>2. runs' = runs \/ runs' = UpsertRun(runs, pipes[p].run, PLoop(p), "failed")
    BY <1>4 DEF RetryStep, MarkedForRetry, RetriedRunFailed
  <2>3. RunsQuiet
    BY <2>1, <2>2, EndOfRun DEF RunsQuiet
  <2> QED BY <2>1, <2>3, WorkFollows, QuietRuns
<1>5. CASE ReviewerStep(p)
  <2>1. runs' = runs /\ Works(pipes[p])
    BY <1>5 DEF ReviewerStep, ReviewerWork, HandoffLoop, HandoffInsert, At, Works, storeVars
  <2>2. \E pc, l : Goto(p, pc) \/ pipes' = [pipes EXCEPT ![p].newLoop = l, ![p].pc = pc]
    BY <1>5 DEF ReviewerStep, ReviewerWork, HandoffLoop, HandoffInsert
  <2>3. PipesFollow
    BY <2>1, <2>2, WorkFollows
  <2> QED BY <2>1, <2>3, QuietRuns DEF RunsQuiet
<1>6. CASE ExitStep(p)
  <2>1. \/ runs' = runs
        \/ Works(pipes[p]) /\ runs' = UpsertRun(runs, pipes[p].run, PLoop(p), "success")
    <3>1. CASE RunSucceeded(p)
      BY <3>1 DEF RunSucceeded, At, Works
    <3> QED BY <1>6, <3>1 DEF ExitStep, QueueCompleted, LoopCompleted, QueueFailed, LoopFailed
  <2>2. RunsQuiet
    BY <2>1, EndOfRun DEF RunsQuiet
  <2>3. \/ Exit(p) \/ Goto(p, "errLoop") \/ Goto(p, "errQueue")
        \/ Works(pipes[p]) /\ \E pc : Goto(p, pc)
    BY <1>6 DEF ExitStep, RunSucceeded, QueueCompleted, LoopCompleted, QueueFailed, LoopFailed,
                At, Works
  <2>4. PipesFollow
    BY <2>3, WorkFollows
  <2> QED BY <2>2, <2>4, QuietRuns
<1> QED BY <1>1, <1>2, <1>3, <1>4, <1>5, <1>6

-----------------------------------------------------------------------------
(* The other steps, and the theorems *)

\* A claim handed to a pipeline starts it; the rest of a pass and discovery
\* leave the pipelines alone.
LEMMA SchedulerRuns ==
    ASSUME Inv, RunInv,
           (\E c \in Claimants : PassStep(c)) \/ DiscoveryStep
    PROVE  RunInv'
<1>1. CASE DiscoveryStep
  <2>1. runs' = runs /\ pipes' = pipes
    BY <1>1, DiscoveryStepGood DEF DiscoveryGood
  <2> QED BY <2>1 DEF RunInv
<1>2. CASE \E c \in Claimants : PassStep(c)
  <2>1. PICK c \in Claimants : PassStep(c)
    BY <1>2
  <2>2. runs' = runs
    BY <2>1, PassStepGood DEF PassGood
  <2>3. \/ pipes' = pipes
        \/ \E p \in Pipes : \E x : pipes' = [pipes EXCEPT ![p] = x] /\ x.pc = "start"
    <3>1. CASE Dispatch(c)
      <4>1. PICK cl \in pass[c].batch :
              IF HasProcessor(cl)
              THEN \E p \in FreePipes :
                     pipes' = [pipes EXCEPT ![p] = [IdlePipe EXCEPT !.pc = "start", !.claim = cl]]
              ELSE UNCHANGED pipes
        BY <3>1 DEF Dispatch
      <4>2. [IdlePipe EXCEPT !.pc = "start", !.claim = cl].pc = "start"
        BY DEF IdlePipe
      <4> QED BY <4>1, <4>2 DEF FreePipes
    <3> QED BY <2>1, <3>1 DEF PassStep, PassBegin, PassLock, ClaimFresh, FreshDone, ClaimLong,
                              ClaimOne, LongDone, PassEnd, runnerVars
  <2>4. PipesFollow
    BY <2>3 DEF PipesFollow, Works, Inv, TypeOK, RunnerTypeOK
  <2> QED BY <2>2, <2>4, InvBefore, QuietRuns DEF RunsQuiet
<1> QED BY <1>1, <1>2

\* The process dies, and startup recovery interrupts some running runs.
LEMMA LifeRuns ==
    ASSUME Inv, RunInv, Crash \/ Restart
    PROVE  RunInv'
<1>1. CASE Crash
  <2>1. runs' = runs /\ PipesFollow
    BY <1>1 DEF Crash, storeVars, PipesFollow, Works, IdlePipe
  <2> QED BY <2>1, InvBefore, QuietRuns DEF RunsQuiet
<1>2. CASE Restart
  <2>1. pipes' = pipes
    BY <1>2 DEF Restart, runnerVars
  <2>2. RunsQuiet
    BY <1>2, InvBefore, RunTypes DEF Restart, RunsQuiet, Present, RunTable, RunRow
  <2> QED BY <2>1, <2>2, InvBefore, QuietRuns DEF PipesFollow
<1> QED BY <1>1, <1>2

\* Every step of the daemon.
LEMMA NextRuns == Inv /\ RunInv /\ [Next]_vars => RunInv'
<1> SUFFICES ASSUME Inv, RunInv, [Next]_vars PROVE RunInv'
  OBVIOUS
<1>1. CASE UNCHANGED vars
  BY <1>1 DEF vars, storeVars, runnerVars, RunInv
<1>2. CASE \E p \in Pipes : RunPipe(p)
  BY <1>2, InvBefore, StartRuns, LaterRuns DEF RunPipe, PipeStep
<1>3. CASE RunTick \/ RunPump
  BY <1>3, SchedulerRuns, RunnerAssumption DEF RunTick, RunPump, TickStep, PumpStep
<1>4. CASE \E h \in Handlers : RunApi(h)
  <2>1. runs' = runs /\ pipes' = pipes
    BY <1>4, HandlerStepGood DEF RunApi, HandlerGood, runnerVars
  <2> QED BY <2>1 DEF RunInv
<1> QED BY <1>1, <1>2, <1>3, <1>4, LifeRuns DEF Next

\* No run exists and no pipeline works when the daemon first starts.
LEMMA InitRuns == Init => RunInv
BY DEF Init, StorageInit, RunnerInit, RunInv, RunsDense, LatestRuns, Present, Works, IdlePipe

\* The runs table and the pipelines agree, whatever crashes and restarts.
THEOREM RunInvariance == Spec => []RunInv
BY InitRuns, NextRuns, Invariance, PTL DEF Spec

\* get_latest_by_loop_id never misses a run in progress.
THEOREM RunningIsLatest == Spec => []RunningRunIsLatest
<1>1. RunInv => RunningRunIsLatest
  BY DEF RunInv, LatestRuns, Present, RunningRunIsLatest
<1> QED BY <1>1, RunInvariance, PTL

\* Whichever pipelines of a loop are alive, each works on a run of that loop,
\* which no other has deleted.
THEOREM OwnRun == Spec => []PipesOwnTheirRun
<1>1. RunInv => PipesOwnTheirRun
  BY DEF RunInv, Works, Owns, Present, PLoop, PipesOwnTheirRun
<1> QED BY <1>1, RunInvariance, PTL

-----------------------------------------------------------------------------
(* Who holds the mutex *)

\* The pcs of a pipeline inside a critical section of several statements.
SavePC == {"titleWrite", "prepareWrite", "openPrWrite"}
InSection(x) == \/ x.pc \in SavePC \cup {"handoffInsert", "planFailQueue", "planFailLoop"}
                \/ x.pc \in {"queueDone", "loopDone"} /\ KeyType[x.claim.key] = "planner"
                \/ x.pc = "retryRun" /\ KeyType[x.claim.key] = "fixer"

PipesHold  == \A p \in Pipes : InSection(pipes[p]) => reposMu = p
PassesHold == \A c \in Claimants : pass[c].pc \in {"fresh", "long"} => reposMu = c
TickHolds  == tick.pc # "idle" /\ Phase \in {"reviewer", "fixer"} => reposMu = "tick"

\* The tick thread claims and discovers by turns.
TickTurns  == pass["tick"].pc # "idle" => Phase = "claim" /\ tick.pc = "idle"

MutexInv == PipesHold /\ PassesHold /\ TickHolds /\ TickTurns

\* The threads have different names, none of them Free.
LEMMA Threads == /\ \A p \in Pipes : p # Free /\ p \notin Claimants
                 /\ "tick" \in Claimants /\ Free \notin Claimants
                 /\ \A c \in Claimants : c \in {"tick", "pump"}
BY RunnerAssumption DEF Free

\* What a step of a pipeline does to the mutex.
PipeMutex(p) == /\ reposMu' # reposMu => reposMu \in {Free, p} /\ reposMu' \in {Free, p}
                /\ \A q \in Pipes \ {p} : pipes'[q] = pipes[q]
                /\ InSection(pipes'[p]) => reposMu' = p

\* A pipeline takes the mutex only when it is free, and has it in a section.
LEMMA PipeStepMutex ==
    ASSUME PipeBefore, PipesHold, NEW p \in Pipes, PipeStep(p)
    PROVE  PipeMutex(p)
<1>1. pipes \in [Pipes -> PipeState] /\ pipes[p] \in PipeState
  BY PipeTypes DEF PipeBefore, RunnerTypeOK
<1>2. IdlePipe.pc = "free"
  BY DEF IdlePipe
<1>3. CASE Start(p)
  <2>1. PICK x : pipes' = [pipes EXCEPT ![p] = x]
                 /\ x.pc \in {"free", "errQueue", "title", "prepare", "work", "check", "runDone"}
    <3>1. CASE Exit(p)
      BY <1>2, <3>1 DEF Exit
    <3>2. CASE Goto(p, "errQueue")
      <4>1. [pipes[p] EXCEPT !.pc = "errQueue"].pc = "errQueue"
        BY <1>1 DEF PipeState
      <4> QED BY <3>2, <4>1 DEF Goto
    <3>3. CASE \E r \in Runs : Begin(p, r)
      <4>1. PICK r \in Runs, pc \in FirstStep[PType(p)] \cup {"runDone"} :
              pipes' = [pipes EXCEPT ![p].run = r, ![p].pc = pc]
        BY <3>3 DEF Begin
      <4>2. PType(p) \in IndexedTypes
        BY <1>3, PipeTypes DEF Start, At, SoundPipe, PType
      <4>3. pc \in {"title", "prepare", "work", "check", "runDone"}
        BY <4>1, <4>2 DEF FirstStep, IndexedTypes
      <4> DEFINE y == [pipes[p] EXCEPT !.run = r, !.pc = pc]
      <4>4. pipes' = [pipes EXCEPT ![p] = y] /\ y.pc = pc
        BY <1>1, <4>1 DEF PipeState
      <4> QED BY <4>3, <4>4
    <3> QED BY <1>3, <3>1, <3>2, <3>3 DEF Start
  <2>2. reposMu' = reposMu
    BY <1>3 DEF Start
  <2> QED BY <1>1, <2>1, <2>2 DEF PipeMutex, InSection, SavePC
<1>4. CASE LoopRowStep(p)
  <2>1. CASE LoopRowRead(p)
    BY <1>1, <2>1 DEF LoopRowRead, Locked, Hold, PipeMutex
  <2>2. CASE LoopRowWrite(p)
    <3>1. AfterSave[pipes[p].pc] \in {"flip", "work", "runDone"}
      BY <2>2 DEF LoopRowWrite, AfterSave
    <3>2. pipes'[p].pc = AfterSave[pipes[p].pc]
      BY <1>1, <2>2 DEF LoopRowWrite, PipeState
    <3> QED BY <1>1, <2>2, <3>1, <3>2
            DEF LoopRowWrite, Locked, Release, PipeMutex, InSection, SavePC
  <2> QED BY <1>4, <2>1, <2>2 DEF LoopRowStep
<1>5. CASE PlannerStep(p)
  BY <1>1, <1>2, <1>5 DEF PlannerStep, FlipToRunning, PlannerWork, PlannerFailRun, PlannerFailQueue,
     PlannerFailLoop, At, Locked, Hold, Release, Goto, Exit, PipeMutex, InSection, SavePC, PipeState
<1>6. CASE WorkerWork(p) \/ FixerStep(p)
  BY <1>1, <1>6 DEF WorkerWork, FixerStep, PauseCheck, Repair, At, Goto, PipeMutex, InSection,
     SavePC, PipeState
<1>7. CASE RetryStep(p)
  BY <1>1, <1>7 DEF RetryStep, MarkedForRetry, RetriedRunFailed, At, Locked, Hold, Release, Goto,
     PType, PipeMutex, InSection, SavePC, PipeState
<1>8. CASE ReviewerStep(p)
  <2>1. CASE ReviewerWork(p)
    BY <1>1, <2>1 DEF ReviewerWork, At, Goto, PipeMutex, InSection, SavePC, PipeState
  <2>2. CASE HandoffLoop(p)
    <3>1. CASE Goto(p, "runDone") /\ Release
      BY <1>1, <2>2, <3>1
         DEF HandoffLoop, Locked, Release, Goto, PipeMutex, InSection, SavePC, PipeState
    <3>2. CASE Hold(p) /\ \E l \in Loops :
                 pipes' = [pipes EXCEPT ![p].newLoop = l, ![p].pc = "handoffInsert"]
      BY <1>1, <2>2, <3>2 DEF HandoffLoop, Locked, Hold, PipeMutex
    <3> QED BY <2>2, <3>1, <3>2 DEF HandoffLoop
  <2>3. CASE HandoffInsert(p)
    BY <1>1, <2>3 DEF HandoffInsert, Locked, Release, PipeMutex, InSection, SavePC, PipeState
  <2> QED BY <1>8, <2>1, <2>2, <2>3 DEF ReviewerStep
<1>9. CASE ExitStep(p)
  BY <1>1, <1>2, <1>9 DEF ExitStep, RunSucceeded, QueueCompleted, LoopCompleted, QueueFailed,
     LoopFailed, KeepIfPlanner, PType, At, Locked, Hold, Release, Goto, Exit, PipesHold, PipeMutex,
     InSection, SavePC, PipeState
<1> QED BY <1>3, <1>4, <1>5, <1>6, <1>7, <1>8, <1>9 DEF PipeStep

\* A pipeline's step keeps everybody's hold.
LEMMA PipeKeepsMutex ==
    ASSUME Inv, MutexInv, NEW p \in Pipes, PipeStep(p), UNCHANGED schedVars
    PROVE  MutexInv'
<1>1. PipeMutex(p)
  BY InvBefore, PipeStepMutex DEF MutexInv
<1>2. UNCHANGED <<pass, tick, Phase>>
  BY DEF schedVars, Phase
<1>3. \A x : x \notin {Free, p} /\ reposMu = x => reposMu' = x
  BY <1>1 DEF PipeMutex
<1>4. PipesHold'
  BY <1>1, <1>3, Threads DEF PipeMutex, MutexInv, PipesHold
<1>5. PassesHold' /\ TickHolds' /\ TickTurns'
  BY <1>2, <1>3, Threads DEF MutexInv, PassesHold, TickHolds, TickTurns
<1> QED BY <1>4, <1>5 DEF MutexInv

\* A claim pass holds it over its claim statements.
LEMMA PassKeepsMutex ==
    ASSUME Inv, MutexInv, NEW c \in Claimants, PassStep(c)
    PROVE  MutexInv'
<1>1. /\ pass \in [Claimants -> PassState] /\ pass[c] \in PassState
      /\ pipes \in [Pipes -> PipeState] /\ tick \in TickState
  BY PassTypes, TickTypes DEF Inv, TypeOK, RunnerTypeOK, SchedulerTypeOK
<1>2. FirstPhase.pc = "idle" /\ IdlePass.pc = "idle" /\ IdlePipe.pc = "free"
  BY SMTT(30) DEF FirstPhase, IdlePass, IdlePipe
<1>3. \A d \in Claimants \ {c} : pass'[d] = pass[d]
  BY <1>1 DEF PassStep, PassBegin, PassLock, ClaimFresh, FreshDone, ClaimLong, ClaimOne,
              LongDone, Dispatch, PassEnd
<1>4. CASE PassBegin(c) \/ PassEnd(c)
  <2>1. UNCHANGED runnerVars /\ pass'[c].pc \notin {"fresh", "long"}
    BY <1>1, <1>2, <1>4 DEF PassBegin, PassEnd, AtPass
  <2>2. PipesHold' /\ PassesHold'
    BY <1>3, <2>1 DEF MutexInv, PipesHold, PassesHold, runnerVars
  <2>3. CASE tick' = tick
    <3>1. TickHolds'
      BY <2>1, <2>3 DEF MutexInv, TickHolds, Phase, runnerVars
    <3>2. TickTurns'
      <4>1. Phase' = Phase
        BY <2>3 DEF Phase
      <4>2. CASE c = "tick" /\ pass'["tick"].pc # "idle"
        BY <1>1, <1>2, <1>4, <2>3, <4>1, <4>2
           DEF PassBegin, PassEnd, AtPass, MayClaim, TickTurns
      <4>3. CASE c # "tick"
        BY <1>3, <2>3, <4>1, <4>3, Threads DEF MutexInv, TickTurns
      <4> QED BY <4>2, <4>3 DEF TickTurns
    <3> QED BY <2>2, <3>1, <3>2 DEF MutexInv
  <2>4. CASE c = "tick" /\ ToNextPhase /\ pass'["tick"].pc = "idle"
    <3>1. tick'.pc = "idle"
      BY <1>2, <2>4 DEF ToNextPhase, FirstPhase
    <3> QED BY <2>2, <2>4, <3>1 DEF MutexInv, TickHolds, TickTurns
  <2> QED BY <1>1, <1>2, <1>4, <2>3, <2>4 DEF PassBegin, PassEnd, EndPhase, AtPass
<1>5. CASE PassLock(c) \/ ClaimFresh(c) \/ FreshDone(c) \/ ClaimLong(c) \/ LongDone(c)
  <2>1. UNCHANGED <<pipes, tick, Phase>>
    BY <1>5 DEF PassLock, ClaimFresh, FreshDone, ClaimLong, ClaimOne, LongDone, runnerVars, Phase
  <2>2. \/ reposMu = Free /\ reposMu' = c /\ pass[c].pc = "lock"
        \/ reposMu = c /\ reposMu' = c /\ pass[c].pc \in {"fresh", "long"}
        \/ reposMu = c /\ reposMu' = Free /\ pass[c].pc = "long" /\ pass'[c].pc = "dispatch"
    <3>1. pass[c].pc \in {"fresh", "long"} => reposMu = c
      BY DEF MutexInv, PassesHold
    <3>2. CASE PassLock(c)
      BY <3>2 DEF PassLock, AtPass
    <3>3. CASE ClaimFresh(c) \/ ClaimLong(c)
      BY <3>1, <3>3, ClaimFacts
    <3>4. CASE FreshDone(c)
      BY <3>1, <3>4 DEF FreshDone, AtPass, runnerVars
    <3>5. CASE LongDone(c)
      BY <1>1, <3>1, <3>5 DEF LongDone, AtPass, PassState
    <3> QED BY <1>5, <3>2, <3>3, <3>4, <3>5
  <2>3. PipesHold'
    BY <2>1, <2>2, Threads DEF MutexInv, PipesHold
  <2>4. PassesHold'
    BY <1>3, <2>2, Threads DEF MutexInv, PassesHold
  <2>5. TickHolds' /\ TickTurns'
    BY <1>3, <2>1, <2>2, Threads DEF MutexInv, TickHolds, TickTurns
  <2> QED BY <2>3, <2>4, <2>5 DEF MutexInv
<1>6. CASE Dispatch(c)
  <2>1. UNCHANGED <<reposMu, tick, Phase>> /\ pass'[c].pc = pass[c].pc
    BY <1>1, <1>6 DEF Dispatch, Phase
  <2>2. \A p \in Pipes : pipes'[p] = pipes[p] \/ pipes'[p].pc = "start"
    BY ZenonT(30), <1>1, <1>6 DEF Dispatch, IdlePipe
  <2>3. PipesHold'
    BY <2>1, <2>2 DEF MutexInv, PipesHold, InSection, SavePC
  <2>4. \A d \in Claimants : pass'[d].pc = pass[d].pc
    BY <1>3, <2>1
  <2>5. PassesHold' /\ TickHolds' /\ TickTurns'
    BY <2>1, <2>4, Threads DEF MutexInv, PassesHold, TickHolds, TickTurns
  <2> QED BY <2>3, <2>5 DEF MutexInv
<1> QED BY <1>4, <1>5, <1>6 DEF PassStep

\* Discovery holds it from the list of a pull request's loops to the insertion.
LEMMA DiscoveryKeepsMutex ==
    ASSUME Inv, MutexInv, DiscoveryStep
    PROVE  MutexInv'
<1>1. tick \in TickState
  BY TickTypes
<1>2. UNCHANGED <<pipes, pass>>
  BY DiscoveryStepGood DEF DiscoveryGood
<1>3. FirstPhase.pc = "idle"
  BY SMTT(30) DEF FirstPhase
<1>4. Phase # "claim"
  BY StorageAssumption, SchedulerAssumption
     DEF DiscoveryStep, FindIssue, FindPullRequest, Discovering, CreateIssueLoop, InsertIssueItem,
         CreatePrLoop, InsertPrItem, DiscoveryEnd
<1>5. pass'["tick"].pc = "idle"
  BY SMTT(30), <1>2, <1>4 DEF MutexInv, TickTurns
<1>6. reposMu' # reposMu => reposMu \in {Free, "tick"} /\ reposMu' \in {Free, "tick"}
  BY DEF DiscoveryStep, FindIssue, FindPullRequest, CreateIssueLoop, InsertIssueItem,
         CreatePrLoop, InsertPrItem, DiscoveryEnd, runnerVars, MutexInv, TickHolds
<1>7. TickHolds'
  <2>1. CASE \E k \in DiscoverKeys : FindIssue(k)
    BY <1>1, <2>1 DEF FindIssue, Discovering, TickHolds, Phase, TickState
  <2>2. CASE \E k \in DiscoverKeys : FindPullRequest(k)
    BY <2>2 DEF FindPullRequest, TickHolds
  <2>3. CASE CreateIssueLoop \/ InsertIssueItem
    BY <1>1, <2>3 DEF CreateIssueLoop, InsertIssueItem, ItemDone, TickHolds, Phase, TickState
  <2>4. CASE CreatePrLoop \/ InsertPrItem
    BY <1>1, <2>4 DEF CreatePrLoop, InsertPrItem, ItemDone, TickHolds, MutexInv, Phase, TickState
  <2>5. CASE DiscoveryEnd
    BY <1>3, <2>5 DEF DiscoveryEnd, ToNextPhase, FirstPhase, TickHolds
  <2> QED BY <2>1, <2>2, <2>3, <2>4, <2>5 DEF DiscoveryStep
<1>8. PipesHold'
  BY <1>2, <1>6, Threads DEF MutexInv, PipesHold
<1>9. PassesHold' /\ TickTurns'
  BY <1>2, <1>5, <1>6, Threads DEF MutexInv, PassesHold, TickTurns
<1> QED BY <1>7, <1>8, <1>9 DEF MutexInv

\* Every step of the daemon; the handlers do not touch the mutex.
LEMMA NextMutex == Inv /\ MutexInv /\ [Next]_vars => MutexInv'
<1> SUFFICES ASSUME Inv, MutexInv, [Next]_vars PROVE MutexInv'
  OBVIOUS
<1>1. CASE UNCHANGED vars \/ \E h \in Handlers : RunApi(h)
  <2>1. UNCHANGED <<reposMu, pipes, pass, tick, Phase>>
    BY <1>1, HandlerStepGood DEF RunApi, vars, runnerVars, schedVars, Phase
  <2> QED BY <2>1 DEF MutexInv, PipesHold, PassesHold, TickHolds, TickTurns
<1>2. CASE \E p \in Pipes : RunPipe(p)
  BY <1>2, PipeKeepsMutex DEF RunPipe
<1>3. CASE RunTick \/ RunPump
  BY <1>3, PassKeepsMutex, DiscoveryKeepsMutex, RunnerAssumption
     DEF RunTick, RunPump, TickStep, PumpStep
<1>4. CASE Crash
  BY <1>4, Threads DEF Crash, MutexInv, PipesHold, PassesHold, TickHolds, TickTurns, IdlePipe,
     IdlePass, FirstPhase, InSection, SavePC
<1>5. CASE Restart
  <2>1. UNCHANGED <<reposMu, pipes, pass, tick, Phase>>
    BY <1>5 DEF Restart, runnerVars, schedVars, Phase
  <2> QED BY <2>1 DEF MutexInv, PipesHold, PassesHold, TickHolds, TickTurns
<1> QED BY <1>1, <1>2, <1>3, <1>4, <1>5 DEF Next

\* The SendRepos mutex excludes: no two of the pipelines, the claim passes and
\* discovery are inside a critical section at once.
THEOREM MutexInvariance == Spec => []MutexInv
<1>1. Init => MutexInv
  BY RunnerAssumption
     DEF Init, RunnerInit, SchedulerInit, MutexInv, PipesHold, PassesHold, TickHolds, TickTurns,
         IdlePipe, IdlePass, FirstPhase, InSection, SavePC
<1> QED BY <1>1, NextMutex, Invariance, PTL DEF Spec

-----------------------------------------------------------------------------
(* Which loop may be named where *)

\* /enqueue, which takes any type with any loop, is not used for the planner:
\* with it, a planner could run on a loop of another type.
NoPlannerEnqueue == \A k \in EnqueueKeys : KeyType[k] # "planner"

\* A loop that is named exists, and one named with a planner's key is a planner's.
RefOK(ls, k, l) == l \in Loops => /\ LoopExists(ls, l)
                                  /\ KeyType[k] = "planner" => ls[l].type = "planner"

\* The planner's own pcs; a pipeline there is a planner.
PlannerPC == {"title", "titleWrite", "flip", "planFailRun", "planFailQueue", "planFailLoop"}

PipeRef(ls, x) == /\ RefOK(ls, x.claim.key, x.claim.loop)
                  /\ x.pc \in PlannerPC => KeyType[x.claim.key] = "planner"
                  /\ x.pc \in SavePC => x.seen # "absent"
                  /\ x.pc = "handoffInsert" /\ x.newLoop \in Loops => LoopExists(ls, x.newLoop)
PassRef(ls, x) == \A cl \in x.batch : RefOK(ls, cl.key, cl.loop)
TickRef(ls)    == /\ tick.pc # "idle" => KeyType[tick.key] = Phase
                  /\ tick.pc = "insert" => RefOK(ls, tick.key, tick.loop)
CallRef(ls, x) == x.pc = "insert" => RefOK(ls, x.key, x.loop)

RefInv == /\ \A i \in Items : RefOK(loops, queue[i].key, queue[i].loop)
          /\ \A p \in Pipes : PipeRef(loops, pipes[p])
          /\ \A c \in Claimants : PassRef(loops, pass[c])
          /\ TickRef(loops)
          /\ \A h \in Handlers : CallRef(loops, api[h])

\* Names that were sound stay sound while no loop goes.
LEMMA RefsLift ==
    ASSUME NEW ls, NEW ms, LoopsKept(ls, ms)
    PROVE  /\ \A k, l : RefOK(ls, k, l) => RefOK(ms, k, l)
           /\ \A x : PipeRef(ls, x) => PipeRef(ms, x)
           /\ \A x : PassRef(ls, x) => PassRef(ms, x)
           /\ \A x : CallRef(ls, x) => CallRef(ms, x)
           /\ TickRef(ls) => TickRef(ms)
<1>1. \A k, l : RefOK(ls, k, l) => RefOK(ms, k, l)
  BY DEF LoopsKept, RefOK
<1> QED BY <1>1 DEF LoopsKept, PipeRef, PassRef, CallRef, TickRef

\* An item keeps its subject, or is given one that is sound.
QueueRefs == \A i \in Items : \/ SameSubject(queue, queue', i)
                             \/ /\ queue'[i].status = "queued"
                                /\ RefOK(loops', queue'[i].key, queue'[i].loop)

LEMMA QueueRefsNext ==
    ASSUME RefInv, QueueRefs, LoopsKept(loops, loops')
    PROVE  \A i \in Items : RefOK(loops', queue'[i].key, queue'[i].loop)
<1> SUFFICES ASSUME NEW i \in Items, SameSubject(queue, queue', i)
             PROVE  RefOK(loops', queue'[i].key, queue'[i].loop)
  BY DEF QueueRefs
<1>1. RefOK(loops, queue[i].key, queue[i].loop)
  BY DEF RefInv
<1> QED BY <1>1, RefsLift DEF SameSubject

\* A queue that does not change.
LEMMA SameQueueRefs ==
    ASSUME queue' = queue
    PROVE  QueueRefs
BY DEF QueueRefs, SameSubject

\* A status statement, or an insertion about a sound loop.
LEMMA StatusRefs ==
    ASSUME queue \in QueueTable, NEW S, NEW st, NEW j \in Items, NEW a,
           queue' \in {SetStatus(queue, S, st), CancelActive(queue, S), MarkRetry(queue, j, a),
                       ClaimItem(queue, j)}
    PROVE  QueueRefs
BY StatusKeepsSubjects DEF QueueRefs

LEMMA InsertRefs ==
    ASSUME queue \in QueueTable, NEW k, NEW l, NEW lk, RefOK(loops', k, l),
           queue' \in CreateOrGet(queue, k, l, lk) \cup UpsertActive(queue, k, l, lk)
    PROVE  QueueRefs
BY InsertedSubject DEF QueueRefs, SameSubject

\* A pipeline that leaves, or goes on to a pc that asks for nothing.
LEMMA PipeRefMoves ==
    ASSUME PipeBefore, RefInv, NEW p \in Pipes
    PROVE  /\ Exit(p) => \A q \in Pipes : PipeRef(loops, pipes'[q])
           /\ \A pc : /\ Goto(p, pc) /\ pc \notin SavePC \cup {"handoffInsert"}
                      /\ (pc \in PlannerPC => PType(p) = "planner")
                      => \A q \in Pipes : PipeRef(loops, pipes'[q])
<1>1. pipes \in [Pipes -> PipeState] /\ \A q \in Pipes : PipeRef(loops, pipes[q])
  BY DEF PipeBefore, RunnerTypeOK, RefInv
<1>2. PipeRef(loops, IdlePipe)
  BY DEF PipeRef, RefOK, IdlePipe, IdleClaim, NoLoop, SavePC, PlannerPC, Loops
<1>3. ASSUME NEW pc, pc \notin SavePC \cup {"handoffInsert"}, pc \in PlannerPC => PType(p) = "planner"
      PROVE  PipeRef(loops, [pipes[p] EXCEPT !.pc = pc])
  BY <1>1, <1>3 DEF PipeRef, PipeState, PType
<1> QED BY <1>1, <1>2, <1>3 DEF Exit, Goto

\* What a step may do to subjects and to loops; and what one of a pipeline does.
Referred == QueueRefs /\ LoopsKept(loops, loops')
PipeRefs == /\ Referred
            /\ \A q \in Pipes : PipeRef(loops', pipes'[q])

LEMMA PipeStepRefs ==
    ASSUME Inv, RefInv, NEW p \in Pipes, PipeStep(p)
    PROVE  PipeRefs
<1>1. /\ pipes \in [Pipes -> PipeState] /\ \A q \in Pipes : PipeRef(loops, pipes[q])
      /\ queue \in QueueTable /\ loops \in [Loops -> LoopRow] /\ PipeBefore
  BY InvBefore, TickTypes DEF PipeBefore, RunnerTypeOK, RefInv
<1>2. LoopsKept(loops, loops) /\ \A x : PipeRef(loops, x) /\ LoopsKept(loops, loops')
                                      => PipeRef(loops', x)
  BY RefsLift DEF LoopsKept
<1>3. CASE Start(p)
  <2>1. queue' = queue /\ loops' = loops
    BY <1>3 DEF Start
  <2>2. \A q \in Pipes : PipeRef(loops, pipes'[q])
    <3>1. CASE \E r \in Runs : Begin(p, r)
      <4>1. PICK r \in Runs, pc \in FirstStep[PType(p)] \cup {"runDone"} :
              pipes' = [pipes EXCEPT ![p].run = r, ![p].pc = pc]
        BY <3>1 DEF Begin
      <4>2. PType(p) \in IndexedTypes
        BY <1>1, <1>3, PipeTypes DEF Start, At, SoundPipe, PType
      <4>3. \/ pc \in {"prepare", "work", "check", "runDone"}
            \/ pc = "title" /\ PType(p) = "planner"
        BY <4>1, <4>2 DEF FirstStep, IndexedTypes
      <4> DEFINE x == [pipes[p] EXCEPT !.run = r, !.pc = pc]
      <4>4. pipes' = [pipes EXCEPT ![p] = x] /\ PipeRef(loops, x)
        BY <1>1, <4>1, <4>3 DEF PipeState, PipeRef, SavePC, PlannerPC, PType
      <4> QED BY <1>1, <4>4
    <3> QED BY <1>1, <1>3, <3>1, PipeRefMoves DEF Start, SavePC, PlannerPC
  <2> QED BY <1>2, <2>1, <2>2, SameQueueRefs DEF PipeRefs, Referred
<1>4. CASE LoopRowRead(p)
  <2>1. queue' = queue /\ loops' = loops
    BY <1>4 DEF LoopRowRead, storeVars
  <2>2. PLoop(p) \in Loops
    BY <1>1, <1>4, HasLoop DEF LoopRowRead, SavesLoopRow
  <2>3. loops[PLoop(p)].status # "absent"
    BY <1>1, <2>2 DEF PipeRef, RefOK, LoopExists, PLoop
  <2> DEFINE x == [pipes[p] EXCEPT !.seen = loops[PLoop(p)].status,
                                   !.pc = SavesLoopRow[pipes[p].pc]]
  <2>4. pipes' = [pipes EXCEPT ![p] = x]
    BY <1>1, <1>4 DEF LoopRowRead, PipeState
  <2>5. /\ SavesLoopRow[pipes[p].pc] \in SavePC
        /\ SavesLoopRow[pipes[p].pc] \in PlannerPC => pipes[p].pc \in PlannerPC
    BY <1>4 DEF LoopRowRead, SavesLoopRow, SavePC, PlannerPC
  <2>6. PipeRef(loops, x)
    BY <1>1, <2>3, <2>5 DEF PipeRef, PipeState, SavePC
  <2> QED BY <1>1, <1>2, <2>1, <2>4, <2>6, SameQueueRefs DEF PipeRefs, Referred
<1>5. CASE LoopRowWrite(p)
  <2>1. /\ pipes[p].pc \in SavePC /\ AfterSave[pipes[p].pc] \notin SavePC \cup {"handoffInsert"}
        /\ AfterSave[pipes[p].pc] \in PlannerPC => pipes[p].pc \in PlannerPC
    BY <1>5 DEF LoopRowWrite, AfterSave, SavePC, PlannerPC
  <2>2. LoopsKept(loops, loops')
    BY <1>1, <1>5, <2>1, StatementsKeepLoops DEF LoopRowWrite, PipeRef
  <2> DEFINE x == [pipes[p] EXCEPT !.seen = "absent", !.pc = AfterSave[pipes[p].pc]]
  <2>3. pipes' = [pipes EXCEPT ![p] = x]
    BY <1>1, <1>5 DEF LoopRowWrite, PipeState
  <2>4. PipeRef(loops, x)
    BY <1>1, <2>1 DEF PipeRef, PipeState
  <2> QED BY <1>1, <1>2, <1>5, <2>2, <2>3, <2>4, SameQueueRefs DEF PipeRefs, Referred, LoopRowWrite
<1>6. CASE HandoffLoop(p)
  <2>1. LoopsKept(loops, loops')
    <3>1. \/ loops' = loops
          \/ \E l \in Loops : /\ NextLoop(loops, l)
                              /\ loops' = InsertLoop(loops, l, "queued", "fixer",
                                                     KeyTarget[HandoffKey(p)], "bare")
      BY <1>6 DEF HandoffLoop
    <3> QED BY <1>1, <1>2, <3>1, StatementsKeepLoops
  <2>2. CASE \E l \in Loops : /\ LoopExists(loops', l)
                              /\ pipes' = [pipes EXCEPT ![p].newLoop = l, ![p].pc = "handoffInsert"]
    <3>1. PICK l \in Loops : /\ LoopExists(loops', l)
                             /\ pipes' = [pipes EXCEPT ![p].newLoop = l, ![p].pc = "handoffInsert"]
      BY <2>2
    <3> DEFINE x == [pipes[p] EXCEPT !.newLoop = l, !.pc = "handoffInsert"]
    <3>2. pipes' = [pipes EXCEPT ![p] = x]
      BY <1>1, <3>1 DEF PipeState
    <3>3. PipeRef(loops', pipes[p])
      BY <1>1, <1>2, <2>1
    <3>4. PipeRef(loops', x)
      BY <1>1, <3>1, <3>3 DEF PipeRef, PipeState, SavePC, PlannerPC
    <3> QED BY <1>1, <1>2, <1>6, <2>1, <3>2, <3>4, SameQueueRefs DEF PipeRefs, Referred, HandoffLoop
  <2>3. CASE Goto(p, "runDone")
    BY <1>1, <1>2, <1>6, <2>1, <2>3, PipeRefMoves, SameQueueRefs
       DEF PipeRefs, Referred, HandoffLoop, SavePC, PlannerPC
  <2>4. \A l \in Loops : /\ l \in ReusableFixerLoops(loops, HandoffKey(p)) => LoopExists(loops, l)
                         /\ loops' = InsertLoop(loops, l, "queued", "fixer",
                                                KeyTarget[HandoffKey(p)], "bare")
                            => LoopExists(loops', l)
    BY <1>1 DEF ReusableFixerLoops, InsertLoop, LoopExists
  <2> QED BY <1>6, <2>2, <2>3, <2>4 DEF HandoffLoop
<1>7. CASE HandoffInsert(p)
  <2>1. pipes[p].pc = "handoffInsert" /\ loops' = loops
    BY <1>7 DEF HandoffInsert, At
  <2>2. KeyType[HandoffKey(p)] = "fixer"
    BY <1>1, <2>1, PipeTypes, RunnerAssumption DEF SoundPipe, HandoffKey
  <2>3. RefOK(loops', HandoffKey(p), pipes[p].newLoop)
    BY <1>1, <2>1, <2>2 DEF PipeRef, RefOK
  <2>4. QueueRefs
    BY <1>1, <1>7, <2>3, InsertRefs DEF HandoffInsert
  <2> DEFINE x == [pipes[p] EXCEPT !.newLoop = NoLoop, !.pc = "runDone"]
  <2>5. pipes' = [pipes EXCEPT ![p] = x]
    BY <1>1, <1>7 DEF HandoffInsert, PipeState
  <2>6. PipeRef(loops, x)
    BY <1>1 DEF PipeRef, PipeState, SavePC, PlannerPC
  <2> QED BY <1>1, <1>2, <2>1, <2>4, <2>5, <2>6 DEF PipeRefs, Referred
<1>8. CASE \/ PlannerStep(p) \/ WorkerWork(p) \/ RetryStep(p) \/ ReviewerWork(p) \/ FixerStep(p)
           \/ ExitStep(p)
  <2>1. Exit(p) \/ \E pc : /\ Goto(p, pc) /\ pc \notin SavePC \cup {"handoffInsert"}
                           /\ pc \in PlannerPC => PType(p) = "planner"
    <3>1. pipes[p].pc \in PlannerPC => PType(p) = "planner"
      BY <1>1 DEF PipeRef, PType
    <3> QED BY <1>8, <3>1 DEF PlannerStep, FlipToRunning, PlannerWork, PlannerFailRun, PlannerFailQueue,
       PlannerFailLoop, WorkerWork, RetryStep, MarkedForRetry, RetriedRunFailed, ReviewerWork,
       FixerStep, PauseCheck, Repair, ExitStep, RunSucceeded, QueueCompleted, LoopCompleted,
       QueueFailed, LoopFailed, SavePC, PlannerPC, At
  <2>2. \/ queue' = queue
        \/ \E S, st : queue' = SetStatus(queue, S, st)
        \/ \E a : queue' = MarkRetry(queue, PItem(p), a)
    BY <1>8 DEF PlannerStep, FlipToRunning, PlannerWork, PlannerFailRun, PlannerFailQueue,
       PlannerFailLoop, WorkerWork, RetryStep, MarkedForRetry, RetriedRunFailed, ReviewerWork,
       FixerStep, PauseCheck, Repair, ExitStep, RunSucceeded, QueueCompleted, LoopCompleted,
       QueueFailed, LoopFailed, storeVars
  <2>3. PItem(p) \in Items
    BY <1>1, PipeTypes
  <2>4. QueueRefs
    BY <1>1, <2>2, <2>3, StatusRefs, SameQueueRefs
  <2>5. loops' = loops \/ \E st \in {"running", "paused", "completed", "failed"} :
                           loops' = SetLoop(loops, PLoop(p), st)
    BY <1>8 DEF PlannerStep, FlipToRunning, PlannerWork, PlannerFailRun, PlannerFailQueue,
       PlannerFailLoop, WorkerWork, RetryStep, MarkedForRetry, RetriedRunFailed, ReviewerWork,
       FixerStep, PauseCheck, Repair, ExitStep, RunSucceeded, QueueCompleted, LoopCompleted,
       QueueFailed, LoopFailed, storeVars
  <2>6. LoopsKept(loops, loops')
    BY <1>1, <1>2, <2>5, StatementsKeepLoops
  <2>7. \A q \in Pipes : PipeRef(loops, pipes'[q])
    <3>1. CASE Exit(p)
      BY <1>1, <3>1, PipeRefMoves
    <3>2. CASE \E pc : /\ Goto(p, pc) /\ pc \notin SavePC \cup {"handoffInsert"}
                       /\ pc \in PlannerPC => PType(p) = "planner"
      BY <1>1, <3>2, PipeRefMoves
    <3> QED BY <2>1, <3>1, <3>2
  <2> QED BY <1>1, <1>2, <2>4, <2>6, <2>7 DEF PipeRefs, Referred
<1> QED BY <1>3, <1>4, <1>5, <1>6, <1>7, <1>8 DEF PipeStep, LoopRowStep, ReviewerStep

\* A pass takes its claims from the queue and gives them to pipelines.
LEMMA PassStepRefs ==
    ASSUME Inv, RefInv, NEW c \in Claimants, PassStep(c), api' = api
    PROVE  RefInv' /\ Referred
<1>1. /\ pipes \in [Pipes -> PipeState] /\ pass \in [Claimants -> PassState]
      /\ queue \in QueueTable /\ pass[c] \in PassState /\ tick \in TickState
  BY TickTypes, PassTypes DEF Inv, TypeOK, RunnerTypeOK, SchedulerTypeOK
<1>2. loops' = loops
  BY SMTT(30), PassStepGood DEF PassGood
<1>3. QueueRefs
  <2>1. CASE ClaimFresh(c) \/ ClaimLong(c)
    BY <1>1, <2>1, ClaimFacts, StatusRefs
  <2>2. CASE queue' = queue
    BY <2>2, SameQueueRefs
  <2> QED BY <2>1, <2>2 DEF PassStep, PassBegin, PassLock, FreshDone, LongDone, Dispatch, PassEnd,
                            storeVars
<1>4. \A i \in Items : RefOK(loops', queue'[i].key, queue'[i].loop)
  <2>1. LoopsKept(loops, loops')
    BY <1>2 DEF LoopsKept
  <2> QED BY <1>3, <2>1, QueueRefsNext
<1>5. \A d \in Claimants : PassRef(loops, pass'[d])
  <2>1. \A d \in Claimants : PassRef(loops, pass[d])
    BY DEF RefInv
  <2>2. CASE ClaimFresh(c) \/ ClaimLong(c)
    <3>1. PICK i \in Items : pass' = [pass EXCEPT ![c].slots = @ - 1,
                                                  ![c].batch = @ \cup {ClaimOf(queue, i)}]
      BY <2>2, ClaimFacts
    <3>2. pass'[c].batch = pass[c].batch \cup {ClaimOf(queue, i)}
          /\ \A d \in Claimants \ {c} : pass'[d] = pass[d]
      BY <1>1, <3>1 DEF PassState
    <3>3. RefOK(loops, ClaimOf(queue, i).key, ClaimOf(queue, i).loop)
      BY DEF RefInv, ClaimOf
    <3> QED BY <2>1, <3>2, <3>3 DEF PassRef
  <2>3. CASE \A d \in Claimants : pass'[d].batch \subseteq pass[d].batch
    BY <2>1, <2>3 DEF PassRef
  <2>4. CASE ~(ClaimFresh(c) \/ ClaimLong(c))
    <3>1. CASE PassBegin(c) \/ PassEnd(c)
      <4> DEFINE x == [pc |-> "lock", slots |-> Slots(queue), batch |-> {}]
      <4>1. pass' \in {pass, [pass EXCEPT ![c] = x], [pass EXCEPT ![c] = IdlePass]}
        BY <3>1 DEF PassBegin, PassEnd
      <4>2. x.batch = {} /\ IdlePass.batch = {}
        BY DEF IdlePass
      <4>3. \A d \in Claimants : pass'[d].batch \subseteq pass[d].batch
        BY <1>1, <4>1, <4>2
      <4> QED BY <2>3, <4>3
    <3>2. CASE PassLock(c) \/ FreshDone(c) \/ LongDone(c)
      BY <1>1, <2>3, <3>2 DEF PassLock, FreshDone, LongDone, PassState
    <3>3. CASE Dispatch(c)
      <4>1. PICK cl \in pass[c].batch : pass' = [pass EXCEPT ![c].batch = pass[c].batch \ {cl}]
        BY <1>1, <3>3 DEF Dispatch
      <4>2. \A d \in Claimants : pass'[d].batch \subseteq pass[d].batch
        BY <1>1, <4>1 DEF PassState
      <4> QED BY <2>3, <4>2
    <3> QED BY <2>4, <3>1, <3>2, <3>3 DEF PassStep
  <2> QED BY <2>2, <2>4
<1>6. \A p \in Pipes : PipeRef(loops, pipes'[p])
  <2>1. \A p \in Pipes : PipeRef(loops, pipes[p])
    BY DEF RefInv
  <2>2. CASE Dispatch(c)
    <3>1. PICK cl \in pass[c].batch :
            pipes' = pipes \/ \E p \in FreePipes :
              pipes' = [pipes EXCEPT ![p] = [IdlePipe EXCEPT !.pc = "start", !.claim = cl]]
      BY <2>2 DEF Dispatch
    <3>2. RefOK(loops, cl.key, cl.loop)
      BY DEF RefInv, PassRef
    <3>3. PipeRef(loops, [IdlePipe EXCEPT !.pc = "start", !.claim = cl])
      BY <3>2 DEF PipeRef, IdlePipe, SavePC, PlannerPC
    <3> QED BY <1>1, <2>1, <3>1, <3>3 DEF FreePipes
  <2>3. CASE pipes' = pipes
    BY <2>1, <2>3
  <2> QED BY <2>2, <2>3 DEF PassStep, PassBegin, PassLock, ClaimFresh, FreshDone, ClaimLong,
                            ClaimOne, LongDone, PassEnd, runnerVars
<1>7. TickRef(loops)'
  <2>1. tick' = tick \/ tick'.pc = "idle"
    BY DEF PassStep, PassBegin, PassLock, ClaimFresh, FreshDone, ClaimLong, ClaimOne, LongDone,
           Dispatch, PassEnd, EndPhase, ToNextPhase, FirstPhase
  <2> QED BY SMTT(30), <1>2, <2>1 DEF RefInv, TickRef, Phase
<1>8. LoopsKept(loops, loops')
  BY <1>2 DEF LoopsKept
<1> QED BY <1>2, <1>3, <1>4, <1>5, <1>6, <1>7, <1>8 DEF RefInv, Referred

\* Discovery inserts an item about the loop it found or has created.
LEMMA DiscoveryStepRefs ==
    ASSUME Inv, RefInv, DiscoveryStep, api' = api
    PROVE  RefInv' /\ Referred
<1>1. tick \in TickState /\ queue \in QueueTable /\ loops \in [Loops -> LoopRow]
  BY TickTypes
<1>2. UNCHANGED <<pipes, pass>>
  <2>1. DiscoveryGood
    BY SMTT(30), DiscoveryStepGood
  <2> QED BY ZenonT(30), <2>1 DEF DiscoveryGood
<1>3. LoopsKept(loops, loops')
  <2>1. LoopsKept(loops, loops)
    BY DEF LoopsKept
  <2>2. CASE CreateIssueLoop
    <3>1. \/ loops' = loops
          \/ \E l : /\ NextLoop(loops, l)
                   /\ loops' = InsertLoop(loops, l, "active", Phase, KeyTarget[tick.key], "bare")
      BY <2>2 DEF CreateIssueLoop
    <3> QED BY <1>1, <2>1, <3>1, StatementsKeepLoops
  <2>3. CASE CreatePrLoop
    <3>1. \/ loops' = loops
          \/ \E l, ty : /\ NextLoop(loops, l)
                       /\ loops' = InsertLoop(loops, l, "queued", ty, KeyTarget[tick.key], "bare")
      BY ZenonT(30), <2>3 DEF CreatePrLoop
    <3> QED BY <1>1, <2>1, <3>1, StatementsKeepLoops
  <2> QED BY <2>1, <2>2, <2>3 DEF DiscoveryStep, FindIssue, FindPullRequest, InsertIssueItem,
                                  InsertPrItem, DiscoveryEnd, storeVars
<1>4. QueueRefs
  <2>1. CASE queue' = queue
    BY <2>1, SameQueueRefs
  <2>2. CASE InsertIssueItem \/ InsertPrItem
    <3>1. tick.pc = "insert" /\ loops' = loops
          /\ \E lk : \/ queue' \in UpsertActive(queue, tick.key, tick.loop, lk)
                    \/ queue' \in CreateOrGet(queue, tick.key, tick.loop, lk)
      BY <2>2 DEF InsertIssueItem, InsertPrItem
    <3>2. RefOK(loops', tick.key, tick.loop)
      BY <3>1 DEF RefInv, TickRef
    <3> QED BY <1>1, <3>1, <3>2, InsertRefs
  <2> QED BY <2>1, <2>2 DEF DiscoveryStep, FindIssue, FindPullRequest, CreateIssueLoop,
                            CreatePrLoop, DiscoveryEnd, storeVars
<1>5. TickRef(loops)'
  <2>1. CASE \E k \in DiscoverKeys : FindIssue(k) \/ FindPullRequest(k)
    <3>1. PICK k \in DiscoverKeys : FindIssue(k) \/ FindPullRequest(k)
      BY <2>1
    <3>2. /\ tick'.key = k /\ Phase' = Phase /\ KeyType[k] = Phase /\ loops' = loops
          /\ \/ tick'.pc = "create"
             \/ tick'.pc = "insert" /\ tick'.loop \in ReusableLoops(loops, k)
                /\ KeyType[k] # "planner"
      <4>1. CASE FindIssue(k)
        BY <1>1, <4>1 DEF FindIssue, Discovering, Phase, TickState, storeVars
      <4>2. CASE FindPullRequest(k)
        BY <1>1, <4>2 DEF FindPullRequest, Discovering, Phase, TickState, storeVars
      <4> QED BY <3>1, <4>1, <4>2
    <3>3. \A l \in ReusableLoops(loops, k) : LoopExists(loops, l)
      BY DEF ReusableLoops, ReusablePrLoops, ReusableFixerLoops
    <3> QED BY <3>2, <3>3 DEF TickRef, RefOK
  <2>2. CASE CreateIssueLoop \/ CreatePrLoop
    <3>1. CASE ItemDone
      BY <1>1, <3>1 DEF ItemDone, TickRef, TickState
    <3>2. CASE \E l \in Loops : /\ loops'[l].type = "planner" \/ Phase # "planner"
                                /\ LoopExists(loops', l)
                                /\ tick' = [tick EXCEPT !.pc = "insert", !.loop = l]
      <4>1. PICK l \in Loops : /\ loops'[l].type = "planner" \/ Phase # "planner"
                               /\ LoopExists(loops', l)
                               /\ tick' = [tick EXCEPT !.pc = "insert", !.loop = l]
        BY <3>2
      <4>2. tick'.key = tick.key /\ tick'.loop = l /\ Phase' = Phase
        BY SMTT(30), <1>1, <4>1 DEF TickState, Phase
      <4>3. KeyType[tick.key] = Phase
        BY <2>2 DEF RefInv, TickRef, CreateIssueLoop, CreatePrLoop
      <4> QED BY <4>1, <4>2, <4>3 DEF TickRef, RefOK
    <3>3. CASE ~ItemDone
      <4>1. PICK l \in Loops, st \in {"active", "queued"},
                 ty \in {Phase, "review", "fixer"} :
              /\ loops' = InsertLoop(loops, l, st, ty, KeyTarget[tick.key], "bare")
              /\ tick' = [tick EXCEPT !.pc = "insert", !.loop = l]
              /\ Phase = "planner" => ty = Phase
        BY <2>2, <3>3 DEF CreateIssueLoop, CreatePrLoop
      <4>2. loops'[l].type = ty /\ LoopExists(loops', l)
        BY <1>1, <4>1 DEF InsertLoop, LoopExists
      <4> QED BY ZenonT(30), <3>2, <4>1, <4>2
    <3> QED BY <3>1, <3>3
  <2>3. CASE InsertIssueItem \/ InsertPrItem
    BY <1>1, <2>3 DEF InsertIssueItem, InsertPrItem, ItemDone, TickRef, TickState
  <2>4. CASE DiscoveryEnd
    BY <2>4 DEF DiscoveryEnd, ToNextPhase, FirstPhase, TickRef
  <2> QED BY <2>1, <2>2, <2>3, <2>4 DEF DiscoveryStep
<1> QED BY <1>2, <1>3, <1>4, <1>5, QueueRefsNext, RefsLift DEF RefInv, Referred

\* A request names a loop it found, one it has created, or, for /enqueue, any
\* that exists.
LEMMA HandlerStepRefs ==
    ASSUME NoPlannerEnqueue, Inv, RefInv, NEW h \in Handlers, HandlerStep(h)
    PROVE  RefInv' /\ Referred
<1>1. /\ api \in [Handlers -> ApiState] /\ queue \in QueueTable /\ loops \in [Loops -> LoopRow]
      /\ api[h] \in ApiState
  BY TickTypes, ApiTypes DEF Inv, TypeOK, ApiTypeOK
<1>2. UNCHANGED <<pipes, pass, tick, Phase>>
  BY HandlerStepGood DEF runnerVars, schedVars, Phase
<1>3. LoopsKept(loops, loops')
  <2>1. LoopsKept(loops, loops)
    BY DEF LoopsKept
  <2>2. \/ loops' = loops
        \/ \E l, st : st # "absent" /\ loops' = SetLoop(loops, l, st)
        \/ \E l, st, ty, tg, f : NextLoop(loops, l) /\ loops' = InsertLoop(loops, l, st, ty, tg, f)
    BY DEF HandlerStep, PauseStep, PauseRead, PauseUpdate, PauseCancel, ResumeStep, ResumeRead,
           ResumeUpdate, ResumeCancelled, ResumeFailed, ResumeRunning, StopStep, StopUpdate,
           StopCancel, StopAll, AdmitStep, AdmitRead, CreateLoopRead, CreateLoop, AdmitCreate,
           Insert, EnqueueFind, Dequeue, AcquireLock, ReleaseLock, storeVars
  <2> QED BY <1>1, <2>1, <2>2, StatementsKeepLoops
<1>4. QueueRefs
  <2>1. CASE Insert(h)
    <3>1. RefOK(loops', api[h].key, ALoop(h))
      BY <2>1 DEF Insert, AtApi, ALoop, RefInv, CallRef
    <3> QED BY <1>1, <2>1, <3>1, InsertRefs DEF Insert
  <2>2. CASE queue' = queue
    BY <2>2, SameQueueRefs
  <2>3. CASE \E S, st : queue' = SetStatus(queue, S, st) \/ queue' = CancelActive(queue, S)
    <3>1. 1 \in Items
      BY StorageAssumption DEF Items
    <3> QED BY <1>1, <2>3, <3>1, StatusRefs
  <2> QED BY <2>1, <2>2, <2>3
       DEF HandlerStep, PauseStep, PauseRead, PauseUpdate, PauseCancel, CancelLoopItems, ResumeStep,
           ResumeRead, ResumeUpdate, ResumeCancelled, ResumeFailed, RequeueOne, ResumeRunning,
           StopStep, StopUpdate, StopCancel, StopAll, AdmitStep, AdmitRead, CreateLoopRead,
           CreateLoop, AdmitCreate, EnqueueFind, Dequeue, AcquireLock, ReleaseLock, storeVars
<1>5. \A g \in Handlers : CallRef(loops', api'[g])
  <2>1. \A g \in Handlers : CallRef(loops', api[g])
    BY <1>3, RefsLift DEF RefInv
  <2>2. CASE api' = api \/ Reply(h) \/ \E pc, l : /\ pc # "insert"
                                                 /\ (ApiGoto(h, pc) \/ ApiCall(h, pc, l))
    <3>1. api' = api \/ \E x : x.pc # "insert" /\ api' = [api EXCEPT ![h] = x]
      <4>1. CASE Reply(h)
        BY <4>1 DEF Reply, IdleApi
      <4>2. CASE \E pc, l : pc # "insert" /\ (ApiGoto(h, pc) \/ ApiCall(h, pc, l))
        <5>1. PICK pc, l : pc # "insert" /\ (ApiGoto(h, pc) \/ ApiCall(h, pc, l))
          BY <4>2
        <5> DEFINE x == [api[h] EXCEPT !.pc = pc]
                   y == [api[h] EXCEPT !.pc = pc, !.loop = l]
        <5>2. x.pc # "insert" /\ y.pc # "insert"
          BY <1>1, <5>1 DEF ApiState
        <5>3. api' = [api EXCEPT ![h] = x] \/ api' = [api EXCEPT ![h] = y]
          BY <1>1, <5>1 DEF ApiGoto, ApiCall, ApiState
        <5> QED BY <5>2, <5>3
      <4> QED BY <2>2, <4>1, <4>2
    <3> QED BY <1>1, <2>1, <3>1 DEF CallRef
  <2>3. CASE AdmitCreate(h) /\ ~Reply(h)
    <3>1. PICK l \in Loops : /\ ApiCall(h, "insert", l)
                             /\ loops' = InsertLoop(loops, l, "queued", KeyType[api[h].key],
                                                    KeyTarget[api[h].key], "full")
      BY <2>3 DEF AdmitCreate
    <3>2. LoopExists(loops', l) /\ loops'[l].type = KeyType[api[h].key]
      BY <1>1, <3>1 DEF InsertLoop, LoopExists
    <3>3. api'[h].key = api[h].key /\ api'[h].loop = l
          /\ \A g \in Handlers \ {h} : api'[g] = api[g]
      BY <1>1, <3>1 DEF ApiCall, ApiState
    <3> QED BY <2>1, <3>2, <3>3 DEF CallRef, RefOK
  <2>4. CASE \E k \in AdmitKeys : AdmitRead(h, k)
    <3>1. PICK k \in AdmitKeys : AdmitRead(h, k)
      BY <2>4
    <3>2. loops' = loops
      BY <3>1 DEF AdmitRead, storeVars
    <3>3. \A l \in AdmitReusable(k) : LoopExists(loops, l) /\ loops[l].type = KeyType[k]
      BY DEF AdmitReusable, ActiveLoopStatus, LoopExists
    <3>4. CallRef(loops, api'[h])
      BY <1>1, <3>1, <3>3 DEF AdmitRead, CallRef, RefOK
    <3>5. \A g \in Handlers \ {h} : api'[g] = api[g]
      BY <1>1, <3>1 DEF AdmitRead
    <3> QED BY <2>1, <3>2, <3>4, <3>5
  <2>5. CASE \E k \in AdmitKeys : CreateLoopRead(h, k)
    <3>1. PICK k \in AdmitKeys : CreateLoopRead(h, k)
      BY <2>5
    <3>2. api'[h].pc = "createLoop" /\ \A g \in Handlers \ {h} : api'[g] = api[g]
      BY <1>1, <3>1 DEF CreateLoopRead, ApiState
    <3> QED BY <2>1, <3>2 DEF CallRef
  <2>6. CASE \E k \in Keys, l \in Loops \cup {NoLoop} : EnqueueFind(h, k, l)
    <3>1. PICK k \in Keys, l \in Loops \cup {NoLoop} : EnqueueFind(h, k, l)
      BY <2>6
    <3>2. /\ api' = [api EXCEPT ![h] = [pc |-> "insert", key |-> k, loop |-> l, lockable |-> FALSE]]
          /\ l # NoLoop => LoopExists(loops, l)
          /\ KeyType[k] # "planner" /\ loops' = loops
      BY <3>1, ApiAssumption DEF EnqueueFind, NoPlannerEnqueue, storeVars
    <3>3. CallRef(loops', api'[h])
      BY <1>1, <3>2 DEF CallRef, RefOK, NoLoop, Loops
    <3> QED BY <1>1, <2>1, <3>2, <3>3
  <2> QED BY <2>2, <2>3, <2>4, <2>5, <2>6
       DEF HandlerStep, PauseStep, PauseRead, PauseUpdate, PauseCancel, ResumeStep, ResumeRead,
           ResumeUpdate, ResumeCancelled, ResumeFailed, RequeueOne, ResumeRunning, StopStep,
           StopUpdate, StopCancel, StopAll, AdmitStep, CreateLoop, Insert, Dequeue, AcquireLock,
           ReleaseLock
<1> QED BY <1>2, <1>3, <1>4, <1>5, QueueRefsNext, RefsLift DEF RefInv, TickRef, Referred

\* Every step of the daemon.
LEMMA NextRefs ==
    ASSUME NoPlannerEnqueue, Inv, RefInv, [Next]_vars
    PROVE  RefInv' /\ Referred
<1>0. UNCHANGED <<queue, loops>> => Referred
  BY SameQueueRefs DEF Referred, LoopsKept
<1>1. CASE UNCHANGED vars
  <2>1. UNCHANGED <<queue, loops, pipes, pass, tick, api, Phase>>
    BY <1>1 DEF vars, storeVars, runnerVars, schedVars, Phase
  <2> QED BY <1>0, <2>1 DEF RefInv, TickRef
<1>2. CASE \E p \in Pipes : RunPipe(p)
  <2>1. PipeRefs /\ UNCHANGED <<pass, tick, api, Phase>>
    BY <1>2, PipeStepRefs DEF RunPipe, schedVars, Phase
  <2> QED BY <2>1, QueueRefsNext, RefsLift DEF RefInv, PipeRefs, TickRef, Referred
<1>3. CASE RunTick \/ RunPump
  BY <1>3, PassStepRefs, DiscoveryStepRefs, RunnerAssumption
     DEF RunTick, RunPump, TickStep, PumpStep
<1>4. CASE \E h \in Handlers : RunApi(h)
  BY <1>4, HandlerStepRefs DEF RunApi
<1>5. CASE Crash
  BY <1>5, <1>0 DEF Crash, storeVars, RefInv, PipeRef, PassRef, TickRef, CallRef, RefOK, IdlePipe,
              IdleClaim, IdlePass, FirstPhase, IdleApi, NoLoop, Loops, SavePC,
     PlannerPC
<1>6. CASE Restart
  <2>1. UNCHANGED <<queue, loops, pipes, pass, tick, api, Phase>>
    BY <1>6 DEF Restart, runnerVars, schedVars, Phase
  <2> QED BY <1>0, <2>1 DEF RefInv, TickRef
<1> QED BY <1>1, <1>2, <1>3, <1>4, <1>5, <1>6 DEF Next

\* No name is given to a loop that does not exist, and a planner's key is only
\* ever put with a planner's loop.
THEOREM RefInvariance ==
    ASSUME NoPlannerEnqueue
    PROVE  Spec => []RefInv
<1>1. Init => RefInv
  BY DEF Init, StorageInit, RunnerInit, SchedulerInit, ApiInit, RefInv, PipeRef, PassRef, TickRef,
         CallRef, RefOK, IdlePipe, IdleClaim, IdlePass, FirstPhase, IdleApi, NoLoop, Loops, SavePC,
     PlannerPC
<1>2. Inv /\ RefInv /\ [Next]_vars => RefInv'
  BY NextRefs
<1> QED BY <1>1, <1>2, Invariance, PTL DEF Spec

-----------------------------------------------------------------------------
(* One live fixer loop per pull request *)

\* No client writes the status of a loop (a pause or a stop that meets a
\* completed loop makes it live again, beside one created since), and none
\* is asked to make a fixer loop without the mutex.
NoLoopClients    == ApiOps \cap {"pause", "resume", "stop", "close"} = {}
NoFixerAdmission == \A k \in AdmitKeys : KeyType[k] # "fixer"

LiveFixer(ls, l) == /\ LoopExists(ls, l) /\ ls[l].type = "fixer"
                    /\ ls[l].status \notin TerminalLoopStatuses
OneLive(ls) == \A l, m \in Loops : /\ LiveFixer(ls, l) /\ LiveFixer(ls, m)
                                   /\ ls[l].target = ls[m].target
                                   => l = m

QuietCall(x) == /\ x.pc \in {"idle", "createLoop", "create", "insert"}
                /\ x.pc \in {"createLoop", "create"} => KeyType[x.key] # "fixer"

\* What a pipeline has read of its loop's row is still there when it writes
\* the row back, and discovery creates a loop where there still is none.
SeenIsCurrent == \A p \in Pipes : pipes[p].pc \in SavePC => pipes[p].seen = loops[PLoop(p)].status
NoneWasFound  == tick.pc = "create" /\ Phase = "fixer" => ReusableFixerLoops(loops, tick.key) = {}

FixerInv == /\ \A h \in Handlers : QuietCall(api[h])
            /\ SeenIsCurrent /\ NoneWasFound /\ OneLive(loops)

\* A change of the table after which no loop is a live fixer that was not one.
Calm(ls, ms) == \A l \in Loops : LiveFixer(ms, l) => /\ LiveFixer(ls, l)
                                                     /\ ms[l].target = ls[l].target

LEMMA CalmKeeps ==
    ASSUME NEW ls, NEW ms, Calm(ls, ms)
    PROVE  /\ OneLive(ls) => OneLive(ms)
           /\ \A k : ReusableFixerLoops(ls, k) = {} => ReusableFixerLoops(ms, k) = {}
BY DEF Calm, OneLive, LiveFixer, ReusableFixerLoops

\* The calm statements: the ones that end a loop, or are about one of another type.
LEMMA CalmStatements ==
    ASSUME NEW ls \in [Loops -> LoopRow], NEW l \in Loops, NEW st, NEW ty, NEW tg, NEW f
    PROVE  /\ Calm(ls, ls)
           /\ SetLoop(ls, l, ls[l].status) = ls
           /\ st \in TerminalLoopStatuses => Calm(ls, SetLoop(ls, l, st))
           /\ LoopExists(ls, l) /\ ls[l].type # "fixer" => Calm(ls, SetLoop(ls, l, st))
           /\ NextLoop(ls, l) /\ ty # "fixer" => Calm(ls, InsertLoop(ls, l, st, ty, tg, f))
<1>1. SetLoop(ls, l, ls[l].status) = ls
  BY DEF SetLoop, LoopRow
<1> QED BY <1>1 DEF Calm, LiveFixer, LoopExists, NextLoop, SetLoop, InsertLoop, LoopRow

\* The insertion of a fixer loop where there is no live one.
LEMMA FixerBorn ==
    ASSUME NEW ls \in [Loops -> LoopRow], NEW l \in Loops, NEW st, NEW f, NEW k,
           OneLive(ls), ReusableFixerLoops(ls, k) = {}
    PROVE  OneLive(InsertLoop(ls, l, st, "fixer", KeyTarget[k], f))
<1> DEFINE ms == InsertLoop(ls, l, st, "fixer", KeyTarget[k], f)
<1>1. \A m \in Loops : m # l => ms[m] = ls[m]
  BY DEF InsertLoop
<1>2. ms[l].target = KeyTarget[k]
  BY DEF InsertLoop
<1>3. \A m \in Loops : LiveFixer(ls, m) => ls[m].target # KeyTarget[k]
  BY DEF LiveFixer, ReusableFixerLoops
<1> QED BY <1>1, <1>2, <1>3 DEF OneLive, LiveFixer, LoopExists

\* A pipeline comes to a write-back by reading the row.
LEMMA OnlyAReadSaves ==
    ASSUME PipeBefore, NEW p \in Pipes, PipeStep(p), pipes'[p].pc \in SavePC
    PROVE  LoopRowRead(p)
<1>1. pipes \in [Pipes -> PipeState] /\ pipes[p] \in PipeState
  BY PipeTypes DEF PipeBefore, RunnerTypeOK
<1>2. CASE \E x : pipes' = [pipes EXCEPT ![p] = x] /\ x.pc \notin SavePC
  BY <1>1, <1>2
<1>3. IdlePipe.pc \notin SavePC /\ \A pc : [pipes[p] EXCEPT !.pc = pc].pc = pc
  BY <1>1 DEF IdlePipe, SavePC, PipeState
<1>4. CASE Exit(p) \/ \E pc : Goto(p, pc) /\ pc \notin SavePC
  BY <1>2, <1>3, <1>4 DEF Exit, Goto
<1>5. CASE Start(p)
  <2>1. CASE \E r \in Runs : Begin(p, r)
    <3>1. PICK r \in Runs, pc \in FirstStep[PType(p)] \cup {"runDone"} :
            pipes' = [pipes EXCEPT ![p].run = r, ![p].pc = pc]
      BY <2>1 DEF Begin
    <3>2. PType(p) \in IndexedTypes
      BY <1>5, PipeTypes DEF Start, At, SoundPipe, PType
    <3>3. pc \notin SavePC
      BY <3>1, <3>2 DEF FirstStep, IndexedTypes, SavePC
    <3>4. pipes'[p].pc = pc
      BY <1>1, <3>1 DEF PipeState
    <3> QED BY <3>3, <3>4
  <2> QED BY <1>4, <1>5, <2>1 DEF Start, SavePC
<1>6. CASE LoopRowWrite(p)
  <2>1. AfterSave[pipes[p].pc] \notin SavePC
    BY <1>6 DEF LoopRowWrite, AfterSave, SavePC
  <2>2. pipes'[p].pc = AfterSave[pipes[p].pc]
    BY <1>1, <1>6 DEF LoopRowWrite, PipeState
  <2> QED BY <2>1, <2>2
<1>7. CASE PlannerStep(p) \/ WorkerWork(p) \/ RetryStep(p) \/ FixerStep(p) \/ ExitStep(p)
  <2>1. Exit(p) \/ \E pc : Goto(p, pc) /\ pc \notin SavePC
    BY <1>7 DEF PlannerStep, FlipToRunning, PlannerWork, PlannerFailRun, PlannerFailQueue,
       PlannerFailLoop, WorkerWork, RetryStep, MarkedForRetry, RetriedRunFailed, FixerStep,
       PauseCheck, Repair, ExitStep, RunSucceeded, QueueCompleted, LoopCompleted, QueueFailed,
       LoopFailed, SavePC
  <2> QED BY <1>4, <2>1
<1>8. CASE ReviewerStep(p)
  <2>1. CASE \E l : pipes' = [pipes EXCEPT ![p].newLoop = l, ![p].pc = "handoffInsert"]
    BY <1>1, <2>1 DEF PipeState, SavePC
  <2>2. CASE HandoffInsert(p)
    BY <1>1, <2>2 DEF HandoffInsert, PipeState, SavePC
  <2>3. "runDone" \notin SavePC /\ "handoff" \notin SavePC
    BY DEF SavePC
  <2>4. CASE Goto(p, "runDone") \/ Goto(p, "handoff")
    BY <1>4, <2>3, <2>4
  <2> QED BY <1>8, <2>1, <2>2, <2>4 DEF ReviewerStep, ReviewerWork, HandoffLoop
<1> QED BY <1>5, <1>6, <1>7, <1>8 DEF PipeStep, LoopRowStep

\* A pipeline writes the loops table only under the mutex.
LEMMA PipeWritesLocked ==
    ASSUME NEW p \in Pipes, PipeStep(p)
    PROVE  loops' = loops \/ Locked(p)
BY DEF PipeStep, Start, LoopRowStep, LoopRowRead, LoopRowWrite, PlannerStep, FlipToRunning,
   PlannerWork, PlannerFailRun, PlannerFailQueue, PlannerFailLoop, WorkerWork, RetryStep,
   MarkedForRetry, RetriedRunFailed, ReviewerStep, ReviewerWork, HandoffLoop, HandoffInsert,
   FixerStep, PauseCheck, Repair, ExitStep, RunSucceeded, QueueCompleted, LoopCompleted,
   QueueFailed, LoopFailed, storeVars

\* What it writes there.
LEMMA PipeWritesLoops ==
    ASSUME NEW p \in Pipes, PipeStep(p), loops' # loops
    PROVE  \/ pipes[p].pc \in SavePC /\ loops' = SetLoop(loops, PLoop(p), pipes[p].seen)
           \/ /\ pipes[p].pc \in PlannerPC
              /\ loops' = SetLoop(loops, PLoop(p), "running") \/ PlannerFailLoop(p)
           \/ /\ pipes[p].pc \in {"loopDone", "errLoop"}
              /\ \E st \in {"completed", "failed"} : loops' = SetLoop(loops, PLoop(p), st)
           \/ /\ ReusableFixerLoops(loops, HandoffKey(p)) = {}
              /\ \E l \in Loops : /\ NextLoop(loops, l)
                                  /\ loops' = InsertLoop(loops, l, "queued", "fixer",
                                                         KeyTarget[HandoffKey(p)], "bare")
<1>1. CASE LoopRowStep(p)
  BY <1>1 DEF LoopRowStep, LoopRowRead, LoopRowWrite, AfterSave, SavePC, storeVars
<1>2. CASE PlannerStep(p)
  BY <1>2 DEF PlannerStep, FlipToRunning, PlannerWork, PlannerFailRun, PlannerFailQueue,
              PlannerFailLoop, At, PlannerPC, storeVars
<1>3. CASE ReviewerStep(p)
  BY <1>3 DEF ReviewerStep, ReviewerWork, HandoffLoop, HandoffInsert, storeVars
<1>4. CASE ExitStep(p)
  BY <1>4 DEF ExitStep, RunSucceeded, QueueCompleted, LoopCompleted, QueueFailed, LoopFailed, At
<1> QED BY <1>1, <1>2, <1>3, <1>4 DEF PipeStep, Start, WorkerWork, RetryStep, MarkedForRetry,
           RetriedRunFailed, FixerStep, PauseCheck, Repair, storeVars


\* Every step of a pipeline.
LEMMA PipeFixer ==
    ASSUME Inv, MutexInv, RefInv, FixerInv, NEW p \in Pipes, PipeStep(p),
           UNCHANGED <<schedVars, api>>
    PROVE  FixerInv'
<1>1. /\ loops \in [Loops -> LoopRow] /\ PipeBefore /\ PipeMutex(p)
      /\ UNCHANGED <<tick, api, Phase>>
  BY InvBefore, TickTypes, PipeStepMutex DEF MutexInv, schedVars, Phase
<1>2. \A q \in Pipes \ {p} : pipes'[q].pc \in SavePC => loops' = loops /\ pipes'[q] = pipes[q]
  BY <1>1, PipeWritesLocked, Threads DEF PipeMutex, MutexInv, PipesHold, InSection, Locked
<1>3. SeenIsCurrent'
  <2> SUFFICES ASSUME NEW q \in Pipes, pipes'[q].pc \in SavePC
               PROVE  pipes'[q].seen = loops'[pipes'[q].claim.loop].status
    BY DEF SeenIsCurrent, PLoop
  <2>1. CASE q = p
    <3>1. LoopRowRead(p)
      BY <1>1, <2>1, OnlyAReadSaves
    <3>2. pipes[p] \in PipeState
      BY <1>1, PipeTypes
    <3> QED BY <1>1, <2>1, <3>1, <3>2 DEF LoopRowRead, storeVars, PipeBefore, RunnerTypeOK,
                                          PipeState, PLoop
  <2>2. CASE q # p
    BY <1>2, <2>2 DEF FixerInv, SeenIsCurrent, PLoop
  <2> QED BY <2>1, <2>2
<1>4. NoneWasFound'
  <2>1. tick.pc = "create" /\ Phase = "fixer" => loops' = loops
    BY PipeWritesLocked, Threads DEF MutexInv, TickHolds, Locked, Free
  <2> QED BY <1>1, <2>1 DEF FixerInv, NoneWasFound
<1>5. OneLive(loops')
  <2>1. CASE pipes[p].pc \in SavePC /\ loops' = SetLoop(loops, PLoop(p), pipes[p].seen)
    <3>1. PLoop(p) \in Loops
      BY <1>1, <2>1, HasLoop DEF SavePC
    <3>2. loops' = loops
      BY <1>1, <2>1, <3>1, CalmStatements DEF FixerInv, SeenIsCurrent
    <3> QED BY <3>2 DEF FixerInv
  <2>2. CASE pipes[p].pc \in PlannerPC /\ \E st : loops' = SetLoop(loops, PLoop(p), st)
    <3>1. PLoop(p) \in Loops
      BY <1>1, <2>2, HasLoop DEF PlannerPC
    <3>2. LoopExists(loops, PLoop(p)) /\ loops[PLoop(p)].type = "planner"
      BY <2>2, <3>1 DEF RefInv, PipeRef, RefOK, PLoop
    <3> QED BY <1>1, <2>2, <3>1, <3>2, CalmStatements, CalmKeeps DEF FixerInv
  <2>3. CASE /\ pipes[p].pc \in {"loopDone", "errLoop"}
             /\ \E st \in {"completed", "failed"} : loops' = SetLoop(loops, PLoop(p), st)
    <3>1. PLoop(p) \in Loops
      BY <1>1, <2>3, HasLoop
    <3> QED BY <1>1, <2>3, <3>1, CalmStatements, CalmKeeps DEF FixerInv, TerminalLoopStatuses
  <2>4. CASE /\ ReusableFixerLoops(loops, HandoffKey(p)) = {}
             /\ \E l \in Loops : loops' = InsertLoop(loops, l, "queued", "fixer",
                                                     KeyTarget[HandoffKey(p)], "bare")
    BY <1>1, <2>4, FixerBorn DEF FixerInv
  <2>5. CASE loops' = loops
    BY <2>5 DEF FixerInv
  <2> QED BY <2>1, <2>2, <2>3, <2>4, <2>5, PipeWritesLoops DEF PlannerFailLoop
<1> QED BY <1>1, <1>3, <1>4, <1>5 DEF FixerInv

\* Discovery creates a fixer loop where it found none a moment ago, the mutex
\* in hand since.
LEMMA DiscoveryFixer ==
    ASSUME Inv, MutexInv, FixerInv, DiscoveryStep, UNCHANGED api
    PROVE  FixerInv'
<1>1. tick \in TickState /\ loops \in [Loops -> LoopRow] /\ UNCHANGED <<pipes, api>>
  BY SMTT(30), TickTypes, DiscoveryStepGood DEF DiscoveryGood
<1>2. loops' = loops \/ CreateIssueLoop \/ CreatePrLoop
  BY DEF DiscoveryStep, FindIssue, FindPullRequest, InsertIssueItem, InsertPrItem, DiscoveryEnd,
         storeVars
<1>3. SeenIsCurrent'
  <2>1. \A p \in Pipes : pipes[p].pc \in SavePC => loops' = loops
    BY <1>2, Threads DEF MutexInv, PipesHold, TickHolds, InSection, CreateIssueLoop, CreatePrLoop
  <2> QED BY SMTT(30), <1>1, <2>1 DEF FixerInv, SeenIsCurrent, PLoop
<1>4. NoneWasFound'
  <2>1. CASE \E k \in DiscoverKeys : FindIssue(k)
    BY <1>1, <2>1 DEF FindIssue, Discovering, NoneWasFound, Phase, TickState
  <2>2. CASE \E k \in DiscoverKeys : FindPullRequest(k)
    <3>1. PICK k \in DiscoverKeys : FindPullRequest(k)
      BY <2>2
    <3>2. /\ Phase' = Phase /\ KeyType[k] = Phase /\ tick'.key = k /\ loops' = loops
          /\ tick'.pc = "create" => ReusableLoops(loops, k) = {}
      BY <1>1, <3>1 DEF FindPullRequest, Discovering, Phase, TickState, storeVars
    <3>3. Phase = "fixer" => ReusableLoops(loops, k) = ReusableFixerLoops(loops, k)
      BY <3>2 DEF ReusableLoops
    <3> QED BY <3>2, <3>3 DEF NoneWasFound
  <2>3. CASE \/ CreateIssueLoop \/ InsertIssueItem \/ CreatePrLoop \/ InsertPrItem \/ DiscoveryEnd
    <3>1. tick'.pc # "create"
      BY <1>1, <2>3 DEF CreateIssueLoop, InsertIssueItem, CreatePrLoop, InsertPrItem, DiscoveryEnd,
         ItemDone, ToNextPhase, FirstPhase, TickState
    <3> QED BY <3>1 DEF NoneWasFound
  <2> QED BY <2>1, <2>2, <2>3 DEF DiscoveryStep
<1>5. OneLive(loops')
  <2>1. CASE loops' = loops
    BY <2>1 DEF FixerInv
  <2>2. CASE \E l \in Loops : \E ty, tg, st :
               /\ NextLoop(loops, l) /\ ty # "fixer"
               /\ loops' = InsertLoop(loops, l, st, ty, tg, "bare")
    BY <1>1, <2>2, CalmStatements, CalmKeeps DEF FixerInv
  <2>3. CASE CreatePrLoop /\ Phase = "fixer"
    <3>1. ReusableFixerLoops(loops, tick.key) = {}
      BY <2>3 DEF CreatePrLoop, FixerInv, NoneWasFound
    <3>2. \/ loops' = loops
          \/ \E l \in Loops : loops' = InsertLoop(loops, l, "queued", "fixer",
                                                 KeyTarget[tick.key], "bare")
      BY <2>3 DEF CreatePrLoop
    <3> QED BY <1>1, <2>1, <3>1, <3>2, FixerBorn DEF FixerInv
  <2>4. CASE CreateIssueLoop
    <3>1. Phase # "fixer"
      BY <2>4 DEF CreateIssueLoop
    <3> QED BY <2>1, <2>2, <2>4, <3>1 DEF CreateIssueLoop
  <2>5. CASE CreatePrLoop /\ Phase # "fixer"
    <3>1. \/ loops' = loops
          \/ \E l \in Loops : /\ NextLoop(loops, l)
                             /\ loops' = InsertLoop(loops, l, "queued", "review",
                                                    KeyTarget[tick.key], "bare")
      BY <2>5 DEF CreatePrLoop
    <3> QED BY <2>1, <2>2, <3>1
  <2> QED BY <1>2, <2>1, <2>3, <2>4, <2>5
<1> QED BY <1>1, <1>3, <1>4, <1>5 DEF FixerInv

\* The requests that are left insert loops of the other types.
LEMMA CallsQuiet ==
    ASSUME NoLoopClients, NoFixerAdmission, Inv, FixerInv, NEW h \in Handlers, HandlerStep(h)
    PROVE  /\ \A g \in Handlers : QuietCall(api'[g])
           /\ \/ loops' = loops
              \/ \E l \in Loops : \E ty, tg, st, f :
                   /\ NextLoop(loops, l) /\ ty # "fixer"
                   /\ loops' = InsertLoop(loops, l, st, ty, tg, f)
<1>1. api \in [Handlers -> ApiState] /\ \A g \in Handlers : QuietCall(api[g])
  BY DEF Inv, TypeOK, ApiTypeOK, FixerInv
<1>2. QuietCall(IdleApi)
  BY DEF QuietCall, IdleApi
<1>3. ~PauseStep(h) /\ ~ResumeStep(h)
  BY <1>1 DEF NoLoopClients, QuietCall, PauseStep, PauseRead, PauseUpdate, PauseCancel, ResumeStep,
     ResumeRead, ResumeUpdate, ResumeCancelled, ResumeFailed, ResumeRunning, Idle, AtApi
<1>4. CASE StopStep(h) \/ (\E i \in Items : Dequeue(h, i))
           \/ \E k \in Keys : AcquireLock(h, k) \/ ReleaseLock(k)
  BY <1>1, <1>4 DEF NoLoopClients, QuietCall, StopStep, StopUpdate, StopCancel, StopAll, Idle, AtApi,
     Dequeue, AcquireLock, ReleaseLock
<1>5. CASE \E k \in AdmitKeys : AdmitRead(h, k)
  BY <1>1, <1>5 DEF AdmitRead, NoFixerAdmission, QuietCall, storeVars
<1>6. CASE \E k \in AdmitKeys : CreateLoopRead(h, k)
  BY <1>1, <1>6 DEF CreateLoopRead, NoFixerAdmission, QuietCall, storeVars, ApiState
<1>7. CASE \E k \in Keys, l \in Loops \cup {NoLoop} : EnqueueFind(h, k, l)
  BY <1>1, <1>7 DEF EnqueueFind, QuietCall, storeVars
<1>8. CASE CreateLoop(h) \/ Insert(h)
  BY <1>1, <1>2, <1>8 DEF CreateLoop, Insert, AtApi, Reply, QuietCall
<1>9. CASE AdmitCreate(h)
  <2>1. \A g \in Handlers : QuietCall(api'[g])
    BY <1>1, <1>2, <1>9 DEF AdmitCreate, ApiCall, Reply, QuietCall, ApiState
  <2> QED BY <1>1, <1>9, <2>1 DEF AdmitCreate, AtApi, QuietCall
<1> QED BY <1>3, <1>4, <1>5, <1>6, <1>7, <1>8, <1>9 DEF HandlerStep, AdmitStep

LEMMA HandlerFixer ==
    ASSUME NoLoopClients, NoFixerAdmission, Inv, RefInv, FixerInv,
           NEW h \in Handlers, HandlerStep(h)
    PROVE  FixerInv'
<1>1. UNCHANGED <<pipes, tick, Phase>> /\ loops \in [Loops -> LoopRow] /\ PipeBefore
  BY HandlerStepGood, TickTypes, InvBefore DEF runnerVars, schedVars, Phase
<1>2. /\ Calm(loops, loops')
      /\ \A l \in Loops : LoopExists(loops, l) => loops'[l] = loops[l]
  <2>1. CASE loops' = loops
    BY <2>1 DEF Calm
  <2>2. CASE \E l \in Loops : \E ty, tg, st, f :
               /\ NextLoop(loops, l) /\ ty # "fixer"
               /\ loops' = InsertLoop(loops, l, st, ty, tg, f)
    <3>1. PICK l \in Loops : \E ty, tg, st, f :
            /\ NextLoop(loops, l) /\ ty # "fixer"
            /\ loops' = InsertLoop(loops, l, st, ty, tg, f)
      BY <2>2
    <3>2. Calm(loops, loops')
      BY <1>1, <3>1, CalmStatements
    <3>3. \A m \in Loops : m # l => loops'[m] = loops[m]
      BY <1>1, <3>1 DEF InsertLoop
    <3> QED BY <3>1, <3>2, <3>3 DEF NextLoop
  <2> QED BY <2>1, <2>2, CallsQuiet
<1>3. SeenIsCurrent'
  <2> SUFFICES ASSUME NEW p \in Pipes, pipes[p].pc \in SavePC
               PROVE  pipes[p].seen = loops'[PLoop(p)].status
    BY <1>1 DEF SeenIsCurrent, PLoop
  <2>1. PLoop(p) \in Loops
    BY <1>1, HasLoop DEF SavePC
  <2>2. LoopExists(loops, PLoop(p))
    BY <2>1 DEF RefInv, PipeRef, RefOK, PLoop
  <2> QED BY <1>2, <2>1, <2>2 DEF FixerInv, SeenIsCurrent
<1>4. NoneWasFound' /\ OneLive(loops')
  BY <1>1, <1>2, CalmKeeps DEF FixerInv, NoneWasFound
<1> QED BY <1>3, <1>4, CallsQuiet DEF FixerInv

\* A pass leaves every pipeline as it is, or starts it.
LEMMA PassAndPipes ==
    ASSUME Inv, NEW c \in Claimants, PassStep(c)
    PROVE  \A p \in Pipes : pipes'[p] = pipes[p] \/ pipes'[p].pc = "start"
<1>1. CASE Dispatch(c)
  <2>1. PICK cl : \/ pipes' = pipes
                  \/ \E q \in FreePipes :
                       pipes' = [pipes EXCEPT ![q] = [IdlePipe EXCEPT !.pc = "start", !.claim = cl]]
    BY <1>1 DEF Dispatch
  <2>2. [IdlePipe EXCEPT !.pc = "start", !.claim = cl].pc = "start"
    BY DEF IdlePipe
  <2> QED BY <2>1, <2>2 DEF FreePipes, Inv, TypeOK, RunnerTypeOK
<1> QED BY <1>1 DEF PassStep, PassBegin, PassLock, ClaimFresh, FreshDone, ClaimLong, ClaimOne,
                    LongDone, PassEnd, runnerVars

\* Every step of the daemon.
LEMMA NextFixer ==
    ASSUME NoLoopClients, NoFixerAdmission, Inv, MutexInv, RefInv, FixerInv, [Next]_vars
    PROVE  FixerInv'
<1>1. CASE UNCHANGED vars
  <2>1. UNCHANGED <<loops, pipes, tick, api, Phase>>
    BY <1>1 DEF vars, storeVars, runnerVars, schedVars, Phase
  <2> QED BY <2>1 DEF FixerInv, SeenIsCurrent, NoneWasFound, PLoop
<1>2. CASE \E p \in Pipes : RunPipe(p)
  BY <1>2, PipeFixer DEF RunPipe
<1>3. CASE RunTick \/ RunPump
  <2>1. CASE DiscoveryStep /\ UNCHANGED api
    BY <2>1, DiscoveryFixer
  <2>2. CASE UNCHANGED api /\ \E c \in Claimants : PassStep(c)
    <3>1. PICK c \in Claimants : PassStep(c)
      BY <2>2
    <3>2. loops' = loops
      BY SMTT(30), <3>1, PassStepGood DEF PassGood
    <3>3. tick' = tick \/ tick'.pc = "idle"
      BY <3>1 DEF PassStep, PassBegin, PassLock, ClaimFresh, FreshDone, ClaimLong, ClaimOne,
         LongDone, Dispatch, PassEnd, EndPhase, ToNextPhase, FirstPhase
    <3>5. SeenIsCurrent'
      BY <3>1, <3>2, PassAndPipes DEF FixerInv, SeenIsCurrent, PLoop, SavePC
    <3> QED BY <2>2, <3>2, <3>3, <3>5 DEF FixerInv, NoneWasFound, Phase
  <2> QED BY <1>3, <2>1, <2>2, RunnerAssumption DEF RunTick, RunPump, TickStep, PumpStep
<1>4. CASE \E h \in Handlers : RunApi(h)
  BY <1>4, HandlerFixer DEF RunApi
<1>5. CASE Crash
  BY <1>5 DEF Crash, storeVars, FixerInv, QuietCall, SeenIsCurrent, NoneWasFound, IdlePipe, IdleApi,
     FirstPhase, SavePC
<1>6. CASE Restart
  <2>1. UNCHANGED <<loops, pipes, tick, api, Phase>>
    BY <1>6 DEF Restart, runnerVars, schedVars, Phase
  <2> QED BY <2>1 DEF FixerInv, SeenIsCurrent, NoneWasFound, PLoop
<1> QED BY <1>1, <1>2, <1>3, <1>4, <1>5, <1>6 DEF Next

\* Fixer discovery and any number of reviews that hand over find or create the
\* one live fixer loop of a pull request, through crashes and restarts.
THEOREM OneFixer ==
    ASSUME NoPlannerEnqueue, NoLoopClients, NoFixerAdmission
    PROVE  Spec => []OneFixerLoop
<1>1. Init => FixerInv
  BY DEF Init, StorageInit, RunnerInit, SchedulerInit, ApiInit, FixerInv, QuietCall, SeenIsCurrent,
         NoneWasFound, OneLive, LiveFixer, LoopExists, IdlePipe, IdleApi, FirstPhase, SavePC
<1>2. Inv /\ MutexInv /\ RefInv /\ FixerInv /\ [Next]_vars => FixerInv'
  BY NextFixer
<1>3. FixerInv => OneFixerLoop
  BY DEF FixerInv, OneLive, LiveFixer, OneFixerLoop
<1> QED BY <1>1, <1>2, <1>3, Invariance, MutexInvariance, RefInvariance, PTL DEF Spec

-----------------------------------------------------------------------------
(* A paused loop is quiet *)

Quiet(l) == Pausing(l) \/ ItemsOf(queue, l, "running") = {}

\* Every paused loop that is not a planner's, and every one a pipeline is about
\* to write back as paused, has no running item or will have its items cancelled.
PauseInv ==
    /\ \A l \in Loops : loops[l].status = "paused" /\ loops[l].type # "planner" => Quiet(l)
    /\ \A p \in Pipes : /\ pipes[p].pc \in SavePC /\ pipes[p].seen = "paused"
                        /\ loops[PLoop(p)].type # "planner"
                        => Quiet(PLoop(p))

\* What a step must do for that: leave quiet loops quiet, pause only such ones,
\* and let a pipeline read the pause of such ones only.
PauseKept ==
    /\ \A l \in Loops : Quiet(l) => Quiet(l)'
    /\ \A l \in Loops : /\ loops'[l].status = "paused" /\ loops'[l].type # "planner"
                         => loops'[l] = loops[l] \/ Quiet(l)'
    /\ \A p \in Pipes : /\ pipes'[p].pc \in SavePC /\ pipes'[p].seen = "paused"
                        /\ (loops[PLoop(p)].type # "planner")'
                        => pipes'[p] = pipes[p] \/ Quiet(PLoop(p))'

LEMMA PauseNext ==
    ASSUME Inv, RefInv, PauseInv, PauseKept, LoopsKept(loops, loops')
    PROVE  PauseInv'
<1>1. \A l \in Loops : (loops[l].status = "paused" /\ loops[l].type # "planner" => Quiet(l))'
  BY DEF PauseInv, PauseKept
<1>2. ASSUME NEW p \in Pipes, pipes'[p].pc \in SavePC, pipes'[p].seen = "paused",
             (loops[PLoop(p)].type # "planner")', pipes'[p] = pipes[p]
      PROVE  Quiet(PLoop(p))'
  <2>1. PLoop(p)' = PLoop(p) /\ PLoop(p) \in Loops
    BY <1>2, InvBefore, HasLoop DEF SavePC, PLoop
  <2>2. LoopExists(loops, PLoop(p))
    BY <2>1 DEF RefInv, PipeRef, RefOK, PLoop
  <2>3. loops[PLoop(p)].type # "planner"
    BY <1>2, <2>1, <2>2 DEF LoopsKept
  <2> QED BY <1>2, <2>1, <2>3 DEF PauseInv, PauseKept
<1> QED BY <1>1, <1>2 DEF PauseInv, PauseKept

\* Only a claim makes an item run, and an item that runs on keeps its loop.
LEMMA ItemsStayQuiet ==
    ASSUME QuietStep, QueueRefs, NEW l
    PROVE  ItemsOf(queue', l, "running") \subseteq ItemsOf(queue, l, "running")
BY DEF QuietStep, QueueRefs, SameSubject, ItemsOf, Running

LEMMA QuietKept ==
    ASSUME QuietStep, QueueRefs, NEW l, Pausing(l) => Pausing(l)', Quiet(l)
    PROVE  Quiet(l)'
BY ItemsStayQuiet DEF Quiet

\* Every step of a pipeline.
LEMMA PipePause ==
    ASSUME Inv, MutexInv, RefInv, PauseInv, NEW p \in Pipes, PipeStep(p), UNCHANGED api
    PROVE  PauseInv'
<1>1. /\ loops \in [Loops -> LoopRow] /\ PipeBefore /\ PipeMutex(p) /\ QuietStep
      /\ QueueRefs /\ LoopsKept(loops, loops') /\ pipes[p] \in PipeState
  BY InvBefore, TickTypes, PipeTypes, PipeStepMutex, PipeStepGood, PipeStepRefs
     DEF MutexInv, PipeGood, PipeRefs, Referred
<1>2. \A l : Quiet(l) => Quiet(l)'
  BY <1>1, QuietKept DEF Pausing, AtApi, ALoop
<1>3. ASSUME NEW l \in Loops, loops'[l].status = "paused", loops'[l].type # "planner"
      PROVE  loops'[l] = loops[l] \/ Quiet(l)'
  <2>1. CASE pipes[p].pc \in SavePC /\ loops' = SetLoop(loops, PLoop(p), pipes[p].seen)
    BY <1>1, <1>2, <1>3, <2>1 DEF PauseInv, SetLoop, LoopRow
  <2>2. CASE pipes[p].pc \in PlannerPC /\ \E st : loops' = SetLoop(loops, PLoop(p), st)
    <3>1. PLoop(p) \in Loops
      BY <1>1, <2>2, HasLoop DEF PlannerPC
    <3>2. loops[PLoop(p)].type = "planner"
      BY <2>2, <3>1 DEF RefInv, PipeRef, RefOK, PLoop
    <3> QED BY <1>1, <1>3, <2>2, <3>2 DEF SetLoop, LoopRow
  <2>3. CASE \E st \in {"completed", "failed"} : loops' = SetLoop(loops, PLoop(p), st)
    BY <1>1, <1>3, <2>3 DEF SetLoop, LoopRow
  <2>4. CASE \E m \in Loops : loops' = InsertLoop(loops, m, "queued", "fixer",
                                                 KeyTarget[HandoffKey(p)], "bare")
    BY <1>1, <1>3, <2>4 DEF InsertLoop, LoopRow
  <2> QED BY <2>1, <2>2, <2>3, <2>4, PipeWritesLoops DEF PlannerFailLoop
<1>4. ASSUME NEW q \in Pipes, pipes'[q].pc \in SavePC, pipes'[q].seen = "paused",
             (loops[PLoop(q)].type # "planner")'
      PROVE  pipes'[q] = pipes[q] \/ Quiet(PLoop(q))'
  <2>1. CASE q # p
    BY <1>1, <2>1 DEF PipeMutex
  <2>2. CASE q = p
    <3>1. LoopRowRead(p)
      BY <1>1, <1>4, <2>2, OnlyAReadSaves
    <3>2. /\ pipes'[p].claim = pipes[p].claim /\ loops' = loops
          /\ pipes'[p].seen = loops[PLoop(p)].status /\ PLoop(p) \in Loops
      BY <1>1, <3>1, HasLoop DEF LoopRowRead, PipeBefore, RunnerTypeOK, PipeState, storeVars,
         SavesLoopRow
    <3> QED BY <1>2, <1>4, <2>2, <3>2 DEF PauseInv, PLoop
  <2> QED BY <2>1, <2>2
<1> QED BY <1>1, <1>2, <1>3, <1>4, PauseNext DEF PauseKept

\* Every step of a pass: a claim takes no item of a paused loop, and none while
\* a pipeline is between its read of a loop row and its write-back.
LEMMA PassPause ==
    ASSUME Inv, MutexInv, RefInv, PauseInv, NEW c \in Claimants, PassStep(c), UNCHANGED api
    PROVE  PauseInv'
<1>1. loops' = loops /\ QueueRefs
  BY PassStepGood, PassStepRefs DEF PassGood, Referred
<1>2. CASE ClaimFresh(c) \/ ClaimLong(c)
  <2>1. pipes' = pipes /\ pass[c].pc \in {"fresh", "long"}
    BY <1>2, ClaimFacts
  <2>2. \A p \in Pipes : pipes[p].pc \notin SavePC
    BY <2>1, Threads DEF MutexInv, PipesHold, PassesHold, InSection
  <2>3. PICK i \in Items : queue' = ClaimItem(queue, i) /\ Scheduled(queue, loops, locks, i)
    BY <1>2 DEF ClaimFresh, ClaimLong, ClaimOne, FirstByPriority, FreshCandidates, LongCandidates
  <2>4. \A l \in Loops : loops[l].status = "paused"
                         => ItemsOf(queue', l, "running") = ItemsOf(queue, l, "running")
    BY <2>3, TickTypes DEF Scheduled, BlockedLoopStatus, ItemsOf, ClaimItem, QueueTable, ItemRow,
       Loops, NoLoop
  <2> QED BY <1>1, <2>1, <2>2, <2>4 DEF PauseInv, Quiet, Pausing, AtApi, ALoop
<1>3. CASE ~(ClaimFresh(c) \/ ClaimLong(c))
  <2>1. queue' = queue
    BY <1>3 DEF PassStep, PassBegin, PassLock, FreshDone, LongDone, Dispatch, PassEnd, storeVars
  <2>2. \A l : Quiet(l)' <=> Quiet(l)
    BY <2>1 DEF Quiet, Pausing, AtApi, ALoop
  <2>3. "start" \notin SavePC
    BY DEF SavePC
  <2> QED BY SMTT(30), <1>1, <2>2, <2>3, PassAndPipes DEF PauseInv, PLoop
<1> QED BY <1>2, <1>3

\* Every step of discovery.
LEMMA DiscoveryPause ==
    ASSUME Inv, RefInv, PauseInv, DiscoveryStep, UNCHANGED api
    PROVE  PauseInv'
<1>1. /\ loops \in [Loops -> LoopRow] /\ QuietStep /\ QueueRefs /\ LoopsKept(loops, loops')
      /\ pipes' = pipes
  BY TickTypes, DiscoveryStepGood, DiscoveryStepRefs DEF DiscoveryGood, Referred
<1>2. \A l : Quiet(l) => Quiet(l)'
  BY SMTT(30), <1>1, QuietKept DEF Pausing, AtApi, ALoop
<1>3. \/ loops' = loops
      \/ \E l \in Loops, st \in {"active", "queued"} : \E ty :
           loops' = InsertLoop(loops, l, st, ty, KeyTarget[tick.key], "bare")
  BY DEF DiscoveryStep, FindIssue, FindPullRequest, InsertIssueItem, InsertPrItem, DiscoveryEnd,
     CreateIssueLoop, CreatePrLoop, storeVars
<1>4. \A l \in Loops : loops'[l] = loops[l] \/ loops'[l].status # "paused"
  BY <1>1, <1>3 DEF InsertLoop
<1> QED BY <1>1, <1>2, <1>4, PauseNext DEF PauseKept

\* What a request does to the others, to its own pause, and to the loops.
LEMMA CallsAndPauses ==
    ASSUME Inv, NEW h \in Handlers, HandlerStep(h)
    PROVE  /\ \A g \in Handlers \ {h} : api'[g] = api[g]
           /\ AtApi(h, "pauseCancel") => api' = api \/ PauseCancel(h)
           /\ \/ PauseUpdate(h)
              \/ \A l \in Loops : loops'[l] = loops[l] \/ loops'[l].status # "paused"
<1>1. /\ api \in [Handlers -> ApiState] /\ loops \in [Loops -> LoopRow]
  BY TickTypes DEF Inv, TypeOK, ApiTypeOK
<1>2. \A g \in Handlers \ {h} : api'[g] = api[g]
  BY <1>1 DEF HandlerStep, PauseStep, PauseRead, PauseUpdate, PauseCancel, ResumeStep, ResumeRead,
     ResumeUpdate, ResumeCancelled, ResumeFailed, RequeueOne, ResumeRunning, StopStep, StopUpdate,
     StopCancel, StopAll, AdmitStep, AdmitRead, CreateLoopRead, CreateLoop, AdmitCreate, Insert,
     EnqueueFind, Dequeue, AcquireLock, ReleaseLock, Reply, ApiGoto, ApiCall
<1>3. AtApi(h, "pauseCancel") => api' = api \/ PauseCancel(h)
  BY DEF HandlerStep, PauseStep, PauseRead, PauseUpdate, ResumeStep, ResumeRead, ResumeUpdate,
     ResumeCancelled, ResumeFailed, ResumeRunning, StopStep, StopUpdate, StopCancel, StopAll,
     AdmitStep, AdmitRead, CreateLoopRead, CreateLoop, AdmitCreate, Insert, EnqueueFind, Dequeue,
     AcquireLock, ReleaseLock, AtApi, Idle
<1>4. \/ PauseUpdate(h) \/ loops' = loops
      \/ \E l \in Loops \cup {NoLoop}, st \in {"active", "stopped", "closed"} :
           loops' = SetLoop(loops, l, st)
      \/ \E l \in Loops, st \in {"idle", "queued"} : \E ty, tg, f :
           loops' = InsertLoop(loops, l, st, ty, tg, f)
  BY ApiTypes DEF HandlerStep, PauseStep, PauseRead, PauseCancel, ResumeStep, ResumeRead,
     ResumeUpdate, ResumeCancelled, ResumeFailed, ResumeRunning, StopStep, StopUpdate, StopCancel,
     StopAll, AdmitStep, AdmitRead, CreateLoopRead, CreateLoop, AdmitCreate, Insert, EnqueueFind,
     Dequeue, AcquireLock, ReleaseLock, storeVars
<1>5. CASE \E l \in Loops \cup {NoLoop}, st \in {"active", "stopped", "closed"} :
             loops' = SetLoop(loops, l, st)
  BY <1>1, <1>2, <1>3, <1>5 DEF SetLoop, LoopRow
<1>6. CASE \E l \in Loops, st \in {"idle", "queued"} : \E ty, tg, f :
             loops' = InsertLoop(loops, l, st, ty, tg, f)
  BY <1>1, <1>2, <1>3, <1>6 DEF InsertLoop
<1> QED BY <1>2, <1>3, <1>4, <1>5, <1>6

\* Every step of a request: a pause goes on to the cancellation, which leaves
\* no active item of the loop.
LEMMA HandlerPause ==
    ASSUME NoPlannerEnqueue, Inv, RefInv, PauseInv, NEW h \in Handlers, HandlerStep(h)
    PROVE  PauseInv'
<1>1. /\ loops \in [Loops -> LoopRow] /\ QuietStep /\ QueueRefs /\ LoopsKept(loops, loops')
      /\ pipes' = pipes /\ api \in [Handlers -> ApiState]
  BY TickTypes, HandlerStepGood, HandlerStepRefs DEF HandlerGood, Referred, runnerVars, Inv, TypeOK,
     ApiTypeOK
<1>2. ASSUME NEW l \in Loops, Quiet(l)
      PROVE  Quiet(l)'
  <2>1. CASE PauseCancel(h) /\ ALoop(h) = l
    BY <1>1, <2>1 DEF PauseCancel, CancelLoopItems, CancelActive, SetStatus, Active, ActiveStatus,
       ItemsOf, Quiet, QuietStep, QueueTable, ItemRow
  <2>2. CASE ~(PauseCancel(h) /\ ALoop(h) = l)
    <3>1. Pausing(l) => Pausing(l)'
      BY <2>2, CallsAndPauses DEF Pausing, AtApi, ALoop
    <3> QED BY <1>1, <1>2, <3>1, QuietKept
  <2> QED BY <2>1, <2>2
<1>3. ASSUME NEW l \in Loops, loops'[l].status = "paused"
      PROVE  loops'[l] = loops[l] \/ Quiet(l)'
  <2>1. CASE PauseUpdate(h)
    <3>1. AtApi(h, "pauseCancel")' /\ ALoop(h)' = ALoop(h)
      BY <1>1, <2>1 DEF PauseUpdate, ApiGoto, AtApi, ALoop, ApiState
    <3> QED BY <1>1, <2>1, <3>1 DEF PauseUpdate, SetLoop, Quiet, Pausing
  <2> QED BY <1>3, <2>1, CallsAndPauses
<1> QED BY <1>1, <1>2, <1>3, PauseNext DEF PauseKept

\* Every step of the daemon up to the first death of the process.
LEMMA NextPause ==
    ASSUME NoPlannerEnqueue, Inv, MutexInv, RefInv, crashes = 0 => PauseInv, [Next]_vars,
           crashes' = 0
    PROVE  PauseInv'
<1>1. CASE Crash
  BY <1>1 DEF Crash, Inv, TypeOK
<1>2. CASE ~Crash
  <2>1. PauseInv
    BY <1>2 DEF Next, RunPipe, RunTick, RunPump, RunApi, Restart, lifeVars, vars
  <2>2. CASE UNCHANGED vars \/ Restart
    <3>1. UNCHANGED <<queue, loops, pipes, api>>
      BY <2>2 DEF vars, storeVars, runnerVars, Restart
    <3> QED BY <2>1, <3>1 DEF PauseInv, PLoop, Quiet, Pausing, AtApi, ALoop
  <2>3. CASE \E p \in Pipes : RunPipe(p)
    BY <2>1, <2>3, PipePause DEF RunPipe
  <2>4. CASE RunTick \/ RunPump
    BY <2>1, <2>4, PassPause, DiscoveryPause, RunnerAssumption
       DEF RunTick, RunPump, TickStep, PumpStep
  <2>5. CASE \E h \in Handlers : RunApi(h)
    BY <2>1, <2>5, HandlerPause DEF RunApi
  <2> QED BY <1>2, <2>2, <2>3, <2>4, <2>5 DEF Next
<1> QED BY <1>1, <1>2

\* Until the process dies, a loop that is paused has no running item once the
\* request that paused it has answered, whatever claims, write-backs of the
\* loop's row and other requests fall between its two statements.
THEOREM PauseIsQuiet ==
    ASSUME NoPlannerEnqueue
    PROVE  Spec => [](crashes = 0 => PausedIsQuiet)
<1>1. Init => PauseInv
  BY DEF Init, StorageInit, RunnerInit, PauseInv, IdlePipe, SavePC
<1>2. Inv /\ MutexInv /\ RefInv /\ (crashes = 0 => PauseInv) /\ [Next]_vars
      => (crashes = 0 => PauseInv)'
  BY NextPause
<1>3. PauseInv => PausedIsQuiet
  BY DEF PauseInv, Quiet, PausedIsQuiet
<1> QED BY <1>1, <1>2, <1>3, Invariance, MutexInvariance, RefInvariance, PTL DEF Spec

-----------------------------------------------------------------------------
(* A planner's outcome is whole *)

\* No client may put an item beside the one that discovery has made for a
\* planner's loop: work of another type there writes over the outcome, and the
\* argument follows one item at a time.
NoEnqueue          == EnqueueKeys = {}
NoPlannerAdmission == \A k \in AdmitKeys : KeyType[k] # "planner"

\* Planners are about issues and reviewers about pull requests, whose loops
\* differ in their target type.
IssuesApart == \A k, m \in Keys : KeyType[k] = "planner" /\ KeyType[m] = "reviewer"
                                  => KeyTarget[k] # KeyTarget[m]

\* A planner's loop is named with a planner's key only.
PlannersOnly(ls, k, l) == l \in Loops /\ ls[l].type = "planner" => KeyType[k] = "planner"
PlannerLoop(ls, l)     == LoopExists(ls, l) /\ \E k \in Keys : /\ KeyType[k] = "planner"
                                                               /\ ls[l].target = KeyTarget[k]

\* An item keeps the key it was claimed with.
HasItem(q, cl) == q[cl.item].status # "absent" /\ q[cl.item].key = cl.key

PlannerWay == {"start", "title", "titleWrite", "flip", "work", "openPr", "openPrWrite", "runDone",
               "queueDone", "loopDone", "planFailRun", "planFailQueue", "planFailLoop"}

PipeName(ls, q, x) ==
    x.pc # "free" =>
        /\ PlannersOnly(ls, x.claim.key, x.claim.loop)
        /\ KeyType[x.claim.key] = "planner" => x.pc \in PlannerWay
        /\ x.pc = "handoffInsert" /\ x.newLoop \in Loops => ls[x.newLoop].type # "planner"
        /\ HasItem(q, x.claim)
PassName(ls, q, x) == \A cl \in x.batch : PlannersOnly(ls, cl.key, cl.loop) /\ HasItem(q, cl)
CallName(ls, x) == /\ x.pc \in {"idle", "createLoop", "create", "insert"}
                   /\ x.pc # "idle" => KeyType[x.key] # "planner"
                   /\ x.pc = "insert" => PlannersOnly(ls, x.key, x.loop)

NameInv == /\ \A l \in Loops : loops[l].type = "planner" => PlannerLoop(loops, l)
           /\ \A i \in Items : PlannersOnly(loops, queue[i].key, queue[i].loop)
           /\ \A p \in Pipes : PipeName(loops, queue, pipes[p])
           /\ \A c \in Claimants : PassName(loops, queue, pass[c])
           /\ tick.pc = "insert" => PlannersOnly(loops, tick.key, tick.loop)
           /\ \A h \in Handlers : CallName(loops, api[h])
           /\ \A r \in Runs : Present(runs, r) => /\ runs[r].loop \in Loops
                                                  /\ LoopExists(loops, runs[r].loop)

\* The item of a planner's loop is on its way from discovery to a pipeline.
Coming        == IF tick.pc = "insert" THEN tick.loop ELSE NoLoop
Waiting(l)    == ItemsOf(queue, l, "queued")
Claimed(c, l) == {cl \in pass[c].batch : cl.loop = l}
IsClaimed(l)  == \E c \in Claimants : Claimed(c, l) # {}
Working(l)    == {p \in Pipes : ~At(p, "free") /\ PLoop(p) = l}

\* It is in one place at most.
OneToken(l) ==
    /\ Coming = l => Waiting(l) = {} /\ ~IsClaimed(l) /\ Working(l) = {}
    /\ Waiting(l) # {} => ~IsClaimed(l) /\ Working(l) = {}
    /\ IsClaimed(l) => Working(l) = {}
    /\ \A i, j \in Waiting(l) : i = j
    /\ \A c, d \in Claimants : \A x \in Claimed(c, l), y \in Claimed(d, l) : c = d /\ x = y
    /\ \A p, q \in Working(l) : p = q

\* The status of the one run of the loop, by how far its pipeline has come.
StatusAt(pc) == IF pc \in {"queueDone", "loopDone"} THEN "success"
                ELSE IF pc \in {"planFailQueue", "planFailLoop"} THEN "failed" ELSE "running"
RunAsFar(l) ==
    /\ Coming = l \/ Waiting(l) # {} \/ IsClaimed(l) => RunsOf(runs, l) = {}
    /\ \A p \in Working(l), r \in RunsOf(runs, l) :
         ~At(p, "start") /\ pipes[p].run = r /\ runs[r].status = StatusAt(pipes[p].pc)
    /\ Working(l) = {} => \A r \in RunsOf(runs, l) : runs[r].status \in DOMAIN OutcomeOf
                                                     => loops[l].status = OutcomeOf[runs[r].status]

Orderly(l) == OneToken(l) /\ RunAsFar(l)
PlanInv == \A l \in Loops : loops[l].type = "planner" => Orderly(l)

\* What a queue statement does to the keys: rows stay and keep theirs.
KeysKept(q, r) == \A i \in Items : q[i].status # "absent"
                                   => r[i].status # "absent" /\ r[i].key = q[i].key

LEMMA StatementsKeepKeys ==
    ASSUME NEW q \in QueueTable
    PROVE  /\ KeysKept(q, q)
           /\ \A S, st : st # "absent" => KeysKept(q, SetStatus(q, S, st))
           /\ \A S : KeysKept(q, CancelActive(q, S))
           /\ \A i \in Items : \A a : KeysKept(q, MarkRetry(q, i, a))
           /\ \A i \in Items : KeysKept(q, ClaimItem(q, i))
           /\ \A k, l, lk : \A r \in CreateOrGet(q, k, l, lk) \cup UpsertActive(q, k, l, lk) :
                KeysKept(q, r)
<1>1. ASSUME NEW k, NEW l, NEW lk, NEW r \in CreateOrGet(q, k, l, lk) \cup UpsertActive(q, k, l, lk)
      PROVE  KeysKept(q, r)
  <2>1. r = q \/ \E j \in Items : /\ r = WriteItem(q, j, k, l, lk)
                                  /\ q[j].status = "absent" \/ q[j].key = k
    BY DEF CreateOrGet, UpsertActive, InsertItem, NextItem, FindActive
  <2> QED BY <2>1 DEF KeysKept, WriteItem, QueueTable
<1>2. \A S, st : st # "absent" => KeysKept(q, SetStatus(q, S, st))
  BY DEF KeysKept, SetStatus, QueueTable, ItemRow
<1>3. \A S : KeysKept(q, CancelActive(q, S))
  BY <1>2 DEF CancelActive
<1>4. ASSUME NEW i \in Items
      PROVE  KeysKept(q, ClaimItem(q, i)) /\ \A a : KeysKept(q, MarkRetry(q, i, a))
  BY DEF KeysKept, ClaimItem, MarkRetry, QueueTable, ItemRow
<1> QED BY <1>1, <1>2, <1>3, <1>4 DEF KeysKept

\* What was named soundly stays so when rows stay and loops stay.
LEMMA NamesLift ==
    ASSUME NEW q, NEW r, NEW ls, NEW ms, KeysKept(q, r), LoopsKept(ls, ms)
    PROVE  /\ \A k, l : RefOK(ls, k, l) /\ PlannersOnly(ls, k, l) => PlannersOnly(ms, k, l)
           /\ \A cl : cl.item \in Items /\ HasItem(q, cl) => HasItem(r, cl)
           /\ \A l \in Loops : PlannerLoop(ls, l) => PlannerLoop(ms, l)
BY DEF KeysKept, LoopsKept, RefOK, PlannersOnly, HasItem, PlannerLoop

\* What a pipeline writes to the queue.
LEMMA PipeWritesQueue ==
    ASSUME NEW p \in Pipes, PipeStep(p)
    PROVE  \/ queue' = queue
           \/ \E st \in {"completed", "failed"} : queue' = SetStatus(queue, {PItem(p)}, st)
           \/ /\ At(p, "retry")
              /\ \E a : queue' = MarkRetry(queue, PItem(p), a)
           \/ HandoffInsert(p)
BY DEF PipeStep, Start, LoopRowStep, LoopRowRead, LoopRowWrite, PlannerStep, FlipToRunning,
   PlannerWork, PlannerFailRun, PlannerFailQueue, PlannerFailLoop, WorkerWork, RetryStep,
   MarkedForRetry, RetriedRunFailed, ReviewerStep, ReviewerWork, HandoffLoop,
   FixerStep, PauseCheck, Repair, ExitStep, RunSucceeded, QueueCompleted, LoopCompleted,
   QueueFailed, LoopFailed, storeVars

\* The steps of a planner.
LEMMA PlannerMoves ==
    ASSUME NEW p \in Pipes, PipeStep(p), PType(p) = "planner", pipes[p].pc \in PlannerWay
    PROVE  \/ Start(p) \/ LoopRowStep(p) \/ PlannerStep(p)
           \/ RunSucceeded(p) \/ QueueCompleted(p) \/ LoopCompleted(p)
BY DEF PipeStep, WorkerWork, RetryStep, MarkedForRetry, RetriedRunFailed, ReviewerStep, ReviewerWork,
   HandoffLoop, HandoffInsert, FixerStep, PauseCheck, Repair, ExitStep, QueueFailed, LoopFailed, At,
   PlannerWay

\* Where they lead.
LEMMA PlannerGoes ==
    ASSUME PipeBefore, NEW p \in Pipes, PipeStep(p), PType(p) = "planner", pipes[p].pc \in PlannerWay
    PROVE  pipes'[p].pc \in PlannerWay \cup {"free"}
<1>1. pipes \in [Pipes -> PipeState] /\ pipes[p] \in PipeState
  BY PipeTypes DEF PipeBefore, RunnerTypeOK
<1>2. IdlePipe.pc = "free" /\ \A pc : [pipes[p] EXCEPT !.pc = pc].pc = pc
  BY <1>1 DEF IdlePipe, PipeState
<1>3. CASE Exit(p) \/ \E pc \in PlannerWay : Goto(p, pc)
  BY ZenonT(30), <1>1, <1>2, <1>3 DEF Exit, Goto
<1>4. CASE Start(p)
  <2>1. CASE \E r \in Runs : Begin(p, r)
    <3>1. PICK r \in Runs, pc \in FirstStep[PType(p)] \cup {"runDone"} :
            pipes' = [pipes EXCEPT ![p].run = r, ![p].pc = pc]
      BY <2>1 DEF Begin
    <3>2. pc \in PlannerWay
      BY <3>1 DEF FirstStep, PlannerWay
    <3>3. pipes'[p].pc = pc
      BY <1>1, <3>1 DEF PipeState
    <3> QED BY <3>2, <3>3
  <2> QED BY <1>3, <1>4, <2>1 DEF Start
<1>5. CASE LoopRowStep(p)
  BY <1>1, <1>5 DEF LoopRowStep, LoopRowRead, LoopRowWrite, SavesLoopRow, AfterSave, PlannerWay, PipeState
<1>6. CASE PlannerStep(p) \/ RunSucceeded(p) \/ QueueCompleted(p) \/ LoopCompleted(p)
  BY <1>3, <1>6 DEF PlannerStep, FlipToRunning, PlannerWork, PlannerFailRun, PlannerFailQueue,
     PlannerFailLoop, RunSucceeded, QueueCompleted, LoopCompleted, PlannerWay
<1> QED BY <1>4, <1>5, <1>6, PlannerMoves

\* A pipeline keeps its claim until it leaves, and hands over to a fixer's loop.
LEMMA ClaimStays ==
    ASSUME PipeBefore, NEW p \in Pipes, PipeStep(p)
    PROVE  /\ \/ pipes'[p] = IdlePipe
              \/ pipes'[p].claim = pipes[p].claim /\ pipes[p].pc # "free"
           /\ \A q \in Pipes \ {p} : pipes'[q] = pipes[q]
           /\ pipes'[p].pc = "handoffInsert"
              => loops'[pipes'[p].newLoop].type = "fixer" \/ UNCHANGED <<pipes, loops>>
<1>1. /\ pipes \in [Pipes -> PipeState] /\ pipes[p] \in PipeState /\ loops \in [Loops -> LoopRow]
  BY PipeTypes DEF PipeBefore, RunnerTypeOK, StorageTypeOK
<1>2. IdlePipe.pc = "free" /\ IdlePipe.pc # "handoffInsert"
  BY DEF IdlePipe
<1>3. CASE Exit(p)
  BY <1>1, <1>2, <1>3 DEF Exit
<1>4. CASE /\ \E pc : Goto(p, pc) /\ pc # "handoffInsert"
           /\ pipes[p].pc # "free"
  BY <1>1, <1>4 DEF Goto, PipeState
<1>5. CASE Start(p)
  <2>1. CASE \E r \in Runs : Begin(p, r)
    <3>1. PICK r \in Runs, pc \in FirstStep[PType(p)] \cup {"runDone"} :
            pipes' = [pipes EXCEPT ![p].run = r, ![p].pc = pc]
      BY <2>1 DEF Begin
    <3>2. PType(p) \in IndexedTypes
      BY <1>5, PipeTypes DEF Start, At, SoundPipe, PType
    <3>3. pc # "handoffInsert"
      BY <3>1, <3>2 DEF FirstStep, IndexedTypes
    <3> QED BY <1>1, <1>5, <3>1, <3>3 DEF PipeState, Start, At
  <2> QED BY <1>3, <1>4, <1>5, <2>1 DEF Start, At
<1>6. CASE LoopRowStep(p)
  BY <1>1, <1>6 DEF LoopRowStep, LoopRowRead, LoopRowWrite, SavesLoopRow, AfterSave, PipeState
<1>7. CASE PlannerStep(p) \/ WorkerWork(p) \/ RetryStep(p) \/ FixerStep(p) \/ ExitStep(p)
  <2>1. Exit(p) \/ \E pc : Goto(p, pc) /\ pc # "handoffInsert"
    BY <1>7 DEF PlannerStep, FlipToRunning, PlannerWork, PlannerFailRun, PlannerFailQueue,
       PlannerFailLoop, WorkerWork, RetryStep, MarkedForRetry, RetriedRunFailed, FixerStep,
       PauseCheck, Repair, ExitStep, RunSucceeded, QueueCompleted, LoopCompleted, QueueFailed,
       LoopFailed
  <2>2. pipes[p].pc # "free"
    BY <1>7 DEF PlannerStep, FlipToRunning, PlannerWork, PlannerFailRun, PlannerFailQueue,
       PlannerFailLoop, WorkerWork, RetryStep, MarkedForRetry, RetriedRunFailed, FixerStep,
       PauseCheck, Repair, ExitStep, RunSucceeded, QueueCompleted, LoopCompleted, QueueFailed,
       LoopFailed, At
  <2> QED BY <1>3, <1>4, <2>1, <2>2
<1>8. CASE ReviewerStep(p)
  <2>1. CASE ReviewerWork(p)
    <3>1. /\ \E pc : Goto(p, pc) /\ pc # "handoffInsert"
          /\ pipes[p].pc # "free"
      BY <2>1 DEF ReviewerWork, At
    <3> QED BY <1>4, <3>1
  <2>3. CASE HandoffInsert(p)
    <3>1. pipes' = [pipes EXCEPT ![p].newLoop = NoLoop, ![p].pc = "runDone"] /\ pipes[p].pc # "free"
      BY <2>3 DEF HandoffInsert, At
    <3> QED BY <1>1, <3>1 DEF PipeState
  <2>2. CASE HandoffLoop(p)
    <3>1. CASE Goto(p, "runDone")
      BY <1>4, <2>2, <3>1 DEF HandoffLoop, At
    <3>2. CASE \E l \in Loops :
                 /\ \/ l \in ReusableFixerLoops(loops, HandoffKey(p)) /\ UNCHANGED loops
                    \/ loops' = InsertLoop(loops, l, "queued", "fixer", KeyTarget[HandoffKey(p)], "bare")
                 /\ pipes' = [pipes EXCEPT ![p].newLoop = l, ![p].pc = "handoffInsert"]
      <4>1. PICK l \in Loops :
              /\ \/ l \in ReusableFixerLoops(loops, HandoffKey(p)) /\ UNCHANGED loops
                 \/ loops' = InsertLoop(loops, l, "queued", "fixer", KeyTarget[HandoffKey(p)], "bare")
              /\ pipes' = [pipes EXCEPT ![p].newLoop = l, ![p].pc = "handoffInsert"]
        BY <3>2
      <4>2. loops'[l].type = "fixer"
        BY <1>1, <4>1 DEF ReusableFixerLoops, InsertLoop
      <4>3. /\ pipes'[p].newLoop = l /\ pipes'[p].claim = pipes[p].claim
            /\ \A q \in Pipes \ {p} : pipes'[q] = pipes[q]
        BY <1>1, <4>1 DEF PipeState
      <4> QED BY <2>2, <4>2, <4>3 DEF HandoffLoop, At
    <3> QED BY <2>2, <3>1, <3>2 DEF HandoffLoop
  <2> QED BY <1>8, <2>1, <2>2, <2>3 DEF ReviewerStep
<1> QED BY <1>5, <1>6, <1>7, <1>8 DEF PipeStep

\* A pipeline makes no planner's loop.
LEMMA PipeMakesNone ==
    ASSUME PipeBefore, NEW p \in Pipes, PipeStep(p)
    PROVE  \A l \in Loops : loops'[l].type = "planner" => loops[l].type = "planner"
<1>1. loops \in [Loops -> LoopRow]
  BY DEF PipeBefore, StorageTypeOK
<1>2. \/ loops' = loops
      \/ \E l, st : loops' = SetLoop(loops, l, st)
      \/ \E l \in Loops : loops' = InsertLoop(loops, l, "queued", "fixer", KeyTarget[HandoffKey(p)], "bare")
  BY PipeWritesLoops DEF PlannerFailLoop
<1>3. \A l, st : \A m \in Loops : SetLoop(loops, l, st)[m].type = loops[m].type
  BY <1>1 DEF SetLoop, LoopRow
<1>4. \A l, m \in Loops : \A st, tg, f :
        InsertLoop(loops, l, st, "fixer", tg, f)[m].type = "planner" => loops[m].type = "planner"
  BY <1>1 DEF InsertLoop
<1> QED BY <1>2, <1>3, <1>4

\* What was named soundly stays so while rows and loops keep what names them.
NamesStay ==
    /\ \A p \in Pipes : pipes[p].pc # "free" =>
         /\ PlannersOnly(loops', pipes[p].claim.key, pipes[p].claim.loop)
         /\ HasItem(queue', pipes[p].claim)
         /\ pipes[p].pc = "handoffInsert" /\ pipes[p].newLoop \in Loops
            => loops'[pipes[p].newLoop].type # "planner"
    /\ \A c \in Claimants : PassName(loops', queue', pass[c])
    /\ tick.pc = "insert" => PlannersOnly(loops', tick.key, tick.loop)
    /\ \A h \in Handlers : CallName(loops', api[h])
    /\ \A i \in Items : SameSubject(queue, queue', i)
                        => PlannersOnly(loops', queue'[i].key, queue'[i].loop)
    /\ \A l \in Loops : loops[l].type = "planner" => PlannerLoop(loops', l)
    /\ \A r \in Runs : Present(runs, r) => runs[r].loop \in Loops /\ LoopExists(loops', runs[r].loop)

LEMMA NamesAreKept ==
    ASSUME Inv, RefInv, NameInv, KeysKept(queue, queue'), LoopsKept(loops, loops')
    PROVE  NamesStay
<1>1. /\ \A k, l : RefOK(loops, k, l) /\ PlannersOnly(loops, k, l) => PlannersOnly(loops', k, l)
      /\ \A cl : cl.item \in Items /\ HasItem(queue, cl) => HasItem(queue', cl)
      /\ \A l \in Loops : PlannerLoop(loops, l) => PlannerLoop(loops', l)
  BY NamesLift
<1>2. \A p \in Pipes : pipes[p].pc # "free" =>
        /\ PlannersOnly(loops', pipes[p].claim.key, pipes[p].claim.loop)
        /\ HasItem(queue', pipes[p].claim)
        /\ pipes[p].pc = "handoffInsert" /\ pipes[p].newLoop \in Loops
           => loops'[pipes[p].newLoop].type # "planner"
  <2> SUFFICES ASSUME NEW p \in Pipes, pipes[p].pc # "free"
               PROVE  /\ PlannersOnly(loops', pipes[p].claim.key, pipes[p].claim.loop)
                      /\ HasItem(queue', pipes[p].claim)
                      /\ pipes[p].pc = "handoffInsert" /\ pipes[p].newLoop \in Loops
                         => loops'[pipes[p].newLoop].type # "planner"
    OBVIOUS
  <2>1. PipeRef(loops, pipes[p]) /\ PipeName(loops, queue, pipes[p])
    BY DEF RefInv, NameInv
  <2>2. pipes[p].claim.item \in Items
    BY InvBefore, PipeTypes DEF PItem
  <2>3. HasItem(queue', pipes[p].claim)
    BY <1>1, <2>1, <2>2 DEF PipeName
  <2>4. PlannersOnly(loops', pipes[p].claim.key, pipes[p].claim.loop)
    BY <1>1, <2>1 DEF PipeName, PipeRef
  <2> QED BY <2>1, <2>3, <2>4 DEF PipeName, PipeRef, LoopsKept
<1>3. \A c \in Claimants : PassName(loops', queue', pass[c])
  <2> SUFFICES ASSUME NEW c \in Claimants, NEW cl \in pass[c].batch
               PROVE  PlannersOnly(loops', cl.key, cl.loop) /\ HasItem(queue', cl)
    BY DEF PassName
  <2>1. /\ cl.item \in Items /\ RefOK(loops, cl.key, cl.loop)
        /\ PlannersOnly(loops, cl.key, cl.loop) /\ HasItem(queue, cl)
    BY PassTypes DEF RefInv, NameInv, PassRef, PassName, Claim
  <2> QED BY <1>1, <2>1
<1>4. tick.pc = "insert" => PlannersOnly(loops', tick.key, tick.loop)
  BY <1>1 DEF RefInv, NameInv, TickRef
<1>5. \A h \in Handlers : CallName(loops', api[h])
  BY <1>1 DEF RefInv, NameInv, CallRef, CallName
<1>6. \A i \in Items : SameSubject(queue, queue', i)
                       => PlannersOnly(loops', queue'[i].key, queue'[i].loop)
  BY <1>1 DEF RefInv, NameInv, SameSubject
<1>7. \A l \in Loops : loops[l].type = "planner" => PlannerLoop(loops', l)
  BY <1>1 DEF NameInv
<1>8. \A r \in Runs : Present(runs, r) => runs[r].loop \in Loops /\ LoopExists(loops', runs[r].loop)
  BY DEF NameInv, LoopsKept
<1> QED BY <1>2, <1>3, <1>4, <1>5, <1>6, <1>7, <1>8 DEF NamesStay

\* The loop of every run that a pipeline writes is its own.
LEMMA PipeWritesRuns ==
    ASSUME PipeBefore, NEW p \in Pipes, PipeStep(p)
    PROVE  \/ runs' = runs
           \/ /\ PLoop(p) \in Loops
              /\ \E r \in Runs, st \in {"running", "success", "failed"} :
                   /\ runs' = UpsertRun(runs, r, PLoop(p), st)
                   /\ ~Start(p) => r = pipes[p].run /\ st # "running"
<1>1. CASE Start(p)
  BY <1>1, PipeTypes DEF Start
<1>2. CASE ~Start(p) /\ runs' # runs
  <2>1. /\ \E st \in {"success", "failed"} : runs' = UpsertRun(runs, pipes[p].run, PLoop(p), st)
        /\ pipes[p].pc \in {"planFailRun", "retryRun", "runDone"}
    BY <1>2 DEF PipeStep, LoopRowStep, LoopRowRead, LoopRowWrite, PlannerStep, FlipToRunning,
       PlannerWork, PlannerFailRun, PlannerFailQueue, PlannerFailLoop, WorkerWork, RetryStep,
       MarkedForRetry, RetriedRunFailed, ReviewerStep, ReviewerWork, HandoffLoop, HandoffInsert,
       FixerStep, PauseCheck, Repair, ExitStep, RunSucceeded, QueueCompleted, LoopCompleted,
       QueueFailed, LoopFailed, storeVars, At
  <2> QED BY <1>2, <2>1, HasLoop, PipeTypes
<1> QED BY <1>1, <1>2

\* A step of a pipeline.
LEMMA PipeNames ==
    ASSUME Inv, RefInv, NameInv, NEW p \in Pipes, PipeStep(p), UNCHANGED <<pass, tick, api>>
    PROVE  NameInv'
<1>1. /\ PipeBefore /\ queue \in QueueTable /\ PItem(p) \in Items
      /\ LoopsKept(loops, loops')
  BY InvBefore, TickTypes, PipeTypes, PipeStepRefs DEF PipeRefs, Referred
<1>2. KeysKept(queue, queue')
  <2>1. HandoffInsert(p) => \E k, l, lk : queue' \in CreateOrGet(queue, k, l, lk)
    BY DEF HandoffInsert
  <2> QED BY <1>1, <2>1, PipeWritesQueue, StatementsKeepKeys
<1>3. NamesStay
  BY <1>1, <1>2, NamesAreKept
<1>4. \A l \in Loops : loops'[l].type = "planner" => PlannerLoop(loops', l)
  BY <1>1, <1>3, PipeMakesNone DEF NamesStay
<1>5. \A i \in Items : PlannersOnly(loops', queue'[i].key, queue'[i].loop)
  <2>1. CASE HandoffInsert(p)
    <3>1. /\ loops' = loops /\ pipes[p].pc = "handoffInsert"
          /\ queue' \in CreateOrGet(queue, HandoffKey(p), pipes[p].newLoop, FALSE)
      BY <2>1 DEF HandoffInsert, At
    <3>2. PlannersOnly(loops', HandoffKey(p), pipes[p].newLoop)
      BY <1>3, <3>1 DEF NamesStay, PlannersOnly
    <3>3. \A i \in Items : \/ queue'[i] = queue[i]
                           \/ queue'[i].key = HandoffKey(p) /\ queue'[i].loop = pipes[p].newLoop
      <4> DEFINE k == HandoffKey(p)
                 l == pipes[p].newLoop
                 lk == FALSE
      <4>1. queue' \in CreateOrGet(queue, k, l, lk) \cup UpsertActive(queue, k, l, lk)
        BY <3>1
      <4> HIDE DEF k, l, lk
      <4>2. \A i \in Items : queue'[i] = queue[i] \/ (queue'[i].key = k /\ queue'[i].loop = l)
        BY <1>1, <4>1, InsertedSubject
      <4> QED BY <4>2 DEF k, l
    <3> QED BY <1>3, <3>2, <3>3 DEF NamesStay, SameSubject
  <2>2. CASE ~HandoffInsert(p)
    <3>1. \A i \in Items : SameSubject(queue, queue', i)
      <4>1. CASE queue' = queue
        BY <4>1 DEF SameSubject
      <4>2. CASE \E st \in {"completed", "failed"} : queue' = SetStatus(queue, {PItem(p)}, st)
        BY <1>1, <4>2, StatusKeepsSubjects
      <4>3. CASE \E a : queue' = MarkRetry(queue, PItem(p), a)
        BY <1>1, <4>3, StatusKeepsSubjects
      <4> QED BY <2>2, <4>1, <4>2, <4>3, PipeWritesQueue
    <3> QED BY <1>3, <3>1 DEF NamesStay
  <2> QED BY <2>1, <2>2
<1>6. \A q \in Pipes : PipeName(loops', queue', pipes'[q])
  <2> SUFFICES ASSUME NEW q \in Pipes, pipes'[q].pc # "free"
               PROVE  PipeName(loops', queue', pipes'[q])
    BY DEF PipeName
  <2>1. CASE q # p
    BY <1>1, <1>3, <2>1, ClaimStays DEF NamesStay, NameInv, PipeName
  <2>2. CASE q = p
    <3>1. pipes'[p].claim = pipes[p].claim /\ pipes[p].pc # "free"
      BY <1>1, <2>2, ClaimStays DEF IdlePipe
    <3>2. KeyType[pipes[p].claim.key] = "planner" => pipes'[p].pc \in PlannerWay
      BY <1>1, <2>2, <3>1, PlannerGoes DEF NameInv, PipeName, PType
    <3>3. pipes'[p].pc = "handoffInsert" /\ pipes'[p].newLoop \in Loops
          => loops'[pipes'[p].newLoop].type # "planner"
      BY <1>1, <1>3, ClaimStays DEF NamesStay
    <3> QED BY <1>3, <2>2, <3>1, <3>2, <3>3 DEF NamesStay, PipeName
  <2> QED BY <2>1, <2>2
<1>7. \A r \in Runs : Present(runs', r) => runs'[r].loop \in Loops /\ LoopExists(loops', runs'[r].loop)
  <2>1. CASE runs' = runs
    BY <1>3, <2>1 DEF NamesStay
  <2>2. CASE runs' # runs
    <3>1. PICK s \in Runs, st \in {"running", "success", "failed"} :
            PLoop(p) \in Loops /\ runs' = UpsertRun(runs, s, PLoop(p), st)
      BY <1>1, <2>2, PipeWritesRuns
    <3>2. PipeRef(loops', pipes[p])
      BY <1>1, RefsLift DEF RefInv
    <3>3. LoopExists(loops', PLoop(p))
      BY <3>1, <3>2 DEF PipeRef, RefOK, PLoop
    <3>4. \A r \in Runs : \/ runs'[r].status = "absent" \/ runs'[r].loop = PLoop(p)
                          \/ runs'[r] = runs[r]
      BY <3>1 DEF UpsertRun
    <3> QED BY <1>3, <3>1, <3>3, <3>4 DEF NamesStay, Present
  <2> QED BY <2>1, <2>2
<1> QED BY <1>3, <1>4, <1>5, <1>6, <1>7 DEF NameInv, NamesStay

\* A pass takes claims from the queue and gives them to pipelines.
LEMMA PassNames ==
    ASSUME Inv, RefInv, NameInv, NEW c \in Claimants, PassStep(c), api' = api
    PROVE  NameInv'
<1>1. /\ queue \in QueueTable /\ pipes \in [Pipes -> PipeState] /\ pass \in [Claimants -> PassState]
      /\ pass[c] \in PassState
  BY TickTypes, PassTypes DEF Inv, TypeOK, RunnerTypeOK, SchedulerTypeOK
<1>2. loops' = loops /\ runs' = runs
  BY SMTT(30), PassStepGood DEF PassGood
<1>3. queue' = queue \/ (ClaimFresh(c) \/ ClaimLong(c))
  BY DEF PassStep, PassBegin, PassLock, FreshDone, LongDone, Dispatch, PassEnd, storeVars
<1>4. KeysKept(queue, queue')
  <2>1. queue' = queue \/ \E i \in Items : queue' = ClaimItem(queue, i)
    BY <1>3, ClaimFacts
  <2> QED BY <1>1, <2>1, StatementsKeepKeys
<1>5. NamesStay
  <2>1. LoopsKept(loops, loops')
    BY <1>2 DEF LoopsKept
  <2> QED BY <1>4, <2>1, NamesAreKept
<1>6. \A i \in Items : PlannersOnly(loops', queue'[i].key, queue'[i].loop)
  <2>1. \A i \in Items : SameSubject(queue, queue', i)
    <3>1. CASE queue' = queue
      BY <3>1 DEF SameSubject
    <3>2. CASE ClaimFresh(c) \/ ClaimLong(c)
      <4>1. PICK i \in Items : queue' = ClaimItem(queue, i)
        BY <3>2, ClaimFacts
      <4> QED BY <1>1, <4>1, StatusKeepsSubjects
    <3> QED BY <1>3, <3>1, <3>2
  <2> QED BY <1>5, <2>1 DEF NamesStay
<1>7. \A d \in Claimants : PassName(loops', queue', pass'[d])
  <2>1. CASE ClaimFresh(c) \/ ClaimLong(c)
    <3>1. PICK i \in Items : /\ queue' = ClaimItem(queue, i)
                             /\ pass' = [pass EXCEPT ![c].slots = @ - 1,
                                                     ![c].batch = @ \cup {ClaimOf(queue, i)}]
      BY <2>1, ClaimFacts
    <3>2. /\ pass'[c].batch = pass[c].batch \cup {ClaimOf(queue, i)}
          /\ \A d \in Claimants \ {c} : pass'[d] = pass[d]
      BY <1>1, <3>1 DEF PassState
    <3>3. PlannersOnly(loops', ClaimOf(queue, i).key, ClaimOf(queue, i).loop)
      BY <1>2 DEF NameInv, ClaimOf
    <3>4. HasItem(queue', ClaimOf(queue, i))
      BY <1>1, <3>1 DEF HasItem, ClaimOf, ClaimItem, QueueTable, ItemRow
    <3> QED BY <1>5, <3>2, <3>3, <3>4 DEF NamesStay, PassName
  <2>2. CASE ~(ClaimFresh(c) \/ ClaimLong(c))
    <3>1. \A d \in Claimants : pass'[d].batch \subseteq pass[d].batch
      <4>1. CASE PassBegin(c) \/ PassEnd(c)
        <5> DEFINE x == [pc |-> "lock", slots |-> Slots(queue), batch |-> {}]
        <5>1. pass' \in {pass, [pass EXCEPT ![c] = x], [pass EXCEPT ![c] = IdlePass]}
          BY <4>1 DEF PassBegin, PassEnd
        <5>2. x.batch = {} /\ IdlePass.batch = {}
          BY DEF IdlePass
        <5> QED BY <1>1, <5>1, <5>2
      <4>2. CASE PassLock(c) \/ FreshDone(c) \/ LongDone(c)
        BY <1>1, <4>2 DEF PassLock, FreshDone, LongDone, PassState
      <4>3. CASE Dispatch(c)
        <5>1. PICK cl \in pass[c].batch : pass' = [pass EXCEPT ![c].batch = pass[c].batch \ {cl}]
          BY <1>1, <4>3 DEF Dispatch
        <5> QED BY <1>1, <5>1 DEF PassState
      <4> QED BY <2>2, <4>1, <4>2, <4>3 DEF PassStep
    <3> QED BY <1>5, <3>1 DEF NamesStay, PassName
  <2> QED BY <2>1, <2>2
<1>8. \A p \in Pipes : PipeName(loops', queue', pipes'[p])
  <2>1. \A p \in Pipes : PipeName(loops', queue', pipes[p])
    BY <1>5 DEF NamesStay, NameInv, PipeName
  <2>2. CASE Dispatch(c)
    <3>1. PICK cl \in pass[c].batch :
            pipes' = pipes \/ \E p \in FreePipes :
              pipes' = [pipes EXCEPT ![p] = [IdlePipe EXCEPT !.pc = "start", !.claim = cl]]
      BY <2>2 DEF Dispatch
    <3>2. PlannersOnly(loops', cl.key, cl.loop) /\ HasItem(queue', cl)
      BY <1>5 DEF NamesStay, PassName
    <3>3. PipeName(loops', queue', [IdlePipe EXCEPT !.pc = "start", !.claim = cl])
      BY <3>2 DEF PipeName, IdlePipe, PlannerWay
    <3> QED BY <1>1, <2>1, <3>1, <3>3 DEF FreePipes
  <2>3. CASE pipes' = pipes
    BY <2>1, <2>3
  <2> QED BY <2>2, <2>3 DEF PassStep, PassBegin, PassLock, ClaimFresh, FreshDone, ClaimLong,
                            ClaimOne, LongDone, PassEnd, runnerVars
<1>9. tick'.pc = "insert" => PlannersOnly(loops', tick'.key, tick'.loop)
  <2>1. tick' = tick \/ tick'.pc = "idle"
    BY DEF PassStep, PassBegin, PassLock, ClaimFresh, FreshDone, ClaimLong, ClaimOne, LongDone,
           Dispatch, PassEnd, EndPhase, ToNextPhase, FirstPhase
  <2> QED BY SMTT(30), <1>5, <2>1 DEF NamesStay
<1> QED BY <1>2, <1>5, <1>6, <1>7, <1>8, <1>9 DEF NameInv, NamesStay

\* A row inserted or reset has the subject that is given; the others keep theirs.
LEMMA InsertNames ==
    ASSUME Inv, NamesStay, NEW k, NEW l, NEW lk,
           queue' \in CreateOrGet(queue, k, l, lk) \cup UpsertActive(queue, k, l, lk),
           PlannersOnly(loops', k, l)
    PROVE  \A i \in Items : PlannersOnly(loops', queue'[i].key, queue'[i].loop)
<1> SUFFICES ASSUME NEW i \in Items PROVE PlannersOnly(loops', queue'[i].key, queue'[i].loop)
  OBVIOUS
<1>1. queue \in QueueTable
  BY TickTypes
<1>2. queue'[i] = queue[i] \/ (queue'[i].key = k /\ queue'[i].loop = l)
  BY <1>1, InsertedSubject
<1> QED BY <1>2 DEF NamesStay, SameSubject

\* Discovery: a reviewer's never meets a planner's loop.
LEMMA DiscoveryNames ==
    ASSUME IssuesApart, Inv, RefInv, NameInv, DiscoveryStep, api' = api
    PROVE  NameInv'
<1>1. tick \in TickState /\ queue \in QueueTable /\ loops \in [Loops -> LoopRow]
  BY TickTypes
<1>2. UNCHANGED <<pipes, pass, runs>>
  BY DiscoveryStepGood DEF DiscoveryGood
<1>3. LoopsKept(loops, loops')
  BY DiscoveryStepRefs DEF Referred
<1>4. KeysKept(queue, queue')
  <2>1. queue' = queue \/ \E k, l, lk : queue' \in CreateOrGet(queue, k, l, lk)
                                                   \cup UpsertActive(queue, k, l, lk)
    BY ZenonT(30) DEF DiscoveryStep, FindIssue, FindPullRequest, CreateIssueLoop, InsertIssueItem, CreatePrLoop,
           InsertPrItem, DiscoveryEnd, storeVars
  <2> QED BY SMTT(30), <1>1, <2>1, StatementsKeepKeys
<1>5. NamesStay
  BY <1>3, <1>4, NamesAreKept
<1>6. \A i \in Items : PlannersOnly(loops', queue'[i].key, queue'[i].loop)
  <2>1. CASE queue' = queue
    BY <1>5, <2>1 DEF NamesStay, SameSubject
  <2>2. CASE InsertIssueItem \/ InsertPrItem
    <3>1. tick.pc = "insert" /\ loops' = loops
          /\ \E lk : queue' \in CreateOrGet(queue, tick.key, tick.loop, lk)
                                \cup UpsertActive(queue, tick.key, tick.loop, lk)
      BY <2>2 DEF InsertIssueItem, InsertPrItem
    <3>2. PlannersOnly(loops', tick.key, tick.loop)
      BY <1>5, <3>1 DEF NamesStay
    <3> DEFINE k == tick.key
               l == tick.loop
    <3>3. PICK lk : queue' \in CreateOrGet(queue, k, l, lk) \cup UpsertActive(queue, k, l, lk)
      BY <3>1
    <3> HIDE DEF k, l
    <3>4. PlannersOnly(loops', k, l)
      BY <3>2 DEF k, l
    <3> QED BY <1>5, <3>3, <3>4, InsertNames
  <2> QED BY <2>1, <2>2 DEF DiscoveryStep, FindIssue, FindPullRequest, CreateIssueLoop,
                            CreatePrLoop, DiscoveryEnd, storeVars
<1> DEFINE Creates(l, ty) == \E st : /\ loops' = InsertLoop(loops, l, st, ty, KeyTarget[tick.key], "bare")
                                     /\ tick' = [tick EXCEPT !.pc = "insert", !.loop = l]
<1>7. CASE \E l \in Loops, ty \in {Phase, "review", "fixer"} :
             Creates(l, ty) /\ KeyType[tick.key] = Phase /\ tick.key \in Keys
  <2>1. PICK l \in Loops, ty \in {Phase, "review", "fixer"} :
          Creates(l, ty) /\ KeyType[tick.key] = Phase /\ tick.key \in Keys
    BY <1>7
  <2>2. /\ loops'[l].type = ty /\ loops'[l].target = KeyTarget[tick.key]
        /\ \A m \in Loops \ {l} : loops'[m] = loops[m]
    <3>1. PICK st : loops' = InsertLoop(loops, l, st, ty, KeyTarget[tick.key], "bare")
      BY <2>1
    <3> QED BY <1>1, <3>1 DEF InsertLoop
  <2>3. tick'.key = tick.key /\ tick'.loop = l
    BY <1>1, <2>1 DEF TickState
  <2>4. LoopExists(loops', l)
    BY <2>3, <2>1, DiscoveryStepRefs DEF RefInv, TickRef, RefOK
  <2>5. PlannersOnly(loops', tick'.key, tick'.loop)
    BY <2>1, <2>2, <2>3 DEF PlannersOnly
  <2>6. \A m \in Loops : loops'[m].type = "planner" => PlannerLoop(loops', m)
    <3>1. loops'[l].type = "planner" => PlannerLoop(loops', l)
      BY <2>1, <2>2, <2>4 DEF PlannerLoop
    <3> QED BY <1>5, <2>2, <3>1 DEF NamesStay
  <2> QED BY <1>2, <1>5, <1>6, <2>5, <2>6 DEF NamesStay, NameInv, PipeName
<1>8. CASE loops' = loops /\ (tick'.pc = "insert" => PlannersOnly(loops', tick'.key, tick'.loop))
  BY SMTT(30), <1>2, <1>5, <1>6, <1>8 DEF NamesStay, NameInv, PipeName
<1>9. CASE CreateIssueLoop \/ CreatePrLoop
  <2>1. KeyType[tick.key] = Phase /\ tick.key \in Keys
    BY ZenonT(30), <1>9, TickTypes DEF CreateIssueLoop, CreatePrLoop, RefInv, TickRef
  <2>2. \/ \E l \in Loops, ty \in {Phase, "review", "fixer"} : Creates(l, ty)
        \/ loops' = loops /\ ItemDone
    BY <1>9 DEF CreateIssueLoop, CreatePrLoop
  <2>3. ItemDone => tick'.pc # "insert"
    BY <1>1 DEF ItemDone, TickState
  <2> QED BY <1>7, <1>8, <2>1, <2>2, <2>3
<1>10. CASE \E k \in DiscoverKeys : FindIssue(k) \/ FindPullRequest(k)
  <2>1. PICK k \in DiscoverKeys : FindIssue(k) \/ FindPullRequest(k)
    BY <1>10
  <2>2. CASE FindIssue(k)
    <3>1. loops' = loops /\ tick'.pc # "insert"
      BY <1>1, <2>2 DEF FindIssue, storeVars, TickState
    <3> QED BY <1>8, <3>1
  <2>3. CASE FindPullRequest(k)
    <3>1. /\ loops' = loops /\ KeyType[k] \in {"reviewer", "fixer"} /\ tick'.key = k /\ k \in Keys
          /\ tick'.pc = "insert" => tick'.loop \in ReusableLoops(loops, k)
      BY <1>1, <2>3 DEF FindPullRequest, storeVars, TickState
    <3>2. ASSUME NEW l \in ReusableLoops(loops, k), loops[l].type = "planner" PROVE FALSE
      <4>1. KeyType[k] = "reviewer" /\ l \in Loops /\ loops[l].target = KeyTarget[k]
        BY <3>1, <3>2 DEF ReusableLoops, ReusablePrLoops, ReusableFixerLoops
      <4>2. PlannerLoop(loops, l)
        BY <3>2, <4>1 DEF NameInv
      <4> QED BY <3>1, <4>1, <4>2 DEF PlannerLoop, IssuesApart
    <3> QED BY <1>8, <3>1, <3>2 DEF PlannersOnly
  <2> QED BY <2>1, <2>2, <2>3
<1>11. CASE InsertIssueItem \/ InsertPrItem
  <2>1. loops' = loops /\ tick'.pc # "insert"
    BY <1>1, <1>11 DEF InsertIssueItem, InsertPrItem, ItemDone, TickState
  <2> QED BY <1>8, <2>1
<1>12. CASE DiscoveryEnd
  <2>1. loops' = loops /\ tick'.pc # "insert"
    BY <1>12 DEF DiscoveryEnd, ToNextPhase, FirstPhase, storeVars
  <2> QED BY <1>8, <2>1
<1> QED BY <1>9, <1>10, <1>11, <1>12 DEF DiscoveryStep

\* A request that does not steer loops: it names no loop of a planner, and
\* creates none.
LEMMA HandlerNames ==
    ASSUME NoEnqueue, NoLoopClients, NoPlannerAdmission, Inv, RefInv, NameInv,
           NEW h \in Handlers, HandlerStep(h)
    PROVE  /\ NameInv'
           /\ \A l \in Loops : loops'[l].type = "planner" => loops'[l] = loops[l]
           /\ \A i \in Items : \/ queue'[i] = queue[i]
                               \/ queue'[i].status = "cancelled" /\ SameSubject(queue, queue', i)
                               \/ KeyType[queue'[i].key] # "planner"
<1>1. /\ api \in [Handlers -> ApiState] /\ api[h] \in ApiState /\ queue \in QueueTable
      /\ loops \in [Loops -> LoopRow] /\ CallName(loops, api[h])
  BY TickTypes, ApiTypes DEF Inv, TypeOK, ApiTypeOK, NameInv
<1>2. UNCHANGED <<pipes, pass, tick>> /\ runs' = runs
  BY HandlerStepGood DEF HandlerGood, runnerVars, schedVars
<1>3. NoPlannerEnqueue
  BY DEF NoEnqueue, NoPlannerEnqueue
<1>4. LoopsKept(loops, loops')
  BY <1>3, HandlerStepRefs DEF Referred
<1>5. /\ \/ \E k \in AdmitKeys : AdmitRead(h, k) \/ CreateLoopRead(h, k)
         \/ CreateLoop(h) \/ AdmitCreate(h) \/ Insert(h)
         \/ \E k \in Keys, l \in Loops \cup {NoLoop} : EnqueueFind(h, k, l)
         \/ StopAll(h) \/ (\E i \in Items : Dequeue(h, i))
         \/ \E k \in Keys : AcquireLock(h, k) \/ ReleaseLock(k)
  <2>1. ~PauseStep(h)
    BY <1>1 DEF NoLoopClients, CallName, PauseStep, PauseRead, PauseUpdate, PauseCancel, Idle, AtApi
  <2>2. ~ResumeStep(h)
    BY <1>1 DEF NoLoopClients, CallName, ResumeStep, ResumeRead, ResumeUpdate, ResumeCancelled,
                ResumeFailed, ResumeRunning, Idle, AtApi
  <2>3. StopStep(h) => StopAll(h)
    BY <1>1 DEF NoLoopClients, CallName, StopStep, StopUpdate, StopCancel, Idle, AtApi
  <2> QED BY <2>1, <2>2, <2>3 DEF HandlerStep, AdmitStep
<1>6. \/ queue' = queue
      \/ \E S : queue' = CancelActive(queue, S)
      \/ Insert(h)
  BY <1>5 DEF AdmitRead, CreateLoopRead, CreateLoop, AdmitCreate, EnqueueFind, StopAll, Dequeue,
              AcquireLock, ReleaseLock, storeVars
<1>7. KeysKept(queue, queue')
  <2>1. Insert(h) => \E k, l, lk : queue' \in CreateOrGet(queue, k, l, lk)
    BY DEF Insert
  <2> QED BY <1>1, <1>6, <2>1, StatementsKeepKeys
<1>8. NamesStay
  BY <1>4, <1>7, NamesAreKept
<1>9. Insert(h) =>
        /\ KeyType[api[h].key] # "planner"
        /\ \A i \in Items : \/ queue'[i] = queue[i]
                            \/ (queue'[i].key = api[h].key /\ queue'[i].loop = ALoop(h))
  <2> SUFFICES ASSUME Insert(h)
               PROVE  /\ KeyType[api[h].key] # "planner"
                      /\ \A i \in Items : \/ queue'[i] = queue[i]
                                          \/ (queue'[i].key = api[h].key /\ queue'[i].loop = ALoop(h))
    OBVIOUS
  <2>1. KeyType[api[h].key] # "planner"
    BY <1>1 DEF Insert, AtApi, CallName
  <2> DEFINE k  == api[h].key
             l  == ALoop(h)
             lk == api[h].lockable
  <2>2. queue' \in CreateOrGet(queue, k, l, lk) \cup UpsertActive(queue, k, l, lk)
    BY DEF Insert
  <2> HIDE DEF k, l, lk
  <2>3. \A i \in Items : queue'[i] = queue[i] \/ (queue'[i].key = k /\ queue'[i].loop = l)
    BY <1>1, <2>2, InsertedSubject
  <2> QED BY <2>1, <2>3 DEF k, l
<1>10. \A i \in Items : \/ queue'[i] = queue[i]
                        \/ queue'[i].status = "cancelled" /\ SameSubject(queue, queue', i)
                        \/ KeyType[queue'[i].key] # "planner"
  <2>1. CASE \E S : queue' = CancelActive(queue, S)
    BY <1>1, <2>1 DEF CancelActive, SetStatus, SameSubject, QueueTable, ItemRow
  <2> QED BY <1>6, <1>9, <2>1
<1>11. \A i \in Items : PlannersOnly(loops', queue'[i].key, queue'[i].loop)
  <2>1. CASE ~Insert(h)
    <3>1. CASE queue' = queue
      BY <1>8, <3>1 DEF NamesStay, SameSubject
    <3>2. CASE \E S : queue' = CancelActive(queue, S)
      <4>1. \A i \in Items : SameSubject(queue, queue', i)
        BY <1>1, <3>2, StatusKeepsSubjects
      <4> QED BY <1>8, <4>1 DEF NamesStay
    <3> QED BY <1>6, <2>1, <3>1, <3>2
  <2>2. CASE Insert(h)
    <3>1. PlannersOnly(loops', api[h].key, ALoop(h))
      BY <1>8, <2>2 DEF NamesStay, CallName, Insert, AtApi, ALoop
    <3> QED BY <1>8, <1>9, <2>2, <3>1 DEF NamesStay, SameSubject
  <2> QED BY <2>1, <2>2
<1>12. \/ loops' = loops
       \/ /\ api[h].pc \in {"createLoop", "create"}
          /\ \E l \in Loops : \E st, f :
               loops' = InsertLoop(loops, l, st, KeyType[api[h].key], KeyTarget[api[h].key], f)
  BY <1>5 DEF AdmitRead, CreateLoopRead, CreateLoop, AdmitCreate, Insert, EnqueueFind, StopAll,
              Dequeue, AcquireLock, ReleaseLock, storeVars, AtApi
<1>13. \A l \in Loops : loops'[l].type = "planner" => loops'[l] = loops[l]
  BY <1>1, <1>12 DEF CallName, InsertLoop
<1>14. \A l \in Loops : loops'[l].type = "planner" => PlannerLoop(loops', l)
  BY <1>8, <1>13 DEF NamesStay
<1>15. \A g \in Handlers : CallName(loops', api'[g])
  <2>1. \A g \in Handlers : CallName(loops', api[g])
    BY <1>8 DEF NamesStay
  <2>2. CASE api' = api \/ Reply(h)
    <3>1. CallName(loops', IdleApi)
      BY DEF CallName, IdleApi
    <3> QED BY <1>1, <2>1, <2>2, <3>1 DEF Reply
  <2>3. CASE AdmitCreate(h) /\ ~Reply(h)
    <3>1. PICK l \in Loops : /\ ApiCall(h, "insert", l)
                             /\ loops' = InsertLoop(loops, l, "queued", KeyType[api[h].key],
                                                    KeyTarget[api[h].key], "full")
      BY <2>3 DEF AdmitCreate
    <3>2. loops'[l].type = KeyType[api[h].key]
      BY <1>1, <3>1 DEF InsertLoop
    <3>3. /\ api'[h].key = api[h].key /\ api'[h].loop = l /\ api'[h].pc = "insert"
          /\ \A g \in Handlers \ {h} : api'[g] = api[g]
      BY <1>1, <3>1 DEF ApiCall, ApiState
    <3>4. KeyType[api[h].key] # "planner"
      BY <1>1, <2>3 DEF CallName, AdmitCreate, AtApi
    <3> QED BY <2>1, <3>2, <3>3, <3>4 DEF CallName, PlannersOnly
  <2>4. CASE \E k \in AdmitKeys : AdmitRead(h, k)
    <3>1. PICK k \in AdmitKeys : AdmitRead(h, k)
      BY <2>4
    <3>2. loops' = loops /\ KeyType[k] # "planner"
      BY <3>1 DEF AdmitRead, storeVars, NoPlannerAdmission
    <3>3. \A l \in AdmitReusable(k) : loops[l].type = KeyType[k]
      BY DEF AdmitReusable
    <3>4. CallName(loops, api'[h])
      BY <1>1, <3>1, <3>2, <3>3 DEF AdmitRead, CallName, PlannersOnly, NoLoop, Loops
    <3>5. \A g \in Handlers \ {h} : api'[g] = api[g]
      BY <1>1, <3>1 DEF AdmitRead
    <3> QED BY <2>1, <3>2, <3>4, <3>5
  <2>5. CASE \E k \in AdmitKeys : CreateLoopRead(h, k)
    <3>1. PICK k \in AdmitKeys : CreateLoopRead(h, k)
      BY <2>5
    <3>2. /\ api'[h].pc = "createLoop" /\ api'[h].key = k
          /\ \A g \in Handlers \ {h} : api'[g] = api[g]
      BY <1>1, <3>1 DEF CreateLoopRead, ApiState
    <3> QED BY <2>1, <3>1, <3>2 DEF CallName, NoPlannerAdmission
  <2>6. CASE \E k \in Keys, l \in Loops \cup {NoLoop} : EnqueueFind(h, k, l)
    <3>1. PICK k \in Keys, l \in Loops \cup {NoLoop} : EnqueueFind(h, k, l)
      BY <2>6
    <3>2. /\ api' = [api EXCEPT ![h] = [pc |-> "insert", key |-> k, loop |-> l, lockable |-> FALSE]]
          /\ l = NoLoop /\ KeyType[k] = "reviewer"
      BY <3>1, ApiAssumption DEF EnqueueFind, NoEnqueue
    <3>3. CallName(loops', api'[h])
      BY <1>1, <3>2 DEF CallName, PlannersOnly, NoLoop, Loops
    <3> QED BY <1>1, <2>1, <3>2, <3>3
  <2> QED BY <1>5, <2>2, <2>3, <2>4, <2>5, <2>6
       DEF CreateLoop, Insert, StopAll, Dequeue, AcquireLock, ReleaseLock
<1> QED BY <1>2, <1>8, <1>10, <1>11, <1>13, <1>14, <1>15 DEF NamesStay, NameInv, PipeName

\* Every step of the daemon.
LEMMA NextNames ==
    ASSUME NoEnqueue, NoLoopClients, NoPlannerAdmission, IssuesApart,
           Inv, RefInv, NameInv, [Next]_vars
    PROVE  NameInv'
<1>1. CASE UNCHANGED vars
  BY <1>1 DEF vars, storeVars, runnerVars, schedVars, NameInv
<1>2. CASE \E p \in Pipes : RunPipe(p)
  BY <1>2, PipeNames DEF RunPipe, schedVars
<1>3. CASE RunTick \/ RunPump
  BY <1>3, PassNames, DiscoveryNames, RunnerAssumption DEF RunTick, RunPump, TickStep, PumpStep
<1>4. CASE \E h \in Handlers : RunApi(h)
  BY <1>4, HandlerNames DEF RunApi
<1>5. CASE Crash
  <2>1. \A x : PassName(loops, queue, IdlePass) /\ PipeName(loops, queue, IdlePipe)
               /\ CallName(loops, IdleApi)
    BY DEF PassName, PipeName, CallName, IdlePass, IdlePipe, IdleApi
  <2>2. UNCHANGED <<queue, loops, runs>> /\ tick'.pc # "insert"
    BY <1>5 DEF Crash, storeVars, FirstPhase
  <2>3. /\ \A p \in Pipes : pipes'[p] = IdlePipe
        /\ \A c \in Claimants : pass'[c] = IdlePass
        /\ \A h \in Handlers : api'[h] = IdleApi
    BY <1>5 DEF Crash
  <2> QED BY <2>1, <2>2, <2>3 DEF NameInv
<1>6. CASE Restart
  <2>1. UNCHANGED <<queue, loops, pipes, pass, tick, api>>
    BY <1>6 DEF Restart, runnerVars, schedVars
  <2>2. \A r \in Runs : runs'[r].loop = runs[r].loop /\ (Present(runs', r) => Present(runs, r))
    BY <1>6, InvBefore, RunTypes DEF Restart, Present, RunTable, RunRow
  <2> QED BY <2>1, <2>2 DEF NameInv
<1> QED BY <1>1, <1>2, <1>3, <1>4, <1>5, <1>6 DEF Next

-----------------------------------------------------------------------------
(* The steps that leave a loop alone *)

Stays(l) ==
    /\ Coming' = l => Coming = l
    /\ Waiting(l)' \subseteq Waiting(l)
    /\ \A c \in Claimants : Claimed(c, l)' \subseteq Claimed(c, l)
    /\ Working(l)' = Working(l) /\ \A p \in Working(l) : pipes'[p] = pipes[p]
    /\ RunsOf(runs', l) \subseteq RunsOf(runs, l) /\ \A r \in RunsOf(runs', l) : runs'[r] = runs[r]
    /\ loops'[l].status = loops[l].status

LEMMA StaysOrderly ==
    ASSUME NEW l, Orderly(l), Stays(l)
    PROVE  Orderly(l)'
<1>1. IsClaimed(l)' => IsClaimed(l)
  BY DEF Stays, IsClaimed
<1>2. OneToken(l)'
  BY <1>1 DEF Orderly, OneToken, Stays
<1>3. RunAsFar(l)'
  <2>1. (Coming = l \/ Waiting(l) # {} \/ IsClaimed(l) => RunsOf(runs, l) = {})'
    BY <1>1 DEF Orderly, RunAsFar, Stays
  <2>2. ASSUME NEW p \in Working(l)', NEW r \in RunsOf(runs', l)
        PROVE  ~At(p, "start")' /\ pipes'[p].run = r /\ runs'[r].status = StatusAt(pipes'[p].pc)
    BY <2>2 DEF Orderly, RunAsFar, Stays, At
  <2>3. ASSUME Working(l)' = {}, NEW r \in RunsOf(runs', l), runs'[r].status \in DOMAIN OutcomeOf
        PROVE  loops'[l].status = OutcomeOf[runs'[r].status]
    BY <2>3 DEF Orderly, RunAsFar, Stays
  <2> QED BY <2>1, <2>2, <2>3 DEF RunAsFar
<1> QED BY <1>2, <1>3 DEF Orderly

\* An item stays where it was, ends, or is about another loop.
ItemsLeave(l) == \A i \in Items : \/ queue'[i] = queue[i]
                                  \/ queue'[i].status # "queued"
                                  \/ queue'[i].loop # l

LEMMA FewerWait ==
    ASSUME NEW l, ItemsLeave(l)
    PROVE  Waiting(l)' \subseteq Waiting(l)
BY DEF ItemsLeave, Waiting, ItemsOf

\* A pipeline that is not on the loop.
LEMMA OtherPipeStays ==
    ASSUME Inv, RunInv, NameInv, NEW p \in Pipes, PipeStep(p), UNCHANGED <<pass, tick>>,
           NEW l \in Loops, loops[l].type = "planner", p \notin Working(l)
    PROVE  Stays(l)
<1>1. /\ PipeBefore /\ queue \in QueueTable /\ PItem(p) \in Items /\ loops \in [Loops -> LoopRow]
      /\ LoopExists(loops, l) /\ PipeName(loops, queue, pipes[p]) /\ loops[l].type # "fixer"
  BY InvBefore, TickTypes, PipeTypes DEF NameInv, PlannerLoop
<1>2. pipes[p].pc # "free" /\ PLoop(p) # l
  <2>1. pipes[p].pc # "free"
    BY DEF PipeStep, Start, LoopRowStep, LoopRowRead, LoopRowWrite, SavesLoopRow, AfterSave,
       PlannerStep, FlipToRunning, PlannerWork, PlannerFailRun, PlannerFailQueue, PlannerFailLoop,
       WorkerWork, RetryStep, MarkedForRetry, RetriedRunFailed, ReviewerStep, ReviewerWork,
       HandoffLoop, HandoffInsert, FixerStep, PauseCheck, Repair, ExitStep, RunSucceeded,
       QueueCompleted, LoopCompleted, QueueFailed, LoopFailed, At
  <2> QED BY <2>1 DEF Working, At
<1>3. Working(l)' = Working(l) /\ \A q \in Working(l) : pipes'[q] = pipes[q]
  <2>1. /\ \A q \in Pipes \ {p} : pipes'[q] = pipes[q]
        /\ pipes'[p].pc = "free" \/ pipes'[p].claim = pipes[p].claim
    BY <1>1, ClaimStays DEF IdlePipe
  <2> QED BY <1>2, <2>1 DEF Working, At, PLoop
<1>4. ItemsLeave(l)
  <2>1. CASE queue' = queue
    BY <2>1 DEF ItemsLeave
  <2>2. CASE \E st \in {"completed", "failed"} : queue' = SetStatus(queue, {PItem(p)}, st)
    BY <1>1, <2>2 DEF ItemsLeave, SetStatus, QueueTable, ItemRow
  <2>3. CASE At(p, "retry") /\ \E a : queue' = MarkRetry(queue, PItem(p), a)
    <3>1. KeyType[pipes[p].claim.key] # "planner"
      BY <1>1, <2>3 DEF PipeName, PlannerWay, At
    <3>2. queue[PItem(p)].loop # l
      BY <1>1, <1>2, <3>1 DEF PipeName, HasItem, NameInv, PlannersOnly, PItem
    <3> QED BY <1>1, <2>3, <3>2 DEF ItemsLeave, MarkRetry, QueueTable, ItemRow
  <2>4. CASE HandoffInsert(p)
    <3> DEFINE k == HandoffKey(p)
               m == pipes[p].newLoop
               lk == FALSE
    <3>1. queue' \in CreateOrGet(queue, k, m, lk) \cup UpsertActive(queue, k, m, lk)
      BY <2>4 DEF HandoffInsert
    <3>2. m # l
      BY <1>1, <2>4 DEF HandoffInsert, At, PipeName
    <3> HIDE DEF k, m, lk
    <3>3. \A i \in Items : queue'[i] = queue[i] \/ queue'[i].loop = m
      BY <1>1, <3>1, InsertedSubject
    <3> QED BY <3>2, <3>3 DEF ItemsLeave
  <2> QED BY <2>1, <2>2, <2>3, <2>4, PipeWritesQueue
<1>5. RunsOf(runs', l) \subseteq RunsOf(runs, l) /\ \A r \in RunsOf(runs', l) : runs'[r] = runs[r]
  <2>1. CASE runs' = runs
    BY <2>1
  <2>2. CASE runs' # runs
    <3>1. PICK r \in Runs, st \in {"running", "success", "failed"} : runs' = UpsertRun(runs, r, PLoop(p), st)
      BY <1>1, <2>2, PipeWritesRuns
    <3>2. ASSUME NEW x \in RunsOf(runs', l) PROVE x \in RunsOf(runs, l) /\ runs'[x] = runs[x]
      BY <1>2, <3>1, <3>2 DEF UpsertRun, RunsOf
    <3> QED BY <3>2
  <2> QED BY <2>1, <2>2
<1>6. loops'[l].status = loops[l].status
  <2>1. \/ loops' = loops
        \/ \E st : loops' = SetLoop(loops, PLoop(p), st)
        \/ \E m \in Loops : /\ NextLoop(loops, m)
                            /\ loops' = InsertLoop(loops, m, "queued", "fixer", KeyTarget[HandoffKey(p)], "bare")
    BY PipeWritesLoops DEF PlannerFailLoop
  <2> QED BY <1>1, <1>2, <2>1 DEF SetLoop, InsertLoop, NextLoop, LoopRow
<1>7. Coming' = l => Coming = l
  BY DEF Coming
<1>8. \A c \in Claimants : Claimed(c, l)' \subseteq Claimed(c, l)
  BY DEF Claimed
<1> QED BY <1>3, <1>4, <1>5, <1>6, <1>7, <1>8, FewerWait DEF Stays

-----------------------------------------------------------------------------
(* The steps of the pipeline of a loop *)

\* The pipeline has the token alone, and keeps it until it leaves.
OnlyWorks(p, l) == /\ Coming # l /\ Waiting(l) = {} /\ ~IsClaimed(l) /\ Working(l) \subseteq {p}

LEMMA TokenWithPipe ==
    ASSUME NEW l, OneToken(l), NEW p \in Working(l)
    PROVE  OnlyWorks(p, l)
BY DEF OneToken, OnlyWorks

LEMMA TokenOfPipe ==
    ASSUME NEW l, NEW p, OnlyWorks(p, l)'
    PROVE  /\ OneToken(l)'
           /\ (Coming = l \/ Waiting(l) # {} \/ IsClaimed(l) => RunsOf(runs, l) = {})'
<1>1. \A c \in Claimants : Claimed(c, l)' = {}
  BY DEF OnlyWorks, IsClaimed
<1> QED BY <1>1 DEF OneToken, OnlyWorks, IsClaimed

LEMMA OwnPipeStays ==
    ASSUME Inv, RunInv, NameInv, NEW p \in Pipes, PipeStep(p), UNCHANGED <<pass, tick>>,
           NEW l \in Loops, loops[l].type = "planner", p \in Working(l), Orderly(l)
    PROVE  Orderly(l)'
<1>1. /\ PipeBefore /\ queue \in QueueTable /\ PItem(p) \in Items /\ loops \in [Loops -> LoopRow]
      /\ pipes \in [Pipes -> PipeState] /\ PipeName(loops, queue, pipes[p]) /\ runs \in RunTable
      /\ pipes[p].run \in Runs
  BY InvBefore, TickTypes, PipeTypes, RunTypes DEF NameInv, PipeBefore, RunnerTypeOK
<1>2. pipes[p].pc # "free" /\ PLoop(p) = l
  BY DEF Working, At
<1>3. PType(p) = "planner" /\ pipes[p].pc \in PlannerWay
  BY <1>1, <1>2 DEF PipeName, PlannersOnly, PType, PLoop
<1>4. \/ Start(p) \/ LoopRowStep(p) \/ PlannerStep(p)
      \/ RunSucceeded(p) \/ QueueCompleted(p) \/ LoopCompleted(p)
  BY <1>3, PlannerMoves
<1>5. OnlyWorks(p, l)
  BY TokenWithPipe DEF Orderly
<1>6. \A q \in Pipes \ {p} : pipes'[q] = pipes[q]
  BY <1>1, ClaimStays
<1>7. OnlyWorks(p, l)'
  <2>1. \/ queue' = queue
        \/ \E st \in {"completed", "failed"} : queue' = SetStatus(queue, {PItem(p)}, st)
    BY <1>4 DEF Start, LoopRowStep, LoopRowRead, LoopRowWrite, PlannerStep, FlipToRunning,
       PlannerWork, PlannerFailRun, PlannerFailQueue, PlannerFailLoop, RunSucceeded, QueueCompleted,
       LoopCompleted, storeVars
  <2>2. ItemsLeave(l)
    BY <1>1, <2>1 DEF ItemsLeave, SetStatus, QueueTable, ItemRow
  <2>3. Waiting(l)' = {}
    BY <1>5, <2>2, FewerWait DEF OnlyWorks
  <2>4. Working(l)' \subseteq {p}
    BY <1>5, <1>6 DEF OnlyWorks, Working, At, PLoop
  <2>5. Coming' # l /\ ~IsClaimed(l)'
    BY <1>5 DEF OnlyWorks, Coming, IsClaimed, Claimed
  <2> QED BY <2>3, <2>4, <2>5 DEF OnlyWorks
<1>8. \A r \in RunsOf(runs, l) : /\ ~At(p, "start") /\ pipes[p].run = r
                                 /\ runs[r].status = StatusAt(pipes[p].pc)
  BY DEF Orderly, RunAsFar
\* How far the pipeline is, or what it has left behind.
<1> DEFINE AsFar == \A r \in RunsOf(runs', l) :
                      /\ pipes'[p].pc # "start" /\ pipes'[p].run = r
                      /\ runs'[r].status = StatusAt(pipes'[p].pc)
           Left  == \A r \in RunsOf(runs', l) : runs'[r].status \in DOMAIN OutcomeOf
                                                => loops'[l].status = OutcomeOf[runs'[r].status]
<1>9. (pipes'[p].pc # "free" => AsFar) /\ (pipes'[p].pc = "free" => Left)
  <2>1. Exit(p) => pipes'[p].pc = "free"
    BY <1>1 DEF Exit, IdlePipe
  <2>2. \A pc : Goto(p, pc) => pipes'[p].pc = pc /\ pipes'[p].run = pipes[p].run
    BY <1>1 DEF Goto, PipeState
  <2>3. RunsOf(runs', l) = {} => AsFar /\ Left
    OBVIOUS
  <2>4. ASSUME pipes[p].pc # "start", pipes'[p].pc \notin {"start", "free"}, runs' = runs,
               StatusAt(pipes'[p].pc) = StatusAt(pipes[p].pc), pipes'[p].run = pipes[p].run
        PROVE  (pipes'[p].pc # "free" => AsFar) /\ (pipes'[p].pc = "free" => Left)
    BY <1>8, <2>4
  <2>5. ASSUME NEW st \in {"success", "failed"}, NEW pc, Goto(p, pc), pc # "free", pc # "start",
               StatusAt(pc) = st, pipes[p].pc # "start",
               runs' = UpsertRun(runs, pipes[p].run, PLoop(p), st)
        PROVE  (pipes'[p].pc # "free" => AsFar) /\ (pipes'[p].pc = "free" => Left)
    <3>1. pipes'[p].pc = pc /\ pipes'[p].run = pipes[p].run
      BY <2>2, <2>5
    <3>2. ASSUME NEW r \in RunsOf(runs', l) PROVE r = pipes[p].run /\ runs'[r].status = st
      <4>1. r = pipes[p].run \/ r \in RunsOf(runs, l)
        BY <2>5, <3>2 DEF UpsertRun, RunsOf
      <4>2. r = pipes[p].run
        BY <1>8, <4>1
      <4> QED BY <1>1, <2>5, <4>2 DEF UpsertRun
    <3> QED BY <2>5, <3>1, <3>2
  <2>6. CASE Start(p)
    <3>1. RunsOf(runs, l) = {} /\ pipes[p].pc = "start"
      BY <1>8, <2>6 DEF Start, At
    <3>2. CASE runs' = runs
      BY <2>3, <3>1, <3>2
    <3>3. CASE \E r \in Runs : runs' = UpsertRun(runs, r, PLoop(p), "running") /\ Begin(p, r)
      <4>1. PICK r \in Runs : runs' = UpsertRun(runs, r, PLoop(p), "running") /\ Begin(p, r)
        BY <3>3
      <4>2. pipes' = [pipes EXCEPT ![p].run = r, ![p].pc = "title"]
        <5>1. FirstStep[PType(p)] = {"title"}
          BY <1>3 DEF FirstStep
        <5> QED BY <1>3, <4>1, <5>1 DEF Begin
      <4>3. pipes'[p].pc = "title" /\ pipes'[p].run = r
        BY <1>1, <4>2 DEF PipeState
      <4>4. \A x \in RunsOf(runs', l) : x = r /\ runs'[x].status = "running"
        <5>1. \A x \in Runs : x # r => runs'[x].status = "absent" \/ runs'[x] = runs[x]
          BY <4>1 DEF UpsertRun
        <5>2. runs'[r].status = "running"
          BY <4>1 DEF UpsertRun
        <5> QED BY <3>1, <5>1, <5>2 DEF RunsOf
      <4> QED BY <4>3, <4>4 DEF StatusAt
    <3> QED BY <2>6, <3>2, <3>3 DEF Start
  <2>7. CASE LoopRowStep(p)
    <3>1. /\ runs' = runs /\ pipes[p].pc \in DOMAIN SavesLoopRow \cup DOMAIN AfterSave
          /\ pipes'[p].run = pipes[p].run
          /\ pipes'[p].pc \in {"titleWrite", "prepareWrite", "openPrWrite", "flip", "work", "runDone"}
      BY <1>1, <2>7 DEF LoopRowStep, LoopRowRead, LoopRowWrite, SavesLoopRow, AfterSave, storeVars,
                        PipeState
    <3> QED BY <2>4, <3>1 DEF SavesLoopRow, AfterSave, StatusAt
  <2>8. CASE FlipToRunning(p) \/ PlannerWork(p)
    <3>1. /\ runs' = runs /\ pipes[p].pc \in {"flip", "work"}
          /\ \E pc \in {"work", "openPr", "runDone", "planFailRun"} : Goto(p, pc)
      BY <2>8 DEF FlipToRunning, PlannerWork, At, storeVars
    <3> QED BY <2>2, <2>4, <3>1 DEF StatusAt
  <2>9. CASE PlannerFailRun(p) \/ RunSucceeded(p)
    <3>1. pipes[p].pc \in {"planFailRun", "runDone"}
      BY <2>9 DEF PlannerFailRun, RunSucceeded, At
    <3>2. CASE runs[pipes[p].run].status = "absent"
      <4>1. runs' = runs
        BY <2>9, <3>2 DEF PlannerFailRun, RunSucceeded
      <4>2. RunsOf(runs, l) = {}
        BY <1>8, <3>2 DEF RunsOf
      <4> QED BY <2>3, <4>1, <4>2
    <3>3. CASE runs[pipes[p].run].status # "absent"
      <4>1. \/ /\ Goto(p, "planFailQueue")
               /\ runs' = UpsertRun(runs, pipes[p].run, PLoop(p), "failed")
            \/ /\ Goto(p, "queueDone")
               /\ runs' = UpsertRun(runs, pipes[p].run, PLoop(p), "success")
        BY <2>9, <3>3 DEF PlannerFailRun, RunSucceeded
      <4> QED BY <2>5, <3>1, <4>1 DEF StatusAt
    <3> QED BY <3>2, <3>3
  <2>10. CASE PlannerFailQueue(p) \/ QueueCompleted(p)
    <3>1. /\ runs' = runs
          /\ \/ pipes[p].pc = "planFailQueue" /\ Goto(p, "planFailLoop")
             \/ pipes[p].pc = "queueDone" /\ Goto(p, "loopDone")
      BY <2>10 DEF PlannerFailQueue, QueueCompleted, At
    <3> QED BY <2>2, <2>4, <3>1 DEF StatusAt
  <2>11. CASE PlannerFailLoop(p) \/ LoopCompleted(p)
    <3>1. /\ runs' = runs /\ pipes'[p].pc = "free"
          /\ \/ pipes[p].pc = "planFailLoop" /\ loops' = SetLoop(loops, l, "paused")
             \/ pipes[p].pc = "loopDone" /\ loops' = SetLoop(loops, l, "completed")
      BY <1>2, <2>1, <2>11 DEF PlannerFailLoop, LoopCompleted, At
    <3>2. \/ pipes[p].pc = "planFailLoop" /\ loops'[l].status = "paused"
          \/ pipes[p].pc = "loopDone" /\ loops'[l].status = "completed"
      BY <1>1, <3>1 DEF SetLoop, LoopRow
    <3> QED BY <1>8, <3>1, <3>2 DEF StatusAt, OutcomeOf
  <2> QED BY <1>4, <2>6, <2>7, <2>8, <2>9, <2>10, <2>11 DEF PlannerStep
<1> QED
  <2>1. ASSUME NEW q \in Working(l)', NEW r \in RunsOf(runs', l)
        PROVE  ~At(q, "start")' /\ pipes'[q].run = r /\ runs'[r].status = StatusAt(pipes'[q].pc)
    <3>1. q = p /\ pipes'[p].pc # "free"
      BY <1>7, <2>1 DEF OnlyWorks, Working, At
    <3> QED BY <1>9, <3>1 DEF At
  <2>2. ASSUME Working(l)' = {}, NEW r \in RunsOf(runs', l), runs'[r].status \in DOMAIN OutcomeOf
        PROVE  loops'[l].status = OutcomeOf[runs'[r].status]
    <3>1. pipes'[p].pc = "free"
      <4>1. pipes'[p].pc = "free" \/ pipes'[p].claim = pipes[p].claim
        BY <1>1, ClaimStays DEF IdlePipe
      <4> QED BY <1>2, <2>2, <4>1 DEF Working, At, PLoop
    <3> QED BY <1>9, <2>2, <3>1
  <2>3. RunAsFar(l)'
    BY <1>7, <2>1, <2>2, TokenOfPipe DEF RunAsFar
  <2> QED BY <1>7, <2>3, TokenOfPipe DEF Orderly

-----------------------------------------------------------------------------
(* The steps that move its item on *)

\* A pass claims the item, or hands the claim to a pipeline.
LEMMA PassStays ==
    ASSUME Inv, RunInv, RefInv, NameInv, NEW c \in Claimants, PassStep(c),
           NEW l \in Loops, loops[l].type = "planner", Orderly(l)
    PROVE  Orderly(l)'
<1>1. /\ queue \in QueueTable /\ pipes \in [Pipes -> PipeState] /\ pass \in [Claimants -> PassState]
      /\ pass[c] \in PassState
  BY TickTypes, PassTypes DEF Inv, TypeOK, RunnerTypeOK, SchedulerTypeOK
<1>2. loops' = loops /\ runs' = runs
  BY PassStepGood DEF PassGood
<1>3. Coming' = l => Coming = l
  <2>1. tick' = tick \/ tick'.pc = "idle"
    BY DEF PassStep, PassBegin, PassLock, ClaimFresh, FreshDone, ClaimLong, ClaimOne, LongDone,
           Dispatch, PassEnd, EndPhase, ToNextPhase, FirstPhase
  <2> QED BY SMTT(30), <2>1 DEF Coming, NoLoop, Loops
<1>4. CASE ClaimFresh(c) \/ ClaimLong(c)
  <2>1. PICK i \in Items : /\ queue[i].status = "queued" /\ queue' = ClaimItem(queue, i)
                           /\ pass' = [pass EXCEPT ![c].slots = @ - 1,
                                                   ![c].batch = @ \cup {ClaimOf(queue, i)}]
                           /\ UNCHANGED <<pipes, tick>>
    BY <1>4, ClaimFacts
  <2>2. /\ pass'[c].batch = pass[c].batch \cup {ClaimOf(queue, i)}
        /\ \A d \in Claimants \ {c} : pass'[d] = pass[d]
    BY <1>1, <2>1 DEF PassState
  <2>3. queue'[i].status = "running" /\ \A j \in Items \ {i} : queue'[j] = queue[j]
    BY <1>1, <2>1 DEF ClaimItem, QueueTable, ItemRow
  <2>4. Working(l)' = Working(l) /\ \A p \in Working(l) : pipes'[p] = pipes[p]
    BY <2>1 DEF Working, At, PLoop
  <2>5. Waiting(l)' \subseteq Waiting(l) \ {i}
    BY <2>3 DEF Waiting, ItemsOf
  <2>6. CASE queue[i].loop # l
    <3>1. \A d \in Claimants : Claimed(d, l)' \subseteq Claimed(d, l)
      BY <2>2, <2>6 DEF Claimed, ClaimOf
    <3>2. Stays(l)
      BY <1>2, <1>3, <2>4, <2>5, <3>1 DEF Stays
    <3> QED BY <3>2, StaysOrderly
  <2>7. CASE queue[i].loop = l
    <3>1. i \in Waiting(l)
      BY <2>1, <2>7 DEF Waiting, ItemsOf
    <3>2. /\ Coming # l /\ ~IsClaimed(l) /\ Working(l) = {} /\ RunsOf(runs, l) = {}
          /\ \A j \in Waiting(l) : j = i
      BY <3>1 DEF Orderly, OneToken, RunAsFar
    <3>3. Coming' # l /\ Waiting(l)' = {} /\ Working(l)' = {} /\ RunsOf(runs', l) = {}
      BY <1>2, <1>3, <2>4, <2>5, <3>2
    <3>4. \A d \in Claimants : \A x \in Claimed(d, l)' : d = c /\ x = ClaimOf(queue, i)
      BY <2>2, <3>2 DEF Claimed, IsClaimed
    <3> QED BY <3>3, <3>4 DEF Orderly, OneToken, RunAsFar
  <2> QED BY <2>6, <2>7
<1>5. CASE ~(ClaimFresh(c) \/ ClaimLong(c))
  <2>1. queue' = queue
    BY <1>5 DEF PassStep, PassBegin, PassLock, FreshDone, LongDone, Dispatch, PassEnd, storeVars
  <2>2. Waiting(l)' = Waiting(l)
    BY <2>1 DEF Waiting
  <2>3. CASE Dispatch(c)
    <3>1. PICK cl \in pass[c].batch :
            /\ pass' = [pass EXCEPT ![c].batch = @ \ {cl}]
            /\ pipes' = pipes \/ \E p \in FreePipes :
                 pipes' = [pipes EXCEPT ![p] = [IdlePipe EXCEPT !.pc = "start", !.claim = cl]]
      BY <2>3 DEF Dispatch
    <3>2. pass'[c].batch = pass[c].batch \ {cl} /\ \A d \in Claimants \ {c} : pass'[d] = pass[d]
      BY <1>1, <3>1 DEF PassState
    <3>3. \A d \in Claimants : Claimed(d, l)' \subseteq Claimed(d, l)
      BY <3>2 DEF Claimed
    <3>4. CASE pipes' = pipes \/ cl.loop # l
      <4>1. Working(l)' = Working(l) /\ \A p \in Working(l) : pipes'[p] = pipes[p]
        <5>1. CASE pipes' = pipes
          BY <5>1 DEF Working, At, PLoop
        <5>2. CASE cl.loop # l /\ pipes' # pipes
          <6>1. PICK p \in FreePipes :
                  pipes' = [pipes EXCEPT ![p] = [IdlePipe EXCEPT !.pc = "start", !.claim = cl]]
            BY <3>1, <5>2
          <6>2. pipes'[p].claim = cl /\ \A q \in Pipes \ {p} : pipes'[q] = pipes[q]
            BY <1>1, <6>1 DEF FreePipes, IdlePipe
          <6>3. p \notin Working(l) /\ p \notin Working(l)'
            BY <5>2, <6>1, <6>2 DEF FreePipes, Working, At, PLoop
          <6> QED BY <6>2, <6>3 DEF Working, At, PLoop
        <5> QED BY <3>4, <5>1, <5>2
      <4>2. Stays(l)
        BY <1>2, <1>3, <2>2, <3>3, <4>1 DEF Stays
      <4> QED BY <4>2, StaysOrderly
    <3>5. CASE pipes' # pipes /\ cl.loop = l
      <4>1. PICK p \in FreePipes :
              pipes' = [pipes EXCEPT ![p] = [IdlePipe EXCEPT !.pc = "start", !.claim = cl]]
        BY <3>1, <3>5
      <4>2. cl \in Claimed(c, l) /\ IsClaimed(l)
        BY <3>5 DEF Claimed, IsClaimed
      <4>3. /\ Coming # l /\ Waiting(l) = {} /\ Working(l) = {} /\ RunsOf(runs, l) = {}
            /\ \A d \in Claimants : \A x \in Claimed(d, l) : d = c /\ x = cl
        BY <4>2 DEF Orderly, OneToken, RunAsFar
      <4>4. ~IsClaimed(l)'
        BY <3>2, <3>3, <4>3 DEF IsClaimed, Claimed
      <4>5. Working(l)' \subseteq {p}
        <5>1. \A q \in Pipes \ {p} : pipes'[q] = pipes[q]
          BY <1>1, <4>1 DEF FreePipes
        <5> QED BY <4>3, <5>1 DEF Working, At, PLoop
      <4>6. OnlyWorks(p, l)'
        BY <1>3, <2>2, <4>3, <4>4, <4>5 DEF OnlyWorks
      <4>7. RunsOf(runs', l) = {}
        BY <1>2, <4>3
      <4>8. OneToken(l)'
        BY <4>6, TokenOfPipe
      <4> QED BY <4>7, <4>8 DEF Orderly, RunAsFar
    <3> QED BY <3>4, <3>5
  <2>4. CASE ~Dispatch(c)
    <3>1. pipes' = pipes
      BY <1>5, <2>4 DEF PassStep, PassBegin, PassLock, FreshDone, LongDone, PassEnd, runnerVars
    <3>2. \A d \in Claimants : pass'[d].batch \subseteq pass[d].batch
      <4>1. CASE PassBegin(c) \/ PassEnd(c)
        <5> DEFINE x == [pc |-> "lock", slots |-> Slots(queue), batch |-> {}]
        <5>1. pass' \in {pass, [pass EXCEPT ![c] = x], [pass EXCEPT ![c] = IdlePass]}
          BY <4>1 DEF PassBegin, PassEnd
        <5>2. x.batch = {} /\ IdlePass.batch = {}
          BY DEF IdlePass
        <5> QED BY <1>1, <5>1, <5>2
      <4>2. CASE PassLock(c) \/ FreshDone(c) \/ LongDone(c)
        BY <1>1, <4>2 DEF PassLock, FreshDone, LongDone, PassState
      <4> QED BY <1>5, <2>4, <4>1, <4>2 DEF PassStep
    <3>3. \A d \in Claimants : Claimed(d, l)' \subseteq Claimed(d, l)
      BY <3>2 DEF Claimed
    <3>4. Working(l)' = Working(l) /\ \A p \in Working(l) : pipes'[p] = pipes[p]
      BY <3>1 DEF Working, At, PLoop
    <3>5. Stays(l)
      BY <1>2, <1>3, <2>2, <3>3, <3>4 DEF Stays
    <3> QED BY <3>5, StaysOrderly
  <2> QED BY SMTT(30), <2>3, <2>4
<1> QED BY <1>4, <1>5

\* A request that does not steer loops leaves a planner's alone.
LEMMA HandlerStays ==
    ASSUME NoEnqueue, NoLoopClients, NoPlannerAdmission, Inv, RefInv, NameInv,
           NEW h \in Handlers, HandlerStep(h), NEW l \in Loops, loops'[l].type = "planner"
    PROVE  loops[l].type = "planner" /\ Stays(l)
<1>1. /\ NameInv'
      /\ loops'[l] = loops[l]
      /\ \A i \in Items : \/ queue'[i] = queue[i]
                          \/ queue'[i].status = "cancelled" /\ SameSubject(queue, queue', i)
                          \/ KeyType[queue'[i].key] # "planner"
  BY HandlerNames
<1>2. UNCHANGED <<pipes, pass, tick>> /\ runs' = runs
  BY HandlerStepGood DEF HandlerGood, runnerVars, schedVars
<1>3. ItemsLeave(l)
  BY <1>1 DEF ItemsLeave, NameInv, PlannersOnly
<1>4. /\ Coming' = Coming
      /\ \A c \in Claimants : Claimed(c, l)' = Claimed(c, l)
      /\ Working(l)' = Working(l)
  BY <1>2 DEF Coming, Claimed, Working, At, PLoop
<1> QED BY <1>1, <1>2, <1>3, <1>4, FewerWait DEF Stays

\* A loop that does not exist yet is named nowhere and has no runs.
LEMMA FreshLoop ==
    ASSUME RefInv, NameInv, NEW l \in Loops, ~LoopExists(loops, l)
    PROVE  Waiting(l) = {} /\ ~IsClaimed(l) /\ Working(l) = {} /\ RunsOf(runs, l) = {}
<1>1. \A k : ~RefOK(loops, k, l)
  BY DEF RefOK
<1>2. Waiting(l) = {}
  BY <1>1 DEF RefInv, Waiting, ItemsOf
<1>3. ~IsClaimed(l)
  BY <1>1 DEF RefInv, PassRef, IsClaimed, Claimed
<1>4. Working(l) = {}
  BY <1>1 DEF RefInv, PipeRef, Working, PLoop
<1>5. RunsOf(runs, l) = {}
  BY DEF NameInv, RunsOf, Present
<1> QED BY <1>2, <1>3, <1>4, <1>5

\* Discovery creates the loop, and gives it its item.
LEMMA DiscoveryStays ==
    ASSUME IssuesApart, Inv, RefInv, NameInv, DiscoveryStep, api' = api,
           NEW l \in Loops, loops'[l].type = "planner",
           loops[l].type = "planner" => Orderly(l)
    PROVE  Orderly(l)'
<1>1. tick \in TickState /\ queue \in QueueTable /\ loops \in [Loops -> LoopRow]
  BY TickTypes
<1>2. UNCHANGED <<pipes, pass, runs>>
  BY DiscoveryStepGood DEF DiscoveryGood
<1>3. /\ \A c \in Claimants : Claimed(c, l)' = Claimed(c, l)
      /\ Working(l)' = Working(l) /\ IsClaimed(l)' = IsClaimed(l)
  BY <1>2 DEF Claimed, IsClaimed, Working, At, PLoop
<1>4. NoLoop # l
  BY DEF NoLoop, Loops
\* It is enough that its item is left alone and its loop was there.
<1>5. ASSUME loops'[l] = loops[l], ItemsLeave(l), Coming' # l
      PROVE  Orderly(l)'
  <2>1. Stays(l)
    BY <1>2, <1>3, <1>5, FewerWait DEF Stays
  <2> QED BY <1>5, <2>1, StaysOrderly
<1>6. CASE CreateIssueLoop \/ CreatePrLoop
  <2>1. ItemsLeave(l) /\ Waiting(l)' = Waiting(l)
    BY <1>6 DEF CreateIssueLoop, CreatePrLoop, ItemsLeave, Waiting
  <2>2. CASE ItemDone /\ loops' = loops
    <3>1. Coming' # l
      BY <1>1, <1>4, <2>2 DEF ItemDone, TickState, Coming
    <3> QED BY <1>5, <2>1, <2>2, <3>1
  <2>3. CASE ~(ItemDone /\ loops' = loops)
    <3>1. PICK m \in Loops :
            /\ NextLoop(loops, m)
            /\ \E st, ty : loops' = InsertLoop(loops, m, st, ty, KeyTarget[tick.key], "bare")
            /\ tick' = [tick EXCEPT !.pc = "insert", !.loop = m]
      BY <1>6, <2>3 DEF CreateIssueLoop, CreatePrLoop
    <3>2. Coming' = m
      BY <1>1, <3>1 DEF TickState, Coming
    <3>3. CASE m # l
      <4>1. loops'[l] = loops[l]
        BY <1>1, <3>1, <3>3 DEF InsertLoop
      <4> QED BY <1>5, <2>1, <3>2, <3>3, <4>1
    <3>4. CASE m = l
      <4>1. Waiting(l) = {} /\ ~IsClaimed(l) /\ Working(l) = {} /\ RunsOf(runs, l) = {}
        BY <3>1, <3>4, FreshLoop DEF NextLoop
      <4>2. Waiting(l)' = {} /\ ~IsClaimed(l)' /\ Working(l)' = {} /\ RunsOf(runs', l) = {}
        BY <1>2, <1>3, <2>1, <4>1
      <4>3. \A c \in Claimants : Claimed(c, l)' = {}
        BY <4>2 DEF IsClaimed
      <4> QED BY <4>2, <4>3 DEF Orderly, OneToken, RunAsFar
    <3> QED BY <3>3, <3>4
  <2> QED BY <2>2, <2>3
<1>7. CASE InsertIssueItem \/ InsertPrItem
  <2>1. /\ tick.pc = "insert" /\ loops' = loops /\ ItemDone
        /\ \E lk : queue' \in CreateOrGet(queue, tick.key, tick.loop, lk)
                              \cup UpsertActive(queue, tick.key, tick.loop, lk)
    BY <1>7 DEF InsertIssueItem, InsertPrItem
  <2>2. Coming' # l
    BY <1>1, <1>4, <2>1 DEF ItemDone, TickState, Coming
  <2> DEFINE k == tick.key
             m == tick.loop
  <2>3. PICK lk : queue' \in CreateOrGet(queue, k, m, lk) \cup UpsertActive(queue, k, m, lk)
    BY <2>1
  <2>4. CASE m # l
    <3> HIDE DEF k, m
    <3>1. \A i \in Items : queue'[i] = queue[i] \/ queue'[i].loop = m
      BY <1>1, <2>3, InsertedSubject
    <3>2. ItemsLeave(l)
      BY <2>4, <3>1 DEF ItemsLeave
    <3> QED BY <1>5, <2>1, <2>2, <3>2
  <2>5. CASE m = l
    <3>1. Coming = l /\ loops[l].type = "planner"
      BY <2>1, <2>5 DEF Coming
    <3>2. Waiting(l) = {} /\ ~IsClaimed(l) /\ Working(l) = {} /\ RunsOf(runs, l) = {}
      BY <3>1 DEF Orderly, OneToken, RunAsFar
    <3>3. \A i, j \in Waiting(l)' : i = j
      <4> HIDE DEF k, m
      <4>1. queue' = queue \/ \E j \in Items : queue' = WriteItem(queue, j, k, m, lk)
        BY <2>3 DEF CreateOrGet, UpsertActive, InsertItem, NextItem, FindActive
      <4> QED BY <1>1, <3>2, <4>1 DEF WriteItem, Waiting, ItemsOf, QueueTable
    <3>4. ~IsClaimed(l)' /\ Working(l)' = {} /\ RunsOf(runs', l) = {}
      BY <1>2, <1>3, <3>2
    <3>5. \A c \in Claimants : Claimed(c, l)' = {}
      BY <3>4 DEF IsClaimed
    <3> QED BY <2>2, <3>3, <3>4, <3>5 DEF Orderly, OneToken, RunAsFar
  <2> QED BY <2>4, <2>5
<1>8. CASE DiscoveryEnd \/ \E k \in DiscoverKeys : FindIssue(k) \/ FindPullRequest(k)
  <2>1. queue' = queue /\ loops' = loops
    BY <1>8 DEF DiscoveryEnd, FindIssue, FindPullRequest, storeVars
  <2>2. Coming' # l
    <3>1. CASE DiscoveryEnd
      BY <1>4, <3>1 DEF DiscoveryEnd, ToNextPhase, FirstPhase, Coming
    <3>2. CASE \E k \in DiscoverKeys : FindIssue(k)
      BY <1>1, <1>4, <3>2 DEF FindIssue, TickState, Coming
    <3>3. CASE \E k \in DiscoverKeys : FindPullRequest(k)
      <4>1. PICK k \in DiscoverKeys : FindPullRequest(k)
        BY <3>3
      <4>2. KeyType[k] # "planner" /\ (tick'.pc = "insert" => tick'.key = k)
        BY <1>1, <4>1 DEF FindPullRequest, TickState
      <4>3. tick'.pc = "insert" => PlannersOnly(loops', tick'.key, tick'.loop)
        BY DiscoveryNames DEF NameInv
      <4> QED BY <1>4, <4>2, <4>3 DEF PlannersOnly, Coming
    <3> QED BY <1>8, <3>1, <3>2, <3>3
  <2>3. ItemsLeave(l)
    BY <2>1 DEF ItemsLeave
  <2> QED BY SMTT(30), <1>5, <2>1, <2>2, <2>3
<1> QED BY <1>6, <1>7, <1>8 DEF DiscoveryStep

\* Every step of the daemon up to the first death of the process.
LEMMA NextPlan ==
    ASSUME NoEnqueue, NoLoopClients, NoPlannerAdmission, IssuesApart,
           Inv, RunInv, RefInv, NameInv, up, PlanInv, [Next]_vars, crashes' = 0
    PROVE  up' /\ PlanInv'
<1>1. ~Crash /\ ~Restart
  BY DEF Crash, Restart, Inv, TypeOK
<1>2. up'
  BY <1>1 DEF Next, RunPipe, RunTick, RunPump, RunApi, lifeVars, vars
<1>3. ASSUME NEW l \in Loops, loops'[l].type = "planner"
      PROVE  Orderly(l)'
  <2>1. loops[l].type = "planner" => Orderly(l)
    BY DEF PlanInv
  <2>2. CASE UNCHANGED vars
    BY <1>3, <2>1, <2>2 DEF vars, storeVars, runnerVars, schedVars, Orderly, OneToken, RunAsFar,
                            Coming, Waiting, IsClaimed, Claimed, Working, At, PLoop
  <2>3. CASE \E p \in Pipes : RunPipe(p)
    <3>1. PICK p \in Pipes : PipeStep(p) /\ UNCHANGED <<pass, tick>>
      BY <2>3 DEF RunPipe, schedVars
    <3>2. loops[l].type = "planner"
      BY <1>3, <3>1, PipeMakesNone, InvBefore
    <3> QED BY <2>1, <3>1, <3>2, OwnPipeStays, OtherPipeStays, StaysOrderly
  <2>4. CASE RunTick \/ RunPump
    <3>1. CASE \E c \in Claimants : PassStep(c)
      <4>1. loops' = loops
        BY <3>1, PassStepGood DEF PassGood
      <4> QED BY <1>3, <2>1, <3>1, <4>1, PassStays
    <3>2. CASE DiscoveryStep
      BY <1>3, <2>1, <2>4, <3>2, DiscoveryStays DEF RunTick, RunPump
    <3> QED BY <2>4, <3>1, <3>2, RunnerAssumption DEF RunTick, RunPump, TickStep, PumpStep
  <2>5. CASE \E h \in Handlers : RunApi(h)
    BY <1>3, <2>1, <2>5, HandlerStays, StaysOrderly DEF RunApi
  <2> QED BY <1>1, <2>2, <2>3, <2>4, <2>5 DEF Next
<1> QED BY <1>2, <1>3 DEF PlanInv

\* A planner's own mutex section hides what it has not written yet.
LEMMA WholeOutcome ==
    ASSUME Inv, MutexInv, NameInv, PlanInv
    PROVE  PlannerOutcomeIsWhole
<1> SUFFICES ASSUME reposMu = Free, NEW l \in Loops, NEW r \in Runs, IsLatestRun(runs, l, r),
                    loops[l].type = "planner", runs[r].status \in DOMAIN OutcomeOf
             PROVE  loops[l].status = OutcomeOf[runs[r].status]
  BY DEF PlannerOutcomeIsWhole
<1>1. r \in RunsOf(runs, l) /\ RunAsFar(l)
  BY DEF IsLatestRun, PlanInv, Orderly
<1>2. Working(l) = {}
  <2> SUFFICES ASSUME NEW p \in Working(l) PROVE FALSE
    OBVIOUS
  <2>1. /\ PipeName(loops, queue, pipes[p]) /\ p \in Pipes /\ pipes[p].pc # "free"
        /\ pipes[p].claim.loop = l
    BY DEF Working, NameInv, At, PLoop
  <2>2. KeyType[pipes[p].claim.key] = "planner"
    BY <2>1 DEF PipeName, PlannersOnly
  <2>3. StatusAt(pipes[p].pc) \in {"success", "failed"}
    BY <1>1 DEF RunAsFar, OutcomeOf
  <2>4. InSection(pipes[p])
    BY <2>2, <2>3 DEF StatusAt, InSection
  <2> QED BY <2>1, <2>4, Threads DEF MutexInv, PipesHold
<1> QED BY <1>1, <1>2 DEF RunAsFar

\* Until the process dies: whenever the mutex is free, the newest run of a
\* planner's loop and the loop's status tell of the same outcome, although they
\* are written by three statements between which others may run.
THEOREM OutcomeIsWhole ==
    ASSUME NoEnqueue, NoLoopClients, NoPlannerAdmission, IssuesApart
    PROVE  Spec => [](crashes = 0 => PlannerOutcomeIsWhole)
<1> DEFINE Alive == crashes = 0 => up /\ PlanInv
<1>1. Init => NameInv /\ Alive
  <2> SUFFICES ASSUME Init PROVE NameInv /\ up /\ PlanInv
    OBVIOUS
  <2>1. \A l \in Loops : loops[l].type # "planner"
    BY DEF Init, StorageInit
  <2>2. NameInv
    BY <2>1 DEF Init, StorageInit, RunnerInit, SchedulerInit, ApiInit, NameInv, PlannersOnly, PipeName,
           PassName, CallName, IdlePipe, IdlePass, FirstPhase, IdleApi, Present
  <2> QED BY <2>1, <2>2 DEF Init, PlanInv
<1>2. NoPlannerEnqueue
  BY DEF NoEnqueue, NoPlannerEnqueue
<1>3. Inv /\ RefInv /\ NameInv /\ [Next]_vars => NameInv'
  BY NextNames
<1>4. Inv /\ RunInv /\ RefInv /\ NameInv /\ Alive /\ [Next]_vars => Alive'
  <2>1. crashes' = 0 /\ Inv /\ [Next]_vars => crashes = 0
    BY DEF Next, Crash, Restart, RunPipe, RunTick, RunPump, RunApi, lifeVars, vars, Inv, TypeOK
  <2> QED BY <2>1, NextPlan
<1>5. Inv /\ MutexInv /\ NameInv /\ Alive => (crashes = 0 => PlannerOutcomeIsWhole)
  BY WholeOutcome
<1>6. Spec => []RefInv
  BY <1>2, RefInvariance
<1> HIDE DEF Alive
<1> QED BY <1>1, <1>3, <1>4, <1>5, <1>6, Invariance, RunInvariance, MutexInvariance, PTL DEF Spec

=============================================================================
