----------------------------- MODULE DaemonProofs -----------------------------
(***************************************************************************)
(* Theorems about Daemon for every value of its constants.  The inductive  *)
(* invariant is Inv; each lemma takes one group of actions from a state of *)
(* Inv to the facts the conjuncts of Inv' need.                            *)
(***************************************************************************)
EXTENDS Daemon, StorageProofs, FiniteSetTheorems

\* What every step but a claim does to the queue.
QuietStep == /\ queue' \in QueueTable
             /\ Running(queue') \subseteq Running(queue)
             /\ IndexHolds(queue) => IndexHolds(queue')

SoundState == {x \in PipeState : SoundPipe(x)}

\* What every step of a pipeline does.
PipeGood == /\ QuietStep
            /\ loops' \in [Loops -> LoopRow]
            /\ runs' \in [Runs -> RunRow]
            /\ locks' = locks
            /\ reposMu' \in {Free} \cup Claimants \cup Pipes
            /\ pipes' \in [Pipes -> SoundState]

PipeBefore == StorageTypeOK /\ RunnerTypeOK /\ (\A p \in Pipes : SoundPipe(pipes[p]))

\* The key that fills an unused field is a key (Keys is not empty).
LEMMA SomeKeyType == SomeKey \in Keys
BY StorageAssumption DEF SomeKey

\* Each pipeline is in a sound state before a step.
LEMMA BeforePipes ==
    ASSUME PipeBefore
    PROVE  pipes \in [Pipes -> SoundState]
BY DEF PipeBefore, RunnerTypeOK, SoundState

\* The state of one pipeline is replaced by a sound one.
LEMMA PipeUpdate ==
    ASSUME PipeBefore, NEW p \in Pipes, NEW x \in SoundState,
           pipes' = [pipes EXCEPT ![p] = x]
    PROVE  pipes' \in [Pipes -> SoundState]
BY BeforePipes

\* A free pipeline is in a sound state.
LEMMA IdlePipeSound == IdlePipe \in SoundState
<1>1. IdlePipe \in PipeState
  BY SomeKeyType, StorageAssumption
     DEF IdlePipe, IdleClaim, PipeState, PipePC, Claim, LoopStatus, Items, Runs, Loops, NoLoop
<1> QED BY <1>1 DEF SoundState, SoundPipe, IdlePipe

\* A pipeline that leaves.
LEMMA ExitSound ==
    ASSUME PipeBefore, NEW p \in Pipes, Exit(p)
    PROVE  pipes' \in [Pipes -> SoundState]
BY IdlePipeSound, PipeUpdate DEF Exit

Later == PipePC \ {"handoff", "handoffInsert"}

\* A pipeline past its start that goes anywhere but into a handoff.
LEMMA GotoSound ==
    ASSUME PipeBefore, NEW p \in Pipes, NEW pc \in Later, Goto(p, pc),
           pipes[p].pc \notin {"free", "start", "errQueue"}
    PROVE  pipes' \in [Pipes -> SoundState]
<1> DEFINE x == [pipes[p] EXCEPT !.pc = pc]
<1>1. pipes[p] \in PipeState /\ SoundPipe(pipes[p])
  BY DEF PipeBefore, RunnerTypeOK
<1>2. x \in PipeState
  BY <1>1 DEF PipeState, Later
<1>3. SoundPipe(x)
  BY <1>1 DEF SoundPipe, Later, PipeState, Claim
<1>4. pipes' = [pipes EXCEPT ![p] = x]
  BY DEF Goto
<1> QED BY <1>2, <1>3, <1>4, PipeUpdate DEF SoundState

\* And one that does not move the queue.
LEMMA SameQueue ==
    ASSUME StorageTypeOK, queue' = queue
    PROVE  QuietStep
BY DEF QuietStep, StorageTypeOK, QueueTable

\* The parts of a pipeline's state have their types.
LEMMA PipeTypes ==
    ASSUME PipeBefore, NEW p \in Pipes
    PROVE  /\ pipes[p] \in PipeState /\ SoundPipe(pipes[p])
           /\ PItem(p) \in Items
           /\ PLoop(p) \in Loops \cup {NoLoop}
           /\ pipes[p].run \in Runs
           /\ pipes[p].claim.key \in Keys
           /\ pipes[p].claim.attempts \in 0 .. LongTermThreshold
BY DEF PipeBefore, RunnerTypeOK, PipeState, Claim, PItem, PLoop

-----------------------------------------------------------------------------
(* The steps of a pipeline *)

\* A pipeline that has its run goes on to a pc its type may be at.
LEMMA BeginSound ==
    ASSUME PipeBefore, NEW p \in Pipes, NEW r \in Runs, Begin(p, r),
           At(p, "start"), PLoop(p) # NoLoop
    PROVE  pipes' \in [Pipes -> SoundState]
<1>1. PICK pc \in FirstStep[PType(p)] \cup {"runDone"} :
        pipes' = [pipes EXCEPT ![p].run = r, ![p].pc = pc]
  BY DEF Begin
<1>2. PType(p) \in IndexedTypes
  BY PipeTypes DEF At, SoundPipe, PType
<1>3. pc \in {"title", "prepare", "work", "check", "runDone"}
  BY <1>1, <1>2 DEF FirstStep, IndexedTypes
<1> DEFINE x == [pipes[p] EXCEPT !.run = r, !.pc = pc]
<1>4. x \in PipeState
  BY ZenonT(30), <1>3, PipeTypes DEF PipeState, PipePC
<1>5. SoundPipe(x)
  BY <1>3, PipeTypes DEF SoundPipe, PipeState, Claim, PLoop, At
<1>6. pipes' = [pipes EXCEPT ![p] = x]
  BY <1>1, PipeTypes DEF PipeBefore, RunnerTypeOK
<1> QED BY <1>4, <1>5, <1>6, PipeUpdate DEF SoundState

\* The creation or resumption of the run (start of each runner).
LEMMA StartGood ==
    ASSUME PipeBefore, NEW p \in Pipes, Start(p)
    PROVE  PipeGood
<1>1. QuietStep /\ loops' \in [Loops -> LoopRow] /\ locks' = locks
      /\ reposMu' \in {Free} \cup Claimants \cup Pipes
  BY SameQueue DEF Start, PipeBefore, StorageTypeOK, RunnerTypeOK
<1>2. runs' \in [Runs -> RunRow]
  <2>1. "running" \in RunStatus
    BY DEF RunStatus
  <2> QED BY <2>1, PipeTypes, UpsertRunType DEF Start, PipeBefore, StorageTypeOK
<1>3. pipes' \in [Pipes -> SoundState]
  <2>1. CASE Exit(p)
    BY <2>1, ExitSound
  <2>2. CASE \E r \in Runs : Begin(p, r) /\ PLoop(p) # NoLoop
    BY <2>2, BeginSound DEF Start
  <2>3. CASE Goto(p, "errQueue")
    <3> DEFINE x == [pipes[p] EXCEPT !.pc = "errQueue"]
    <3>1. x \in PipeState /\ SoundPipe(x)
      BY PipeTypes DEF PipeState, PipePC, SoundPipe, Start, At
    <3> QED BY <2>3, <3>1, PipeUpdate DEF SoundState, Goto
  <2> QED BY <2>1, <2>2, <2>3 DEF Start
<1> QED BY <1>1, <1>2, <1>3 DEF PipeGood

\* The loop a pipeline past its start is about.
LEMMA HasLoop ==
    ASSUME PipeBefore, NEW p \in Pipes, pipes[p].pc \notin {"free", "start", "errQueue"}
    PROVE  PLoop(p) \in Loops
BY PipeTypes DEF SoundPipe, PLoop

\* The read and the write-back of a loop row.
LEMMA LoopRowGood ==
    ASSUME PipeBefore, NEW p \in Pipes, LoopRowStep(p)
    PROVE  PipeGood
<1>1. pipes[p].pc \in DOMAIN SavesLoopRow \cup DOMAIN AfterSave
  BY DEF LoopRowStep, LoopRowRead, LoopRowWrite
<1>2. pipes[p].pc \in {"title", "prepare", "openPr", "titleWrite", "prepareWrite", "openPrWrite"}
  BY <1>1 DEF SavesLoopRow, AfterSave
<1>3. PLoop(p) \in Loops
  BY <1>2, HasLoop
<1>4. PICK pc \in Later, seen \in LoopStatus :
        pipes' = [pipes EXCEPT ![p].seen = seen, ![p].pc = pc]
  <2>1. CASE LoopRowRead(p)
    <3>1. SavesLoopRow[pipes[p].pc] \in Later
      BY <2>1 DEF LoopRowRead, SavesLoopRow, Later, PipePC
    <3>2. loops[PLoop(p)].status \in LoopStatus
      BY <1>3 DEF PipeBefore, StorageTypeOK, LoopRow
    <3>3. pipes' = [pipes EXCEPT ![p].seen = loops[PLoop(p)].status,
                                 ![p].pc = SavesLoopRow[pipes[p].pc]]
      BY <2>1, PipeTypes DEF LoopRowRead, PipeBefore, RunnerTypeOK, PipeState
    <3> QED BY <3>1, <3>2, <3>3
  <2>2. CASE LoopRowWrite(p)
    <3>1. AfterSave[pipes[p].pc] \in Later
      BY <2>2 DEF LoopRowWrite, AfterSave, Later, PipePC
    <3>2. "absent" \in LoopStatus
      BY DEF LoopStatus
    <3>3. pipes' = [pipes EXCEPT ![p].seen = "absent", ![p].pc = AfterSave[pipes[p].pc]]
      BY <2>2, PipeTypes DEF LoopRowWrite, PipeBefore, RunnerTypeOK, PipeState
    <3> QED BY <3>1, <3>2, <3>3
  <2> QED BY <2>1, <2>2 DEF LoopRowStep
<1>5. pipes' \in [Pipes -> SoundState]
  <2> DEFINE x == [pipes[p] EXCEPT !.seen = seen, !.pc = pc]
  <2>1. x \in PipeState
    BY PipeTypes DEF PipeState, Later
  <2>2. SoundPipe(x)
    BY <1>2, PipeTypes DEF SoundPipe, PipeState, Claim, Later
  <2>3. pipes' = [pipes EXCEPT ![p] = x]
    BY <1>4, PipeTypes DEF PipeBefore, RunnerTypeOK
  <2> QED BY <2>1, <2>2, <2>3, PipeUpdate DEF SoundState
<1>6. QuietStep /\ runs' \in [Runs -> RunRow] /\ locks' = locks
  BY SameQueue
     DEF LoopRowStep, LoopRowRead, LoopRowWrite, PipeBefore, StorageTypeOK, storeVars
<1>7. loops' \in [Loops -> LoopRow]
  <2>1. pipes[p].seen \in LoopStatus
    BY PipeTypes DEF PipeState
  <2> QED BY <1>3, <2>1, SetLoopType
          DEF LoopRowStep, LoopRowRead, LoopRowWrite, PipeBefore, StorageTypeOK, storeVars
<1>8. reposMu' \in {Free} \cup Claimants \cup Pipes
  BY DEF LoopRowStep, LoopRowRead, LoopRowWrite, Hold, Release
<1> QED BY <1>5, <1>6, <1>7, <1>8 DEF PipeGood

\* The statuses and pcs the remaining steps name.
LEMMA Statuses ==
    /\ {"running", "paused", "completed", "failed", "queued"} \subseteq LoopStatus
    /\ {"success", "failed"} \subseteq RunStatus
    /\ {"completed", "failed"} \subseteq TerminalStatus
    /\ {"completed", "failed"} \subseteq ItemStatus
    /\ {"work", "openPr", "runDone", "planFailRun", "planFailQueue", "planFailLoop", "retry",
        "retryRun", "errQueue", "errLoop", "repair", "queueDone", "loopDone"} \subseteq Later
BY DEF LoopStatus, RunStatus, TerminalStatus, ItemStatus, Later, PipePC

\* An item that ends.
LEMMA EndItem ==
    ASSUME PipeBefore, NEW i \in Items, NEW st \in {"completed", "failed"},
           queue' = SetStatus(queue, {i}, st)
    PROVE  QuietStep
<1>1. queue \in QueueTable
  BY DEF PipeBefore, StorageTypeOK, QueueTable
<1>2. st \in ItemStatus /\ st \in TerminalStatus /\ st # "running"
  BY Statuses
<1> QED BY <1>1, <1>2, SetStatusType, SetStatusStartsNone, EndingKeepsIndex DEF QuietStep

\* The planner's own steps.
LEMMA PlannerGood ==
    ASSUME PipeBefore, NEW p \in Pipes, PlannerStep(p)
    PROVE  PipeGood
<1>1. pipes[p].pc \in {"flip", "work", "planFailRun", "planFailQueue", "planFailLoop"}
  BY DEF PlannerStep, FlipToRunning, PlannerWork, PlannerFailRun, PlannerFailQueue,
         PlannerFailLoop, At
<1>2. PLoop(p) \in Loops
  BY <1>1, HasLoop
<1>3. pipes' \in [Pipes -> SoundState]
  <2>1. Exit(p) \/ \E pc \in Later : Goto(p, pc)
    BY Statuses DEF PlannerStep, FlipToRunning, PlannerWork, PlannerFailRun, PlannerFailQueue,
                    PlannerFailLoop
  <2> QED BY <1>1, <2>1, ExitSound, GotoSound
<1>4. QuietStep
  <2>1. CASE queue' = queue
    BY <2>1, SameQueue DEF PipeBefore
  <2>2. CASE PlannerFailQueue(p)
    BY <2>2, PipeTypes, EndItem DEF PlannerFailQueue
  <2> QED BY <2>1, <2>2 DEF PlannerStep, FlipToRunning, PlannerWork, PlannerFailRun,
                            PlannerFailLoop, storeVars
<1>5. loops' \in [Loops -> LoopRow] /\ locks' = locks
  BY <1>2, Statuses, SetLoopType
     DEF PlannerStep, FlipToRunning, PlannerWork, PlannerFailRun, PlannerFailQueue,
         PlannerFailLoop, storeVars, PipeBefore, StorageTypeOK
<1>6. runs' \in [Runs -> RunRow]
  BY PipeTypes, Statuses, UpsertRunType
     DEF PlannerStep, FlipToRunning, PlannerWork, PlannerFailRun, PlannerFailQueue,
         PlannerFailLoop, storeVars, PipeBefore, StorageTypeOK
<1>7. reposMu' \in {Free} \cup Claimants \cup Pipes
  BY DEF PlannerStep, FlipToRunning, PlannerWork, PlannerFailRun, PlannerFailQueue,
         PlannerFailLoop, Hold, Release, PipeBefore, RunnerTypeOK
<1> QED BY <1>3, <1>4, <1>5, <1>6, <1>7 DEF PipeGood

\* The steps of the worker and of the fixer that touch no table.
LEMMA WorkGood ==
    ASSUME PipeBefore, NEW p \in Pipes, WorkerWork(p) \/ FixerStep(p)
    PROVE  PipeGood
<1>1. pipes[p].pc \in {"work", "check", "repair"} /\ \E pc \in Later : Goto(p, pc)
  BY Statuses DEF WorkerWork, FixerStep, PauseCheck, Repair, At
<1>2. UNCHANGED <<storeVars, reposMu>>
  BY DEF WorkerWork, FixerStep, PauseCheck, Repair
<1> QED BY <1>1, <1>2, GotoSound, SameQueue
        DEF PipeGood, storeVars, PipeBefore, StorageTypeOK, RunnerTypeOK

\* The marking of an item for retry and the failure of its run.
LEMMA RetryGood ==
    ASSUME PipeBefore, NEW p \in Pipes, RetryStep(p)
    PROVE  PipeGood
<1>1. pipes[p].pc \in {"retry", "retryRun"} /\ \E pc \in Later : Goto(p, pc)
  BY Statuses DEF RetryStep, MarkedForRetry, RetriedRunFailed, At
<1>2. QuietStep
  <2>1. CASE queue' = queue
    BY <2>1, SameQueue DEF PipeBefore
  <2>2. CASE /\ IndexAllows(queue, PItem(p))
             /\ queue' = MarkRetry(queue, PItem(p), NextAttempt(pipes[p].claim.attempts))
    <3>1. NextAttempt(pipes[p].claim.attempts) \in 0 .. LongTermThreshold
      BY PipeTypes, NextAttemptType, StorageAssumption
    <3> QED BY <2>2, <3>1, PipeTypes, MarkRetryLemma
            DEF QuietStep, PipeBefore, StorageTypeOK, QueueTable
  <2> QED BY <2>1, <2>2 DEF RetryStep, MarkedForRetry, RetriedRunFailed
<1>3. runs' \in [Runs -> RunRow]
  <2>1. runs' = runs \/ runs' = UpsertRun(runs, pipes[p].run, PLoop(p), "failed")
    BY DEF RetryStep, MarkedForRetry, RetriedRunFailed
  <2>2. runs \in [Runs -> RunRow] /\ pipes[p].run \in Runs /\ PLoop(p) \in Loops \cup {NoLoop}
    BY PipeTypes DEF PipeBefore, StorageTypeOK
  <2>3. UpsertRun(runs, pipes[p].run, PLoop(p), "failed") \in [Runs -> RunRow]
    BY <2>2, Statuses, UpsertRunType
  <2> QED BY <2>1, <2>2, <2>3
<1>4. loops' = loops /\ locks' = locks /\ reposMu' \in {Free} \cup Claimants \cup Pipes
  BY DEF RetryStep, MarkedForRetry, RetriedRunFailed, Hold, Release, PipeBefore, RunnerTypeOK
<1> QED BY <1>1, <1>2, <1>3, <1>4, GotoSound DEF PipeGood, PipeBefore, StorageTypeOK

\* The reviewer's work and its handoff to the fixer.
LEMMA ReviewerGood ==
    ASSUME PipeBefore, NEW p \in Pipes, ReviewerStep(p)
    PROVE  PipeGood
<1>1. pipes[p].pc \in {"work", "handoff", "handoffInsert"}
  BY DEF ReviewerStep, ReviewerWork, HandoffLoop, HandoffInsert, At
<1>2. PLoop(p) \in Loops
  BY <1>1, HasLoop
<1>3. ASSUME pipes[p].pc \in {"handoff", "handoffInsert"}
      PROVE  HandoffKey(p) \in HandoffKeys /\ HandoffKey(p) \in Keys
  BY <1>3, PipeTypes, RunnerAssumption DEF SoundPipe, HandoffKey
<1>4. CASE ReviewerWork(p)
  <2>1. QuietStep /\ UNCHANGED <<loops, runs, locks, reposMu>>
    BY <1>4, SameQueue DEF ReviewerWork, storeVars, PipeBefore
  <2>2. CASE Goto(p, "runDone")
    BY <1>1, <2>1, <2>2, Statuses, GotoSound
       DEF PipeGood, PipeBefore, StorageTypeOK, RunnerTypeOK
  <2>3. CASE Goto(p, "handoff") /\ \E k \in HandoffKeys : KeyTarget[k] = KeyTarget[pipes[p].claim.key]
    <3> DEFINE x == [pipes[p] EXCEPT !.pc = "handoff"]
    <3>1. x \in PipeState /\ SoundPipe(x)
      BY <1>1, <2>3, PipeTypes DEF PipeState, PipePC, SoundPipe, Claim
    <3> QED BY <2>1, <2>3, <3>1, PipeUpdate
            DEF Goto, SoundState, PipeGood, PipeBefore, StorageTypeOK, RunnerTypeOK
  <2> QED BY <1>4, <2>2, <2>3 DEF ReviewerWork
<1>5. CASE HandoffLoop(p)
  <2>1. pipes[p].pc = "handoff"
    BY <1>5 DEF HandoffLoop, At
  <2>2. QuietStep /\ UNCHANGED <<runs, locks>> /\ reposMu' \in {Free} \cup Claimants \cup Pipes
    BY <1>5, SameQueue DEF HandoffLoop, Hold, Release, PipeBefore
  <2>3. loops' \in [Loops -> LoopRow]
    <3>1. "fixer" \in LoopTypes
      BY DEF LoopTypes, IndexedTypes
    <3>2. \/ loops' = loops
          \/ \E l \in Loops :
               loops' = InsertLoop(loops, l, "queued", "fixer",
                                   KeyTarget[HandoffKey(p)], "bare")
      BY <1>5 DEF HandoffLoop
    <3> QED BY <1>3, <2>1, <3>1, <3>2, Statuses, InsertLoopType
            DEF PipeBefore, StorageTypeOK, TargetForm
  <2>4. pipes' \in [Pipes -> SoundState]
    <3>1. CASE Goto(p, "runDone")
      BY <1>1, <3>1, <2>1, Statuses, GotoSound
    <3>2. CASE \E l \in Loops :
                 pipes' = [pipes EXCEPT ![p].newLoop = l, ![p].pc = "handoffInsert"]
      <4>1. PICK l \in Loops :
              pipes' = [pipes EXCEPT ![p].newLoop = l, ![p].pc = "handoffInsert"]
        BY <3>2
      <4> DEFINE x == [pipes[p] EXCEPT !.newLoop = l, !.pc = "handoffInsert"]
      <4>2. x \in PipeState /\ SoundPipe(x)
        BY ZenonT(30), <2>1, PipeTypes DEF PipeState, PipePC, SoundPipe, Claim
      <4>3. pipes' = [pipes EXCEPT ![p] = x]
        BY <4>1, PipeTypes DEF PipeBefore, RunnerTypeOK
      <4> QED BY <4>2, <4>3, PipeUpdate DEF SoundState
    <3> QED BY <1>5, <3>1, <3>2 DEF HandoffLoop
  <2> QED BY <2>2, <2>3, <2>4 DEF PipeGood, PipeBefore, StorageTypeOK
<1>6. CASE HandoffInsert(p)
  <2>1. pipes[p].pc = "handoffInsert"
    BY <1>6 DEF HandoffInsert, At
  <2>2. QuietStep
    <3>1. pipes[p].newLoop \in Loops \cup {NoLoop}
      BY PipeTypes DEF PipeState
    <3> QED BY <1>3, <1>6, <2>1, <3>1, CreateOrGetLemma, StorageAssumption
            DEF HandoffInsert, QuietStep, PipeBefore, StorageTypeOK, QueueTable
  <2> DEFINE x == [pipes[p] EXCEPT !.newLoop = NoLoop, !.pc = "runDone"]
  <2>3. x \in PipeState /\ SoundPipe(x)
    BY ZenonT(30), <2>1, PipeTypes DEF PipeState, PipePC, SoundPipe, Claim
  <2>4. pipes' = [pipes EXCEPT ![p] = x]
    BY <1>6, PipeTypes DEF HandoffInsert, PipeBefore, RunnerTypeOK
  <2> QED BY <1>6, <2>2, <2>3, <2>4, PipeUpdate
          DEF HandoffInsert, Release, SoundState, PipeGood, PipeBefore, StorageTypeOK
<1> QED BY <1>4, <1>5, <1>6 DEF ReviewerStep

\* The exits the pipelines share.
LEMMA ExitGood ==
    ASSUME PipeBefore, NEW p \in Pipes, ExitStep(p)
    PROVE  PipeGood
<1>1. pipes' \in [Pipes -> SoundState]
  <2>1. CASE Exit(p)
    BY <2>1, ExitSound
  <2>2. CASE RunSucceeded(p) \/ QueueCompleted(p)
    <3>1. pipes[p].pc \in {"runDone", "queueDone"}
      BY <2>2 DEF RunSucceeded, QueueCompleted, At
    <3>2. Exit(p) \/ \E pc \in Later : Goto(p, pc)
      BY <2>2, Statuses DEF RunSucceeded, QueueCompleted
    <3> QED BY <3>1, <3>2, <2>1, GotoSound
  <2>3. CASE QueueFailed(p) /\ PLoop(p) # NoLoop
    <3> DEFINE x == [pipes[p] EXCEPT !.pc = "errLoop"]
    <3>1. x \in PipeState /\ SoundPipe(x)
      BY <2>3, PipeTypes DEF QueueFailed, At, PLoop, PipeState, PipePC, SoundPipe, Claim
    <3> QED BY <2>3, <3>1, PipeUpdate DEF QueueFailed, Goto, SoundState
  <2> QED BY <2>1, <2>2, <2>3 DEF ExitStep, LoopCompleted, LoopFailed, QueueFailed
<1>2. QuietStep
  <2>1. CASE queue' = queue
    BY <2>1, SameQueue DEF PipeBefore
  <2>2. CASE QueueCompleted(p) \/ QueueFailed(p)
    BY <2>2, PipeTypes, EndItem DEF QueueCompleted, QueueFailed
  <2> QED BY <2>1, <2>2 DEF ExitStep, RunSucceeded, LoopCompleted, LoopFailed
<1>3. loops' \in [Loops -> LoopRow]
  <2>1. CASE LoopCompleted(p) \/ LoopFailed(p)
    <3>1. PLoop(p) \in Loops
      BY <2>1, HasLoop DEF LoopCompleted, LoopFailed, At
    <3> QED BY <2>1, <3>1, Statuses, SetLoopType
            DEF LoopCompleted, LoopFailed, PipeBefore, StorageTypeOK
  <2>2. CASE loops' = loops
    BY <2>2 DEF PipeBefore, StorageTypeOK
  <2> QED BY <2>1, <2>2 DEF ExitStep, RunSucceeded, QueueCompleted, QueueFailed
<1>4. runs' \in [Runs -> RunRow]
  BY PipeTypes, Statuses, UpsertRunType
     DEF ExitStep, RunSucceeded, QueueCompleted, LoopCompleted, QueueFailed, LoopFailed,
         PipeBefore, StorageTypeOK
<1>5. locks' = locks /\ reposMu' \in {Free} \cup Claimants \cup Pipes
  BY DEF ExitStep, RunSucceeded, QueueCompleted, LoopCompleted, QueueFailed, LoopFailed,
         KeepIfPlanner, Hold, Release, PipeBefore, RunnerTypeOK
<1> QED BY <1>1, <1>2, <1>3, <1>4, <1>5 DEF PipeGood

\* Every step of a pipeline keeps the tables' types, starts no item, and
\* leaves the pipeline in a state from which it can go on.
LEMMA PipeStepGood ==
    ASSUME PipeBefore, NEW p \in Pipes, PipeStep(p)
    PROVE  PipeGood
BY StartGood, LoopRowGood, PlannerGood, WorkGood, RetryGood, ReviewerGood, ExitGood
   DEF PipeStep

-----------------------------------------------------------------------------
(* Counting the running items *)

\* The running items can be counted.
LEMMA RunningFinite ==
    ASSUME NEW q
    PROVE  IsFiniteSet(Running(q)) /\ Cardinality(Running(q)) \in Nat
<1>1. MaxItems \in Int /\ 1 \in Int
  BY StorageAssumption
<1>2. IsFiniteSet(Items)
  BY <1>1, FS_Interval DEF Items
<1>3. Running(q) \in SUBSET Items
  BY DEF Running
<1> QED BY <1>2, <1>3, FS_Subset, FS_CardinalityType

\* A step that starts no item leaves at most as many running.
LEMMA QuietCount ==
    ASSUME QuietStep
    PROVE  Cardinality(Running(queue')) <= Cardinality(Running(queue))
BY RunningFinite, FS_Subset DEF QuietStep

\* A claim takes one more item, and only below the limit.
ClaimStep == \E i \in Items : /\ queue[i].status = "queued"
                              /\ queue' = ClaimItem(queue, i)
                              /\ Cardinality(Running(queue)) < MaxConcurrentRuns

\* A claim leaves exactly one more running.
LEMMA ClaimCount ==
    ASSUME StorageTypeOK, NEW i \in Items, queue[i].status = "queued",
           queue' = ClaimItem(queue, i)
    PROVE  Cardinality(Running(queue')) = Cardinality(Running(queue)) + 1
BY ClaimItemLemma, RunningFinite, FS_AddElement DEF StorageTypeOK, QueueTable

\* A step that leaves the passes alone and starts no item keeps SlotInv.
LEMMA SlotsKept ==
    ASSUME Inv, QuietStep, UNCHANGED <<claimMu, pass>>
    PROVE  SlotInv'
<1>1. \A c \in Claimants : pass[c].slots \in Nat
  BY SchedulerAssumption DEF Inv, TypeOK, SchedulerTypeOK, PassState
<1>2. Cardinality(Running(queue)) \in Nat /\ Cardinality(Running(queue')) \in Nat
  BY RunningFinite
<1> QED BY <1>1, <1>2, QuietCount, SchedulerAssumption DEF Inv, SlotInv

-----------------------------------------------------------------------------
(* The steps of a claim pass *)

\* The invariant gives what the lemmas on pipelines assume.
LEMMA InvBefore == Inv => PipeBefore
BY DEF Inv, TypeOK, PipeBefore

\* The parts of a pass have their types.
LEMMA PassTypes ==
    ASSUME Inv, NEW c \in Claimants
    PROVE  /\ pass[c] \in PassState
           /\ pass[c].slots \in 0 .. MaxConcurrentRuns
           /\ pass[c].batch \in SUBSET Claim
BY DEF Inv, TypeOK, SchedulerTypeOK, PassState

\* The state of a thread that is in no pass is well typed.
LEMMA IdlePassType == IdlePass \in PassState
BY SchedulerAssumption DEF IdlePass, PassState, PassPC

\* The end of a phase of the tick is a place in the round.
LEMMA PhaseEnds ==
    ASSUME Inv, NEW c \in Claimants, EndPhase(c)
    PROVE  tick' \in TickState
<1>1. FirstPhase \in TickState
  BY SomeKeyType, SchedulerAssumption DEF FirstPhase, TickState, TickPC, NoLoop
<1>2. tick \in TickState
  BY DEF Inv, TypeOK, SchedulerTypeOK
<1>3. NextPhase \in Nat \ {0}
  BY SMTT(30), <1>2 DEF NextPhase, TickState
<1> QED BY <1>1, <1>2, <1>3 DEF EndPhase, ToNextPhase, TickState

\* Both claim statements take a queued item for a pass that has a slot.
LEMMA ClaimFacts ==
    ASSUME Inv, NEW c \in Claimants, ClaimFresh(c) \/ ClaimLong(c)
    PROVE  /\ pass[c].slots > 0 /\ pass[c].pc \in {"fresh", "long"}
           /\ \E i \in Items :
                /\ queue[i].status = "queued" /\ queue' = ClaimItem(queue, i)
                /\ pass' = [pass EXCEPT ![c].slots = @ - 1,
                                        ![c].batch = @ \cup {ClaimOf(queue, i)}]
           /\ UNCHANGED <<loops, runs, locks, reposMu, pipes, claimMu, tick>>
BY DEF ClaimFresh, ClaimLong, ClaimOne, FirstByPriority, FreshCandidates, LongCandidates,
       Scheduled, AtPass

\* What every step of a pass does to the tables, the pipelines and the tick.
PassGood(c) ==
    /\ QuietStep \/ ClaimStep
    /\ queue' \in QueueTable
    /\ IndexHolds(queue) => IndexHolds(queue')
    /\ UNCHANGED <<loops, runs, locks>>
    /\ reposMu' \in {Free} \cup Claimants \cup Pipes
    /\ pipes' \in [Pipes -> SoundState]
    /\ tick' \in TickState
    /\ claimMu' \in {Free} \cup Claimants
    /\ pass' \in [Claimants -> PassState]
    /\ SlotInv'

\* The claim itself: a slot of the pass becomes a running item.
LEMMA ClaimGood ==
    ASSUME Inv, NEW c \in Claimants, ClaimFresh(c) \/ ClaimLong(c)
    PROVE  PassGood(c)
<1>1. PICK i \in Items :
        /\ queue[i].status = "queued" /\ queue' = ClaimItem(queue, i)
        /\ pass' = [pass EXCEPT ![c].slots = @ - 1, ![c].batch = @ \cup {ClaimOf(queue, i)}]
  BY ClaimFacts
<1>2. pass[c].slots > 0 /\ pass[c].pc \in {"fresh", "long"}
      /\ UNCHANGED <<loops, runs, locks, reposMu, pipes, claimMu, tick>>
  BY ClaimFacts
<1>3. queue \in QueueTable /\ StorageTypeOK
  BY DEF Inv, TypeOK, StorageTypeOK, QueueTable
<1>4. queue' \in QueueTable /\ (IndexHolds(queue) => IndexHolds(queue'))
  BY <1>1, <1>3, ClaimItemLemma
<1>5. Cardinality(Running(queue)) < MaxConcurrentRuns
  <2>1. Cardinality(Running(queue)) + pass[c].slots <= MaxConcurrentRuns
    BY DEF Inv, SlotInv
  <2> QED BY <2>1, <1>2, RunningFinite, PassTypes, SchedulerAssumption
<1>6. ClaimOf(queue, i) \in Claim
  BY <1>3 DEF ClaimOf, Claim, QueueTable, ItemRow
<1>7. pass' \in [Claimants -> PassState]
  <2> DEFINE x == [pass[c] EXCEPT !.slots = pass[c].slots - 1,
                                  !.batch = pass[c].batch \cup {ClaimOf(queue, i)}]
  <2>1. pass[c].slots - 1 \in 0 .. MaxConcurrentRuns
    BY <1>2, PassTypes, SchedulerAssumption
  <2>2. x \in PassState
    BY <1>6, <2>1, PassTypes DEF PassState
  <2>3. pass' = [pass EXCEPT ![c] = x]
    BY <1>1, PassTypes DEF Inv, TypeOK, SchedulerTypeOK
  <2> QED BY <2>2, <2>3 DEF Inv, TypeOK, SchedulerTypeOK
<1>8. SlotInv'
  <2>1. Cardinality(Running(queue')) = Cardinality(Running(queue)) + 1
    BY <1>1, <1>3, ClaimCount
  <2>2. claimMu = c /\ claimMu' = claimMu
    BY <1>2 DEF Inv, SlotInv
  <2>3. /\ pass'[c].pc = pass[c].pc /\ pass'[c].slots = pass[c].slots - 1
        /\ \A d \in Claimants \ {c} : pass'[d] = pass[d]
    BY <1>1, PassTypes DEF Inv, TypeOK, SchedulerTypeOK, PassState
  <2>4. \A d \in Claimants \ {c} : pass[d].pc = "idle" /\ pass[d].slots = 0
    BY <2>2 DEF Inv, SlotInv
  <2>5. Cardinality(Running(queue)) + pass[c].slots <= MaxConcurrentRuns
    BY DEF Inv, SlotInv
  <2>6. Cardinality(Running(queue)) \in Nat /\ pass[c].slots \in Nat
    BY RunningFinite, PassTypes, SchedulerAssumption
  <2>7. ASSUME NEW d \in Claimants
        PROVE  Cardinality(Running(queue')) + pass'[d].slots <= MaxConcurrentRuns
    BY <1>2, <1>5, <2>1, <2>3, <2>4, <2>5, <2>6, SchedulerAssumption
  <2> QED BY <1>2, <2>2, <2>3, <2>4, <2>7 DEF SlotInv
<1>9. pipes' \in [Pipes -> SoundState]
  BY <1>2, InvBefore, BeforePipes
<1> QED BY <1>1, <1>2, <1>4, <1>5, <1>7, <1>8, <1>9
        DEF PassGood, ClaimStep, Inv, TypeOK, RunnerTypeOK, SchedulerTypeOK

\* A pass that moves on, while no other is under way, with slots that are free.
LEMMA PassMove ==
    ASSUME Inv, NEW c \in Claimants, NEW x \in PassState,
           pass' = [pass EXCEPT ![c] = x], queue' = queue, claimMu \in {Free, c},
           x.pc # "idle" => claimMu' = c, x.pc = "idle" => x.slots = 0,
           Cardinality(Running(queue)) + x.slots <= MaxConcurrentRuns
    PROVE  SlotInv' /\ pass' \in [Claimants -> PassState]
<1>1. pass \in [Claimants -> PassState]
  BY DEF Inv, TypeOK, SchedulerTypeOK
<1>2. Free \notin Claimants
  BY RunnerAssumption DEF Free
<1>3. \A d \in Claimants \ {c} : pass[d].pc = "idle" /\ pass[d].slots = 0
  BY <1>2 DEF Inv, SlotInv
<1>4. \A d \in Claimants : Cardinality(Running(queue)) + pass[d].slots <= MaxConcurrentRuns
  BY DEF Inv, SlotInv
<1>5. pass'[c] = x /\ \A d \in Claimants \ {c} : pass'[d] = pass[d]
  BY <1>1
<1>6. SlotInv'
  BY <1>3, <1>4, <1>5 DEF SlotInv
<1> QED BY <1>1, <1>6

\* What a step of a pass that claims nothing leaves as it was.
PassFrame(c) == /\ UNCHANGED storeVars
                /\ claimMu \in {Free, c} /\ claimMu' \in {Free, c}

\* A step of a pass that claims nothing, from its parts.
LEMMA PassGoodFrom ==
    ASSUME Inv, NEW c \in Claimants, PassFrame(c),
           reposMu' \in {Free} \cup Claimants \cup Pipes, pipes' \in [Pipes -> SoundState],
           tick' \in TickState, SlotInv', pass' \in [Claimants -> PassState]
    PROVE  PassGood(c)
BY SameQueue DEF PassGood, PassFrame, storeVars, QuietStep, Inv, TypeOK

\* The count of the free slots, under claim_mu.
LEMMA BeginGood ==
    ASSUME Inv, NEW c \in Claimants, PassBegin(c)
    PROVE  PassGood(c)
<1>1. PassFrame(c) /\ UNCHANGED runnerVars /\ claimMu = Free
  BY DEF PassBegin, PassFrame
<1>2. reposMu' \in {Free} \cup Claimants \cup Pipes /\ pipes' \in [Pipes -> SoundState]
  BY <1>1, InvBefore, BeforePipes DEF runnerVars, Inv, TypeOK, RunnerTypeOK
<1>3. CASE Slots(queue) = 0
  <2>1. EndPhase(c) /\ UNCHANGED <<claimMu, pass>> /\ UNCHANGED storeVars
    BY <1>3 DEF PassBegin
  <2>2. QuietStep
    BY <2>1, SameQueue DEF storeVars, Inv, TypeOK
  <2> QED BY <1>1, <1>2, <2>1, <2>2, SlotsKept, PhaseEnds, PassGoodFrom
          DEF Inv, TypeOK, SchedulerTypeOK
<1>4. CASE Slots(queue) # 0
  <2> DEFINE x == [pc |-> "lock", slots |-> Slots(queue), batch |-> {}]
  <2>1. Cardinality(Running(queue)) \in Nat
    BY RunningFinite
  <2>2. /\ Cardinality(Running(queue)) + Slots(queue) <= MaxConcurrentRuns
        /\ Slots(queue) \in 0 .. MaxConcurrentRuns
    BY <1>4, <2>1, SchedulerAssumption DEF Slots
  <2>3. x \in PassState
    BY <2>2 DEF PassState, PassPC
  <2>4. pass' = [pass EXCEPT ![c] = x] /\ claimMu' = c /\ tick' = tick /\ queue' = queue
    BY <1>4 DEF PassBegin, storeVars
  <2>5. SlotInv' /\ pass' \in [Claimants -> PassState]
    BY <1>1, <2>2, <2>3, <2>4, PassMove
  <2> QED BY <1>1, <1>2, <2>4, <2>5, PassGoodFrom DEF Inv, TypeOK, SchedulerTypeOK
<1> QED BY <1>3, <1>4

\* The steps between the count and the dispatch.
LEMMA MiddleGood ==
    ASSUME Inv, NEW c \in Claimants, PassLock(c) \/ FreshDone(c) \/ LongDone(c)
    PROVE  PassGood(c)
<1>1. PICK pc \in PassPC, n \in {pass[c].slots, 0} :
        pc # "idle" /\ pass' = [pass EXCEPT ![c].pc = pc, ![c].slots = n]
  <2>1. {"fresh", "long", "dispatch"} \subseteq PassPC \ {"idle"}
    BY DEF PassPC
  <2>2. pass[c] = [pass[c] EXCEPT !.slots = pass[c].slots]
    BY PassTypes DEF PassState
  <2>3. CASE PassLock(c)
    <3>1. pass' = [pass EXCEPT ![c].pc = "fresh", ![c].slots = pass[c].slots]
      BY <2>3, PassTypes DEF PassLock, PassState, Inv, TypeOK, SchedulerTypeOK
    <3> QED BY <2>1, <3>1
  <2>4. CASE FreshDone(c)
    <3>1. pass' = [pass EXCEPT ![c].pc = "long", ![c].slots = pass[c].slots]
      BY <2>4, PassTypes DEF FreshDone, PassState, Inv, TypeOK, SchedulerTypeOK
    <3> QED BY <2>1, <3>1
  <2>5. CASE LongDone(c)
    BY <2>1, <2>5 DEF LongDone
  <2> QED BY <2>3, <2>4, <2>5
<1>2. claimMu = c /\ pass[c].pc # "idle"
  BY DEF PassLock, FreshDone, LongDone, AtPass, Inv, SlotInv
<1>3. PassFrame(c) /\ UNCHANGED <<pipes, claimMu, tick>>
      /\ reposMu' \in {Free} \cup Claimants \cup Pipes
  BY <1>2 DEF PassLock, FreshDone, LongDone, PassFrame, runnerVars, Inv, TypeOK, RunnerTypeOK
<1> DEFINE x == [pass[c] EXCEPT !.pc = pc, !.slots = n]
<1>4. x \in PassState
  <2>1. n \in 0 .. MaxConcurrentRuns
    BY PassTypes, SchedulerAssumption
  <2>2. pass[c] \in PassState
    BY PassTypes
  <2> QED BY <2>1, <2>2 DEF PassState
<1>5. pass' = [pass EXCEPT ![c] = x]
  BY <1>1, PassTypes DEF Inv, TypeOK, SchedulerTypeOK
<1>6. Cardinality(Running(queue)) + x.slots <= MaxConcurrentRuns
  <2>1. x.slots = n
    BY PassTypes DEF PassState
  <2>2. Cardinality(Running(queue)) + pass[c].slots <= MaxConcurrentRuns
    BY DEF Inv, SlotInv
  <2> QED BY <1>1, <2>1, <2>2, PassTypes, RunningFinite, SchedulerAssumption
<1>7. x.pc # "idle" /\ queue' = queue
  BY <1>1, <1>3, PassTypes DEF PassState, PassFrame, storeVars
<1>8. SlotInv' /\ pass' \in [Claimants -> PassState]
  BY <1>2, <1>3, <1>4, <1>5, <1>6, <1>7, PassMove
<1> QED BY <1>3, <1>8, InvBefore, BeforePipes, PassGoodFrom DEF Inv, TypeOK, SchedulerTypeOK

\* A claim is handed to a pipeline that is free, with a key that has a runner.
LEMMA DispatchGood ==
    ASSUME Inv, NEW c \in Claimants, Dispatch(c)
    PROVE  PassGood(c)
<1>1. PICK cl \in pass[c].batch :
        /\ pass' = [pass EXCEPT ![c].batch = @ \ {cl}]
        /\ IF HasProcessor(cl)
           THEN \E p \in FreePipes :
                  pipes' = [pipes EXCEPT ![p] = [IdlePipe EXCEPT !.pc = "start", !.claim = cl]]
           ELSE UNCHANGED pipes
  BY DEF Dispatch
<1>2. claimMu = c /\ pass[c].pc # "idle"
  BY DEF Dispatch, AtPass, Inv, SlotInv
<1>3. PassFrame(c) /\ UNCHANGED <<reposMu, claimMu, tick>>
  BY <1>2 DEF Dispatch, PassFrame
<1>4. pipes' \in [Pipes -> SoundState]
  <2>1. CASE HasProcessor(cl)
    <3>1. PICK p \in FreePipes :
            pipes' = [pipes EXCEPT ![p] = [IdlePipe EXCEPT !.pc = "start", !.claim = cl]]
      BY <1>1, <2>1
    <3> DEFINE x == [IdlePipe EXCEPT !.pc = "start", !.claim = cl]
    <3>2. cl \in Claim
      BY <1>1, PassTypes
    <3>3. x \in PipeState
      BY <3>2, IdlePipeSound DEF SoundState, PipeState, PipePC
    <3>4. SoundPipe(x)
      BY <2>1 DEF SoundPipe, HasProcessor, IdlePipe
    <3> QED BY <3>1, <3>3, <3>4, InvBefore, PipeUpdate DEF SoundState, FreePipes
  <2>2. CASE ~HasProcessor(cl)
    BY <1>1, <2>2, InvBefore, BeforePipes
  <2> QED BY <2>1, <2>2
<1> DEFINE y == [pass[c] EXCEPT !.batch = pass[c].batch \ {cl}]
<1>5. y \in PassState /\ y.pc = pass[c].pc /\ y.slots = pass[c].slots
  BY PassTypes DEF PassState
<1>6. pass' = [pass EXCEPT ![c] = y]
  BY <1>1, PassTypes DEF Inv, TypeOK, SchedulerTypeOK
<1>7. Cardinality(Running(queue)) + pass[c].slots <= MaxConcurrentRuns /\ queue' = queue
  BY <1>3 DEF Inv, SlotInv, PassFrame, storeVars
<1>8. SlotInv' /\ pass' \in [Claimants -> PassState]
  BY <1>2, <1>3, <1>5, <1>6, <1>7, PassMove
<1> QED BY <1>3, <1>4, <1>8, PassGoodFrom DEF Inv, TypeOK, RunnerTypeOK, SchedulerTypeOK

\* The end of a pass, which lets claim_mu go.
LEMMA EndGood ==
    ASSUME Inv, NEW c \in Claimants, PassEnd(c)
    PROVE  PassGood(c)
<1>1. /\ claimMu' = Free /\ pass' = [pass EXCEPT ![c] = IdlePass] /\ EndPhase(c)
      /\ UNCHANGED runnerVars /\ queue' = queue
  BY DEF PassEnd, storeVars
<1>2. claimMu = c
  BY DEF PassEnd, AtPass, Inv, SlotInv
<1>3. PassFrame(c)
  BY <1>1, <1>2 DEF PassEnd, PassFrame
<1>4. Cardinality(Running(queue)) + 0 <= MaxConcurrentRuns
  BY RunningFinite, PassTypes, SchedulerAssumption DEF Inv, SlotInv
<1>5. SlotInv' /\ pass' \in [Claimants -> PassState]
  BY <1>1, <1>2, <1>4, IdlePassType, PassMove DEF IdlePass
<1> QED BY <1>1, <1>3, <1>5, InvBefore, BeforePipes, PhaseEnds, PassGoodFrom
        DEF runnerVars, Inv, TypeOK, RunnerTypeOK

\* Every step of a claim pass, of either thread.
LEMMA PassStepGood ==
    ASSUME Inv, NEW c \in Claimants, PassStep(c)
    PROVE  PassGood(c)
BY ClaimGood, BeginGood, MiddleGood, DispatchGood, EndGood DEF PassStep

-----------------------------------------------------------------------------
(* Discovery *)

\* What a step of discovery does; the passes and the pipelines are left alone.
DiscoveryGood == /\ QuietStep
                 /\ loops' \in [Loops -> LoopRow]
                 /\ reposMu' \in {Free} \cup Claimants \cup Pipes
                 /\ tick' \in TickState
                 /\ UNCHANGED <<runs, locks, pipes, claimMu, pass>>

\* The parts of the tick's state and the tables have their types.
LEMMA TickTypes ==
    ASSUME Inv
    PROVE  /\ tick \in TickState /\ tick.key \in Keys /\ tick.loop \in Loops \cup {NoLoop}
           /\ queue \in QueueTable /\ loops \in [Loops -> LoopRow]
           /\ reposMu \in {Free} \cup Claimants \cup Pipes
           /\ StorageTypeOK
BY DEF Inv, TypeOK, StorageTypeOK, RunnerTypeOK, SchedulerTypeOK, TickState, QueueTable

\* The current discovery goes on to a pc, a key and a loop, or to the next phase.
LEMMA TickMoves ==
    ASSUME Inv, NEW pc \in TickPC, NEW k \in Keys, NEW l \in Loops \cup {NoLoop},
           NEW left \in SUBSET Keys
    PROVE  [tick EXCEPT !.pc = pc, !.key = k, !.loop = l, !.left = left] \in TickState
BY TickTypes DEF TickState

\* A discovery that is done with a subject is at a place in its round.
LEMMA ItemDoneType ==
    ASSUME Inv, ItemDone
    PROVE  tick' \in TickState
BY TickTypes, SomeKeyType DEF ItemDone, TickState, TickPC

\* A discovery has found a subject and goes on to its loop or its item.
LEMMA FindGood ==
    ASSUME Inv, NEW k \in DiscoverKeys, FindIssue(k) \/ FindPullRequest(k)
    PROVE  DiscoveryGood
<1>1. UNCHANGED <<storeVars, pipes, claimMu, pass>>
  BY DEF FindIssue, FindPullRequest, runnerVars
<1>2. reposMu' \in {Free} \cup Claimants \cup Pipes
  BY TickTypes, RunnerAssumption DEF FindIssue, FindPullRequest, runnerVars
<1>3. k \in Keys /\ {"create", "insert"} \subseteq TickPC
  BY SchedulerAssumption DEF TickPC
<1>4. tick' \in TickState
  <2>1. CASE tick' = [tick EXCEPT !.pc = "create", !.key = k, !.left = @ \ {k}]
    BY <1>3, <2>1, TickTypes DEF TickState
  <2>2. CASE \E l \in Loops : tick' = [tick EXCEPT !.pc = "insert", !.key = k, !.loop = l,
                                                   !.left = @ \ {k}]
    BY ZenonT(30), <1>3, <2>2, TickTypes DEF TickState
  <2>3. ReusableLoops(loops, k) \subseteq Loops
    BY DEF ReusableLoops, ReusablePrLoops, ReusableFixerLoops
  <2> QED BY <2>1, <2>2, <2>3 DEF FindIssue, FindPullRequest
<1> QED BY <1>1, <1>2, <1>4, SameQueue, TickTypes DEF DiscoveryGood, storeVars

\* It creates a loop.
LEMMA CreateGood ==
    ASSUME Inv, CreateIssueLoop \/ CreatePrLoop
    PROVE  DiscoveryGood
<1>1. UNCHANGED <<queue, runs, locks, pipes, claimMu, pass>>
  BY DEF CreateIssueLoop, CreatePrLoop, runnerVars
<1>2. reposMu' \in {Free} \cup Claimants \cup Pipes
  BY TickTypes DEF CreateIssueLoop, CreatePrLoop, runnerVars
<1>3. loops' \in [Loops -> LoopRow]
  <2>1. \/ loops' = loops
        \/ \E l \in Loops, st \in {"active", "queued"},
              ty \in {"planner", "worker", "review", "fixer"} :
              loops' = InsertLoop(loops, l, st, ty, KeyTarget[tick.key], "bare")
    BY DEF CreateIssueLoop, CreatePrLoop
  <2>2. {"active", "queued"} \subseteq LoopStatus
    BY DEF LoopStatus
  <2>3. {"planner", "worker", "review", "fixer"} \subseteq LoopTypes
    BY DEF LoopTypes, IndexedTypes
  <2> QED BY SMTT(30), <2>1, <2>2, <2>3, TickTypes, InsertLoopType DEF TargetForm
<1>4. tick' \in TickState
  <2>1. ItemDone \/ \E l \in Loops : tick' = [tick EXCEPT !.pc = "insert", !.loop = l]
    BY DEF CreateIssueLoop, CreatePrLoop
  <2> QED BY ZenonT(30), <2>1, ItemDoneType, TickTypes DEF TickState, TickPC
<1> QED BY <1>1, <1>2, <1>3, <1>4, SameQueue, TickTypes DEF DiscoveryGood

\* It inserts the item.
LEMMA InsertGood ==
    ASSUME Inv, InsertIssueItem \/ InsertPrItem
    PROVE  DiscoveryGood
<1>1. UNCHANGED <<loops, runs, locks, pipes, claimMu, pass>> /\ ItemDone
  BY DEF InsertIssueItem, InsertPrItem, runnerVars
<1>2. reposMu' \in {Free} \cup Claimants \cup Pipes
  BY TickTypes DEF InsertIssueItem, InsertPrItem, runnerVars
<1>3. \E lk \in BOOLEAN : \/ queue' \in UpsertActive(queue, tick.key, tick.loop, lk)
                          \/ queue' \in CreateOrGet(queue, tick.key, tick.loop, lk)
  BY DEF InsertIssueItem, InsertPrItem
<1>4. QuietStep
  BY <1>3, TickTypes, StorageAssumption, UpsertActiveLemma, CreateOrGetLemma DEF QuietStep
<1> QED BY <1>1, <1>2, <1>4, ItemDoneType, TickTypes DEF DiscoveryGood

\* Every step of discovery.
LEMMA DiscoveryStepGood ==
    ASSUME Inv, DiscoveryStep
    PROVE  DiscoveryGood
<1>1. CASE DiscoveryEnd
  <2>1. EndPhase("tick")
    BY <1>1 DEF DiscoveryEnd, EndPhase
  <2>2. tick' \in TickState
    BY <2>1, PhaseEnds, RunnerAssumption
  <2> QED BY <1>1, <2>2, SameQueue, TickTypes
          DEF DiscoveryEnd, DiscoveryGood, storeVars, runnerVars
<1> QED BY <1>1, FindGood, CreateGood, InsertGood DEF DiscoveryStep

-----------------------------------------------------------------------------
(* The HTTP handlers *)

SoundCalls == {x \in ApiState : SoundCall(x)}

\* What a step of a handler does.
HandlerGood == /\ QuietStep
               /\ loops' \in [Loops -> LoopRow]
               /\ runs' = runs
               /\ locks' \subseteq Keys
               /\ api' \in [Handlers -> SoundCalls]

\* The parts of a request's state and the tables have their types.
LEMMA ApiTypes ==
    ASSUME Inv, NEW h \in Handlers
    PROVE  /\ api \in [Handlers -> SoundCalls]
           /\ api[h] \in ApiState /\ SoundCall(api[h])
           /\ api[h].key \in Keys /\ ALoop(h) \in Loops \cup {NoLoop}
           /\ queue \in QueueTable /\ loops \in [Loops -> LoopRow]
           /\ locks \subseteq Keys /\ StorageTypeOK
BY DEF Inv, TypeOK, StorageTypeOK, ApiTypeOK, ApiState, SoundCalls, ALoop, QueueTable

\* The answer of a request, and the pcs that create no loop.
LEMMA ReplyGood ==
    ASSUME Inv, NEW h \in Handlers, Reply(h)
    PROVE  api' \in [Handlers -> SoundCalls]
<1>1. IdleApi \in SoundCalls
  BY SomeKeyType DEF IdleApi, SoundCalls, ApiState, ApiPC, SoundCall, NoLoop
<1> QED BY <1>1, ApiTypes DEF Reply

CallPC == ApiPC \ {"create", "createLoop"}

\* A request that goes on to a pc that creates no loop.
LEMMA CallGood ==
    ASSUME Inv, NEW h \in Handlers, NEW pc \in CallPC, NEW l \in Loops \cup {NoLoop},
           ApiCall(h, pc, l) \/ ApiGoto(h, pc)
    PROVE  api' \in [Handlers -> SoundCalls]
<1> DEFINE x == [api[h] EXCEPT !.pc = pc, !.loop = l]
           y == [api[h] EXCEPT !.pc = pc]
<1>1. x \in SoundCalls /\ y \in SoundCalls
  BY ApiTypes DEF SoundCalls, ApiState, CallPC, SoundCall
<1>2. api' = [api EXCEPT ![h] = x] \/ api' = [api EXCEPT ![h] = y]
  BY ApiTypes DEF ApiCall, ApiGoto
<1> QED BY <1>1, <1>2, ApiTypes

\* The pcs and the statuses the handlers name.
LEMMA CallPCs ==
    /\ {"pauseUpdate", "pauseCancel", "resumeUpdate", "resumeCancelled", "resumeFailed",
        "resumeRunning", "stopCancel", "insert"} \subseteq CallPC
    /\ {"paused", "active", "stopped", "closed", "idle", "queued"} \subseteq LoopStatus
BY DEF CallPC, ApiPC, LoopStatus

\* The loop a request is about: pcs that name one come after a choice of it.
LEMMA SetLoopKeeps ==
    ASSUME NEW ls \in [Loops -> LoopRow], NEW l, NEW st \in LoopStatus
    PROVE  SetLoop(ls, l, st) \in [Loops -> LoopRow]
BY DEF SetLoop, LoopRow

\* A cancellation, of one item or of many, starts none.
LEMMA CancelQuiet ==
    ASSUME Inv, NEW S \in SUBSET Items, queue' = CancelActive(queue, S)
    PROVE  QuietStep
BY TickTypes, CancelActiveType DEF QuietStep

\* pause_loop, stop_loop, close_loop and stop_all.
LEMMA PauseGood ==
    ASSUME Inv, NEW h \in Handlers, PauseStep(h) \/ StopStep(h)
    PROVE  HandlerGood
<1>1. runs' = runs /\ locks' \subseteq Keys
  BY ApiTypes DEF PauseStep, PauseRead, PauseUpdate, PauseCancel, StopStep, StopUpdate,
                  StopCancel, StopAll, storeVars
<1>2. QuietStep
  <2>1. queue' = queue \/ \E S \in SUBSET Items : queue' = CancelActive(queue, S)
    BY DEF PauseStep, PauseRead, PauseUpdate, PauseCancel, StopStep, StopUpdate, StopCancel,
           StopAll, CancelLoopItems, storeVars
  <2> QED BY <2>1, CancelQuiet, SameQueue, ApiTypes
<1>3. loops' \in [Loops -> LoopRow]
  <2>1. loops' = loops \/ \E l \in Loops \cup {NoLoop}, st \in LoopStatus :
                         loops' = SetLoop(loops, l, st)
    BY CallPCs, ApiTypes DEF PauseStep, PauseRead, PauseUpdate, PauseCancel, StopStep, StopUpdate,
                   StopCancel, StopAll, storeVars
  <2> QED BY <2>1, SetLoopKeeps, ApiTypes
<1>4. api' \in [Handlers -> SoundCalls]
  <2>1. \/ UNCHANGED api \/ Reply(h)
        \/ \E pc \in CallPC, l \in Loops : ApiCall(h, pc, l) \/ ApiGoto(h, pc)
    <3>1. CASE PauseUpdate(h)
      <4>1. ApiGoto(h, "pauseCancel")
        BY <3>1 DEF PauseUpdate
      <4> QED BY <4>1, CallPCs, StorageAssumption DEF Loops
    <3> QED BY <3>1, CallPCs DEF PauseStep, PauseRead, PauseCancel, StopStep, StopUpdate,
                                 StopCancel, StopAll
  <2> QED BY <2>1, ReplyGood, CallGood, ApiTypes
<1> QED BY <1>1, <1>2, <1>3, <1>4 DEF HandlerGood

\* Resume makes an item of the loop queued only when the index allows it, or
\* it was running.
LEMMA ResumeGood ==
    ASSUME Inv, NEW h \in Handlers, ResumeStep(h)
    PROVE  HandlerGood
<1>1. runs' = runs /\ locks' \subseteq Keys
  BY ApiTypes DEF ResumeStep, ResumeRead, ResumeUpdate, ResumeCancelled, ResumeFailed,
                  ResumeRunning, storeVars
<1>2. QuietStep
  <2>1. CASE queue' = queue
    BY <2>1, SameQueue, ApiTypes
  <2>2. CASE \E i \in Items : IndexAllows(queue, i) /\ queue' = SetStatus(queue, {i}, "queued")
    <3>1. PICK i \in Items : IndexAllows(queue, i) /\ queue' = SetStatus(queue, {i}, "queued")
      BY <2>2
    <3>2. "queued" \in ItemStatus /\ "queued" \in ActiveStatus
      BY DEF ItemStatus, ActiveStatus
    <3> QED BY <3>1, <3>2, TickTypes, SetStatusType, SetStatusStartsNone, AllowedMoveKeepsIndex
            DEF QuietStep
  <2>3. CASE \E l : queue' = SetStatus(queue, ItemsOf(queue, l, "running"), "queued")
    <3>1. PICK l : queue' = SetStatus(queue, ItemsOf(queue, l, "running"), "queued")
      BY <2>3
    <3>2. "queued" \in ItemStatus /\ "queued" \in ActiveStatus
      BY DEF ItemStatus, ActiveStatus
    <3>3. ItemsOf(queue, l, "running") \in SUBSET Items
          /\ \A i \in ItemsOf(queue, l, "running") : Active(queue, i)
      BY DEF ItemsOf, Active, ActiveStatus
    <3>4. IndexHolds(queue) => IndexHolds(queue')
      BY <3>1, <3>2, <3>3, TickTypes, ActiveMoveKeepsIndex
    <3>5. queue' \in QueueTable /\ Running(queue') \subseteq Running(queue)
      BY <3>1, <3>2, TickTypes, SetStatusType, SetStatusStartsNone
    <3> QED BY <3>4, <3>5 DEF QuietStep
  <2>4. ASSUME NEW st, NEW pc, RequeueOne(h, st, pc)
        PROVE  QuietStep
    BY <2>1, <2>2, <2>4 DEF RequeueOne, ItemsOf
  <2> QED BY <2>1, <2>3, <2>4 DEF ResumeStep, ResumeRead, ResumeUpdate, ResumeCancelled,
                                  ResumeFailed, ResumeRunning, storeVars
<1>3. loops' \in [Loops -> LoopRow]
  <2>1. loops' = loops \/ \E l \in Loops \cup {NoLoop}, st \in LoopStatus :
                         loops' = SetLoop(loops, l, st)
    BY CallPCs, ApiTypes DEF ResumeStep, ResumeRead, ResumeUpdate, ResumeCancelled, ResumeFailed,
                   ResumeRunning, storeVars
  <2> QED BY <2>1, SetLoopKeeps, ApiTypes
<1>4. api' \in [Handlers -> SoundCalls]
  <2>1. \/ Reply(h)
        \/ \E pc \in CallPC : ApiGoto(h, pc)
        \/ \E pc \in CallPC, l \in Loops : ApiCall(h, pc, l)
    BY CallPCs DEF ResumeStep, ResumeRead, ResumeUpdate, ResumeCancelled, ResumeFailed,
                   ResumeRunning, RequeueOne
  <2>2. NoLoop \in Loops \cup {NoLoop}
    OBVIOUS
  <2> QED BY <2>1, <2>2, ReplyGood, CallGood
<1> QED BY <1>1, <1>2, <1>3, <1>4 DEF HandlerGood

\* The requests that create loops and items.
LEMMA AdmitGood ==
    ASSUME Inv, NEW h \in Handlers, AdmitStep(h)
    PROVE  HandlerGood
<1>1. runs' = runs /\ locks' \subseteq Keys
  BY ApiTypes DEF AdmitStep, AdmitRead, CreateLoopRead, CreateLoop, AdmitCreate, Insert,
                  EnqueueFind, storeVars
<1>2. QuietStep
  <2>1. CASE queue' = queue
    BY <2>1, SameQueue, ApiTypes
  <2>2. CASE Insert(h)
    <3>1. api[h].lockable \in BOOLEAN
      BY ApiTypes DEF ApiState
    <3> QED BY <2>2, <3>1, ApiTypes, StorageAssumption, CreateOrGetLemma DEF Insert, QuietStep
  <2> QED BY <2>1, <2>2 DEF AdmitStep, AdmitRead, CreateLoopRead, CreateLoop, AdmitCreate,
                            EnqueueFind, storeVars
<1>3. loops' \in [Loops -> LoopRow]
  <2>1. CASE loops' = loops
    BY <2>1, ApiTypes
  <2>2. CASE CreateLoop(h) \/ AdmitCreate(h)
    <3>1. KeyType[api[h].key] \in LoopTypes
      BY <2>2, ApiTypes DEF CreateLoop, AdmitCreate, AtApi, SoundCall, LoopTypes
    <3>2. \/ loops' = loops
          \/ \E l \in Loops, st \in {"idle", "queued"}, f \in TargetForm :
               loops' = InsertLoop(loops, l, st, KeyType[api[h].key],
                                   KeyTarget[api[h].key], f)
      BY <2>2 DEF CreateLoop, AdmitCreate, TargetForm
    <3> QED BY <3>1, <3>2, <2>1, CallPCs, ApiTypes, InsertLoopType
  <2> QED BY <2>1, <2>2 DEF AdmitStep, AdmitRead, CreateLoopRead, Insert, EnqueueFind, storeVars
<1>4. api' \in [Handlers -> SoundCalls]
  <2>1. CASE Reply(h)
    BY <2>1, ReplyGood
  <2>2. CASE \E k \in AdmitKeys : AdmitRead(h, k) \/ CreateLoopRead(h, k)
    <3>1. PICK k \in AdmitKeys : AdmitRead(h, k) \/ CreateLoopRead(h, k)
      BY <2>2
    <3>2. k \in Keys /\ KeyType[k] \in IndexedTypes
      BY ApiAssumption
    <3>3. {"insert", "create", "createLoop"} \subseteq ApiPC
      BY DEF ApiPC
    <3>4. CASE AdmitRead(h, k)
      <4>1. PICK pc \in {"insert", "create"}, l \in Loops \cup {NoLoop} :
              api' = [api EXCEPT ![h] = [pc |-> pc, key |-> k, loop |-> l, lockable |-> TRUE]]
        BY <3>4 DEF AdmitRead, AdmitReusable
      <4>2. [pc |-> pc, key |-> k, loop |-> l, lockable |-> TRUE] \in SoundCalls
        BY <3>2, <3>3 DEF SoundCalls, ApiState, SoundCall
      <4> QED BY <4>1, <4>2, ApiTypes
    <3>5. CASE CreateLoopRead(h, k)
      <4> DEFINE x == [api[h] EXCEPT !.pc = "createLoop", !.key = k]
      <4>1. x \in SoundCalls
        BY <3>2, <3>3, ApiTypes DEF SoundCalls, ApiState, SoundCall
      <4>2. api' = [api EXCEPT ![h] = x]
        BY <3>5, ApiTypes DEF CreateLoopRead
      <4> QED BY <4>1, <4>2, ApiTypes
    <3> QED BY <3>1, <3>4, <3>5
  <2>3. CASE \E l \in Loops : ApiCall(h, "insert", l)
    BY <2>3, CallPCs, CallGood
  <2>4. CASE \E k \in Keys, l \in Loops \cup {NoLoop} : EnqueueFind(h, k, l)
    <3>1. PICK k \in Keys, l \in Loops \cup {NoLoop} : EnqueueFind(h, k, l)
      BY <2>4
    <3>2. [pc |-> "insert", key |-> k, loop |-> l, lockable |-> FALSE] \in SoundCalls
      BY DEF SoundCalls, ApiState, SoundCall, ApiPC
    <3> QED BY <3>1, <3>2, ApiTypes DEF EnqueueFind
  <2> QED BY <2>1, <2>2, <2>3, <2>4 DEF AdmitStep, CreateLoop, AdmitCreate, Insert
<1> QED BY <1>1, <1>2, <1>3, <1>4 DEF HandlerGood

\* Every step of a handler.
LEMMA HandlerStepGood ==
    ASSUME Inv, NEW h \in Handlers, HandlerStep(h)
    PROVE  HandlerGood /\ UNCHANGED <<runnerVars, schedVars>>
<1>1. CASE \E i \in Items : Dequeue(h, i)
  <2>1. QuietStep /\ UNCHANGED <<loops, runs, locks, api>>
    BY <1>1, CancelQuiet DEF Dequeue
  <2> QED BY <2>1, ApiTypes DEF HandlerGood, HandlerStep
<1>2. CASE \E k \in Keys : AcquireLock(h, k) \/ ReleaseLock(k)
  <2>1. UNCHANGED <<queue, loops, runs, api>> /\ locks' \subseteq Keys
    BY <1>2, ApiTypes DEF AcquireLock, ReleaseLock
  <2> QED BY <2>1, SameQueue, ApiTypes DEF HandlerGood, HandlerStep
<1> QED BY <1>1, <1>2, PauseGood, ResumeGood, AdmitGood DEF HandlerStep

-----------------------------------------------------------------------------
(* The invariant *)

\* What a step promises besides Inv': the index is kept, and the running
\* items shrink or gain one below the limit.
StepGood == /\ Inv'
            /\ QuietStep \/ ClaimStep
            /\ IndexHolds(queue) => IndexHolds(queue')

\* The daemon starts with empty tables and nobody at work.
LEMMA InitInv == Init => Inv
<1> SUFFICES ASSUME Init PROVE Inv
  OBVIOUS
<1>1. StorageTypeOK
  BY SomeKeyType, StorageAssumption
     DEF Init, StorageInit, StorageTypeOK, ItemRow, LoopRow, RunRow, ItemStatus, LoopStatus,
         RunStatus, LoopTypes, IndexedTypes, TargetForm
<1>2. RunnerTypeOK /\ \A p \in Pipes : SoundPipe(pipes[p])
  BY IdlePipeSound DEF Init, RunnerInit, RunnerTypeOK, SoundState
<1>3. FirstPhase \in TickState
  BY SomeKeyType, SchedulerAssumption DEF FirstPhase, TickState, TickPC, NoLoop
<1>4. SchedulerTypeOK
  BY <1>3, IdlePassType DEF Init, SchedulerInit, SchedulerTypeOK
<1>5. ApiTypeOK /\ \A h \in Handlers : SoundCall(api[h])
  BY SomeKeyType DEF Init, ApiInit, ApiTypeOK, IdleApi, ApiState, ApiPC, SoundCall, NoLoop
<1>6. SlotInv
  <2>1. Running(queue) = {}
    BY DEF Init, StorageInit, Running
  <2>2. Cardinality(Running(queue)) = 0
    BY <2>1, FS_EmptySet
  <2> QED BY <2>2, SchedulerAssumption DEF Init, SchedulerInit, SlotInv, IdlePass
<1>7. up \in BOOLEAN /\ crashes \in 0 .. MaxCrashes
  BY DaemonAssumption DEF Init
<1> QED BY <1>1, <1>2, <1>4, <1>5, <1>6, <1>7 DEF Inv, TypeOK

\* A step of a pipeline, of either thread, or of a handler leaves the rest alone.
LEMMA PipeInv ==
    ASSUME Inv, NEW p \in Pipes, RunPipe(p)
    PROVE  StepGood
<1>1. PipeGood
  BY InvBefore, PipeStepGood DEF RunPipe
<1>2. UNCHANGED <<claimMu, pass, tick, api, up, crashes>>
  BY DEF RunPipe, schedVars, lifeVars
<1>3. SlotInv'
  BY <1>1, <1>2, SlotsKept DEF PipeGood
<1>4. StorageTypeOK' /\ RunnerTypeOK' /\ \A x \in Pipes : SoundPipe(pipes'[x])
  BY <1>1 DEF PipeGood, QuietStep, QueueTable, StorageTypeOK, RunnerTypeOK, SoundState,
              Inv, TypeOK
<1>5. SchedulerTypeOK' /\ ApiTypeOK' /\ up' \in BOOLEAN /\ crashes' \in 0 .. MaxCrashes
      /\ \A h \in Handlers : SoundCall(api'[h])
  BY <1>2 DEF SchedulerTypeOK, ApiTypeOK, Inv, TypeOK
<1> QED BY <1>1, <1>3, <1>4, <1>5 DEF StepGood, PipeGood, QuietStep, Inv, TypeOK

\* A step of a claim pass.
LEMMA PassInv ==
    ASSUME Inv, NEW c \in Claimants, PassStep(c), UNCHANGED <<api, lifeVars>>
    PROVE  StepGood
<1>1. PassGood(c)
  BY PassStepGood
<1>2. StorageTypeOK' /\ RunnerTypeOK' /\ \A x \in Pipes : SoundPipe(pipes'[x])
  BY <1>1 DEF PassGood, QueueTable, StorageTypeOK, RunnerTypeOK, SoundState, Inv, TypeOK
<1>3. SchedulerTypeOK' /\ ApiTypeOK' /\ up' \in BOOLEAN /\ crashes' \in 0 .. MaxCrashes
      /\ \A h \in Handlers : SoundCall(api'[h])
  BY <1>1 DEF PassGood, SchedulerTypeOK, ApiTypeOK, lifeVars, Inv, TypeOK
<1> QED BY <1>1, <1>2, <1>3 DEF StepGood, PassGood, Inv, TypeOK

\* A step of discovery.
LEMMA DiscoveryInv ==
    ASSUME Inv, DiscoveryStep, UNCHANGED <<api, lifeVars>>
    PROVE  StepGood
<1>1. DiscoveryGood
  BY DiscoveryStepGood
<1>2. SlotInv'
  BY <1>1, SlotsKept DEF DiscoveryGood
<1>3. StorageTypeOK' /\ RunnerTypeOK' /\ \A x \in Pipes : SoundPipe(pipes'[x])
  BY <1>1 DEF DiscoveryGood, QuietStep, QueueTable, StorageTypeOK, RunnerTypeOK, Inv, TypeOK
<1>4. SchedulerTypeOK' /\ ApiTypeOK' /\ up' \in BOOLEAN /\ crashes' \in 0 .. MaxCrashes
      /\ \A h \in Handlers : SoundCall(api'[h])
  BY <1>1 DEF DiscoveryGood, SchedulerTypeOK, ApiTypeOK, lifeVars, Inv, TypeOK
<1> QED BY <1>1, <1>2, <1>3, <1>4 DEF StepGood, DiscoveryGood, QuietStep, Inv, TypeOK

\* A step of a handler.
LEMMA HandlerInv ==
    ASSUME Inv, NEW h \in Handlers, RunApi(h)
    PROVE  StepGood
<1>1. HandlerGood /\ UNCHANGED <<runnerVars, schedVars>>
  BY HandlerStepGood DEF RunApi
<1>2. UNCHANGED <<reposMu, pipes, claimMu, pass, tick, up, crashes>>
  BY <1>1 DEF RunApi, lifeVars, runnerVars, schedVars
<1>3. SlotInv'
  BY <1>1, <1>2, SlotsKept DEF HandlerGood
<1>4. StorageTypeOK' /\ RunnerTypeOK' /\ \A x \in Pipes : SoundPipe(pipes'[x])
  BY <1>1, <1>2 DEF HandlerGood, QuietStep, QueueTable, StorageTypeOK, RunnerTypeOK, Inv, TypeOK
<1>5. SchedulerTypeOK' /\ ApiTypeOK' /\ up' \in BOOLEAN /\ crashes' \in 0 .. MaxCrashes
      /\ \A g \in Handlers : SoundCall(api'[g])
  BY <1>1, <1>2 DEF HandlerGood, SoundCalls, SchedulerTypeOK, ApiTypeOK, Inv, TypeOK
<1> QED BY <1>1, <1>3, <1>4, <1>5 DEF StepGood, HandlerGood, QuietStep, Inv, TypeOK

\* The process dies or starts.
LEMMA LifeInv ==
    ASSUME Inv, Crash \/ Restart
    PROVE  StepGood
<1>1. CASE Crash
  <2>1. QuietStep /\ StorageTypeOK'
    BY <1>1, SameQueue, TickTypes DEF Crash, storeVars, StorageTypeOK
  <2>2. RunnerTypeOK' /\ \A x \in Pipes : SoundPipe(pipes'[x])
    BY <1>1, IdlePipeSound DEF Crash, RunnerTypeOK, SoundState
  <2>3. FirstPhase \in TickState
    BY SomeKeyType, SchedulerAssumption DEF FirstPhase, TickState, TickPC, NoLoop
  <2>4. SchedulerTypeOK'
    BY <1>1, <2>3, IdlePassType DEF Crash, SchedulerTypeOK
  <2>5. ApiTypeOK' /\ \A h \in Handlers : SoundCall(api'[h])
    BY <1>1, SomeKeyType DEF Crash, ApiTypeOK, IdleApi, ApiState, ApiPC, SoundCall, NoLoop
  <2>6. SlotInv'
    <3>1. Cardinality(Running(queue)) + 0 <= MaxConcurrentRuns
      BY RunningFinite, PassTypes, SchedulerAssumption, RunnerAssumption DEF Inv, SlotInv
    <3> QED BY <1>1, <3>1 DEF Crash, SlotInv, IdlePass, storeVars
  <2>7. up' \in BOOLEAN /\ crashes' \in 0 .. MaxCrashes
    <3>1. up' = FALSE /\ crashes < MaxCrashes /\ crashes' = crashes + 1
      BY <1>1 DEF Crash
    <3>2. crashes \in 0 .. MaxCrashes
      BY DEF Inv, TypeOK
    <3>3. crashes' \in 0 .. MaxCrashes
      BY <3>1, <3>2, DaemonAssumption
    <3> QED BY <3>1, <3>3
  <2> QED BY <2>1, <2>2, <2>4, <2>5, <2>6, <2>7 DEF StepGood, QuietStep, Inv, TypeOK
<1>2. CASE Restart
  <2>1. UNCHANGED <<queue, loops, locks, reposMu, pipes, claimMu, pass, tick, api, crashes>>
    BY <1>2 DEF Restart, runnerVars, schedVars
  <2>2. QuietStep /\ SlotInv'
    BY <2>1, SameQueue, TickTypes, SlotsKept
  <2>3. runs' \in [Runs -> RunRow]
    BY <1>2 DEF Restart, RunRow, RunStatus, Inv, TypeOK, StorageTypeOK
  <2>4. up' \in BOOLEAN
    BY <1>2 DEF Restart
  <2> QED BY <2>1, <2>2, <2>3, <2>4
          DEF StepGood, QuietStep, Inv, TypeOK, StorageTypeOK, RunnerTypeOK, SchedulerTypeOK,
              ApiTypeOK
<1> QED BY <1>1, <1>2

\* Every step of the daemon.
LEMMA NextGood == Inv /\ Next => StepGood
<1> SUFFICES ASSUME Inv, Next PROVE StepGood
  OBVIOUS
<1>1. CASE RunTick
  BY <1>1, PassInv, DiscoveryInv, RunnerAssumption DEF RunTick, TickStep
<1>2. CASE RunPump
  BY <1>2, PassInv DEF RunPump, PumpStep
<1> QED BY <1>1, <1>2, PipeInv, HandlerInv, LifeInv DEF Next

\* A step that changes nothing.
LEMMA StutterGood == Inv /\ UNCHANGED vars => StepGood
<1> SUFFICES ASSUME Inv, UNCHANGED vars PROVE StepGood
  OBVIOUS
<1>1. UNCHANGED <<queue, loops, runs, locks, reposMu, pipes, claimMu, pass, tick, api, up, crashes>>
  BY DEF vars, storeVars, runnerVars, schedVars, lifeVars
<1>2. QuietStep /\ SlotInv'
  BY <1>1, SameQueue, TickTypes, SlotsKept
<1> QED BY <1>1, <1>2 DEF StepGood, QuietStep, Inv, TypeOK, StorageTypeOK, RunnerTypeOK,
                          SchedulerTypeOK, ApiTypeOK

\* Every reachable state has well-typed tables, threads and requests; every
\* pipeline has a key with a runner and, past its start, a loop; and a pass
\* that is under way holds claim_mu and slots that are free.
THEOREM Invariance == Spec => []Inv
<1>1. Init => Inv
  BY InitInv
<1>2. Inv /\ [Next]_vars => Inv'
  BY NextGood, StutterGood DEF StepGood
<1> QED BY <1>1, <1>2, PTL DEF Spec

\* Type correctness of the daemon.
THEOREM TypeCorrect == Spec => []TypeOK
<1>1. Inv => TypeOK
  BY DEF Inv
<1> QED BY <1>1, Invariance, PTL

\* compute_available_slots and claim_mu: at most max_concurrent_runs items are
\* running, for any number of pipelines, requests and deaths of the process.
THEOREM Limit == Spec => []RunningWithinLimit
<1>1. Inv => RunningWithinLimit
  BY RunnerAssumption, SchedulerAssumption, RunningFinite, PassTypes
     DEF Inv, SlotInv, RunningWithinLimit
<1> QED BY <1>1, Invariance, PTL

\* The scheduler implements the pool of slots: a claim takes a free one, and
\* everything else at most gives some back.
THEOREM Refinement == Spec => ImplementsSlotPool
<1>1. Init => Pool!Init
  BY DEF Init, StorageInit, Running, Pool!Init
<1>2. Inv /\ [Next]_vars => [Pool!Next]_(Running(queue))
  <2> SUFFICES ASSUME Inv, [Next]_vars PROVE Pool!Next \/ Running(queue') = Running(queue)
    OBVIOUS
  <2>1. QuietStep \/ ClaimStep
    BY NextGood, StutterGood DEF StepGood
  <2>2. CASE QuietStep
    <3>1. Running(queue') = Running(queue) \ (Running(queue) \ Running(queue'))
      BY <2>2 DEF QuietStep
    <3>2. Pool!GiveBack(Running(queue) \ Running(queue'))
      BY <3>1 DEF Pool!GiveBack
    <3> QED BY <3>2 DEF Pool!Next
  <2>3. CASE ClaimStep
    <3>1. PICK i \in Items : /\ queue[i].status = "queued"
                             /\ queue' = ClaimItem(queue, i)
                             /\ Cardinality(Running(queue)) < MaxConcurrentRuns
      BY <2>3 DEF ClaimStep
    <3>2. Running(queue') = Running(queue) \cup {i} /\ i \notin Running(queue)
      BY <3>1, TickTypes, ClaimItemLemma
    <3>3. Pool!Take(i)
      BY <3>1, <3>2 DEF Pool!Take, Pool!Cardinality, Cardinality
    <3> QED BY <3>3 DEF Pool!Next
  <2> QED BY <2>1, <2>2, <2>3
<1> QED BY <1>1, <1>2, Invariance, PTL DEF Spec, ImplementsSlotPool, Pool!Spec

\* No statement of any thread leaves two active items of one dedupe key.
THEOREM Dedupe == Spec => []OneActivePerDedupe
<1>1. OneActivePerDedupe <=> IndexHolds(queue)
  BY DEF OneActivePerDedupe, IndexHolds
<1>2. Init => IndexHolds(queue)
  BY DEF Init, StorageInit, IndexHolds, Active, ActiveStatus
<1>3. Inv /\ IndexHolds(queue) /\ [Next]_vars => IndexHolds(queue)'
  BY NextGood, StutterGood DEF StepGood
<1> QED BY <1>1, <1>2, <1>3, Invariance, PTL DEF Spec

=============================================================================
