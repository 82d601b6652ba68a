---------------------------------- MODULE Api ----------------------------------
(***************************************************************************)
(* The HTTP handlers that change scheduling state (crate looper-api, with  *)
(* admit_work of looper-service and stop/close/stop_all of looperd).  A    *)
(* handler is a sequence of SQL statements on connections of its own: it   *)
(* takes neither claim_mu nor the SendRepos mutex, so any step of another  *)
(* thread can fall between two of its statements.                          *)
(***************************************************************************)
EXTENDS Scheduler

CONSTANTS
    Handlers,     \* requests in flight
    ApiOps,       \* the operations the clients use
    AdmitKeys,    \* keys of admit_work and create_loop
    EnqueueKeys,  \* keys of /enqueue ({project}/{type})
    RepairKeys    \* key of repair_reviewer

ASSUME ApiAssumption ==
    /\ AdmitKeys \subseteq {k \in Keys : KeyType[k] \in IndexedTypes}
    /\ EnqueueKeys \subseteq Keys
    /\ RepairKeys \subseteq {k \in Keys : KeyType[k] = "reviewer"}

VARIABLE api

ApiPC == {"idle", "pauseUpdate", "pauseCancel", "resumeUpdate", "resumeCancelled",
          "resumeFailed", "resumeRunning", "stopCancel", "createLoop", "create",
          "insert"}
ApiState == [pc : ApiPC, key : Keys, loop : Loops \cup {NoLoop}, lockable : BOOLEAN]
IdleApi == [pc |-> "idle", key |-> SomeKey, loop |-> NoLoop, lockable |-> FALSE]

ApiTypeOK == api \in [Handlers -> ApiState]
ApiInit   == api = [h \in Handlers |-> IdleApi]

Idle(h, op) == api[h].pc = "idle" /\ op \in ApiOps
AtApi(h, pc) == api[h].pc = pc
ALoop(h) == api[h].loop
ApiGoto(h, pc) == api' = [api EXCEPT ![h].pc = pc]
ApiCall(h, pc, l) == api' = [api EXCEPT ![h].pc = pc, ![h].loop = l]
Reply(h) == api' = [api EXCEPT ![h] = IdleApi]

-----------------------------------------------------------------------------
(* pause, resume, stop, close *)

\* The statuses both handlers reject as terminal.
RejectedStatus == {"stopped", "closed", "terminated"}
Controllable(l) == LoopExists(loops, l) /\ loops[l].status \notin RejectedStatus

PauseRead(h, l) ==
    /\ Idle(h, "pause") /\ Controllable(l)
    /\ ApiCall(h, "pauseUpdate", l)
    /\ UNCHANGED storeVars

PauseUpdate(h) ==
    /\ AtApi(h, "pauseUpdate")
    /\ loops' = SetLoop(loops, ALoop(h), "paused")
    /\ ApiGoto(h, "pauseCancel")
    /\ UNCHANGED <<queue, runs, locks>>

\* Mutant: cancel_by_loop takes queued items only.
CancelQueuedOnly(l) == queue' = SetStatus(queue, ItemsOf(queue, l, "queued"), "cancelled")

CancelLoopItems(l) == queue' = CancelActive(queue, {i \in Items : queue[i].loop = l})

PauseCancel(h) ==
    /\ AtApi(h, "pauseCancel")
    /\ CancelLoopItems(ALoop(h))
    /\ Reply(h)
    /\ UNCHANGED <<loops, runs, locks>>

ResumeRead(h, l) ==
    /\ Idle(h, "resume") /\ Controllable(l)
    /\ ApiCall(h, "resumeUpdate", l)
    /\ UNCHANGED storeVars

ResumeUpdate(h) ==
    /\ AtApi(h, "resumeUpdate")
    /\ loops' = SetLoop(loops, ALoop(h), "active")
    /\ ApiGoto(h, "resumeCancelled")
    /\ UNCHANGED <<queue, runs, locks>>

\* Requeue one item of the loop in status st (the latest; ties and the times
\* themselves are abstracted); an index conflict is an error that ends the
\* request, and no such item leads to the next attempt.
RequeueOne(h, st, next) ==
    \/ /\ ItemsOf(queue, ALoop(h), st) # {}
       /\ \E i \in ItemsOf(queue, ALoop(h), st) :
            queue' = IF IndexAllows(queue, i) THEN SetStatus(queue, {i}, "queued") ELSE queue
       /\ Reply(h)
    \/ /\ ItemsOf(queue, ALoop(h), st) = {}
       /\ ApiGoto(h, next)
       /\ UNCHANGED queue

ResumeCancelled(h) ==
    /\ AtApi(h, "resumeCancelled")
    /\ RequeueOne(h, "cancelled", "resumeFailed")
    /\ UNCHANGED <<loops, runs, locks>>

ResumeFailed(h) ==
    /\ AtApi(h, "resumeFailed")
    /\ RequeueOne(h, "failed", "resumeRunning")
    /\ UNCHANGED <<loops, runs, locks>>

\* requeue_running_by_loop
ResumeRunning(h) ==
    /\ AtApi(h, "resumeRunning")
    /\ queue' = SetStatus(queue, ItemsOf(queue, ALoop(h), "running"), "queued")
    /\ Reply(h)
    /\ UNCHANGED <<loops, runs, locks>>

\* stop_loop and close_loop differ in the status they write.
StopUpdate(h, l) ==
    /\ \E op \in {"stop", "close"} :
         /\ Idle(h, op)
         /\ loops' = SetLoop(loops, l, IF op = "stop" THEN "stopped" ELSE "closed")
    /\ LoopExists(loops, l)
    /\ ApiCall(h, "stopCancel", l)
    /\ UNCHANGED <<queue, runs, locks>>

StopCancel(h) ==
    /\ AtApi(h, "stopCancel")
    /\ CancelLoopItems(ALoop(h))
    /\ Reply(h)
    /\ UNCHANGED <<loops, runs, locks>>

-----------------------------------------------------------------------------
(* One-statement requests *)

StopAll(h) ==
    /\ Idle(h, "stop_all")
    /\ queue' = CancelActive(queue, Items)
    /\ UNCHANGED <<loops, runs, locks, api>>

Dequeue(h, i) ==
    /\ Idle(h, "dequeue") /\ Active(queue, i)
    /\ queue' = CancelActive(queue, {i})
    /\ UNCHANGED <<loops, runs, locks, api>>

\* Acquire a lock row, or let one go: release by anyone, or expiry.
AcquireLock(h, k) ==
    /\ Idle(h, "lock")
    /\ locks' = locks \cup {k}
    /\ UNCHANGED <<queue, loops, runs, api>>

ReleaseLock(k) ==
    /\ k \in locks
    /\ locks' = locks \ {k}
    /\ UNCHANGED <<queue, loops, runs, api>>

-----------------------------------------------------------------------------
(* create_loop, admit_work, enqueue, repair_reviewer *)

\* POST loops: refused beside a loop of its type that is_schedulable and whose
\* target_id is the same string, so one that POST loops created.
SchedulableStatus == {"idle", "queued", "running", "paused"}

CreateLoopRead(h, k) ==
    /\ Idle(h, "create_loop")
    /\ \A l \in Loops : /\ loops[l].type = KeyType[k] /\ loops[l].target = KeyTarget[k]
                        /\ loops[l].form = "noRepo"
                        => loops[l].status \notin SchedulableStatus
    /\ api' = [api EXCEPT ![h].pc = "createLoop", ![h].key = k]
    /\ UNCHANGED storeVars

CreateLoop(h) ==
    /\ AtApi(h, "createLoop")
    /\ \/ \E l \in Loops :
            /\ NextLoop(loops, l)
            /\ loops' = InsertLoop(loops, l, "idle", KeyType[api[h].key],
                                   KeyTarget[api[h].key], "noRepo")
       \/ LoopsFull(loops) /\ UNCHANGED loops
    /\ Reply(h)
    /\ UNCHANGED <<queue, runs, locks>>

ActiveLoopStatus == {"idle", "queued", "running", "paused", "waiting", "active"}

\* loop_matches_target: by target_id in full or as a bare number, or for a pull
\* request by pr_number (a worker's key is about an issue here).
AdmitReusable(k) ==
    {l \in Loops : /\ loops[l].type = KeyType[k] /\ loops[l].target = KeyTarget[k]
                   /\ loops[l].form = "noRepo" => KeyType[k] \in {"reviewer", "fixer"}
                   /\ loops[l].status \in ActiveLoopStatus}

\* create_or_reuse_loop: the list of loops, then the insertion of a new one.
AdmitRead(h, k) ==
    /\ Idle(h, "admit")
    /\ \/ \E l \in AdmitReusable(k) :
            api' = [api EXCEPT ![h] = [pc |-> "insert", key |-> k, loop |-> l, lockable |-> TRUE]]
       \/ /\ AdmitReusable(k) = {}
          /\ api' = [api EXCEPT ![h] = [pc |-> "create", key |-> k, loop |-> NoLoop, lockable |-> TRUE]]
    /\ UNCHANGED storeVars

AdmitCreate(h) ==
    /\ AtApi(h, "create")
    /\ \/ \E l \in Loops :
            /\ NextLoop(loops, l)
            /\ loops' = InsertLoop(loops, l, "queued", KeyType[api[h].key],
                                   KeyTarget[api[h].key], "full")
            /\ ApiCall(h, "insert", l)
       \/ LoopsFull(loops) /\ Reply(h) /\ UNCHANGED loops
    /\ UNCHANGED <<queue, runs, locks>>

\* enqueue with any loop or none; repair_reviewer has none.  The lookup of
\* create_or_get_active_by_dedupe is the first statement on the queue.
EnqueueFind(h, k, l) ==
    /\ \/ Idle(h, "enqueue") /\ k \in EnqueueKeys /\ (l # NoLoop => LoopExists(loops, l))
       \/ Idle(h, "repair") /\ k \in RepairKeys /\ l = NoLoop
    /\ FindActive(queue, k) = {}
    /\ api' = [api EXCEPT ![h] = [pc |-> "insert", key |-> k, loop |-> l, lockable |-> FALSE]]
    /\ UNCHANGED storeVars

Insert(h) ==
    /\ AtApi(h, "insert")
    /\ queue' \in CreateOrGet(queue, api[h].key, ALoop(h), api[h].lockable)
    /\ Reply(h)
    /\ UNCHANGED <<loops, runs, locks>>

PauseStep(h)  == (\E l \in Loops : PauseRead(h, l)) \/ PauseUpdate(h) \/ PauseCancel(h)
ResumeStep(h) == \/ \E l \in Loops : ResumeRead(h, l)
                 \/ ResumeUpdate(h) \/ ResumeCancelled(h) \/ ResumeFailed(h) \/ ResumeRunning(h)
StopStep(h)   == (\E l \in Loops : StopUpdate(h, l)) \/ StopCancel(h) \/ StopAll(h)
AdmitStep(h)  == \/ \E k \in AdmitKeys : AdmitRead(h, k) \/ CreateLoopRead(h, k)
                 \/ CreateLoop(h) \/ AdmitCreate(h) \/ Insert(h)
                 \/ \E k \in Keys, l \in Loops \cup {NoLoop} : EnqueueFind(h, k, l)

HandlerStep(h) == /\ \/ PauseStep(h) \/ ResumeStep(h) \/ StopStep(h) \/ AdmitStep(h)
                     \/ \E i \in Items : Dequeue(h, i)
                     \/ \E k \in Keys : AcquireLock(h, k) \/ ReleaseLock(k)
                  /\ UNCHANGED <<runnerVars, schedVars>>

=============================================================================
