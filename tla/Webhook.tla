------------------------------- MODULE Webhook -------------------------------
(***************************************************************************)
(* The webhook forwarder (crate looper-webhook): routing of deliveries     *)
(* (routing.rs), and the pool of workers that turns them into queue items  *)
(* (forwarder.rs, types.rs).                                               *)
(*                                                                         *)
(* The forwarder's state is behind one mutex; each step below is one       *)
(* critical section, or what a worker does between two of them.  A worker  *)
(* that finds no work drops the mutex and only then starts to listen, and  *)
(* notify_waiters wakes those that listen at that moment.                  *)
(* A payload is the event it tells of and the keys that build_work_keys    *)
(* finds in it.  That function leaves project_id empty and execute_once    *)
(* refuses such a key; Resolved says which keys have a project.            *)
(***************************************************************************)
EXTENDS Integers, Sequences, FiniteSets

CONSTANTS
    Deliveries,  \* delivery ids
    EventOf,     \* the event of each delivery: its type, action and conclusion
    KeysOf,      \* the sequence of work keys in the payload of each delivery
    Resolved,    \* the work keys that have a project
    Workers,     \* the tasks of the pool
    MaxReceived  \* bound: deliveries and redeliveries ever received

Lanes == {"reviewer", "fixer"}
Keys == UNION {{KeysOf[d][i] : i \in DOMAIN KeysOf[d]} : d \in Deliveries}

ASSUME WebhookAssumption ==
    "none" \notin Deliveries /\ \A d \in Deliveries : KeysOf[d] \in Seq(Keys)

MaxRetries == 2   \* execute_with_retry: attempts in all

-----------------------------------------------------------------------------
(* Routing *)

\* is_failing_conclusion, which ignores case.
FailingConclusions == {"failure", "failed", "error", "timed_out", "action_required"}

\* route_payload and route_event: the lanes of an event, none if it is ignored.
PullRequestLanes(action) ==
    CASE action = "review_requested"                                          -> {"reviewer"}
      [] action \in {"labeled", "unlabeled"}                                  -> {"fixer"}
      [] action \in {"opened", "reopened", "ready_for_review", "synchronize"} -> Lanes
      [] OTHER                                                                -> {}
RouteEvent(e) ==
    CASE e.type = "pull_request" -> PullRequestLanes(e.action)
      [] e.type \in {"pull_request_review", "pull_request_review_comment"} -> {"fixer"}
      [] e.type = "check_run" /\ e.action = "completed" /\ e.conclusion \in FailingConclusions
                                                       -> {"fixer"}
      [] e.type = "push" /\ e.action # "deleted"       -> {"fixer"}
      [] OTHER                                         -> {}

\* RoutingDecision::lanes.
LanesOf(d) == RouteEvent(EventOf[d])

-----------------------------------------------------------------------------
VARIABLES
    closed,    \* has close() been called?
    queue,     \* keys to work on, a key once for each of its lanes
    works,     \* the work items by key and lane: the delivery that made it
    seen,      \* deliveries, by id
    rows,      \* queue items that executions upserted
    worker,    \* each worker: where it is, its key, its item, its attempts
    received   \* how many deliveries came

hookVars == <<closed, queue, works, seen, rows, worker, received>>

NoItem == "none"
Idle(pc) == [pc |-> pc, key |-> NoItem, item |-> NoItem, attempt |-> 0]

WebhookTypeOK ==
    /\ closed \in BOOLEAN
    /\ queue \in Seq(Keys)
    /\ works \in [Keys \X Lanes -> Deliveries \cup {NoItem}]
    /\ seen \subseteq Deliveries
    /\ rows \subseteq Deliveries \X Keys \X Lanes
    /\ worker \in [Workers -> [pc : {"look", "unlocked", "waiting", "execute", "gone"},
                               key : Keys \cup {NoItem}, item : Deliveries \cup {NoItem},
                               attempt : 0 .. MaxRetries]]
    /\ received \in 0 .. MaxReceived

WebhookInit ==
    /\ closed = FALSE
    /\ queue = <<>>
    /\ works = [k \in Keys \X Lanes |-> NoItem]
    /\ seen = {} /\ rows = {}
    /\ worker = [w \in Workers |-> Idle("look")]
    /\ received = 0

\* notify_waiters.
Wake(ws) == [w \in Workers |-> IF ws[w].pc = "waiting" THEN Idle("look") ELSE ws[w]]

\* Mutant: each lane is looked up by itself.
EnqueuedByLane(d) == {i \in DOMAIN KeysOf[d] :
                        /\ \E l \in LanesOf(d) : works[KeysOf[d][i], l] = NoItem
                        /\ \A j \in 1 .. i - 1 : KeysOf[d][j] # KeysOf[d][i]}

\* The keys of a delivery that get an item: not those with an item in any lane.
Enqueued(d) == {i \in DOMAIN KeysOf[d] :
                  /\ \A l \in Lanes : works[KeysOf[d][i], l] = NoItem
                  /\ \A j \in 1 .. i - 1 : KeysOf[d][j] # KeysOf[d][i]}

\* The orders of a set of numbers: ascending.
Ascending(is) ==
    {order \in [1 .. Cardinality(is) -> is] :
        /\ {order[r] : r \in DOMAIN order} = is
        /\ \A r, q \in DOMAIN order : r < q => order[r] < order[q]}

\* What is pushed for the keys with the numbers order: each once for each lane.
Pushes(d, order) ==
    LET lanes == Cardinality(LanesOf(d)) IN
    [p \in 1 .. lanes * Cardinality(DOMAIN order) |-> KeysOf[d][order[1 + (p - 1) \div lanes]]]

\* forward.  A delivery with an id seen before is a duplicate, also if it came
\* to nothing the first time.
Forward(d) ==
    /\ received < MaxReceived /\ received' = received + 1
    /\ ~closed /\ d \notin seen
    /\ seen' = seen \cup {d}
    /\ IF LanesOf(d) = {}
       THEN UNCHANGED <<queue, works, worker>>
       ELSE LET is == Enqueued(d) IN
            /\ works' = [x \in Keys \X Lanes |->
                           IF x[2] \in LanesOf(d) /\ \E i \in is : KeysOf[d][i] = x[1]
                           THEN d ELSE works[x]]
            /\ \E order \in Ascending(is) : queue' = queue \o Pushes(d, order)
            /\ worker' = Wake(worker)
    /\ UNCHANGED <<closed, rows>>

Redeliver(d) ==
    /\ received < MaxReceived /\ received' = received + 1
    /\ closed \/ d \in seen
    /\ UNCHANGED <<closed, queue, works, seen, rows, worker>>

Close == /\ ~closed /\ closed' = TRUE
         /\ worker' = Wake(worker)
         /\ UNCHANGED <<queue, works, seen, rows, received>>

-----------------------------------------------------------------------------
(* A worker *)

\* Nothing to do: the mutex is dropped, and then the worker listens.
FindsNothing(w) ==
    /\ worker[w].pc = "look" /\ queue = <<>> /\ ~closed
    /\ worker' = [worker EXCEPT ![w].pc = "unlocked"]
    /\ UNCHANGED <<closed, queue, works, seen, rows, received>>
Listen(w) ==
    /\ worker[w].pc = "unlocked"
    /\ worker' = [worker EXCEPT ![w].pc = "waiting"]
    /\ UNCHANGED <<closed, queue, works, seen, rows, received>>

Leave(w) ==
    /\ worker[w].pc = "look" /\ queue = <<>> /\ closed
    /\ worker' = [worker EXCEPT ![w].pc = "gone"]
    /\ UNCHANGED <<closed, queue, works, seen, rows, received>>

\* The first key, with the reviewer's item or else the fixer's; both are the
\* item of one delivery, lanes and all.  No item: next round.
LaneToTake(k) == IF works[k, "reviewer"] # NoItem THEN "reviewer" ELSE "fixer"
Take(w) ==
    /\ worker[w].pc = "look" /\ queue # <<>>
    /\ LET k == Head(queue)  l == LaneToTake(k) IN
       /\ queue' = Tail(queue)
       /\ works' = [works EXCEPT ![<<k, l>>] = NoItem]
       /\ worker' = [worker EXCEPT ![w] =
                       IF works[k, l] = NoItem THEN Idle("look")
                       ELSE [pc |-> "execute", key |-> k, item |-> works[k, l], attempt |-> 1]]
    /\ UNCHANGED <<closed, seen, rows, received>>

\* execute_once, within execute_with_retry: the lanes in the order of a hash
\* set, up to the first error.  Only a transient error of the first attempt is
\* tried again.
Finish(w) == worker' = [worker EXCEPT ![w] = Idle("look")]
RowsOf(w, lanes) == {<<worker[w].item, worker[w].key, l>> : l \in lanes}
Succeed(w) ==
    /\ worker[w].pc = "execute" /\ worker[w].key \in Resolved
    /\ rows' = rows \cup RowsOf(w, LanesOf(worker[w].item))
    /\ Finish(w)
    /\ UNCHANGED <<closed, queue, works, seen, received>>

\* Mutant: the error of a lane ends the task.
DieOfError(w) ==
    /\ worker[w].pc = "execute"
    /\ worker' = [worker EXCEPT ![w] = Idle("gone")]
    /\ UNCHANGED <<closed, queue, works, seen, rows, received>>

Fail(w) ==
    /\ worker[w].pc = "execute"
    /\ IF worker[w].key \notin Resolved
       THEN Finish(w) /\ UNCHANGED rows
       ELSE \E done \in SUBSET LanesOf(worker[w].item), transient \in BOOLEAN :
              /\ done # LanesOf(worker[w].item)
              /\ rows' = rows \cup RowsOf(w, done)
              /\ IF transient /\ worker[w].attempt < MaxRetries
                 THEN worker' = [worker EXCEPT ![w].attempt = @ + 1]
                 ELSE Finish(w)
    /\ UNCHANGED <<closed, queue, works, seen, received>>

WorkerStep(w) == FindsNothing(w) \/ Listen(w) \/ Leave(w) \/ Take(w) \/ Succeed(w) \/ Fail(w)

WebhookNext == \/ \E d \in Deliveries : Forward(d) \/ Redeliver(d)
               \/ Close
               \/ \E w \in Workers : WorkerStep(w)

-----------------------------------------------------------------------------
(* Properties *)

\* The queue and the map of works agree: a key stands in the queue as often as
\* it has items, so no item is stranded in the map (where it would block its
\* pull request for ever) and no key is popped in vain.
Occurrences(k) == Cardinality({i \in DOMAIN queue : queue[i] = k})
WorksMatchQueue ==
    \A k \in Keys : Occurrences(k) = Cardinality({l \in Lanes : works[k, l] # NoItem})

\* As long as one worker is not waiting, the queue gets empty: whatever fails,
\* a worker comes back for more, and the drain before leaving is complete.
Awake(w) == worker[w].pc \in {"look", "execute"}
AwakeWorkerDrains == (\E w \in Workers : Awake(w)) ~> queue = <<>>

=============================================================================
