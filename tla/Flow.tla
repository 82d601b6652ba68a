-------------------------------- MODULE Flow --------------------------------
(***************************************************************************)
(* The road of one issue through looper: the labels by which coordinator,  *)
(* planner, reviewer and worker hand it to each other on GitHub, and the   *)
(* steps and checkpoints of their pipelines between the calls.  What the   *)
(* queue does with the items is the subject of Daemon; here an item that   *)
(* discovery inserts is claimed at once.                                   *)
(***************************************************************************)
EXTENDS GitHub

VARIABLES
    tick,       \* the tick thread: the step it is at, pull requests still to look at
    planner,    \* the planner's loop, its pipeline, its run
    worker,     \* the worker's
    reviewer    \* the reviewer's

vars == <<githubVars, tick, planner, worker, reviewer>>

\* Where a pipeline is when it has none of its own steps to do: there is no
\* item, the item ended, or the process that worked on it is gone.
Ended == {"completed", "failed"}
Resting == Ended \cup {"none", "lost"}

PlannerPC  == Resting \cup {"spec", "push", "list", "create", "label", "save", "fail"}
WorkerPC   == Resting \cup {"ready", "reviewing", "all", "view", "adopt", "code", "push", "clear",
                            "strip", "create", "finish", "fail"}
ReviewerPC == Resting \cup {"filter", "filtered", "review", "verdict", "record", "approve",
                            "look", "unreview", "mark", "fix", "finish"}
CoordinatorPC == {"ready", "link", "undispatch", "dispatch", "stale", "unreview", "close",
                  "plan", "addPlan", "implement", "addReady", "dropPlan"}
TickPC == CoordinatorPC \cup {"planner", "reviewer", "worker"}

Verdicts == {"none", "clean", "blocking"}

FlowTypeOK ==
    /\ GitHubTypeOK
    /\ tick \in [pc : TickPC, todo : SUBSET (1 .. MaxPulls)]
    /\ planner \in [loop : 0 .. MaxLoops, pc : PlannerPC, done : {"none", "spec"},
                    pull : 0 .. MaxPulls]
    /\ worker \in [loop : 0 .. MaxLoops, pc : WorkerPC, done : {"none", "adopt", "code"},
                   seen : SUBSET (1 .. MaxPulls), pull : 0 .. MaxPulls,
                before : 0 .. MaxPulls, blind : BOOLEAN]
    /\ reviewer \in [pull : 0 .. MaxPulls, pc : ReviewerPC, done : {"none", "filter", "review"},
                     verdict : Verdicts, found : Verdicts, past : SUBSET (1 .. MaxPulls)]

Init ==
    /\ GitHubInit
    /\ tick = [pc |-> "planner", todo |-> {}]
    /\ planner = [loop |-> 0, pc |-> "none", done |-> "none", pull |-> 0]
    /\ worker = [loop |-> 0, pc |-> "none", done |-> "none", seen |-> {}, pull |-> 0,
                 before |-> 0, blind |-> FALSE]
    /\ reviewer = [pull |-> 0, pc |-> "none", done |-> "none", verdict |-> "none",
                   found |-> "none", past |-> {}]

\* Coordinator discovery holds the SendRepos mutex from its first to its last
\* call; a pipeline needs it whenever it writes its run, item or loop.
Unlocked == tick.pc \notin CoordinatorPC

OnlyTick     == UNCHANGED <<planner, worker, reviewer>>
OnlyPlanner  == UNCHANGED <<tick, worker, reviewer>>
OnlyWorker   == UNCHANGED <<tick, planner, reviewer>>
OnlyReviewer == UNCHANGED <<tick, planner, worker>>

------------------------------------------------------------------------------
(* Coordinator: discover_issues *)

TickTo(pc) == tick' = [tick EXCEPT !.pc = pc]
Tick(from, to) == tick.pc = from /\ TickTo(to) /\ OnlyTick

\* A write whose answer the coordinator ignores.
TickWrites(from, to, new) == Tick(from, to) /\ \E ok \in BOOLEAN : Call(new, ok)

ListReady ==
    /\ tick.pc = "ready" /\ OnlyTick
    /\ \E ok \in BOOLEAN :
         /\ List("looper:spec-ready", ok)
         /\ tick' = [pc |-> "link", todo |-> IF ok THEN DOMAIN Listed("looper:spec-ready") ELSE {}]

\* Every pull request here is linked with the issue: its body names it.
ForPlan       == gh.issue \cap {"dispatch/plan", "looper:plan"} # {}
ForImplement  == gh.issue \cap {"dispatch/implement", "looper:worker-ready"} # {}
ViewLinked ==
    /\ tick.pc = "link" /\ OnlyTick
    /\ \/ /\ tick.todo = {} /\ TickTo("stale") /\ UNCHANGED githubVars
       \/ \E n \in tick.todo, ok \in BOOLEAN :
            /\ View(ok)
            /\ tick' = [pc |-> IF ok /\ ForPlan /\ ~ForImplement THEN "undispatch" ELSE "link",
                        todo |-> tick.todo \ {n}]

UndispatchAll == TickWrites("undispatch", "dispatch",
                            [gh EXCEPT !.issue = @ \ {"dispatch/plan", "looper:plan"}])
Undispatch == TickWrites("undispatch", "dispatch", WithoutIssueLabel("dispatch/plan"))
Dispatch   == TickWrites("dispatch", "link", WithIssueLabel("dispatch/implement"))

ListStale ==
    /\ tick.pc = "stale" /\ OnlyTick
    /\ \/ /\ \E ok \in BOOLEAN : List("looper:spec-reviewing", ok)
          /\ TickTo("plan")
       \/ /\ Answered("looper:spec-reviewing") /\ Trouble
          /\ \E n \in DOMAIN Listed("looper:spec-reviewing") :
                tick' = [pc |-> "unreview", todo |-> {n}]

StalePull == CHOOSE n \in tick.todo : TRUE
UnreviewStale == TickWrites("unreview", "close",
                            WithoutLabels(StalePull, {"looper:spec-reviewing"}))
CloseStale ==
    /\ tick.pc = "close" /\ OnlyTick
    /\ \E ok \in BOOLEAN : Call(Closed(StalePull), ok)
    /\ tick' = [pc |-> "plan", todo |-> {}]

\* An issue is listed by its dispatch label and then viewed.
ViewIssue(from, label, has, write, next) ==
    /\ tick.pc = from /\ OnlyTick
    /\ \E ok \in BOOLEAN :
         /\ View(ok)
         /\ TickTo(IF ok /\ label \in gh.issue /\ has \notin gh.issue THEN write ELSE next)

ViewForPlan      == ViewIssue("plan", "dispatch/plan", "looper:plan", "addPlan", "implement")
AddPlan          == TickWrites("addPlan", "implement", WithIssueLabel("looper:plan"))
ViewForImplement == ViewIssue("implement", "dispatch/implement", "looper:worker-ready",
                              "addReady", "reviewer")
AddReady         == TickWrites("addReady", "dropPlan", WithIssueLabel("looper:worker-ready"))
DropPlan         == TickWrites("dropPlan", "reviewer", WithoutIssueLabel("looper:plan"))

Coordinate ==
    \/ ListReady \/ ViewLinked \/ Undispatch \/ Dispatch
    \/ ListStale \/ UnreviewStale \/ CloseStale
    \/ ViewForPlan \/ AddPlan \/ ViewForImplement \/ AddReady \/ DropPlan

------------------------------------------------------------------------------
(* Discovery of planner, reviewer and worker: list, check the queue, insert. *)

\* An item that waits, runs, or may be resumed keeps discovery from a new one.
Busy(pc) == pc \notin Ended \cup {"none"}

\* Discovery d asks for its list: it starts a pipeline when the list is
\* answered and may has a candidate, and goes on without one otherwise.
Discovery(from, to, list(_), may, start) ==
    /\ tick.pc = from /\ TickTo(to)
    /\ \/ list(TRUE) /\ may /\ start
       \/ list(TRUE) /\ ~may /\ UNCHANGED <<planner, reviewer, worker>>
       \/ list(FALSE) /\ UNCHANGED <<planner, reviewer, worker>>

\* A completed item of the issue is never followed by another, a failed one is.
MayPlan == /\ "looper:plan" \in gh.issue
           /\ planner.pc \in {"none", "failed"} /\ planner.loop < MaxLoops
StartPlanner ==
    /\ planner' = [loop |-> planner.loop + 1, pc |-> "spec", done |-> "none", pull |-> 0]
    /\ UNCHANGED <<reviewer, worker>>
DiscoverPlanner == Discovery("planner", "ready", View, MayPlan, StartPlanner)

\* The phase of a pull request by its labels, as the list has them.
Phase(labels) == IF "looper:spec-ready" \in labels THEN "ready"
                 ELSE IF "looper:spec-reviewing" \in labels THEN "reviewing" ELSE "unknown"
ToReviewUnphased == LET listed == Listed("looper:spec-reviewing")
                    IN {n \in DOMAIN listed \ reviewer.past : Phase(listed[n]) = "unknown"}
ToReview == LET listed == Listed("looper:spec-reviewing")
            IN {n \in DOMAIN listed \ reviewer.past : Phase(listed[n]) # "ready"}
MayReview == ~Busy(reviewer.pc) /\ ToReview # {}
StartReviewer ==
    /\ \E n \in ToReview :
          reviewer' = [reviewer EXCEPT !.pull = n, !.pc = "filter", !.done = "none",
                                       !.verdict = "none", !.found = "none"]
    /\ UNCHANGED <<planner, worker>>
DiscoverReviewer == Discovery("reviewer", "worker", LAMBDA ok : List("looper:spec-reviewing", ok),
                              MayReview, StartReviewer)

\* Only an active item of the issue keeps the worker's discovery from another.
MayWork == /\ Listed("looper:worker-ready")
           /\ ~Busy(worker.pc) /\ worker.loop < MaxLoops
StartWorker ==
    /\ worker' = [loop |-> worker.loop + 1, pc |-> "ready", done |-> "none",
                  seen |-> {}, pull |-> 0, before |-> 0, blind |-> FALSE]
    /\ UNCHANGED <<planner, reviewer>>
DiscoverWorker == Discovery("worker", "planner", LAMBDA ok : List("looper:worker-ready", ok),
                            MayWork, StartWorker)

TickStep == Coordinate \/ DiscoverPlanner \/ DiscoverReviewer \/ DiscoverWorker

------------------------------------------------------------------------------
(* Planner: process_claimed_queue_item *)

PlannerBranch == <<"planner", planner.loop>>
Planner(from, to) == planner.pc = from /\ planner' = [planner EXCEPT !.pc = to] /\ OnlyPlanner

\* A call whose failure is an error of the pipeline.
PlannerAfter(ok, next) ==
    planner' = [planner EXCEPT !.pc = IF ok THEN next ELSE "fail"]

WriteSpec == /\ Unlocked /\ planner.pc = "spec" /\ OnlyPlanner
             /\ planner' = [planner EXCEPT !.pc = "push", !.done = "spec"]
             /\ UNCHANGED githubVars

PushSpec == /\ planner.pc = "push" /\ OnlyPlanner
            /\ \E ok \in BOOLEAN : /\ Call(Pushed(PlannerBranch, "spec"), ok)
                                   /\ PlannerAfter(ok, "list")

\* The open pull request of the planner's branch is adopted; a list that fails
\* counts as one without it.
IsOfPlanner(n) == gh.pulls[n].branch = PlannerBranch
Adoptable == {n \in DOMAIN Listed("all") : IsOfPlanner(n)}
AdoptOrCreate ==
    /\ planner.pc = "list" /\ OnlyPlanner
    /\ \E ok \in BOOLEAN :
         /\ List("all", ok)
         /\ \/ \E n \in Adoptable :
                 ok /\ planner' = [planner EXCEPT !.pc = "label", !.pull = n]
            \/ /\ ~ok \/ Adoptable = {}
               /\ planner' = [planner EXCEPT !.pc = "create"]

CreateSpecPull ==
    /\ planner.pc = "create" /\ OnlyPlanner
    /\ \/ /\ MayCreate(PlannerBranch) /\ Len(gh.pulls) < MaxPulls
          /\ \E ok \in BOOLEAN :
               /\ Call(Created(PlannerBranch), ok)
               /\ planner' = [planner EXCEPT !.pc = IF ok THEN "label" ELSE "fail",
                                             !.pull = IF ok THEN Len(gh.pulls) + 1 ELSE 0]
       \/ /\ ~MayCreate(PlannerBranch)
          /\ planner' = [planner EXCEPT !.pc = "fail"]
          /\ UNCHANGED githubVars

LabelSpecPull == /\ Planner("label", "save")
                 /\ \E ok \in BOOLEAN : Call(WithLabel(planner.pull, "looper:spec-reviewing"), ok)

\* The pull request is saved in the loop, the steps recorded, and run, item
\* and loop ended.
PlannerEnds(from, to) == Unlocked /\ Planner(from, to) /\ UNCHANGED githubVars

PlannerStep ==
    \/ WriteSpec \/ PushSpec \/ AdoptOrCreate \/ CreateSpecPull \/ LabelSpecPull
    \/ PlannerEnds("save", "completed")
    \/ PlannerEnds("fail", "failed")

------------------------------------------------------------------------------
(* Worker: execute_pipeline.  History: before, the pull requests there were  *)
(* when the lookup began, and blind, whether its last word was no answer or  *)
(* an old one.                                                               *)

Worker(from, to) == worker.pc = from /\ worker' = [worker EXCEPT !.pc = to] /\ OnlyWorker
WorkerSaves(from, to) == Unlocked /\ Worker(from, to) /\ UNCHANGED githubVars

\* find_spec_pr_for_issue: the pull requests with either label, or, when there
\* is none, all that have a label or a planner's branch.
HasSpecLabel(labels) == labels \cap {"looper:spec-reviewing", "looper:spec-ready"} # {}
LabelledAsSpec(n, labels) == HasSpecLabel(labels)
LooksLikeSpec(n, labels) == HasSpecLabel(labels) \/ gh.pulls[n].branch[1] = "planner"
SeenOn(l) == IF l = "all" THEN {n \in DOMAIN Listed(l) : LooksLikeSpec(n, Listed(l)[n])}
             ELSE DOMAIN Listed(l)

Lookup(pc, list, next(_)) ==
    /\ worker.pc = pc /\ OnlyWorker
    /\ \E ok \in BOOLEAN :
         /\ List(list, ok)
         /\ LET seen == worker.seen \cup (IF ok THEN SeenOn(list) ELSE {})
            IN worker' = [worker EXCEPT !.seen = seen, !.pc = next(seen),
                             !.before = IF pc = "ready" THEN Len(gh.pulls) ELSE @,
                             !.blind = list = "all" /\ (~ok \/ cache[list] # <<>>)]

LookupReady     == Lookup("ready", "looper:spec-ready", LAMBDA seen : "reviewing")
LookupReviewing == Lookup("reviewing", "looper:spec-reviewing",
                          LAMBDA seen : IF seen = {} THEN "all" ELSE "view")
LookupAll       == Lookup("all", "all", LAMBDA seen : "view")

\* The first that names the issue is the spec: every one here does.
ViewSpec ==
    /\ worker.pc = "view" /\ OnlyWorker
    /\ \/ /\ worker.seen = {} /\ UNCHANGED githubVars
          /\ worker' = [worker EXCEPT !.pc = "adopt", !.pull = 0]
       \/ \E ok \in BOOLEAN, n \in worker.seen :
            /\ View(ok)
            /\ worker' = [worker EXCEPT !.pc = "adopt", !.seen = {}, !.pull = IF ok THEN n ELSE 0,
                                          !.blind = @ \/ ~ok]

\* existing_pr_number, work_branch and push_existing go into the checkpoint.
SaveAdopted == /\ Unlocked /\ worker.pc = "adopt" /\ OnlyWorker /\ UNCHANGED githubVars
               /\ worker' = [worker EXCEPT !.pc = "code", !.done = "adopt"]

\* plan, execute (which adds the spec's context to the checkpoint), validate.
ReplacedCheckpoint(w) == 0
MergedCheckpoint(w)   == w.pull
Implement ==
    /\ Unlocked /\ worker.pc = "code" /\ OnlyWorker /\ UNCHANGED <<gh, cache>>
    /\ \/ /\ worker' = [worker EXCEPT !.pc = "push", !.done = "code",
                                      !.pull = MergedCheckpoint(worker)]
          /\ UNCHANGED troubles
       \/ /\ worker' = [worker EXCEPT !.pc = "failed"]
          /\ Trouble

WorkBranch == IF worker.pull = 0 THEN <<"worker", worker.loop>> ELSE gh.pulls[worker.pull].branch

PushCode == /\ worker.pc = "push" /\ OnlyWorker
            /\ \E ok \in BOOLEAN :
                 /\ Call(Pushed(WorkBranch, "code"), ok)
                 /\ worker' = [worker EXCEPT !.pc = IF ok THEN "clear" ELSE "fail"]

ClearWorkerReady ==
    /\ Worker("clear", IF worker.pull = 0 THEN "create" ELSE "strip")
    /\ \E ok \in BOOLEAN : Call(WithoutIssueLabel("looper:worker-ready"), ok)

StripSpecLabels ==
    /\ Worker("strip", "finish")
    /\ RemoveLabels(worker.pull, {"looper:spec-ready", "looper:spec-reviewing"})

CreatePull ==
    /\ worker.pc = "create" /\ OnlyWorker
    /\ \/ /\ MayCreate(WorkBranch) /\ Len(gh.pulls) < MaxPulls
          /\ \E ok \in BOOLEAN : /\ Call(Created(WorkBranch), ok)
                                 /\ worker' = [worker EXCEPT !.pc = IF ok THEN "finish" ELSE "fail"]
       \/ /\ ~MayCreate(WorkBranch)
          /\ worker' = [worker EXCEPT !.pc = "fail"]
          /\ UNCHANGED githubVars

WorkerStep ==
    \/ LookupReady \/ LookupReviewing \/ LookupAll \/ ViewSpec \/ SaveAdopted
    \/ Implement \/ PushCode \/ ClearWorkerReady \/ StripSpecLabels \/ CreatePull
    \/ WorkerSaves("finish", "completed")
    \/ WorkerSaves("fail", "failed")

------------------------------------------------------------------------------
(* Reviewer: execute_pipeline *)

Reviewer(from, to) ==
    reviewer.pc = from /\ reviewer' = [reviewer EXCEPT !.pc = to] /\ OnlyReviewer
ReviewerWrites(from, to, new) == Reviewer(from, to) /\ \E ok \in BOOLEAN : Call(new, ok)
ReviewerSaves(from, new) ==
    /\ Unlocked /\ reviewer.pc = from /\ OnlyReviewer /\ UNCHANGED githubVars
    /\ reviewer' = new

LabelsOf(n) == gh.pulls[n].labels

\* A pull request that is approved already is left alone.
Filter ==
    /\ reviewer.pc = "filter" /\ OnlyReviewer
    /\ \E ok \in BOOLEAN :
         /\ View(ok)
         /\ reviewer' = [reviewer EXCEPT !.pc =
                            IF ok /\ Phase(LabelsOf(reviewer.pull)) = "ready" THEN "finish"
                            ELSE "filtered"]
RecordFilter == ReviewerSaves("filtered", [reviewer EXCEPT !.pc = "review", !.done = "filter"])

ReviewRecorded ==
    /\ reviewer.pc = "review" /\ OnlyReviewer
    /\ \E v \in Verdicts :
         /\ reviewer' = [reviewer EXCEPT !.pc = "verdict", !.found = v, !.done = "review"]
         /\ \E ok \in BOOLEAN : (ok \/ v = "none") /\ View(ok)

\* The agent reviews, then the criteria in the body are checked against the
\* diff.  Without an answer from GitHub, and without criteria, nothing is found.
Review ==
    /\ reviewer.pc = "review" /\ OnlyReviewer
    /\ \E v \in Verdicts :
         /\ reviewer' = [reviewer EXCEPT !.pc = "verdict", !.found = v]
         /\ \E ok \in BOOLEAN : (ok \/ v = "none") /\ View(ok)

\* The counts go into the checkpoint if there are any; then the step is recorded.
SaveVerdict ==
    ReviewerSaves("verdict", [reviewer EXCEPT !.pc = "record",
                                 !.verdict = IF reviewer.found = "none" THEN @ ELSE reviewer.found])
RecordReview == ReviewerSaves("record", [reviewer EXCEPT !.pc = "approve", !.done = "review"])

HasIssues == reviewer.verdict = "blocking"

Publish == ReviewerWrites("approve", "look", WithLabel(reviewer.pull, "looper/reviewed"))

LookAtPhase ==
    /\ reviewer.pc = "look" /\ OnlyReviewer
    /\ \E ok \in BOOLEAN :
         /\ View(ok)
         /\ reviewer' = [reviewer EXCEPT !.pc =
               IF ok /\ "looper:spec-reviewing" \in LabelsOf(reviewer.pull) /\ ~HasIssues
               THEN "unreview" ELSE IF HasIssues THEN "fix" ELSE "finish"]

Unreview == ReviewerWrites("unreview", "mark",
                           WithoutLabels(reviewer.pull, {"looper:spec-reviewing"}))
MarkReady == ReviewerWrites("mark", "finish", WithLabel(reviewer.pull, "looper:spec-ready"))

\* The fixer's item is the subject of Runner; the label is set here.
NeedsFix == ReviewerWrites("fix", "finish", WithLabel(reviewer.pull, "looper:needs-fix"))

FinishReview == ReviewerSaves("finish", [reviewer EXCEPT !.pc = "completed",
                                                         !.past = @ \cup {reviewer.pull}])

ReviewerStep ==
    \/ Filter \/ RecordFilter \/ Review \/ SaveVerdict \/ RecordReview
    \/ Publish \/ LookAtPhase \/ Unreview \/ MarkReady \/ NeedsFix \/ FinishReview

------------------------------------------------------------------------------
(* Death of looperd, and the operator who resumes what it left. *)

Lost(p) == IF p.pc \in Resting THEN p ELSE [p EXCEPT !.pc = "lost"]

\* A pipeline that was lost goes on after its last recorded step with what it
\* had saved; one that failed has a new run.
Crash ==
    /\ Trouble
    /\ tick' = [pc |-> "planner", todo |-> {}]
    /\ cache' = [l \in Lists |-> <<>>]
    /\ planner' = [Lost(planner) EXCEPT !.pull = 0]
    /\ worker' = [Lost(worker) EXCEPT !.seen = {}, !.pull = IF worker.done = "none" THEN 0 ELSE @]
    /\ reviewer' = Lost(reviewer)
    /\ UNCHANGED gh

ResumePlanner ==
    /\ planner.pc \in {"lost", "failed"} /\ OnlyPlanner /\ UNCHANGED githubVars
    /\ planner' = IF planner.pc = "lost" /\ planner.done = "spec"
                  THEN [planner EXCEPT !.pc = "push"]
                  ELSE [planner EXCEPT !.pc = "spec", !.done = "none"]
ResumeWorker ==
    /\ worker.pc \in {"lost", "failed"} /\ OnlyWorker /\ UNCHANGED githubVars
    /\ worker' = CASE worker.pc = "lost" /\ worker.done = "adopt" -> [worker EXCEPT !.pc = "code"]
                   [] worker.pc = "lost" /\ worker.done = "code"  -> [worker EXCEPT !.pc = "push"]
                   [] OTHER -> [worker EXCEPT !.pc = "ready", !.done = "none", !.pull = 0]
ResumeReviewer ==
    /\ reviewer.pc = "lost" /\ OnlyReviewer /\ UNCHANGED githubVars
    /\ reviewer' = [reviewer EXCEPT !.pc = CASE reviewer.done = "none"   -> "filter"
                                             [] reviewer.done = "filter" -> "review"
                                             [] OTHER                    -> "approve"]
Resume == Unlocked /\ (ResumePlanner \/ ResumeWorker \/ ResumeReviewer)

CacheExpires(l) == Expire(l) /\ UNCHANGED <<tick, planner, worker, reviewer>>

Next == \/ TickStep \/ PlannerStep \/ WorkerStep \/ ReviewerStep
        \/ \E l \in Lists : CacheExpires(l)
        \/ Crash \/ Resume

\* Threads and the clock go on, and who waits for SendRepos gets it between two
\* ticks; nobody has to resume anything.
Fairness == /\ WF_vars(TickStep) /\ SF_vars(PlannerStep) /\ SF_vars(WorkerStep)
            /\ SF_vars(ReviewerStep) /\ \A l \in Lists : WF_vars(CacheExpires(l))

Spec == Init /\ [][Next]_vars /\ Fairness

------------------------------------------------------------------------------
(* Properties *)

\* A worker opens a pull request of its own only if no spec of the issue is
\* open that was there when it looked: through the reviewer's change of labels
\* between its three lists, and through crash and resumption after it saved
\* what it adopted (worker.rs:131, 322, 498).
ImplementsInPlace ==
    worker.pc = "create" /\ ~worker.blind =>
        \A n \in 1 .. worker.before : gh.pulls[n].branch[1] = "planner" => ~gh.pulls[n].open

\* No pull request becomes spec-ready in a run whose last check of the criteria
\* was blocking, wherever looperd died in between (reviewer.rs:561, 680, 764).
BlockedIsNotReady ==
    [][\A n \in PullIds : /\ "looper:spec-ready" \notin gh.pulls[n].labels
                          /\ "looper:spec-ready" \in gh.pulls[n].labels'
                          => reviewer.pull = n /\ reviewer.found # "blocking"]_vars

\* An approved spec whose issue still waits for it takes the issue on to its
\* implementation, whichever calls on the way failed (coordinator.rs:192).
Approved == \E n \in OpenPulls : "looper:spec-ready" \in gh.pulls[n].labels
TransitionHeals == Approved /\ "looper:plan" \in gh.issue ~> ForImplement \/ ~Approved

\* An issue labelled for a plan ends as code on a pull request, unless a call
\* fails, looperd dies, the spec goes stale or its review finds something to fix
\* (coordinator.rs:345, 192, 391, worker.rs:1053).
Disturbed == troubles > 0 \/ \E n \in PullIds : "looper:needs-fix" \in gh.pulls[n].labels
PlannedIsImplemented ==
    "dispatch/plan" \in gh.issue ~> Disturbed \/ \E n \in PullIds : HasCode(n)

==============================================================================
