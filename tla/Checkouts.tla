----------------------------- MODULE Checkouts -----------------------------
(***************************************************************************)
(* The directories in which a worker and the fixers of one pull request    *)
(* let agents work, and the branches they commit to and push.  A directory *)
(* is named after the pull request when its number is known: a worker that *)
(* continues on the planner's pull request and every fixer of this pull    *)
(* request share one (looper-git types.rs, runners worker.rs, fixer.rs).   *)
(***************************************************************************)
EXTENDS Naturals, FiniteSets, FiniteSetsExt, Functions, TLC

CONSTANTS
    Fixers,      \* fixer loops of the pull request, one after the other
    Ignored,     \* does git ignore .looper in the project
    MaxChecks,   \* bound: attempts of all actors together
    MaxTroubles, \* bound: git commands and agents that fail by themselves
    MaxCrashes   \* bound: deaths of looperd

ASSUME CheckoutsAssumption ==
    /\ {MaxChecks, MaxTroubles, MaxCrashes} \subseteq Nat
    /\ Fixers \cap {"worker", "main", "planner", "work", "none", "plain"} = {}
    /\ Ignored \in BOOLEAN

VARIABLES
    setup,   \* does the worker adopt the planner's pull request; counters of the bounds
    tree,    \* the directories: what HEAD is there and which edits are not committed
    local,   \* the branches of the project's repository, as sets of commits
    remote,  \* the branches of origin
    actor    \* where the worker and the fixers are

checkVars == <<setup, tree, local, remote, actor>>

Actors == {"worker"} \cup Fixers
Heads == {"main", "planner", "work"} \cup Fixers
Dirs == {"pr", "own"}
NoDir == [head |-> "none", edits |-> {}, empty |-> TRUE]
PlainDir == [head |-> "plain", edits |-> {}, empty |-> TRUE]

\* A directory is named after the pull request, or after the branch when the
\* number is not known.
DirNamed(known) == IF known THEN "pr" ELSE "own"

\* A fixer has the branch fix/<loop>; its item names the pull request.
FixerDir == DirNamed(TRUE)

\* The worker has the planner's branch or worker/<loop>; its checkpoint keeps the
\* number of the planner's pull request if it continues on it.
WorkerBranch == IF setup.adopts THEN "planner" ELSE "work"
WorkerDir == DirNamed(setup.adopts)

BranchOf(a) == IF a \in Fixers THEN a ELSE WorkerBranch
DirOf(a) == IF a \in Fixers THEN FixerDir ELSE WorkerDir

\* An agent's edits and a commit, each with its actor and its attempt.
Edit(a) == <<a, actor[a].nth>>
Commit(a, edits) == [by |-> Edit(a), edits |-> edits]

\* In a directory that is no worktree git works on the checkout around it.
HeadIn(d) == IF tree[d].head = "plain" THEN "main" ELSE tree[d].head

Alive == {"prepared", "agent", "worked", "valid", "pushed", "committed", "published", "cleaned"}
Phases == Alive \cup {"idle", "failed", "done"}

\* The planner's commit.
SpecCommit == [by |-> <<"planner", 1>>, edits |-> {}]

CheckoutsInit ==
    /\ setup \in [adopts : BOOLEAN, troubles : {0}, crashes : {0}]
    /\ tree = [d \in Dirs |-> NoDir]
    /\ local = [main |-> {}, planner |-> {SpecCommit}]
    /\ remote = [b \in Heads |-> IF b \in DOMAIN local THEN local[b] ELSE {}]
    /\ actor = [a \in Actors |-> [phase |-> "idle", nth |-> 0, made |-> FALSE, ok |-> TRUE]]

------------------------------------------------------------------------------
Step(a, phase) == actor' = [actor EXCEPT ![a].phase = phase]

\* Something outside looper fails; the attempt remembers it.
Trouble(fails) ==
    /\ fails => setup.troubles < MaxTroubles
    /\ setup' = [setup EXCEPT !.troubles = @ + (IF fails THEN 1 ELSE 0)]

\* git worktree add --force, on the branch or with a new one from main; it
\* refuses a directory in which there is something.
Addable(d) == tree[d].empty

AddWorktree(d, b) ==
    /\ tree' = [tree EXCEPT ![d] = [head |-> b, edits |-> {}, empty |-> FALSE]]
    /\ local' = [h \in DOMAIN local \cup {b} |-> local[IF h \in DOMAIN local THEN h ELSE "main"]]

\* An attempt begins; that the worktree cannot be made is a warning.
PrepareWorktree(a, fails) ==
    LET d == DirOf(a) IN
    /\ actor[a].phase \in {"idle", "failed"}
    /\ MapThenSumSet(LAMBDA o : actor[o].nth, Actors) < MaxChecks
    /\ a \in Fixers => \A f \in Fixers : actor[f].phase \notin Alive
    /\ fails => Addable(d)
    /\ Trouble(fails)
    /\ actor' = [actor EXCEPT ![a] = [phase |-> "prepared", nth |-> @.nth + 1,
                                      made |-> FALSE, ok |-> ~fails]]
    /\ IF Addable(d) /\ ~fails THEN AddWorktree(d, BranchOf(a)) ELSE UNCHANGED <<tree, local>>
    /\ UNCHANGED remote

\* create_dir_all
Ensured(d) == IF tree[d] = NoDir THEN [tree EXCEPT ![d] = PlainDir] ELSE tree

\* The worker starts an agent to plan and one to execute, one after the other
\* in the same directory, here one.  It goes on when they fail, a fixer does not.
StartAgent(a, fails) ==
    /\ actor[a].phase = "prepared"
    /\ tree' = Ensured(DirOf(a))
    /\ Trouble(fails)
    /\ Step(a, IF ~fails THEN "agent" ELSE IF a \in Fixers THEN "failed" ELSE "worked")
    /\ UNCHANGED <<local, remote>>

\* An agent whose directory was removed under it leaves nothing behind.
AgentEnds(a, fails) ==
    LET there == tree[DirOf(a)] # NoDir IN
    /\ actor[a].phase = "agent"
    /\ Trouble(fails)
    /\ tree' = IF there THEN [tree EXCEPT ![DirOf(a)].edits = @ \cup {Edit(a)},
                                         ![DirOf(a)].empty = FALSE] ELSE tree
    /\ actor' = [actor EXCEPT ![a].made = there,
                              ![a].phase = IF fails /\ a \in Fixers THEN "failed" ELSE "worked"]
    /\ UNCHANGED <<local, remote>>

\* A build that fails ends the worker; the fixer's step only logs.
Validate(builds) ==
    /\ actor["worker"].phase = "worked"
    /\ tree' = Ensured(DirOf("worker"))
    /\ Step("worker", IF builds THEN "valid" ELSE "failed")
    /\ UNCHANGED <<setup, local, remote>>

\* A mutant of the next: the commit is made before anything is added.
CommittingUnstaged(d) == {}

\* git add -A and git commit --allow-empty.  In a plain directory everything
\* under the project's own checkout is added, unless git ignores .looper.
Committing(d) ==
    IF tree[d].head # "plain" THEN {d}
    ELSE IF Ignored THEN {} ELSE {e \in Dirs : tree[e].head = "plain"}

CommitAll(a) ==
    LET d == DirOf(a) from == Committing(d) IN
    /\ local' = [local EXCEPT ![HeadIn(d)] =
                     @ \cup {Commit(a, UNION {tree[e].edits : e \in from})}]
    /\ tree' = [e \in Dirs |-> IF e \in from THEN [tree[e] EXCEPT !.edits = {}] ELSE tree[e]]

\* Neither the worker nor the fixer looks at what came of the commit.
CommitStep(a, fails) ==
    LET can == tree[DirOf(a)] # NoDir IN
    /\ fails => can
    /\ Trouble(fails)
    /\ IF can /\ ~fails THEN CommitAll(a) ELSE UNCHANGED <<tree, local>>
    /\ actor' = [actor EXCEPT ![a].phase = "committed", ![a].ok = @ /\ can /\ ~fails]
    /\ UNCHANGED remote

WorkerCommits(fails) == actor["worker"].phase = "valid" /\ CommitStep("worker", fails)
FixerCommits(f, fails) == actor[f].phase = "pushed" /\ CommitStep(f, fails)

\* git push origin HEAD:refs/heads/<branch>: only forward.
Pushable(a) == tree[DirOf(a)] # NoDir /\ remote[BranchOf(a)] \subseteq local[HeadIn(DirOf(a))]

PushHead(a) == remote' = [remote EXCEPT ![BranchOf(a)] = local[HeadIn(DirOf(a))]]

\* A push that works or does not; it decides where the actor goes.
PushStep(a, fails, after, otherwise) ==
    LET works == Pushable(a) /\ ~fails IN
    /\ fails => Pushable(a)
    /\ Trouble(fails)
    /\ IF works THEN PushHead(a) ELSE UNCHANGED remote
    /\ actor' = [actor EXCEPT ![a].phase = IF works THEN after ELSE otherwise,
                              ![a].ok = @ /\ (works \/ after = "pushed")]
    /\ UNCHANGED <<tree, local>>

\* The worker's push must work.
WorkerPushes(fails) ==
    actor["worker"].phase = "committed" /\ PushStep("worker", fails, "published", "failed")

\* A fixer looks at the checks on GitHub and pushes before it commits, and pushes
\* again after it has; it only logs what came of each.  In between it resolves the
\* review thread, and ignores whether it could.
FixerPushes(f, fails) ==
    actor[f].phase = "worked" /\ PushStep(f, fails, "pushed", "pushed")
FixerRechecks(f, fails) ==
    actor[f].phase = "committed" /\ PushStep(f, fails, "published", "published")

\* git worktree remove --force and remove_dir_all, whatever is in there.
RemoveWorktree(d) == tree' = [tree EXCEPT ![d] = NoDir]

FixerCleans(f) ==
    /\ actor[f].phase = "published"
    /\ RemoveWorktree(FixerDir)
    /\ Step(f, "cleaned")
    /\ UNCHANGED <<setup, local, remote>>

\* The worker computes the name without the pull request's number: one that
\* continued on the planner's removes the planner's directory, which is not
\* among these, and leaves its own.
WorkerCleans ==
    /\ actor["worker"].phase = "published"
    /\ IF setup.adopts THEN UNCHANGED tree ELSE RemoveWorktree(WorkerDir)
    /\ Step("worker", "cleaned")
    /\ UNCHANGED <<setup, local, remote>>

\* The run is a success, the item and the loop are completed.
Finish(a) ==
    /\ actor[a].phase = "cleaned"
    /\ Step(a, "done")
    /\ UNCHANGED <<setup, tree, local, remote>>

\* looperd dies with the agents; startup interrupts the runs, and a new run of
\* the loop begins at the first step.
Crash ==
    /\ setup.crashes < MaxCrashes
    /\ setup' = [setup EXCEPT !.crashes = @ + 1]
    /\ \E a \in Actors : actor[a].phase \in Alive
    /\ actor' = [a \in Actors |-> IF actor[a].phase \in Alive
                                  THEN [actor[a] EXCEPT !.phase = "idle"] ELSE actor[a]]
    /\ UNCHANGED <<tree, local, remote>>

CheckoutsNext ==
    \/ \E a \in Actors, fails \in BOOLEAN :
          PrepareWorktree(a, fails) \/ StartAgent(a, fails) \/ AgentEnds(a, fails)
    \/ \E f \in Fixers, fails \in BOOLEAN :
          FixerPushes(f, fails) \/ FixerCommits(f, fails) \/ FixerRechecks(f, fails)
    \/ \E fails \in BOOLEAN : Validate(~fails) \/ WorkerCommits(fails) \/ WorkerPushes(fails)
    \/ WorkerCleans
    \/ \E f \in Fixers : FixerCleans(f)
    \/ \E a \in Actors : Finish(a)
    \/ Crash

------------------------------------------------------------------------------
EditsOn(b) == UNION {c.edits : c \in remote[b]}

\* What is called done has been delivered (worker.rs 829-855, fixer.rs 728-870):
\* when the commands that make the worktree, commit and push last did not fail
\* by themselves, the edits of the agent are on the branch pushed, however the
\* worker and the fixers meet in one directory, remove it or leave it behind.
\* Where git ignores .looper this does not hold: a worker whose directory a
\* fixer removed makes a plain one, the next fixer cannot add its worktree and
\* works there, and its commit is empty.
DoneIsDelivered ==
    \A a \in Actors : actor[a].phase = "done" /\ actor[a].made /\ actor[a].ok
                        => Edit(a) \in EditsOn(BranchOf(a))
==============================================================================
