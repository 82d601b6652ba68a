----------------------------- MODULE PullWatch -----------------------------
(***************************************************************************)
(* What looper concludes about a pull request: the coordinator's watch     *)
(* (merge_watch.rs), the reviewer's acceptance criteria                    *)
(* (reviewer_criteria.rs) and its hand-over to a fixer (fixer_handoff.rs). *)
(* Pure functions of what GitHub says; the pull request changes under      *)
(* them.  That the watch keeps its marker and budget from one look to the  *)
(* next is an assumption: the coordinator passes neither (coordinator.rs:  *)
(* 475).                                                                   *)
(***************************************************************************)
EXTENDS Naturals, FiniteSets

CONSTANTS MaxPushes,    \* bound: new heads
          WatchRetries  \* RetryBudget

ASSUME PullWatchAssumption == MaxPushes \in Nat /\ WatchRetries \in Nat

VARIABLES
    pull,      \* the pull request on GitHub
    criteria,  \* the verdicts of its acceptance criteria
    marker     \* PriorWatchMarker and what is left of the budget

pullVars == <<pull, criteria, marker>>

Failing == {"failure", "cancelled", "timed_out", "action_required", "startup_failure", "stale"}
Pending == {"queued", "in_progress", "waiting"}
\* A check run has a status and, once completed, a conclusion.
CheckResults == {"failure", "in_progress", "success"}
Decisions == {"APPROVED", "CHANGES_REQUESTED", "REVIEW_REQUIRED", "none"}
Verdicts == {"pass", "fail", "unverifiable"}

Pull == [state : {"open", "closed", "merged"}, decision : Decisions,
         mergeable : {"clean", "dirty", "unknown"}, checks : SUBSET CheckResults,
         head : 0 .. MaxPushes]

PullWatchTypeOK ==
    /\ pull \in Pull /\ criteria \subseteq Verdicts
    /\ marker \in [head : 0 .. MaxPushes, decision : Decisions, left : 0 .. WatchRetries, seen : BOOLEAN]

PullWatchInit ==
    /\ pull = [state |-> "open", decision |-> "none", mergeable |-> "unknown", checks |-> {},
               head |-> 0]
    /\ criteria = {}
    /\ marker = [head |-> 0, decision |-> "none", left |-> WatchRetries, seen |-> FALSE]

------------------------------------------------------------------------------
(* merge_watch.rs *)

HasFailingChecks(p) == p.checks \cap Failing # {}
HasPendingChecks(p) == p.checks \cap Pending # {}

HasNoChanges == marker.seen /\ pull.head = marker.head /\ pull.decision = marker.decision

\* Mutant: no look at the checks once the pull request is approved.
OpenKindApprovedFirst(p) ==
    CASE p.decision = "CHANGES_REQUESTED" -> "ReengageReview"
      [] p.mergeable = "clean" /\ p.decision = "APPROVED" -> "MergeReady"
      [] OTHER -> IF HasFailingChecks(p) THEN "RedCI" ELSE "None"
\* The order of the tests is the order of the code.
OpenKind(p) ==
    CASE p.decision = "CHANGES_REQUESTED" -> "ReengageReview"
      [] p.mergeable = "clean" /\ p.decision = "APPROVED" ->
           IF HasFailingChecks(p) THEN "RedCI" ELSE IF HasPendingChecks(p) THEN "None" ELSE "MergeReady"
      [] OTHER ->
           IF HasFailingChecks(p) THEN "RedCI" ELSE IF p.mergeable = "dirty" THEN "Conflict"
           ELSE IF ~HasNoChanges THEN "None" ELSE IF marker.left > 0 THEN "RetryCheck" ELSE "Stuck"
ClassifyPr(p) ==
    CASE p.state = "merged" -> "MarkMerged"
      [] p.state = "closed" -> "ClosePR"
      [] p.state = "open" -> OpenKind(p)

\* The watch notes what it saw, and a check without news spends the budget.
Watch ==
    /\ pull.state = "open"
    /\ LET kind == ClassifyPr(pull)
       IN marker' = [head |-> pull.head, decision |-> pull.decision, seen |-> TRUE,
                     left |-> CASE kind = "RetryCheck" -> marker.left - 1
                                [] kind = "Stuck" -> 0
                                [] OTHER -> WatchRetries]
    /\ UNCHANGED <<pull, criteria>>

\* gh pr merge --auto --squash, without a look at the head it was decided for.
\* The gateway that looperd passes gives no mergeability and states in capitals
\* (gateway.rs:1856), so there MergeReady needs a gateway that gives both.
AutoMerge ==
    /\ ClassifyPr(pull) = "MergeReady"
    /\ pull' = [pull EXCEPT !.state = "merged"]
    /\ UNCHANGED <<criteria, marker>>

------------------------------------------------------------------------------
(* reviewer_criteria.rs and fixer_handoff.rs *)

Disposition == IF "fail" \in criteria THEN "fail"
               ELSE IF "unverifiable" \in criteria THEN "unverifiable" ELSE "pass"
HasIssues == Disposition # "pass"

ShouldEnqueueFixer(p) ==
    HasIssues \/ p.decision = "CHANGES_REQUESTED" \/ HasFailingChecks(p)

\* The reviewer's verdict becomes GitHub's decision.
SubmitReview ==
    /\ pull.state = "open"
    /\ pull' = [pull EXCEPT !.decision = IF HasIssues THEN "CHANGES_REQUESTED" ELSE "APPROVED"]
    /\ UNCHANGED <<criteria, marker>>

------------------------------------------------------------------------------
(* GitHub and the agents *)

Push ==
    /\ pull.state = "open" /\ pull.head < MaxPushes
    /\ \E verdicts \in SUBSET Verdicts : criteria' = verdicts
    /\ pull' = [pull EXCEPT !.head = @ + 1, !.checks = {"in_progress"}, !.mergeable = "unknown"]
    /\ UNCHANGED marker
ChecksReport ==
    /\ \E results \in SUBSET CheckResults : pull' = [pull EXCEPT !.checks = results]
    /\ UNCHANGED <<criteria, marker>>
Mergeability ==
    /\ \E m \in {"clean", "dirty", "unknown"} : pull' = [pull EXCEPT !.mergeable = m]
    /\ UNCHANGED <<criteria, marker>>
PeopleReview ==
    /\ \E d \in Decisions : pull' = [pull EXCEPT !.decision = d]
    /\ UNCHANGED <<criteria, marker>>
PeopleEnd ==
    /\ pull.state = "open"
    /\ \E s \in {"closed", "merged"} : pull' = [pull EXCEPT !.state = s]
    /\ UNCHANGED <<criteria, marker>>

PullWatchNext == \/ Watch \/ AutoMerge \/ SubmitReview \/ Push
                 \/ ChecksReport \/ Mergeability \/ PeopleReview \/ PeopleEnd

------------------------------------------------------------------------------
(* Properties *)

\* The coordinator and the reviewer judge by rules of their own and agree: what
\* one would merge gives the other no reason to send a fixer, except criteria
\* that GitHub's decision overrules, and where review or checks call for a
\* fixer the watch asks for one (merge_watch.rs:56-118, fixer_handoff.rs:59).
WatchersAgree ==
    /\ ClassifyPr(pull) = "MergeReady" => (ShouldEnqueueFixer(pull) => HasIssues)
                                          /\ ~HasPendingChecks(pull)
    /\ pull.state = "open" /\ ShouldEnqueueFixer(pull) /\ ~HasIssues
         => ClassifyPr(pull) \in {"ReengageReview", "RedCI"}
==============================================================================
