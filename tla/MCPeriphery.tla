----------------------------- MODULE MCPeriphery -----------------------------
(***************************************************************************)
(* The parts around the pipelines that share no state with each other: the *)
(* agents, the webhook forwarder, the planner's worktrees, the process     *)
(* itself, and the supervision library.  The first state chooses a part,   *)
(* and only this part moves.                                               *)
(***************************************************************************)
EXTENDS Agents, Webhook, Worktrees, Process, Supervision

VARIABLE part

\* Deliveries about two pull requests and a branch: both lanes, one lane, two
\* pull requests at once, a push, and one that is not routed.
Event(type, action, conclusion) == [type |-> type, action |-> action, conclusion |-> conclusion]
MCEventOf == [d \in Deliveries |->
    CASE d = "opened"    -> Event("pull_request", "opened", "")
      [] d = "requested" -> Event("pull_request", "review_requested", "")
      [] d = "failed"    -> Event("check_run", "completed", "timed_out")
      [] d = "push"      -> Event("push", "", "")
      [] OTHER           -> Event("issue_comment", "created", "")]
MCKeysOf == [d \in Deliveries |->
    CASE d = "failed" -> <<"pr1", "pr2">> [] d = "push" -> <<"main">> [] OTHER -> <<"pr1">>]

PeripheryInit ==
    /\ part \in {"agents", "webhook", "worktrees", "process", "breaker", "lock", "forwarders"}
    /\ AgentsInit /\ WebhookInit /\ WorktreesInit /\ ProcessInit /\ SupervisionInit

\* All but the variables of the moving part stay as they are.
Moves(names) ==
    /\ part \in names
    /\ UNCHANGED part
    /\ "agents"    \notin names => UNCHANGED agentVars
    /\ "webhook"   \notin names => UNCHANGED hookVars
    /\ "worktrees" \notin names => UNCHANGED wtVars
    /\ "process"   \notin names => UNCHANGED processVars
    /\ "breaker"   \notin names => UNCHANGED superVars

PeripheryNext ==
    \/ Moves({"agents"})    /\ AgentsNext
    \/ Moves({"webhook"})   /\ WebhookNext
    \/ Moves({"worktrees"}) /\ WorktreesNext
    \/ Moves({"process"})   /\ ProcessNext
    \/ Moves({"breaker", "lock", "forwarders"})
       /\ \/ part = "breaker"    /\ BreakerNext
          \/ part = "lock"       /\ LockNext
          \/ part = "forwarders" /\ ForwarderNext

peripheryVars == <<part, agentVars, hookVars, wtVars, processVars, superVars>>

\* In its initial state no part but the webhook's workers has a fair action
\* enabled, so the fairness of the parts that do not move asks for nothing.  The
\* runtime polls every task that can go on.
WebhookFairness == \A w \in Workers : WF_hookVars(part = "webhook" /\ WorkerStep(w))
PeripherySpec ==
    /\ PeripheryInit /\ [][PeripheryNext]_peripheryVars
    /\ AgentsFairness /\ WebhookFairness /\ WorktreesFairness /\ ProcessFairness /\ SupervisionFairness
==============================================================================
