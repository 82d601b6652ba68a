----------------------------- MODULE Lifecycle -----------------------------
(***************************************************************************)
(* The lifecycle state of a run (lifecycle.rs): who committed, pushed and  *)
(* opened the pull request, the agent or looper in its place, and on which *)
(* branch.  The state is merged with what the agent reports, saved in the  *)
(* run's checkpoint and read back.  When looper falls back to doing the    *)
(* work itself is the caller's decision and an assumption of this module   *)
(* (looperd has no caller yet).  Base branches go as their branches do and *)
(* are left out.                                                           *)
(***************************************************************************)
EXTENDS Naturals, FiniteSets

CONSTANTS Shas  \* commits

VARIABLES
    life,  \* State
    fell   \* the actions that looper did in place of the agent

lifeVars == <<life, fell>>

Kinds    == {"commit", "push", "pr"}
Sources  == {"", "none", "agent", "fallback", "other"}  \* other: whatever the agent names
Nobody   == {"", "none"}
Branches == {"", "planned", "other"}
Urls     == {"", "blank", "url"}  \* blank: white space only
Provenances == {"", "planned", "agent_migrated"}

State == [branch : Branches, planned : Branches, agent : Branches, active : Branches,
          provenance : Provenances, shas : SUBSET Shas, pushed : BOOLEAN,
          pr : 0 .. 1, url : Urls, actions : [Kinds -> Sources]]

LifecycleTypeOK == life \in State /\ fell \subseteq Kinds

FirstNonEmpty(a, b) == IF a # "" THEN a ELSE b
Trim(url) == IF url = "blank" THEN "" ELSE url
ActionSourceFromBool(done) == IF done THEN "agent" ELSE "none"
SourceOr(value, fallback) == IF value \in Nobody THEN fallback ELSE value

------------------------------------------------------------------------------
(* normalize, and from_json_value that ends with it *)

\* What a state says was done.
Done(s) == [k \in Kinds |-> CASE k = "commit" -> s.shas # {}
                              [] k = "push" -> s.pushed
                              [] k = "pr" -> s.pr > 0 \/ Trim(s.url) # ""]

Normalize(s) ==
    LET branch  == FirstNonEmpty(s.branch, FirstNonEmpty(s.active, s.planned))
        planned == FirstNonEmpty(s.planned, branch)
        active  == FirstNonEmpty(s.active, FirstNonEmpty(s.agent, branch))
        moved   == planned # "" /\ active # "" /\ planned # active
    IN [s EXCEPT !.branch = branch, !.planned = planned, !.active = active,
                 !.provenance = FirstNonEmpty(@, IF moved THEN "agent_migrated" ELSE "planned"),
                 !.actions = [k \in Kinds |-> FirstNonEmpty(@[k], ActionSourceFromBool(Done(s)[k]))]]

\* The JSON of an agent names the fields it likes, with one source for all.
Reports ==
    {Normalize(s) : s \in [branch : Branches, planned : {""}, agent : Branches, active : {""},
                           provenance : {""}, shas : SUBSET Shas, pushed : BOOLEAN, pr : 0 .. 1,
                           url : Urls, actions : {[k \in Kinds |-> claim] : claim \in Sources}]}

\* new_state of a policy with fallback.
NewState == [branch |-> "planned", planned |-> "planned", agent |-> "", active |-> "planned",
             provenance |-> "planned", shas |-> {}, pushed |-> FALSE, pr |-> 0, url |-> "",
             actions |-> [k \in Kinds |-> "none"]]

LifecycleInit == life = NewState /\ fell = {}

------------------------------------------------------------------------------
(* merge_agent and the other updates *)

\* Which actions a report claims: the test of the URL does not trim it.
Claims(r) == {k \in Kinds : CASE k = "commit" -> r.shas # {}
                              [] k = "push" -> r.pushed
                              [] k = "pr" -> r.pr > 0 \/ r.url # ""}

MergedActionsAnyway(s, r) ==
    [k \in Kinds |-> IF k \in Claims(r) THEN SourceOr(r.actions[k], "agent") ELSE s.actions[k]]
MergedActions(s, r) ==
    [k \in Kinds |-> IF k \in Claims(r) /\ s.actions[k] # "fallback"
                     THEN SourceOr(r.actions[k], "agent") ELSE s.actions[k]]

\* The report's provenance was normalized when it was read, so it is never
\* empty and replaces the run's.
MergeAgent(s, r) ==
    LET agent == FirstNonEmpty(FirstNonEmpty(r.agent, r.branch), s.agent)
    IN Normalize([branch |-> FirstNonEmpty(s.branch, r.branch),
                  planned |-> FirstNonEmpty(s.planned, FirstNonEmpty(r.planned, r.branch)),
                  agent |-> agent,
                  active |-> FirstNonEmpty(s.active, FirstNonEmpty(r.active, r.branch)),
                  provenance |-> FirstNonEmpty(r.provenance, s.provenance),
                  shas |-> s.shas \cup r.shas, pushed |-> s.pushed \/ r.pushed,
                  pr |-> IF r.pr > 0 THEN r.pr ELSE s.pr,
                  url |-> IF Trim(r.url) # "" THEN r.url ELSE s.url,
                  actions |-> MergedActions(s, r)])

Ingest == /\ \E r \in Reports : life' = MergeAgent(life, r)
          /\ UNCHANGED fell

RecordAgentBranch ==
    /\ \E b \in Branches : life' = Normalize([life EXCEPT !.agent = FirstNonEmpty(b, @)])
    /\ UNCHANGED fell

SetActiveBranch ==
    /\ \E b \in Branches, p \in Provenances :
         life' = Normalize([life EXCEPT !.active = FirstNonEmpty(b, @),
                                        !.provenance = FirstNonEmpty(p, @)])
    /\ UNCHANGED fell

\* Looper does what the agent left undone, and says so.
Fallback(k) ==
    /\ ~Done(life)[k]
    /\ \E sha \in Shas :
         life' = [life EXCEPT !.actions[k] = "fallback",
                              !.shas = IF k = "commit" THEN {sha} ELSE @,
                              !.pushed = @ \/ k = "push",
                              !.pr = IF k = "pr" THEN 1 ELSE @]
    /\ fell' = fell \cup {k}

LifecycleNext == Ingest \/ RecordAgentBranch \/ SetActiveBranch \/ \E k \in Kinds : Fallback(k)

------------------------------------------------------------------------------
(* Properties *)

\* What was done is attributed to somebody, what looper did stays looper's
\* whatever the agent claims later, and a commit or a push that nobody did is
\* nobody's (lifecycle.rs:413-434; a blank URL does attribute a pull request).
AttributionIsSound ==
    /\ \A k \in Kinds : Done(life)[k] => life.actions[k] \notin Nobody
    /\ \A k \in fell : life.actions[k] = "fallback"
    /\ \A k \in {"commit", "push"} : life.actions[k] \notin Nobody => Done(life)[k]
==============================================================================
