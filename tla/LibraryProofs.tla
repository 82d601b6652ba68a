----------------------------- MODULE LibraryProofs -----------------------------
(***************************************************************************)
(* Theorems about the parts of looper that share no state with each other: *)
(* the dispatch of issues (Intake), the search for cycles of dependencies  *)
(* (DepGraph), what is concluded about a pull request (PullWatch), who did *)
(* what in a run (Lifecycle), the recovery of the queue after a death      *)
(* (Recovery), the layers of the configuration (Settings), the directories *)
(* agents work in (Checkouts), the anchors of evidence in a diff (Anchors),*)
(* the double of gh (FakeGh) and takeover sessions (Takeover).  Each is    *)
(* one section with an inductive invariant of its own.                     *)
(***************************************************************************)
EXTENDS Intake, DepGraph, PullWatch, Lifecycle, Recovery, Settings, Checkouts, Anchors, FakeGh,
        Takeover, SequenceTheorems,
        FiniteSetTheorems, TLAPS

-----------------------------------------------------------------------------
(* Intake *)

\* An issue with a dispatch label was found valid by its last triage, and so is
\* not marked unclear, which a re-triage needs.
IntakeInv ==
    /\ issue \in [mode : Modes, labels : SUBSET Labels, comments : Seq(Comment)]
    /\ issue.labels \cap DispatchLabels # {} => verdict = "valid" /\ Unclear \notin issue.labels

\* What parse_decision answers: nothing to do; or the dispatch labels are
\* cleared, and only a valid issue gets one, which is not marked unclear then.
LEMMA ParsedDecision ==
    ASSUME NEW out \in LlmOutputs, NEW d, d = ParseDecision(out), ~d.noOp
    PROVE  /\ d.disposition \in Dispositions /\ d.apply \subseteq Labels
           /\ DispatchLabels \subseteq d.clear /\ Unclear \in d.clear
           /\ d.apply \cap Triggers = {}
           /\ d.apply \cap DispatchLabels # {} => d.disposition = "valid" /\ Unclear \notin d.apply
<1>1. CASE /\ out.disposition = "valid" /\ ExactlyOne(out.other, {"kind/bug"})
           /\ ExactlyOne(out.dispatch, DispatchLabels)
           /\ d = Decision("valid", {out.other[1], out.dispatch[1]})
  BY <1>1 DEF Decision, Dispositions, Clears, Labels, DispatchLabels, Triggers, Trigger, ExactlyOne,
     Triaged, Unclear
<1>2. CASE d = Decision("out-of-scope", {OutOfScope}) \/ d = Decision("unclear", {Unclear})
  BY <1>2 DEF Decision, Dispositions, Clears, Labels, DispatchLabels, Triggers, Trigger, Triaged,
     OutOfScope, Unclear
<1>3. CASE d = NoOp
  BY <1>3 DEF NoOp
<1> QED BY <1>1, <1>2, <1>3 DEF ParseDecision

\* The single dispatch label is one of the issue's.
LEMMA SingleLabel ==
    ASSUME SingleDispatchLabel # "none"
    PROVE  SingleDispatchLabel \in issue.labels \cap DispatchLabels
<1>. DEFINE found == issue.labels \cap DispatchLabels
<1>1. Cardinality(found) = 1
  BY DEF SingleDispatchLabel
<1>2. found # {}
  BY <1>1, FS_EmptySet
<1> QED BY <1>1, <1>2 DEF SingleDispatchLabel

\* Only Dispatch adds a trigger, and only to an issue with a dispatch label.
LEMMA DispatchAdds ==
    ASSUME IntakeInv, Dispatch
    PROVE  issue.labels \cap DispatchLabels # {} /\ issue' = [issue EXCEPT !.labels = @ \cup Decide]
           /\ Decide \subseteq Triggers
<1>1. SingleDispatchLabel # "none"
  BY DEF Dispatch, Decide, Autonomous, HumanGated
<1>2. SingleDispatchLabel \in issue.labels \cap DispatchLabels
  BY <1>1, SingleLabel
<1> QED BY <1>2 DEF Dispatch, Decide, Triggers

\* Every step keeps IntakeInv, and sets a trigger only on an issue found valid.
LEMMA IntakeStep ==
    ASSUME IntakeInv, IntakeNext
    PROVE  /\ IntakeInv'
           /\ \A t \in Triggers : t \notin issue.labels /\ t \in issue.labels' => verdict = "valid"
<1>0. issue.labels \subseteq Labels /\ issue.comments \in Seq(Comment)
  BY DEF IntakeInv
<1>1. CASE Triage
  <2>1. PICK out \in LlmOutputs : Carry(ParseDecision(out))
    BY <1>1 DEF Triage
  <2>. DEFINE d == ParseDecision(out)
  <2>2. /\ d.disposition \in Dispositions /\ d.apply \subseteq Labels
        /\ DispatchLabels \subseteq d.clear /\ Unclear \in d.clear /\ d.apply \cap Triggers = {}
        /\ d.apply \cap DispatchLabels # {} => d.disposition = "valid" /\ Unclear \notin d.apply
    BY <2>1, ParsedDecision DEF Carry
  <2>3. issue' = [issue EXCEPT !.labels = Applied(@, d)] /\ verdict' = d.disposition
    BY <2>1, <2>2 DEF Carry, Dispositions
  <2>. HIDE DEF d
  <2> QED BY <1>0, <2>2, <2>3 DEF IntakeInv, Applied
<1>2. CASE ReTriage
  <2>. DEFINE labels == Applied(issue.labels, ReTriageDecision)
  <2>1. Unclear \in issue.labels /\ issue' = [issue EXCEPT !.labels = labels]
    BY <1>2 DEF ReTriage, ShouldReTriage, Carry
  <2>2. labels \subseteq issue.labels
    BY DEF Applied, ReTriageDecision
  <2>. HIDE DEF labels
  <2>3. issue.labels \cap DispatchLabels = {}
    BY <2>1 DEF IntakeInv
  <2> QED BY <1>0, <2>1, <2>2, <2>3 DEF IntakeInv
<1>3. CASE Dispatch
  <2>1. Triggers \cap DispatchLabels = {} /\ Triggers \subseteq Labels
    BY DEF Triggers, Trigger, DispatchLabels, Labels
  <2>2. Unclear \notin Triggers
    BY DEF Triggers, Trigger, DispatchLabels, Unclear
  <2> QED BY <1>0, <1>3, <2>2, <2>1, DispatchAdds DEF IntakeInv, Dispatch
<1>4. CASE AskAgain
  BY <1>0, <1>4 DEF AskAgain, Relabelled, IntakeInv
<1>5. CASE SwitchDispatch
  <2>1. issue.labels \cap DispatchLabels # {}
    BY <1>5, SingleLabel DEF SwitchDispatch
  <2>2. /\ Triggers \cap DispatchLabels = {} /\ DispatchLabels \subseteq Labels
        /\ Unclear \notin DispatchLabels
    BY DEF Triggers, Trigger, DispatchLabels, Labels, Unclear
  <2>. DEFINE labels == (issue.labels \ DispatchLabels)
                        \cup (DispatchLabels \ {SingleDispatchLabel})
  <2>3. Relabelled(labels)
    BY <1>5 DEF SwitchDispatch
  <2>5. Unclear \in labels => Unclear \in issue.labels
    BY <2>2
  <2>4. labels \subseteq Labels /\ \A t \in Triggers : t \in labels => t \in issue.labels
    BY <1>0, <2>2
  <2>. HIDE DEF labels
  <2> QED BY <2>1, <2>3, <2>4, <2>5 DEF Relabelled, IntakeInv
<1>6. CASE ToggleHold
  BY <1>0, <1>6 DEF ToggleHold, Relabelled, IntakeInv, Hold, Labels, DispatchLabels, Triggers, Trigger,
     Unclear
<1>7. CASE Say
  <2>1. PICK c \in Comment : issue' = [issue EXCEPT !.comments = Append(@, c)]
    BY <1>7 DEF Say
  <2>2. Append(issue.comments, c) \in Seq(Comment)
    BY <1>0
  <2> QED BY <1>7, <2>1, <2>2 DEF Say, IntakeInv
<1>8. CASE Unblock \/ NextDay
  BY <1>8 DEF Unblock, NextDay, IntakeInv
<1> QED BY <1>1, <1>2, <1>3, <1>4, <1>5, <1>6, <1>7, <1>8 DEF IntakeNext

\* For any comments, ages and delays, and any answers of the model: planner and
\* worker are handed only issues whose last triage found them valid.
THEOREM OnlyValidIsDispatched == IntakeInit /\ [][IntakeNext]_intakeVars => DispatchedWasValid
<1>. DEFINE Handed == \A t \in Triggers :
                         t \notin issue.labels /\ t \in issue.labels' => verdict = "valid"
<1>1. IntakeInit => IntakeInv
  <2>1. <<>> \in Seq(Comment)
    OBVIOUS
  <2> QED BY <2>1 DEF IntakeInit, IntakeInv
<1>2. IntakeInv /\ [IntakeNext]_intakeVars => IntakeInv'
  BY IntakeStep DEF intakeVars, IntakeInv
<1>3. IntakeInv /\ [IntakeNext]_intakeVars => [Handed]_intakeVars
  BY IntakeStep
<1>4. IntakeInit /\ [][IntakeNext]_intakeVars => [][Handed]_intakeVars
  BY <1>1, <1>2, <1>3, PTL
<1> QED BY <1>4 DEF DispatchedWasValid, Handed

-----------------------------------------------------------------------------
(* PullWatch *)

\* The types are kept: the watch's budget never gets below zero.
THEOREM PullWatchTypes == PullWatchInit /\ [][PullWatchNext]_pullVars => []PullWatchTypeOK
<1>1. PullWatchInit => PullWatchTypeOK
  BY PullWatchAssumption DEF PullWatchInit, PullWatchTypeOK, Pull, Decisions
<1>2. PullWatchTypeOK /\ [PullWatchNext]_pullVars => PullWatchTypeOK'
  <2>. SUFFICES ASSUME PullWatchTypeOK, [PullWatchNext]_pullVars PROVE PullWatchTypeOK'
    OBVIOUS
  <2>1. CASE Watch
    <3>1. ClassifyPr(pull) = "RetryCheck" => marker.left > 0
      BY <2>1 DEF Watch, ClassifyPr, OpenKind
    <3> QED BY <2>1, <3>1, PullWatchAssumption DEF Watch, PullWatchTypeOK, Pull
  <2>2. CASE AutoMerge \/ SubmitReview
    BY <2>2 DEF AutoMerge, SubmitReview, PullWatchTypeOK, Pull, Decisions
  <2>3. CASE Push
    <3>1. pull.head + 1 \in 0 .. MaxPushes /\ {"in_progress"} \subseteq CheckResults
      BY <2>3, PullWatchAssumption DEF Push, PullWatchTypeOK, Pull, CheckResults
    <3>. DEFINE p == [pull EXCEPT !.head = @ + 1, !.checks = {"in_progress"}, !.mergeable = "unknown"]
    <3>2. p \in Pull
      BY <3>1 DEF PullWatchTypeOK, Pull
    <3>3. pull' = p /\ criteria' \subseteq Verdicts
      BY <2>3 DEF Push
    <3>. HIDE DEF p
    <3> QED BY <2>3, <3>2, <3>3 DEF Push, PullWatchTypeOK
  <2>4. CASE ChecksReport \/ Mergeability \/ PeopleReview \/ PeopleEnd
    BY <2>4 DEF ChecksReport, Mergeability, PeopleReview, PeopleEnd, PullWatchTypeOK, Pull
  <2>5. CASE UNCHANGED pullVars
    BY <2>5 DEF pullVars, PullWatchTypeOK
  <2> QED BY <2>1, <2>2, <2>3, <2>4, <2>5 DEF PullWatchNext
<1> QED BY <1>1, <1>2, PTL

\* For any number of heads and any budget: what the coordinator would merge
\* needs no fixer and waits for no check, and where review or checks call for a
\* fixer the coordinator asks for one.
THEOREM JudgesAgree == PullWatchInit /\ [][PullWatchNext]_pullVars => []WatchersAgree
<1>1. PullWatchTypeOK => WatchersAgree
  BY DEF PullWatchTypeOK, WatchersAgree, ClassifyPr, OpenKind, ShouldEnqueueFixer, HasFailingChecks,
     HasPendingChecks, Pull
<1> QED BY <1>1, PullWatchTypes, PTL

-----------------------------------------------------------------------------
(* Lifecycle *)

\* Every action has a source, if only "none", and the sources are sound.
LifeInv == /\ LifecycleTypeOK
           /\ \A k \in Kinds : life.actions[k] # ""
           /\ AttributionIsSound

\* What was done is read off four fields.
LEMMA DoneOf ==
    ASSUME NEW s
    PROVE  /\ Done(s)["commit"] = (s.shas # {}) /\ Done(s)["push"] = s.pushed
           /\ Done(s)["pr"] = (s.pr > 0 \/ Trim(s.url) # "")
BY DEF Done, Kinds

LEMMA SameDone ==
    ASSUME NEW s, NEW t, s.shas = t.shas, s.pushed = t.pushed, s.pr = t.pr, s.url = t.url
    PROVE  \A k \in Kinds : Done(s)[k] = Done(t)[k]
BY ZenonT(30), DoneOf DEF Kinds

\* normalize fills the gaps of a state: what was done is as before, and a source
\* that was given stays.
LEMMA NormalState ==
    ASSUME NEW s \in State
    PROVE  /\ Normalize(s) \in State
           /\ \A k \in Kinds : Done(Normalize(s))[k] = Done(s)[k]
           /\ \A k \in Kinds : /\ Normalize(s).actions[k] # ""
                               /\ s.actions[k] # "" => Normalize(s).actions[k] = s.actions[k]
<1>. DEFINE branch  == FirstNonEmpty(s.branch, FirstNonEmpty(s.active, s.planned))
            planned == FirstNonEmpty(s.planned, branch)
            active  == FirstNonEmpty(s.active, FirstNonEmpty(s.agent, branch))
            moved   == planned # "" /\ active # "" /\ planned # active
            provenance == FirstNonEmpty(s.provenance, IF moved THEN "agent_migrated" ELSE "planned")
            actions == [k \in Kinds |-> FirstNonEmpty(s.actions[k], ActionSourceFromBool(Done(s)[k]))]
<1>1. branch \in Branches /\ planned \in Branches /\ active \in Branches
  BY DEF State, FirstNonEmpty
<1>2. provenance \in Provenances
  BY DEF State, FirstNonEmpty, Provenances
<1>3. actions \in [Kinds -> Sources]
  BY DEF State, FirstNonEmpty, ActionSourceFromBool, Sources
<1>4. Normalize(s) = [s EXCEPT !.branch = branch, !.planned = planned, !.active = active,
                               !.provenance = provenance, !.actions = actions]
  BY DEF Normalize, State
<1>5. \A k \in Kinds : actions[k] # "" /\ (s.actions[k] # "" => actions[k] = s.actions[k])
  BY DEF FirstNonEmpty, ActionSourceFromBool
<1>. HIDE DEF branch, planned, active, moved, provenance, actions
<1>6. Normalize(s) \in State
  BY ZenonT(30), <1>1, <1>2, <1>3, <1>4 DEF State
<1>7. /\ Normalize(s).shas = s.shas /\ Normalize(s).pushed = s.pushed
      /\ Normalize(s).pr = s.pr /\ Normalize(s).url = s.url /\ Normalize(s).actions = actions
  BY <1>4 DEF State
<1>8. \A k \in Kinds : Done(Normalize(s))[k] = Done(s)[k]
  BY <1>7, SameDone
<1> QED BY <1>5, <1>6, <1>7, <1>8

\* What an agent reports is a state with a source for every action.
LEMMA ReportState ==
    ASSUME NEW r \in Reports
    PROVE  r \in State /\ \A k \in Kinds : r.actions[k] # ""
<1>1. PICK s \in [branch : Branches, planned : {""}, agent : Branches, active : {""},
                  provenance : {""}, shas : SUBSET Shas, pushed : BOOLEAN, pr : 0 .. 1, url : Urls,
                  actions : {[k \in Kinds |-> claim] : claim \in Sources}] : r = Normalize(s)
  BY DEF Reports
<1>2. s.actions \in [Kinds -> Sources]
  OBVIOUS
<1>3. s \in State
  BY <1>2 DEF State, Branches, Provenances
<1> QED BY <1>1, <1>3, NormalState

\* A new state in which what was done has a source and what looper did is still
\* looper's is sound after normalize.
LEMMA SoundAfter ==
    ASSUME NEW s \in State, life' = Normalize(s),
           \A k \in Kinds : s.actions[k] # "",
           \A k \in Kinds : Done(s)[k] => s.actions[k] \notin Nobody,
           \A k \in fell' : s.actions[k] = "fallback",
           \A k \in {"commit", "push"} : s.actions[k] \notin Nobody => Done(s)[k],
           fell' \subseteq Kinds
    PROVE  LifeInv'
<1>1. /\ life' \in State
      /\ \A k \in Kinds : Done(life')[k] = Done(s)[k] /\ life'.actions[k] = s.actions[k]
  BY NormalState
<1>2. {"commit", "push"} \subseteq Kinds
  BY DEF Kinds
<1> QED BY <1>1, <1>2 DEF LifeInv, LifecycleTypeOK, AttributionIsSound

\* merge_agent: a claim of the report counts where looper did not do it.
LEMMA IngestSound == ASSUME LifeInv, Ingest PROVE LifeInv'
<1>1. PICK r \in Reports : life' = MergeAgent(life, r)
  BY DEF Ingest
<1>2. r \in State /\ (\A k \in Kinds : r.actions[k] # "") /\ life \in State /\ fell' = fell
  BY ReportState DEF LifeInv, LifecycleTypeOK, Ingest
<1>. DEFINE agent == FirstNonEmpty(FirstNonEmpty(r.agent, r.branch), life.agent)
            t == [branch |-> FirstNonEmpty(life.branch, r.branch),
                  planned |-> FirstNonEmpty(life.planned, FirstNonEmpty(r.planned, r.branch)),
                  agent |-> agent,
                  active |-> FirstNonEmpty(life.active, FirstNonEmpty(r.active, r.branch)),
                  provenance |-> FirstNonEmpty(r.provenance, life.provenance),
                  shas |-> life.shas \cup r.shas, pushed |-> life.pushed \/ r.pushed,
                  pr |-> IF r.pr > 0 THEN r.pr ELSE life.pr,
                  url |-> IF Trim(r.url) # "" THEN r.url ELSE life.url,
                  actions |-> MergedActions(life, r)]
<1>3. life' = Normalize(t)
  BY <1>1 DEF MergeAgent
<1>4. /\ agent \in Branches /\ t.branch \in Branches /\ t.planned \in Branches
      /\ t.active \in Branches /\ t.provenance \in Provenances
  BY <1>2 DEF State, FirstNonEmpty
<1>5. MergedActions(life, r) \in [Kinds -> Sources]
  BY <1>2 DEF MergedActions, SourceOr, State, Sources, Nobody
<1>6. t \in State
  BY <1>2, <1>4, <1>5 DEF State, Trim, Urls
<1>7. /\ t.actions = MergedActions(life, r) /\ t.shas = life.shas \cup r.shas
      /\ t.pushed = (life.pushed \/ r.pushed)
      /\ t.pr = (IF r.pr > 0 THEN r.pr ELSE life.pr)
      /\ t.url = (IF Trim(r.url) # "" THEN r.url ELSE life.url)
  OBVIOUS
<1>. HIDE DEF t
<1>8. \A k \in Kinds :
         t.actions[k] = IF k \in Claims(r) /\ life.actions[k] # "fallback"
                        THEN IF r.actions[k] = "none" THEN "agent" ELSE r.actions[k]
                        ELSE life.actions[k]
  BY <1>2, <1>7 DEF MergedActions, SourceOr, Nobody
<1>9. \A k \in Kinds : t.actions[k] # "" /\ (Done(t)[k] => t.actions[k] \notin Nobody)
  <2>. SUFFICES ASSUME NEW k \in Kinds
                PROVE  t.actions[k] # "" /\ (Done(t)[k] => t.actions[k] \notin Nobody)
    OBVIOUS
  <2>1. r.actions[k] \in Sources \ {""}
        /\ life.actions[k] \in Sources \ {""}
    BY <1>2 DEF State, LifeInv
  <2>2. Done(t)[k] => k \in Claims(r) \/ Done(life)[k]
    BY <1>2, <1>7 DEF Done, Claims, Kinds, Trim, State, Urls
  <2>3. Done(life)[k] => life.actions[k] \notin Nobody
    BY DEF LifeInv, AttributionIsSound
  <2> QED BY <1>8, <2>1, <2>2, <2>3 DEF Sources, Nobody
<1>10. \A k \in fell' : t.actions[k] = "fallback"
  BY <1>2, <1>8 DEF LifeInv, AttributionIsSound, LifecycleTypeOK
<1>11. \A k \in {"commit", "push"} : t.actions[k] \notin Nobody => Done(t)[k]
  <2>. SUFFICES ASSUME NEW k \in {"commit", "push"}, t.actions[k] \notin Nobody
                PROVE  Done(t)[k]
    OBVIOUS
  <2>1. k \in Kinds
    BY DEF Kinds
  <2>2. CASE k \in Claims(r)
    BY <1>2, <1>7, <2>1, <2>2 DEF Claims, Done, State
  <2>3. CASE k \notin Claims(r)
    <3>1. Done(life)[k]
      BY <1>8, <2>1, <2>3 DEF LifeInv, AttributionIsSound
    <3> QED BY <1>2, <1>7, <2>1, <3>1 DEF Done, State
  <2> QED BY <2>2, <2>3
<1> QED BY <1>2, <1>3, <1>6, <1>9, <1>10, <1>11, SoundAfter DEF LifeInv, LifecycleTypeOK

\* The updates of branches leave what was done and by whom alone.
LEMMA BranchesSound == ASSUME LifeInv, RecordAgentBranch \/ SetActiveBranch PROVE LifeInv'
<1>1. \E b \in Branches, p \in Provenances, a \in Branches :
         life' = Normalize([life EXCEPT !.agent = a, !.active = b, !.provenance = p])
  <2>1. life \in State
    BY DEF LifeInv, LifecycleTypeOK
  <2>2. CASE RecordAgentBranch
    <3>1. PICK b \in Branches : life' = Normalize([life EXCEPT !.agent = FirstNonEmpty(b, @)])
      BY <2>2 DEF RecordAgentBranch
    <3>2. [life EXCEPT !.agent = FirstNonEmpty(b, @)]
            = [life EXCEPT !.agent = FirstNonEmpty(b, life.agent), !.active = life.active,
                           !.provenance = life.provenance]
      BY <2>1 DEF State
    <3>3. FirstNonEmpty(b, life.agent) \in Branches /\ life.active \in Branches
          /\ life.provenance \in Provenances
      BY <2>1 DEF State, FirstNonEmpty
    <3> QED BY <3>1, <3>2, <3>3
  <2>3. CASE SetActiveBranch
    <3>1. PICK b \in Branches, p \in Provenances :
             life' = Normalize([life EXCEPT !.active = FirstNonEmpty(b, @),
                                            !.provenance = FirstNonEmpty(p, @)])
      BY <2>3 DEF SetActiveBranch
    <3>2. [life EXCEPT !.active = FirstNonEmpty(b, @), !.provenance = FirstNonEmpty(p, @)]
            = [life EXCEPT !.agent = life.agent, !.active = FirstNonEmpty(b, life.active),
                           !.provenance = FirstNonEmpty(p, life.provenance)]
      BY <2>1 DEF State
    <3>3. /\ life.agent \in Branches /\ FirstNonEmpty(b, life.active) \in Branches
          /\ FirstNonEmpty(p, life.provenance) \in Provenances
      BY <2>1 DEF State, FirstNonEmpty
    <3> QED BY <3>1, <3>2, <3>3
  <2> QED BY <2>2, <2>3
<1>2. PICK b \in Branches, p \in Provenances, a \in Branches :
         life' = Normalize([life EXCEPT !.agent = a, !.active = b, !.provenance = p])
  BY <1>1
<1>. DEFINE t == [life EXCEPT !.agent = a, !.active = b, !.provenance = p]
<1>3. /\ t \in State /\ t.actions = life.actions
      /\ t.shas = life.shas /\ t.pushed = life.pushed /\ t.pr = life.pr /\ t.url = life.url
  BY DEF LifeInv, LifecycleTypeOK, State
<1>5. \A k \in Kinds : Done(t)[k] = Done(life)[k]
  BY ZenonT(30), <1>3, SameDone
<1>4. fell' = fell /\ fell \subseteq Kinds
  BY DEF RecordAgentBranch, SetActiveBranch, LifeInv, LifecycleTypeOK
<1>. HIDE DEF t
<1>6. life' = Normalize(t)
  BY <1>2 DEF t
<1>7. /\ \A k \in Kinds : t.actions[k] # ""
      /\ \A k \in Kinds : Done(t)[k] => t.actions[k] \notin Nobody
      /\ \A k \in fell' : t.actions[k] = "fallback"
  BY <1>3, <1>4, <1>5 DEF LifeInv, AttributionIsSound
<1>8. \A k \in {"commit", "push"} : t.actions[k] \notin Nobody => Done(t)[k]
  BY <1>3, <1>5 DEF LifeInv, AttributionIsSound, Kinds
<1> QED BY <1>3, <1>4, <1>6, <1>7, <1>8, SoundAfter

\* Looper's own doing is done and is looper's.
LEMMA FallbackSound == ASSUME LifeInv, NEW k \in Kinds, Fallback(k) PROVE LifeInv'
<1>1. PICK sha \in Shas :
         life' = [life EXCEPT !.actions[k] = "fallback",
                              !.shas = IF k = "commit" THEN {sha} ELSE @,
                              !.pushed = @ \/ k = "push",
                              !.pr = IF k = "pr" THEN 1 ELSE @]
  BY DEF Fallback
<1>2. life \in State /\ fell' = fell \cup {k} /\ fell \subseteq Kinds
  BY DEF Fallback, LifeInv, LifecycleTypeOK
<1>3. life.actions \in [Kinds -> Sources] /\ life.shas \subseteq Shas
  BY <1>2 DEF State
<1>4. /\ life'.actions = [life.actions EXCEPT ![k] = "fallback"]
      /\ life'.shas = (IF k = "commit" THEN {sha} ELSE life.shas)
      /\ life'.pushed = (life.pushed \/ k = "push")
      /\ life'.pr = (IF k = "pr" THEN 1 ELSE life.pr) /\ life'.url = life.url
  BY <1>1, <1>2 DEF State
<1>5. life' \in State
  <2>1. [life.actions EXCEPT ![k] = "fallback"] \in [Kinds -> Sources]
    BY <1>3 DEF Sources
  <2>2. life' = [life EXCEPT !.actions = [life.actions EXCEPT ![k] = "fallback"],
                             !.shas = IF k = "commit" THEN {sha} ELSE life.shas,
                             !.pushed = life.pushed \/ k = "push",
                             !.pr = IF k = "pr" THEN 1 ELSE life.pr]
    BY <1>1, <1>2 DEF State
  <2>. DEFINE as == [life.actions EXCEPT ![k] = "fallback"]
              cs == IF k = "commit" THEN {sha} ELSE life.shas
              ps == life.pushed \/ k = "push"
              n == IF k = "pr" THEN 1 ELSE life.pr
  <2>3. cs \in SUBSET Shas /\ ps \in BOOLEAN /\ n \in 0 .. 1
    BY <1>2, <1>3 DEF State
  <2>. HIDE DEF as, cs, ps, n
  <2>4. life' = [life EXCEPT !.actions = as, !.shas = cs, !.pushed = ps, !.pr = n]
    BY <2>2 DEF as, cs, ps, n
  <2>5. as \in [Kinds -> Sources]
    BY <2>1 DEF as
  <2> QED BY <1>2, <2>3, <2>4, <2>5 DEF State
<1>6. \A j \in Kinds : /\ life'.actions[j] = (IF j = k THEN "fallback" ELSE life.actions[j])
                       /\ Done(life')[j] = (j = k \/ Done(life)[j])
  <2>1. \A j \in Kinds : life'.actions[j] = (IF j = k THEN "fallback" ELSE life.actions[j])
    BY <1>3, <1>4
  <2>2. Done(life')["commit"] = (k = "commit" \/ Done(life)["commit"])
    BY <1>4, DoneOf
  <2>3. Done(life')["push"] = (k = "push" \/ Done(life)["push"])
    BY <1>2, <1>4, DoneOf DEF State
  <2>4. Done(life')["pr"] = (k = "pr" \/ Done(life)["pr"])
    <3>1. life'.pr > 0 <=> k = "pr" \/ life.pr > 0
      BY <1>2, <1>4 DEF State
    <3>2. Done(life')["pr"] = (life'.pr > 0 \/ Trim(life.url) # "")
      BY <1>4, DoneOf
    <3> QED BY <3>1, <3>2, DoneOf
  <2> QED BY <2>1, <2>2, <2>3, <2>4 DEF Kinds
<1>7. {"commit", "push"} \subseteq Kinds
  BY DEF Kinds
<1> QED BY <1>2, <1>5, <1>6, <1>7 DEF LifeInv, LifecycleTypeOK, AttributionIsSound, Nobody

\* For any commits: what was done has somebody to its name, what looper did
\* stays looper's, and nobody is named for a commit or push that nobody made.
THEOREM AttributionStaysSound == LifecycleInit /\ [][LifecycleNext]_lifeVars => []AttributionIsSound
<1>1. LifecycleInit => LifeInv
  <2>. SUFFICES ASSUME LifecycleInit PROVE LifeInv
    OBVIOUS
  <2>1. [k \in Kinds |-> "none"] \in [Kinds -> Sources]
    BY DEF Sources
  <2>2. life \in State
    <3>. DEFINE as == [k \in Kinds |-> "none"]
    <3>1. as \in [Kinds -> Sources]
      BY <2>1
    <3>. HIDE DEF as
    <3>3. /\ {"planned", ""} \subseteq Branches /\ "planned" \in Provenances /\ "" \in Urls
          /\ {} \in SUBSET Shas /\ 0 \in 0 .. 1
      BY DEF Branches, Urls, Provenances
    <3>2. [branch |-> "planned", planned |-> "planned", agent |-> "", active |-> "planned",
           provenance |-> "planned", shas |-> {}, pushed |-> FALSE, pr |-> 0, url |-> "",
           actions |-> as] \in State
      BY <3>1, <3>3 DEF State
    <3> QED BY <3>2 DEF LifecycleInit, NewState, as
  <2>3. /\ \A k \in Kinds : life.actions[k] = "none"
        /\ life.shas = {} /\ ~life.pushed /\ life.pr = 0 /\ life.url = ""
    BY DEF LifecycleInit, NewState
  <2>4. \A k \in Kinds : ~Done(life)[k]
    <3>1. Trim(life.url) = ""
      BY <2>3 DEF Trim
    <3>3. life.pr > 0 <=> FALSE
      <4>1. life.pr \in 0 .. 1 /\ life.pr = 0
        BY <2>2, <2>3 DEF State
      <4> QED BY <4>1
    <3>2. ~Done(life)["commit"] /\ ~Done(life)["push"] /\ ~Done(life)["pr"]
      BY <2>3, <3>1, <3>3, DoneOf
    <3> QED BY <3>2 DEF Kinds
  <2>5. {"commit", "push"} \subseteq Kinds
    BY DEF Kinds
  <2> QED BY <2>2, <2>3, <2>4, <2>5
          DEF LifecycleInit, LifeInv, LifecycleTypeOK, AttributionIsSound, Nobody
<1>2. LifeInv /\ [LifecycleNext]_lifeVars => LifeInv'
  <2>1. LifeInv /\ UNCHANGED lifeVars => LifeInv'
    BY DEF lifeVars, LifeInv, LifecycleTypeOK, AttributionIsSound
  <2> QED BY <2>1, IngestSound, BranchesSound, FallbackSound DEF LifecycleNext
<1>3. LifeInv => AttributionIsSound
  BY DEF LifeInv
<1> QED BY <1>1, <1>2, <1>3, PTL

-----------------------------------------------------------------------------
(* Recovery *)

ItemRow == [status : ItemStatuses, due : {"later", "fresh", "due"}, attempts : 0 .. MaxTries]
ItemShapes == items \in [Loops -> [Slots -> ItemRow]]
RunShapes == /\ runs \in [Loops -> [status : {"none", "running", "success", "failed", "interrupted"},
                                    old : BOOLEAN]]
             /\ repair \in [Loops -> {"none", "cancel", "requeue"}]

\* What is owed is still queued and due to a recovery, and no recovery has a
\* reason to touch its loop.
OwedIsSafe ==
    /\ owed \subseteq Loops \X Slots /\ (phase = "up" => owed = {})
    /\ \A l \in Loops, n \in Slots : <<l, n>> \in owed =>
          /\ items[l][n].status = "queued" /\ items[l][n].due = "due"
          /\ runs[l].status # "running" /\ l \notin todo /\ repair[l] = "none"
RecInv == ItemShapes /\ RunShapes /\ OwedIsSafe

\* While looperd is up nothing is owed; what is written must be a row.
LEMMA ItemWritten ==
    ASSUME RecInv, phase = "up", UNCHANGED <<phase, owed, repair>>, RunShapes', NEW l \in Loops,
           NEW n \in Slots, NEW x \in ItemRow,
           items' = [items EXCEPT ![l] = [items[l] EXCEPT ![n] = x]]
    PROVE  RecInv'
BY DEF RecInv, ItemShapes, OwedIsSafe

LEMMA StatusWritten ==
    ASSUME RecInv, phase = "up", UNCHANGED <<phase, owed, repair>>, RunShapes', NEW l \in Loops,
           NEW n \in Slots, NEW st \in ItemStatuses, items' = With(l, n, st)
    PROVE  RecInv'
<1>1. items[l][n] \in ItemRow
  BY DEF RecInv, ItemShapes
<1>2. [items[l][n] EXCEPT !.status = st] \in ItemRow
  BY <1>1 DEF ItemRow
<1>3. items' = [items EXCEPT ![l] = [items[l] EXCEPT ![n] = [items[l][n] EXCEPT !.status = st]]]
  BY DEF With, RecInv, ItemShapes
<1> QED BY ZenonT(30), <1>2, <1>3, ItemWritten

\* The smaller of two numbers.
LEMMA MinOfTwo ==
    ASSUME NEW a \in Int, NEW b \in Int
    PROVE  Min({a, b}) \in {a, b} /\ Min({a, b}) <= a /\ Min({a, b}) <= b
<1>1. \E x \in {a, b} : \A y \in {a, b} : x <= y
  OBVIOUS
<1> QED BY <1>1 DEF Min

\* A pipeline's end writes the status of its run.
LEMMA EndedTypes ==
    ASSUME RunShapes, NEW l \in Loops, NEW st \in {"success", "failed"}, Ended(l, st)
    PROVE  RunShapes' /\ UNCHANGED <<phase, owed, repair>>
<1>1. [runs[l] EXCEPT !.status = st] \in [status : {"none", "running", "success", "failed", "interrupted"},
                                          old : BOOLEAN]
  BY DEF RunShapes
<1>2. runs' = [runs EXCEPT ![l] = [runs[l] EXCEPT !.status = st]]
  BY DEF Ended, RunShapes
<1> QED BY <1>1, <1>2 DEF Ended, RunShapes

\* A failure queues the item again, or leaves it to a person.
LEMMA FailureKeeps ==
    ASSUME RecInv, NEW l \in Loops, NEW n \in Slots, FailRetryable(l, n)
    PROVE  RecInv'
<1>1. items[l][n] \in ItemRow /\ items[l][n].attempts \in 0 .. MaxTries
  BY DEF RecInv, ItemShapes, ItemRow
<1>2. Min({items[l][n].attempts + 1, MaxTries}) \in 0 .. MaxTries
  <2>1. MaxTries \in Nat \ {0}
    BY RecoveryAssumption
  <2>2. items[l][n].attempts + 1 \in Int /\ MaxTries \in Int
    BY <1>1, <2>1
  <2>. DEFINE m == Min({items[l][n].attempts + 1, MaxTries})
  <2>3. m \in {items[l][n].attempts + 1, MaxTries} /\ m <= MaxTries
    BY <2>2, MinOfTwo
  <2>. HIDE DEF m
  <2>4. m \in 0 .. MaxTries
    BY <1>1, <2>1, <2>3
  <2> QED BY <2>4 DEF m
<1>3. \E x \in ItemRow : items' = [items EXCEPT ![l] = [items[l] EXCEPT ![n] = x]]
  <2>1. PICK step \in {"write-spec", "commit-fix", "notify"}, message \in Messages :
           items' = [items EXCEPT ![l][n] =
                       IF ShouldRetry(items[l][n], Classify(StepBoundary(step), message))
                       THEN [status |-> "queued",
                             due |-> IF RetryDelay(items[l][n].attempts) = 0 THEN "fresh" ELSE "later",
                             attempts |-> Min({items[l][n].attempts + 1, MaxTries})]
                       ELSE [items[l][n] EXCEPT !.status = "manual_intervention"]]
    BY DEF FailRetryable
  <2>. DEFINE again == [status |-> "queued",
                        due |-> IF RetryDelay(items[l][n].attempts) = 0 THEN "fresh" ELSE "later",
                        attempts |-> Min({items[l][n].attempts + 1, MaxTries})]
              over == [items[l][n] EXCEPT !.status = "manual_intervention"]
  <2>2. again \in ItemRow
    BY <1>2 DEF ItemRow, ItemStatuses
  <2>3. over \in ItemRow
    BY <1>1 DEF ItemRow, ItemStatuses
  <2>. DEFINE x == IF ShouldRetry(items[l][n], Classify(StepBoundary(step), message)) THEN again ELSE over
  <2>4. items' = [items EXCEPT ![l][n] = x]
    BY <2>1
  <2>5. x \in ItemRow
    BY <2>2, <2>3
  <2>. HIDE DEF x
  <2> QED BY <2>4, <2>5 DEF RecInv, ItemShapes
<1>4. Ended(l, "failed") /\ phase = "up"
  BY DEF FailRetryable, Working
<1>5. RunShapes' /\ UNCHANGED <<phase, owed, repair>>
  BY <1>4, EndedTypes DEF RecInv
<1> QED BY <1>3, <1>4, <1>5, ItemWritten

\* The repair of a loop's items writes none of another loop.
LEMMA LoopWritten ==
    ASSUME RecInv, NEW l \in Loops, repair[l] # "none", NEW row \in [Slots -> ItemRow],
           items' = [items EXCEPT ![l] = row], NEW st \in {"none", "requeue"},
           repair' = [repair EXCEPT ![l] = st], UNCHANGED <<runs, phase, todo, owed>>
    PROVE  RecInv'
<1>1. ItemShapes' /\ RunShapes' /\ \A k \in Loops : k # l => items'[k] = items[k] /\ repair'[k] = repair[k]
  BY DEF RecInv, ItemShapes, RunShapes
<1>2. \A n \in Slots : <<l, n>> \notin owed
  BY DEF RecInv, OwedIsSafe
<1> QED BY <1>1, <1>2 DEF RecInv, OwedIsSafe

LEMMA RepairKeeps ==
    ASSUME RecInv, NEW l \in Loops, CancelItems(l) \/ RequeueFailed(l)
    PROVE  RecInv'
<1>1. items[l] \in [Slots -> ItemRow] /\ items \in [Loops -> [Slots -> ItemRow]]
  BY DEF RecInv, ItemShapes
<1>2. CASE CancelItems(l)
  <2>1. \A n \in Slots : [items[l][n] EXCEPT !.status = "cancelled"] \in ItemRow
    BY <1>1 DEF ItemRow, ItemStatuses
  <2>2. Cancelled(l) \in [Slots -> ItemRow]
    BY <1>1, <2>1 DEF Cancelled
  <2> QED BY <1>2, <2>2, LoopWritten DEF CancelItems
<1>3. CASE RequeueFailed(l)
  <2>. DEFINE failed == {n \in Slots : items[l][n].status = "failed"}
  <2>1. \E row \in [Slots -> ItemRow] : items' = [items EXCEPT ![l] = row]
    <3>1. CASE failed = {}
      <4>1. items' = [items EXCEPT ![l] = items[l]]
        BY <1>1, <1>3, <3>1 DEF RequeueFailed
      <4> QED BY <1>1, <4>1
    <3>2. CASE failed # {}
      <4>1. PICK n \in Slots :
               items' = [items EXCEPT ![l][n] = [@ EXCEPT !.status = "queued", !.due = "due"]]
        BY <1>3, <3>2 DEF RequeueFailed
      <4>. DEFINE x == [items[l][n] EXCEPT !.status = "queued", !.due = "due"]
      <4>2. x \in ItemRow
        BY <1>1 DEF ItemRow, ItemStatuses
      <4>3. items' = [items EXCEPT ![l] = [items[l] EXCEPT ![n] = x]]
        BY <1>1, <4>1
      <4>. HIDE DEF x
      <4>4. [items[l] EXCEPT ![n] = x] \in [Slots -> ItemRow]
        BY <1>1, <4>2
      <4> QED BY <4>3, <4>4
    <3> QED BY <3>1, <3>2
  <2> QED BY <1>3, <2>1, LoopWritten DEF RequeueFailed
<1> QED BY <1>2, <1>3

\* What is due stays due as time passes, and is not stale.
LEMMA SweepKeeps == ASSUME RecInv, Later \/ CleanupStaleQueued PROVE RecInv'
<1>1. \A l \in Loops, n \in Slots :
         /\ items[l][n] \in ItemRow
         /\ [items[l][n] EXCEPT !.status = "cancelled"] \in ItemRow
  <2>. SUFFICES ASSUME NEW l \in Loops, NEW n \in Slots
                PROVE  items[l][n] \in ItemRow /\ [items[l][n] EXCEPT !.status = "cancelled"] \in ItemRow
    OBVIOUS
  <2>1. items[l][n] \in ItemRow
    BY DEF RecInv, ItemShapes
  <2> QED BY <2>1 DEF ItemRow, ItemStatuses
<1>2. CASE Later
  <2>1. PICK next \in {"fresh", "due"} :
           items' = [l \in Loops |-> [n \in Slots |->
                       [items[l][n] EXCEPT !.due = Aged(items[l][n].due, next)]]]
    BY <1>2 DEF Later
  <2>2. \A l \in Loops, n \in Slots :
           LET x == [items[l][n] EXCEPT !.due = Aged(items[l][n].due, next)]
           IN  /\ x \in ItemRow /\ x.status = items[l][n].status
               /\ items[l][n].due = "due" => x.due = "due"
    <3>. SUFFICES ASSUME NEW l \in Loops, NEW n \in Slots
                  PROVE  LET x == [items[l][n] EXCEPT !.due = Aged(items[l][n].due, next)]
                         IN  /\ x \in ItemRow /\ x.status = items[l][n].status
                             /\ items[l][n].due = "due" => x.due = "due"
      OBVIOUS
    <3>. DEFINE y == items[l][n]
    <3>1. y \in ItemRow
      BY <1>1
    <3>. HIDE DEF y
    <3>2. y.due \in {"later", "fresh", "due"}
      BY <3>1 DEF ItemRow
    <3>3. Aged(y.due, next) \in {"later", "fresh", "due"} /\ (y.due = "due" => Aged(y.due, next) = "due")
      BY <3>2 DEF Aged
    <3>4. LET x == [y EXCEPT !.due = Aged(y.due, next)]
          IN  x \in ItemRow /\ x.status = y.status /\ (y.due = "due" => x.due = "due")
      BY <3>1, <3>3 DEF ItemRow
    <3> QED BY <3>4 DEF y
  <2>3. ItemShapes' /\ \A l \in Loops, n \in Slots :
           /\ items'[l][n].status = items[l][n].status
           /\ items[l][n].due = "due" => items'[l][n].due = "due"
    BY <2>1, <2>2 DEF ItemShapes
  <2>4. RunShapes' /\ \A l \in Loops : runs'[l].status = runs[l].status
    BY <1>2 DEF Later, RecInv, RunShapes
  <2>5. UNCHANGED <<phase, todo, repair, owed>>
    BY <1>2 DEF Later
  <2>6. \A l \in Loops, n \in Slots : <<l, n>> \in owed =>
           /\ items'[l][n].status = "queued" /\ items'[l][n].due = "due"
           /\ runs'[l].status # "running" /\ l \notin todo /\ repair[l] = "none"
    BY <2>3, <2>4 DEF RecInv, OwedIsSafe
  <2> QED BY <2>3, <2>4, <2>5, <2>6 DEF RecInv, OwedIsSafe
<1>3. CASE CleanupStaleQueued
  <2>1. items' = [l \in Loops |-> [n \in Slots |->
                    IF items[l][n].status = "queued" /\ items[l][n].due \in {"later", "fresh"}
                    THEN [items[l][n] EXCEPT !.status = "cancelled"] ELSE items[l][n]]]
    BY <1>3 DEF CleanupStaleQueued, Cleaned
  <2>2. ItemShapes' /\ \A l \in Loops, n \in Slots : items[l][n].due = "due" => items'[l][n] = items[l][n]
    BY <1>1, <2>1 DEF ItemShapes
  <2>3. UNCHANGED <<runs, todo, repair, owed>> /\ phase = "cleanup" /\ phase' = "ready"
    BY <1>3 DEF CleanupStaleQueued
  <2>4. \A l \in Loops, n \in Slots : <<l, n>> \in owed =>
           /\ items'[l][n].status = "queued" /\ items'[l][n].due = "due"
           /\ runs[l].status # "running" /\ l \notin todo /\ repair[l] = "none"
    BY <2>2 DEF RecInv, OwedIsSafe
  <2> QED BY <2>2, <2>3, <2>4 DEF RecInv, RunShapes, OwedIsSafe
<1> QED BY <1>2, <1>3

\* A recovery interrupts only runs in progress, and looperd's death owes nothing
\* to their loops.
LEMMA PhaseKeeps ==
    ASSUME RecInv,
           \/ DieAnywhere \/ Reboot \/ Orphans \/ ExpiredLocks \/ RunsDone \/ ReconcileLive
           \/ InfraRecovery \/ StartThreads
    PROVE  RecInv'
<1>1. CASE DieAnywhere
  <2>1. ItemShapes' /\ RunShapes' /\ phase' # "up"
    BY <1>1 DEF DieAnywhere, RecInv, ItemShapes, RunShapes
  <2>2. OwedIsSafe'
    <3>1. CASE phase = "up"
      BY <1>1, <2>1, <3>1 DEF DieAnywhere, OwedIsSafe
    <3>2. CASE phase # "up"
      BY <1>1, <2>1, <3>2 DEF DieAnywhere, RecInv, OwedIsSafe
    <3> QED BY <3>1, <3>2
  <2> QED BY <2>1, <2>2 DEF RecInv
<1>2. CASE Reboot \/ Orphans \/ RunsDone \/ ReconcileLive \/ StartThreads
  BY <1>2 DEF Reboot, Orphans, RunsDone, ReconcileLive, StartThreads, RecInv, ItemShapes, RunShapes,
     OwedIsSafe
<1>3. CASE ExpiredLocks
  BY <1>3 DEF ExpiredLocks, StaleRuns, RecInv, ItemShapes, RunShapes, OwedIsSafe
<1>4. CASE InfraRecovery
  <2>1. \A l \in Loops : [runs[l] EXCEPT !.status = "interrupted"]
           \in [status : {"none", "running", "success", "failed", "interrupted"}, old : BOOLEAN]
    BY DEF RecInv, RunShapes
  <2>2. RunShapes' /\ \A l \in Loops : runs'[l] = runs[l] \/ runs'[l].status = "interrupted"
    BY <1>4, <2>1 DEF InfraRecovery, RecInv, RunShapes
  <2> QED BY <1>4, <2>2 DEF InfraRecovery, RecInv, ItemShapes, OwedIsSafe
<1> QED BY <1>1, <1>2, <1>3, <1>4

LEMMA InterruptKeeps == ASSUME RecInv, NEW l \in Loops, InterruptRun(l) PROVE RecInv'
<1>1. [runs[l] EXCEPT !.status = "interrupted"]
         \in [status : {"none", "running", "success", "failed", "interrupted"}, old : BOOLEAN]
  BY DEF RecInv, RunShapes
<1>2. runs' = [runs EXCEPT ![l] = [runs[l] EXCEPT !.status = "interrupted"]]
  BY DEF InterruptRun, RecInv, RunShapes
<1>3. RunShapes' /\ \A k \in Loops : k # l => runs'[k] = runs[k] /\ repair'[k] = repair[k]
  BY <1>1, <1>2 DEF InterruptRun, RecInv, RunShapes
<1>4. \A n \in Slots : <<l, n>> \notin owed
  BY DEF InterruptRun, RecInv, OwedIsSafe
<1> QED BY <1>3, <1>4 DEF InterruptRun, RecInv, ItemShapes, OwedIsSafe

\* The work that looperd does while it is up.
LEMMA WorkKeeps ==
    ASSUME RecInv, NEW l \in Loops, NEW n \in Slots,
           Enqueue(l, n) \/ Claim(l, n) \/ EndSuccess(l, n) \/ FailTerminal(l, n)
    PROVE  RecInv'
<1>1. phase = "up" /\ UNCHANGED <<phase, owed, repair>>
  BY DEF Enqueue, Claim, EndSuccess, FailTerminal, Working, Ended
<1>2. \E st \in ItemStatuses : items' = With(l, n, st)
  BY DEF Enqueue, Claim, EndSuccess, FailTerminal, ItemStatuses
<1>3. RunShapes'
  <2>1. CASE Enqueue(l, n)
    BY <2>1 DEF Enqueue, RecInv, RunShapes
  <2>2. CASE Claim(l, n)
    BY <2>2 DEF Claim, RecInv, RunShapes
  <2>3. CASE EndSuccess(l, n) \/ FailTerminal(l, n)
    BY <2>3, EndedTypes DEF EndSuccess, FailTerminal, RecInv
  <2> QED BY <2>1, <2>2, <2>3
<1> QED BY <1>1, <1>2, <1>3, StatusWritten

LEMMA RecoveryStep == ASSUME RecInv, [RecoveryNext]_recVars PROVE RecInv'
<1>1. CASE UNCHANGED recVars
  BY <1>1 DEF recVars, RecInv, ItemShapes, RunShapes, OwedIsSafe
<1>2. CASE \E l \in Loops : ProcessGoes(l)
  BY <1>2 DEF ProcessGoes, RecInv, ItemShapes, RunShapes, OwedIsSafe
<1> QED BY <1>1, <1>2, FailureKeeps, RepairKeeps, SweepKeeps, PhaseKeeps, InterruptKeeps, WorkKeeps
        DEF RecoveryNext

\* For any loops, attempts and delays, and any number of deaths of looperd and of
\* its recoveries: an item that was due when looperd died, of a loop without a
\* run in progress, is queued until looperd works again.
THEOREM DueWorkIsKept == RecoveryInit /\ [][RecoveryNext]_recVars => []DueWorkSurvives
<1>1. RecoveryInit => RecInv
  <2>1. [status |-> "absent", due |-> "fresh", attempts |-> 0] \in ItemRow
    BY RecoveryAssumption DEF ItemRow, ItemStatuses
  <2> QED BY <2>1 DEF RecoveryInit, RecInv, ItemShapes, RunShapes, OwedIsSafe
<1>2. RecInv => DueWorkSurvives
  <2>. SUFFICES ASSUME RecInv, NEW q \in owed PROVE items[q[1]][q[2]].status = "queued"
    BY DEF DueWorkSurvives
  <2>1. q[1] \in Loops /\ q[2] \in Slots /\ q = <<q[1], q[2]>>
    BY DEF RecInv, OwedIsSafe
  <2> QED BY <2>1 DEF RecInv, OwedIsSafe
<1> QED BY <1>1, <1>2, RecoveryStep, PTL

-----------------------------------------------------------------------------
(* DepGraph: every cycle that is reported is a cycle of the dependencies, for  *)
(* any number of issues and any snapshot, and every knot has one reported.     *)
(* The inductive invariants: what is left to look at are edges, and the stack  *)
(* is a path along them (GraphInv); the issues the search has come back from   *)
(* can be ranked so that edges within a knot without a cycle reported go down  *)
(* (Searched).                                                                 *)

\* Each element of p leads to the next one.
IsPath(p) == \A i \in 1 .. Len(p) - 1 : p[i + 1] \in graph.edges[p[i]]

GraphInv ==
    /\ DepGraphTypeOK
    /\ graph = NoGraph => dfs = NoSearch
    /\ \A r \in Refs : dfs.left[r] \subseteq graph.edges[r]
    /\ IsPath(dfs.stack)
    /\ CyclesAreReal

\* What a segment of a sequence holds.
LEMMA SegmentFacts ==
    ASSUME NEW S, NEW s \in Seq(S), NEW m \in 1 .. Len(s), NEW n \in 0 .. Len(s), m <= n
    PROVE  /\ SubSeq(s, m, n) \in Seq(S)
           /\ Len(SubSeq(s, m, n)) = n - m + 1
           /\ \A j \in 1 .. n - m + 1 : SubSeq(s, m, n)[j] = s[m + j - 1]
OBVIOUS

LEMMA PrefixFacts ==
    ASSUME NEW S, NEW s \in Seq(S), NEW n \in 0 .. Len(s)
    PROVE  /\ SubSeq(s, 1, n) \in Seq(S)
           /\ Len(SubSeq(s, 1, n)) = n
           /\ \A j \in 1 .. n : SubSeq(s, 1, n)[j] = s[j]
OBVIOUS

\* A set of naturals that is not empty has a least element.
LEMMA LeastExists ==
    ASSUME NEW S \in SUBSET Nat, S # {}
    PROVE  \E x \in S : \A y \in S : x <= y
<1> DEFINE upTo(x) == {y \in S : y <= x}
           T == {upTo(x) : x \in S}
           R == StrictSubsetOrdering(Nat)
<1>1. IsWellFoundedOn(R, FiniteSubsetsOf(Nat))
  BY FS_StrictSubsetOrderingWellFounded
<1>2. \A x \in S : upTo(x) \in FiniteSubsetsOf(Nat)
  <2> SUFFICES ASSUME NEW x \in S PROVE upTo(x) \in FiniteSubsetsOf(Nat)
    OBVIOUS
  <2>1. IsFiniteSet(upTo(x))
    <3>1. upTo(x) \in SUBSET Nat /\ x \in Nat /\ \A s \in upTo(x) : s <= x
      OBVIOUS
    <3> HIDE DEF upTo
    <3> QED BY <3>1, FS_BoundedSetOfNaturals
  <2> QED BY <2>1 DEF FiniteSubsetsOf
<1>3. T \subseteq FiniteSubsetsOf(Nat) /\ T # {}
  BY <1>2
<1>4. PICK t \in T : \A u \in T : ~ (<<u, t>> \in R)
  <2> HIDE DEF T, R
  <2> QED BY <1>1, <1>3, WFMin
<1>5. PICK x \in S : t = upTo(x)
  BY <1>4
<1>6. ASSUME NEW y \in S, ~(x <= y) PROVE FALSE
  <2>1. y \in Nat /\ x \in Nat /\ y < x
    BY <1>6
  <2>2. upTo(y) \subseteq t /\ x \in t /\ x \notin upTo(y)
    <3> HIDE DEF T, R
    <3>1. \A z \in Nat : z <= y => z <= x
      BY <2>1
    <3>3. upTo(y) \subseteq upTo(x)
      BY <3>1
    <3>2. x \in upTo(x) /\ x \notin upTo(y)
      BY <2>1
    <3> QED BY <1>5, <3>2, <3>3
  <2>3. <<upTo(y), t>> \in R
    <3>1. upTo(y) \in SUBSET Nat /\ t \in SUBSET Nat
      BY <1>5
    <3> HIDE DEF upTo
    <3> QED BY <2>2, <3>1 DEF StrictSubsetOrdering
  <2> QED BY <1>4, <2>3
<1> QED BY <1>6

\* LeastIn picks an element of a set of references.
LEMMA LeastInIsElement ==
    ASSUME NEW S \in SUBSET Refs, S # {}
    PROVE  LeastIn(S) \in S
<1>1. S \in SUBSET Nat
  BY DepGraphAssumption DEF Refs
<1> QED BY <1>1, LeastExists DEF LeastIn

\* A rotation of a closed path is a closed path.
LEMMA RotationIsCycle ==
    ASSUME NEW c \in Seq(graph.tracked), NEW k \in 1 .. Len(c), IsCycle(c)
    PROVE  Rotation(c, k) \in Seq(graph.tracked) /\ IsCycle(Rotation(c, k))
<1> DEFINE n == Len(c)
           d == Rotation(c, k)
<1>1. n \in Nat /\ n > 0
  BY DEF IsCycle
<1>2. \A j \in 1 .. n : d[j] \in graph.tracked
  BY <1>1 DEF Rotation, IsCycle
<1>3. d \in [1 .. n -> graph.tracked]
  BY <1>2 DEF Rotation
<1>4. d \in Seq(graph.tracked) /\ Len(d) = n
  BY <1>1, <1>3, IsASeq
<1>a. \A j \in 1 .. n : d[j] = IF j + k - 1 <= n THEN c[j + k - 1] ELSE c[j + k - 1 - n]
  BY DEF Rotation
<1>b. \A j \in 1 .. n - 1 : c[j + 1] \in graph.edges[c[j]]
  BY DEF IsCycle
<1>c. c[1] \in graph.edges[c[n]]
  BY DEF IsCycle
<1> HIDE DEF d, n
<1>5. ASSUME NEW i \in 1 .. n - 1 PROVE d[i + 1] \in graph.edges[d[i]]
  <2>0. k \in 1 .. n
    BY DEF n
  <2>1. CASE i + k <= n
    <3>1. d[i] = c[i + k - 1] /\ d[i + 1] = c[i + k - 1 + 1] /\ i + k - 1 \in 1 .. n - 1
      BY <1>1, <1>a, <2>0, <2>1
    <3> QED BY <1>b, <3>1
  <2>2. CASE i + k - 1 = n
    <3>1. i + k - 1 = n /\ i + 1 + k - 1 - n = 1 /\ i \in 1 .. n /\ i + 1 \in 1 .. n /\ ~(i + 1 + k - 1 <= n)
      BY <1>1, <2>0, <2>2
    <3>2. d[i] = c[i + k - 1] /\ d[i + 1] = c[i + 1 + k - 1 - n]
      BY <1>a, <3>1
    <3> QED BY <1>c, <3>1, <3>2
  <2>3. CASE i + k - 1 > n
    <3>1. d[i] = c[i + k - 1 - n] /\ d[i + 1] = c[i + k - 1 - n + 1] /\ i + k - 1 - n \in 1 .. n - 1
      BY <1>1, <1>a, <2>0, <2>3
    <3> QED BY <1>b, <3>1
  <2> QED BY SMTT(30), <1>1, <2>0, <2>1, <2>2, <2>3
<1>6. d[1] \in graph.edges[d[n]]
  <2>0. k \in 1 .. n
    BY DEF n
  <2>1. CASE k = 1
    <3>1. d[1] = c[1] /\ d[n] = c[n]
      BY <1>1, <1>a, <2>1
    <3> QED BY <1>c, <3>1
  <2>2. CASE k > 1
    <3>1. d[1] = c[k - 1 + 1] /\ d[n] = c[k - 1] /\ k - 1 \in 1 .. n - 1
      BY <1>1, <1>a, <2>0, <2>2
    <3> QED BY <1>b, <3>1
  <2> QED BY <2>0, <2>1, <2>2
<1> USE DEF d, n
<1> QED BY <1>1, <1>2, <1>4, <1>5, <1>6 DEF IsCycle

\* What is recorded of a closed path is a closed path.
LEMMA CanonicalIsCycle ==
    ASSUME GraphInv, NEW c \in Seq(graph.tracked), IsCycle(c)
    PROVE  Canonical(c) \in Seq(graph.tracked) /\ IsCycle(Canonical(c))
<1> DEFINE S == {c[j] : j \in 1 .. Len(c)}
<1>1. DOMAIN c = 1 .. Len(c) /\ Len(c) \in Nat /\ Len(c) > 0
  BY DEF IsCycle
<1>2. S \in SUBSET Nat /\ S # {}
  BY <1>1, DepGraphAssumption DEF GraphInv, DepGraphTypeOK, Refs, IsCycle
<1>3. \E k \in DOMAIN c : \A j \in DOMAIN c : c[k] <= c[j]
  <2>1. PICK x \in S : \A y \in S : x <= y
    <3> HIDE DEF S
    <3> QED BY <1>2, LeastExists
  <2>2. PICK j \in 1 .. Len(c) : c[j] = x
    BY <2>1
  <2> QED BY <1>1, <2>1, <2>2
<1> DEFINE k == CHOOSE x \in DOMAIN c : \A j \in DOMAIN c : c[x] <= c[j]
<1>4. k \in 1 .. Len(c)
  BY <1>1, <1>3
<1> QED BY <1>4, RotationIsCycle DEF Canonical

LEMMA GraphInitInv == DepGraphInit => GraphInv
<1> SUFFICES ASSUME DepGraphInit PROVE GraphInv
  OBVIOUS
<1>1. DepGraphTypeOK
  BY DEF DepGraphInit, DepGraphTypeOK, NoGraph, NoSearch
<1>2. IsPath(dfs.stack) /\ CyclesAreReal
  BY DEF DepGraphInit, IsPath, CyclesAreReal, NoSearch
<1> QED BY <1>1, <1>2 DEF DepGraphInit, GraphInv, NoGraph, NoSearch

\* build finds blockers and edges of the right kind.
LEMMA GraphOfType ==
    ASSUME NEW tracked \in SUBSET Refs, NEW blockedBy \in [Refs -> SUBSET (0 .. MaxRef)],
           NEW state \in [Refs -> States]
    PROVE  GraphOf(tracked, blockedBy, state) \in
             [tracked : SUBSET Refs, ready : SUBSET Refs,
              blockers : [Refs -> SUBSET [issue : Refs, reTriage : BOOLEAN, unreachable : BOOLEAN]],
              edges : [Refs -> SUBSET tracked]]
<1> DEFINE bs == [r \in Refs |-> IF r \in tracked THEN Unsatisfied(blockedBy[r], state) ELSE {}]
<1>1. \A r \in Refs : Unsatisfied(blockedBy[r], state)
                        \subseteq [issue : Refs, reTriage : BOOLEAN, unreachable : BOOLEAN]
  <2> SUFFICES ASSUME NEW r \in Refs, NEW b \in Unsatisfied(blockedBy[r], state)
               PROVE  b \in [issue : Refs, reTriage : BOOLEAN, unreachable : BOOLEAN]
    OBVIOUS
  <2>1. PICK d \in blockedBy[r] \ {0} : b = Blocker(d, state[d])
    BY DEF Unsatisfied
  <2>2. d \in Refs
    BY DepGraphAssumption DEF Refs
  <2> QED BY <2>1, <2>2 DEF Blocker
<1>2. bs \in [Refs -> SUBSET [issue : Refs, reTriage : BOOLEAN, unreachable : BOOLEAN]]
  BY <1>1
<1>3. Edges(tracked, bs) \in [Refs -> SUBSET tracked]
  BY DEF Edges
<1> QED BY <1>2, <1>3 DEF GraphOf

LEMMA BuildInv == GraphInv /\ Build => GraphInv'
<1> SUFFICES ASSUME GraphInv, Build PROVE GraphInv'
  OBVIOUS
<1>1. dfs = NoSearch /\ dfs' = NoSearch
  BY DEF GraphInv, Build
<1>0. PICK tracked \in SUBSET Refs, state \in [Refs -> States] : \E blockedBy \in [tracked -> DepsOf] :
        graph' = GraphOf(tracked, [r \in Refs |-> IF r \in tracked THEN blockedBy[r] ELSE {}], state)
  BY DEF Build
<1>2. PICK blockedBy \in [tracked -> DepsOf] :
        graph' = GraphOf(tracked, [r \in Refs |-> IF r \in tracked THEN blockedBy[r] ELSE {}], state)
  BY <1>0
<1>3. [r \in Refs |-> IF r \in tracked THEN blockedBy[r] ELSE {}] \in [Refs -> SUBSET (0 .. MaxRef)]
  BY <1>2 DEF DepsOf
<1>4. graph'.tracked = tracked
  BY <1>2 DEF GraphOf
<1>5. graph' \in [tracked : SUBSET Refs, ready : SUBSET Refs,
                  blockers : [Refs -> SUBSET [issue : Refs, reTriage : BOOLEAN, unreachable : BOOLEAN]],
                  edges : [Refs -> SUBSET tracked]]
  BY <1>2, <1>3, GraphOfType, Zenon
<1>6. DepGraphTypeOK'
  BY <1>1, <1>4, <1>5 DEF DepGraphTypeOK, NoSearch
<1>7. \A r \in Refs : dfs'.left[r] \subseteq graph'.edges[r]
  BY <1>1 DEF NoSearch
<1>8. IsPath(dfs.stack)' /\ CyclesAreReal'
  BY <1>1 DEF IsPath, CyclesAreReal, NoSearch
<1> QED BY <1>1, <1>6, <1>7, <1>8 DEF GraphInv

\* Visiting an issue that the top of the stack leads to keeps the path.
LEMMA EnterInv ==
    ASSUME GraphInv, NEW r \in graph.tracked, graph # NoGraph, graph' = graph,
           dfs.stack = <<>> \/ r \in graph.edges[Top],
           NEW left \in [Refs -> SUBSET Refs], \A q \in Refs : left[q] \subseteq graph.edges[q],
           dfs' = Enter(r, left)
    PROVE  GraphInv'
<1>1. r \in Refs /\ graph.edges[r] \subseteq Refs
  BY DEF GraphInv, DepGraphTypeOK
<1>2. /\ dfs'.stack = Append(dfs.stack, r)
      /\ dfs'.visited = dfs.visited \cup {r}
      /\ dfs'.cycles = dfs.cycles
      /\ dfs'.left = [left EXCEPT ![r] = graph.edges[r]]
      /\ dfs' = [visited |-> dfs'.visited, stack |-> dfs'.stack, left |-> dfs'.left, cycles |-> dfs'.cycles]
  BY DEF Enter
<1>3. dfs'.left \in [Refs -> SUBSET Refs] /\ \A q \in Refs : dfs'.left[q] \subseteq graph.edges[q]
  BY <1>1, <1>2
<1>4. dfs.stack \in Seq(graph.tracked) /\ dfs'.stack \in Seq(graph.tracked)
  BY <1>2, AppendProperties DEF GraphInv, DepGraphTypeOK
<1>5. DepGraphTypeOK'
  BY ZenonT(30), <1>1, <1>2, <1>3, <1>4 DEF GraphInv, DepGraphTypeOK
<1>6. IsPath(dfs.stack)'
  <2> DEFINE s == dfs.stack
             n == Len(s)
  <2>1. n \in Nat /\ Len(dfs'.stack) = n + 1 /\ dfs'.stack[n + 1] = r
        /\ \A j \in 1 .. n : dfs'.stack[j] = s[j]
    BY <1>2, <1>4
  <2>2. ASSUME NEW j \in 1 .. n PROVE dfs'.stack[j + 1] \in graph.edges[dfs'.stack[j]]
    <3>1. CASE j = n
      <4>1. s # <<>>
        BY <1>4, <2>1
      <4> QED BY <2>1, <3>1, <4>1 DEF Top
    <3>2. CASE j < n
      <4>1. s[j + 1] \in graph.edges[s[j]]
        BY SMTT(30), <2>1, <3>2 DEF GraphInv, IsPath
      <4>2. j \in 1 .. n /\ j + 1 \in 1 .. n
        <5>. HIDE DEF n
        <5> QED BY <2>1, <3>2
      <4>3. dfs'.stack[j] = s[j] /\ dfs'.stack[j + 1] = s[j + 1]
        BY <2>1, <4>2
      <4> QED BY <4>1, <4>3
    <3> QED BY <2>1, <3>1, <3>2
  <2>3. Len(dfs'.stack) - 1 = n
    <3>. HIDE DEF n
    <3> QED BY <2>1
  <2>. HIDE DEF n
  <2> QED BY <2>2, <2>3 DEF IsPath
<1>7. CyclesAreReal'
  BY <1>2 DEF GraphInv, CyclesAreReal, IsCycle
<1> QED BY <1>3, <1>5, <1>6, <1>7 DEF GraphInv

LEMMA BeginInv == GraphInv /\ Begin => GraphInv'
<1> SUFFICES ASSUME GraphInv, Begin PROVE GraphInv'
  OBVIOUS
<1> DEFINE r == LeastIn(Roots)
<1>1. Roots \in SUBSET Refs /\ Roots # {} /\ Roots \subseteq graph.tracked
  BY DEF Begin, Roots, Unvisited, GraphInv, DepGraphTypeOK
<1>2. r \in graph.tracked /\ r \in Refs
  BY <1>1, LeastInIsElement
<1>3. dfs' = Enter(r, dfs.left) /\ graph' = graph /\ graph # NoGraph /\ dfs.stack = <<>>
  BY DEF Begin
<1>4. dfs.left \in [Refs -> SUBSET Refs] /\ \A q \in Refs : dfs.left[q] \subseteq graph.edges[q]
  BY DEF GraphInv, DepGraphTypeOK
<1> HIDE DEF r
<1> QED BY <1>2, <1>3, <1>4, EnterInv

\* The stack from an issue to the top, closed by an edge from the top to it.
LEMMA SegmentIsCycle ==
    ASSUME GraphInv, dfs.stack # <<>>, NEW i \in DOMAIN dfs.stack,
           dfs.stack[i] \in graph.edges[Top]
    PROVE  Segment(i) \in Seq(graph.tracked) /\ IsCycle(Segment(i))
<1> DEFINE s == dfs.stack
           c == Segment(i)
<1>1. s \in Seq(graph.tracked) /\ Len(s) \in Nat /\ i \in 1 .. Len(s)
  BY DEF GraphInv, DepGraphTypeOK
<1>2. \A j \in 1 .. Len(s) - 1 : s[j + 1] \in graph.edges[s[j]]
  BY DEF GraphInv, IsPath
<1> HIDE DEF s
<1>3. /\ c \in Seq(graph.tracked) /\ Len(c) = Len(s) - i + 1
      /\ \A j \in 1 .. Len(s) - i + 1 : c[j] = s[i + j - 1]
  <2>1. c = SubSeq(s, i, Len(s))
    BY DEF Segment, s
  <2>2. Len(s) \in 0 .. Len(s) /\ i <= Len(s)
    BY <1>1
  <2> HIDE DEF c
  <2> QED BY <1>1, <2>1, <2>2, SegmentFacts
<1> HIDE DEF c
<1>4. \A j \in 1 .. Len(c) : c[j] \in graph.tracked
  BY <1>3
<1>5. ASSUME NEW j \in 1 .. Len(c) - 1 PROVE c[j + 1] \in graph.edges[c[j]]
  <2>1. c[j] = s[i + j - 1] /\ c[j + 1] = s[i + j - 1 + 1] /\ i + j - 1 \in 1 .. Len(s) - 1
    BY SMTT(30), <1>1, <1>3
  <2> QED BY <1>2, <2>1
<1>6. c[1] = s[i] /\ c[Len(c)] = s[Len(s)] /\ Len(c) > 0
  <2>1. Len(c) > 0 /\ i + 1 - 1 = i /\ i + Len(c) - 1 = Len(s) /\ Len(c) = Len(s) - i + 1
    BY <1>1, <1>3
  <2>2. 1 \in 1 .. Len(s) - i + 1 /\ Len(c) \in 1 .. Len(s) - i + 1
    BY <1>1, <2>1
  <2>3. c[1] = s[i + 1 - 1] /\ c[Len(c)] = s[i + Len(c) - 1]
    BY <1>3, <2>2, Zenon
  <2> QED BY <2>1, <2>3
<1>7. c[1] \in graph.edges[c[Len(c)]]
  BY <1>6 DEF Top, s
<1>8. IsCycle(c)
  BY <1>4, <1>5, <1>6, <1>7 DEF IsCycle
<1> QED BY <1>3, <1>8 DEF c

LEMMA LookInv == GraphInv /\ Look => GraphInv'
<1> SUFFICES ASSUME GraphInv, Look PROVE GraphInv'
  OBVIOUS
<1> DEFINE next == LeastIn(dfs.left[Top])
           rest == [dfs.left EXCEPT ![Top] = @ \ {next}]
<1>1. Top \in graph.tracked /\ Top \in Refs
  <2>1. dfs.stack \in Seq(graph.tracked) /\ dfs.stack # <<>>
    BY DEF GraphInv, DepGraphTypeOK, Look
  <2>2. Top \in graph.tracked
    BY <2>1 DEF Top
  <2> QED BY <2>2 DEF GraphInv, DepGraphTypeOK
<1>2. dfs.left[Top] \in SUBSET Refs /\ dfs.left[Top] # {} /\ dfs.left[Top] \subseteq graph.edges[Top]
  BY <1>1 DEF GraphInv, DepGraphTypeOK, Look
<1>3. next \in graph.edges[Top] /\ next \in graph.tracked /\ next \in Refs
  <2>1. next \in dfs.left[Top]
    BY <1>2, LeastInIsElement
  <2> HIDE DEF next
  <2> QED BY <2>1, <1>1, <1>2 DEF GraphInv, DepGraphTypeOK
<1>4. rest \in [Refs -> SUBSET Refs] /\ \A q \in Refs : rest[q] \subseteq graph.edges[q]
  BY <1>1 DEF GraphInv, DepGraphTypeOK
<1>5. graph' = graph /\ graph # NoGraph /\ dfs.stack # <<>>
  <2>1. dfs.stack # <<>> /\ NoSearch.stack = <<>> /\ graph' = graph
    BY DEF Look, NoSearch
  <2> QED BY <2>1 DEF GraphInv
<1>6. CASE OnStack(next)
  <2>1. PICK i \in DOMAIN dfs.stack :
          /\ dfs.stack[i] = next
          /\ dfs' = [dfs EXCEPT !.left = rest, !.cycles = @ \cup {Canonical(Segment(i))}]
    BY <1>6 DEF Look
  <2> DEFINE c == Canonical(Segment(i))
  <2>2. c \in Seq(graph.tracked) /\ IsCycle(c)
    BY <1>3, <1>5, <2>1, SegmentIsCycle, CanonicalIsCycle
  <2> HIDE DEF c, rest, next
  <2>3. /\ dfs'.stack = dfs.stack /\ dfs'.visited = dfs.visited /\ dfs'.left = rest
        /\ dfs'.cycles = dfs.cycles \cup {c}
        /\ dfs' = [visited |-> dfs'.visited, stack |-> dfs'.stack, left |-> dfs'.left, cycles |-> dfs'.cycles]
    BY <2>1 DEF GraphInv, DepGraphTypeOK, c
  <2>4. DepGraphTypeOK'
    BY <1>4, <1>5, <2>2, <2>3 DEF GraphInv, DepGraphTypeOK
  <2>5. CyclesAreReal'
    BY <1>5, <2>2, <2>3 DEF GraphInv, CyclesAreReal, IsCycle
  <2> QED BY <1>4, <1>5, <2>3, <2>4, <2>5 DEF GraphInv, IsPath
<1>7. CASE ~OnStack(next) /\ next \notin dfs.visited
  <2>1. dfs' = Enter(next, rest)
    BY <1>7 DEF Look
  <2> HIDE DEF rest, next
  <2> QED BY <1>3, <1>4, <1>5, <2>1, EnterInv
<1>8. CASE ~OnStack(next) /\ next \in dfs.visited
  <2>1. dfs' = [dfs EXCEPT !.left = rest]
    BY <1>8 DEF Look
  <2> HIDE DEF rest, next
  <2>2. /\ dfs'.stack = dfs.stack /\ dfs'.cycles = dfs.cycles /\ dfs'.left = rest
        /\ dfs' \in [visited : SUBSET Refs, stack : Seq(graph.tracked),
                     left : [Refs -> SUBSET Refs], cycles : SUBSET Seq(graph.tracked)]
    BY <1>4, <2>1 DEF GraphInv, DepGraphTypeOK
  <2>3. DepGraphTypeOK'
    BY <1>5, <2>2 DEF GraphInv, DepGraphTypeOK
  <2>4. CyclesAreReal' /\ IsPath(dfs.stack)'
    BY <1>5, <2>2 DEF GraphInv, CyclesAreReal, IsCycle, IsPath
  <2> QED BY <1>4, <1>5, <2>2, <2>3, <2>4 DEF GraphInv
<1> QED BY <1>6, <1>7, <1>8

LEMMA ReturnInv == GraphInv /\ Return => GraphInv'
<1> SUFFICES ASSUME GraphInv, Return PROVE GraphInv'
  OBVIOUS
<1> DEFINE s == dfs.stack
           t == SubSeq(s, 1, Len(s) - 1)
<1>1. s \in Seq(graph.tracked) /\ s # <<>> /\ graph' = graph
  BY DEF GraphInv, DepGraphTypeOK, Return
<1>2. Len(s) \in Nat /\ Len(s) > 0
  BY <1>1
<1>0. \A j \in 1 .. Len(s) - 1 : s[j + 1] \in graph.edges[s[j]]
  BY DEF GraphInv, IsPath
<1>3. t \in Seq(graph.tracked) /\ Len(t) = Len(s) - 1 /\ \A j \in 1 .. Len(s) - 1 : t[j] = s[j]
  <2> HIDE DEF s
  <2>1. Len(s) - 1 \in 0 .. Len(s)
    BY <1>2
  <2> QED BY <1>1, <2>1, PrefixFacts, Zenon
<1> HIDE DEF t
<1>4. dfs' = [dfs EXCEPT !.stack = t]
  BY DEF Return, t
<1>5. DepGraphTypeOK'
  BY <1>1, <1>3, <1>4 DEF GraphInv, DepGraphTypeOK
<1>6. IsPath(dfs.stack)'
  <2>1. dfs'.stack = t
    BY <1>4 DEF GraphInv, DepGraphTypeOK
  <2> HIDE DEF s
  <2>2. \A j \in 1 .. Len(t) - 1 : t[j + 1] \in graph.edges[t[j]]
    <3> SUFFICES ASSUME NEW j \in 1 .. Len(t) - 1 PROVE t[j + 1] \in graph.edges[t[j]]
      OBVIOUS
    <3>1. Len(t) = Len(s) - 1
      BY <1>3
    <3>2. j \in 1 .. Len(s) - 1 /\ j + 1 \in 1 .. Len(s) - 1
      BY <1>2, <3>1
    <3>3. t[j] = s[j] /\ t[j + 1] = s[j + 1]
      BY <1>3, <3>2
    <3> QED BY <1>0, <3>2, <3>3
  <2> QED BY <1>1, <2>1, <2>2 DEF IsPath
<1>7. CyclesAreReal'
  BY <1>1, <1>4 DEF GraphInv, DepGraphTypeOK, CyclesAreReal, IsCycle
<1>8. graph # NoGraph
  BY <1>1 DEF GraphInv, NoSearch
<1> QED BY <1>1, <1>4, <1>5, <1>6, <1>7, <1>8 DEF GraphInv, DepGraphTypeOK

LEMMA GraphStep == GraphInv /\ [DepGraphNext]_graphVars => GraphInv'
<1> SUFFICES ASSUME GraphInv, [DepGraphNext]_graphVars PROVE GraphInv'
  OBVIOUS
<1>1. CASE Build
  BY <1>1, BuildInv
<1>2. CASE Begin
  BY <1>2, BeginInv
<1>3. CASE Look
  BY <1>3, LookInv
<1>4. CASE Return
  BY <1>4, ReturnInv
<1>5. CASE UNCHANGED graphVars
  BY <1>5 DEF graphVars, GraphInv, DepGraphTypeOK, IsPath, CyclesAreReal, IsCycle
<1> QED BY <1>1, <1>2, <1>3, <1>4, <1>5 DEF DepGraphNext

\* Reported cycles are cycles of the graph, for any number of issues and any
\* dependencies among them.
THEOREM CyclesAreRealAlways == DepGraphSpec => []CyclesAreReal
<1>1. GraphInv => CyclesAreReal
  BY DEF GraphInv
<1> QED BY <1>1, GraphInitInv, GraphStep, PTL DEF DepGraphSpec

\* What the search d has left behind: an issue it has come back from; one of
\* whose knot it has reported a cycle; an edge it is following.
Behind(d, u) == u \in d.visited /\ \A i \in DOMAIN d.stack : d.stack[i] # u
Told(d, u) == \E c \in d.cycles : \A i \in DOMAIN c : Reaches(u, c[i]) /\ Reaches(c[i], u)
OnPath(d, u, v) == \E i \in DOMAIN d.stack : i + 1 \in DOMAIN d.stack /\ d.stack[i] = u /\ d.stack[i + 1] = v
Passed(d, rank, u, v) == Behind(d, v) /\ (Behind(d, u) => rank[v] < rank[u])

\* Issues are ranked in the order in which the search comes back from them.  An
\* edge it has looked at that lies in a knot goes down the ranks, unless a cycle
\* of the knot is reported.
Ranked(d, rank, top) ==
    /\ \A u \in Refs : rank[u] < top
    /\ \A u \in d.visited : \A v \in graph.edges[u] \ d.left[u] :
          Reaches(v, u) => Told(d, u) \/ Passed(d, rank, u, v) \/ OnPath(d, u, v)
PathOK(d) ==
    /\ d.visited \subseteq graph.tracked
    /\ \A i \in DOMAIN d.stack : d.stack[i] \in d.visited
    /\ \A i, j \in DOMAIN d.stack : i < j => d.stack[i] # d.stack[j] /\ Reaches(d.stack[i], d.stack[j])
    /\ \A u : Behind(d, u) => d.left[u] = {}
Searched(d) == PathOK(d) /\ \E rank \in [Refs -> Nat], top \in Nat : Ranked(d, rank, top)

\* Reaches is what it says: edges lead on, and so do ways.
LEMMA ReachesOn ==
    ASSUME NEW u, NEW v, NEW x
    PROVE  /\ v \in graph.edges[u] => Reaches(u, v)
           /\ v \in graph.edges[u] /\ Reaches(v, x) => Reaches(u, x)
           /\ Reaches(u, v) /\ Reaches(v, x) => Reaches(u, x)
BY DEF Reaches

\* The search enters an issue it has not visited.
LEMMA EnterSearched ==
    ASSUME GraphInv, Searched(dfs), NEW r \in graph.tracked \ dfs.visited,
           dfs.stack # <<>> => r \in graph.edges[Top],
           NEW left \in [Refs -> SUBSET Refs],
           \A q \in Refs : \/ left[q] = dfs.left[q]
                           \/ /\ dfs.stack # <<>>
                              /\ q = Top
                              /\ left[q] = dfs.left[q] \ {r}
    PROVE  Searched(Enter(r, left))
<1>. DEFINE e == Enter(r, left)
            s == dfs.stack
            n == Len(s)
<1>0. r \in Refs /\ graph.tracked \subseteq Refs /\ s \in Seq(graph.tracked) /\ dfs.visited \subseteq graph.tracked
  BY DEF GraphInv, DepGraphTypeOK, Searched, PathOK
<1>1. /\ e.visited = dfs.visited \cup {r} /\ e.stack = Append(s, r) /\ e.cycles = dfs.cycles
      /\ e.left = [left EXCEPT ![r] = graph.edges[r]]
  BY DEF Enter
<1>. HIDE DEF e
<1>2. /\ n \in Nat /\ DOMAIN s = 1 .. n
      /\ DOMAIN e.stack = 1 .. (n + 1) /\ e.stack[n + 1] = r /\ \A i \in 1 .. n : e.stack[i] = s[i]
  <2>1. n \in Nat /\ DOMAIN s = 1 .. n
    BY <1>0, LenProperties
  <2>2. /\ e.stack \in Seq(graph.tracked) /\ Len(e.stack) = n + 1 /\ e.stack[n + 1] = r
        /\ \A i \in 1 .. n : e.stack[i] = s[i]
    <3>1. s \in Seq(graph.tracked) /\ r \in graph.tracked /\ e.stack = Append(s, r)
      BY <1>0, <1>1
    <3>. HIDE DEF s
    <3> QED BY <3>1, AppendProperties
  <2> QED BY <2>1, <2>2, LenProperties
<1>3. \A i \in 1 .. n : s[i] \in dfs.visited /\ s[i] # r
  BY <1>2 DEF Searched, PathOK
<1>4. \A u : u # r => (Behind(e, u) <=> Behind(dfs, u))
  <2>. SUFFICES ASSUME NEW u, u # r PROVE Behind(e, u) <=> Behind(dfs, u)
    OBVIOUS
  <2>1. (\A i \in 1 .. (n + 1) : e.stack[i] # u) <=> (\A i \in 1 .. n : s[i] # u)
    BY SMTT(30), <1>2
  <2> QED BY <1>1, <1>2, <2>1 DEF Behind
<1>5. ~Behind(e, r) /\ ~Behind(dfs, r)
  BY <1>2 DEF Behind
<1>6. n > 0 => s # <<>> /\ Top = s[n] /\ r \in graph.edges[s[n]]
  BY <1>2 DEF Top
<1>7. PathOK(e)
  <2>1. \A i \in 1 .. (n + 1) : i \in 1 .. n \/ i = n + 1
    BY <1>2
  <2>2. \A i \in DOMAIN e.stack : e.stack[i] \in e.visited
    BY <1>1, <1>2, <1>3, <2>1
  <2>3. ASSUME NEW i \in 1 .. n PROVE Reaches(s[i], r)
    <3>1. CASE i = n
      <4>1. n > 0
        BY <1>2
      <4> QED BY <1>6, <3>1, <4>1, ReachesOn
    <3>2. CASE i # n
      <4>1. i < n /\ n \in 1 .. n
        BY <1>2, <3>2
      <4>2. Reaches(s[i], s[n])
        BY <1>2, <4>1 DEF Searched, PathOK
      <4>3. n > 0
        BY <1>2, <4>1
      <4>4. Reaches(s[n], r)
        BY <1>6, <4>3, ReachesOn
      <4> QED BY <4>2, <4>4, ReachesOn
    <3> QED BY <3>1, <3>2
  <2>4. ASSUME NEW i \in 1 .. (n + 1), NEW j \in 1 .. (n + 1), i < j
        PROVE  e.stack[i] # e.stack[j] /\ Reaches(e.stack[i], e.stack[j])
    <3>1. i \in 1 .. n
      BY <1>2, <2>4
    <3>2. CASE j = n + 1
      BY <1>2, <1>3, <2>3, <3>1, <3>2
    <3>3. CASE j \in 1 .. n
      <4>1. s[i] # s[j] /\ Reaches(s[i], s[j])
        BY <1>2, <2>4, <3>1, <3>3 DEF Searched, PathOK
      <4> QED BY <1>2, <3>1, <3>3, <4>1
    <3> QED BY <2>1, <3>2, <3>3
  <2>5. ASSUME NEW u, Behind(e, u) PROVE e.left[u] = {}
    <3>1. u # r /\ Behind(dfs, u) /\ u \in Refs
      BY <1>0, <1>4, <1>5, <2>5 DEF Behind
    <3>2. dfs.left[u] = {}
      BY <3>1 DEF Searched, PathOK
    <3> QED BY <1>1, <3>1, <3>2
  <2> QED BY <1>0, <1>1, <1>2, <2>2, <2>4, <2>5 DEF PathOK
<1>8. PICK rank \in [Refs -> Nat], top \in Nat : Ranked(dfs, rank, top)
  BY DEF Searched
<1>9. ASSUME NEW u \in e.visited, NEW v \in graph.edges[u] \ e.left[u], Reaches(v, u)
      PROVE  Told(e, u) \/ Passed(e, rank, u, v) \/ OnPath(e, u, v)
  <2>1. u # r
    BY <1>0, <1>1
  <2>2. u \in dfs.visited /\ u \in Refs /\ e.left[u] = left[u]
    BY <1>0, <1>1, <2>1
  <2>3. CASE v \notin dfs.left[u]
    <3>1. Told(dfs, u) \/ Passed(dfs, rank, u, v) \/ OnPath(dfs, u, v)
      BY <1>8, <1>9, <2>2, <2>3 DEF Ranked
    <3>2. Told(dfs, u) => Told(e, u)
      BY <1>1 DEF Told
    <3>3. Passed(dfs, rank, u, v) => Passed(e, rank, u, v)
      BY <1>4, <1>5, <2>1 DEF Passed
    <3>4. ASSUME OnPath(dfs, u, v) PROVE OnPath(e, u, v)
      <4>1. PICK i \in 1 .. n : i + 1 \in 1 .. n /\ s[i] = u /\ s[i + 1] = v
        BY <1>2, <3>4 DEF OnPath
      <4>2. i \in 1 .. (n + 1) /\ i + 1 \in 1 .. (n + 1) /\ e.stack[i] = u /\ e.stack[i + 1] = v
        BY <1>2, <4>1
      <4> QED BY <1>2, <4>2 DEF OnPath
    <3> QED BY <3>1, <3>2, <3>3, <3>4
  <2>4. CASE v \in dfs.left[u]
    <3>1. s # <<>> /\ u = Top /\ v = r
      BY <1>9, <2>2, <2>4
    <3>2. n > 0
      BY <1>0, <1>2, <3>1, EmptySeq
    <3>3. n \in 1 .. (n + 1) /\ n + 1 \in 1 .. (n + 1) /\ e.stack[n] = u /\ e.stack[n + 1] = v
      BY <1>2, <1>6, <3>1, <3>2
    <3> QED BY <1>2, <3>3 DEF OnPath
  <2> QED BY <2>3, <2>4
<1>10. Ranked(e, rank, top)
  BY <1>8, <1>9 DEF Ranked
<1> QED BY <1>7, <1>10 DEF Searched, e

\* What is recorded of a segment of the path holds only issues of the segment.
LEMMA CanonicalHolds ==
    ASSUME GraphInv, NEW i \in DOMAIN dfs.stack
    PROVE  \A j \in DOMAIN Canonical(Segment(i)) :
              \E l \in 1 .. Len(dfs.stack) : i <= l /\ Canonical(Segment(i))[j] = dfs.stack[l]
<1>. DEFINE s == dfs.stack
            n == Len(s)
            c == Canonical(Segment(i))
<1>0. s \in Seq(graph.tracked) /\ n \in Nat /\ DOMAIN s = 1 .. n /\ graph.tracked \subseteq Refs
  BY DEF GraphInv, DepGraphTypeOK
<1>. DEFINE g == Segment(i)
            k == CHOOSE x \in DOMAIN g : \A y \in DOMAIN g : g[x] <= g[y]
<1>1. /\ g \in Seq(graph.tracked) /\ Len(g) = n - i + 1 /\ DOMAIN g = 1 .. n - i + 1
      /\ \A j \in 1 .. n - i + 1 : g[j] = s[i + j - 1]
  <2>1. i \in 1 .. n /\ n \in 0 .. n /\ i <= n
    BY <1>0
  <2>2. g = SubSeq(s, i, n)
    BY DEF Segment
  <2>. HIDE DEF g, s
  <2>3. /\ g \in Seq(graph.tracked) /\ Len(g) = n - i + 1
        /\ \A j \in 1 .. n - i + 1 : g[j] = s[i + j - 1]
    <3>1. s \in Seq(graph.tracked) /\ i \in 1 .. Len(s) /\ Len(s) \in 0 .. Len(s) /\ i <= Len(s)
      BY <1>0, <2>1
    <3>2. /\ SubSeq(s, i, Len(s)) \in Seq(graph.tracked)
          /\ Len(SubSeq(s, i, Len(s))) = Len(s) - i + 1
          /\ \A j \in 1 .. Len(s) - i + 1 : SubSeq(s, i, Len(s))[j] = s[i + j - 1]
      BY <3>1, SegmentFacts
    <3> QED BY <2>2, <3>2
  <2> QED BY <2>3
<1>2. k \in 1 .. n - i + 1
  <2>. DEFINE S == {g[j] : j \in DOMAIN g}
  <2>1. S \in SUBSET Nat /\ S # {}
    <3>1. graph.tracked \subseteq Nat
      BY <1>0, DepGraphAssumption DEF Refs
    <3>2. 1 \in 1 .. n - i + 1
      BY <1>0
    <3>. HIDE DEF g
    <3>3. 1 \in DOMAIN g /\ \A j \in DOMAIN g : g[j] \in graph.tracked
      <4>. HIDE DEF n
      <4>1. /\ g \in Seq(graph.tracked) /\ DOMAIN g = 1 .. n - i + 1
            /\ 1 .. n - i + 1 = 1 .. Len(g)
        BY <1>1
      <4>2. \A j \in 1 .. Len(g) : g[j] \in graph.tracked
        BY <4>1, ElementOfSeq
      <4> QED BY <3>2, <4>1, <4>2
    <3> QED BY <3>1, <3>3
  <2>2. PICK x \in S : \A y \in S : x <= y
    <3>. HIDE DEF S
    <3> QED BY <2>1, LeastExists
  <2>3. \E x1 \in DOMAIN g : \A y \in DOMAIN g : g[x1] <= g[y]
    BY <2>2
  <2>. HIDE DEF g
  <2> QED BY <1>1, <2>3
<1>3. c = Rotation(g, k)
  BY DEF Canonical
<1>. HIDE DEF g, k
<1>4. /\ DOMAIN c = 1 .. n - i + 1
      /\ \A j \in 1 .. n - i + 1 : c[j] = IF j + k - 1 <= n - i + 1 THEN g[j + k - 1]
                                          ELSE g[j + k - 1 - (n - i + 1)]
  BY <1>1, <1>3 DEF Rotation
<1>. HIDE DEF c
<1>5. ASSUME NEW j \in 1 .. n - i + 1 PROVE \E h \in 1 .. n - i + 1 : c[j] = g[h]
  <2>1. CASE j + k - 1 <= n - i + 1
    <3>1. c[j] = g[j + k - 1] /\ j + k - 1 \in 1 .. n - i + 1
      BY <1>0, <1>2, <1>4, <2>1
    <3> QED BY <3>1
  <2>2. CASE ~ (j + k - 1 <= n - i + 1)
    <3>1. i \in 1 .. n /\ n \in Nat
      BY <1>0
    <3>2. j + k - 1 - (n - i + 1) \in 1 .. n - i + 1
      <4>. HIDE DEF n
      <4> QED BY <1>2, <2>2, <3>1
    <3>3. c[j] = g[j + k - 1 - (n - i + 1)]
      BY <1>4, <2>2
    <3> QED BY <3>2, <3>3
  <2> QED BY <2>1, <2>2
<1>6. ASSUME NEW h \in 1 .. n - i + 1 PROVE i + h - 1 \in 1 .. n /\ i <= i + h - 1 /\ g[h] = s[i + h - 1]
  <2>1. i + h - 1 \in 1 .. n /\ i <= i + h - 1
    BY <1>0
  <2> QED BY <1>1, <2>1
<1>7. ASSUME NEW j \in DOMAIN c PROVE \E l \in 1 .. n : i <= l /\ c[j] = s[l]
  <2>1. PICK h \in 1 .. n - i + 1 : c[j] = g[h]
    BY <1>4, <1>5
  <2>2. i + h - 1 \in 1 .. n /\ i <= i + h - 1 /\ g[h] = s[i + h - 1]
    BY <1>6
  <2> QED BY <2>1, <2>2
<1> QED BY <1>7 DEF c

\* The search looks at an edge to an issue on its path: it reports the cycle.
LEMMA ReportSearched ==
    ASSUME GraphInv, Searched(dfs), dfs.stack # <<>>, NEW i \in DOMAIN dfs.stack,
           dfs.stack[i] \in dfs.left[Top], NEW e,
           e.visited = dfs.visited, e.stack = dfs.stack,
           e.left = [dfs.left EXCEPT ![Top] = @ \ {dfs.stack[i]}],
           e.cycles = dfs.cycles \cup {Canonical(Segment(i))}
    PROVE  Searched(e)
<1>. DEFINE s == dfs.stack
            n == Len(s)
            c == Canonical(Segment(i))
<1>0. /\ s \in Seq(graph.tracked) /\ n \in Nat /\ DOMAIN s = 1 .. n /\ n > 0 /\ Top = s[n]
      /\ graph.tracked \subseteq Refs /\ Top \in graph.tracked
      /\ dfs.left \in [Refs -> SUBSET Refs]
  <2>1. s \in Seq(graph.tracked) /\ s # <<>> /\ graph.tracked \subseteq Refs /\ dfs.left \in [Refs -> SUBSET Refs]
    BY DEF GraphInv, DepGraphTypeOK
  <2>2. n \in Nat /\ DOMAIN s = 1 .. n /\ n > 0 /\ s[n] \in graph.tracked
    BY <2>1
  <2> QED BY <2>1, <2>2 DEF Top
<1>1. s[i] \in graph.edges[Top]
  BY <1>0 DEF GraphInv
<1>2. \A l \in 1 .. n : i <= l => Reaches(Top, s[l]) /\ Reaches(s[l], Top)
  <2>. SUFFICES ASSUME NEW l \in 1 .. n, i <= l PROVE Reaches(Top, s[l]) /\ Reaches(s[l], Top)
    OBVIOUS
  <2>1. Reaches(Top, s[l])
    <3>1. CASE i = l
      BY <1>1, <3>1, ReachesOn
    <3>2. CASE i # l
      <4>1. i < l
        BY <1>0, <3>2
      <4>2. Reaches(s[i], s[l])
        BY <1>0, <4>1 DEF Searched, PathOK
      <4> QED BY <1>1, <4>2, ReachesOn
    <3> QED BY <3>1, <3>2
  <2>2. CASE l = n
    BY <1>0, <2>1, <2>2
  <2>3. CASE l # n
    <3>1. l < n /\ n \in 1 .. n
      BY <1>0, <2>3
    <3> QED BY <1>0, <2>1, <3>1 DEF Searched, PathOK
  <2> QED BY <2>1, <2>2, <2>3
<1>3. \A j \in DOMAIN c : \E l \in 1 .. n : i <= l /\ c[j] = s[l]
  BY CanonicalHolds
<1>. HIDE DEF c
<1>4. Told(e, Top)
  <2>1. c \in e.cycles
    BY DEF c
  <2>2. \A j \in DOMAIN c : Reaches(Top, c[j]) /\ Reaches(c[j], Top)
    BY <1>2, <1>3
  <2> QED BY <2>1, <2>2 DEF Told
<1>5. /\ \A u : Told(dfs, u) => Told(e, u)
      /\ \A u : Behind(e, u) <=> Behind(dfs, u)
      /\ \A u, v : OnPath(dfs, u, v) => OnPath(e, u, v)
  BY DEF Told, Behind, OnPath
<1>6. \A u \in Refs : u # Top => e.left[u] = dfs.left[u]
  BY <1>0
<1>7. ~ Behind(dfs, Top)
  BY <1>0 DEF Behind
<1>8. PathOK(e)
  <2>1. \A u : Behind(e, u) => e.left[u] = {}
    <3>. SUFFICES ASSUME NEW u, Behind(e, u) PROVE e.left[u] = {}
      OBVIOUS
    <3>1. Behind(dfs, u) /\ u # Top
      BY <1>5, <1>7
    <3>2. u \in Refs /\ dfs.left[u] = {}
      BY <1>0, <3>1 DEF Searched, PathOK, Behind
    <3> QED BY <1>6, <3>1, <3>2
  <2> QED BY <2>1 DEF Searched, PathOK
<1>9. PICK rank \in [Refs -> Nat], top \in Nat : Ranked(dfs, rank, top)
  BY DEF Searched
<1>10. ASSUME NEW u \in e.visited, NEW v \in graph.edges[u] \ e.left[u], Reaches(v, u)
       PROVE  Told(e, u) \/ Passed(e, rank, u, v) \/ OnPath(e, u, v)
  <2>1. CASE u = Top
    BY <1>4, <2>1
  <2>2. CASE u # Top
    <3>1. u \in dfs.visited /\ u \in Refs /\ e.left[u] = dfs.left[u]
      BY <1>0, <1>6, <2>2 DEF Searched, PathOK
    <3>2. Told(dfs, u) \/ Passed(dfs, rank, u, v) \/ OnPath(dfs, u, v)
      BY <1>9, <1>10, <3>1 DEF Ranked
    <3>3. Passed(dfs, rank, u, v) => Passed(e, rank, u, v)
      BY <1>5 DEF Passed
    <3> QED BY <1>5, <3>2, <3>3
  <2> QED BY <2>1, <2>2
<1>11. Ranked(e, rank, top)
  BY <1>9, <1>10 DEF Ranked
<1> QED BY <1>8, <1>11 DEF Searched

\* The search looks at an edge to an issue it has come back from.
LEMMA SkipSearched ==
    ASSUME GraphInv, Searched(dfs), dfs.stack # <<>>, NEW r \in dfs.visited, ~OnStack(r), NEW e,
           e.visited = dfs.visited, e.stack = dfs.stack, e.cycles = dfs.cycles,
           e.left = [dfs.left EXCEPT ![Top] = @ \ {r}]
    PROVE  Searched(e)
<1>0. /\ DOMAIN dfs.stack = 1 .. Len(dfs.stack) /\ Len(dfs.stack) \in DOMAIN dfs.stack
      /\ graph.tracked \subseteq Refs /\ dfs.left \in [Refs -> SUBSET Refs]
  <2>1. dfs.stack \in Seq(graph.tracked) /\ graph.tracked \subseteq Refs /\ dfs.left \in [Refs -> SUBSET Refs]
    BY DEF GraphInv, DepGraphTypeOK
  <2> QED BY <2>1
<1>1. ~ Behind(dfs, Top) /\ Behind(dfs, r) /\ Top \in Refs
  <2>1. Top = dfs.stack[Len(dfs.stack)] /\ Top \in Refs
    BY <1>0 DEF Searched, PathOK, Top
  <2> QED BY <1>0, <2>1 DEF Behind, OnStack
<1>2. /\ \A u : Told(dfs, u) => Told(e, u)
      /\ \A u : Behind(e, u) <=> Behind(dfs, u)
      /\ \A u, v : OnPath(dfs, u, v) => OnPath(e, u, v)
  BY DEF Told, Behind, OnPath
<1>3. /\ \A u \in Refs : u # Top => e.left[u] = dfs.left[u]
      /\ e.left[Top] = dfs.left[Top] \ {r}
  BY <1>0, <1>1
<1>4. PathOK(e)
  <2>1. \A u : Behind(e, u) => e.left[u] = {}
    <3>. SUFFICES ASSUME NEW u, Behind(e, u) PROVE e.left[u] = {}
      OBVIOUS
    <3>1. Behind(dfs, u) /\ u # Top
      BY <1>1, <1>2
    <3>2. u \in Refs /\ dfs.left[u] = {}
      BY <1>0, <3>1 DEF Searched, PathOK, Behind
    <3> QED BY <1>3, <3>1, <3>2
  <2> QED BY <2>1 DEF Searched, PathOK
<1>5. PICK rank \in [Refs -> Nat], top \in Nat : Ranked(dfs, rank, top)
  BY DEF Searched
<1>6. ASSUME NEW u \in e.visited, NEW v \in graph.edges[u] \ e.left[u], Reaches(v, u)
      PROVE  Told(e, u) \/ Passed(e, rank, u, v) \/ OnPath(e, u, v)
  <2>0. u \in Refs
    BY <1>0 DEF Searched, PathOK
  <2>1. CASE u = Top /\ v = r
    BY <1>1, <1>2, <2>1 DEF Passed
  <2>2. CASE ~ (u = Top /\ v = r)
    <3>1. v \notin dfs.left[u]
      BY <1>3, <1>6, <2>0, <2>2
    <3>2. Told(dfs, u) \/ Passed(dfs, rank, u, v) \/ OnPath(dfs, u, v)
      BY <1>5, <1>6, <3>1 DEF Ranked
    <3>3. Passed(dfs, rank, u, v) => Passed(e, rank, u, v)
      BY <1>2 DEF Passed
    <3> QED BY <1>2, <3>2, <3>3
  <2> QED BY <2>1, <2>2
<1>7. Ranked(e, rank, top)
  BY <1>5, <1>6 DEF Ranked
<1> QED BY <1>4, <1>7 DEF Searched

\* The search comes back from the top of its path: the top gets the highest rank.
LEMMA ReturnSearched ==
    ASSUME GraphInv, Searched(dfs), Return, NEW e,
           e.visited = dfs.visited, e.cycles = dfs.cycles, e.left = dfs.left,
           e.stack = SubSeq(dfs.stack, 1, Len(dfs.stack) - 1)
    PROVE  Searched(e)
<1>. DEFINE s == dfs.stack
            n == Len(s)
<1>0. /\ n \in Nat /\ n > 0 /\ DOMAIN s = 1 .. n /\ Top = s[n]
      /\ graph.tracked \subseteq Refs
      /\ DOMAIN e.stack = 1 .. n - 1 /\ \A i \in 1 .. n - 1 : e.stack[i] = s[i]
  <2>1. s \in Seq(graph.tracked) /\ s # <<>> /\ graph.tracked \subseteq Refs
    BY DEF GraphInv, DepGraphTypeOK, Return
  <2>2. n \in Nat /\ n > 0 /\ DOMAIN s = 1 .. n
    BY <2>1
  <2>3. n - 1 \in 0 .. n
    BY <2>2
  <2>4. e.stack \in Seq(graph.tracked) /\ Len(e.stack) = n - 1 /\ \A i \in 1 .. n - 1 : e.stack[i] = s[i]
    BY ZenonT(30), <2>1, <2>3, PrefixFacts
  <2> QED BY <2>1, <2>2, <2>4 DEF Top
<1>1. /\ Top \in dfs.visited /\ Top \in Refs /\ dfs.left[Top] = {}
      /\ \A i \in 1 .. n - 1 : s[i] # Top
  <2>1. n \in 1 .. n /\ \A i \in 1 .. n - 1 : i \in 1 .. n /\ i < n
    BY <1>0
  <2> QED BY <1>0, <2>1 DEF Searched, PathOK, Return
<1>2. \A u : Behind(e, u) <=> Behind(dfs, u) \/ u = Top
  <2>. SUFFICES ASSUME NEW u PROVE Behind(e, u) <=> Behind(dfs, u) \/ u = Top
    OBVIOUS
  <2>1. (\A i \in 1 .. n : s[i] # u) <=> (\A i \in 1 .. n - 1 : s[i] # u) /\ u # Top
    <3>1. \A i \in 1 .. n : i \in 1 .. n - 1 \/ i = n
      BY <1>0
    <3>2. n \in 1 .. n /\ \A i \in 1 .. n - 1 : i \in 1 .. n
      BY <1>0
    <3> QED BY <1>0, <3>1, <3>2
  <2>2. Behind(e, u) <=> u \in dfs.visited /\ \A i \in 1 .. n - 1 : s[i] # u
    BY <1>0 DEF Behind
  <2>3. Behind(dfs, u) <=> u \in dfs.visited /\ \A i \in 1 .. n : s[i] # u
    BY <1>0 DEF Behind
  <2> QED BY <1>1, <2>1, <2>2, <2>3
<1>3. PathOK(e)
  <2>1. \A i \in 1 .. n - 1 : i \in 1 .. n
    BY <1>0
  <2>2. \A i \in DOMAIN e.stack : e.stack[i] \in e.visited
    BY <1>0, <2>1 DEF Searched, PathOK
  <2>3. \A i, j \in DOMAIN e.stack : i < j => e.stack[i] # e.stack[j] /\ Reaches(e.stack[i], e.stack[j])
    BY ZenonT(30), <1>0, <2>1 DEF Searched, PathOK
  <2>4. \A u : Behind(e, u) => e.left[u] = {}
    BY <1>1, <1>2 DEF Searched, PathOK
  <2> QED BY <2>2, <2>3, <2>4 DEF Searched, PathOK
<1>4. PICK rank \in [Refs -> Nat], top \in Nat : Ranked(dfs, rank, top)
  BY DEF Searched
<1>. DEFINE up == [rank EXCEPT ![Top] = top]
<1>5. /\ up \in [Refs -> Nat] /\ up[Top] = top /\ top + 1 \in Nat
      /\ \A u \in Refs : u # Top => up[u] = rank[u]
  BY <1>1
<1>6. \A u \in Refs : rank[u] \in Nat /\ rank[u] < top
  BY <1>4 DEF Ranked
<1>. HIDE DEF up
<1>7. \A u \in Refs : up[u] < top + 1
  <2>. SUFFICES ASSUME NEW u \in Refs PROVE up[u] < top + 1
    OBVIOUS
  <2>1. CASE u = Top
    BY <1>5, <2>1
  <2>2. CASE u # Top
    <3>1. up[u] = rank[u] /\ rank[u] \in Nat /\ rank[u] < top
      BY <1>5, <1>6, <2>2
    <3> QED BY <3>1
  <2> QED BY <2>1, <2>2
<1>8. ASSUME NEW u \in e.visited, NEW v \in graph.edges[u] \ e.left[u], Reaches(v, u)
      PROVE  Told(e, u) \/ Passed(e, up, u, v) \/ OnPath(e, u, v)
  <2>0. u \in Refs /\ \A w : Behind(dfs, w) => w \in Refs
    BY <1>0 DEF Searched, PathOK, Behind
  <2>1. Told(dfs, u) \/ Passed(dfs, rank, u, v) \/ OnPath(dfs, u, v)
    BY <1>4, <1>8 DEF Ranked
  <2>2. Told(dfs, u) => Told(e, u)
    BY DEF Told
  <2>3. ~ Behind(dfs, Top)
    <3>1. n \in DOMAIN s /\ s[n] = Top
      BY <1>0
    <3> QED BY <3>1 DEF Behind
  <2>4. ASSUME Passed(dfs, rank, u, v) PROVE Passed(e, up, u, v)
    <3>1. Behind(dfs, v) /\ v # Top /\ v \in Refs /\ up[v] = rank[v]
      BY <1>5, <2>0, <2>3, <2>4 DEF Passed
    <3>2. CASE u = Top
      <4>1. up[v] < up[u]
        BY <1>5, <1>6, <3>1, <3>2
      <4> QED BY <1>2, <3>1, <4>1 DEF Passed
    <3>3. CASE u # Top
      <4>1. up[u] = rank[u] /\ (Behind(e, u) <=> Behind(dfs, u))
        BY <1>2, <1>5, <2>0, <3>3
      <4> QED BY <1>2, <2>4, <3>1, <4>1 DEF Passed
    <3> QED BY <3>2, <3>3
  <2>5. ASSUME OnPath(dfs, u, v) PROVE OnPath(e, u, v) \/ Passed(e, up, u, v)
    <3>1. PICK i \in 1 .. n : i + 1 \in 1 .. n /\ s[i] = u /\ s[i + 1] = v
      BY <1>0, <2>5 DEF OnPath
    <3>2. i \in 1 .. n - 1
      BY <1>0, <3>1
    <3>3. CASE i + 1 = n
      <4>1. v = Top /\ u # Top
        BY <1>0, <1>1, <3>1, <3>2, <3>3
      <4>2. Behind(e, v) /\ ~ Behind(e, u)
        <5>1. e.stack[i] = u /\ i \in DOMAIN e.stack
          BY <1>0, <3>1, <3>2
        <5> QED BY <1>2, <4>1, <5>1 DEF Behind
      <4> QED BY <4>2 DEF Passed
    <3>4. CASE i + 1 # n
      <4>1. i + 1 \in 1 .. n - 1
        BY <1>0, <3>1, <3>4
      <4>2. e.stack[i] = u /\ e.stack[i + 1] = v
        BY <1>0, <3>1, <3>2, <4>1
      <4> QED BY <1>0, <3>2, <4>1, <4>2 DEF OnPath
    <3> QED BY <3>3, <3>4
  <2> QED BY <2>1, <2>2, <2>4, <2>5
<1>9. Ranked(e, up, top + 1)
  BY <1>7, <1>8 DEF Ranked
<1> QED BY <1>3, <1>5, <1>9 DEF Searched

\* Over a finished search the ranks cannot go down all around a knot.
LEMMA SearchedReports ==
    ASSUME GraphInv, Searched(dfs)
    PROVE  KnotsAreReported
<1>. SUFFICES ASSUME Finished, NEW n \in graph.tracked, Reaches(n, n), ~ Told(dfs, n) PROVE FALSE
  BY DEF KnotsAreReported, Told
<1>0. /\ graph.tracked \subseteq Refs
      /\ \A k \in graph.tracked : graph.edges[k] \subseteq graph.tracked
  BY DEF GraphInv, DepGraphTypeOK
<1>1. DOMAIN dfs.stack = {} /\ graph.tracked \subseteq dfs.visited
  BY DEF Finished, Roots, Unvisited
<1>2. \A u \in graph.tracked : Behind(dfs, u) /\ dfs.left[u] = {}
  BY <1>1 DEF Behind, Searched, PathOK
<1>3. PICK rank \in [Refs -> Nat], top \in Nat : Ranked(dfs, rank, top)
  BY DEF Searched
<1>4. ASSUME NEW k \in graph.tracked, NEW v \in graph.edges[k], Reaches(v, k), ~ Told(dfs, k)
      PROVE  rank[v] < rank[k]
  <2>1. k \in dfs.visited /\ v \in graph.edges[k] \ dfs.left[k]
    BY <1>1, <1>2
  <2>2. Told(dfs, k) \/ Passed(dfs, rank, k, v) \/ OnPath(dfs, k, v)
    BY <1>3, <1>4, <2>1 DEF Ranked
  <2>3. ~ OnPath(dfs, k, v)
    BY <1>1 DEF OnPath
  <2> QED BY <1>2, <1>4, <2>2, <2>3 DEF Passed
<1>. DEFINE S == {m \in graph.tracked : Reaches(n, m) /\ (Reaches(m, n) => rank[m] < rank[n])}
<1>5. graph.edges[n] \subseteq S
  <2>. SUFFICES ASSUME NEW v \in graph.edges[n] PROVE v \in S
    OBVIOUS
  <2>1. v \in graph.tracked /\ Reaches(n, v)
    BY <1>0, ReachesOn
  <2>2. Reaches(v, n) => rank[v] < rank[n]
    BY <1>4
  <2> QED BY <2>1, <2>2
<1>6. ASSUME NEW k \in S, NEW v \in graph.edges[k] PROVE v \in S
  <2>1. k \in graph.tracked /\ Reaches(n, k) /\ (Reaches(k, n) => rank[k] < rank[n])
    OBVIOUS
  <2>2. v \in graph.tracked /\ Reaches(k, v)
    BY <1>0, <2>1, ReachesOn
  <2>3. Reaches(n, v)
    BY <2>1, <2>2, ReachesOn
  <2>4. ASSUME Reaches(v, n) PROVE rank[v] < rank[n]
    <3>1. Reaches(k, n) /\ Reaches(v, k)
      BY <2>1, <2>2, <2>4, ReachesOn
    <3>2. ~ Told(dfs, k)
      <4>1. ASSUME Told(dfs, k) PROVE Told(dfs, n)
        <5>1. PICK c \in dfs.cycles : \A i \in DOMAIN c : Reaches(k, c[i]) /\ Reaches(c[i], k)
          BY <4>1 DEF Told
        <5>2. \A i \in DOMAIN c : Reaches(n, c[i]) /\ Reaches(c[i], n)
          BY <2>1, <3>1, <5>1, ReachesOn
        <5> QED BY <5>2 DEF Told
      <4> QED BY <4>1
    <3>3. rank[v] < rank[k] /\ rank[k] < rank[n]
      BY <1>4, <2>1, <3>1, <3>2
    <3>4. rank[v] \in Nat /\ rank[k] \in Nat /\ rank[n] \in Nat
      BY <1>0, <2>1, <2>2
    <3> QED BY <3>3, <3>4
  <2> QED BY <2>2, <2>3, <2>4
<1>7. S \in SUBSET graph.tracked
  OBVIOUS
<1>8. n \in S
  <2>. HIDE DEF S
  <2> QED BY <1>5, <1>6, <1>7 DEF Reaches
<1>9. rank[n] < rank[n] /\ rank[n] \in Nat
  BY <1>0, <1>8
<1> QED BY <1>9

\* Searched says the same of the next state as of the value of dfs in it.
LEMMA SearchedMoves ==
    ASSUME NEW e, e = dfs', graph' = graph, Searched(e)
    PROVE  Searched(dfs)'
<1>1. \A u, v : Reaches(u, v)' <=> Reaches(u, v)
  BY DEF Reaches
<1>2. /\ \A u : Behind(dfs, u)' <=> Behind(e, u)
      /\ \A u, v : OnPath(dfs, u, v)' <=> OnPath(e, u, v)
  BY DEF Behind, OnPath
<1>3. \A u : Told(dfs, u)' <=> Told(e, u)
  BY <1>1 DEF Told
<1>4. PathOK(dfs)'
  BY <1>1, <1>2 DEF Searched, PathOK
<1>5. PICK rank \in [Refs -> Nat], top \in Nat : Ranked(e, rank, top)
  BY DEF Searched
<1>6. \A u, v : Passed(dfs, rank, u, v)' <=> Passed(e, rank, u, v)
  BY <1>2 DEF Passed
<1>7. Ranked(dfs, rank, top)'
  BY <1>1, <1>2, <1>3, <1>5, <1>6 DEF Ranked
<1> QED BY <1>4, <1>5, <1>7 DEF Searched

\* A search that has not begun.
LEMMA SearchedBegins == dfs = NoSearch => Searched(dfs)
<1>. SUFFICES ASSUME dfs = NoSearch PROVE Searched(dfs)
  OBVIOUS
<1>. DEFINE zero == [r \in Refs |-> 0]
<1>1. /\ dfs.visited = {} /\ dfs.stack = <<>>
      /\ \A u : ~ Behind(dfs, u)
  BY DEF Behind, NoSearch
<1>2. PathOK(dfs)
  <2>1. DOMAIN dfs.stack = {}
    BY <1>1
  <2> QED BY <1>1, <2>1 DEF PathOK
<1>3. /\ zero \in [Refs -> Nat] /\ 1 \in Nat
      /\ \A u \in Refs : zero[u] < 1
  OBVIOUS
<1>. HIDE DEF zero
<1>4. Ranked(dfs, zero, 1)
  BY <1>1, <1>3 DEF Ranked
<1> QED BY <1>2, <1>3, <1>4 DEF Searched

\* Every step keeps the search Searched.
LEMMA SearchedStep ==
    ASSUME GraphInv, Searched(dfs), [DepGraphNext]_graphVars
    PROVE  Searched(dfs)'
<1>0. /\ graph.tracked \subseteq Refs /\ dfs.left \in [Refs -> SUBSET Refs]
      /\ dfs \in [visited : SUBSET Refs, stack : Seq(graph.tracked),
                  left : [Refs -> SUBSET Refs], cycles : SUBSET Seq(graph.tracked)]
  BY DEF GraphInv, DepGraphTypeOK
<1>1. CASE Build
  <2>1. dfs = NoSearch /\ dfs' = dfs
    BY <1>1 DEF Build, GraphInv
  <2>2. (dfs = NoSearch)'
    BY <2>1
  <2>3. (dfs = NoSearch => Searched(dfs))'
    BY SearchedBegins, PTL
  <2> QED BY <2>2, <2>3
<1>2. CASE Begin
  <2>. DEFINE r == LeastIn(Roots)
  <2>1. Roots \in SUBSET Refs /\ Roots # {} /\ Roots = graph.tracked \ dfs.visited
    BY <1>0, <1>2 DEF Begin, Roots, Unvisited
  <2>2. r \in graph.tracked \ dfs.visited
    BY <2>1, LeastInIsElement
  <2>3. dfs' = Enter(r, dfs.left) /\ graph' = graph /\ dfs.stack = <<>>
    BY <1>2 DEF Begin
  <2>. HIDE DEF r
  <2>4. Searched(Enter(r, dfs.left))
    BY <1>0, <2>2, <2>3, EnterSearched
  <2> QED BY <2>3, <2>4, SearchedMoves
<1>3. CASE Look
  <2>. DEFINE next == LeastIn(dfs.left[Top])
              rest == [dfs.left EXCEPT ![Top] = @ \ {next}]
  <2>1. dfs.stack # <<>> /\ graph' = graph /\ Top \in Refs
    <3>1. dfs.stack # <<>> /\ graph' = graph
      BY <1>3 DEF Look
    <3>2. dfs.stack[Len(dfs.stack)] \in graph.tracked
      BY <1>0, <3>1
    <3> QED BY SMTT(30), <1>0, <3>1, <3>2 DEF Top
  <2>2. next \in dfs.left[Top] /\ dfs.left[Top] \subseteq graph.edges[Top] /\ next \in graph.tracked
    <3>1. dfs.left[Top] \in SUBSET Refs /\ dfs.left[Top] # {} /\ dfs.left[Top] \subseteq graph.edges[Top]
      BY <1>0, <1>3, <2>1 DEF Look, GraphInv
    <3>2. next \in dfs.left[Top]
      BY <3>1, LeastInIsElement
    <3>3. graph.edges[Top] \subseteq graph.tracked
      BY <2>1 DEF GraphInv, DepGraphTypeOK
    <3> QED BY <3>1, <3>2, <3>3
  <2>3. CASE OnStack(next)
    <3>1. PICK i \in DOMAIN dfs.stack :
            /\ dfs.stack[i] = next
            /\ dfs' = [dfs EXCEPT !.left = rest, !.cycles = @ \cup {Canonical(Segment(i))}]
      BY <1>3, <2>3 DEF Look
    <3>2. PICK e : e = dfs'
      OBVIOUS
    <3>3. /\ e.visited = dfs.visited /\ e.stack = dfs.stack /\ e.left = rest
          /\ e.cycles = dfs.cycles \cup {Canonical(Segment(i))}
      <4>. HIDE DEF rest
      <4> QED BY <1>0, <3>1, <3>2
    <3>. HIDE DEF next
    <3>4. Searched(e)
      BY <2>1, <2>2, <3>1, <3>3, ReportSearched
    <3> QED BY SMTT(30), <2>1, <3>2, <3>4, SearchedMoves
  <2>4. CASE ~ OnStack(next) /\ next \notin dfs.visited
    <3>1. dfs' = Enter(next, rest)
      BY <1>3, <2>4 DEF Look
    <3>2. /\ rest \in [Refs -> SUBSET Refs] /\ rest[Top] = dfs.left[Top] \ {next}
          /\ \A q \in Refs : q # Top => rest[q] = dfs.left[q]
      BY <1>0, <2>1
    <3>. HIDE DEF next, rest
    <3>3. Searched(Enter(next, rest))
      <4>1. /\ next \in graph.tracked \ dfs.visited
            /\ dfs.stack # <<>> => next \in graph.edges[Top]
        BY <2>2, <2>4
      <4>2. \A q \in Refs : \/ rest[q] = dfs.left[q]
                            \/ /\ dfs.stack # <<>>
                               /\ q = Top
                               /\ rest[q] = dfs.left[q] \ {next}
        BY <2>1, <3>2
      <4> QED BY <3>2, <4>1, <4>2, EnterSearched
    <3> QED BY <2>1, <3>1, <3>3, SearchedMoves
  <2>5. CASE ~ OnStack(next) /\ next \in dfs.visited
    <3>1. dfs' = [dfs EXCEPT !.left = rest]
      BY <1>3, <2>5 DEF Look
    <3>2. PICK e : e = dfs'
      OBVIOUS
    <3>3. e.visited = dfs.visited /\ e.stack = dfs.stack /\ e.left = rest /\ e.cycles = dfs.cycles
      <4>. HIDE DEF rest
      <4> QED BY <1>0, <3>1, <3>2
    <3>. HIDE DEF next
    <3>4. Searched(e)
      BY <2>1, <2>5, <3>3, SkipSearched
    <3> QED BY <2>1, <3>2, <3>4, SearchedMoves
  <2> QED BY <2>3, <2>4, <2>5
<1>4. CASE Return
  <2>1. graph' = graph /\ dfs' = [dfs EXCEPT !.stack = SubSeq(@, 1, Len(@) - 1)]
    BY <1>4 DEF Return
  <2>2. PICK e : e = dfs'
    OBVIOUS
  <2>3. /\ e.visited = dfs.visited /\ e.cycles = dfs.cycles /\ e.left = dfs.left
        /\ e.stack = SubSeq(dfs.stack, 1, Len(dfs.stack) - 1)
    BY <1>0, <2>1, <2>2
  <2>4. Searched(e)
    BY <1>4, <2>3, ReturnSearched
  <2> QED BY <2>1, <2>2, <2>4, SearchedMoves
<1>5. CASE UNCHANGED graphVars
  <2>1. graph' = graph /\ dfs' = dfs
    BY <1>5 DEF graphVars
  <2> QED BY <2>1, SearchedMoves
<1> QED BY <1>1, <1>2, <1>3, <1>4, <1>5 DEF DepGraphNext

\* For any number of issues and any snapshot: when the search is over, of every
\* knot of dependencies a cycle is reported.
THEOREM KnotsAreFound == DepGraphSpec => []KnotsAreReported
<1>1. DepGraphInit => GraphInv /\ Searched(dfs)
  BY GraphInitInv, SearchedBegins DEF DepGraphInit
<1>2. GraphInv /\ [DepGraphNext]_graphVars => GraphInv'
  BY GraphStep
<1>3. GraphInv /\ Searched(dfs) /\ [DepGraphNext]_graphVars => Searched(dfs)'
  BY SearchedStep
<1>4. GraphInv /\ Searched(dfs) => KnotsAreReported
  BY SearchedReports
<1> QED BY <1>1, <1>2, <1>3, <1>4, PTL DEF DepGraphSpec

-----------------------------------------------------------------------------
(* Settings *)

LayerNo == 1 .. 3

\* Of any layers that are named there is a strongest.
LEMMA StrongestIs ==
    ASSUME NEW named \in SUBSET LayerNo, named # {}
    PROVE  Strongest(named) \in named /\ \A j \in named : j <= Strongest(named)
<1>1. \E i \in named : \A j \in named : j <= i
  <2>1. CASE 3 \in named
    BY <2>1 DEF LayerNo
  <2>2. CASE 3 \notin named /\ 2 \in named
    BY <2>2 DEF LayerNo
  <2>3. CASE 3 \notin named /\ 2 \notin named
    <3>1. \A i \in named : i = 1
      BY <2>3 DEF LayerNo
    <3> QED BY <3>1
  <2> QED BY <2>1, <2>2, <2>3
<1> QED BY <1>1 DEF Strongest

\* What one layer over another says of a section.
LEMMA MergeSays ==
    ASSUME NEW below, NEW above
    PROVE  /\ DOMAIN Merge(below, above) = DOMAIN below \cup (DOMAIN above \ {"pool"})
           /\ \A s \in DOMAIN above \ {"pool"} : Merge(below, above)[s] = above[s]
           /\ \A s \in DOMAIN below \ DOMAIN above : Merge(below, above)[s] = below[s]
BY DEF Merge, MergeFields

\* The three layers over each other: a section is that of the strongest.
LEMMA LayeredSays ==
    ASSUME NEW given, NEW env, NEW cli,
           NEW s \in DOMAIN Layered(given, env, cli),
           NEW named, named = {i \in LayerNo : s \in DOMAIN <<given, EnvLayer(env), cli>>[i]}
    PROVE  /\ named # {} /\ s # "pool"
           /\ Layered(given, env, cli)[s] = <<given, EnvLayer(env), cli>>[Strongest(named)][s]
<1>. DEFINE one == Merge(<<>>, given)
            two == Merge(one, EnvLayer(env))
            three == Merge(two, cli)
            layers == <<given, EnvLayer(env), cli>>
<1>1. /\ DOMAIN one = DOMAIN given \ {"pool"} /\ \A t \in DOMAIN given \ {"pool"} : one[t] = given[t]
  <2>1. DOMAIN <<>> = {}
    OBVIOUS
  <2>2. /\ DOMAIN one = DOMAIN <<>> \cup (DOMAIN given \ {"pool"})
        /\ \A t \in DOMAIN given \ {"pool"} : one[t] = given[t]
    BY ZenonT(30), MergeSays
  <2> QED BY <2>1, <2>2
<1>. HIDE DEF one
<1>2. /\ DOMAIN two = DOMAIN one \cup (DOMAIN EnvLayer(env) \ {"pool"})
      /\ \A t \in DOMAIN EnvLayer(env) \ {"pool"} : two[t] = EnvLayer(env)[t]
      /\ \A t \in DOMAIN one \ DOMAIN EnvLayer(env) : two[t] = one[t]
  BY MergeSays
<1>. HIDE DEF two
<1>3. /\ DOMAIN three = DOMAIN two \cup (DOMAIN cli \ {"pool"})
      /\ \A t \in DOMAIN cli \ {"pool"} : three[t] = cli[t]
      /\ \A t \in DOMAIN two \ DOMAIN cli : three[t] = two[t]
  BY MergeSays
<1>4. Layered(given, env, cli) = three
  BY DEF Layered, one, two
<1>. HIDE DEF three
<1>5. /\ 1 \in named <=> s \in DOMAIN given
      /\ 2 \in named <=> s \in DOMAIN EnvLayer(env)
      /\ 3 \in named <=> s \in DOMAIN cli
      /\ named \subseteq LayerNo
  BY DEF LayerNo
<1>6. s # "pool" /\ named # {}
  BY <1>1, <1>2, <1>3, <1>4, <1>5
<1>7. Strongest(named) \in named /\ \A j \in named : j <= Strongest(named)
  BY <1>5, <1>6, StrongestIs
<1>8. CASE 3 \in named
  <2>1. Strongest(named) = 3
    BY <1>5, <1>7, <1>8 DEF LayerNo
  <2> QED BY <2>1, <1>3, <1>4, <1>5, <1>6, <1>8
<1>9. CASE 3 \notin named /\ 2 \in named
  <2>1. Strongest(named) = 2
    BY <1>5, <1>7, <1>9 DEF LayerNo
  <2> QED BY <2>1, <1>2, <1>3, <1>4, <1>5, <1>6, <1>9
<1>10. CASE 3 \notin named /\ 2 \notin named
  <2>1. Strongest(named) = 1
    BY <1>5, <1>7, <1>10 DEF LayerNo
  <2> QED BY <2>1, <1>1, <1>2, <1>3, <1>4, <1>5, <1>6, <1>10
<1> QED BY <1>6, <1>8, <1>9, <1>10

\* Fields of old versions only fill fields that are empty.
LEMMA NormalizeKeeps ==
    ASSUME NEW layer, NEW s \in DOMAIN layer
    PROVE  /\ s \in DOMAIN NormalizeLayer(layer)
           /\ \A f \in DOMAIN layer[s] : /\ f \in DOMAIN NormalizeLayer(layer)[s]
                                         /\ NormalizeLayer(layer)[s][f] = layer[s][f]
<1>. DEFINE has(t, f) == t \in DOMAIN layer /\ f \in DOMAIN layer[t]
            logging == IF "logging" \in DOMAIN layer THEN layer["logging"] ELSE <<>>
            moved == MergeFields(logging, [format |-> layer["server"]["log_format"]])
            docker == MergeFields(layer["tools"], [runtime |-> "docker"])
            newFormat == has("server", "log_format") /\ ~has("logging", "format")
            newRuntime == /\ has("tools", "allow_docker") /\ ~has("tools", "runtime")
                          /\ layer["tools"]["allow_docker"] = "true"
            format == IF newFormat THEN [logging |-> moved] ELSE <<>>
            runtime == IF newRuntime THEN [tools |-> docker] ELSE <<>>
<1>1. NormalizeLayer(layer) = MergeFields(MergeFields(layer, runtime), format)
  BY DEF NormalizeLayer
<1>2. DOMAIN <<>> = {}
  OBVIOUS
<1>3. /\ newFormat => DOMAIN format = {"logging"} /\ format["logging"] = moved
      /\ ~newFormat => DOMAIN format = {}
  BY <1>2
<1>4. /\ newRuntime => DOMAIN runtime = {"tools"} /\ runtime["tools"] = docker
      /\ ~newRuntime => DOMAIN runtime = {}
  BY <1>2
<1>5. newFormat /\ "logging" \in DOMAIN layer =>
          \A f \in DOMAIN layer["logging"] : f \in DOMAIN moved /\ moved[f] = layer["logging"][f]
  BY DEF MergeFields
<1>6. newRuntime => \A f \in DOMAIN layer["tools"] : f \in DOMAIN docker /\ docker[f] = layer["tools"][f]
  BY DEF MergeFields
<1>. HIDE DEF moved, docker, newFormat, newRuntime, format, runtime
<1>7. /\ s \in DOMAIN NormalizeLayer(layer)
      /\ NormalizeLayer(layer)[s] = IF s \in DOMAIN format THEN format[s]
                                    ELSE IF s \in DOMAIN runtime THEN runtime[s] ELSE layer[s]
  BY <1>1 DEF MergeFields
<1>8. CASE s \in DOMAIN format
  <2>1. s = "logging" /\ newFormat
    BY <1>3, <1>8
  <2> QED BY <2>1, <1>3, <1>5, <1>7
<1>9. CASE s \notin DOMAIN format /\ s \in DOMAIN runtime
  <2>1. s = "tools" /\ newRuntime
    BY <1>4, <1>9
  <2> QED BY <2>1, <1>4, <1>6, <1>7, <1>9
<1> QED BY <1>7, <1>8, <1>9

LEMMA NormalizeAdds ==
    ASSUME NEW layer
    PROVE  DOMAIN NormalizeLayer(layer) \subseteq DOMAIN layer \cup {"logging", "tools"}
<1>1. DOMAIN <<>> = {}
  OBVIOUS
<1> QED BY <1>1 DEF NormalizeLayer, MergeFields

\* What is resolved has what the strongest layer says.
LEMMA ResolvedSays ==
    ASSUME NEW given, NEW env, NEW cli, NEW s, NEW f, NEW config,
           config = Resolve(NormalizeLayer(Layered(given, env, cli))),
           NEW layers, layers = <<given, EnvLayer(env), cli>>,
           NEW named, named = {i \in LayerNo : s \in DOMAIN layers[i]}, named # {},
           s \in DOMAIN config, f \in DOMAIN layers[Strongest(named)][s], f \in DOMAIN config[s]
    PROVE  config[s][f] = layers[Strongest(named)][s][f]
<1>. DEFINE layer == Layered(given, env, cli)
            normal == NormalizeLayer(layer)
<1>1. DOMAIN config = DOMAIN normal /\ config[s] = Filled(s, normal[s])
  BY DEF Resolve
<1>2. CASE s \in DOMAIN layer
  <2>1. layer[s] = layers[Strongest(named)][s]
    BY <1>2, LayeredSays
  <2>2. f \in DOMAIN normal[s] /\ normal[s][f] = layer[s][f]
    BY <1>2, <2>1, NormalizeKeeps
  <2> QED BY <1>1, <2>1, <2>2 DEF Filled
<1>3. CASE s \notin DOMAIN layer
  <2>1. s \in {"logging", "tools"}
    BY <1>1, <1>3, NormalizeAdds
  <2>2. \A i \in LayerNo : s \in DOMAIN layers[i] => s \in DOMAIN layer
    <3>1. \A t \in DOMAIN given \cup DOMAIN EnvLayer(env) \cup DOMAIN cli :
              t # "pool" => t \in DOMAIN layer
      <4>1. \A below, above : DOMAIN Merge(below, above) = DOMAIN below \cup (DOMAIN above \ {"pool"})
        BY MergeSays
      <4>2. /\ DOMAIN layer = DOMAIN Merge(Merge(<<>>, given), EnvLayer(env)) \cup (DOMAIN cli \ {"pool"})
            /\ DOMAIN Merge(Merge(<<>>, given), EnvLayer(env))
                   = DOMAIN Merge(<<>>, given) \cup (DOMAIN EnvLayer(env) \ {"pool"})
            /\ DOMAIN Merge(<<>>, given) = DOMAIN <<>> \cup (DOMAIN given \ {"pool"})
        BY <4>1 DEF Layered
      <4> QED BY <4>2
    <3>2. \A i \in LayerNo : \/ i = 1 /\ layers[i] = given
                             \/ i = 2 /\ layers[i] = EnvLayer(env)
                             \/ i = 3 /\ layers[i] = cli
      BY DEF LayerNo
    <3> QED BY <2>1, <3>1, <3>2
  <2> QED BY <1>3, <2>2
<1> QED BY <1>2, <1>3

\* What was loaded last is what was resolved then.
SettingsInv ==
    Accepted => loaded.config = Resolve(NormalizeLayer(Layered(loaded.file, loaded.env, loaded.cli)))

\* What the strongest layer that names a section says of it is what looperd runs
\* with, for all files, environments and overrides (loader.rs:67-107).
THEOREM StrongestStands == SettingsInit /\ [][SettingsNext]_settingsVars => []StrongestSays
<1>1. SettingsInit => SettingsInv
  BY DEF SettingsInit, SettingsInv, Accepted, Nothing
<1>2. SettingsInv /\ [SettingsNext]_settingsVars => SettingsInv'
  <2>. SUFFICES ASSUME SettingsInv, [SettingsNext]_settingsVars PROVE SettingsInv'
    OBVIOUS
  <2>1. CASE UNCHANGED settingsVars
    BY <2>1 DEF settingsVars, SettingsInv, Accepted
  <2>2. ASSUME NEW given, NEW env, NEW cli, Load(given, env, cli) PROVE SettingsInv'
    BY <2>2 DEF Load, SettingsInv, Accepted
  <2>3. ASSUME NEW env, NEW cli, LoadWithoutFile(env, cli) PROVE SettingsInv'
    BY <2>3 DEF LoadWithoutFile, SettingsInv, Accepted
  <2>4. CASE Unload
    BY <2>4 DEF Unload, SettingsInv, Accepted, Nothing
  <2> QED BY <2>1, <2>2, <2>3, <2>4 DEF SettingsNext
<1>3. SettingsInv => StrongestSays
  BY ResolvedSays DEF SettingsInv, StrongestSays, LayersOf, LayerNo
<1> QED BY <1>1, <1>2, <1>3, PTL

-----------------------------------------------------------------------------
(* Checkouts *)

EditsIn(commits) == UNION {c.edits : c \in commits}

\* An edit is in a directory, or in a commit of the branch that is checked out
\* there; or in a commit already.
Committed(e, d) == tree[d] # NoDir /\ ~tree[d].empty /\ e \in EditsIn(local[HeadIn(d)])
Held(e, d) == tree[d] # NoDir /\ ~tree[d].empty /\ (e \in tree[d].edits \/ e \in EditsIn(local[HeadIn(d)]))

\* The worker on the planner's pull request is the one actor whose directory
\* another may remove.  What is there in its place has another branch.
Replaced(a) == a = "worker" /\ setup.adopts /\ tree["pr"].head # "planner"

Counts(a) == actor[a].made /\ actor[a].ok
Stored(a) ==
    /\ actor[a].phase \in {"prepared", "agent"} => ~actor[a].made
    /\ Counts(a) /\ actor[a].phase \in {"worked", "valid", "pushed"} => Held(Edit(a), DirOf(a)) \/ Replaced(a)
    /\ Counts(a) /\ actor[a].phase = "committed" => Committed(Edit(a), DirOf(a)) \/ Replaced(a)
    /\ Counts(a) /\ actor[a].phase \in {"published", "cleaned", "done"} => Edit(a) \in EditsOn(BranchOf(a))

\* The directories and branches, by themselves.
TreesOK ==
    /\ DOMAIN tree = Dirs /\ DOMAIN remote = Heads /\ {"main", "planner"} \subseteq DOMAIN local
    /\ DOMAIN local \subseteq Heads
    /\ \A d \in Dirs : /\ DOMAIN tree[d] = {"head", "edits", "empty"}
                       /\ tree[d].head \in DOMAIN local \cup {"none", "plain"}
                       /\ tree[d].head = "none" => tree[d] = NoDir
                       /\ tree[d].head \in DOMAIN local => ~tree[d].empty
    /\ SpecCommit \in remote["planner"]
    /\ \A h \in DOMAIN local : SpecCommit \in local[h] => h = "planner"

ActorsOK ==
    /\ DOMAIN actor = Actors
    /\ \A a \in Actors : DOMAIN actor[a] = {"phase", "nth", "made", "ok"} /\ actor[a].phase \in Phases
    /\ \A f, g \in Fixers : actor[f].phase \in Alive /\ actor[g].phase \in Alive => f = g
    /\ "adopts" \in DOMAIN setup

CheckInv == TreesOK /\ ActorsOK /\ \A a \in Actors : Stored(a)

LEMMA Names ==
    /\ "worker" \in Actors /\ "worker" \notin Fixers /\ "planner" \notin Actors
    /\ \A a \in Actors : /\ BranchOf(a) \in Heads /\ DirOf(a) \in Dirs
                         /\ a \in Fixers => BranchOf(a) = a /\ DirOf(a) = "pr" /\ a # "planner"
                         /\ a \notin Fixers => a = "worker"
    /\ "none" \notin Heads /\ "plain" \notin Heads
    /\ DirOf("worker") = IF setup.adopts THEN "pr" ELSE "own"
    /\ BranchOf("worker") = IF setup.adopts THEN "planner" ELSE "work"
BY CheckoutsAssumption DEF Actors, Heads, BranchOf, DirOf, FixerDir, WorkerDir, WorkerBranch, DirNamed, Dirs

\* A step of one actor that removes no directory with edits.
Gentle ==
    /\ \A d \in Dirs : \A e : /\ Held(e, d) => Held(e, d)'
                              /\ Committed(e, d) => Committed(e, d)'
    /\ \A h \in Heads : remote[h] \subseteq remote'[h]
    /\ setup'.adopts = setup.adopts

\* What such a step means for the actors that do not move.
LEMMA OthersStay ==
    ASSUME CheckInv, NEW a \in Actors, \A b \in Actors : b # a => actor'[b] = actor[b], Gentle,
           a # "worker" /\ tree'["pr"].head = "planner" => tree["pr"].head = "planner",
           NEW b \in Actors, b # a
    PROVE  Stored(b)'
<1>1. actor'[b] = actor[b] /\ Stored(b)
  BY DEF CheckInv
<1>2. Edit(b)' = Edit(b) /\ DirOf(b)' = DirOf(b) /\ BranchOf(b)' = BranchOf(b) /\ (Counts(b)' <=> Counts(b))
  <2>1. Edit(b)' = Edit(b) /\ (Counts(b)' <=> Counts(b))
    BY <1>1 DEF Edit, Counts
  <2>2. DirOf(b)' = DirOf(b) /\ BranchOf(b)' = BranchOf(b)
    BY DEF DirOf, BranchOf, WorkerDir, WorkerBranch, DirNamed, FixerDir, Gentle
  <2> QED BY <2>1, <2>2
<1>3. Replaced(b) => Replaced(b)'
  BY Names DEF Replaced, Gentle
<1>4. DirOf(b) \in Dirs /\ BranchOf(b) \in Heads
  BY Names
<1>5. EditsOn(BranchOf(b)) \subseteq EditsOn(BranchOf(b))'
  <2>1. remote[BranchOf(b)] \subseteq remote'[BranchOf(b)]
    BY <1>4 DEF Gentle
  <2> QED BY <1>2, <2>1 DEF EditsOn
<1>6. /\ Held(Edit(b), DirOf(b)) => Held(Edit(b), DirOf(b))'
      /\ Committed(Edit(b), DirOf(b)) => Committed(Edit(b), DirOf(b))'
  <2>1. ASSUME NEW e, NEW d, e = Edit(b), d = DirOf(b)
        PROVE /\ Held(e, d) => Held(e, d)'
              /\ Committed(e, d) => Committed(e, d)'
    BY <1>4, <2>1 DEF Gentle
  <2> QED BY <1>2, <2>1 DEF Held, Committed, HeadIn
<1> QED BY <1>1, <1>2, <1>3, <1>5, <1>6 DEF Stored

\* Directories and branches that stay, or only gain.
LEMMA NothingMoves ==
    ASSUME UNCHANGED <<tree, local>>, setup'.adopts = setup.adopts,
           \A h \in Heads : remote[h] \subseteq remote'[h]
    PROVE  Gentle
BY DEF Gentle, Held, Committed, HeadIn
\* A directory in which nothing is lost.
LEMMA TreeGentle ==
    ASSUME UNCHANGED local, setup'.adopts = setup.adopts,
           \A h \in Heads : remote[h] \subseteq remote'[h],
           \A d \in Dirs : tree[d] # NoDir /\ ~tree[d].empty =>
               tree'[d].head = tree[d].head /\ tree[d].edits \subseteq tree'[d].edits /\ ~tree'[d].empty
    PROVE  Gentle
<1>1. ASSUME NEW d \in Dirs, tree[d] # NoDir, ~tree[d].empty
      PROVE  /\ tree'[d] # NoDir /\ HeadIn(d)' = HeadIn(d)
  BY <1>1 DEF NoDir, HeadIn
<1> QED BY <1>1 DEF Gentle, Held, Committed

LEMMA AgentsOK ==
    ASSUME CheckInv, NEW a \in Actors, NEW row,
           actor' = [actor EXCEPT ![a] = row], DOMAIN row = {"phase", "nth", "made", "ok"}, row.phase \in Phases,
           row.phase \in Alive => \/ actor[a].phase \in Alive
                                  \/ a \in Fixers => \A f \in Fixers : actor[f].phase \notin Alive,
           "adopts" \in DOMAIN setup'
    PROVE  /\ ActorsOK' /\ actor'[a] = row /\ \A b \in Actors : b # a => actor'[b] = actor[b]
<1>1. /\ DOMAIN actor' = Actors /\ actor'[a] = row /\ \A b \in Actors : b # a => actor'[b] = actor[b]
  BY DEF CheckInv, ActorsOK
<1>2. Fixers \subseteq Actors
  BY DEF Actors
<1>3. ASSUME NEW f \in Fixers, NEW g \in Fixers, actor'[f].phase \in Alive, actor'[g].phase \in Alive
      PROVE  f = g
  BY <1>1, <1>2, <1>3 DEF CheckInv, ActorsOK
<1> QED BY <1>1, <1>3 DEF CheckInv, ActorsOK

LEMMA Troubled ==
    ASSUME CheckInv, NEW fails, Trouble(fails)
    PROVE  setup'.adopts = setup.adopts /\ "adopts" \in DOMAIN setup'
BY DEF Trouble, CheckInv, ActorsOK

LEMMA TreesStay == ASSUME CheckInv, UNCHANGED <<tree, local, remote>> PROVE TreesOK'
<1>1. TreesOK
  BY DEF CheckInv
<1> QED BY <1>1 DEF TreesOK

LEMMA PrepareStored ==
    ASSUME CheckInv, NEW a \in Actors, NEW fails \in BOOLEAN, PrepareWorktree(a, fails)
    PROVE  CheckInv'
<1>. DEFINE d == DirOf(a)
            row == [phase |-> "prepared", nth |-> actor[a].nth + 1, made |-> FALSE, ok |-> ~fails]
<1>1. /\ actor' = [actor EXCEPT ![a] = row] /\ UNCHANGED remote /\ Trouble(fails)
      /\ (a \in Fixers => \A f \in Fixers : actor[f].phase \notin Alive)
  BY DEF PrepareWorktree
<1>2. /\ ActorsOK' /\ actor'[a] = row /\ setup'.adopts = setup.adopts
      /\ \A b \in Actors : b # a => actor'[b] = actor[b]
  <2>1. setup'.adopts = setup.adopts /\ "adopts" \in DOMAIN setup'
    BY <1>1, Troubled
  <2>2. DOMAIN row = {"phase", "nth", "made", "ok"} /\ row.phase \in Phases
    BY DEF Phases, Alive
  <2>. HIDE DEF row
  <2> QED BY <1>1, <2>1, <2>2, AgentsOK
<1>3. d \in Dirs /\ BranchOf(a) \in Heads /\ "none" \notin Heads /\ "plain" \notin Heads
  BY Names
<1>4. CASE ~(Addable(d) /\ ~fails)
  <2>1. UNCHANGED <<tree, local>>
    BY <1>4 DEF PrepareWorktree
  <2>2. Gentle
    <3>1. \A h \in Heads : remote[h] \subseteq remote'[h]
      BY <1>1
    <3> QED BY <1>2, <2>1, <3>1, NothingMoves
  <2>3. TreesOK'
    BY <1>1, <2>1, TreesStay
  <2>4. \A b \in Actors : b # a => Stored(b)'
    BY <1>2, <2>1, <2>2, OthersStay
  <2>5. Stored(a)'
    BY <1>2 DEF Stored, Counts
  <2> QED BY <1>2, <2>3, <2>4, <2>5 DEF CheckInv
<1>5. CASE Addable(d) /\ ~fails
  <2>1. /\ tree' = [tree EXCEPT ![d] = [head |-> BranchOf(a), edits |-> {}, empty |-> FALSE]]
        /\ local' = [h \in DOMAIN local \cup {BranchOf(a)} |-> local[IF h \in DOMAIN local THEN h ELSE "main"]]
    BY <1>5 DEF PrepareWorktree, AddWorktree
  <2>. HIDE DEF d, row
  <2>2. /\ DOMAIN tree' = Dirs /\ \A e \in Dirs : e # d => tree'[e] = tree[e]
        /\ tree'[d] = [head |-> BranchOf(a), edits |-> {}, empty |-> FALSE]
        /\ \A h \in DOMAIN local : h \in DOMAIN local' /\ local'[h] = local[h]
        /\ tree[d].empty
    BY <1>3, <1>5, <2>1 DEF CheckInv, TreesOK, Addable
  <2>3. \A e \in Dirs : tree[e] # NoDir => HeadIn(e) \in DOMAIN local
    BY DEF CheckInv, TreesOK, HeadIn, NoDir
  <2>4. Gentle
    <3>1. ASSUME NEW c \in Dirs, NEW e, tree[c] # NoDir, ~tree[c].empty
          PROVE  tree'[c] = tree[c] /\ HeadIn(c)' = HeadIn(c) /\ local'[HeadIn(c)] = local[HeadIn(c)]
      <4>1. tree'[c] = tree[c]
        BY <2>2, <3>1
      <4> QED BY <2>2, <2>3, <3>1, <4>1 DEF HeadIn
    <3>2. \A c \in Dirs : \A e : /\ Held(e, c) => Held(e, c)'
                                 /\ Committed(e, c) => Committed(e, c)'
      BY <3>1 DEF Held, Committed
    <3>3. \A h \in Heads : remote[h] \subseteq remote'[h]
      BY <1>1
    <3> QED BY <1>2, <3>2, <3>3 DEF Gentle
  <2>5. TreesOK'
    <3>1. /\ "main" \in DOMAIN local /\ "planner" \in DOMAIN local /\ DOMAIN local \subseteq Heads
          /\ DOMAIN local' = DOMAIN local \cup {BranchOf(a)}
      BY <2>1 DEF CheckInv, TreesOK
    <3>2. \A h \in DOMAIN local' : SpecCommit \in local'[h] => h = "planner"
      <4>1. SpecCommit \notin local["main"]
        BY <3>1 DEF CheckInv, TreesOK
      <4> QED BY <2>1, <3>1, <4>1 DEF CheckInv, TreesOK
    <3>3. \A e \in Dirs : /\ DOMAIN tree'[e] = {"head", "edits", "empty"}
                          /\ tree'[e].head \in DOMAIN local' \cup {"none", "plain"}
                          /\ tree'[e].head = "none" => tree'[e] = NoDir
                          /\ tree'[e].head \in DOMAIN local' => ~tree'[e].empty
      <4>1. ASSUME NEW e \in Dirs, e # d
            PROVE  /\ DOMAIN tree[e] = {"head", "edits", "empty"}
                   /\ tree[e].head \in DOMAIN local' \cup {"none", "plain"}
                   /\ tree[e].head = "none" => tree[e] = NoDir
                   /\ tree[e].head \in DOMAIN local' => ~tree[e].empty
        BY <1>3, <3>1, <4>1 DEF CheckInv, TreesOK
      <4> QED BY <1>3, <2>2, <3>1, <4>1
    <3>4. DOMAIN remote' = Heads /\ SpecCommit \in remote'["planner"]
      BY <1>1 DEF CheckInv, TreesOK
    <3>5. {"main", "planner"} \subseteq DOMAIN local' /\ DOMAIN local' \subseteq Heads
      BY <1>3, <3>1
    <3> QED BY <2>2, <3>2, <3>3, <3>4, <3>5 DEF TreesOK
  <2>6. a # "worker" => tree'["pr"].head = tree["pr"].head \/ tree'["pr"].head # "planner"
    BY <2>2, Names
  <2>7. \A b \in Actors : b # a => Stored(b)'
    BY <1>2, <2>4, <2>6, OthersStay
  <2>8. Stored(a)'
    BY <1>2 DEF Stored, Counts, row
  <2> QED BY <1>2, <2>5, <2>7, <2>8 DEF CheckInv
<1> QED BY <1>4, <1>5

\* A step that leaves the moving actor's promises to the lemmas above.
LEMMA StepHolds ==
    ASSUME CheckInv, NEW a \in Actors, NEW row,
           actor' = [actor EXCEPT ![a] = row], DOMAIN row = {"phase", "nth", "made", "ok"}, row.phase \in Phases,
           row.phase \in Alive => actor[a].phase \in Alive, "adopts" \in DOMAIN setup',
           TreesOK', Gentle, tree'["pr"].head = "planner" => tree["pr"].head = "planner", Stored(a)'
    PROVE  CheckInv'
<1>1. ActorsOK' /\ actor'[a] = row /\ \A b \in Actors : b # a => actor'[b] = actor[b]
  BY AgentsOK
<1>2. \A b \in Actors : b # a => Stored(b)'
  BY <1>1, OthersStay
<1> QED BY <1>1, <1>2 DEF CheckInv

LEMMA HeadsKnown ==
    ASSUME CheckInv, NEW d \in Dirs
    PROVE  /\ tree[d] # NoDir <=> tree[d].head # "none"
           /\ tree[d] # NoDir => HeadIn(d) \in DOMAIN local
           /\ DOMAIN tree = Dirs /\ DOMAIN local \subseteq Heads /\ DOMAIN tree[d] = {"head", "edits", "empty"}
           /\ "none" \notin DOMAIN local /\ "plain" \notin DOMAIN local
BY Names DEF CheckInv, TreesOK, NoDir, HeadIn

LEMMA EnsuredTree ==
    ASSUME CheckInv, NEW d \in Dirs, tree' = Ensured(d), UNCHANGED <<local, remote>>, setup'.adopts = setup.adopts
    PROVE  /\ TreesOK' /\ Gentle /\ (tree'["pr"].head = "planner" => tree["pr"].head = "planner")
<1>1. CASE tree[d] # NoDir
  <2>1. tree' = tree
    BY <1>1 DEF Ensured
  <2> QED BY <2>1, TreesStay, NothingMoves
<1>2. CASE tree[d] = NoDir
  <2>1. /\ DOMAIN tree' = Dirs /\ tree'[d] = PlainDir /\ \A c \in Dirs : c # d => tree'[c] = tree[c]
    BY <1>2, HeadsKnown DEF Ensured
  <2>2. Gentle
    BY <1>2, <2>1, TreeGentle
  <2>3. TreesOK'
    BY <2>1, HeadsKnown DEF PlainDir, CheckInv, TreesOK
  <2>4. "pr" \in Dirs
    BY DEF Dirs
  <2> QED BY <2>1, <2>2, <2>3, <2>4 DEF PlainDir
<1> QED BY <1>1, <1>2

LEMMA StartStored ==
    ASSUME CheckInv, NEW a \in Actors, NEW fails \in BOOLEAN, StartAgent(a, fails)
    PROVE  CheckInv'
<1>. DEFINE row == [actor[a] EXCEPT !.phase = IF ~fails THEN "agent" ELSE IF a \in Fixers THEN "failed" ELSE "worked"]
<1>1. actor' = [actor EXCEPT ![a] = row] /\ actor[a].phase = "prepared"
  BY DEF StartAgent, Step, CheckInv, ActorsOK
<1>2. /\ DOMAIN row = {"phase", "nth", "made", "ok"} /\ row.phase \in Phases /\ row.made = actor[a].made
      /\ row.phase \in {"agent", "failed", "worked"}
  BY DEF Phases, Alive, CheckInv, ActorsOK
<1>3. /\ setup'.adopts = setup.adopts /\ "adopts" \in DOMAIN setup' /\ UNCHANGED <<local, remote>>
      /\ tree' = Ensured(DirOf(a))
  BY Troubled DEF StartAgent
<1>4. TreesOK' /\ Gentle /\ (tree'["pr"].head = "planner" => tree["pr"].head = "planner")
  BY <1>3, Names, EnsuredTree
<1>5. ~actor[a].made /\ actor[a].phase \in Alive
  BY <1>1 DEF CheckInv, Stored, Alive
<1>. HIDE DEF row
<1>6. actor'[a] = row
  BY <1>1 DEF CheckInv, ActorsOK
<1>7. Stored(a)'
  BY <1>2, <1>5, <1>6 DEF Stored, Counts
<1> QED BY <1>1, <1>2, <1>3, <1>4, <1>5, <1>7, StepHolds

LEMMA AgentEndsStored ==
    ASSUME CheckInv, NEW a \in Actors, NEW fails \in BOOLEAN, AgentEnds(a, fails)
    PROVE  CheckInv'
<1>. DEFINE d == DirOf(a)
            there == tree[d] # NoDir
            row == [actor[a] EXCEPT !.made = there, !.phase = IF fails /\ a \in Fixers THEN "failed" ELSE "worked"]
<1>1. actor' = [actor EXCEPT ![a] = row] /\ actor[a].phase = "agent"
  BY DEF AgentEnds, CheckInv, ActorsOK
<1>2. /\ DOMAIN row = {"phase", "nth", "made", "ok"} /\ row.phase \in Phases /\ (row.made <=> there)
      /\ row.phase \in {"failed", "worked"} /\ row.nth = actor[a].nth
  BY DEF Phases, Alive, CheckInv, ActorsOK
<1>3. setup'.adopts = setup.adopts /\ "adopts" \in DOMAIN setup' /\ UNCHANGED <<local, remote>>
  BY Troubled DEF AgentEnds
<1>4. d \in Dirs /\ "pr" \in Dirs /\ Edit(a)' = Edit(a) /\ DirOf(a)' = d
  <2>1. DirOf(a)' = d
    BY <1>3 DEF DirOf, FixerDir, WorkerDir, DirNamed
  <2>2. actor'[a].nth = actor[a].nth
    BY <1>1, <1>2 DEF CheckInv, ActorsOK
  <2> QED BY <2>1, <2>2, Names DEF Edit, Dirs
<1>5. actor[a].phase \in Alive
  BY <1>1 DEF Alive
<1>6. CASE ~there
  <2>1. tree' = tree
    BY <1>6 DEF AgentEnds
  <2>. HIDE DEF row
  <2>2. actor'[a] = row
    BY <1>1 DEF CheckInv, ActorsOK
  <2>3. Stored(a)'
    BY <1>2, <1>6, <2>2 DEF Stored, Counts
  <2>4. TreesOK' /\ Gentle
    BY <1>3, <2>1, TreesStay, NothingMoves
  <2> QED BY <1>1, <1>2, <1>3, <1>5, <2>1, <2>3, <2>4, StepHolds
<1>7. CASE there
  <2>1. /\ DOMAIN tree' = Dirs /\ \A c \in Dirs : c # d => tree'[c] = tree[c]
        /\ tree'[d].head = tree[d].head /\ tree'[d].edits = tree[d].edits \cup {Edit(a)} /\ tree'[d].empty = FALSE
        /\ DOMAIN tree'[d] = {"head", "edits", "empty"}
    BY <1>4, <1>7, HeadsKnown DEF AgentEnds
  <2>. HIDE DEF row, d
  <2>2. actor'[a] = row
    BY <1>1 DEF CheckInv, ActorsOK
  <2>3. Gentle
    BY <1>3, <2>1, TreeGentle
  <2>4. TreesOK'
    <3>1. tree[d].head # "none"
      BY <1>4, <1>7, HeadsKnown
    <3> QED BY <1>3, <1>4, <2>1, <3>1 DEF CheckInv, TreesOK
  <2>5. Held(Edit(a), d)'
    <3>1. tree'[d] # NoDir
      BY <2>1 DEF NoDir
    <3>2. ASSUME NEW e, e = Edit(a) PROVE Held(e, d)'
      <4>1. d' = d
        BY <1>4 DEF d
      <4> QED BY <2>1, <3>1, <3>2, <4>1 DEF Held
    <3> QED BY <1>4, <3>2 DEF Held
  <2>6. Stored(a)'
    <3>1. Held(Edit(a), DirOf(a))'
      BY <1>4, <2>5 DEF d
    <3> QED BY <1>2, <2>2, <3>1 DEF Stored
  <2>7. tree'["pr"].head = tree["pr"].head
    BY <1>4, <2>1
  <2> QED BY <1>1, <1>2, <1>3, <1>5, <2>3, <2>4, <2>6, <2>7, StepHolds
<1> QED BY <1>6, <1>7

\* What a gentle step leaves to the actor that goes on in the same directory.
LEMMA Keeps ==
    ASSUME CheckInv, NEW a \in Actors, Gentle, tree'["pr"].head = "planner" => tree["pr"].head = "planner",
           actor'[a].nth = actor[a].nth
    PROVE  /\ Edit(a)' = Edit(a) /\ DirOf(a)' = DirOf(a) /\ BranchOf(a)' = BranchOf(a)
           /\ Held(Edit(a), DirOf(a)) => Held(Edit(a), DirOf(a))'
           /\ Committed(Edit(a), DirOf(a)) => Committed(Edit(a), DirOf(a))'
           /\ Edit(a) \in EditsOn(BranchOf(a)) => (Edit(a) \in EditsOn(BranchOf(a)))'
           /\ Replaced(a) => Replaced(a)'
<1>1. Edit(a)' = Edit(a)
  BY DEF Edit
<1>2. DirOf(a)' = DirOf(a) /\ BranchOf(a)' = BranchOf(a)
  BY DEF DirOf, BranchOf, WorkerDir, WorkerBranch, DirNamed, FixerDir, Gentle
<1>3. Replaced(a) => Replaced(a)'
  BY DEF Replaced, Gentle
<1>4. DirOf(a) \in Dirs /\ BranchOf(a) \in Heads
  BY Names
<1>5. EditsOn(BranchOf(a)) \subseteq EditsOn(BranchOf(a))'
  <2>1. remote[BranchOf(a)] \subseteq remote'[BranchOf(a)]
    BY <1>4 DEF Gentle
  <2> QED BY <1>2, <2>1 DEF EditsOn
<1>6. /\ Held(Edit(a), DirOf(a)) => Held(Edit(a), DirOf(a))'
      /\ Committed(Edit(a), DirOf(a)) => Committed(Edit(a), DirOf(a))'
  <2>1. ASSUME NEW e, NEW d, e = Edit(a), d = DirOf(a)
        PROVE /\ Held(e, d) => Held(e, d)'
              /\ Committed(e, d) => Committed(e, d)'
    BY <1>4, <2>1 DEF Gentle
  <2> QED BY <1>1, <1>2, <2>1 DEF Held, Committed, HeadIn
<1> QED BY <1>1, <1>2, <1>3, <1>5, <1>6

LEMMA ValidateStored ==
    ASSUME CheckInv, NEW builds \in BOOLEAN, Validate(builds)
    PROVE  CheckInv'
<1>. DEFINE row == [actor["worker"] EXCEPT !.phase = IF builds THEN "valid" ELSE "failed"]
<1>0. "worker" \in Actors /\ DirOf("worker") \in Dirs
  BY Names
<1>1. actor' = [actor EXCEPT !["worker"] = row] /\ actor["worker"].phase = "worked"
  BY DEF Validate, Step, CheckInv, ActorsOK
<1>2. /\ DOMAIN row = {"phase", "nth", "made", "ok"} /\ row.phase \in Phases /\ row.phase \in {"valid", "failed"}
      /\ (row.made <=> actor["worker"].made) /\ (row.ok <=> actor["worker"].ok) /\ row.nth = actor["worker"].nth
  BY <1>0 DEF Phases, Alive, CheckInv, ActorsOK
<1>3. UNCHANGED <<setup, local, remote>> /\ tree' = Ensured(DirOf("worker"))
  BY DEF Validate
<1>4. TreesOK' /\ Gentle /\ (tree'["pr"].head = "planner" => tree["pr"].head = "planner")
  BY <1>0, <1>3, EnsuredTree
<1>. HIDE DEF row
<1>5. actor'["worker"] = row
  BY <1>0, <1>1 DEF CheckInv, ActorsOK
<1>6. Stored("worker")'
  BY <1>0, <1>1, <1>2, <1>4, <1>5, Keeps DEF Stored, Counts, CheckInv
<1>7. actor["worker"].phase \in Alive /\ "adopts" \in DOMAIN setup'
  BY <1>1, <1>3 DEF Alive, CheckInv, ActorsOK
<1> QED BY <1>0, <1>1, <1>2, <1>4, <1>6, <1>7, StepHolds

\* A commit loses nothing, and holds the edits of the directory it is made in.
LEMMA CommitKeeps ==
    ASSUME CheckInv, Ignored = FALSE, NEW a \in Actors, tree[DirOf(a)] # NoDir, CommitAll(a),
           UNCHANGED remote, setup'.adopts = setup.adopts
    PROVE  /\ TreesOK' /\ Gentle /\ tree'["pr"].head = tree["pr"].head
           /\ \A e : Held(e, DirOf(a)) => Committed(e, DirOf(a))'
<1>. DEFINE d == DirOf(a)
            from == Committing(d)
            h == HeadIn(d)
            new == Commit(a, UNION {tree[e].edits : e \in from})
<1>1. d \in Dirs /\ "pr" \in Dirs /\ d' = d
  <2>1. d' = d
    BY DEF DirOf, FixerDir, WorkerDir, DirNamed
  <2> QED BY <2>1, Names DEF Dirs
<1>2. h \in DOMAIN local /\ DOMAIN local \subseteq Heads
  BY <1>1, HeadsKnown
<1>3. /\ local' = [local EXCEPT ![h] = local[h] \cup {new}]
      /\ tree' = [e \in Dirs |-> IF e \in from THEN [tree[e] EXCEPT !.edits = {}] ELSE tree[e]]
  BY DEF CommitAll
<1>4. /\ from \subseteq Dirs /\ d \in from /\ \A e \in from : HeadIn(e) = h
      /\ \A e \in from : tree[e].head # "none"
  BY <1>1, HeadsKnown DEF Committing, HeadIn
<1>5. \A e \in from : tree[e].edits \subseteq new.edits
  BY DEF Commit
<1>6. new # SpecCommit
  BY Names DEF Commit, Edit, SpecCommit
<1>. HIDE DEF d, from, h, new
<1>7. /\ DOMAIN local' = DOMAIN local /\ \A k \in DOMAIN local : local[k] \subseteq local'[k]
      /\ new \in local'[h] /\ \A k \in DOMAIN local : local'[k] \subseteq local[k] \cup {new}
  BY <1>2, <1>3
<1>8. \A e \in Dirs : /\ DOMAIN tree'[e] = DOMAIN tree[e] /\ tree'[e].head = tree[e].head
                      /\ tree'[e].empty = tree[e].empty
                      /\ e \notin from => tree'[e] = tree[e]
  BY <1>3, HeadsKnown
<1>9. ASSUME NEW c \in Dirs, tree[c] # NoDir
      PROVE  /\ tree'[c] # NoDir /\ HeadIn(c)' = HeadIn(c) /\ HeadIn(c) \in DOMAIN local
             /\ EditsIn(local[HeadIn(c)]) \subseteq EditsIn(local'[HeadIn(c)])
             /\ tree[c].edits \subseteq tree'[c].edits \/ tree[c].edits \subseteq EditsIn(local'[HeadIn(c)])
  <2>1. tree[c].head # "none" /\ HeadIn(c) \in DOMAIN local
    BY <1>9, HeadsKnown
  <2>2. tree'[c] # NoDir
    BY <1>8, <2>1 DEF NoDir
  <2>3. HeadIn(c)' = HeadIn(c)
    BY <1>8 DEF HeadIn
  <2>4. EditsIn(local[HeadIn(c)]) \subseteq EditsIn(local'[HeadIn(c)])
    BY <1>7, <2>1 DEF EditsIn
  <2>5. tree[c].edits \subseteq tree'[c].edits \/ tree[c].edits \subseteq EditsIn(local'[HeadIn(c)])
    <3>1. CASE c \notin from
      BY <1>8, <3>1
    <3>2. CASE c \in from
      <4>1. tree[c].edits \subseteq new.edits /\ new \in local'[HeadIn(c)]
        BY <1>4, <1>5, <1>7, <3>2
      <4> QED BY <4>1 DEF EditsIn
    <3> QED BY <3>1, <3>2
  <2> QED BY <2>1, <2>2, <2>3, <2>4, <2>5
<1>10. Gentle
  <2>1. ASSUME NEW c \in Dirs, NEW e
        PROVE  /\ Held(e, c) => Held(e, c)'
               /\ Committed(e, c) => Committed(e, c)'
    BY <1>8, <1>9 DEF Held, Committed
  <2>2. \A k \in Heads : remote[k] \subseteq remote'[k]
    OBVIOUS
  <2> QED BY <2>1, <2>2 DEF Gentle
<1>11. TreesOK'
  <2>1. DOMAIN tree' = Dirs
    BY <1>3
  <2>2. \A k \in DOMAIN local' : SpecCommit \in local'[k] => k = "planner"
    BY <1>6, <1>7 DEF CheckInv, TreesOK
  <2>3. \A e \in Dirs : /\ DOMAIN tree'[e] = {"head", "edits", "empty"}
                        /\ tree'[e].head \in DOMAIN local' \cup {"none", "plain"}
                        /\ tree'[e].head = "none" => tree'[e] = NoDir
                        /\ tree'[e].head \in DOMAIN local' => ~tree'[e].empty
    <3>1. \A e \in Dirs : tree[e].head = "none" => e \notin from
      BY <1>4
    <3> QED BY <1>7, <1>8, <3>1 DEF CheckInv, TreesOK
  <2> QED BY <1>7, <2>1, <2>2, <2>3 DEF CheckInv, TreesOK
<1>12. ASSUME NEW e, Held(e, d) PROVE Committed(e, d)'
  <2>1. tree'[d] # NoDir /\ HeadIn(d)' = h /\ EditsIn(local[h]) \subseteq EditsIn(local'[h])
    BY <1>1, <1>9, <1>12 DEF h, Held
  <2>2. ~tree'[d].empty
    BY <1>1, <1>8, <1>12 DEF Held
  <2>3. e \in EditsIn(local'[h])
    <3>1. e \in tree[d].edits \/ e \in EditsIn(local[h])
      BY <1>12 DEF Held, h
    <3>2. tree[d].edits \subseteq EditsIn(local'[h])
      BY <1>4, <1>5, <1>7 DEF EditsIn
    <3> QED BY <2>1, <3>1, <3>2
  <2>4. (tree[d] # NoDir)' /\ (~tree[d].empty)' /\ (e \in EditsIn(local[HeadIn(d)]))'
    <3>1. ASSUME NEW c, c = d PROVE (tree[c] # NoDir)' /\ (~tree[c].empty)' /\ (e \in EditsIn(local[HeadIn(c)]))'
      <4>1. (HeadIn(c))' = h
        BY <1>1, <2>1, <3>1 DEF HeadIn
      <4> QED BY <2>1, <2>2, <2>3, <3>1, <4>1 DEF NoDir, EditsIn
    <3> QED BY <1>1, <3>1
  <2> QED BY <2>4 DEF Committed
<1> QED BY <1>1, <1>8, <1>10, <1>11, <1>12 DEF d

LEMMA CommitStored ==
    ASSUME CheckInv, Ignored = FALSE, NEW a \in Actors, NEW fails \in BOOLEAN,
           actor[a].phase \in {"valid", "pushed"}, CommitStep(a, fails)
    PROVE  CheckInv'
<1>. DEFINE can == tree[DirOf(a)] # NoDir
            row == [actor[a] EXCEPT !.phase = "committed", !.ok = actor[a].ok /\ can /\ ~fails]
<1>1. actor' = [actor EXCEPT ![a] = row]
  BY DEF CommitStep, CheckInv, ActorsOK
<1>2. /\ DOMAIN row = {"phase", "nth", "made", "ok"} /\ row.phase = "committed" /\ row.nth = actor[a].nth
      /\ (row.made <=> actor[a].made) /\ (row.ok <=> actor[a].ok /\ can /\ ~fails)
  BY DEF CheckInv, ActorsOK
<1>3. setup'.adopts = setup.adopts /\ "adopts" \in DOMAIN setup' /\ UNCHANGED remote
  BY Troubled DEF CommitStep
<1>4. row.phase \in Phases /\ actor[a].phase \in Alive
  BY <1>2 DEF Phases, Alive
<1>. HIDE DEF row
<1>5. actor'[a] = row
  BY <1>1 DEF CheckInv, ActorsOK
<1>6. CASE ~(can /\ ~fails)
  <2>1. UNCHANGED <<tree, local>>
    BY <1>6 DEF CommitStep
  <2>2. TreesOK' /\ Gentle
    BY <1>3, <2>1, TreesStay, NothingMoves
  <2>3. Stored(a)'
    BY <1>2, <1>5, <1>6 DEF Stored, Counts
  <2> QED BY <1>1, <1>2, <1>3, <1>4, <2>1, <2>2, <2>3, StepHolds
<1>7. CASE can /\ ~fails
  <2>1. CommitAll(a)
    BY <1>7 DEF CommitStep
  <2>2. /\ TreesOK' /\ Gentle /\ tree'["pr"].head = tree["pr"].head
        /\ \A e : Held(e, DirOf(a)) => Committed(e, DirOf(a))'
    BY <1>3, <1>7, <2>1, CommitKeeps
  <2>3. Stored(a)'
    <3>1. Edit(a)' = Edit(a) /\ (Replaced(a) => Replaced(a)')
      BY <1>2, <1>5, <2>2, Keeps
    <3>2. Held(Edit(a), DirOf(a)) => Committed(Edit(a), DirOf(a))'
      <4>1. ASSUME NEW e, e = Edit(a), Held(e, DirOf(a)) PROVE Committed(Edit(a), DirOf(a))'
        <5>1. Committed(e, DirOf(a))'
          BY <2>2, <4>1
        <5> QED BY <3>1, <4>1, <5>1 DEF Committed
      <4> QED BY <4>1
    <3>3. Counts(a)' => Counts(a)
      BY <1>2, <1>5 DEF Counts
    <3>4. Counts(a) => Held(Edit(a), DirOf(a)) \/ Replaced(a)
      BY DEF CheckInv, Stored
    <3> QED BY <1>2, <1>5, <3>1, <3>2, <3>3, <3>4 DEF Stored
  <2> QED BY <1>1, <1>2, <1>3, <1>4, <2>2, <2>3, StepHolds
<1> QED BY <1>6, <1>7

LEMMA PushStored ==
    ASSUME CheckInv, NEW a \in Actors, NEW fails \in BOOLEAN, NEW after, NEW otherwise,
           PushStep(a, fails, after, otherwise),
           \/ actor[a].phase = "committed" /\ after = "published" /\ otherwise \in {"published", "failed"}
           \/ actor[a].phase = "worked" /\ after = "pushed" /\ otherwise = "pushed"
    PROVE  CheckInv'
<1>. DEFINE works == Pushable(a) /\ ~fails
            row == [actor[a] EXCEPT !.phase = IF works THEN after ELSE otherwise,
                                    !.ok = actor[a].ok /\ (works \/ after = "pushed")]
<1>1. actor' = [actor EXCEPT ![a] = row]
  BY DEF PushStep, CheckInv, ActorsOK
<1>2. /\ DOMAIN row = {"phase", "nth", "made", "ok"} /\ row.phase = (IF works THEN after ELSE otherwise)
      /\ row.nth = actor[a].nth
      /\ (row.made <=> actor[a].made) /\ (row.ok <=> actor[a].ok /\ (works \/ after = "pushed"))
  BY DEF CheckInv, ActorsOK
<1>3. setup'.adopts = setup.adopts /\ "adopts" \in DOMAIN setup' /\ UNCHANGED <<tree, local>>
  BY Troubled DEF PushStep
<1>4. row.phase \in Phases /\ actor[a].phase \in Alive
  BY <1>2 DEF Phases, Alive
<1>5. BranchOf(a) \in Heads /\ DirOf(a) \in Dirs
  BY Names
<1>6. works => remote' = [remote EXCEPT ![BranchOf(a)] = local[HeadIn(DirOf(a))]]
               /\ remote[BranchOf(a)] \subseteq local[HeadIn(DirOf(a))] /\ tree[DirOf(a)] # NoDir
  BY DEF PushStep, PushHead, Pushable
<1>7. ~works => remote' = remote
  BY DEF PushStep
<1>. HIDE DEF row, works
<1>8. actor'[a] = row /\ DOMAIN remote = Heads
  BY <1>1 DEF CheckInv, ActorsOK, TreesOK
<1>9. /\ DOMAIN remote' = Heads /\ \A k \in Heads : remote[k] \subseteq remote'[k]
      /\ works => remote'[BranchOf(a)] = local[HeadIn(DirOf(a))]
  BY <1>5, <1>6, <1>7, <1>8
<1>10. Gentle
  BY <1>3, <1>9, NothingMoves
<1>11. TreesOK'
  <2>1. SpecCommit \in remote'["planner"]
    BY <1>9 DEF CheckInv, TreesOK, Heads
  <2> QED BY <1>3, <1>9, <2>1 DEF CheckInv, TreesOK
<1>12. Stored(a)'
  <2>1. /\ Edit(a)' = Edit(a) /\ BranchOf(a)' = BranchOf(a)
        /\ Held(Edit(a), DirOf(a)) => Held(Edit(a), DirOf(a))'
        /\ Replaced(a) => Replaced(a)'
    BY <1>2, <1>3, <1>8, <1>10, Keeps
  <2>2. Counts(a)' => Counts(a) /\ (works \/ after = "pushed")
    BY <1>2, <1>8 DEF Counts
  <2>3. CASE after = "pushed"
    <3>1. row.phase = "pushed" /\ actor[a].phase = "worked"
      BY <1>2, <2>3
    <3> QED BY <1>8, <2>1, <2>2, <3>1 DEF CheckInv, Stored
  <2>4. CASE after = "published"
    <3>1. actor[a].phase = "committed" /\ row.phase \in {"published", "failed"}
      BY <1>2, <2>4
    <3>2. ASSUME works, Replaced(a) PROVE FALSE
      <4>1. a = "worker" /\ BranchOf(a) = "planner" /\ DirOf(a) = "pr" /\ tree["pr"].head # "planner"
        BY <3>2, Names DEF Replaced
      <4>2. SpecCommit \in local[HeadIn("pr")] /\ HeadIn("pr") \in DOMAIN local
        BY <1>5, <1>6, <3>2, <4>1, HeadsKnown DEF CheckInv, TreesOK
      <4>3. HeadIn("pr") = "planner"
        BY <4>2 DEF CheckInv, TreesOK
      <4> QED BY <4>1, <4>3 DEF HeadIn
    <3>3. ASSUME works, Committed(Edit(a), DirOf(a)) PROVE (Edit(a) \in EditsOn(BranchOf(a)))'
      <4>1. Edit(a) \in EditsIn(remote'[BranchOf(a)])
        BY <1>9, <3>3 DEF Committed
      <4> QED BY <2>1, <4>1 DEF EditsIn, EditsOn
    <3>4. Counts(a)' => (Edit(a) \in EditsOn(BranchOf(a)))'
      BY <2>2, <2>4, <3>1, <3>2, <3>3 DEF CheckInv, Stored
    <3> QED BY <1>8, <3>1, <3>4 DEF Stored
  <2> QED BY <2>3, <2>4
<1> QED BY <1>1, <1>2, <1>3, <1>4, <1>10, <1>11, <1>12, StepHolds

\* A directory is gone.  Whoever else still counts on it is the worker that
\* adopts, whose place is then taken.
LEMMA RemovalStored ==
    ASSUME CheckInv, NEW a \in Actors, Step(a, "cleaned"), UNCHANGED <<setup, local, remote>>,
           actor[a].phase = "published", NEW d \in Dirs, RemoveWorktree(d),
           a = "worker" => ~setup.adopts /\ d = "own", a # "worker" => d = "pr"
    PROVE  CheckInv'
<1>. DEFINE row == [actor[a] EXCEPT !.phase = "cleaned"]
<1>1. actor' = [actor EXCEPT ![a] = row]
  BY DEF Step, CheckInv, ActorsOK
<1>2. /\ DOMAIN row = {"phase", "nth", "made", "ok"} /\ row.phase = "cleaned" /\ row.nth = actor[a].nth
      /\ (row.made <=> actor[a].made) /\ (row.ok <=> actor[a].ok)
  BY DEF CheckInv, ActorsOK
<1>3. row.phase \in Phases /\ row.phase \in Alive /\ actor[a].phase \in Alive
  BY <1>2 DEF Phases, Alive
<1>. HIDE DEF row
<1>4. ActorsOK' /\ actor'[a] = row /\ \A b \in Actors : b # a => actor'[b] = actor[b]
  <2>1. "adopts" \in DOMAIN setup'
    BY DEF CheckInv, ActorsOK
  <2> QED BY <1>1, <1>2, <1>3, <2>1, AgentsOK
<1>5. /\ DOMAIN tree' = Dirs /\ tree'[d] = NoDir /\ \A c \in Dirs : c # d => tree'[c] = tree[c]
  BY HeadsKnown DEF RemoveWorktree
<1>6. TreesOK'
  <2>1. DOMAIN NoDir = {"head", "edits", "empty"} /\ NoDir.head = "none" /\ "none" \notin DOMAIN local
    BY HeadsKnown DEF NoDir
  <2> QED BY <1>5, <2>1 DEF CheckInv, TreesOK
<1>7. \A b \in Actors : DirOf(b)' = DirOf(b) /\ BranchOf(b)' = BranchOf(b)
  BY DEF DirOf, BranchOf, WorkerDir, WorkerBranch, DirNamed, FixerDir
<1>8. Stored(a)'
  <2>1. Counts(a)' => Counts(a)
    BY <1>2, <1>4 DEF Counts
  <2>2. (EditsOn(BranchOf(a)))' = EditsOn(BranchOf(a)) /\ Edit(a)' = Edit(a)
    BY <1>2, <1>4, <1>7 DEF EditsOn, Edit
  <2> QED BY <1>2, <1>4, <2>1, <2>2 DEF CheckInv, Stored
<1>9. ASSUME NEW b \in Actors, b # a PROVE Stored(b)'
  <2>1. actor'[b] = actor[b] /\ Stored(b) /\ DirOf(b) \in Dirs
    BY <1>4, <1>9, Names DEF CheckInv
  <2>2. (EditsOn(BranchOf(b)))' = EditsOn(BranchOf(b)) /\ Edit(b)' = Edit(b) /\ (Counts(b)' <=> Counts(b))
    BY <1>7, <2>1 DEF EditsOn, Edit, Counts
  <2>3. CASE DirOf(b) # d
    <3>1. ASSUME NEW e, NEW c, c = DirOf(b)
          PROVE  (Held(e, c) => Held(e, c)') /\ (Committed(e, c) => Committed(e, c)')
      <4>1. tree'[c] = tree[c]
        BY <1>5, <2>1, <2>3, <3>1
      <4> QED BY <4>1 DEF Held, Committed, HeadIn
    <3>2. /\ Held(Edit(b), DirOf(b)) => Held(Edit(b), DirOf(b))'
          /\ Committed(Edit(b), DirOf(b)) => Committed(Edit(b), DirOf(b))'
      <4>1. ASSUME NEW e, NEW c, c = DirOf(b), e = Edit(b)
            PROVE  /\ Held(e, c) => Held(Edit(b), DirOf(b))'
                   /\ Committed(e, c) => Committed(Edit(b), DirOf(b))'
        BY <1>7, <2>1, <2>2, <3>1, <4>1 DEF Held, Committed, HeadIn
      <4> QED BY <4>1
    <3>3. Replaced(b) => Replaced(b)'
      BY <1>5, Names DEF Replaced, NoDir, Dirs
    <3> QED BY <2>1, <2>2, <3>2, <3>3 DEF Stored
  <2>4. CASE DirOf(b) = d
    <3>1. (a # "worker" /\ b = "worker" /\ setup.adopts /\ d = "pr") \/ (a \in Fixers /\ b \in Fixers)
      BY <1>9, <2>4, Names DEF Actors
    <3>2. CASE a # "worker" /\ b = "worker" /\ setup.adopts /\ d = "pr"
      <4>1. Replaced(b)'
        BY <1>5, <3>2 DEF Replaced, NoDir
      <4>2. (actor[b].phase \in {"prepared", "agent"} => ~actor[b].made)
        BY <2>1 DEF Stored
      <4> QED BY <2>1, <2>2, <4>1 DEF Stored
    <3>3. CASE a \in Fixers /\ b \in Fixers
      <4>1. actor[b].phase \notin Alive
        BY <1>3, <1>9, <3>3 DEF CheckInv, ActorsOK
      <4> QED BY <2>1, <2>2, <4>1 DEF Stored, Alive
    <3> QED BY <3>1, <3>2, <3>3
  <2> QED BY <2>3, <2>4
<1> QED BY <1>4, <1>6, <1>8, <1>9 DEF CheckInv

LEMMA PhaseStored ==
    ASSUME CheckInv, NEW a \in Actors, NEW next, Step(a, next), UNCHANGED <<setup, tree, local, remote>>,
           \/ actor[a].phase = "published" /\ next = "cleaned"
           \/ actor[a].phase = "cleaned" /\ next = "done"
    PROVE  CheckInv'
<1>. DEFINE row == [actor[a] EXCEPT !.phase = next]
<1>1. actor' = [actor EXCEPT ![a] = row]
  BY DEF Step, CheckInv, ActorsOK
<1>2. /\ DOMAIN row = {"phase", "nth", "made", "ok"} /\ row.phase = next /\ row.nth = actor[a].nth
      /\ (row.made <=> actor[a].made) /\ (row.ok <=> actor[a].ok)
  BY DEF CheckInv, ActorsOK
<1>3. row.phase \in Phases /\ actor[a].phase \in Alive /\ "adopts" \in DOMAIN setup'
  BY <1>2 DEF Phases, Alive, CheckInv, ActorsOK
<1>. HIDE DEF row
<1>4. actor'[a] = row
  BY <1>1 DEF CheckInv, ActorsOK
<1>5. TreesOK' /\ Gentle
  BY TreesStay, NothingMoves
<1>6. Stored(a)'
  <2>1. Counts(a)' => Counts(a)
    BY <1>2, <1>4 DEF Counts
  <2>2. Edit(a) \in EditsOn(BranchOf(a)) => (Edit(a) \in EditsOn(BranchOf(a)))'
    BY <1>2, <1>4, <1>5, Keeps
  <2> QED BY <1>2, <1>4, <2>1, <2>2 DEF CheckInv, Stored
<1> QED BY <1>1, <1>2, <1>3, <1>5, <1>6, StepHolds

LEMMA CrashStored == ASSUME CheckInv, Crash PROVE CheckInv'
<1>1. UNCHANGED <<tree, local, remote>> /\ setup'.adopts = setup.adopts /\ "adopts" \in DOMAIN setup'
  BY DEF Crash, CheckInv, ActorsOK
<1>2. actor' = [a \in Actors |-> IF actor[a].phase \in Alive THEN [actor[a] EXCEPT !.phase = "idle"] ELSE actor[a]]
  BY DEF Crash
<1>3. ASSUME NEW a \in Actors
      PROVE  /\ DOMAIN actor'[a] = {"phase", "nth", "made", "ok"} /\ actor'[a].phase \in Phases \ Alive
             /\ actor'[a] = actor[a] \/ actor'[a].phase = "idle"
  <2>1. DOMAIN actor[a] = {"phase", "nth", "made", "ok"} /\ actor[a].phase \in Phases
    BY DEF CheckInv, ActorsOK
  <2>2. CASE actor[a].phase \in Alive
    <3>1. actor'[a] = [actor[a] EXCEPT !.phase = "idle"]
      BY <1>2, <2>2
    <3> QED BY <2>1, <3>1 DEF Phases, Alive
  <2>3. CASE actor[a].phase \notin Alive
    BY <1>2, <2>1, <2>3
  <2> QED BY <2>2, <2>3
<1>4. ActorsOK'
  <2>1. DOMAIN actor' = Actors
    BY <1>2
  <2>2. \A f, g \in Fixers : actor'[f].phase \in Alive /\ actor'[g].phase \in Alive => f = g
    BY <1>3 DEF Actors
  <2> QED BY <1>1, <1>3, <2>1, <2>2 DEF ActorsOK
<1>5. ASSUME NEW a \in Actors PROVE Stored(a)'
  <2>1. CASE actor'[a] = actor[a]
    <3>1. BranchOf(a)' = BranchOf(a) /\ Edit(a)' = Edit(a) /\ (Counts(a)' <=> Counts(a))
      BY <1>1, <2>1 DEF BranchOf, WorkerBranch, Edit, Counts
    <3>2. (EditsOn(BranchOf(a)))' = EditsOn(BranchOf(a)) /\ Stored(a) /\ actor'[a].phase \notin Alive
      BY <1>1, <1>3, <3>1 DEF EditsOn, CheckInv
    <3> QED BY <2>1, <3>1, <3>2 DEF Stored, Alive
  <2>2. CASE actor'[a].phase = "idle"
    BY <2>2 DEF Stored
  <2> QED BY <1>3, <2>1, <2>2
<1> QED BY <1>1, <1>4, <1>5, TreesStay DEF CheckInv

\* Of looper's checkouts, in a project where git does not ignore .looper
\* (worker.rs 829-855, fixer.rs 728-870): what is called done has been
\* delivered, for any number of fixers, attempts, failures and crashes.
THEOREM WorkIsDelivered ==
    ASSUME Ignored = FALSE
    PROVE  CheckoutsInit /\ [][CheckoutsNext]_checkVars => []DoneIsDelivered
<1>1. CheckoutsInit => CheckInv
  <2>. SUFFICES ASSUME CheckoutsInit PROVE CheckInv
    OBVIOUS
  <2>1. TreesOK
    BY Names DEF CheckoutsInit, TreesOK, NoDir, Heads, SpecCommit
  <2>2. ActorsOK /\ \A a \in Actors : Stored(a)
    BY DEF CheckoutsInit, ActorsOK, Stored, Counts, Phases, Alive, Actors
  <2> QED BY <2>1, <2>2 DEF CheckInv
<1>2. CheckInv /\ [CheckoutsNext]_checkVars => CheckInv'
  <2>. SUFFICES ASSUME CheckInv, [CheckoutsNext]_checkVars PROVE CheckInv'
    OBVIOUS
  <2>0. Fixers \subseteq Actors /\ "worker" \in Actors /\ "worker" \notin Fixers
    BY Names DEF Actors
  <2>1. ASSUME NEW a \in Actors, NEW fails \in BOOLEAN,
               PrepareWorktree(a, fails) \/ StartAgent(a, fails) \/ AgentEnds(a, fails)
        PROVE  CheckInv'
    BY <2>1, PrepareStored, StartStored, AgentEndsStored
  <2>2. ASSUME NEW f \in Fixers, NEW fails \in BOOLEAN,
               FixerPushes(f, fails) \/ FixerCommits(f, fails) \/ FixerRechecks(f, fails)
        PROVE  CheckInv'
    BY <2>0, <2>2, PushStored, CommitStored DEF FixerPushes, FixerCommits, FixerRechecks
  <2>3. ASSUME NEW fails \in BOOLEAN, Validate(~fails) \/ WorkerCommits(fails) \/ WorkerPushes(fails)
        PROVE  CheckInv'
    BY <2>0, <2>3, ValidateStored, PushStored, CommitStored DEF WorkerCommits, WorkerPushes
  <2>4. CASE WorkerCleans
    <3>1. CASE setup.adopts
      BY <2>0, <2>4, <3>1, PhaseStored DEF WorkerCleans
    <3>2. CASE ~setup.adopts
      <4>1. WorkerDir = "own" /\ "own" \in Dirs
        BY <3>2 DEF WorkerDir, DirNamed, Dirs
      <4>2. RemoveWorktree("own")
        BY <2>4, <3>2, <4>1 DEF WorkerCleans
      <4> QED BY <2>0, <2>4, <3>2, <4>1, <4>2, RemovalStored DEF WorkerCleans
    <3> QED BY <3>1, <3>2
  <2>5. ASSUME NEW f \in Fixers, FixerCleans(f) PROVE CheckInv'
    <3>1. FixerDir = "pr" /\ "pr" \in Dirs /\ f \in Actors /\ f # "worker"
      BY <2>0 DEF FixerDir, DirNamed, Dirs
    <3>2. RemoveWorktree("pr")
      BY <2>5, <3>1 DEF FixerCleans
    <3> QED BY <2>5, <3>1, <3>2, RemovalStored DEF FixerCleans
  <2>6. ASSUME NEW a \in Actors, Finish(a) PROVE CheckInv'
    BY <2>6, PhaseStored DEF Finish
  <2>7. CASE UNCHANGED checkVars
    BY <2>7 DEF checkVars, CheckInv, TreesOK, ActorsOK, Stored, Counts, Held, Committed, Replaced, HeadIn,
                Edit, EditsOn, BranchOf, DirOf, WorkerDir, WorkerBranch, DirNamed, FixerDir
  <2> QED BY <2>1, <2>2, <2>3, <2>4, <2>5, <2>6, <2>7, CrashStored DEF CheckoutsNext
<1>3. CheckInv => DoneIsDelivered
  BY DEF CheckInv, Stored, Counts, DoneIsDelivered
<1> QED BY <1>1, <1>2, <1>3, PTL

-----------------------------------------------------------------------------
(* Anchors *)

PathNames == {Files[n] : n \in 1 .. Len(Files)} \cup {NoPath, "++"}
RangeRow == [path : PathNames, start : Int, end : Int]
FoundLine == [path : {"full_diff"}, line : Int, file : PathNames, true : Int, slips : Nat, plain : BOOLEAN]

TextRow == [file : 0 .. Len(Files), gone : BOOLEAN, hunks : Nat, hunk : Nat, lines : Nat, line : Int,
            slips : Nat, headers : Nat, strayed : BOOLEAN]

AnchorsTypeInv ==
    /\ text \in TextRow
    /\ index \in [path : PathNames, open : Seq(RangeRow), closed : SUBSET RangeRow]
    /\ added \in [line : Int, found : Seq(FoundLine)]

\* Both readers in step.  The criteria's number is the true one and the slips of the
\* hunk.  In a file that stays, and until an added line reads as a path, the first
\* open range is the first hunk's; it lags behind by the lines that read as headers.
ReadersAgree ==
    text.file > 0 =>
        /\ text.hunk > 0 => added.line = text.line + text.slips
        /\ ~text.gone =>
            /\ text.line > 0
            /\ ~text.strayed =>
                /\ index.path = Files[text.file]
                /\ text.hunk = 0 => index.open = <<>>
                /\ text.hunk = 1 => /\ index.open # <<>>
                                    /\ index.open[1].path = Files[text.file]
                                    /\ index.open[1].start <= text.line
                                    /\ index.open[1].end + text.headers = text.line

Anchored(e) == e.line = e.true + e.slips /\ (e.plain => ValidateAnchor(e.file, e.true))

AnchorsInv ==
    /\ AnchorsTypeInv
    /\ text.file = 0 => text.hunk = 0 /\ index.open = <<>>
    /\ ReadersAgree
    /\ \A n \in 1 .. Len(added.found) : Anchored(added.found[n])

\* Every range that is there stays, or grows: what can be anchored stays so.
RangesGrow ==
    \A r \in index.closed \cup Range(index.open) :
        \E q \in index'.closed \cup Range(index'.open) :
            q.path = r.path /\ q.start = r.start /\ q.end >= r.end

LEMMA AnchorStays ==
    ASSUME AnchorsTypeInv, AnchorsTypeInv', RangesGrow, NEW path, NEW line \in Int, ValidateAnchor(path, line)
    PROVE  ValidateAnchor(path, line)'
<1>1. PICK r \in index.closed \cup Range(index.open) : r.path = path /\ line \in r.start .. r.end
  BY DEF ValidateAnchor
<1>2. PICK q \in index'.closed \cup Range(index'.open) :
          q.path = r.path /\ q.start = r.start /\ q.end >= r.end
  BY DEF RangesGrow
<1>3. r \in RangeRow /\ q \in RangeRow
  <2>1. index.closed \subseteq RangeRow /\ index'.closed \subseteq RangeRow
    BY DEF AnchorsTypeInv
  <2>2. Range(index.open) \subseteq RangeRow /\ Range(index'.open) \subseteq RangeRow
    BY DEF AnchorsTypeInv, Range
  <2> QED BY <1>1, <1>2, <2>1, <2>2
<1>4. line \in q.start .. q.end
  BY <1>1, <1>2, <1>3 DEF RangeRow
<1> QED BY <1>1, <1>2, <1>4 DEF ValidateAnchor

\* One column at a time.
LEMMA TextColumns ==
    ASSUME NEW r \in TextRow
    PROVE  /\ \A n \in 0 .. Len(Files) : [r EXCEPT !.file = n] \in TextRow
           /\ \A n \in Nat : /\ [r EXCEPT !.hunk = n] \in TextRow /\ [r EXCEPT !.hunks = n] \in TextRow
                             /\ [r EXCEPT !.lines = n] \in TextRow /\ [r EXCEPT !.slips = n] \in TextRow
                             /\ [r EXCEPT !.headers = n] \in TextRow
           /\ \A n \in Int : [r EXCEPT !.line = n] \in TextRow
           /\ \A v \in BOOLEAN : [r EXCEPT !.gone = v] \in TextRow /\ [r EXCEPT !.strayed = v] \in TextRow
           /\ DOMAIN r = {"file", "gone", "hunks", "hunk", "lines", "line", "slips", "headers", "strayed"}
<1>1. \A n \in 0 .. Len(Files) : [r EXCEPT !.file = n] \in TextRow
  BY DEF TextRow
<1>2. \A n \in Nat : [r EXCEPT !.hunk = n] \in TextRow
  BY DEF TextRow
<1>3. \A n \in Nat : [r EXCEPT !.hunks = n] \in TextRow
  BY DEF TextRow
<1>4. \A n \in Nat : [r EXCEPT !.lines = n] \in TextRow
  BY DEF TextRow
<1>5. \A n \in Int : [r EXCEPT !.line = n] \in TextRow
  BY DEF TextRow
<1>6. \A v \in BOOLEAN : [r EXCEPT !.gone = v] \in TextRow /\ [r EXCEPT !.strayed = v] \in TextRow
  BY DEF TextRow
<1>7. \A n \in Nat : [r EXCEPT !.slips = n] \in TextRow
  BY DEF TextRow
<1>8. \A n \in Nat : [r EXCEPT !.headers = n] \in TextRow
  BY DEF TextRow
<1>9. DOMAIN r = {"file", "gone", "hunks", "hunk", "lines", "line", "slips", "headers", "strayed"}
  BY DEF TextRow
<1> QED BY <1>1, <1>2, <1>3, <1>4, <1>5, <1>6, <1>7, <1>8, <1>9

\* The three ways in which a step of the diff changes the index.
LEMMA PathRead ==
    ASSUME AnchorsTypeInv, NEW path \in PathNames, ReadPath(path)
    PROVE  /\ index' \in [path : PathNames, open : Seq(RangeRow), closed : SUBSET RangeRow]
           /\ index'.path = path /\ index'.open = <<>> /\ RangesGrow
<1>1. index.closed \cup Range(index.open) \subseteq RangeRow
  BY DEF AnchorsTypeInv, TextRow, Range
<1>2. index'.path = path /\ index'.open = <<>> /\ index'.closed = index.closed \cup Range(index.open)
  BY DEF ReadPath
<1>3. \A r \in index.closed \cup Range(index.open) : r \in index'.closed /\ r.end >= r.end
  BY <1>1, <1>2 DEF RangeRow
<1> QED BY <1>1, <1>2, <1>3 DEF ReadPath, RangesGrow

LEMMA HunkRead ==
    ASSUME AnchorsTypeInv, NEW start \in Int, ReadHunk(start)
    PROVE  /\ index' \in [path : PathNames, open : Seq(RangeRow), closed : SUBSET RangeRow]
           /\ index'.path = index.path
           /\ index'.open = Append(index.open, [path |-> index.path, start |-> start, end |-> start])
           /\ RangesGrow /\ index'.open # <<>>
           /\ index.open # <<>> => index'.open[1] = index.open[1]
<1>. DEFINE new == [path |-> index.path, start |-> start, end |-> start]
<1>1. index.open \in Seq(RangeRow) /\ new \in RangeRow /\ index.closed \subseteq RangeRow
  BY DEF AnchorsTypeInv, TextRow, RangeRow
<1>2. index' = [index EXCEPT !.open = Append(index.open, new)]
  BY DEF ReadHunk
<1>. HIDE DEF new
<1>3. index'.open = Append(index.open, new) /\ index'.path = index.path /\ index'.closed = index.closed
      /\ index' \in [path : PathNames, open : Seq(RangeRow), closed : SUBSET RangeRow]
  <2>1. Append(index.open, new) \in Seq(RangeRow)
    BY <1>1
  <2> QED BY <2>1, <1>1, <1>2 DEF AnchorsTypeInv, TextRow
<1>4. Range(index.open) \subseteq Range(index'.open)
  BY <1>1, <1>3 DEF Range
<1>5. \A r \in index.closed \cup Range(index.open) : r \in RangeRow
  BY <1>1 DEF Range
<1>6. index'.open # <<>> /\ (index.open # <<>> => index'.open[1] = index.open[1])
  <2>1. /\ Len(index.open) \in Nat /\ (index.open # <<>> => Len(index.open) # 0)
        /\ Len(index'.open) = Len(index.open) + 1
        /\ \A n \in 1 .. Len(index.open) : index'.open[n] = index.open[n]
    BY <1>1, <1>3, AppendProperties, LenProperties, EmptySeq
  <2>2. index.open # <<>> => 1 \in 1 .. Len(index.open)
    BY <2>1
  <2>3. index'.open # <<>>
    BY <2>1
  <2> QED BY <2>1, <2>2, <2>3
<1> QED BY <1>3, <1>4, <1>5, <1>6 DEF RangesGrow, new, RangeRow

LEMMA LineRead ==
    ASSUME AnchorsTypeInv, index' = [index EXCEPT !.open = GrowFirst]
    PROVE  /\ index' \in [path : PathNames, open : Seq(RangeRow), closed : SUBSET RangeRow]
           /\ index'.path = index.path /\ Len(index'.open) = Len(index.open)
           /\ index.open # <<>> =>
                 /\ index'.open[1].path = index.open[1].path
                 /\ index'.open[1].start = index.open[1].start
                 /\ index'.open[1].end = index.open[1].end + 1
           /\ RangesGrow
<1>1. index.open \in Seq(RangeRow) /\ index.closed \subseteq RangeRow
  BY DEF AnchorsTypeInv, TextRow
<1>2. CASE index.open = <<>>
  <2>1. index' = index
    BY <1>2 DEF GrowFirst, AnchorsTypeInv, TextRow
  <2>2. \A r \in index.closed \cup Range(index.open) : r \in RangeRow
    BY <1>1, <1>2 DEF Range
  <2> QED BY SMTT(30), <1>2, <2>1, <2>2 DEF RangesGrow, RangeRow, AnchorsTypeInv, TextRow
<1>3. CASE index.open # <<>>
  <2>1. index'.open = [index.open EXCEPT ![1].end = @ + 1] /\ index'.path = index.path
        /\ index'.closed = index.closed
    BY <1>3 DEF GrowFirst, AnchorsTypeInv, TextRow
  <2>2. 1 \in DOMAIN index.open /\ index.open[1] \in RangeRow
    BY <1>1, <1>3
  <2>3. /\ index'.open[1].path = index.open[1].path /\ index'.open[1].start = index.open[1].start
        /\ index'.open[1].end = index.open[1].end + 1 /\ index'.open[1] \in RangeRow
    BY <2>1, <2>2 DEF RangeRow
  <2>4. \A n \in DOMAIN index.open : n # 1 => index'.open[n] = index.open[n]
    BY <2>1
  <2>5. DOMAIN index'.open = DOMAIN index.open /\ Len(index'.open) = Len(index.open)
        /\ index'.open \in Seq(RangeRow)
    <3>1. DOMAIN index'.open = 1 .. Len(index.open) /\ Len(index.open) \in Nat
      BY <1>1, <2>1
    <3>2. \A n \in 1 .. Len(index.open) : index'.open[n] \in RangeRow
      BY <1>1, <2>3, <2>4
    <3>3. index'.open = [n \in 1 .. Len(index.open) |-> index'.open[n]]
      BY <2>1, <1>1
    <3> QED BY <3>1, <3>2, <3>3, <1>1
  <2>6. ASSUME NEW r \in index.closed \cup Range(index.open)
        PROVE  \E q \in index'.closed \cup Range(index'.open) :
                  q.path = r.path /\ q.start = r.start /\ q.end >= r.end
    <3>1. CASE r \in index.closed
      BY <3>1, <1>1, <2>1 DEF RangeRow
    <3>2. CASE r \in Range(index.open)
      <4>1. PICK n \in DOMAIN index.open : r = index.open[n]
        BY <3>2 DEF Range
      <4>2. index'.open[n] \in Range(index'.open)
        BY <2>5, <4>1 DEF Range
      <4>3. index.open[n] \in RangeRow
        BY <1>1, <4>1
      <4> QED BY <4>1, <4>2, <4>3, <2>2, <2>3, <2>4 DEF RangeRow
    <3> QED BY <3>1, <3>2
  <2>7. index' \in [path : PathNames, open : Seq(RangeRow), closed : SUBSET RangeRow]
    BY <2>1, <2>5, <1>3 DEF GrowFirst, AnchorsTypeInv, TextRow
  <2> QED BY <2>1, <2>3, <2>5, <2>6, <2>7 DEF RangesGrow
<1> QED BY <1>2, <1>3
\* Evidence that has been found stays where it can be anchored.
LEMMA FoundStays ==
    ASSUME AnchorsInv, AnchorsTypeInv', RangesGrow, NEW n \in 1 .. Len(added.found), NEW e, e = added.found[n]
    PROVE  e.line = e.true + e.slips /\ (e.plain => ValidateAnchor(e.file, e.true)')
<1>1. e \in FoundLine /\ Anchored(e) /\ AnchorsTypeInv
  BY DEF AnchorsInv, AnchorsTypeInv
<1>2. e.true \in Int
  BY <1>1 DEF FoundLine
<1> QED BY <1>1, <1>2, AnchorStays DEF Anchored

LEMMA FileHeaderSound == ASSUME AnchorsInv, NEW gone \in BOOLEAN, FileHeader(gone) PROVE AnchorsInv'
<1>1. Files \in Seq(STRING) /\ text.file + 1 \in 1 .. Len(Files) /\ Files[text.file + 1] \in PathNames
  BY SMTT(30), AnchorsAssumption DEF FileHeader, AnchorsInv, AnchorsTypeInv, TextRow, PathNames
<1>2. /\ text' \in TextRow
      /\ text'.file = text.file + 1 /\ text'.gone = gone /\ text'.hunk = 0 /\ text'.line = 1
      /\ ~text'.strayed
  <2>1. text' = [text EXCEPT !.file = text.file + 1, !.gone = gone, !.hunk = 0, !.line = 1, !.strayed = FALSE]
    BY DEF FileHeader
  <2>2. text \in TextRow /\ text.file + 1 \in 0 .. Len(Files)
    BY <1>1 DEF AnchorsInv, AnchorsTypeInv, TextRow
  <2>. DEFINE t1 == [text EXCEPT !.file = text.file + 1]
               t2 == [t1 EXCEPT !.gone = gone]
               t3 == [t2 EXCEPT !.hunk = 0]
               t4 == [t3 EXCEPT !.line = 1]
  <2>4. t1 \in TextRow
    BY <2>2, TextColumns
  <2>5. t2 \in TextRow
    BY <2>4, TextColumns
  <2>6. t3 \in TextRow
    BY <2>5, TextColumns
  <2>7. t4 \in TextRow
    <3>. HIDE DEF t3
    <3> QED BY <2>6, TextColumns
  <2>8. [t4 EXCEPT !.strayed = FALSE] \in TextRow
    <3>. HIDE DEF t4
    <3> QED BY <2>7, TextColumns
  <2>9. text' = [t4 EXCEPT !.strayed = FALSE]
    BY <2>1
  <2>10. DOMAIN text = {"file", "gone", "hunks", "hunk", "lines", "line", "slips", "headers", "strayed"}
    BY <2>2, TextColumns
  <2> QED BY <2>1, <2>8, <2>9, <2>10
<1>3. /\ index' \in [path : PathNames, open : Seq(RangeRow), closed : SUBSET RangeRow]
      /\ RangesGrow
      /\ ~gone => index'.path = Files[text.file + 1] /\ index'.open = <<>>
  BY <1>1, PathRead, LineRead DEF FileHeader, AnchorsInv
<1>4. AnchorsTypeInv'
  BY <1>2, <1>3 DEF FileHeader, AnchorsInv, AnchorsTypeInv, TextRow
<1>5. text'.file # 0 /\ ReadersAgree'
  BY SMTT(30), <1>1, <1>2, <1>3 DEF ReadersAgree, AnchorsInv, AnchorsTypeInv, TextRow
<1>6. ASSUME NEW n \in 1 .. Len(added'.found) PROVE Anchored(added.found[n])'
  <2>1. added' = added
    BY DEF FileHeader
  <2> QED BY <2>1, <1>3, <1>4, <1>6, FoundStays DEF Anchored
<1> QED BY <1>4, <1>5, <1>6 DEF AnchorsInv

LEMMA HunkHeaderSound == ASSUME AnchorsInv, NEW gap \in {0, 2}, HunkHeader(gap) PROVE AnchorsInv'
<1>. DEFINE start == IF text.gone THEN 0 ELSE text.line + gap
<1>1. start \in Int /\ (~text.gone => start >= text.line)
  BY DEF AnchorsInv, AnchorsTypeInv, TextRow
<1>2. ReadHunk(start) /\ text.file > 0 /\ (text.gone => text.hunk = 0)
      /\ text' = [text EXCEPT !.hunks = @ + 1, !.hunk = @ + 1, !.line = start, !.slips = 0, !.headers = 0]
      /\ added' = [added EXCEPT !.line = start]
  BY DEF HunkHeader
<1>. HIDE DEF start
<1>3. /\ text' \in TextRow
      /\ text'.file = text.file /\ text'.gone = text.gone /\ text'.hunk = text.hunk + 1
      /\ text'.line = start /\ text'.slips = 0 /\ text'.headers = 0 /\ text'.strayed = text.strayed
  <2>1. text \in TextRow
    BY DEF AnchorsInv, AnchorsTypeInv, TextRow
  <2>2. text' = [text EXCEPT !.hunks = text.hunks + 1, !.hunk = text.hunk + 1, !.line = start,
                             !.slips = 0, !.headers = 0]
    BY <1>2
  <2>. DEFINE t1 == [text EXCEPT !.hunks = text.hunks + 1]
               t2 == [t1 EXCEPT !.hunk = text.hunk + 1]
               t3 == [t2 EXCEPT !.line = start]
               t4 == [t3 EXCEPT !.slips = 0]
  <2>4. text.hunks + 1 \in Nat /\ text.hunk + 1 \in Nat
    BY <2>1 DEF TextRow
  <2>5. t1 \in TextRow
    BY <2>1, <2>4, TextColumns
  <2>6. t2 \in TextRow
    BY <2>4, <2>5, TextColumns
  <2>7. t3 \in TextRow
    <3>. HIDE DEF t2
    <3> QED BY <1>1, <2>6, TextColumns
  <2>8. t4 \in TextRow
    <3>. HIDE DEF t3
    <3> QED BY <2>7, TextColumns
  <2>9. [t4 EXCEPT !.headers = 0] \in TextRow
    <3>. HIDE DEF t4
    <3> QED BY <2>8, TextColumns
  <2>10. text' = [t4 EXCEPT !.headers = 0]
    BY <2>2
  <2>11. DOMAIN text = {"file", "gone", "hunks", "hunk", "lines", "line", "slips", "headers", "strayed"}
    BY <2>1, TextColumns
  <2> QED BY <2>2, <2>9, <2>10, <2>11
<1>4. /\ index' \in [path : PathNames, open : Seq(RangeRow), closed : SUBSET RangeRow]
      /\ RangesGrow /\ index'.path = index.path
      /\ index'.open = Append(index.open, [path |-> index.path, start |-> start, end |-> start])
  BY <1>1, <1>2, HunkRead DEF AnchorsInv
<1>5. added'.line = start /\ added'.found = added.found /\ AnchorsTypeInv'
  BY <1>1, <1>2, <1>3, <1>4 DEF AnchorsInv, AnchorsTypeInv, TextRow
<1>6. ReadersAgree'
  <2>0. ReadersAgree /\ text.line \in Int /\ text.hunk \in Nat
    BY DEF AnchorsInv, AnchorsTypeInv, TextRow
  <2>1. added'.line = text'.line + text'.slips
    BY <1>1, <1>3, <1>5
  <2>2. ~text.gone => text'.line > 0
    BY <1>1, <1>2, <1>3, <2>0 DEF ReadersAgree
  <2>3. ~text.gone /\ ~text.strayed => index'.path = Files[text'.file]
    BY <1>2, <1>3, <1>4, <2>0 DEF ReadersAgree
  <2>4. ASSUME ~text.gone, ~text.strayed, text'.hunk = 1
        PROVE  /\ index'.open # <<>> /\ index'.open[1].path = Files[text'.file]
               /\ index'.open[1].start <= text'.line
               /\ index'.open[1].end + text'.headers = text'.line
    <3>1. index.open = <<>> /\ index.path = Files[text.file]
      BY <1>2, <1>3, <2>0, <2>4 DEF ReadersAgree
    <3>2. /\ index'.open # <<>> /\ index'.open[1].path = Files[text.file]
          /\ index'.open[1].start = start /\ index'.open[1].end = start
      BY <1>4, <3>1
    <3> QED BY <1>1, <1>3, <3>2
  <2>5. text'.hunk # 0
    BY <1>3, <2>0
  <2> QED BY <1>3, <2>1, <2>2, <2>3, <2>4, <2>5 DEF ReadersAgree
<1>7. ASSUME NEW n \in 1 .. Len(added'.found) PROVE Anchored(added.found[n])'
  BY <1>4, <1>5, <1>7, FoundStays DEF Anchored
<1> QED BY <1>2, <1>3, <1>5, <1>6, <1>7 DEF AnchorsInv

LEMMA BodyText ==
    ASSUME AnchorsInv, NEW sign \in Signs, NEW matches \in BOOLEAN, BodyLine(sign, matches)
    PROVE  /\ text' \in TextRow /\ text \in TextRow /\ text.hunk > 0 /\ text.file > 0
           /\ text'.file = text.file /\ text'.gone = text.gone /\ text'.hunk = text.hunk
           /\ text'.line = IF sign \in {"context", "likeHunk", "added", "likePath"} THEN text.line + 1 ELSE text.line
           /\ text'.slips = IF sign \in {"likeOldPath", "noNewline"} THEN text.slips + 1 ELSE text.slips
           /\ text'.headers = IF sign = "likeHunk" THEN text.headers + 1 ELSE text.headers
           /\ text'.strayed <=> text.strayed \/ sign = "likePath"
<1>. DEFINE next == IF sign \in {"context", "likeHunk", "added", "likePath"} THEN text.line + 1 ELSE text.line
            slip == IF sign \in {"likeOldPath", "noNewline"} THEN text.slips + 1 ELSE text.slips
            like == IF sign = "likeHunk" THEN text.headers + 1 ELSE text.headers
            off == text.strayed \/ sign = "likePath"
            t1 == [text EXCEPT !.lines = text.lines + 1]
            t2 == [t1 EXCEPT !.line = next]
            t3 == [t2 EXCEPT !.slips = slip]
            t4 == [t3 EXCEPT !.headers = like]
<1>1. text \in TextRow /\ text.hunk > 0 /\ text.file > 0
  BY DEF BodyLine, AnchorsInv, AnchorsTypeInv, TextRow
<1>2. /\ text.lines + 1 \in Nat /\ next \in Int /\ slip \in Nat /\ like \in Nat /\ off \in BOOLEAN
  BY <1>1 DEF TextRow
<1>3. text' = [text EXCEPT !.lines = text.lines + 1, !.line = next, !.slips = slip, !.headers = like,
                           !.strayed = off]
  BY DEF BodyLine
<1>. HIDE DEF next, slip, like, off
<1>4. t1 \in TextRow
  BY <1>1, <1>2, TextColumns
<1>5. t2 \in TextRow
  BY <1>2, <1>4, TextColumns
<1>6. t3 \in TextRow
  <2>. HIDE DEF t2
  <2> QED BY <1>2, <1>5, TextColumns
<1>7. t4 \in TextRow
  <2>. HIDE DEF t3
  <2> QED BY <1>2, <1>6, TextColumns
<1>8. [t4 EXCEPT !.strayed = off] \in TextRow
  <2>. HIDE DEF t4
  <2> QED BY <1>2, <1>7, TextColumns
<1>9. text' = [t4 EXCEPT !.strayed = off]
  BY <1>3
<1>10. DOMAIN text = {"file", "gone", "hunks", "hunk", "lines", "line", "slips", "headers", "strayed"}
  BY <1>1, TextColumns
<1>11. /\ text'.file = text.file /\ text'.gone = text.gone /\ text'.hunk = text.hunk
       /\ text'.line = next /\ text'.slips = slip /\ text'.headers = like /\ text'.strayed = off
  BY <1>3, <1>10
<1> QED BY <1>1, <1>8, <1>9, <1>11 DEF next, slip, like, off

\* What a line does to the index; the first open range grows with it or lags behind.
LEMMA BodyIndex ==
    ASSUME AnchorsInv, NEW sign \in Signs, NEW matches \in BOOLEAN, BodyLine(sign, matches)
    PROVE  /\ index' \in [path : PathNames, open : Seq(RangeRow), closed : SUBSET RangeRow]
           /\ RangesGrow
           /\ sign # "likePath" => index'.path = index.path
           /\ sign # "likePath" /\ index.open # <<>> =>
                 /\ index'.open # <<>>
                 /\ index.open[1] \in RangeRow
                 /\ index'.open[1].path = index.open[1].path
                 /\ index'.open[1].start = index.open[1].start
                 /\ index'.open[1].end = IF sign \in {"context", "added"} THEN index.open[1].end + 1 ELSE index.open[1].end
<1>0. AnchorsTypeInv /\ index \in [path : PathNames, open : Seq(RangeRow), closed : SUBSET RangeRow]
  BY DEF AnchorsInv, AnchorsTypeInv
<1>1. index.open # <<>> => index.open[1] \in RangeRow
  BY <1>0
<1>2. CASE sign = "likePath"
  <2>1. ReadPath("++") /\ "++" \in PathNames
    BY <1>2 DEF BodyLine, ReadBody, PathNames
  <2> QED BY <1>0, <1>2, <2>1, PathRead
<1>3. CASE sign = "likeHunk"
  <2>1. ReadHunk(1) /\ 1 \in Int
    BY <1>3 DEF BodyLine, ReadBody
  <2> QED BY <1>0, <1>1, <1>3, <2>1, HunkRead
<1>4. CASE sign \in {"context", "added"}
  <2>1. index' = [index EXCEPT !.open = GrowFirst]
    BY <1>4 DEF BodyLine, ReadBody
  <2>2. index.open # <<>> => index'.open # <<>>
    BY <1>0, <2>1, LineRead
  <2> QED BY <1>0, <1>1, <1>4, <2>1, <2>2, LineRead
<1>5. CASE sign \in {"removed", "likeOldPath", "noNewline"}
  <2>1. index' = index
    BY <1>5 DEF BodyLine, ReadBody
  <2>2. \A r \in index.closed \cup Range(index.open) : r \in RangeRow
    BY <1>0 DEF Range
  <2>3. RangesGrow
    BY <2>1, <2>2 DEF RangesGrow, RangeRow
  <2> QED BY <1>0, <1>1, <1>5, <2>1, <2>3
<1> QED BY <1>2, <1>3, <1>4, <1>5 DEF Signs

LEMMA BodyAgrees ==
    ASSUME AnchorsInv, NEW sign \in Signs, NEW matches \in BOOLEAN, BodyLine(sign, matches)
    PROVE  ReadersAgree'
<1>1. /\ ReadersAgree /\ text \in TextRow
      /\ text.gone => sign \in {"removed", "likeOldPath", "noNewline"}
      /\ added.line \in Int
  BY DEF AnchorsInv, AnchorsTypeInv, BodyLine
<1>2. /\ text.hunk > 0 /\ text.file > 0
      /\ text'.file = text.file /\ text'.gone = text.gone /\ text'.hunk = text.hunk
      /\ text'.line = IF sign \in {"context", "likeHunk", "added", "likePath"} THEN text.line + 1 ELSE text.line
      /\ text'.slips = IF sign \in {"likeOldPath", "noNewline"} THEN text.slips + 1 ELSE text.slips
      /\ text'.headers = IF sign = "likeHunk" THEN text.headers + 1 ELSE text.headers
      /\ text'.strayed <=> text.strayed \/ sign = "likePath"
  BY BodyText
<1>3. text.line \in Int /\ text.slips \in Nat /\ text.headers \in Nat /\ text.hunk \in Nat
  BY <1>1 DEF TextRow
<1>4. added'.line = text'.line + text'.slips
  <2>1. added.line = text.line + text.slips
    BY <1>1, <1>2 DEF ReadersAgree
  <2>2. added'.line = IF sign # "removed" THEN added.line + 1 ELSE added.line
    BY DEF BodyLine, CollectBody, Counted
  <2>3. CASE sign \in {"context", "likeHunk", "added", "likePath"}
    BY <1>2, <1>3, <2>1, <2>2, <2>3
  <2>4. CASE sign \in {"likeOldPath", "noNewline"}
    BY <1>2, <1>3, <2>1, <2>2, <2>4
  <2>5. CASE sign = "removed"
    BY <1>2, <1>3, <2>1, <2>2, <2>5
  <2> QED BY <2>3, <2>4, <2>5 DEF Signs
<1>5. ~text.gone => text.line > 0 /\ text'.line > 0
  BY <1>1, <1>2, <1>3 DEF ReadersAgree
<1>6. ASSUME ~text'.gone, ~text'.strayed PROVE index'.path = Files[text'.file]
  BY <1>1, <1>2, <1>6, BodyIndex DEF ReadersAgree
<1>7. ASSUME ~text'.gone, ~text'.strayed, text'.hunk = 1
      PROVE  /\ index'.open # <<>> /\ index'.open[1].path = Files[text'.file]
             /\ index'.open[1].start <= text'.line
             /\ index'.open[1].end + text'.headers = text'.line
  <2>1. /\ index.open # <<>> /\ index.open[1].path = Files[text.file] /\ index.open[1].start <= text.line
        /\ index.open[1].end + text.headers = text.line /\ sign # "likePath"
    BY <1>1, <1>2, <1>7 DEF ReadersAgree
  <2>2. /\ index'.open # <<>> /\ index.open[1] \in RangeRow
        /\ index'.open[1].path = index.open[1].path
        /\ index'.open[1].start = index.open[1].start
        /\ index'.open[1].end = IF sign \in {"context", "added"} THEN index.open[1].end + 1 ELSE index.open[1].end
    BY <2>1, BodyIndex
  <2>3. index.open[1].start \in Int /\ index.open[1].end \in Int
    BY <2>2 DEF RangeRow
  <2>4. index'.open[1].start <= text'.line
    BY <1>2, <1>3, <2>1, <2>2, <2>3
  <2>5. CASE sign \in {"context", "added"}
    BY <1>2, <1>3, <2>1, <2>2, <2>3, <2>4, <2>5
  <2>6. CASE sign = "likeHunk"
    BY <1>2, <1>3, <2>1, <2>2, <2>3, <2>4, <2>6
  <2>7. CASE sign \in {"removed", "likeOldPath", "noNewline"}
    BY <1>2, <1>3, <2>1, <2>2, <2>3, <2>4, <2>7
  <2> QED BY <2>1, <2>5, <2>6, <2>7 DEF Signs
<1>8. text'.hunk # 0
  BY <1>2, <1>3
<1> QED BY <1>2, <1>4, <1>5, <1>6, <1>7, <1>8 DEF ReadersAgree

LEMMA BodyLineSound ==
    ASSUME AnchorsInv, NEW sign \in Signs, NEW matches \in BOOLEAN, BodyLine(sign, matches)
    PROVE  AnchorsInv'
<1>1. /\ text.hunk > 0 /\ text.file > 0 /\ text.file \in 1 .. Len(Files) /\ Files[text.file] \in PathNames
      /\ text \in TextRow /\ index \in [path : PathNames, open : Seq(RangeRow), closed : SUBSET RangeRow]
      /\ added.line \in Int /\ added.found \in Seq(FoundLine)
  BY SMTT(30), AnchorsAssumption DEF BodyLine, AnchorsInv, AnchorsTypeInv, TextRow, PathNames
<1>2. text' \in TextRow /\ text'.file = text.file /\ text'.hunk = text.hunk
  BY BodyText
<1>3. index' \in [path : PathNames, open : Seq(RangeRow), closed : SUBSET RangeRow] /\ RangesGrow
  BY BodyIndex
<1>. DEFINE hit == sign = "added" /\ matches
            new == [path |-> "full_diff", line |-> IF added.line < 1 THEN 1 ELSE added.line,
                    file |-> Files[text.file], true |-> text.line, slips |-> text.slips,
                    plain |-> text.hunk = 1 /\ ~text.strayed /\ text.headers < 2]
<1>4. new \in FoundLine
  <2>1. (IF added.line < 1 THEN 1 ELSE added.line) \in Int
    BY <1>1
  <2>4. text.line \in Int /\ text.slips \in Nat
    BY <1>1 DEF TextRow
  <2>. DEFINE plain == text.hunk = 1 /\ ~text.strayed /\ text.headers < 2
  <2>2. plain \in BOOLEAN
    OBVIOUS
  <2>. HIDE DEF plain
  <2>3. [path |-> "full_diff", line |-> IF added.line < 1 THEN 1 ELSE added.line,
         file |-> Files[text.file], true |-> text.line, slips |-> text.slips, plain |-> plain] \in FoundLine
    BY <1>1, <2>1, <2>2, <2>4 DEF FoundLine
  <2> QED BY <2>3 DEF plain
<1>5. added'.line \in Int /\ added' = [line |-> added'.line, found |-> added'.found]
      /\ added'.found = IF hit THEN Append(added.found, new) ELSE added.found
  BY <1>1 DEF BodyLine, CollectBody
<1>6. AnchorsTypeInv'
  <2>1. added'.found \in Seq(FoundLine)
    <3>. HIDE DEF new, hit
    <3>1. Append(added.found, new) \in Seq(FoundLine)
      BY <1>1, <1>4
    <3> QED BY <1>1, <1>5, <3>1
  <2>2. added' \in [line : Int, found : Seq(FoundLine)]
    BY <1>5, <2>1
  <2> QED BY <1>2, <1>3, <2>2 DEF AnchorsTypeInv
<1>7. ReadersAgree'
  BY BodyAgrees
<1>8. ASSUME hit, NEW e, e = new
      PROVE  e.line = e.true + e.slips /\ (e.plain => ValidateAnchor(e.file, e.true)')
  <2>0. ReadersAgree /\ sign = "added" /\ ~text.gone /\ text.line \in Int /\ text.slips \in Nat /\ text.headers \in Nat
    BY <1>1, <1>8 DEF AnchorsInv, BodyLine, TextRow
  <2>1. added.line = text.line + text.slips /\ text.line > 0
    BY <1>1, <2>0 DEF ReadersAgree
  <2>2. new.line = new.true + new.slips
    BY <2>0, <2>1
  <2>3. ASSUME text.hunk = 1, ~text.strayed, text.headers < 2
        PROVE  \A path, line : path = Files[text.file] /\ line = text.line => ValidateAnchor(path, line)'
    <3>1. /\ index.open # <<>> /\ index.open[1].path = Files[text.file]
          /\ index.open[1].start <= text.line /\ index.open[1].end + text.headers = text.line
      BY <1>1, <2>0, <2>3 DEF ReadersAgree
    <3>2. /\ index'.open # <<>> /\ index.open[1] \in RangeRow
          /\ index'.open[1].path = index.open[1].path
          /\ index'.open[1].start = index.open[1].start
          /\ index'.open[1].end = index.open[1].end + 1
      BY <2>0, <3>1, BodyIndex
    <3>3. index'.open[1] \in index'.closed \cup Range(index'.open)
      BY <1>3, <3>2 DEF Range
    <3>4. index.open[1].start \in Int /\ index.open[1].end \in Int
      BY <3>2 DEF RangeRow
    <3>5. text.line \in index'.open[1].start .. index'.open[1].end
      BY <2>0, <2>3, <3>1, <3>2, <3>4
    <3> QED BY <3>1, <3>2, <3>3, <3>5 DEF ValidateAnchor
  <2>4. e.file = Files[text.file] /\ e.true = text.line
        /\ (e.plain => text.hunk = 1 /\ ~text.strayed /\ text.headers < 2)
    BY <1>8
  <2> QED BY <1>8, <2>2, <2>3, <2>4
<1>9. ASSUME NEW n \in 1 .. Len(added'.found) PROVE Anchored(added.found[n])'
  <2>1. CASE n \in 1 .. Len(added.found) /\ added'.found[n] = added.found[n]
    BY <2>1, <1>3, <1>6, FoundStays DEF Anchored
  <2>2. CASE hit /\ added'.found[n] = new
    BY <1>8, <2>2 DEF Anchored
  <2>3. \/ n \in 1 .. Len(added.found) /\ added'.found[n] = added.found[n]
        \/ hit /\ added'.found[n] = new
    <3>. HIDE DEF new, hit
    <3> QED BY <1>1, <1>4, <1>5, <1>9
  <2> QED BY <2>1, <2>2, <2>3
<1> QED BY <1>1, <1>2, <1>6, <1>7, <1>9 DEF AnchorsInv

LEMMA AnchorsStep == ASSUME AnchorsInv, [AnchorsNext]_anchorVars PROVE AnchorsInv'
<1>1. CASE UNCHANGED anchorVars
  BY <1>1 DEF anchorVars, AnchorsInv, AnchorsTypeInv, ReadersAgree, Anchored, ValidateAnchor
<1> QED BY <1>1, FileHeaderSound, HunkHeaderSound, BodyLineSound DEF AnchorsNext

\* In every diff, however many files, hunks and lines it has, the line number of the
\* evidence is off by the lines that mislead its reader, and the index accepts a
\* comment where the evidence is, unless the lines before mislead the index
\* (lib.rs 56-144, reviewer_criteria.rs 292-320).
THEOREM EvidenceStaysPlaced == AnchorsInit /\ [][AnchorsNext]_anchorVars => []EvidenceIsPlaced
<1>1. AnchorsInit => AnchorsInv
  <2>. SUFFICES ASSUME AnchorsInit PROVE AnchorsInv
    OBVIOUS
  <2>1. Len(Files) \in Nat
    BY AnchorsAssumption
  <2>2. text.file = 0 /\ text.hunk = 0 /\ index.open = <<>> /\ added.found = <<>>
    BY DEF AnchorsInit
  <2>3. AnchorsTypeInv
    <3>1. text \in TextRow
      BY <2>1 DEF AnchorsInit, TextRow
    <3>2. index \in [path : PathNames, open : Seq(RangeRow), closed : SUBSET RangeRow]
      BY DEF AnchorsInit, PathNames
    <3>3. added \in [line : Int, found : Seq(FoundLine)]
      BY DEF AnchorsInit
    <3> QED BY <3>1, <3>2, <3>3 DEF AnchorsTypeInv
  <2> QED BY <2>2, <2>3 DEF AnchorsInv, ReadersAgree
<1>2. AnchorsInv => EvidenceIsPlaced
  <2>. SUFFICES ASSUME AnchorsInv, added.found # <<>> PROVE Anchored(added.found[1])
    BY DEF EvidenceIsPlaced, Evidence, Anchored
  <2>1. 1 \in 1 .. Len(added.found)
    BY DEF AnchorsInv, AnchorsTypeInv
  <2> QED BY <2>1 DEF AnchorsInv
<1> QED BY <1>1, <1>2, AnchorsStep, PTL

-----------------------------------------------------------------------------
(* The double of gh *)

PullRow == [state : {"OPEN", "MERGED"}, auto : BOOLEAN, sha : {"old"}, reviews : Nat, resolved : BOOLEAN,
            replies : Nat]

\* A state that is saved: one pull request or none, and when it is merged its
\* issue is not open.
GoodState(st) ==
    /\ DOMAIN st = {"pulls", "issue"} /\ st.issue \in {"none", "open", "closed"}
    /\ DOMAIN st.pulls \subseteq {"1"}
    /\ \A n \in DOMAIN st.pulls : /\ st.pulls[n] \in PullRow
                                  /\ st.pulls[n].state = "MERGED" => st.issue # "open"

\* An account of what has been said, and what it says of one pull request.
Account(t) == DOMAIN t = {"merged", "auto", "resolved", "replies", "reviews"}
Tells(t, row) ==
    /\ t.merged <=> row.state = "MERGED"
    /\ t.auto <=> row.auto
    /\ t.resolved <=> row.resolved
    /\ t.replies = row.replies
    /\ t.reviews = row.reviews
Matches(t, st) == Account(t) /\ \A n \in DOMAIN st.pulls : Tells(t, st.pulls[n])

\* An answer that saves keeps the state good, and the state it saves is what the
\* answers say, this one included.
AnswerOK(st, a) ==
    a.save => /\ GoodState(a.st)
              /\ Matches(saved, st) => Matches(Promise(a.what), a.st)

\* What a handler of one pull request saves.
LEMMA PullSaved ==
    ASSUME NEW st, GoodState(st), NEW n \in DOMAIN st.pulls, NEW row \in PullRow, NEW what, NEW ticket,
           ticket \in {"none", "open", "closed"}, row.state = "MERGED" => ticket # "open",
           NEW new, DOMAIN new = {"pulls", "issue"}, new.issue = ticket,
           DOMAIN new.pulls = DOMAIN st.pulls, new.pulls[n] = row,
           Account(saved) /\ Tells(saved, st.pulls[n]) => Account(Promise(what)) /\ Tells(Promise(what), row)
    PROVE  AnswerOK(st, SaveAndSay(new, what))
<1>1. \A m \in DOMAIN new.pulls : m = n /\ new.pulls[m] = row
  BY DEF GoodState
<1>2. GoodState(new)
  BY <1>1 DEF GoodState
<1>3. Matches(saved, st) => Matches(Promise(what), new)
  BY <1>1 DEF Matches
<1> QED BY <1>2, <1>3 DEF AnswerOK, SaveAndSay

LEMMA RepliesSaveNothing == ASSUME NEW st, NEW exit, NEW what PROVE AnswerOK(st, Reply(exit, what))
BY DEF AnswerOK, Reply

LEMMA MergeAnswer == ASSUME NEW st, GoodState(st), NEW argv PROVE AnswerOK(st, HandlePrMerge(st, argv))
<1>. DEFINE found == OfKey(st, FlagValue(argv, "--repo"), FirstWord(argv, 3).name)
            n == CHOOSE m \in found : TRUE
<1>1. found \subseteq DOMAIN st.pulls
  BY DEF OfKey
<1>. HIDE DEF found
<1>2. CASE found = {}
  BY <1>2, RepliesSaveNothing DEF HandlePrMerge, found
<1>3. CASE found # {} /\ Has(argv, "--auto")
  <2>. DEFINE new == [st EXCEPT !.pulls[n].auto = TRUE]
              row == [st.pulls[n] EXCEPT !.auto = TRUE]
  <2>1. n \in DOMAIN st.pulls /\ HandlePrMerge(st, argv) = SaveAndSay(new, "auto")
    BY <1>1, <1>3 DEF HandlePrMerge, found
  <2>. HIDE DEF n
  <2>2. st.pulls[n] \in PullRow /\ row \in PullRow /\ row.state = st.pulls[n].state /\ row.auto = TRUE
        /\ row.resolved = st.pulls[n].resolved /\ row.replies = st.pulls[n].replies
        /\ row.reviews = st.pulls[n].reviews
    BY <2>1 DEF GoodState, PullRow
  <2>3. DOMAIN new = {"pulls", "issue"} /\ new.issue = st.issue /\ DOMAIN new.pulls = DOMAIN st.pulls
        /\ new.pulls[n] = row
    BY <2>1 DEF GoodState
  <2>4. Account(saved) /\ Tells(saved, st.pulls[n]) => Account(Promise("auto")) /\ Tells(Promise("auto"), row)
    BY <2>2 DEF Promise, Account, Tells
  <2>5. row.state = "MERGED" => st.issue # "open"
    BY <2>1, <2>2 DEF GoodState
  <2>6. st.issue \in {"none", "open", "closed"}
    BY DEF GoodState
  <2>. HIDE DEF new, row
  <2> QED BY SMTT(30), <2>1, <2>2, <2>3, <2>4, <2>5, <2>6, PullSaved
<1>4. CASE found # {} /\ ~Has(argv, "--auto")
  <2>. DEFINE merged == [st EXCEPT !.pulls[n].state = "MERGED"]
              new == CloseLinkedIssue(merged)
              row == [st.pulls[n] EXCEPT !.state = "MERGED"]
  <2>1. n \in DOMAIN st.pulls /\ HandlePrMerge(st, argv) = SaveAndSay(new, "merge")
    BY <1>1, <1>4 DEF HandlePrMerge, found
  <2>. HIDE DEF n
  <2>2. st.pulls[n] \in PullRow /\ row \in PullRow /\ row.state = "MERGED" /\ row.auto = st.pulls[n].auto
        /\ row.resolved = st.pulls[n].resolved /\ row.replies = st.pulls[n].replies
        /\ row.reviews = st.pulls[n].reviews
    BY <2>1 DEF GoodState, PullRow
  <2>3. DOMAIN merged = {"pulls", "issue"} /\ merged.issue = st.issue
        /\ DOMAIN merged.pulls = DOMAIN st.pulls /\ merged.pulls[n] = row
    BY <2>1 DEF GoodState
  <2>4. DOMAIN new = {"pulls", "issue"} /\ new.issue # "open" /\ new.issue \in {"none", "open", "closed"}
        /\ DOMAIN new.pulls = DOMAIN st.pulls /\ new.pulls[n] = row
    <3>. HIDE DEF merged, row
    <3> QED BY <2>3 DEF CloseLinkedIssue, GoodState
  <2>5. Account(saved) /\ Tells(saved, st.pulls[n]) => Account(Promise("merge")) /\ Tells(Promise("merge"), row)
    BY <2>2 DEF Promise, Account, Tells
  <2>. HIDE DEF new, row
  <2> QED BY ZenonT(30), <2>1, <2>2, <2>4, <2>5, PullSaved
<1> QED BY <1>2, <1>3, <1>4

LEMMA ReviewAnswer ==
    ASSUME NEW st, GoodState(st), NEW argv, NEW route, NEW a \in HandlePrReviews(st, argv, route)
    PROVE  AnswerOK(st, a)
<1>1. CASE FlagValue(argv, "--method") # "POST"
  BY <1>1, RepliesSaveNothing DEF HandlePrReviews, NoAnswer
<1>2. CASE FlagValue(argv, "--method") = "POST"
  <2>. DEFINE n == route.value
              new == [st EXCEPT !.pulls[n].reviews = st.pulls[n].reviews + 1]
              row == [st.pulls[n] EXCEPT !.reviews = st.pulls[n].reviews + 1]
  <2>1. n \in DOMAIN st.pulls /\ a = SaveAndSay(new, "review")
    BY <1>2 DEF HandlePrReviews, NoAnswer
  <2>. HIDE DEF n
  <2>2. st.pulls[n] \in PullRow /\ row \in PullRow /\ row.state = st.pulls[n].state
        /\ row.auto = st.pulls[n].auto
        /\ row.resolved = st.pulls[n].resolved /\ row.replies = st.pulls[n].replies
        /\ row.reviews = st.pulls[n].reviews + 1
    BY <2>1 DEF GoodState, PullRow
  <2>3. DOMAIN new = {"pulls", "issue"} /\ new.issue = st.issue /\ DOMAIN new.pulls = DOMAIN st.pulls
        /\ new.pulls[n] = row
    BY <2>1 DEF GoodState
  <2>4. Account(saved) /\ Tells(saved, st.pulls[n]) => Account(Promise("review")) /\ Tells(Promise("review"), row)
    BY <2>2 DEF Promise, Account, Tells
  <2>5. row.state = "MERGED" => st.issue # "open"
    BY <2>1, <2>2 DEF GoodState
  <2>6. st.issue \in {"none", "open", "closed"}
    BY DEF GoodState
  <2>. HIDE DEF new, row
  <2> QED BY <2>1, <2>2, <2>3, <2>4, <2>5, <2>6, PullSaved
<1> QED BY <1>1, <1>2
LEMMA ResolveAnswer ==
    ASSUME NEW st, GoodState(st), NEW id, NEW resolved \in BOOLEAN,
           NEW a \in SetThreadResolved(st, id, resolved)
    PROVE  AnswerOK(st, a)
<1>1. CASE LookupThread(st, id) = {}
  BY <1>1, RepliesSaveNothing DEF SetThreadResolved, Fails
<1>2. CASE LookupThread(st, id) # {}
  <2>. DEFINE pulls == DOMAIN st.pulls
              new == [st EXCEPT !.pulls = [m \in pulls |-> [st.pulls[m] EXCEPT !.resolved = resolved]]]
              what == IF resolved THEN "resolved" ELSE "unresolved"
  <2>1. LookupThread(st, id) = pulls /\ pulls # {}
    BY <1>2 DEF LookupThread
  <2>2. a = SaveAndSay(new, what)
    BY <2>1 DEF SetThreadResolved
  <2>3. PICK n \in pulls : TRUE
    BY <2>1
  <2>. DEFINE row == [st.pulls[n] EXCEPT !.resolved = resolved]
  <2>4. st.pulls[n] \in PullRow /\ row \in PullRow /\ row.state = st.pulls[n].state
        /\ row.auto = st.pulls[n].auto /\ row.resolved = resolved /\ row.replies = st.pulls[n].replies
        /\ row.reviews = st.pulls[n].reviews
    BY <2>3 DEF GoodState, PullRow
  <2>5. DOMAIN new = {"pulls", "issue"} /\ new.issue = st.issue /\ DOMAIN new.pulls = DOMAIN st.pulls
        /\ new.pulls[n] = row
    BY <2>3 DEF GoodState
  <2>6. Account(saved) /\ Tells(saved, st.pulls[n]) => Account(Promise(what)) /\ Tells(Promise(what), row)
    <3>. HIDE DEF row
    <3>1. CASE resolved
      BY <2>4, <3>1 DEF Promise, Account, Tells
    <3>2. CASE ~resolved
      BY <2>4, <3>2 DEF Promise, Account, Tells
    <3> QED BY <3>1, <3>2
  <2>7. row.state = "MERGED" => st.issue # "open"
    BY <2>3, <2>4 DEF GoodState
  <2>8. st.issue \in {"none", "open", "closed"}
    BY DEF GoodState
  <2>. HIDE DEF new, row, what
  <2> QED BY <2>2, <2>3, <2>4, <2>5, <2>6, <2>7, <2>8, PullSaved
<1> QED BY <1>1, <1>2

LEMMA ReplyAnswer ==
    ASSUME NEW st, GoodState(st), NEW id, NEW a \in AppendThreadReply(st, id)
    PROVE  AnswerOK(st, a)
<1>1. CASE LookupThread(st, id) = {}
  BY <1>1, RepliesSaveNothing DEF AppendThreadReply, Fails
<1>2. CASE LookupThread(st, id) # {}
  <2>. DEFINE pulls == DOMAIN st.pulls
              new == [st EXCEPT !.pulls = [m \in pulls |-> [st.pulls[m] EXCEPT !.replies = st.pulls[m].replies + 1]]]
  <2>1. LookupThread(st, id) = pulls /\ pulls # {}
    BY <1>2 DEF LookupThread
  <2>2. a = SaveAndSay(new, "reply")
    BY <2>1 DEF AppendThreadReply
  <2>3. PICK n \in pulls : TRUE
    BY <2>1
  <2>. DEFINE row == [st.pulls[n] EXCEPT !.replies = st.pulls[n].replies + 1]
  <2>4. st.pulls[n] \in PullRow /\ row \in PullRow /\ row.state = st.pulls[n].state
        /\ row.auto = st.pulls[n].auto /\ row.resolved = st.pulls[n].resolved
        /\ row.replies = st.pulls[n].replies + 1 /\ row.reviews = st.pulls[n].reviews
    BY <2>3 DEF GoodState, PullRow
  <2>5. DOMAIN new = {"pulls", "issue"} /\ new.issue = st.issue /\ DOMAIN new.pulls = DOMAIN st.pulls
        /\ new.pulls[n] = row
    BY <2>3 DEF GoodState
  <2>6. Account(saved) /\ Tells(saved, st.pulls[n]) => Account(Promise("reply")) /\ Tells(Promise("reply"), row)
    BY <2>4 DEF Promise, Account, Tells
  <2>7. row.state = "MERGED" => st.issue # "open"
    BY <2>3, <2>4 DEF GoodState
  <2>8. st.issue \in {"none", "open", "closed"}
    BY DEF GoodState
  <2>. HIDE DEF new, row
  <2> QED BY <2>2, <2>3, <2>4, <2>5, <2>6, <2>7, <2>8, PullSaved
<1> QED BY <1>1, <1>2

LEMMA GraphqlAnswer ==
    ASSUME NEW st, GoodState(st), NEW argv, NEW a \in HandleGraphqlState(st, argv)
    PROVE  AnswerOK(st, a)
<1>. DEFINE id == FieldValue(argv, "threadId")
<1>1. \/ a \in AppendThreadReply(st, id)
      \/ a \in SetThreadResolved(st, id, FALSE) \/ a \in SetThreadResolved(st, id, TRUE)
      \/ \E exit, what : a = Reply(exit, what)
  BY DEF HandleGraphqlState, NoAnswer
<1> QED BY <1>1, ReplyAnswer, ResolveAnswer, RepliesSaveNothing

\* Of thirteen handlers of which the last has an answer, the first answer is one of
\* their answers.
LEMMA FirstMin == ASSUME NEW ready \in SUBSET (1 .. 13), 13 \in ready PROVE Min(ready) \in ready
<1>1. \E i \in ready : \A j \in ready : i <= j
  <2>1. CASE \E i \in 1 .. 6 : i \in ready
    <3>1. CASE 1 \in ready
      BY <3>1
    <3>2. CASE 1 \notin ready /\ 2 \in ready
      BY <3>2
    <3>3. CASE 1 \notin ready /\ 2 \notin ready /\ 3 \in ready
      BY <3>3
    <3>4. CASE 1 \notin ready /\ 2 \notin ready /\ 3 \notin ready /\ 4 \in ready
      BY <3>4
    <3>5. CASE \A k \in 1 .. 4 : k \notin ready
      BY <2>1, <3>5
    <3> QED BY <3>1, <3>2, <3>3, <3>4, <3>5
  <2>2. CASE \A i \in 1 .. 6 : i \notin ready
    <3>1. CASE 7 \in ready
      BY <2>2, <3>1
    <3>2. CASE 7 \notin ready /\ 8 \in ready
      BY <2>2, <3>2
    <3>3. CASE 7 \notin ready /\ 8 \notin ready /\ 9 \in ready
      BY <2>2, <3>3
    <3>4. CASE \A k \in 7 .. 9 : k \notin ready
      <4>1. CASE 10 \in ready
        BY <2>2, <3>4, <4>1
      <4>2. CASE 10 \notin ready /\ 11 \in ready
        BY <2>2, <3>4, <4>2
      <4>3. CASE 10 \notin ready /\ 11 \notin ready
        BY <2>2, <3>4, <4>3
      <4> QED BY <4>1, <4>2, <4>3
    <3> QED BY <3>1, <3>2, <3>3, <3>4
  <2> QED BY <2>1, <2>2
<1> QED BY <1>1 DEF Min

LEMMA FirstOf ==
    ASSUME NEW h1, NEW h2, NEW h3, NEW h4, NEW h5, NEW h6, NEW h7, NEW h8, NEW h9, NEW h10, NEW h11,
           NEW h12, NEW h13, h13 # {}
    PROVE  FirstAnswer(<<h1, h2, h3, h4, h5, h6, h7, h8, h9, h10, h11, h12, h13>>)
               \in UNION {h1, h2, h3, h4, h5, h6, h7, h8, h9, h10, h11, h12, h13}
<1>. DEFINE hs == <<h1, h2, h3, h4, h5, h6, h7, h8, h9, h10, h11, h12, h13>>
            ready == {i \in DOMAIN hs : hs[i] # {}}
<1>1. DOMAIN hs = 1 .. 13 /\ hs[13] = h13
  OBVIOUS
<1>2. \A i \in 1 .. 13 : hs[i] \in {h1, h2, h3, h4, h5, h6, h7, h8, h9, h10, h11, h12, h13}
  OBVIOUS
<1>. HIDE DEF hs
<1>3. ready \in SUBSET (1 .. 13) /\ 13 \in ready
  BY <1>1
<1>4. Min(ready) \in 1 .. 13 /\ hs[Min(ready)] # {}
  BY <1>3, FirstMin
<1>5. FirstAnswer(hs) = CHOOSE a \in hs[Min(ready)] : TRUE
  BY DEF FirstAnswer, NoAnswer
<1>6. FirstAnswer(hs) \in hs[Min(ready)]
  BY <1>4, <1>5
<1>7. hs[Min(ready)] \in {h1, h2, h3, h4, h5, h6, h7, h8, h9, h10, h11, h12, h13}
  BY <1>2, <1>4
<1> QED BY <1>6, <1>7 DEF hs

LEMMA ApiAnswer == ASSUME NEW st, GoodState(st), NEW argv PROVE AnswerOK(st, HandleApi(st, argv))
<1>. DEFINE route == FirstWord(argv, 2)
            graphql == Len(argv) > 1 /\ argv[2] = Word("graphql")
            When(condition, answer) == IF condition THEN {answer} ELSE NoAnswer
            h1 == When(route.name = "user", Reply(0, "login"))
            h2 == IF graphql THEN HandleGraphqlState(st, argv) ELSE NoAnswer
            h3 == When(graphql, Reply(0, "no-data"))
            h4 == HandlePrReviews(st, argv, route)
            h5 == HandlePrReviewComments(st, route)
            h6 == HandlePrApi(st, route)
            h7 == HandleCheckRunsApi(st, route)
            h8 == When(route.name \in {"issue-comments", "pull-comments"} /\ FlagValue(argv, "--method") = "POST",
                       Reply(0, "comment"))
            h9 == When(route.name = "issue" /\ st.issue # "none", Reply(0, st.issue))
            h10 == When(Has(argv, "--paginate"), Reply(0, "empty-list"))
            h11 == When(route.name = "compare", Reply(0, "comparison"))
            h12 == When(Mode = "strict" /\ route = NoWord, Fails("unsupported"))
            h13 == {Reply(0, "fake-issue")}
<1>1. HandleApi(st, argv) = FirstAnswer(<<h1, h2, h3, h4, h5, h6, h7, h8, h9, h10, h11, h12, h13>>)
  BY DEF HandleApi
<1>2. \A a \in h2 : AnswerOK(st, a)
  BY GraphqlAnswer DEF NoAnswer
<1>3. \A a \in h4 : AnswerOK(st, a)
  BY ReviewAnswer
<1>4. \A a \in UNION {h1, h3, h5, h7, h8, h9, h10, h11, h12, h13} : AnswerOK(st, a)
  BY RepliesSaveNothing DEF NoAnswer, HandlePrReviewComments, HandleCheckRunsApi, Fails
<1>5. \A a \in h6 : AnswerOK(st, a)
  BY DEF NoAnswer, HandlePrApi, HydratePr, AnswerOK
<1>6. h13 # {}
  OBVIOUS
<1>. HIDE DEF h1, h2, h3, h4, h5, h6, h7, h8, h9, h10, h11, h12, h13
<1>7. HandleApi(st, argv) \in UNION {h1, h2, h3, h4, h5, h6, h7, h8, h9, h10, h11, h12, h13}
  BY <1>1, <1>6, FirstOf
<1> QED BY <1>2, <1>3, <1>4, <1>5, <1>7

\* One arm of the command's cases answers.
LEMMA AnswerArms ==
    ASSUME NEW st, NEW argv, NEW a, a = AnswerOf(st, argv)
    PROVE  \/ \E exit, what : a = Reply(exit, what)
           \/ a \in {HandleApi(st, argv), HandlePrMerge(st, argv), HandlePrView(st, argv)}
<1>. DEFINE key == KeyOf[argv]
            looked == IF ~FieldsAllowed(argv) THEN Fails("unknown-JSON-field")
                      ELSE IF key = <<"pr", "view">> THEN HandlePrView(st, argv) ELSE Reply(0, "fake-title")
            other == IF Mode = "strict" THEN Fails("unsupported") ELSE Reply(0, "{}")
            declared == Reply(Declared[key], "declared")
            token == Reply(0, "token")
            api == HandleApi(st, argv)
            merge == HandlePrMerge(st, argv)
<1>1. a = CASE key \in DOMAIN Declared -> declared
            [] key # <<>> /\ key[1] = "api" -> api
            [] key = <<"auth", "token">> -> token
            [] key = <<"pr", "merge">> -> merge
            [] key \in {<<"pr", "view">>, <<"pr", "list">>, <<"issue", "list">>} -> looked
            [] OTHER -> other
  BY DEF AnswerOf
<1>2. \E exit, what : looked = HandlePrView(st, argv) \/ looked = Reply(exit, what)
  BY DEF Fails
<1>3. \E exit, what : other = Reply(exit, what)
  BY DEF Fails
<1>. HIDE DEF looked, other, declared, token, api, merge, key
<1>4. a = looked \/ a = other \/ a = declared \/ a = token \/ a = api \/ a = merge
  BY <1>1, Zenon
<1> QED BY <1>2, <1>3, <1>4, Zenon DEF declared, token, api, merge

LEMMA AnswersSound == ASSUME NEW st, GoodState(st), NEW argv PROVE AnswerOK(st, AnswerOf(st, argv))
<1>1. AnswerOK(st, HandlePrView(st, argv))
  BY DEF HandlePrView, HydratePr, Reply, AnswerOK
<1> QED BY <1>1, AnswerArms, RepliesSaveNothing, ApiAnswer, MergeAnswer

\* Until something is lost, the file holds what has been said; what a process that
\* nobody has overtaken has loaded, or will save, is what has been said, or will be;
\* and what it writes, it writes to an empty file.
Loyal ==
    /\ (\A c \in Callers : proc[c].pc # "write") => file.text = "whole"
    /\ Matches(saved, file.st)
    /\ \A c \in Callers \ stale :
        /\ proc[c].pc = "loaded" => proc[c].st = file.st
        /\ proc[c].pc \in {"truncate", "write"} => Matches(Promise(proc[c].what), proc[c].st)
        /\ proc[c].pc = "write" => file.text = "empty"

FakeInv ==
    /\ DOMAIN file = {"text", "st"} /\ GoodState(file.st)
    /\ DOMAIN proc = Callers
    /\ \A c \in Callers : /\ DOMAIN proc[c] = {"pc", "argv", "st", "exit", "what", "head"}
                          /\ GoodState(proc[c].st)
                          /\ proc[c].pc \in {"idle", "loaded", "truncate", "write"}
    /\ ~lost => Loyal

LEMMA SameAccount ==
    ASSUME UNCHANGED saved, NEW what, NEW st, Matches(Promise(what), st)
    PROVE  Account(Promise(what)') /\ \A n \in DOMAIN st.pulls : Tells(Promise(what)', st.pulls[n])
<1>1. Promise(what)' = Promise(what)
  BY Zenon DEF Promise
<1> QED BY <1>1 DEF Matches

LEMMA FakeStart == ASSUME FakeInv, NEW c \in Callers, NEW argv, Start(c, argv) PROVE FakeInv'
<1>. DEFINE row == IF file.text = "whole" THEN [Idle EXCEPT !.pc = "loaded", !.argv = argv, !.st = file.st]
                   ELSE [Idle EXCEPT !.exit = Reply(2, "load-fake-gh-state").exit,
                                     !.head = Reply(2, "load-fake-gh-state").head]
<1>1. proc' = [proc EXCEPT ![c] = row] /\ UNCHANGED <<file, saved, lost>> /\ proc[c].pc = "idle"
      /\ stale' = stale \ {c}
  BY DEF Start, End
<1>2. /\ DOMAIN row = {"pc", "argv", "st", "exit", "what", "head"}
      /\ file.text = "whole" => row.pc = "loaded" /\ row.st = file.st
      /\ file.text # "whole" => row.pc = "idle" /\ row.st = NoFile
  BY DEF Idle
<1>3. GoodState(NoFile)
  BY DEF NoFile, HelperFile, GoodState
<1>. HIDE DEF row
<1>4. proc'[c] = row /\ \A d \in Callers : d # c => proc'[d] = proc[d]
  BY <1>1 DEF FakeInv
<1>5. ~lost' => Loyal'
  <2>. SUFFICES ASSUME Loyal PROVE Loyal'
    BY <1>1 DEF FakeInv
  <2>1. Matches(saved, file.st)'
    BY <1>1 DEF Loyal, Matches
  <2>2. (\A d \in Callers : proc'[d].pc # "write") => file'.text = "whole"
    BY <1>1, <1>2, <1>4 DEF Loyal
  <2>3. ASSUME NEW d \in Callers, d # c, d \notin stale'
        PROVE  /\ proc'[d].pc = "loaded" => proc'[d].st = file'.st
               /\ proc'[d].pc \in {"truncate", "write"} => Matches(Promise(proc[d].what), proc[d].st)'
               /\ proc'[d].pc = "write" => file'.text = "empty"
    BY <1>1, <1>4, <2>3, SameAccount DEF Loyal, Matches
  <2>4. row.pc \in {"idle", "loaded"} /\ (row.pc = "loaded" => row.st = file.st)
    BY <1>2
  <2> QED BY <1>1, <1>4, <2>1, <2>2, <2>3, <2>4 DEF Loyal
<1> QED BY <1>1, <1>2, <1>3, <1>4, <1>5 DEF FakeInv

LEMMA FakeServe == ASSUME FakeInv, NEW c \in Callers, Serve(c) PROVE FakeInv'
<1>. DEFINE argv == proc[c].argv
            again == KeyOf[argv] = <<"pr", "merge">>
            from == IF again THEN file.st ELSE proc[c].st
            answer == AnswerOf(from, argv)
            row == proc'[c]
<1>0. /\ UNCHANGED <<file, saved, lost>> /\ proc[c].pc = "loaded"
      /\ stale' = IF again THEN stale \ {c} ELSE stale
  BY DEF Serve
<1>1. GoodState(from) /\ (~lost /\ c \notin stale' => Matches(saved, from))
  BY <1>0 DEF FakeInv, Loyal
<1>2. AnswerOK(from, answer)
  BY SMTT(30), <1>1, AnswersSound
<1>3. /\ DOMAIN proc' = Callers
      /\ \A d \in Callers : d # c => proc'[d] = proc[d]
      /\ DOMAIN row = {"pc", "argv", "st", "exit", "what", "head"}
      /\ \/ row.pc = "idle" /\ row.st = NoFile
         \/ answer.save /\ row.pc = "truncate" /\ row.st = answer.st /\ row.what = answer.what
  <2>1. CASE again /\ file.text # "whole"
    <3>1. End(c, Fails("load-fake-gh-state"))
      BY <2>1 DEF Serve
    <3> QED BY <3>1 DEF End, Idle, FakeInv
  <2>2. CASE ~(again /\ file.text # "whole") /\ answer.save
    <3>1. proc' = [proc EXCEPT ![c] = [@ EXCEPT !.pc = "truncate", !.st = answer.st, !.what = answer.what]]
      BY <2>2 DEF Serve
    <3>. HIDE DEF answer
    <3> QED BY <2>2, <3>1 DEF FakeInv
  <2>3. CASE ~(again /\ file.text # "whole") /\ ~answer.save
    <3>1. End(c, answer)
      BY <2>3 DEF Serve
    <3>. HIDE DEF answer
    <3> QED BY <3>1 DEF End, Idle, FakeInv
  <2> QED BY <2>1, <2>2, <2>3
<1>4. GoodState(NoFile)
  BY DEF NoFile, HelperFile, GoodState
<1>5. stale' \subseteq stale /\ stale \ {c} \subseteq stale'
  BY <1>0
<1>. HIDE DEF answer, from, row, again
<1>6. GoodState(row.st) /\ row.pc \in {"idle", "truncate"}
      /\ (~lost /\ c \notin stale' /\ row.pc = "truncate" => Matches(Promise(row.what), row.st))
  BY <1>1, <1>2, <1>3, <1>4 DEF AnswerOK
<1>. USE DEF row
<1>7. ~lost' => Loyal'
  <2>. SUFFICES ASSUME ~lost, Loyal PROVE Loyal'
    BY <1>0 DEF FakeInv
  <2>1. Matches(saved, file.st)'
    BY <1>0 DEF Loyal, Matches
  <2>2. (\A d \in Callers : proc'[d].pc # "write") => file'.text = "whole"
    BY <1>0, <1>3 DEF Loyal
  <2>3. ASSUME NEW d \in Callers, d # c, d \notin stale'
        PROVE  /\ proc'[d].pc = "loaded" => proc'[d].st = file'.st
               /\ proc'[d].pc \in {"truncate", "write"} => Matches(Promise(proc[d].what), proc[d].st)'
               /\ proc'[d].pc = "write" => file'.text = "empty"
    <3>1. proc'[d] = proc[d] /\ d \in Callers \ stale
      BY <1>3, <1>5, <2>3
    <3>2. /\ proc[d].pc = "loaded" => proc[d].st = file.st
          /\ proc[d].pc \in {"truncate", "write"} => Matches(Promise(proc[d].what), proc[d].st)
          /\ proc[d].pc = "write" => file.text = "empty"
      BY <3>1 DEF Loyal
    <3> QED BY <1>0, <3>1, <3>2, SameAccount DEF Matches
  <2>4. c \notin stale' /\ proc'[c].pc = "truncate" => Matches(Promise(proc[c].what), proc[c].st)'
    BY <1>0, <1>6, SameAccount DEF Matches
  <2> QED BY <1>0, <1>6, <2>1, <2>2, <2>3, <2>4 DEF Loyal
<1> QED BY <1>0, <1>3, <1>6, <1>7 DEF FakeInv

LEMMA FakeTruncate == ASSUME FakeInv, NEW c \in Callers, Truncate(c) PROVE FakeInv'
<1>1. /\ DOMAIN proc' = Callers /\ \A d \in Callers : d # c => proc'[d] = proc[d]
      /\ DOMAIN proc'[c] = DOMAIN proc[c] /\ proc'[c].pc = "write" /\ proc[c].pc = "truncate"
      /\ proc'[c].st = proc[c].st /\ proc'[c].what = proc[c].what
      /\ DOMAIN file' = {"text", "st"} /\ file'.st = file.st /\ file'.text = "empty"
      /\ UNCHANGED <<saved, stale, lost>>
  BY DEF Truncate, FakeInv
<1>2. ~lost' => Loyal'
  <2>. SUFFICES ASSUME Loyal PROVE Loyal'
    BY <1>1 DEF FakeInv
  <2>1. Matches(saved, file.st)'
    BY <1>1 DEF Loyal, Matches
  <2>2. ASSUME NEW d \in Callers, d \notin stale'
        PROVE  /\ proc'[d].pc = "loaded" => proc'[d].st = file'.st
               /\ proc'[d].pc \in {"truncate", "write"} => Matches(Promise(proc[d].what), proc[d].st)'
    <3>1. /\ proc'[d].what = proc[d].what /\ proc'[d].st = proc[d].st
          /\ proc'[d].pc \in {"truncate", "write"} => proc[d].pc \in {"truncate", "write"}
          /\ proc'[d].pc = "loaded" => proc[d].pc = "loaded"
      BY <1>1
    <3> QED BY ZenonT(30), <1>1, <2>2, <3>1, SameAccount DEF Loyal, Matches
  <2> QED BY <1>1, <2>1, <2>2 DEF Loyal
<1> QED BY <1>1, <1>2 DEF FakeInv

LEMMA FakeWrite == ASSUME FakeInv, NEW c \in Callers, Write(c) PROVE FakeInv'
<1>1. /\ DOMAIN proc' = Callers /\ \A d \in Callers : d # c => proc'[d] = proc[d]
      /\ DOMAIN proc'[c] = {"pc", "argv", "st", "exit", "what", "head"}
      /\ proc'[c].pc = "idle" /\ proc[c].pc = "write" /\ proc'[c].st = NoFile
      /\ DOMAIN file' = {"text", "st"} /\ file'.st = proc[c].st
      /\ file.text = "empty" => file'.text = "whole"
      /\ saved' = Promise(proc[c].what) /\ lost' = (lost \/ c \in stale)
      /\ stale' = {d \in Callers \ {c} : proc[d].pc # "idle"}
  BY DEF Write, End, Idle, FakeInv
<1>2. GoodState(NoFile)
  BY DEF NoFile, HelperFile, GoodState
<1>3. ~lost' => Loyal'
  <2>. SUFFICES ASSUME ~lost, c \notin stale PROVE Loyal'
    BY <1>1
  <2>1. Loyal
    BY DEF FakeInv
  <2>2. file'.text = "whole" /\ Matches(saved, file.st)'
    BY <1>1, <2>1 DEF Loyal, Matches, Account, Tells
  <2>3. \A d \in Callers \ stale' : proc'[d].pc = "idle"
    BY <1>1
  <2> QED BY <2>2, <2>3 DEF Loyal
<1> QED BY <1>1, <1>2, <1>3 DEF FakeInv

LEMMA FakeStep == ASSUME FakeInv, [FakeGhNext]_fakeVars PROVE FakeInv'
<1>1. CASE UNCHANGED <<file, proc, saved, stale, lost>>
  <2>1. Loyal => Loyal'
    <3>1. ASSUME Loyal, NEW d \in Callers, d \notin stale, proc[d].pc \in {"truncate", "write"}
          PROVE  Matches(Promise(proc[d].what), proc[d].st)'
      BY <1>1, <3>1, SameAccount DEF Loyal, Matches
    <3>2. Matches(saved, file.st)' <=> Matches(saved, file.st)
      BY <1>1 DEF Matches, Account, Tells
    <3> QED BY <1>1, <3>1, <3>2 DEF Loyal
  <2>. USE <1>1
  <2>2. \A c \in Callers : GoodState(proc[c].st)' <=> GoodState(proc[c].st)
    BY DEF GoodState
  <2>3. GoodState(file.st)' <=> GoodState(file.st)
    BY DEF GoodState
  <2> QED BY <2>1, <2>2, <2>3 DEF FakeInv
<1>2. CASE UNCHANGED fakeVars \/ PushBranch
  BY <1>1, <1>2 DEF fakeVars, PushBranch
<1> QED BY <1>2, FakeStart, FakeServe, FakeTruncate, FakeWrite DEF FakeGhNext

\* The double closes the issue of what is merged in every state that it saves, for
\* any number of callers and of calls; and until a call saves over another's save
\* that it did not see, its file says what the calls that saved have answered.
THEOREM SavesStay == FakeGhInit /\ [][FakeGhNext]_fakeVars => []SavesAreKept
<1>1. FakeGhInit => FakeInv
  <2>. SUFFICES ASSUME FakeGhInit PROVE FakeInv
    OBVIOUS
  <2>1. PICK ticket \in {"none", "open"} : \E st \in {OwnFile(ticket), HelperFile(ticket), NoFile} :
            file = [text |-> "whole", st |-> st]
    BY DEF FakeGhInit
  <2>2. NewPull \in PullRow /\ NewPull.state = "OPEN" /\ ~NewPull.auto /\ ~NewPull.resolved
        /\ NewPull.reviews = 0 /\ NewPull.replies = 0
    BY DEF NewPull, PullRow
  <2>3. \A n \in DOMAIN file.st.pulls : n = "1" /\ file.st.pulls[n] = NewPull
    BY <2>1 DEF OwnFile, HelperFile, NoFile
  <2>4. DOMAIN file = {"text", "st"} /\ file.text = "whole" /\ DOMAIN file.st = {"pulls", "issue"}
        /\ file.st.issue \in {"none", "open", "closed"}
    BY <2>1 DEF OwnFile, HelperFile, NoFile
  <2>5. GoodState(file.st)
    BY <2>2, <2>3, <2>4 DEF GoodState
  <2>6. Matches(saved, file.st)
    <3>1. Account(saved) /\ ~saved.merged /\ ~saved.auto /\ ~saved.resolved /\ saved.replies = 0 /\ saved.reviews = 0
      BY DEF FakeGhInit, Account
    <3> QED BY <2>2, <2>3, <3>1 DEF Matches, Tells
  <2>7. GoodState(NoFile)
    BY DEF NoFile, HelperFile, GoodState
  <2>8. DOMAIN proc = Callers /\ \A c \in Callers : proc[c] = Idle
    BY DEF FakeGhInit
  <2>9. Idle.pc = "idle" /\ Idle.st = NoFile /\ DOMAIN Idle = {"pc", "argv", "st", "exit", "what", "head"}
    BY DEF Idle
  <2> QED BY <2>4, <2>5, <2>6, <2>7, <2>8, <2>9 DEF FakeInv, Loyal
<1>2. FakeInv => SavesAreKept
  <2>. SUFFICES ASSUME FakeInv PROVE SavesAreKept
    OBVIOUS
  <2>1. \A n \in DOMAIN file.st.pulls : file.st.pulls[n].state = "MERGED" => file.st.issue # "open"
    BY DEF FakeInv, GoodState
  <2>2. ~lost => /\ ~(\E c \in Callers : proc[c].pc = "write") => file.text = "whole"
                 /\ Matches(saved, file.st)
    BY DEF FakeInv, Loyal
  <2> QED BY <2>1, <2>2 DEF SavesAreKept, Matches, Tells
<1> QED BY <1>1, <1>2, FakeStep, PTL

-----------------------------------------------------------------------------
(* Takeover *)

\* The sessions of a name among some; the requests for it that are still to be
\* sent, and the one that is about to end an active session of it; the ones
\* started since the list and ended; the ones listed and active.
OfName(ns, name) == {n \in ns : sessions[n].project = name}
Places(names, name) == {i \in DOMAIN names : names[i] = name}
Open(c, name) ==
    IF client[c].pc = "found" /\ client[c].found \in Active /\ sessions[client[c].found].project = name
    THEN 1 ELSE 0
EndedSince(c, name) == OfName((client[c].seen + 1) .. Len(sessions), name) \ Active
Standing(c, name) == OfName(client[c].listed, name) \cap Active

\* What a client that stops every session may count on.
Counting(c) == client[c].pc \in {"stopping", "found", "ended"} \/ client[c].said = "stopped"
Covered(c) ==
    \A name : Cardinality(Standing(c, name)) <=
                 Cardinality(EndedSince(c, name)) + Cardinality(Places(client[c].todo, name)) + Open(c, name)
Tracked(c) ==
    /\ DOMAIN client[c] = {"pc", "said", "todo", "found", "listed", "seen"}
    /\ \E S : client[c].todo \in Seq(S)
    /\ client[c].seen \in 0 .. Len(sessions) /\ client[c].listed \subseteq 1 .. client[c].seen
    /\ Counting(c) => \A n \in Active : n <= client[c].seen => n \in client[c].listed
    /\ Counting(c) => Covered(c)
    /\ client[c].pc = "found" => client[c].found \in DOMAIN sessions
    /\ client[c].said = "stopped" => client[c].todo = <<>> /\ client[c].pc = "idle"

TableOK ==
    /\ \E S : sessions \in Seq(S)
    /\ \A n \in DOMAIN sessions : {"project", "status"} \subseteq DOMAIN sessions[n]

StopInv == TableOK /\ DOMAIN client = Clients /\ \A c \in Clients : Tracked(c)

LEMMA Popped ==
    ASSUME NEW S, NEW s \in Seq(S), s # <<>>, NEW x
    PROVE  /\ IsFiniteSet(Places(s, x)) /\ IsFiniteSet(Places(Tail(s), x))
           /\ Cardinality(Places(s, x)) \in Nat /\ Cardinality(Places(Tail(s), x)) \in Nat
           /\ Head(s) = x => Cardinality(Places(s, x)) = Cardinality(Places(Tail(s), x)) + 1
           /\ Head(s) # x => Cardinality(Places(s, x)) = Cardinality(Places(Tail(s), x))
<1>. DEFINE rest == Places(s, x) \ {1}
            shift == [i \in Places(Tail(s), x) |-> i + 1]
<1>1. /\ Len(s) \in Nat \ {0} /\ DOMAIN s = 1 .. Len(s) /\ Head(s) = s[1]
      /\ DOMAIN Tail(s) = 1 .. (Len(s) - 1) /\ \A i \in 1 .. (Len(s) - 1) : Tail(s)[i] = s[i + 1]
  BY HeadTailProperties, LenProperties, EmptySeq
<1>2. IsFiniteSet(1 .. Len(s)) /\ IsFiniteSet(1 .. (Len(s) - 1))
  BY <1>1, FS_Interval
<1>3. IsFiniteSet(Places(s, x)) /\ IsFiniteSet(Places(Tail(s), x))
  BY <1>1, <1>2, FS_Subset DEF Places
<1>4. shift \in Bijection(Places(Tail(s), x), rest)
  <2>1. shift \in [Places(Tail(s), x) -> rest]
    BY <1>1 DEF Places
  <2>2. \A i, j \in Places(Tail(s), x) : shift[i] = shift[j] => i = j
    BY <1>1 DEF Places
  <2>3. \A k \in rest : \E i \in Places(Tail(s), x) : shift[i] = k
    <3>. SUFFICES ASSUME NEW k \in rest PROVE k - 1 \in Places(Tail(s), x) /\ shift[k - 1] = k
      OBVIOUS
    <3>1. k \in 2 .. Len(s) /\ s[k] = x
      BY <1>1 DEF Places
    <3>2. k - 1 \in Places(Tail(s), x)
      BY <1>1, <3>1 DEF Places
    <3> QED BY <1>1, <3>1, <3>2
  <2>. HIDE DEF shift, rest
  <2> QED BY <2>1, <2>2, <2>3 DEF Bijection, Injection, Surjection, IsInjective
<1>5. Cardinality(rest) = Cardinality(Places(Tail(s), x))
  <2>. HIDE DEF shift, rest
  <2> QED BY <1>3, <1>4, FS_Bijection DEF ExistsBijection
<1>6. Cardinality(rest) = IF 1 \in Places(s, x) THEN Cardinality(Places(s, x)) - 1 ELSE Cardinality(Places(s, x))
  BY <1>3, FS_RemoveElement
<1>7. Cardinality(Places(s, x)) \in Nat /\ Cardinality(Places(Tail(s), x)) \in Nat
  BY <1>3, FS_CardinalityType
<1>8. 1 \in Places(s, x) <=> Head(s) = x
  BY <1>1 DEF Places
<1>. HIDE DEF rest
<1> QED BY <1>3, <1>5, <1>6, <1>7, <1>8

\* Sessions keep their names, and none becomes active again.
Onward ==
    /\ TableOK' /\ Len(sessions) <= Len(sessions')
    /\ \A n \in DOMAIN sessions : sessions'[n].project = sessions[n].project
    /\ \A n \in Active' : n \in Active \/ n > Len(sessions)

LEMMA Marked ==
    ASSUME TableOK, NEW c, Tracked(c)
    PROVE  /\ Len(sessions) \in Nat /\ DOMAIN sessions = 1 .. Len(sessions)
           /\ client[c].seen \in Nat /\ client[c].seen <= Len(sessions)
           /\ \A n \in client[c].listed : n \in Nat /\ 1 <= n /\ n <= client[c].seen
<1>1. Len(sessions) \in Nat /\ DOMAIN sessions = 1 .. Len(sessions)
  BY LenProperties DEF TableOK
<1>2. client[c].seen \in 0 .. Len(sessions) /\ client[c].listed \subseteq 1 .. client[c].seen
  BY DEF Tracked
<1> QED BY <1>1, <1>2

LEMMA Countable ==
    ASSUME TableOK, NEW c, Tracked(c), NEW name
    PROVE  /\ Len(sessions) \in Nat /\ DOMAIN sessions = 1 .. Len(sessions)
           /\ IsFiniteSet(Standing(c, name)) /\ IsFiniteSet(EndedSince(c, name))
           /\ Cardinality(Standing(c, name)) \in Nat /\ Cardinality(EndedSince(c, name)) \in Nat
           /\ Cardinality(Places(client[c].todo, name)) \in Nat
<1>1. Len(sessions) \in Nat /\ DOMAIN sessions = 1 .. Len(sessions)
  BY LenProperties DEF TableOK
<1>2. IsFiniteSet(1 .. Len(sessions))
  BY <1>1, FS_Interval
<1>3. Standing(c, name) \subseteq 1 .. Len(sessions) /\ EndedSince(c, name) \subseteq 1 .. Len(sessions)
  BY Marked DEF Standing, EndedSince, OfName, Active
<1>4. IsFiniteSet(Standing(c, name)) /\ IsFiniteSet(EndedSince(c, name))
  BY <1>2, <1>3, FS_Subset
<1>5. IsFiniteSet(Places(client[c].todo, name))
  <2>1. Len(client[c].todo) \in Nat /\ DOMAIN client[c].todo = 1 .. Len(client[c].todo)
    BY LenProperties DEF Tracked
  <2>2. IsFiniteSet(1 .. Len(client[c].todo)) /\ Places(client[c].todo, name) \subseteq 1 .. Len(client[c].todo)
    BY <2>1, FS_Interval DEF Places
  <2> QED BY <2>2, FS_Subset
<1> QED BY <1>1, <1>4, <1>5, FS_CardinalityType

LEMMA OnwardSets ==
    ASSUME TableOK, NEW c, Tracked(c), Onward, NEW name,
           client'[c].seen = client[c].seen, client'[c].listed = client[c].listed
    PROVE  /\ Standing(c, name)' \subseteq Standing(c, name) /\ EndedSince(c, name) \subseteq EndedSince(c, name)'
           /\ IsFiniteSet(EndedSince(c, name)')
<1>1. /\ Len(sessions) \in Nat /\ DOMAIN sessions = 1 .. Len(sessions)
  BY LenProperties DEF TableOK
<1>2. /\ Len(sessions') \in Nat /\ DOMAIN sessions' = 1 .. Len(sessions')
  BY LenProperties DEF TableOK, Onward
<1>3. EndedSince(c, name)' \subseteq 1 .. Len(sessions')
  BY <1>1, <1>2, Marked DEF EndedSince, OfName, Onward
<1>4. Standing(c, name)' \subseteq Standing(c, name)
  BY <1>1, Marked DEF Standing, OfName, Onward, Active
<1>5. EndedSince(c, name) \subseteq EndedSince(c, name)'
  BY <1>1, <1>2, Marked DEF EndedSince, OfName, Onward, Active
<1>6. IsFiniteSet(1 .. Len(sessions'))
  <2>1. 1 \in Int /\ Len(sessions') \in Int
    BY <1>2
  <2> QED BY <2>1, FS_Interval
<1> QED BY <1>3, <1>4, <1>5, <1>6, FS_Subset

\* Whoever ends a session that a request was about to end: there is one listed
\* session less, or one more that was started since and ended.
LEMMA StillCovered ==
    ASSUME TableOK, NEW c, Tracked(c), Counting(c), Onward, client'[c].todo = client[c].todo,
           client'[c].listed = client[c].listed, client'[c].seen = client[c].seen,
           client[c].pc = "found" /\ client[c].found \in Active'
               => client'[c].pc = "found" /\ client'[c].found = client[c].found
    PROVE  Covered(c)'
<1>. DEFINE n == client[c].found
<1>1. /\ Len(sessions) \in Nat /\ DOMAIN sessions = 1 .. Len(sessions)
      /\ Len(sessions') \in Nat /\ DOMAIN sessions' = 1 .. Len(sessions')
  BY LenProperties DEF TableOK, Onward
<1>. SUFFICES ASSUME NEW name
              PROVE  Cardinality(Standing(c, name)') <=
                       Cardinality(EndedSince(c, name)') + Cardinality(Places(client[c].todo, name)) + Open(c, name)'
  BY DEF Covered, Places
<1>2. /\ Standing(c, name)' \subseteq Standing(c, name) /\ EndedSince(c, name) \subseteq EndedSince(c, name)'
      /\ IsFiniteSet(EndedSince(c, name)')
  BY OnwardSets
<1>3. /\ IsFiniteSet(Standing(c, name)) /\ IsFiniteSet(EndedSince(c, name))
      /\ Cardinality(Standing(c, name)) \in Nat /\ Cardinality(EndedSince(c, name)) \in Nat
      /\ Cardinality(Places(client[c].todo, name)) \in Nat
  BY Countable
<1>4. /\ Cardinality(Standing(c, name)') <= Cardinality(Standing(c, name))
      /\ Cardinality(EndedSince(c, name)) <= Cardinality(EndedSince(c, name)')
  BY <1>2, <1>3, FS_Subset
<1>5. Cardinality(Standing(c, name)') \in Nat /\ Cardinality(EndedSince(c, name)') \in Nat
  BY <1>2, <1>3, FS_Subset, FS_CardinalityType
<1>6. Cardinality(Standing(c, name)) <=
        Cardinality(EndedSince(c, name)) + Cardinality(Places(client[c].todo, name)) + Open(c, name)
  BY DEF Tracked, Covered
<1>7. Open(c, name) \in {0, 1} /\ Open(c, name)' \in {0, 1}
  BY DEF Open
<1>8. CASE Open(c, name) <= Open(c, name)'
  BY <1>3, <1>4, <1>5, <1>6, <1>7, <1>8
<1>9. CASE Open(c, name) = 1 /\ Open(c, name)' = 0
  <2>1. client[c].pc = "found" /\ n \in Active /\ n \in DOMAIN sessions /\ sessions[n].project = name
    BY <1>9 DEF Open, Active
  <2>2. n \notin Active'
    <3>1. sessions'[n].project = name
      BY <2>1 DEF Onward
    <3> QED BY <1>9, <2>1, <3>1 DEF Open
  <2>3. n \in Nat /\ client[c].seen \in Nat
    BY <1>1, <2>1, Marked
  <2>4. CASE n \in client[c].listed
    <3>1. n \in Standing(c, name) /\ n \notin Standing(c, name)'
      BY <2>1, <2>2, <2>4 DEF Standing, OfName
    <3>2. Standing(c, name)' \subseteq Standing(c, name) \ {n}
      BY <1>2, <3>1
    <3>3. /\ IsFiniteSet(Standing(c, name) \ {n})
          /\ Cardinality(Standing(c, name) \ {n}) = Cardinality(Standing(c, name)) - 1
      BY <1>3, <3>1, FS_RemoveElement
    <3>4. Cardinality(Standing(c, name)') <= Cardinality(Standing(c, name)) - 1
      BY <3>2, <3>3, FS_Subset
    <3> QED BY <1>3, <1>4, <1>5, <1>6, <1>9, <3>4
  <2>5. CASE n > client[c].seen
    <3>1. n \notin EndedSince(c, name)
      BY <2>1 DEF EndedSince
    <3>2. n \in DOMAIN sessions' /\ sessions'[n].project = name
      BY <1>1, <2>1 DEF Onward
    <3>3. n \in EndedSince(c, name)'
      BY <1>1, <2>2, <2>3, <2>5, <3>2 DEF EndedSince, OfName
    <3>4. EndedSince(c, name) \cup {n} \subseteq EndedSince(c, name)'
      BY <1>2, <3>3
    <3>5. Cardinality(EndedSince(c, name) \cup {n}) = Cardinality(EndedSince(c, name)) + 1
      BY <1>3, <3>1, FS_AddElement
    <3>6. Cardinality(EndedSince(c, name)) + 1 <= Cardinality(EndedSince(c, name)')
      BY <1>2, <3>4, <3>5, FS_Subset
    <3> QED BY <1>3, <1>4, <1>5, <1>6, <1>9, <3>6
  <2>6. n <= client[c].seen => n \in client[c].listed
    BY <2>1 DEF Tracked
  <2> QED BY <2>3, <2>4, <2>5, <2>6
<1> QED BY <1>7, <1>8, <1>9

\* What a client may count on survives every step that leaves its requests to be
\* sent, its list, and its open request unless that ends.
LEMMA StillTracked ==
    ASSUME TableOK, NEW c, Tracked(c), Onward, DOMAIN client'[c] = DOMAIN client[c],
           client'[c].todo = client[c].todo,
           client'[c].listed = client[c].listed, client'[c].seen = client[c].seen,
           client[c].pc = "found" /\ client[c].found \in Active'
               => client'[c].pc = "found" /\ client'[c].found = client[c].found,
           client'[c].pc = "found" => client[c].pc = "found" /\ client'[c].found = client[c].found,
           (Counting(c))' => Counting(c),
           client'[c].said = "stopped" => client'[c].todo = <<>> /\ client'[c].pc = "idle"
    PROVE  Tracked(c)'
<1>1. /\ Len(sessions) \in Nat /\ DOMAIN sessions = 1 .. Len(sessions)
      /\ Len(sessions') \in Nat /\ DOMAIN sessions' = 1 .. Len(sessions')
      /\ Len(sessions) <= Len(sessions')
  BY LenProperties DEF TableOK, Onward
<1>2. (Counting(c))' => Covered(c)'
  BY StillCovered
<1>3. client'[c].seen \in 0 .. Len(sessions') /\ client'[c].listed \subseteq 1 .. client'[c].seen
  BY <1>1, Marked DEF Tracked
<1>4. (Counting(c))' => \A n \in Active' : n <= client'[c].seen => n \in client'[c].listed
  <2>. SUFFICES ASSUME Counting(c), NEW n \in Active', n <= client[c].seen PROVE n \in client[c].listed
    OBVIOUS
  <2>1. client[c].seen \in 0 .. Len(sessions) /\ n \in 1 .. Len(sessions')
    BY <1>1 DEF Tracked, Active
  <2>2. n \in Active
    BY <1>1, <2>1 DEF Onward
  <2> QED BY <2>2 DEF Tracked
<1>5. client'[c].pc = "found" => client'[c].found \in DOMAIN sessions'
  BY <1>1 DEF Tracked
<1>6. DOMAIN client'[c] = {"pc", "said", "todo", "found", "listed", "seen"} /\ \E S : client'[c].todo \in Seq(S)
  BY DEF Tracked
<1> QED BY <1>2, <1>3, <1>4, <1>5, <1>6 DEF Tracked

\* So a step of another client, or of the daemon, takes nothing from it.
LEMMA OthersTracked ==
    ASSUME TableOK, NEW c, Tracked(c), Onward, client'[c] = client[c]
    PROVE  Tracked(c)'
<1>1. (Counting(c))' => Counting(c)
  BY DEF Counting
<1>2. client'[c].said = "stopped" => client'[c].todo = <<>> /\ client'[c].pc = "idle"
  BY DEF Tracked
<1> QED BY <1>1, <1>2, StillTracked

LEMMA Inserted ==
    ASSUME TableOK, NEW name, NEW slug, InsertSession(name, slug)
    PROVE  Onward
<1>. DEFINE row == NewSession(name, slug)
<1>0. {"project", "status"} \subseteq DOMAIN row
  BY DEF NewSession
<1>. HIDE DEF row
<1>1. PICK S : sessions \in Seq(S)
  BY DEF TableOK
<1>2. sessions \in Seq(S \cup {row}) /\ sessions' = Append(sessions, row)
  BY <1>1, SeqMonotonic DEF InsertSession, row
<1>3. /\ sessions' \in Seq(S \cup {row}) /\ Len(sessions') = Len(sessions) + 1
      /\ \A n \in 1 .. Len(sessions) : sessions'[n] = sessions[n]
      /\ sessions'[Len(sessions) + 1] = row
  BY <1>2, AppendProperties
<1>4. /\ Len(sessions) \in Nat /\ DOMAIN sessions = 1 .. Len(sessions) /\ DOMAIN sessions' = 1 .. Len(sessions')
  BY <1>1, <1>3, LenProperties
<1>5. TableOK'
  <2>1. \A n \in DOMAIN sessions' : n \in DOMAIN sessions \/ n = Len(sessions) + 1
    BY <1>3, <1>4
  <2>2. \A n \in DOMAIN sessions' : {"project", "status"} \subseteq DOMAIN sessions'[n]
    BY <1>0, <1>3, <1>4, <2>1 DEF TableOK
  <2> QED BY <1>3, <2>2 DEF TableOK
<1>6. \A n \in Active' : n \in Active \/ n > Len(sessions)
  BY <1>3, <1>4 DEF Active
<1> QED BY <1>3, <1>4, <1>5, <1>6 DEF Onward

LEMMA Deleted ==
    ASSUME TableOK, NEW n \in DOMAIN sessions, sessions' = [sessions EXCEPT ![n].status = "cancelled"]
    PROVE  Onward /\ n \notin Active'
<1>. DEFINE row == [sessions[n] EXCEPT !.status = "cancelled"]
<1>1. PICK S : sessions \in Seq(S)
  BY DEF TableOK
<1>2. {"project", "status"} \subseteq DOMAIN row /\ row.status = "cancelled" /\ row.project = sessions[n].project
  BY DEF TableOK
<1>3. sessions' = [sessions EXCEPT ![n] = row]
  OBVIOUS
<1>. HIDE DEF row
<1>4. sessions \in Seq(S \cup {row})
  BY <1>1, SeqMonotonic
<1>5. Len(sessions) \in Nat /\ DOMAIN sessions = 1 .. Len(sessions)
  BY <1>1, LenProperties
<1>6. /\ sessions' \in Seq(S \cup {row}) /\ Len(sessions') = Len(sessions)
      /\ \A m \in 1 .. Len(sessions) : sessions'[m] = IF m = n THEN row ELSE sessions[m]
  BY <1>3, <1>4, <1>5, ExceptSeq
<1>7. DOMAIN sessions' = 1 .. Len(sessions)
  BY <1>6, LenProperties
<1>8. TableOK'
  BY <1>2, <1>5, <1>6, <1>7 DEF TableOK
<1>9. n \notin Active' /\ \A m \in Active' : m \in Active
  BY <1>2, <1>5, <1>6, <1>7 DEF Active
<1>10. \A m \in DOMAIN sessions : sessions'[m].project = sessions[m].project
  BY <1>2, <1>5, <1>6
<1> QED BY <1>5, <1>6, <1>8, <1>9, <1>10 DEF Onward

LEMMA Still == ASSUME TableOK, UNCHANGED sessions PROVE Onward
<1>1. Len(sessions) \in Nat
  BY LenProperties DEF TableOK
<1> QED BY <1>1 DEF Onward, TableOK, Active

\* A client that says anything else is owed nothing.
LEMMA SaysTracked ==
    ASSUME TableOK', NEW c, client'[c] = Says("something")
    PROVE  Tracked(c)'
<1>1. Len(sessions') \in Nat
  BY LenProperties DEF TableOK
<1>2. <<>> \in Seq({})
  BY EmptySeq
<1> QED BY <1>1, <1>2 DEF Tracked, Says, Counting

LEMMA ListTracked ==
    ASSUME TableOK, UNCHANGED sessions, NEW c, NEW order \in [1 .. Cardinality(Active) -> Active],
           Range(order) = Active,
           client'[c] = [pc |-> "stopping", said |-> "nothing", found |-> 0, seen |-> Len(sessions), listed |-> Active,
                         todo |-> [i \in DOMAIN order |-> sessions[order[i]].project]]
    PROVE  Tracked(c)'
<1>. DEFINE names == [i \in DOMAIN order |-> sessions[order[i]].project]
<1>1. /\ DOMAIN client'[c] = {"pc", "said", "todo", "found", "listed", "seen"}
      /\ client'[c].pc = "stopping" /\ client'[c].said = "nothing" /\ client'[c].seen = Len(sessions)
      /\ client'[c].listed = Active /\ client'[c].todo = names
  OBVIOUS
<1>2. Len(sessions) \in Nat /\ DOMAIN sessions = 1 .. Len(sessions) /\ Active' = Active
  BY LenProperties DEF TableOK, Active
<1>3. IsFiniteSet(Active) /\ Cardinality(Active) \in Nat
  <2>1. IsFiniteSet(1 .. Len(sessions)) /\ Active \subseteq 1 .. Len(sessions)
    BY <1>2, FS_Interval DEF Active
  <2>2. IsFiniteSet(Active)
    BY <2>1, FS_Subset
  <2> QED BY <2>2, FS_CardinalityType
<1>4. /\ DOMAIN order = 1 .. Cardinality(Active) /\ IsFiniteSet(DOMAIN order)
      /\ \A n \in Active : \E i \in DOMAIN order : order[i] = n
  BY <1>3, FS_Interval DEF Range
<1>5. \E S : names \in Seq(S)
  <2>1. names \in [1 .. Cardinality(Active) -> {names[i] : i \in DOMAIN order}]
    BY <1>4
  <2> QED BY ZenonT(30), <1>3, <2>1, SeqDef
<1>6. ASSUME NEW name
      PROVE  /\ Cardinality(Standing(c, name)') <= Cardinality(EndedSince(c, name)') + Cardinality(Places(names, name))
             /\ Cardinality(Places(names, name)) \in Nat /\ Cardinality(EndedSince(c, name)') \in Nat
             /\ Cardinality(Standing(c, name)') \in Nat
  <2>. DEFINE up == OfName(Active, name)
              at == Places(names, name)
              f == [i \in at |-> order[i]]
  <2>1. at \subseteq DOMAIN order /\ \A i \in DOMAIN order : i \in at <=> sessions[order[i]].project = name
    BY DEF Places
  <2>2. f \in [at -> up] /\ \A n \in up : \E i \in at : f[i] = n
    BY <1>4, <2>1 DEF OfName
  <2>3. IsFiniteSet(at)
    BY <1>4, <2>1, FS_Subset
  <2>4. Standing(c, name)' = up
    BY <1>1, <1>2 DEF Standing, OfName
  <2>5. IsFiniteSet(EndedSince(c, name)')
    <3>1. EndedSince(c, name)' \subseteq 1 .. Len(sessions)
      BY <1>1, <1>2 DEF EndedSince, OfName
    <3>2. IsFiniteSet(1 .. Len(sessions))
      BY <1>2, FS_Interval
    <3> QED BY <3>1, <3>2, FS_Subset
  <2>. HIDE DEF up, at, f
  <2>6. Cardinality(up) <= Cardinality(at) /\ IsFiniteSet(up)
    <3>1. f \in Surjection(at, up)
      BY <2>2 DEF Surjection
    <3> QED BY <2>3, <3>1, FS_Surjection
  <2>7. Cardinality(up) \in Nat /\ Cardinality(at) \in Nat /\ Cardinality(EndedSince(c, name)') \in Nat
    BY <2>3, <2>5, <2>6, FS_CardinalityType
  <2> QED BY <2>4, <2>6, <2>7 DEF at
<1>. HIDE DEF names
<1>7. Covered(c)'
  <2>1. \A name : Open(c, name)' = 0
    BY <1>1 DEF Open
  <2>2. ASSUME NEW name
        PROVE  Cardinality(Standing(c, name)') <= Cardinality(EndedSince(c, name)')
                   + Cardinality(Places(client'[c].todo, name)) + Open(c, name)'
    <3>1. Open(c, name)' = 0 /\ Places(client'[c].todo, name) = Places(names, name)
      BY <1>1, <2>1
    <3>2. /\ Cardinality(Standing(c, name)') <= Cardinality(EndedSince(c, name)') + Cardinality(Places(names, name))
          /\ Cardinality(Places(names, name)) \in Nat /\ Cardinality(EndedSince(c, name)') \in Nat
      BY <1>6
    <3>3. \A a, b \in Nat : a + b = a + b + 0
      OBVIOUS
    <3> QED BY <3>1, <3>2, <3>3
  <2> QED BY <2>2 DEF Covered, Places
<1>8. client'[c].listed \subseteq 1 .. client'[c].seen /\ client'[c].seen \in 0 .. Len(sessions')
  BY <1>1, <1>2 DEF Active
<1>9. \A n \in Active' : n \in client'[c].listed
  BY <1>1, <1>2
<1> QED BY <1>1, <1>5, <1>7, <1>8, <1>9 DEF Tracked

\* A request that finds a session of its name takes one from those to be sent.
LEMMA FoundTracked ==
    ASSUME TableOK, UNCHANGED sessions, NEW c, Tracked(c), client[c].pc = "stopping", client[c].todo # <<>>,
           NEW n \in NewestOf(Head(client[c].todo)),
           client'[c] = [client[c] EXCEPT !.pc = "found", !.found = n, !.todo = Tail(client[c].todo)]
    PROVE  Tracked(c)'
<1>. DEFINE called == Head(client[c].todo)
            rest == Tail(client[c].todo)
<1>1. n \in Active /\ n \in DOMAIN sessions /\ sessions[n].project = called
  BY DEF NewestOf, Active
<1>2. /\ DOMAIN client'[c] = {"pc", "said", "todo", "found", "listed", "seen"}
      /\ client'[c].pc = "found" /\ client'[c].said = client[c].said /\ client'[c].todo = rest
      /\ client'[c].found = n
      /\ client'[c].listed = client[c].listed /\ client'[c].seen = client[c].seen
  BY DEF Tracked
<1>3. PICK S : client[c].todo \in Seq(S)
  BY DEF Tracked
<1>4. rest \in Seq(S)
  BY <1>3, HeadTailProperties
<1>5. Covered(c) /\ client[c].said # "stopped"
  BY DEF Tracked, Counting
<1>6. Active' = Active
  BY DEF Active
<1>7. ASSUME NEW name
      PROVE  Cardinality(Standing(c, name)') <=
                 Cardinality(EndedSince(c, name)') + Cardinality(Places(rest, name)) + Open(c, name)'
  <2>1. Standing(c, name)' = Standing(c, name) /\ EndedSince(c, name)' = EndedSince(c, name)
    BY <1>2, <1>6 DEF Standing, EndedSince, OfName
  <2>2. /\ Cardinality(Standing(c, name)) \in Nat /\ Cardinality(EndedSince(c, name)) \in Nat
        /\ Cardinality(Places(client[c].todo, name)) \in Nat
    BY Countable
  <2>3. Cardinality(Standing(c, name)) <=
          Cardinality(EndedSince(c, name)) + Cardinality(Places(client[c].todo, name)) + Open(c, name)
    BY <1>5 DEF Covered
  <2>4. /\ Cardinality(Places(rest, name)) \in Nat
        /\ called = name => Cardinality(Places(client[c].todo, name)) = Cardinality(Places(rest, name)) + 1
        /\ called # name => Cardinality(Places(client[c].todo, name)) = Cardinality(Places(rest, name))
    BY <1>3, Popped
  <2>5. Open(c, name) = 0 /\ Open(c, name)' = IF called = name THEN 1 ELSE 0
    BY <1>1, <1>2, <1>6 DEF Open
  <2>. HIDE DEF rest, called
  <2> QED BY <2>1, <2>2, <2>3, <2>4, <2>5
<1>. HIDE DEF rest, called
<1>8. Covered(c)'
  BY <1>2, <1>7 DEF Covered, Places
<1>9. /\ client'[c].seen \in 0 .. Len(sessions') /\ client'[c].listed \subseteq 1 .. client'[c].seen
  BY <1>2 DEF Tracked
<1>10. \A m \in Active' : m <= client'[c].seen => m \in client'[c].listed
  BY <1>2, <1>6 DEF Tracked, Counting
<1> QED BY <1>1, <1>2, <1>3, <1>4, <1>5, <1>8, <1>9, <1>10 DEF Tracked

\* Of "looper takeover stop" (takeover.rs 114-129, routes.rs 1042-1060): when it
\* says it stopped every session, it did, or a newer one of the same project in
\* its place, however many clients start, list and stop sessions.
THEOREM StopIsHonest == TakeoverInit /\ [][TakeoverNext]_takeoverVars => []StoppedIsStopped
<1>1. TakeoverInit => StopInv
  <2>. SUFFICES ASSUME TakeoverInit PROVE StopInv
    OBVIOUS
  <2>1. <<>> \in Seq({}) /\ Len(sessions) = 0
    BY EmptySeq DEF TakeoverInit
  <2>2. TableOK
    BY <2>1 DEF TakeoverInit, TableOK
  <2>3. ASSUME NEW c \in Clients PROVE Tracked(c)
    <3>1. client[c] = Says("something") /\ sessions = <<>>
      BY <2>3 DEF TakeoverInit
    <3>2. /\ DOMAIN client[c] = {"pc", "said", "todo", "found", "listed", "seen"} /\ ~Counting(c)
          /\ client[c].seen = 0 /\ client[c].listed = {} /\ client[c].todo = <<>> /\ client[c].said = "something"
          /\ client[c].pc = "idle"
      BY <3>1 DEF Says, Counting
    <3>3. 0 \in 0 .. Len(sessions)
      BY <2>1
    <3>4. \E S : client[c].todo \in Seq(S)
      BY <2>1, <3>2
    <3> QED BY <3>2, <3>3, <3>4 DEF Tracked
  <2> QED BY <2>2, <2>3 DEF StopInv, TakeoverInit
<1>2. StopInv /\ [TakeoverNext]_takeoverVars => StopInv'
  <2>. SUFFICES ASSUME StopInv, [TakeoverNext]_takeoverVars PROVE StopInv'
    OBVIOUS
  <2>0. TableOK /\ DOMAIN client = Clients /\ \A c \in Clients : Tracked(c)
    BY DEF StopInv
  <2>1. ASSUME NEW c \in Clients, NEW row, client' = [client EXCEPT ![c] = row], Onward, Tracked(c)'
        PROVE  StopInv'
    <3>1. ASSUME NEW b \in Clients, b # c PROVE Tracked(b)'
      <4>1. client'[b] = client[b]
        BY <2>1, <3>1
      <4> QED BY <2>0, <2>1, <4>1, OthersTracked
    <3>2. DOMAIN client' = Clients
      BY <2>0, <2>1
    <3> QED BY <2>1, <3>1, <3>2 DEF StopInv, Onward
  <2>2. ASSUME NEW c \in Clients, Ends(c), Onward PROVE StopInv'
    <3>1. client'[c] = Says("something") /\ client' = [client EXCEPT ![c] = Says("something")]
      BY <2>0, <2>2 DEF Ends
    <3>2. Tracked(c)'
      BY <2>2, <3>1, SaysTracked DEF Onward
    <3> QED BY <2>1, <2>2, <3>1, <3>2
  <2>4. UNCHANGED sessions => Onward
    BY <2>0, Still
  <2>5. ASSUME NEW c \in Clients, StartTakeover(c) PROVE StopInv'
    <3>1. Onward
      BY <2>0, <2>4, <2>5, Inserted DEF StartTakeover
    <3> QED BY <2>2, <2>5, <3>1 DEF StartTakeover
  <2>6. ASSUME NEW c \in Clients, StopOne(c) PROVE StopInv'
    <3>1. UNCHANGED sessions /\ Onward
      BY <2>4, <2>6 DEF StopOne
    <3>2. PICK name :
              client' = [client EXCEPT ![c] = [Says("nothing") EXCEPT !.pc = "stopping", !.todo = <<name>>]]
      BY <2>6 DEF StopOne
    <3>. DEFINE row == [Says("nothing") EXCEPT !.pc = "stopping", !.todo = <<name>>]
    <3>3. /\ DOMAIN row = {"pc", "said", "todo", "found", "listed", "seen"} /\ row.pc = "stopping"
          /\ row.said = "nothing" /\ row.todo = <<name>> /\ row.listed = {} /\ row.seen = 0
      BY DEF Says
    <3>4. client' = [client EXCEPT ![c] = row] /\ client'[c] = row
      BY <2>0, <3>2
    <3>. HIDE DEF row
    <3>5. Len(sessions') \in Nat /\ DOMAIN sessions' = 1 .. Len(sessions')
      BY <3>1, LenProperties DEF Onward, TableOK
    <3>6. \A m : Standing(c, m)' = {} /\ Open(c, m)' = 0
      BY <3>3, <3>4 DEF Standing, OfName, Open
    <3>7. Covered(c)'
      <4>1. ASSUME NEW m
            PROVE  /\ Cardinality(EndedSince(c, m)') \in Nat
                   /\ Cardinality({i \in DOMAIN <<name>> : <<name>>[i] = m}) \in Nat
        <5>1. IsFiniteSet(1 .. Len(sessions')) /\ EndedSince(c, m)' \subseteq 1 .. Len(sessions')
          <6>1. EndedSince(c, m)' \subseteq (1 .. Len(sessions'))
            BY <3>3, <3>4, <3>5 DEF EndedSince, OfName
          <6>2. IsFiniteSet(1 .. Len(sessions'))
            BY <3>5, FS_Interval
          <6> QED BY <6>1, <6>2
        <5>2. IsFiniteSet({1}) /\ {i \in DOMAIN <<name>> : <<name>>[i] = m} \subseteq {1}
          BY FS_Singleton
        <5> QED BY <5>1, <5>2, FS_Subset, FS_CardinalityType
      <4>2. Cardinality({}) = 0
        BY FS_EmptySet
      <4>3. \A a, b \in Nat : 0 <= a + b + 0
        OBVIOUS
      <4>4. ASSUME NEW m
            PROVE  Cardinality(Standing(c, m)') <= Cardinality(EndedSince(c, m)')
                       + Cardinality(Places(client'[c].todo, m)) + Open(c, m)'
        <5>1. /\ Cardinality(Standing(c, m)') = 0 /\ Open(c, m)' = 0
              /\ Cardinality(EndedSince(c, m)') \in Nat
          BY <3>6, <4>1, <4>2
        <5>2. Cardinality(Places(client'[c].todo, m)) \in Nat
          BY <3>3, <3>4, <4>1 DEF Places
        <5> QED BY <4>3, <5>1, <5>2
      <4> QED BY <4>4 DEF Covered, Places
    <3>8. <<name>> \in Seq({name})
      OBVIOUS
    <3>9. \A m \in Active' : m <= 0 => m \in {}
      BY <3>5 DEF Active
    <3>10. Tracked(c)'
      <4>1. /\ DOMAIN client'[c] = {"pc", "said", "todo", "found", "listed", "seen"}
            /\ client'[c].pc = "stopping" /\ client'[c].said = "nothing" /\ client'[c].todo = <<name>>
            /\ client'[c].listed = {} /\ client'[c].seen = 0
        BY <3>3, <3>4
      <4>2. \E S : client'[c].todo \in Seq(S)
        BY <3>8, <4>1
      <4>3. client'[c].seen \in 0 .. Len(sessions') /\ client'[c].listed \subseteq 1 .. client'[c].seen
        BY <3>5, <4>1
      <4>4. \A n \in Active' : n <= client'[c].seen => n \in client'[c].listed
        BY <3>9, <4>1
      <4> QED BY <3>7, <4>1, <4>2, <4>3, <4>4 DEF Tracked
    <3> QED BY <2>1, <3>1, <3>4, <3>10
  <2>7. ASSUME NEW c \in Clients, ListToStop(c) PROVE StopInv'
    <3>1. UNCHANGED sessions /\ Onward
      BY <2>4, <2>7 DEF ListToStop
    <3>2. CASE Ends(c)
      BY <2>2, <3>1, <3>2
    <3>3. CASE ~Ends(c)
      <4>1. PICK order \in [1 .. Cardinality(Active) -> Active] :
                /\ Range(order) = Active
                /\ client' = [client EXCEPT ![c] =
                       [pc |-> "stopping", said |-> "nothing", found |-> 0, seen |-> Len(sessions), listed |-> Active,
                        todo |-> [i \in DOMAIN order |-> sessions[order[i]].project]]]
        BY <2>7, <3>3 DEF ListToStop
      <4>. DEFINE row == [pc |-> "stopping", said |-> "nothing", found |-> 0, seen |-> Len(sessions), listed |-> Active,
                          todo |-> [i \in DOMAIN order |-> sessions[order[i]].project]]
      <4>2. client' = [client EXCEPT ![c] = row]
        BY <4>1
      <4>3. client'[c] = row
        BY <2>0, <4>2
      <4>4. Tracked(c)'
        BY <2>0, <3>1, <4>1, <4>3, ListTracked
      <4>. HIDE DEF row
      <4> QED BY <2>1, <3>1, <4>2, <4>4
    <3> QED BY <3>2, <3>3
  <2>8. ASSUME NEW c \in Clients, FindSession(c) PROVE StopInv'
    <3>1. client[c].pc = "stopping" /\ client[c].todo # <<>> /\ UNCHANGED sessions /\ Onward
      BY <2>4, <2>8 DEF FindSession
    <3>2. CASE Ends(c)
      BY <2>2, <3>1, <3>2
    <3>3. CASE ~Ends(c)
      <4>0. PICK n \in NewestOf(Head(client[c].todo)) :
                client' = [client EXCEPT ![c].pc = "found", ![c].found = n, ![c].todo = Tail(@)]
        BY Zenon, <2>8, <3>3 DEF FindSession
      <4>1. client' = [client EXCEPT ![c] =
                         [client[c] EXCEPT !.pc = "found", !.found = n, !.todo = Tail(client[c].todo)]]
        BY <2>0, <3>1, <4>0 DEF Tracked
      <4>2. client'[c] = [client[c] EXCEPT !.pc = "found", !.found = n, !.todo = Tail(client[c].todo)]
        BY <2>0, <4>1
      <4>3. Tracked(c)'
        BY <2>0, <3>1, <4>2, FoundTracked
      <4> QED BY <2>1, <3>1, <4>1, <4>3
    <3> QED BY <3>2, <3>3
  <2>9. ASSUME NEW c \in Clients, UpdateStatus(c) PROVE StopInv'
    <3>1. client[c].pc = "found" /\ client[c].found \in DOMAIN sessions /\ client[c].said # "stopped"
      BY <2>0, <2>9 DEF UpdateStatus, Tracked
    <3>2. CASE UNCHANGED sessions /\ Ends(c)
      BY <2>2, <2>4, <3>2
    <3>3. CASE /\ sessions' = [sessions EXCEPT ![client[c].found].status = "cancelled"]
               /\ client' = [client EXCEPT ![c].pc = "ended"]
      <4>1. Onward /\ client[c].found \notin Active'
        BY <2>0, <3>1, <3>3, Deleted
      <4>2. client' = [client EXCEPT ![c] = [client[c] EXCEPT !.pc = "ended"]]
        BY <3>3
      <4>3. /\ DOMAIN client'[c] = DOMAIN client[c] /\ client'[c].pc = "ended"
            /\ client'[c].said = client[c].said /\ client'[c].todo = client[c].todo
            /\ client'[c].listed = client[c].listed /\ client'[c].seen = client[c].seen
        BY <2>0, <4>2 DEF Tracked
      <4>4. Counting(c)
        BY <3>1 DEF Counting
      <4>5. Tracked(c)'
        BY <2>0, <3>1, <4>1, <4>3, <4>4, StillTracked
      <4> QED BY <2>1, <4>1, <4>2, <4>5
    <3> QED BY <2>9, <3>2, <3>3 DEF UpdateStatus
  <2>11. ASSUME NEW c \in Clients, CancelWork(c) PROVE StopInv'
    <3>1. client[c].pc = "ended" /\ UNCHANGED sessions /\ Onward
      BY <2>4, <2>11 DEF CancelWork
    <3>2. CASE Ends(c)
      BY <2>2, <3>1, <3>2
    <3>3. CASE client' = [client EXCEPT ![c] = [client[c] EXCEPT !.pc = "stopping", !.found = 0]]
      <4>1. /\ DOMAIN client'[c] = DOMAIN client[c] /\ client'[c].pc = "stopping"
            /\ client'[c].said = client[c].said /\ client'[c].todo = client[c].todo
            /\ client'[c].listed = client[c].listed /\ client'[c].seen = client[c].seen
        BY <2>0, <3>3 DEF Tracked
      <4>2. Counting(c) /\ client[c].said # "stopped"
        BY <2>0, <3>1 DEF Counting, Tracked
      <4>3. Tracked(c)'
        BY <2>0, <3>1, <4>1, <4>2, StillTracked
      <4> QED BY <2>1, <3>1, <3>3, <4>3
    <3> QED BY <2>11, <3>2, <3>3 DEF CancelWork
  <2>12. ASSUME NEW c \in Clients, SayStopped(c) PROVE StopInv'
    <3>1. /\ client[c].pc = "stopping" /\ client[c].todo = <<>> /\ UNCHANGED sessions /\ Onward
          /\ client' = [client EXCEPT ![c] = [client[c] EXCEPT !.pc = "idle", !.said = "stopped"]]
      BY <2>0, <2>4, <2>12 DEF SayStopped
    <3>2. /\ DOMAIN client'[c] = DOMAIN client[c] /\ client'[c].pc = "idle"
          /\ client'[c].said = "stopped" /\ client'[c].todo = client[c].todo
          /\ client'[c].listed = client[c].listed /\ client'[c].seen = client[c].seen
      BY <2>0, <3>1 DEF Tracked
    <3>3. Counting(c)
      BY <3>1 DEF Counting
    <3>4. Tracked(c)'
      BY <2>0, <3>1, <3>2, <3>3, StillTracked
    <3> QED BY <2>1, <3>1, <3>4
  <2>10. ASSUME UNCHANGED <<sessions, client>> PROVE StopInv'
    <3>1. \A c \in Clients : client'[c] = client[c]
      BY <2>10
    <3> QED BY <2>0, <2>4, <2>10, <3>1, OthersTracked DEF StopInv, Onward
  <2> QED BY <2>5, <2>6, <2>7, <2>8, <2>9, <2>10, <2>11, <2>12 DEF TakeoverNext, Admit, takeoverVars
<1>3. StopInv => StoppedIsStopped
  <2>. SUFFICES ASSUME StopInv, NEW c \in Clients, client[c].said = "stopped", NEW name
                PROVE  Cardinality({n \in client[c].listed : sessions[n].project = name} \cap Active) <=
                         Cardinality({n \in (client[c].seen + 1) .. Len(sessions) : sessions[n].project = name} \ Active)
    BY Zenon DEF StoppedIsStopped
  <2>1. TableOK /\ Tracked(c) /\ Covered(c) /\ client[c].todo = <<>>
    BY DEF StopInv, Tracked, Counting
  <2>2. Places(client[c].todo, name) = {} /\ Cardinality(Places(client[c].todo, name)) = 0
    <3>1. DOMAIN client[c].todo = {}
      <4>1. <<>> \in Seq({}) /\ Len(<<>>) = 0
        BY EmptySeq
      <4>2. DOMAIN <<>> = 1 .. 0
        BY <4>1, LenProperties
      <4> QED BY <2>1, <4>2
    <3>2. Places(client[c].todo, name) = {}
      BY <3>1 DEF Places
    <3> QED BY <3>2, FS_EmptySet
  <2>3. Cardinality(Standing(c, name)) \in Nat /\ Cardinality(EndedSince(c, name)) \in Nat
    BY <2>1, Countable
  <2>4. /\ Cardinality(Standing(c, name)) <=
             Cardinality(EndedSince(c, name)) + Cardinality(Places(client[c].todo, name)) + Open(c, name)
        /\ Open(c, name) = 0
    BY <2>1 DEF Covered, Tracked, Open
  <2>5. Cardinality(Standing(c, name)) <= Cardinality(EndedSince(c, name))
    BY <2>2, <2>3, <2>4
  <2> QED BY <2>5 DEF Standing, EndedSince, OfName
<1> QED BY <1>1, <1>2, <1>3, PTL
=============================================================================
