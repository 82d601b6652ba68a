------------------------------- MODULE Intake -------------------------------
(***************************************************************************)
(* An issue before planner or worker may have it: the triage of            *)
(* triage.rs and the dispatch of dispatch.rs.  Both only return what is to *)
(* be done; that their caller does it, label by label as the decision      *)
(* says, is an assumption of this module (looperd has no caller yet).      *)
(***************************************************************************)
EXTENDS Naturals, FiniteSets, FiniteSetsExt, Sequences

CONSTANTS
    MaxDays,          \* the clock, in days
    MaxIssueAge,      \* max_issue_age_days
    AutonomousDelay,  \* autonomous_delay
    MaxComments,
    Bodies            \* what comments say: sequences of lines

Commands == {"/plan", "/implement"}
Lines    == Commands \cup {"fence", "quote", "text"}

ASSUME IntakeAssumption ==
    /\ {MaxDays, MaxIssueAge, AutonomousDelay, MaxComments} \subseteq Nat
    /\ Bodies \subseteq Seq(Lines)

VARIABLES
    issue,     \* its labels and comments
    blockers,  \* whether an issue it depends on is unsatisfied
    history,   \* timeline: when looper:triaged and looper:needs-human were last set
    verdict,   \* the disposition of its last triage
    today

intakeVars == <<issue, blockers, history, verdict, today>>

Triaged    == "looper:triaged"
OutOfScope == "looper:out-of-scope"
Unclear    == "looper:needs-human"
Hold       == "hold"
DispatchLabels == {"dispatch/plan", "dispatch/implement"}
Trigger(dispatch) == IF dispatch = "dispatch/plan" THEN "looper:plan" ELSE "looper:worker-ready"
Triggers == {Trigger(d) : d \in DispatchLabels}
Labels == {Triaged, OutOfScope, Unclear, Hold, "kind/bug"} \cup DispatchLabels \cup Triggers

Modes == {"human_gated", "autonomous"}
Dispositions == {"valid", "out-of-scope", "unclear"}
Comment == [author : {"author", "maintainer"}, body : Bodies, day : 0 .. MaxDays]

IntakeTypeOK ==
    /\ issue.mode \in Modes /\ issue.labels \subseteq Labels
    /\ issue.comments \in Seq(Comment) /\ Len(issue.comments) <= MaxComments
    /\ blockers \in BOOLEAN /\ today \in 0 .. MaxDays
    /\ history \in [triaged : SUBSET (0 .. MaxDays), unclear : SUBSET (0 .. MaxDays)]
    /\ verdict \in Dispositions \cup {"none"}

IntakeInit ==
    /\ issue \in [mode : Modes, labels : {{}}, comments : {<<>>}]
    /\ blockers \in BOOLEAN /\ today = 0 /\ verdict = "none"
    /\ history = [triaged |-> {}, unclear |-> {}]

------------------------------------------------------------------------------
(* triage.rs *)

\* What the model answers: the lists it has for the dispatch label and for the
\* other three kinds of label, or something that is no answer.
LlmOutputs ==
    [disposition : Dispositions \cup {"maybe"}, comment : BOOLEAN,
     dispatch : {<<>>, <<"dispatch/plan">>, <<"dispatch/implement">>, <<"dispatch/now">>,
                 <<"dispatch/plan", "dispatch/implement">>},
     other : {<<>>, <<"kind/bug">>}]

NoOp == [noOp |-> TRUE, disposition |-> "none", clear |-> {}, remove |-> {}, apply |-> {}]
ClearsOutcome == {OutOfScope, Unclear}
Clears == {"kind/bug", OutOfScope, Unclear} \cup DispatchLabels
Decision(disposition, apply) ==
    [noOp |-> FALSE, disposition |-> disposition, clear |-> Clears, remove |-> {},
     apply |-> apply \cup {Triaged}]

ExactlyOne(list, allowed) == Len(list) = 1 /\ list[1] \in allowed
HasAnyLabels(out) == out.dispatch # <<>> \/ out.other # <<>>
ParseDecision(out) ==
    IF ~out.comment THEN NoOp
    ELSE CASE out.disposition = "valid" /\ ExactlyOne(out.other, {"kind/bug"})
                /\ ExactlyOne(out.dispatch, DispatchLabels)
                -> Decision("valid", {out.other[1], out.dispatch[1]})
           [] out.disposition = "out-of-scope" /\ ~HasAnyLabels(out)
                -> Decision("out-of-scope", {OutOfScope})
           [] out.disposition = "unclear" /\ ~HasAnyLabels(out) -> Decision("unclear", {Unclear})
           [] OTHER -> NoOp

ReTriageDecision == [noOp |-> FALSE, disposition |-> "unclear", clear |-> {},
                     remove |-> {Unclear, Triaged}, apply |-> {}]

ShouldTriage == Triaged \notin issue.labels /\ today <= MaxIssueAge

\* The author has answered since the issue was last marked unclear.
ShouldReTriage ==
    /\ Unclear \in issue.labels
    /\ \E i \in DOMAIN issue.comments, since \in history.unclear :
          issue.comments[i].author = "author" /\ issue.comments[i].day >= since

Applied(labels, d) == ((labels \ d.clear) \ d.remove) \cup d.apply

Carry(d) ==
    /\ ~d.noOp
    /\ issue' = [issue EXCEPT !.labels = Applied(@, d)]
    /\ history' = [triaged |-> IF Triaged \in d.apply THEN {today} ELSE history.triaged,
                   unclear |-> IF Unclear \in d.apply THEN {today} ELSE history.unclear]
    /\ verdict' = d.disposition
    /\ UNCHANGED <<blockers, today>>

Triage   == ShouldTriage /\ \E out \in LlmOutputs : Carry(ParseDecision(out))
ReTriage == ShouldReTriage /\ Carry(ReTriageDecision)

------------------------------------------------------------------------------
(* dispatch.rs *)

\* A command stands at the beginning of a line outside of code and quotes.
Fenced(body, i) == Cardinality({j \in 1 .. i - 1 : body[j] = "fence"}) % 2 = 1
CommandLines(body) == {i \in DOMAIN body : body[i] \in Commands /\ ~Fenced(body, i)}
ParseSlashCommand(body) == IF CommandLines(body) = {} THEN "none" ELSE body[Min(CommandLines(body))]

SingleDispatchLabel ==
    LET found == issue.labels \cap DispatchLabels
    IN IF Cardinality(found) = 1 THEN CHOOSE d \in found : TRUE ELSE "none"

\* The newest command of somebody with write access.
HasWriteAccess(user) == user = "maintainer"
Commanding == {i \in DOMAIN issue.comments :
                  /\ ParseSlashCommand(issue.comments[i].body) # "none"
                  /\ HasWriteAccess(issue.comments[i].author)}
SlashCommand == IF Commanding = {} THEN "none"
                ELSE ParseSlashCommand(issue.comments[Max(Commanding)].body)
Expected(command) == IF command = "/plan" THEN "dispatch/plan" ELSE "dispatch/implement"

IsTriaged  == Triaged \in issue.labels
Dispatched(d) == Trigger(d) \in issue.labels
PastDelay  == \E t \in history.triaged : today - t >= AutonomousDelay

\* The labels that decide returns to be added.
HumanGated(d) == /\ SlashCommand # "none" /\ IsTriaged /\ d # "none"
                 /\ d = Expected(SlashCommand) /\ ~Dispatched(d) /\ ~blockers
Autonomous(d) == /\ IsTriaged /\ d # "none" /\ Hold \notin issue.labels
                 /\ ~Dispatched(d) /\ PastDelay /\ ~blockers
Decide == LET d == SingleDispatchLabel
          IN IF IF issue.mode = "autonomous" THEN Autonomous(d) ELSE HumanGated(d)
             THEN {Trigger(d)} ELSE {}

Dispatch == /\ Decide # {}
            /\ issue' = [issue EXCEPT !.labels = @ \cup Decide]
            /\ UNCHANGED <<blockers, history, verdict, today>>

------------------------------------------------------------------------------
(* People, the issues it depends on, and the clock. *)

Relabelled(labels) == /\ issue' = [issue EXCEPT !.labels = labels]
                      /\ UNCHANGED <<blockers, history, verdict, today>>

AskAgain == Triaged \in issue.labels /\ Relabelled(issue.labels \ {Triaged})
SwitchDispatch == /\ SingleDispatchLabel # "none"
                  /\ Relabelled((issue.labels \ DispatchLabels)
                                \cup (DispatchLabels \ {SingleDispatchLabel}))
ToggleHold == Relabelled(IF Hold \in issue.labels THEN issue.labels \ {Hold}
                         ELSE issue.labels \cup {Hold})
Say == /\ Len(issue.comments) < MaxComments
       /\ \E c \in Comment : /\ c.day = today
                             /\ issue' = [issue EXCEPT !.comments = Append(@, c)]
       /\ UNCHANGED <<blockers, history, verdict, today>>
Unblock == /\ blockers /\ blockers' = FALSE
           /\ UNCHANGED <<issue, history, verdict, today>>
NextDay == /\ today < MaxDays /\ today' = today + 1
           /\ UNCHANGED <<issue, blockers, history, verdict>>

IntakeNext == \/ Triage \/ ReTriage \/ Dispatch
              \/ AskAgain \/ SwitchDispatch \/ ToggleHold \/ Say \/ Unblock \/ NextDay

------------------------------------------------------------------------------
(* Properties *)

\* Only an issue whose last triage found it valid is handed to planner or
\* worker, whatever was asked and answered in between: every verdict clears the
\* dispatch label of the one before (triage.rs:389, dispatch.rs:170-185).
DispatchedWasValid ==
    [][\A t \in Triggers : t \notin issue.labels /\ t \in issue.labels' => verdict = "valid"]_intakeVars
==============================================================================
