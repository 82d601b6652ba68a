------------------------------- MODULE GitHub -------------------------------
(***************************************************************************)
(* One issue of a repository on GitHub and the pull requests made for it,  *)
(* as the gateway of looper-github sees them.  A call that writes succeeds,*)
(* fails without effect, or fails although it had its effect (`gh` ended   *)
(* badly after the request went out); lists are answered from a cache that *)
(* keeps an answer for 30 seconds and that no write invalidates.           *)
(***************************************************************************)
EXTENDS Naturals, FiniteSets, Sequences

CONSTANTS
    MaxLoops,      \* loops of each kind
    MaxPulls,      \* pull requests
    MaxTroubles,   \* see troubles
    Cached         \* the lists whose cache is modelled

IssueLabels == {"dispatch/plan", "dispatch/implement", "looper:plan", "looper:worker-ready"}
PullLabels  == {"looper:spec-reviewing", "looper:spec-ready", "looper/reviewed",
                "looper:needs-fix"}
Branches == {"planner", "worker"} \X (1 .. MaxLoops)
Lists    == {"all", "looper:spec-reviewing", "looper:spec-ready", "looper:worker-ready"}

ASSUME GitHubAssumption ==
    /\ {MaxLoops, MaxPulls, MaxTroubles} \subseteq Nat
    /\ Cached \subseteq Lists

VARIABLES
    gh,        \* labels of the issue, pull requests, what each branch holds
    cache,     \* the cached answer of each list, if there is one
    troubles   \* how often something went wrong: a call failed, looperd died, nobody
               \* touched a pull request for seven days

githubVars == <<gh, cache, troubles>>

Pull == [branch : Branches, open : BOOLEAN, labels : SUBSET PullLabels]

GitHubTypeOK ==
    /\ gh.issue \subseteq IssueLabels
    /\ gh.pulls \in Seq(Pull) /\ Len(gh.pulls) <= MaxPulls
    /\ gh.pushed \subseteq Branches \X {"spec", "code"}
    /\ troubles \in 0 .. MaxTroubles

\* The issue has been labelled for a plan, or straight for an implementation.
GitHubInit ==
    /\ gh \in [issue : {{"dispatch/plan"}, {"dispatch/implement"}}, pulls : {<<>>}, pushed : {{}}]
    /\ cache = [l \in Lists |-> <<>>]
    /\ troubles = 0

PullIds == DOMAIN gh.pulls
OpenPulls == {n \in PullIds : gh.pulls[n].open}
HasCode(n) == <<gh.pulls[n].branch, "code">> \in gh.pushed

------------------------------------------------------------------------------
(* Repositories after a write. *)

WithIssueLabel(l)     == [gh EXCEPT !.issue = @ \cup {l}]
WithoutIssueLabel(l)  == [gh EXCEPT !.issue = @ \ {l}]
WithLabel(n, l)       == [gh EXCEPT !.pulls[n].labels = @ \cup {l}]
WithoutLabels(n, ls)  == [gh EXCEPT !.pulls[n].labels = @ \ ls]
Closed(n)             == [gh EXCEPT !.pulls[n].open = FALSE]
Pushed(b, what)       == [gh EXCEPT !.pushed = @ \cup {<<b, what>>}]
Created(b) == [gh EXCEPT !.pulls = Append(@, [branch |-> b, open |-> TRUE, labels |-> {}])]

\* GitHub takes one open pull request for a branch.
MayCreate(b) == \A n \in OpenPulls : gh.pulls[n].branch # b

(* A call that fails, and one that changes the repository into new and      *)
(* answers ok.  Removing several labels is one call each: some may be gone. *)
Trouble == troubles < MaxTroubles /\ troubles' = troubles + 1

Call(new, ok) ==
    /\ \/ ok /\ gh' = new /\ UNCHANGED troubles
       \/ ~ok /\ gh' \in {gh, new} /\ Trouble
    /\ UNCHANGED cache

RemoveLabels(n, ls) ==
    /\ \/ gh' = WithoutLabels(n, ls) /\ UNCHANGED troubles
       \/ Trouble /\ \E some \in SUBSET ls : gh' = WithoutLabels(n, some)
    /\ UNCHANGED cache

------------------------------------------------------------------------------
(* Reads. *)

View(ok) == /\ IF ok THEN UNCHANGED troubles ELSE Trouble
            /\ UNCHANGED <<gh, cache>>

\* A list holds the labels that the pull requests had.
OnList(l, n) == gh.pulls[n].open /\ l \in gh.pulls[n].labels \cup {"all"}
Fresh(l) == IF l = "looper:worker-ready" THEN l \in gh.issue
            ELSE [n \in {m \in PullIds : OnList(l, m)} |-> gh.pulls[n].labels]
Listed(l) == IF cache[l] = <<>> THEN Fresh(l) ELSE cache[l][1]

Answered(l) == /\ cache' = IF l \in Cached THEN [cache EXCEPT ![l] = <<Listed(l)>>] ELSE cache
               /\ UNCHANGED gh
List(l, ok) ==
    \/ ok /\ Answered(l) /\ UNCHANGED troubles
    \/ ~ok /\ cache[l] = <<>> /\ Trouble /\ UNCHANGED <<gh, cache>>

Expire(l) == /\ cache[l] # <<>>
             /\ cache' = [cache EXCEPT ![l] = <<>>]
             /\ UNCHANGED <<gh, troubles>>
==============================================================================
