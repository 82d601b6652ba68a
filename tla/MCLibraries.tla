----------------------------- MODULE MCLibraries -----------------------------
(***************************************************************************)
(* The parts of looper that decide, classify and repair and keep no state  *)
(* in common with each other or with the pipelines: the first state        *)
(* chooses one of a run's parts, and only this part moves.                 *)
(***************************************************************************)
EXTENDS Intake, DepGraph, PullWatch, Lifecycle, Recovery, Settings, Checkouts, Anchors, FakeGh, Takeover,
        Services

CONSTANT Parts  \* the parts of a run

VARIABLE part

MCDiffFiles == <<"a.rs", "b.rs">>

\* A command in the open, a command in a code block, and no command.
MCBodies == {<<"/plan">>, <<"fence", "/implement", "fence">>, <<"quote">>}

\* An empty file; one that leaves the work to humans and still has fields of
\* an old version; one that gives the old field's place as well; one with a
\* section the merge does not know; one that cannot be used.
MCFiles == {
    <<>>,
    "dispatch" :> ("mode" :> "human-gated" @@ "allowed_users" :> "ann")
        @@ "server" :> ("port" :> "8000" @@ "log_format" :> "json")
        @@ "tools" :> ("allow_docker" :> "true"),
    "server" :> ("log_format" :> "json") @@ "logging" :> ("format" :> "text" @@ "level" :> "debug")
        @@ "tools" :> ("allow_docker" :> "true" @@ "runtime" :> "nix"),
    "pool" :> ("max_trees" :> "2"),
    "agent" :> ("timeout_secs" :> "0")}

MCEnvironments == {
    <<>>,
    "DISPATCH_AUTONOMOUS_DELAY_SECONDS" :> "60",
    "DISPATCH_MODE" :> "??" @@ "DISPATCH_ALLOWED_USERS" :> "bob",
    "LOG_FORMAT" :> "??" @@ "LOG_LEVEL" :> "warn",
    "SERVER_PORT" :> "??" @@ "NOTIFICATIONS_ENABLED" :> "yes",
    "SERVER_PORT" :> "0"}

MCOverrides == {
    <<>>,
    "logging" :> ("format" :> "pretty"),
    "dispatch" :> ("mode" :> "human-gated") @@ "server" :> ("port" :> "9000"),
    "agent" :> <<>> @@ "projects" :> ("names" :> "one")}

\* What looper-github's gateway asks gh for, in the words it uses, and two
\* calls by hand: its GraphQL values come with the quotes of JSON.
MCGraphql(op, fields) == <<Word("api"), Word("graphql"), Flag("-f"), Pair("query", op)>> \o fields
MCThread(id) == <<Flag("-F"), Pair("threadId", id)>>
MCArgvs == {
    <<Word("auth"), Word("status")>>,
    <<Word("api"), Route("user", ""), Flag("--jq"), Word(".login")>>,
    <<Word("pr"), Word("view"), Word("1"), Flag("--repo"), Word("o/r"), Flag("--json"), Word("headRefOid")>>,
    <<Word("pr"), Word("list"), FlagIs("--repo", "o/r"), Flag("--json"), Word("mergedBy")>>,
    <<Word("pr"), Word("merge"), Word("1"), Flag("--repo"), Word("o/r"), Flag("--auto")>>,
    <<Word("pr"), Word("merge"), Word("1"), Flag("--repo"), Word("o/r"), Flag("--squash")>>,
    <<Word("pr"), Word("merge"), Word("1"), Flag("--repo"), Word("host/o/r"), Flag("--squash")>>,
    <<Word("pr"), Word("comment"), Word("1"), Flag("--repo"), Word("o/r")>>,
    <<Word("api"), Route("pull", "1")>>, <<Word("api"), Route("check-runs", "new")>>,
    <<Word("api"), Flag("--paginate"), Route("reviews", "1")>>,
    <<Word("api"), Route("reviews", "1"), Flag("--method"), Word("POST"), Flag("--input"), Word("-")>>,
    <<Word("api"), Route("review-comments", "1")>>, <<Word("api"), Route("issue", "1")>>,
    MCGraphql("resolveReviewThread", MCThread("'T1'")), MCGraphql("resolveReviewThread", MCThread("T1")),
    MCGraphql("unresolveReviewThread", MCThread("T1")),
    MCGraphql("addPullRequestReviewThreadReply", MCThread("T1")), MCGraphql("node", MCThread("T1"))}
MCAllowlist == <<"pr", "view">> :> {"headRefOid"} @@ <<"pr", "list">> :> {"number"}

\* A project whose name is its id, and one with another name whose repository's
\* address holds the first one's.
MCProjectRows == <<[id |-> "p1", name |-> "p1", repo |-> "o/rr"], [id |-> "p2", name |-> "two", repo |-> "o/r"]>>
MCRepos == {[slug |-> "o/r", named |-> "o-r"], [slug |-> "o/x", named |-> "two"]}
MCWithin == {<<"o/r", "o/rr">>}

LibrariesInit ==
    /\ part \in Parts
    /\ IntakeInit /\ (part # "intake" => issue.mode = "autonomous" /\ blockers)
    /\ DepGraphInit /\ PullWatchInit /\ LifecycleInit /\ RecoveryInit
    /\ SettingsInit /\ CheckoutsInit /\ (part # "checkouts" => setup.adopts)
    /\ AnchorsInit /\ FakeGhInit /\ (part # "fakegh" => file = [text |-> "whole", st |-> NoFile])
    /\ TakeoverInit /\ (part # "takeover" => work = {})
    /\ ServicesInit

\* All but the variables of the moving part stay as they are.
Moves(name) ==
    /\ part = name
    /\ UNCHANGED part
    /\ name # "intake"    => UNCHANGED intakeVars
    /\ name # "depgraph"  => UNCHANGED graphVars
    /\ name # "pullwatch" => UNCHANGED pullVars
    /\ name # "lifecycle" => UNCHANGED lifeVars
    /\ name # "recovery"  => UNCHANGED recVars
    /\ name # "settings"  => UNCHANGED settingsVars
    /\ name # "checkouts" => UNCHANGED checkVars
    /\ name # "anchors"   => UNCHANGED anchorVars
    /\ name # "fakegh"    => UNCHANGED fakeVars
    /\ name # "takeover"  => UNCHANGED takeoverVars
    /\ name # "services"  => UNCHANGED servicesVars

LibrariesNext ==
    \/ Moves("intake")    /\ IntakeNext
    \/ Moves("depgraph")  /\ DepGraphNext
    \/ Moves("pullwatch") /\ PullWatchNext
    \/ Moves("lifecycle") /\ LifecycleNext
    \/ Moves("recovery")  /\ RecoveryNext
    \/ Moves("settings")  /\ SettingsNext
    \/ Moves("checkouts") /\ CheckoutsNext
    \/ Moves("anchors")   /\ AnchorsNext
    \/ Moves("fakegh")    /\ FakeGhNext
    \/ Moves("takeover")  /\ TakeoverNext
    \/ Moves("services")  /\ ServicesNext

==============================================================================
