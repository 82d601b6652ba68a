-------------------------------- MODULE FakeGh --------------------------------
(***************************************************************************)
(* The double of GitHub's command line in the end-to-end tests (crate      *)
(* looper-e2e, bin/fake-gh).  Every call is a process of its own: it reads *)
(* the whole state from a file, finds its answer, and when the call        *)
(* changes something writes the whole state back; nothing keeps two calls  *)
(* apart.  looperd runs several gh at a time.  An argument list is a       *)
(* sequence of tokens: what the double's scanners tell apart, already      *)
(* split.  The texts of bodies and the fixed fields of a pull request are  *)
(* left out.                                                               *)
(***************************************************************************)
EXTENDS Integers, Sequences, FiniteSets, FiniteSetsExt, TLC

CONSTANTS
    Callers,    \* who runs gh at the same time
    Argvs,      \* the argument lists they use
    Mode,       \* LOOPER_E2E_FAKE_GH_MODE
    Allowlist,  \* the schema: the fields a key may ask for, for some keys
    MaxCalls    \* bound: calls in all

ASSUME FakeGhAssumption == Mode \in {"strict", "record", "replay"} /\ MaxCalls \in Nat

VARIABLES
    file,   \* the state file: is its text whole, empty (being written) or torn, and its state
    proc,   \* the process of a caller: where it is, what it loaded or will save
    head,   \* the commit of the pull request's branch: the file's, or a newer one
    saved,  \* what the answers of the calls that saved something amount to
    stale,  \* the processes that loaded a state and over whose loading another has saved since
    lost,   \* has one of these saved?  What the other saved is gone
    calls

fakeVars == <<file, proc, head, saved, stale, lost, calls>>

Word(w)      == [kind |-> "word", name |-> w, value |-> ""]
Route(r, of) == [kind |-> "word", name |-> r, value |-> of]   \* a path of the API, and its last part
Flag(f)      == [kind |-> "flag", name |-> f, value |-> ""]
FlagIs(f, v) == [kind |-> "flag=", name |-> f, value |-> v]
Pair(k, v)   == [kind |-> "pair", name |-> k, value |-> v]    \* k=v, after -f or -F

------------------------------------------------------------------------------
(* The scanners of arguments *)

TakesValue(t) ==
    /\ t.kind = "flag"
    /\ t.name \in {"-X", "--method", "-f", "-F", "--field", "--raw-field", "-H", "--header", "--hostname",
                   "--repo", "--json", "--jq", "--template", "--input"}

\* A flag's value is skipped, unless the flag was itself skipped as a value.
Words(argv) ==
    LET skipped[i \in 1 .. Len(argv)] == i > 1 /\ ~skipped[i - 1] /\ TakesValue(argv[i - 1])
        places == SelectSeq([i \in 1 .. Len(argv) |-> i],
                            LAMBDA i : ~skipped[i] /\ argv[i].kind \in {"word", "pair"})
    IN  [n \in DOMAIN places |-> argv[places[n]]]

CommandKey(argv) ==
    LET words == Words(argv) IN [n \in 1 .. Min({2, Len(words)}) |-> words[n].name]
KeyOf == [argv \in Argvs |-> CommandKey(argv)]

NoWord == Word("")
FirstWord(argv, from) ==
    LET words == Words(SubSeq(argv, from, Len(argv))) IN IF words = <<>> THEN NoWord ELSE words[1]

FlagValue(argv, flag) ==
    LET hits == {i \in DOMAIN argv : \/ argv[i] = Flag(flag) /\ i < Len(argv)
                                     \/ argv[i].kind = "flag=" /\ argv[i].name = flag}
    IN  IF hits = {} THEN ""
        ELSE IF argv[Min(hits)].kind = "flag" THEN argv[Min(hits) + 1].name
        ELSE argv[Min(hits)].value

FieldValue(argv, key) ==
    LET hits == {i \in 1 .. Len(argv) - 1 : /\ argv[i] \in {Flag("-F"), Flag("-f")}
                                            /\ argv[i + 1].kind = "pair" /\ argv[i + 1].name = key}
    IN  IF hits = {} THEN "" ELSE argv[Min(hits) + 1].value

\* The list behind --json; a pull request's number is the first argument that is one.
Numbers == {"1", "2"}
RequestedFields(argv) == LET list == FlagValue(argv, "--json") IN IF list = "" THEN {} ELSE {list}
PullNumber(argv) == {argv[i].name : i \in {j \in DOMAIN argv : argv[j].kind = "word" /\ argv[j].name \in Numbers}}
Has(argv, flag) == \E i \in DOMAIN argv : argv[i] = Flag(flag)

------------------------------------------------------------------------------
(* The state *)

\* The pull request o/r#1 with one review thread; its body closes the issue.
NewPull == [state |-> "OPEN", auto |-> FALSE, sha |-> "old", reviews |-> 0, resolved |-> FALSE, replies |-> 0]

\* A file that names its fields as this program does, and one that the helpers
\* of the tests wrote: they write pull_requests, this program reads pullRequests,
\* and a field that is missing has its default.
OwnFile(issue)    == [pulls |-> [n \in {"1"} |-> NewPull], issue |-> issue]
HelperFile(issue) == [pulls |-> <<>>, issue |-> issue]
NoFile            == HelperFile("none")

Declared == <<"auth", "status">> :> 0   \* the commands of the file, and their exit codes

\* A process; of the one before, its exit code and the head it showed are kept.
Idle == [pc |-> "idle", argv |-> <<>>, st |-> NoFile, exit |-> 0, what |-> "", head |-> "none"]

FakeGhInit ==
    /\ \E issue \in {"none", "open"} : \E st \in {OwnFile(issue), HelperFile(issue), NoFile} :
           file = [text |-> "whole", st |-> st]
    /\ proc = [c \in Callers |-> Idle] /\ head = "old" /\ stale = {} /\ lost = FALSE /\ calls = 0
    /\ saved = [merged |-> FALSE, auto |-> FALSE, resolved |-> FALSE, replies |-> 0, reviews |-> 0]

\* The pull request of a number; without a repository any will do.
LookupPullRequest(st, repo, n) == {m \in DOMAIN st.pulls : m = n /\ repo \in {"", "o/r"}}
\* The one of a key; a host in front of the repository makes another key.
OfKey(st, repo, n) == {m \in DOMAIN st.pulls : m = n /\ repo = "o/r"}

\* What is shown of the head: the branch's commit, not the file's.
HydratePr(pr) == [save |-> FALSE, exit |-> 0, what |-> pr.state, head |-> head]

------------------------------------------------------------------------------
(* Answers.  A handler that has none lets the next one try. *)

Reply(exit, what) == [save |-> FALSE, exit |-> exit, what |-> what, head |-> "none"]
SaveAndSay(st, what) == [save |-> TRUE, exit |-> 0, what |-> what, st |-> st]
Fails(why) == Reply(1, why)
NoAnswer == {}
FirstAnswer(handlers) ==
    LET ready == {i \in DOMAIN handlers : handlers[i] # NoAnswer} IN CHOOSE a \in handlers[Min(ready)] : TRUE

\* A mutant of the next: the merge forgets the issue that the body closes.
CloseNothing(st) == st
CloseLinkedIssue(st) == IF st.issue = "open" THEN [st EXCEPT !.issue = "closed"] ELSE st

\* A merge of what cannot be found succeeds; whether the head is still the one
\* that the caller saw is not looked at.
HandlePrMerge(st, argv) ==
    LET found == OfKey(st, FlagValue(argv, "--repo"), FirstWord(argv, 3).name) IN
    IF found = {} THEN Reply(0, "merge")
    ELSE LET n == CHOOSE m \in found : TRUE IN
         IF Has(argv, "--auto") THEN SaveAndSay([st EXCEPT !.pulls[n].auto = TRUE], "auto")
         ELSE SaveAndSay(CloseLinkedIssue([st EXCEPT !.pulls[n].state = "MERGED"]), "merge")

HandlePrReviews(st, argv, route) ==
    IF route.name # "reviews" \/ route.value \notin DOMAIN st.pulls THEN NoAnswer
    ELSE IF FlagValue(argv, "--method") # "POST" THEN {Reply(0, "reviews")}
    ELSE {SaveAndSay([st EXCEPT !.pulls[route.value].reviews = @ + 1], "review")}

HandlePrReviewComments(st, route) ==
    IF route.name = "review-comments" /\ \E n \in DOMAIN st.pulls : n = route.value /\ st.pulls[n].reviews > 0
    THEN {Reply(0, "no-comments")} ELSE NoAnswer

\* Any path below a pull request's that is not about reviews.
HandlePrApi(st, route) ==
    IF route.name \in {"pull", "pull-comments"} /\ route.value \in DOMAIN st.pulls
    THEN {HydratePr(st.pulls[route.value])} ELSE NoAnswer

\* By the head in the file, which need not be the head that is shown.
HandleCheckRunsApi(st, route) ==
    IF route.name = "check-runs" /\ \E n \in DOMAIN st.pulls : st.pulls[n].sha = route.value
    THEN {Reply(0, "check-runs")} ELSE NoAnswer

LookupThread(st, id) == IF id = "T1" THEN DOMAIN st.pulls ELSE {}

SetThreadResolved(st, id, resolved) ==
    LET n == LookupThread(st, id) IN
    IF n = {} THEN {Fails("review-thread-not-found")}
    ELSE {SaveAndSay([st EXCEPT !.pulls = [m \in n |-> [st.pulls[m] EXCEPT !.resolved = resolved]]],
                     IF resolved THEN "resolved" ELSE "unresolved")}

AppendThreadReply(st, id) ==
    LET n == LookupThread(st, id) IN
    IF n = {} THEN {Fails("review-thread-not-found")}
    ELSE {SaveAndSay([st EXCEPT !.pulls = [m \in n |-> [st.pulls[m] EXCEPT !.replies = @ + 1]]], "reply")}

\* The operation is found by its name in the text of the query.
HandleGraphqlState(st, argv) ==
    LET op == FieldValue(argv, "query")  id == FieldValue(argv, "threadId")
        known == LookupPullRequest(st, FieldValue(argv, "owner"), FieldValue(argv, "prNumber"))
    IN  CASE op = "addPullRequestReviewThreadReply" -> IF id = "" THEN NoAnswer ELSE AppendThreadReply(st, id)
          [] op = "unresolveReviewThread" -> SetThreadResolved(st, id, FALSE)
          [] op = "resolveReviewThread"   -> SetThreadResolved(st, id, TRUE)
          [] op = "reviewThreads"         -> IF known = {} THEN NoAnswer ELSE {Reply(0, "threads")}
          [] op = "node"                  -> IF LookupThread(st, id) = {} THEN NoAnswer ELSE {Reply(0, "thread")}
          [] OTHER -> NoAnswer

HandleApi(st, argv) ==
    LET route == FirstWord(argv, 2)
        graphql == Len(argv) > 1 /\ argv[2] = Word("graphql")
        When(condition, answer) == IF condition THEN {answer} ELSE NoAnswer
    IN  FirstAnswer(<<
            When(route.name = "user", Reply(0, "login")),
            IF graphql THEN HandleGraphqlState(st, argv) ELSE NoAnswer,
            When(graphql, Reply(0, "no-data")),
            HandlePrReviews(st, argv, route),
            HandlePrReviewComments(st, route),
            HandlePrApi(st, route),
            HandleCheckRunsApi(st, route),
            When(route.name \in {"issue-comments", "pull-comments"} /\ FlagValue(argv, "--method") = "POST",
                 Reply(0, "comment")),
            When(route.name = "issue" /\ st.issue # "none", Reply(0, st.issue)),
            When(Has(argv, "--paginate"), Reply(0, "empty-list")),
            When(route.name = "compare", Reply(0, "comparison")),
            When(Mode = "strict" /\ route = NoWord, Fails("unsupported")),
            {Reply(0, "fake-issue")}>>)

\* Without an allowlist no field is known, in any mode.
FieldsAllowed(argv) ==
    LET key == KeyOf[argv]
        allowed == IF key \in DOMAIN Allowlist THEN Allowlist[key] ELSE {}
    IN  (allowed = {} => Mode # "strict") /\ RequestedFields(argv) \subseteq allowed

HandlePrView(st, argv) ==
    LET found == UNION {LookupPullRequest(st, FlagValue(argv, "--repo"), n) : n \in PullNumber(argv)}
    IN  IF found = {} THEN Reply(0, "fake-title")
        ELSE HydratePr(st.pulls[CHOOSE n \in found : TRUE])

AnswerOf(st, argv) ==
    LET key == KeyOf[argv] IN
    CASE key \in DOMAIN Declared -> Reply(Declared[key], "declared")
      [] key # <<>> /\ key[1] = "api" -> HandleApi(st, argv)
      [] key = <<"auth", "token">> -> Reply(0, "token")
      [] key = <<"pr", "merge">> -> HandlePrMerge(st, argv)
      [] key \in {<<"pr", "view">>, <<"pr", "list">>, <<"issue", "list">>} ->
             IF ~FieldsAllowed(argv) THEN Fails("unknown-JSON-field")
             ELSE IF key = <<"pr", "view">> THEN HandlePrView(st, argv) ELSE Reply(0, "fake-title")
      [] OTHER -> IF Mode = "strict" THEN Fails("unsupported") ELSE Reply(0, "{}")

------------------------------------------------------------------------------
(* Processes *)

End(c, answer) == proc' = [proc EXCEPT ![c] = [Idle EXCEPT !.exit = answer.exit, !.head = answer.head]]

\* The state is loaded; a text that is not whole does not parse.
Start(c, argv) ==
    /\ proc[c].pc = "idle" /\ calls < MaxCalls /\ calls' = calls + 1
    /\ IF file.text = "whole"
       THEN proc' = [proc EXCEPT ![c] = [Idle EXCEPT !.pc = "loaded", !.argv = argv, !.st = file.st]]
       ELSE End(c, Reply(2, "load-fake-gh-state"))
    /\ stale' = stale \ {c}
    /\ UNCHANGED <<file, head, saved, lost>>

\* A merge loads the state once more.
Serve(c) ==
    /\ proc[c].pc = "loaded"
    /\ LET argv == proc[c].argv
           again == KeyOf[argv] = <<"pr", "merge">>
           answer == AnswerOf(IF again THEN file.st ELSE proc[c].st, argv)
       IN  /\ IF again /\ file.text # "whole" THEN End(c, Fails("load-fake-gh-state"))
              ELSE IF answer.save
              THEN proc' = [proc EXCEPT ![c] = [@ EXCEPT !.pc = "truncate", !.st = answer.st, !.what = answer.what]]
              ELSE End(c, answer)
           /\ stale' = IF again THEN stale \ {c} ELSE stale
    /\ UNCHANGED <<file, head, saved, lost, calls>>

Truncate(c) ==
    /\ proc[c].pc = "truncate" /\ proc' = [proc EXCEPT ![c].pc = "write"]
    /\ file' = [file EXCEPT !.text = "empty"]
    /\ UNCHANGED <<head, saved, stale, lost, calls>>

\* What the answer of a call that has saved says has happened.  A merge of what is
\* not found also answers that all is well; it saves nothing and is not counted.
Promise(what) ==
    CASE what = "merge"      -> [saved EXCEPT !.merged = TRUE]
      [] what = "auto"       -> [saved EXCEPT !.auto = TRUE]
      [] what = "review"     -> [saved EXCEPT !.reviews = @ + 1]
      [] what = "reply"      -> [saved EXCEPT !.replies = @ + 1]
      [] what = "resolved"   -> [saved EXCEPT !.resolved = TRUE]
      [] what = "unresolved" -> [saved EXCEPT !.resolved = FALSE]

\* Over a text that another process wrote meanwhile, the longer text's end may stay.
Write(c) ==
    /\ proc[c].pc = "write" /\ End(c, Reply(0, proc[c].what))
    /\ \/ file' = [text |-> "whole", st |-> proc[c].st]
       \/ file.text # "empty" /\ file.st # proc[c].st /\ file' = [text |-> "torn", st |-> proc[c].st]
    /\ saved' = Promise(proc[c].what)
    /\ lost' = (lost \/ c \in stale)
    /\ stale' = {d \in Callers \ {c} : proc[d].pc # "idle"}
    /\ UNCHANGED <<head, calls>>

PushBranch == head = "old" /\ head' = "new" /\ UNCHANGED <<file, proc, saved, stale, lost, calls>>

FakeGhNext ==
    \/ \E c \in Callers : (\E argv \in Argvs : Start(c, argv)) \/ Serve(c) \/ Truncate(c) \/ Write(c)
    \/ PushBranch

------------------------------------------------------------------------------
(* Properties *)

(* A merged pull request's issue is closed in every state that is saved,   *)
(* however the calls interleave (handle_pr_merge loads anew).  And only a  *)
(* save over another that it did not see loses anything: until there is    *)
(* one, however many calls read, save and fail on a file half written      *)
(* beside each other, the file holds what every call that saved has        *)
(* answered, and is whole when nobody writes (the handlers of merges,      *)
(* reviews and threads, load_state, save_state).                           *)
SavesAreKept ==
    LET pulls == file.st.pulls  writing == \E c \in Callers : proc[c].pc = "write" IN
    /\ \A n \in DOMAIN pulls : pulls[n].state = "MERGED" => file.st.issue # "open"
    /\ ~lost => /\ ~writing => file.text = "whole"
                /\ \A n \in DOMAIN pulls :
                    /\ saved.merged <=> pulls[n].state = "MERGED"
                    /\ saved.auto <=> pulls[n].auto
                    /\ saved.resolved <=> pulls[n].resolved
                    /\ saved.replies = pulls[n].replies
                    /\ saved.reviews = pulls[n].reviews
===============================================================================
