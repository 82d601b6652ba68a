------------------------------- MODULE FlowProofs -------------------------------
(***************************************************************************)
(* Theorems about the road of an issue, for any number of loops and pull   *)
(* requests, any lists in the cache and any number of failing calls and    *)
(* deaths: a spec whose last check was blocking is not made ready, and a   *)
(* worker does not open a pull request beside a spec that it could see.    *)
(***************************************************************************)
EXTENDS Flow, TLAPS

-----------------------------------------------------------------------------
(* Invariants *)

Repository == [issue : SUBSET IssueLabels, pulls : Seq(Pull), pushed : SUBSET (Branches \X {"spec", "code"})]

\* A list that is cached is of pull requests that exist; the list of issues is
\* an answer of another kind.
PullLists == Lists \ {"looper:worker-ready"}
CacheOK == /\ DOMAIN cache = Lists
           /\ \A l \in PullLists : cache[l] # <<>> => DOMAIN cache[l][1] \subseteq PullIds

\* Who names a pull request names one that exists, and who works has a loop.
NamesOK == /\ planner.pc # "none" => planner.loop > 0
           /\ reviewer.pc # "none" => reviewer.pull > 0
           /\ worker.pc # "none" => worker.loop > 0
           /\ worker.seen \subseteq PullIds
           /\ worker.pull \in PullIds \cup {0}
           /\ worker.before <= Len(gh.pulls)

TypeInv == FlowTypeOK /\ gh \in Repository /\ CacheOK /\ NamesOK

\* The verdict of the last check is in the checkpoint before its step is
\* recorded, and only a verdict that is not blocking leads to the label.
ReviewInv ==
    /\ reviewer.pc \in {"filter", "filtered", "review", "verdict", "record"} => reviewer.done # "review"
    /\ reviewer.pc \in {"approve", "look", "unreview", "mark", "fix"} => reviewer.done = "review"
    /\ (reviewer.pc = "record" \/ reviewer.done = "review") /\ reviewer.found = "blocking"
         => reviewer.verdict = "blocking"
    /\ reviewer.pc \in {"unreview", "mark"} => reviewer.verdict # "blocking"

\* A spec that was there when the worker began to look is closed.
NoSpecAmong(b) == \A n \in 1 .. b : gh.pulls[n].branch[1] = "planner" => ~gh.pulls[n].open

\* Nothing is saved while the worker looks.  When it has looked with an answer
\* that was not an old one and has found nothing, there is nothing, and this is
\* still so when it opens a pull request, also after a death.
WorkInv ==
    /\ worker.pc \in {"ready", "reviewing", "all", "view", "adopt"} => worker.done = "none"
    /\ worker.pc \in {"code", "push", "clear", "strip", "create", "finish", "fail"} => worker.done # "none"
    /\ worker.pc = "create" => worker.pull = 0
    /\ worker.pc = "view" /\ worker.seen = {} /\ ~worker.blind => NoSpecAmong(worker.before)
    /\ (worker.pc = "adopt" \/ worker.done # "none") /\ worker.pull = 0 /\ ~worker.blind
         => NoSpecAmong(worker.before)

-----------------------------------------------------------------------------
(* What the calls do to the repository *)

\* Pull requests stay where they are, on their branches, and none is reopened.
Kept(h) == /\ h \in Repository
           /\ Len(gh.pulls) <= Len(h.pulls) /\ Len(h.pulls) <= MaxPulls
           /\ \A n \in PullIds : /\ h.pulls[n].branch = gh.pulls[n].branch
                                 /\ h.pulls[n].open => gh.pulls[n].open
\* And none becomes ready.
NoneReady(h) == \A n \in PullIds : "looper:spec-ready" \in h.pulls[n].labels
                                     => "looper:spec-ready" \in gh.pulls[n].labels

LEMMA RepositoryTypes ==
    ASSUME gh \in Repository
    PROVE  /\ gh.issue \subseteq IssueLabels /\ gh.pulls \in Seq(Pull)
           /\ gh.pushed \subseteq Branches \X {"spec", "code"}
           /\ Len(gh.pulls) \in Nat /\ PullIds = 1 .. Len(gh.pulls)
           /\ \A n \in PullIds : gh.pulls[n] \in Pull
BY DEF Repository, PullIds

\* The repository with x for the pull request n.
Replaced(n, x) == [gh EXCEPT !.pulls = [gh.pulls EXCEPT ![n] = x]]
Relabelled(n, ls) == Replaced(n, [gh.pulls[n] EXCEPT !.labels = ls])

\* A write that is no more than its call says keeps the rest.
LEMMA PullWritten ==
    ASSUME gh \in Repository, Len(gh.pulls) <= MaxPulls, NEW n, NEW x,
           n \in PullIds => /\ x \in Pull /\ x.branch = gh.pulls[n].branch
                            /\ x.open => gh.pulls[n].open
    PROVE  /\ Kept(Replaced(n, x))
           /\ \A m \in PullIds : Replaced(n, x).pulls[m] = IF m = n THEN x ELSE gh.pulls[m]
<1>. DEFINE ps == [gh.pulls EXCEPT ![n] = x]
            h == Replaced(n, x)
<1>1. gh.pulls \in Seq(Pull) /\ Len(gh.pulls) \in Nat /\ PullIds = 1 .. Len(gh.pulls)
  BY RepositoryTypes
<1>2. /\ ps \in Seq(Pull) /\ Len(ps) = Len(gh.pulls)
      /\ \A m \in PullIds : ps[m] = IF m = n THEN x ELSE gh.pulls[m]
  <2>1. CASE n \in PullIds
    BY <1>1, <2>1
  <2>2. CASE n \notin PullIds
    <3>1. ps = gh.pulls
      BY <1>1, <2>2
    <3> QED BY <1>1, <2>2, <3>1
  <2> QED BY <2>1, <2>2
<1>. HIDE DEF ps
<1>3. h = [gh EXCEPT !.pulls = ps]
  BY DEF ps, Replaced
<1>. HIDE DEF h
<1>4. h \in Repository /\ h.pulls = ps
  BY <1>2, <1>3 DEF Repository
<1>. USE DEF h
<1> QED BY <1>1, <1>2, <1>4 DEF Kept

LEMMA LabelsWritten ==
    ASSUME gh \in Repository, Len(gh.pulls) <= MaxPulls, NEW n
    PROVE  /\ \A l \in PullLabels :
                /\ Kept(WithLabel(n, l))
                /\ l # "looper:spec-ready" => NoneReady(WithLabel(n, l))
                /\ \A m \in PullIds : m # n => WithLabel(n, l).pulls[m] = gh.pulls[m]
           /\ \A ls : Kept(WithoutLabels(n, ls)) /\ NoneReady(WithoutLabels(n, ls))
           /\ Kept(Closed(n)) /\ NoneReady(Closed(n))
<1>1. n \in PullIds => gh.pulls[n] \in Pull
  BY RepositoryTypes
<1>2. ASSUME NEW ls, n \in PullIds => ls \subseteq PullLabels
      PROVE  /\ Kept(Relabelled(n, ls))
             /\ \A m \in PullIds : /\ m = n => Relabelled(n, ls).pulls[m].labels = ls
                                   /\ m # n => Relabelled(n, ls).pulls[m] = gh.pulls[m]
  <2>. DEFINE x == [gh.pulls[n] EXCEPT !.labels = ls]
  <2>1. n \in PullIds => /\ x \in Pull /\ x.branch = gh.pulls[n].branch /\ x.open = gh.pulls[n].open
                         /\ x.labels = ls
    BY <1>1, <1>2 DEF Pull
  <2>2. Relabelled(n, ls) = Replaced(n, x)
    BY DEF Relabelled
  <2>. HIDE DEF x
  <2>3. n \in PullIds => x \in Pull /\ x.branch = gh.pulls[n].branch /\ (x.open => gh.pulls[n].open)
    BY <2>1
  <2>4. /\ Kept(Replaced(n, x))
        /\ \A m \in PullIds : Replaced(n, x).pulls[m] = IF m = n THEN x ELSE gh.pulls[m]
    BY <2>3, PullWritten
  <2> QED BY <2>1, <2>2, <2>4
<1>3. ASSUME NEW l \in PullLabels
      PROVE  /\ Kept(WithLabel(n, l))
             /\ l # "looper:spec-ready" => NoneReady(WithLabel(n, l))
             /\ \A m \in PullIds : m # n => WithLabel(n, l).pulls[m] = gh.pulls[m]
  <2>1. WithLabel(n, l) = Relabelled(n, gh.pulls[n].labels \cup {l})
    BY DEF WithLabel, Repository, Relabelled, Replaced
  <2>2. n \in PullIds => gh.pulls[n].labels \cup {l} \subseteq PullLabels
    BY <1>1 DEF Pull
  <2> QED BY <2>1, <2>2, <1>2 DEF NoneReady
<1>4. ASSUME NEW ls
      PROVE  Kept(WithoutLabels(n, ls)) /\ NoneReady(WithoutLabels(n, ls))
  <2>1. WithoutLabels(n, ls) = Relabelled(n, gh.pulls[n].labels \ ls)
    BY DEF WithoutLabels, Repository, Relabelled, Replaced
  <2>2. n \in PullIds => gh.pulls[n].labels \ ls \subseteq PullLabels
    BY <1>1 DEF Pull
  <2> QED BY <2>1, <2>2, <1>2 DEF NoneReady
<1>5. Kept(Closed(n)) /\ NoneReady(Closed(n))
  <2>. DEFINE x == [gh.pulls[n] EXCEPT !.open = FALSE]
  <2>1. n \in PullIds => /\ x \in Pull /\ x.branch = gh.pulls[n].branch /\ ~x.open
                         /\ x.labels = gh.pulls[n].labels
    BY <1>1 DEF Pull
  <2>2. Closed(n) = Replaced(n, x)
    BY DEF Closed, Repository, Replaced
  <2>. HIDE DEF x
  <2>3. n \in PullIds => x \in Pull /\ x.branch = gh.pulls[n].branch /\ (x.open => gh.pulls[n].open)
    BY <2>1
  <2>4. /\ Kept(Replaced(n, x))
        /\ \A m \in PullIds : Replaced(n, x).pulls[m] = IF m = n THEN x ELSE gh.pulls[m]
    BY <2>3, PullWritten
  <2> QED BY <2>1, <2>2, <2>4 DEF NoneReady
<1> QED BY <1>3, <1>4, <1>5

\* The writes that label no pull request.
LEMMA OthersWritten ==
    ASSUME gh \in Repository, Len(gh.pulls) <= MaxPulls
    PROVE  /\ \A l \in IssueLabels : Kept(WithIssueLabel(l)) /\ NoneReady(WithIssueLabel(l))
           /\ \A l : Kept(WithoutIssueLabel(l)) /\ NoneReady(WithoutIssueLabel(l))
           /\ \A b \in Branches, w \in {"spec", "code"} : Kept(Pushed(b, w)) /\ NoneReady(Pushed(b, w))
           /\ \A b \in Branches : Len(gh.pulls) < MaxPulls => Kept(Created(b)) /\ NoneReady(Created(b))
           /\ Kept(gh) /\ NoneReady(gh)
<1>1. Kept(gh) /\ NoneReady(gh)
  BY RepositoryTypes DEF Kept, NoneReady
<1>2. ASSUME NEW is, is \subseteq IssueLabels
      PROVE  Kept([gh EXCEPT !.issue = is]) /\ NoneReady([gh EXCEPT !.issue = is])
  BY <1>2, <1>1 DEF Kept, NoneReady, Repository
<1>3. ASSUME NEW l \in IssueLabels PROVE Kept(WithIssueLabel(l)) /\ NoneReady(WithIssueLabel(l))
  <2>1. gh.issue \cup {l} \subseteq IssueLabels
    BY RepositoryTypes
  <2> QED BY <2>1, <1>2 DEF WithIssueLabel
<1>4. ASSUME NEW l PROVE Kept(WithoutIssueLabel(l)) /\ NoneReady(WithoutIssueLabel(l))
  <2>1. gh.issue \ {l} \subseteq IssueLabels
    BY RepositoryTypes
  <2> QED BY <2>1, <1>2 DEF WithoutIssueLabel
<1>5. ASSUME NEW b \in Branches, NEW w \in {"spec", "code"} PROVE Kept(Pushed(b, w)) /\ NoneReady(Pushed(b, w))
  <2>. DEFINE all == gh.pushed \cup {<<b, w>>}
  <2>1. all \subseteq Branches \X {"spec", "code"}
    BY RepositoryTypes
  <2>. HIDE DEF all
  <2>2. Pushed(b, w) = [gh EXCEPT !.pushed = all]
    BY DEF Pushed, all
  <2> QED BY <2>1, <2>2, <1>1 DEF Kept, NoneReady, Repository
<1>6. ASSUME NEW b \in Branches, Len(gh.pulls) < MaxPulls
      PROVE  Kept(Created(b)) /\ NoneReady(Created(b))
  <2>. DEFINE x == [branch |-> b, open |-> TRUE, labels |-> {}]
              ps == Append(gh.pulls, x)
  <2>1. x \in Pull
    BY DEF Pull
  <2>. HIDE DEF x
  <2>2. /\ ps \in Seq(Pull) /\ Len(ps) = Len(gh.pulls) + 1
        /\ \A m \in PullIds : ps[m] = gh.pulls[m]
    BY <2>1, RepositoryTypes
  <2>3. Created(b) = [gh EXCEPT !.pulls = ps]
    BY DEF Created, x
  <2>. HIDE DEF ps
  <2>4. Created(b) \in Repository /\ Created(b).pulls = ps
    BY <2>2, <2>3 DEF Repository
  <2>5. MaxPulls \in Nat
    BY GitHubAssumption
  <2>6. Len(ps) <= MaxPulls /\ Len(gh.pulls) <= Len(ps)
    BY <1>6, <2>2, <2>5, RepositoryTypes
  <2> QED BY <2>2, <2>4, <2>6 DEF Kept, NoneReady
<1> QED BY <1>1, <1>3, <1>4, <1>5, <1>6

-----------------------------------------------------------------------------
(* What calls leave behind *)

\* The repository is kept, what is cached is of pull requests that exist, and
\* the number of troubles is bounded.
CallsKept ==
    /\ Kept(gh') /\ troubles' \in 0 .. MaxTroubles
    /\ DOMAIN cache' = Lists
    /\ \A l \in PullLists : cache'[l] # <<>> => DOMAIN cache'[l][1] \subseteq PullIds

LEMMA TroubleBound ==
    ASSUME TypeInv, Trouble \/ UNCHANGED troubles
    PROVE  troubles' \in 0 .. MaxTroubles
BY GitHubAssumption DEF TypeInv, FlowTypeOK, GitHubTypeOK, Trouble

LEMMA NothingCalled ==
    ASSUME TypeInv, UNCHANGED <<gh, cache>>, Trouble \/ UNCHANGED troubles
    PROVE  CallsKept /\ NoneReady(gh')
BY TroubleBound, OthersWritten DEF TypeInv, FlowTypeOK, GitHubTypeOK, CallsKept, CacheOK

LEMMA CallKeeps ==
    ASSUME TypeInv, NEW new, Kept(new), NEW ok, Call(new, ok)
    PROVE  CallsKept /\ (NoneReady(new) => NoneReady(gh'))
<1>1. Kept(gh) /\ NoneReady(gh)
  BY OthersWritten DEF TypeInv, FlowTypeOK, GitHubTypeOK
<1>2. gh' \in {gh, new} /\ UNCHANGED cache /\ (Trouble \/ UNCHANGED troubles)
  BY DEF Call
<1>3. troubles' \in 0 .. MaxTroubles
  BY <1>2, TroubleBound
<1> QED BY <1>1, <1>2, <1>3 DEF CallsKept, TypeInv, CacheOK

LEMMA ListedExist ==
    ASSUME TypeInv, NEW l \in PullLists
    PROVE  DOMAIN Listed(l) \subseteq PullIds
<1>1. l # "looper:worker-ready" /\ l \in Lists
  BY DEF PullLists
<1> QED BY <1>1 DEF Listed, Fresh, TypeInv, CacheOK

LEMMA AnswerKeeps ==
    ASSUME TypeInv, NEW l \in Lists, Answered(l), Trouble \/ UNCHANGED troubles
    PROVE  CallsKept /\ NoneReady(gh') /\ UNCHANGED gh
<1>1. UNCHANGED gh
  BY DEF Answered
<1>2. CASE UNCHANGED cache
  BY <1>1, <1>2, NothingCalled
<1>3. CASE cache' = [cache EXCEPT ![l] = <<Listed(l)>>]
  <2>1. Kept(gh) /\ NoneReady(gh) /\ troubles' \in 0 .. MaxTroubles
    BY <1>1, TroubleBound, OthersWritten DEF TypeInv, FlowTypeOK, GitHubTypeOK
  <2>2. DOMAIN cache' = Lists
    BY <1>3 DEF TypeInv, CacheOK
  <2>3. ASSUME NEW m \in PullLists, cache'[m] # <<>>
        PROVE  DOMAIN cache'[m][1] \subseteq PullIds
    <3>1. m \in Lists
      BY DEF PullLists
    <3>2. CASE m = l
      <4>1. cache'[m] = <<Listed(m)>>
        BY <1>3, <3>1, <3>2 DEF TypeInv, CacheOK
      <4>2. cache'[m][1] = Listed(m)
        BY <4>1
      <4> QED BY <4>2, ListedExist
    <3>3. CASE m # l
      <4>1. cache'[m] = cache[m]
        BY <1>3, <3>1, <3>3 DEF TypeInv, CacheOK
      <4> QED BY <2>3, <4>1 DEF TypeInv, CacheOK
    <3> QED BY <3>2, <3>3
  <2> QED BY <1>1, <2>1, <2>2, <2>3 DEF CallsKept
<1> QED BY <1>1, <1>2, <1>3 DEF Answered

LEMMA ListKeeps ==
    ASSUME TypeInv, NEW l \in Lists, NEW ok, List(l, ok)
    PROVE  CallsKept /\ NoneReady(gh') /\ UNCHANGED gh
BY NothingCalled, AnswerKeeps DEF List

\* The list of issues, whose answer is of another kind.
LEMMA IssueListKeeps ==
    ASSUME TypeInv, NEW ok, List("looper:worker-ready", ok)
    PROVE  CallsKept /\ NoneReady(gh') /\ UNCHANGED gh
BY ListKeeps DEF Lists

LEMMA ViewKeeps ==
    ASSUME TypeInv, NEW ok, View(ok)
    PROVE  CallsKept /\ NoneReady(gh') /\ UNCHANGED gh
BY NothingCalled DEF View

\* The cache forgets a list.
LEMMA ExpiryKeeps ==
    ASSUME TypeInv, NEW l \in Lists, Expire(l)
    PROVE  CallsKept /\ NoneReady(gh')
<1>1. Kept(gh) /\ NoneReady(gh) /\ troubles' \in 0 .. MaxTroubles /\ UNCHANGED gh
  BY TroubleBound, OthersWritten DEF TypeInv, FlowTypeOK, GitHubTypeOK, Expire
<1> QED BY <1>1 DEF CallsKept, TypeInv, CacheOK, Expire

\* The names of what was there still name it afterwards.
LEMMA PullsStay ==
    ASSUME TypeInv, Kept(gh')
    PROVE  PullIds \subseteq PullIds' /\ Len(gh.pulls) \in Nat /\ Len(gh.pulls') \in Nat
           /\ PullIds' = 1 .. Len(gh.pulls') /\ PullIds = 1 .. Len(gh.pulls)
           /\ PullIds \subseteq 1 .. MaxPulls
<1>1. Len(gh.pulls) \in Nat /\ PullIds = 1 .. Len(gh.pulls) /\ Len(gh.pulls) <= MaxPulls
  BY RepositoryTypes DEF TypeInv, FlowTypeOK, GitHubTypeOK
<1>2. Len(gh.pulls') \in Nat /\ PullIds' = 1 .. Len(gh.pulls')
  BY DEF Kept, Repository, PullIds
<1>3. Len(gh.pulls) <= Len(gh.pulls')
  BY DEF Kept
<1> QED BY <1>1, <1>2, <1>3, GitHubAssumption

LEMMA SpecStaysClosed ==
    ASSUME TypeInv, Kept(gh'), NEW b \in 0 .. MaxPulls, b <= Len(gh.pulls), NoSpecAmong(b)
    PROVE  NoSpecAmong(b)'
<1>1. \A n \in 1 .. b : n \in PullIds
  BY PullsStay, GitHubAssumption
<1> QED BY <1>1 DEF Kept, NoSpecAmong

-----------------------------------------------------------------------------
(* Types, part by part *)

TickRow     == [pc : TickPC, todo : SUBSET (1 .. MaxPulls)]
PlannerRow  == [loop : 0 .. MaxLoops, pc : PlannerPC, done : {"none", "spec"}, pull : 0 .. MaxPulls]
WorkerRow   == [loop : 0 .. MaxLoops, pc : WorkerPC, done : {"none", "adopt", "code"},
                seen : SUBSET (1 .. MaxPulls), pull : 0 .. MaxPulls,
                before : 0 .. MaxPulls, blind : BOOLEAN]
ReviewerRow == [pull : 0 .. MaxPulls, pc : ReviewerPC, done : {"none", "filter", "review"},
                verdict : Verdicts, found : Verdicts, past : SUBSET (1 .. MaxPulls)]

PlannerOK == planner \in PlannerRow /\ (planner.pc # "none" => planner.loop > 0)
WorkerOK  == /\ worker \in WorkerRow
             /\ worker.pc # "none" => worker.loop > 0
             /\ worker.seen \subseteq PullIds
             /\ worker.pull \in PullIds \cup {0}
             /\ worker.before <= Len(gh.pulls)

ReviewerOK == reviewer \in ReviewerRow /\ (reviewer.pc # "none" => reviewer.pull > 0)

LEMMA TypeParts ==
    ASSUME TypeInv
    PROVE  tick \in TickRow /\ PlannerOK /\ WorkerOK /\ ReviewerOK
BY DEF TypeInv, FlowTypeOK, NamesOK, TickRow, PlannerRow, WorkerRow, ReviewerRow, PlannerOK, WorkerOK,
       ReviewerOK

LEMMA TypeNext ==
    ASSUME TypeInv, CallsKept, (tick \in TickRow)', PlannerOK', WorkerOK', ReviewerOK'
    PROVE  TypeInv'
<1>1. Kept(gh')
  BY DEF CallsKept
<1>2. PullIds \subseteq PullIds'
  BY <1>1, PullsStay
<1>3. CacheOK'
  BY <1>2 DEF CallsKept, CacheOK
<1>4. gh' \in Repository /\ GitHubTypeOK'
  BY <1>1 DEF Kept, CallsKept, GitHubTypeOK, Repository
<1>5. FlowTypeOK' /\ NamesOK'
  BY <1>4 DEF FlowTypeOK, NamesOK, TickRow, PlannerRow, WorkerRow, ReviewerRow, PlannerOK, WorkerOK,
              ReviewerOK
<1> QED BY <1>3, <1>4, <1>5 DEF TypeInv

LEMMA WorkerRests ==
    ASSUME TypeInv, CallsKept, UNCHANGED worker
    PROVE  WorkerOK' /\ (WorkInv => WorkInv')
<1>1. Kept(gh') /\ WorkerOK
  BY TypeParts DEF CallsKept
<1>2. WorkerOK'
  <2>1. worker.before <= Len(gh'.pulls)
    <3>1. worker.before \in Nat /\ worker.before <= Len(gh.pulls) /\ Len(gh.pulls) <= Len(gh'.pulls)
      BY <1>1 DEF WorkerOK, WorkerRow, Kept
    <3> QED BY <3>1, <1>1, PullsStay
  <2> QED BY <1>1, <2>1, PullsStay DEF WorkerOK
<1>3. NoSpecAmong(worker.before) => NoSpecAmong(worker.before)'
  BY <1>1, SpecStaysClosed DEF WorkerOK, WorkerRow
<1> QED BY <1>2, <1>3 DEF WorkInv

LEMMA OthersRest ==
    ASSUME TypeInv
    PROVE  /\ UNCHANGED tick => (tick \in TickRow)'
           /\ UNCHANGED planner => PlannerOK'
           /\ UNCHANGED reviewer => ReviewerOK' /\ (ReviewInv => ReviewInv')
BY TypeParts DEF PlannerOK, ReviewerOK, ReviewInv

-----------------------------------------------------------------------------
(* Planner *)

LEMMA PlannerNamed ==
    ASSUME TypeInv, planner.pc # "none"
    PROVE  PlannerBranch \in Branches
<1>1. planner \in PlannerRow /\ planner.loop > 0
  BY TypeParts DEF PlannerOK
<1>2. planner.loop \in 1 .. MaxLoops
  BY <1>1, GitHubAssumption DEF PlannerRow
<1> QED BY <1>2 DEF PlannerBranch, Branches

LEMMA PlannerWrites ==
    ASSUME TypeInv, NEW pc \in PlannerPC \ {"none"}, planner.pc # "none"
    PROVE  /\ planner' = [planner EXCEPT !.pc = pc] => PlannerOK'
           /\ \A n \in 0 .. MaxPulls : planner' = [planner EXCEPT !.pc = pc, !.pull = n] => PlannerOK'
           /\ \A d \in {"none", "spec"} : planner' = [planner EXCEPT !.pc = pc, !.done = d] => PlannerOK'
<1>1. planner \in PlannerRow /\ planner.loop > 0
  BY TypeParts DEF PlannerOK
<1> QED BY <1>1 DEF PlannerOK, PlannerRow

LEMMA PlannerKeeps ==
    ASSUME TypeInv, PlannerStep
    PROVE  CallsKept /\ NoneReady(gh') /\ PlannerOK' /\ OnlyPlanner
<1>1. CASE WriteSpec
  BY <1>1, NothingCalled, PlannerWrites DEF WriteSpec, githubVars, PlannerPC
<1>2. CASE PushSpec
  <2>1. planner.pc # "none" /\ OnlyPlanner
    BY <1>2 DEF PushSpec
  <2>2. PICK ok \in BOOLEAN : Call(Pushed(PlannerBranch, "spec"), ok) /\ PlannerAfter(ok, "list")
    BY <1>2 DEF PushSpec
  <2>3. PlannerBranch \in Branches
    BY <2>1, PlannerNamed
  <2>4. Kept(Pushed(PlannerBranch, "spec")) /\ NoneReady(Pushed(PlannerBranch, "spec"))
    BY <2>3, OthersWritten DEF TypeInv, FlowTypeOK, GitHubTypeOK
  <2>5. PlannerOK'
    BY <2>1, <2>2, PlannerWrites DEF PlannerAfter, PlannerPC
  <2> QED BY <2>1, <2>2, <2>4, <2>5, CallKeeps
<1>3. CASE AdoptOrCreate
  <2>1. planner.pc # "none" /\ OnlyPlanner /\ \E ok \in BOOLEAN : List("all", ok)
    BY <1>3 DEF AdoptOrCreate
  <2>2. Adoptable \subseteq 0 .. MaxPulls
    <3>1. DOMAIN Listed("all") \subseteq 1 .. Len(gh.pulls)
      BY ListedExist, RepositoryTypes DEF TypeInv, PullLists, Lists
    <3>2. Len(gh.pulls) \in Nat /\ Len(gh.pulls) <= MaxPulls /\ MaxPulls \in Nat
      BY RepositoryTypes, GitHubAssumption DEF TypeInv, FlowTypeOK, GitHubTypeOK
    <3> QED BY <3>1, <3>2 DEF Adoptable
  <2>3. \/ \E n \in Adoptable : planner' = [planner EXCEPT !.pc = "label", !.pull = n]
        \/ planner' = [planner EXCEPT !.pc = "create"]
    BY ZenonT(30), <1>3 DEF AdoptOrCreate
  <2>4. PlannerOK'
    BY <2>1, <2>2, <2>3, PlannerWrites DEF PlannerPC
  <2> QED BY <2>1, <2>4, ListKeeps DEF Lists
<1>4. CASE CreateSpecPull
  <2>1. planner.pc # "none" /\ OnlyPlanner
    BY <1>4 DEF CreateSpecPull
  <2>2. CASE planner' = [planner EXCEPT !.pc = "fail"] /\ UNCHANGED githubVars
    BY <2>1, <2>2, NothingCalled, PlannerWrites DEF githubVars, PlannerPC
  <2>3. ASSUME NEW ok \in BOOLEAN, Len(gh.pulls) < MaxPulls, Call(Created(PlannerBranch), ok),
               planner' = [planner EXCEPT !.pc = IF ok THEN "label" ELSE "fail",
                                          !.pull = IF ok THEN Len(gh.pulls) + 1 ELSE 0]
        PROVE  CallsKept /\ NoneReady(gh') /\ PlannerOK'
    <3>1. PlannerBranch \in Branches
      BY <2>1, PlannerNamed
    <3>2. Kept(Created(PlannerBranch)) /\ NoneReady(Created(PlannerBranch))
      BY <2>3, <3>1, OthersWritten DEF TypeInv, FlowTypeOK, GitHubTypeOK
    <3>3. Len(gh.pulls) + 1 \in 0 .. MaxPulls /\ 0 \in 0 .. MaxPulls
      BY <2>3, RepositoryTypes, GitHubAssumption DEF TypeInv
    <3>4. PlannerOK'
      BY <2>1, <2>3, <3>3, PlannerWrites DEF PlannerPC
    <3> QED BY <2>3, <3>2, <3>4, CallKeeps
  <2> QED BY <1>4, <2>1, <2>2, <2>3 DEF CreateSpecPull
<1>5. CASE LabelSpecPull
  <2>1. planner.pc # "none" /\ OnlyPlanner /\ planner' = [planner EXCEPT !.pc = "save"]
    BY <1>5 DEF LabelSpecPull, Planner
  <2>2. PICK ok \in BOOLEAN : Call(WithLabel(planner.pull, "looper:spec-reviewing"), ok)
    BY <1>5 DEF LabelSpecPull
  <2>3. /\ Kept(WithLabel(planner.pull, "looper:spec-reviewing"))
        /\ NoneReady(WithLabel(planner.pull, "looper:spec-reviewing"))
    BY SMTT(30), LabelsWritten DEF TypeInv, FlowTypeOK, GitHubTypeOK, PullLabels
  <2> QED BY <2>1, <2>2, <2>3, CallKeeps, PlannerWrites DEF PlannerPC
<1>6. CASE PlannerEnds("save", "completed") \/ PlannerEnds("fail", "failed")
  BY <1>6, NothingCalled, PlannerWrites DEF PlannerEnds, Planner, githubVars, PlannerPC, Resting, Ended
<1> QED BY <1>1, <1>2, <1>3, <1>4, <1>5, <1>6 DEF PlannerStep

-----------------------------------------------------------------------------
(* Worker *)

\* The worker's row with new contents; its loop is the same.
WorkerAt(pc, done, seen, pull, before, blind) ==
    [loop |-> worker.loop, pc |-> pc, done |-> done, seen |-> seen, pull |-> pull,
     before |-> before, blind |-> blind]

LEMMA WorkerMoves ==
    ASSUME TypeInv, Kept(gh'), worker.pc # "none", NEW pc \in WorkerPC \ {"none"},
           NEW done \in {"none", "adopt", "code"}, NEW seen \in SUBSET PullIds,
           NEW pull \in PullIds \cup {0}, NEW before \in 0 .. MaxPulls, before <= Len(gh.pulls),
           NEW blind \in BOOLEAN, worker' = WorkerAt(pc, done, seen, pull, before, blind)
    PROVE  WorkerOK'
<1>1. worker.loop \in 0 .. MaxLoops /\ worker.loop > 0
  BY TypeParts DEF WorkerOK, WorkerRow
<1>2. before <= Len(gh'.pulls)
  <2>1. Len(gh.pulls) <= Len(gh'.pulls) /\ Len(gh.pulls) \in Nat /\ Len(gh'.pulls) \in Nat
    BY PullsStay DEF Kept
  <2> QED BY <2>1, GitHubAssumption
<1>3. seen \subseteq 1 .. MaxPulls /\ pull \in 0 .. MaxPulls
  <2>1. PullIds \subseteq 1 .. MaxPulls
    BY PullsStay
  <2> QED BY <2>1, GitHubAssumption
<1>4. PullIds \subseteq PullIds'
  BY PullsStay
<1>5. worker' \in WorkerRow
  BY <1>1, <1>3 DEF WorkerAt, WorkerRow
<1> QED BY <1>1, <1>2, <1>4, <1>5 DEF WorkerAt, WorkerOK

\* The same, where only the place and what is saved change.
Moved(pc, done) == WorkerAt(pc, done, worker.seen, worker.pull, worker.before, worker.blind)

LEMMA WorkerWrites ==
    ASSUME TypeInv, Kept(gh'), worker.pc # "none", NEW pc \in WorkerPC \ {"none"},
           NEW done \in {"none", "adopt", "code"},
           worker' = Moved(pc, done)
    PROVE  /\ WorkerOK'
           /\ worker'.pc = pc /\ worker'.done = done /\ worker'.pull = worker.pull
           /\ worker'.before = worker.before /\ worker'.blind = worker.blind
           /\ NoSpecAmong(worker.before) => NoSpecAmong(worker.before)'
<1>1. WorkerOK
  BY TypeParts
<1>2. worker' = WorkerAt(pc, done, worker.seen, worker.pull, worker.before, worker.blind)
  BY DEF Moved
<1>3. /\ worker.seen \in SUBSET PullIds /\ worker.pull \in PullIds \cup {0}
      /\ worker.before \in 0 .. MaxPulls /\ worker.before <= Len(gh.pulls) /\ worker.blind \in BOOLEAN
  BY <1>1 DEF WorkerOK, WorkerRow
<1>4. WorkerOK'
  BY <1>2, <1>3, WorkerMoves
<1>5. NoSpecAmong(worker.before) => \A n \in 1 .. worker.before :
                                       gh'.pulls[n].branch[1] = "planner" => ~gh'.pulls[n].open
  BY <1>3, SpecStaysClosed DEF NoSpecAmong
<1>6. worker'.before = worker.before
  BY <1>2 DEF WorkerAt
<1> QED BY <1>2, <1>4, <1>5, <1>6 DEF WorkerAt, NoSpecAmong

\* What a lookup sees are pull requests that exist; an answer that is not from
\* the cache holds every open spec.
LEMMA SeenExist ==
    ASSUME TypeInv, NEW l \in PullLists
    PROVE  SeenOn(l) \subseteq PullIds
BY ListedExist DEF SeenOn

LEMMA AllIsAll ==
    ASSUME TypeInv, cache["all"] = <<>>, SeenOn("all") = {}, NEW b, b \in 0 .. MaxPulls, b <= Len(gh.pulls)
    PROVE  NoSpecAmong(b)
<1>1. Listed("all") = Fresh("all")
  BY DEF Listed
<1>2. \A n \in PullIds : gh.pulls[n].open => n \in DOMAIN Listed("all")
  BY <1>1 DEF Fresh, OnList
<1>3. \A n \in 1 .. b : n \in PullIds
  BY RepositoryTypes, GitHubAssumption DEF TypeInv
<1> QED BY <1>2, <1>3 DEF SeenOn, LooksLikeSpec, NoSpecAmong

LEMMA LookupKeeps ==
    ASSUME TypeInv, WorkInv, LookupReady \/ LookupReviewing \/ LookupAll
    PROVE  CallsKept /\ NoneReady(gh') /\ WorkerOK' /\ OnlyWorker /\ WorkInv'
<1>1. /\ OnlyWorker /\ worker.pc # "none" /\ worker.done = "none"
      /\ \E l \in PullLists, ok \in BOOLEAN : List(l, ok)
  <2>1. /\ OnlyWorker /\ worker.pc \in {"ready", "reviewing", "all"}
        /\ \E l \in PullLists, ok \in BOOLEAN : List(l, ok)
    BY ZenonT(30) DEF LookupReady, LookupReviewing, LookupAll, Lookup, PullLists, Lists
  <2> QED BY <2>1 DEF WorkInv
<1>2. CallsKept /\ NoneReady(gh') /\ UNCHANGED gh /\ Kept(gh')
  BY <1>1, ListKeeps DEF CallsKept, PullLists
<1>3. WorkerOK
  BY TypeParts
<1>4. ASSUME NEW l \in PullLists, NEW ok \in BOOLEAN
      PROVE  worker.seen \cup (IF ok THEN SeenOn(l) ELSE {}) \in SUBSET PullIds
  BY <1>3, SeenExist DEF WorkerOK
<1>5. /\ worker.pull \in PullIds \cup {0} /\ worker.blind \in BOOLEAN
      /\ worker.before \in 0 .. MaxPulls /\ worker.before <= Len(gh.pulls)
      /\ Len(gh.pulls) \in 0 .. MaxPulls /\ Len(gh.pulls) <= Len(gh.pulls)
  BY <1>3, RepositoryTypes, GitHubAssumption DEF WorkerOK, WorkerRow, TypeInv, FlowTypeOK, GitHubTypeOK
<1>6. CASE LookupReady
  <2>1. PICK ok \in BOOLEAN :
           worker' = WorkerAt("reviewing", "none",
                              worker.seen \cup (IF ok THEN SeenOn("looper:spec-ready") ELSE {}),
                              worker.pull, Len(gh.pulls), FALSE)
    BY <1>1, <1>3, <1>6 DEF LookupReady, Lookup, WorkerAt, WorkerOK, WorkerRow
  <2>2. WorkerOK'
    BY <1>1, <1>2, <1>4, <1>5, <2>1, WorkerMoves DEF WorkerPC, PullLists, Lists
  <2> QED BY <1>1, <1>2, <2>1, <2>2 DEF WorkInv, WorkerAt
<1>7. CASE LookupReviewing
  <2>1. PICK ok \in BOOLEAN, pc \in {"all", "view"} :
           LET seen == worker.seen \cup (IF ok THEN SeenOn("looper:spec-reviewing") ELSE {})
           IN  /\ worker' = WorkerAt(pc, "none", seen, worker.pull, worker.before, FALSE)
               /\ pc = "view" => seen # {}
    BY <1>1, <1>3, <1>7 DEF LookupReviewing, Lookup, WorkerAt, WorkerOK, WorkerRow
  <2>2. pc \in WorkerPC \ {"none"} /\ "looper:spec-reviewing" \in PullLists
    BY DEF WorkerPC, PullLists, Lists
  <2>3. worker.seen \cup (IF ok THEN SeenOn("looper:spec-reviewing") ELSE {}) \in SUBSET PullIds
    BY <2>2, <1>4
  <2>4. WorkerOK'
    BY <1>1, <1>2, <1>5, <2>1, <2>2, <2>3, WorkerMoves
  <2> QED BY <1>1, <1>2, <2>1, <2>4 DEF WorkInv, WorkerAt
<1>8. CASE LookupAll
  <2>1. PICK ok \in BOOLEAN :
           LET seen == worker.seen \cup (IF ok THEN SeenOn("all") ELSE {})
           IN  worker' = WorkerAt("view", "none", seen, worker.pull, worker.before,
                                  ~ok \/ cache["all"] # <<>>)
    BY <1>1, <1>3, <1>8 DEF LookupAll, Lookup, WorkerAt, WorkerOK, WorkerRow
  <2>2. WorkerOK'
    <3>1. "view" \in WorkerPC \ {"none"} /\ "all" \in PullLists
      BY DEF WorkerPC, PullLists, Lists
    <3>2. worker.seen \cup (IF ok THEN SeenOn("all") ELSE {}) \in SUBSET PullIds
      BY <3>1, <1>4
    <3>3. (~ok \/ cache["all"] # <<>>) \in BOOLEAN
      OBVIOUS
    <3> QED BY <1>1, <1>2, <1>5, <2>1, <3>1, <3>2, <3>3, WorkerMoves
  <2>3. /\ worker'.pc = "view" /\ worker'.done = "none" /\ worker'.before = worker.before
        /\ worker'.blind = (~ok \/ cache["all"] # <<>>)
        /\ worker'.seen = worker.seen \cup (IF ok THEN SeenOn("all") ELSE {})
    BY <2>1 DEF WorkerAt
  <2>4. worker'.seen = {} /\ ~worker'.blind => NoSpecAmong(worker.before)
    BY <1>5, <2>3, AllIsAll
  <2>5. worker'.seen = {} /\ ~worker'.blind => NoSpecAmong(worker.before)'
    BY <1>2, <2>3, <2>4 DEF NoSpecAmong
  <2> QED BY <1>1, <1>2, <2>2, <2>3, <2>5 DEF WorkInv
<1> QED BY <1>6, <1>7, <1>8

\* Which changes of place keep what the worker knows.
LEMMA WorkGoesOn ==
    ASSUME TypeInv, WorkInv, Kept(gh'), worker.pc # "none", worker.pc = "adopt" \/ worker.done # "none",
           NEW pc \in WorkerPC \ {"none", "ready", "reviewing", "all", "view", "adopt"},
           NEW done \in {"adopt", "code"}, worker' = Moved(pc, done),
           pc = "create" => worker.pull = 0
    PROVE  WorkerOK' /\ WorkInv'
<1>1. /\ WorkerOK' /\ worker'.pc = pc /\ worker'.done = done /\ worker'.pull = worker.pull
      /\ worker'.before = worker.before /\ worker'.blind = worker.blind
      /\ NoSpecAmong(worker.before) => NoSpecAmong(worker.before)'
  BY WorkerWrites
<1>2. worker.pull = 0 /\ ~worker.blind => NoSpecAmong(worker.before)'
  BY <1>1 DEF WorkInv
<1> QED BY <1>1, <1>2 DEF WorkInv

LEMMA ViewSpecKeeps ==
    ASSUME TypeInv, WorkInv, ViewSpec
    PROVE  CallsKept /\ NoneReady(gh') /\ WorkerOK' /\ OnlyWorker /\ WorkInv'
<1>1. /\ OnlyWorker /\ worker.pc = "view" /\ worker.done = "none"
      /\ UNCHANGED githubVars \/ \E ok \in BOOLEAN : View(ok)
  BY DEF ViewSpec, WorkInv
<1>2. CallsKept /\ NoneReady(gh') /\ UNCHANGED gh /\ Kept(gh')
  <2>1. CallsKept /\ NoneReady(gh') /\ UNCHANGED gh
    BY <1>1, ViewKeeps, NothingCalled DEF githubVars
  <2> QED BY <2>1 DEF CallsKept
<1>3. WorkerOK
  BY TypeParts
<1>4. /\ worker.seen \in SUBSET PullIds /\ {} \in SUBSET PullIds /\ worker.blind \in BOOLEAN
      /\ worker.before \in 0 .. MaxPulls /\ worker.before <= Len(gh.pulls)
      /\ "adopt" \in WorkerPC \ {"none"} /\ worker.pc # "none"
  BY <1>1, <1>3 DEF WorkerOK, WorkerRow, WorkerPC
<1>5. CASE worker.seen = {} /\ worker' = [worker EXCEPT !.pc = "adopt", !.pull = 0]
  <2>1. worker' = WorkerAt("adopt", "none", worker.seen, 0, worker.before, worker.blind)
    BY <1>1, <1>3, <1>5 DEF WorkerAt, WorkerOK, WorkerRow
  <2>2. WorkerOK'
    BY <1>2, <1>4, <2>1, WorkerMoves
  <2>3. ~worker.blind => NoSpecAmong(worker.before)
    BY <1>1, <1>5 DEF WorkInv
  <2>4. /\ worker'.pc = "adopt" /\ worker'.done = "none" /\ worker'.before = worker.before
        /\ worker'.blind = worker.blind
    BY <2>1 DEF WorkerAt
  <2>5. ~worker.blind => NoSpecAmong(worker.before)'
    BY <1>2, <2>3, <2>4 DEF NoSpecAmong
  <2> QED BY <1>1, <1>2, <2>2, <2>4, <2>5 DEF WorkInv
<1>6. ASSUME NEW ok \in BOOLEAN, NEW n \in worker.seen,
             worker' = [worker EXCEPT !.pc = "adopt", !.seen = {}, !.pull = IF ok THEN n ELSE 0,
                                      !.blind = @ \/ ~ok]
      PROVE  WorkerOK' /\ WorkInv'
  <2>1. worker' = WorkerAt("adopt", "none", {}, IF ok THEN n ELSE 0, worker.before, worker.blind \/ ~ok)
    BY <1>1, <1>3, <1>6 DEF WorkerAt, WorkerOK, WorkerRow
  <2>2. (IF ok THEN n ELSE 0) \in PullIds \cup {0} /\ (worker.blind \/ ~ok) \in BOOLEAN
    BY <1>4
  <2>3. WorkerOK'
    BY <1>2, <1>4, <2>1, <2>2, WorkerMoves
  <2>4. n # 0
    <3>1. n \in PullIds /\ PullIds = 1 .. Len(gh.pulls) /\ Len(gh.pulls) \in Nat
      BY <1>4, RepositoryTypes DEF TypeInv
    <3> QED BY <3>1
  <2>5. /\ worker'.pc = "adopt" /\ worker'.done = "none"
        /\ ok => worker'.pull # 0
        /\ ~ok => worker'.blind
    BY <2>1, <2>4 DEF WorkerAt
  <2> QED BY <2>3, <2>5 DEF WorkInv
<1>7. WorkerOK' /\ WorkInv'
  BY <1>5, <1>6 DEF ViewSpec
<1> QED BY <1>1, <1>2, <1>7

LEMMA WorkBranchNamed ==
    ASSUME TypeInv, worker.pc # "none"
    PROVE  WorkBranch \in Branches
<1>1. WorkerOK
  BY TypeParts
<1>2. CASE worker.pull = 0
  <2>1. worker.loop \in 1 .. MaxLoops
    BY <1>1, GitHubAssumption DEF WorkerOK, WorkerRow
  <2> QED BY <1>2, <2>1 DEF WorkBranch, Branches
<1>3. CASE worker.pull # 0
  <2>1. gh.pulls[worker.pull] \in Pull
    BY <1>1, <1>3, RepositoryTypes DEF TypeInv, WorkerOK
  <2> QED BY <1>3, <2>1 DEF WorkBranch, Pull
<1> QED BY <1>2, <1>3

LEMMA WorkerKeeps ==
    ASSUME TypeInv, WorkInv, WorkerStep
    PROVE  CallsKept /\ NoneReady(gh') /\ WorkerOK' /\ OnlyWorker /\ WorkInv'
<1>0. worker \in WorkerRow /\ gh \in Repository /\ Len(gh.pulls) <= MaxPulls
  BY TypeParts DEF WorkerOK, TypeInv, FlowTypeOK, GitHubTypeOK
<1>. DEFINE Goal == CallsKept /\ NoneReady(gh') /\ WorkerOK' /\ OnlyWorker /\ WorkInv'
<1>. SUFFICES Goal
  OBVIOUS
\* A step that calls, or does not, and moves the worker on.
<1>1. ASSUME NEW pc \in WorkerPC \ {"none", "ready", "reviewing", "all", "view", "adopt"},
             NEW done \in {"adopt", "code"}, worker' = Moved(pc, done), OnlyWorker, CallsKept, NoneReady(gh'),
             worker.pc = "adopt" \/ worker.done # "none", worker.pc # "none",
             pc = "create" => worker.pull = 0
      PROVE  Goal
  BY <1>1, WorkGoesOn DEF CallsKept
<1>. HIDE DEF Goal
<1>2. CASE SaveAdopted
  <2>1. worker' = Moved("code", "adopt") /\ OnlyWorker /\ UNCHANGED githubVars /\ worker.pc = "adopt"
    BY <1>0, <1>2 DEF SaveAdopted, WorkerRow, Moved, WorkerAt
  <2>2. "code" \in WorkerPC \ {"none", "ready", "reviewing", "all", "view", "adopt"}
    BY DEF WorkerPC
  <2> QED BY <1>1, <2>1, <2>2, NothingCalled DEF githubVars
<1>3. CASE Implement
  <2>1. /\ worker.pc = "code" /\ worker.done \in {"adopt", "code"}
        /\ OnlyWorker /\ UNCHANGED <<gh, cache>> /\ (Trouble \/ UNCHANGED troubles)
    BY <1>0, <1>3 DEF Implement, WorkInv, WorkerRow
  <2>2. worker' = Moved("push", "code") \/ worker' = Moved("failed", worker.done)
    BY <1>0, <1>3 DEF Implement, MergedCheckpoint, WorkerRow, Moved, WorkerAt
  <2>3. {"push", "failed"} \subseteq WorkerPC \ {"none", "ready", "reviewing", "all", "view", "adopt"}
    BY DEF WorkerPC, Resting, Ended
  <2>4. CallsKept /\ NoneReady(gh')
    BY <2>1, NothingCalled
  <2> QED BY <1>1, <2>1, <2>2, <2>3, <2>4
<1>4. CASE PushCode
  <2>1. /\ worker.pc = "push" /\ worker.done \in {"adopt", "code"} /\ OnlyWorker
        /\ \E ok \in BOOLEAN : Call(Pushed(WorkBranch, "code"), ok)
    BY <1>0, <1>4 DEF PushCode, WorkInv, WorkerRow
  <2>2. worker' = Moved("clear", worker.done) \/ worker' = Moved("fail", worker.done)
    BY <1>0, <1>4 DEF PushCode, WorkerRow, Moved, WorkerAt
  <2>3. {"clear", "fail"} \subseteq WorkerPC \ {"none", "ready", "reviewing", "all", "view", "adopt"}
    BY DEF WorkerPC
  <2>4. CallsKept /\ NoneReady(gh')
    <3>1. WorkBranch \in Branches
      BY <2>1, WorkBranchNamed
    <3>2. Kept(Pushed(WorkBranch, "code")) /\ NoneReady(Pushed(WorkBranch, "code"))
      BY <1>0, <3>1, OthersWritten
    <3> QED BY <2>1, <3>2, CallKeeps
  <2> QED BY <1>1, <2>1, <2>2, <2>3, <2>4
<1>5. CASE ClearWorkerReady
  <2>1. /\ worker.pc = "clear" /\ worker.done \in {"adopt", "code"} /\ OnlyWorker
        /\ \E ok \in BOOLEAN : Call(WithoutIssueLabel("looper:worker-ready"), ok)
    BY <1>0, <1>5 DEF ClearWorkerReady, Worker, WorkInv, WorkerRow
  <2>2. \/ worker.pull = 0 /\ worker' = Moved("create", worker.done)
        \/ worker' = Moved("strip", worker.done)
    BY <1>0, <1>5 DEF ClearWorkerReady, Worker, WorkerRow, Moved, WorkerAt
  <2>3. {"create", "strip"} \subseteq WorkerPC \ {"none", "ready", "reviewing", "all", "view", "adopt"}
    BY DEF WorkerPC
  <2>4. CallsKept /\ NoneReady(gh')
    BY <1>0, <2>1, OthersWritten, CallKeeps
  <2> QED BY <1>1, <2>1, <2>2, <2>3, <2>4
<1>6. CASE StripSpecLabels
  <2>1. /\ worker.pc = "strip" /\ worker.done \in {"adopt", "code"} /\ OnlyWorker
        /\ worker' = Moved("finish", worker.done)
        /\ RemoveLabels(worker.pull, {"looper:spec-ready", "looper:spec-reviewing"})
    BY <1>0, <1>6 DEF StripSpecLabels, Worker, WorkInv, WorkerRow, Moved, WorkerAt
  <2>2. "finish" \in WorkerPC \ {"none", "ready", "reviewing", "all", "view", "adopt"}
    BY DEF WorkerPC
  <2>3. /\ \E ls : gh' = WithoutLabels(worker.pull, ls)
        /\ UNCHANGED cache /\ (Trouble \/ UNCHANGED troubles)
    BY <2>1 DEF RemoveLabels
  <2>4. Kept(gh') /\ NoneReady(gh') /\ troubles' \in 0 .. MaxTroubles
    BY <1>0, <2>3, LabelsWritten, TroubleBound
  <2>5. CallsKept
    BY <2>3, <2>4 DEF CallsKept, TypeInv, CacheOK
  <2> QED BY <1>1, <2>1, <2>2, <2>4, <2>5
<1>7. CASE CreatePull
  <2>1. worker.pc = "create" /\ worker.done \in {"adopt", "code"} /\ OnlyWorker
    BY <1>0, <1>7 DEF CreatePull, WorkInv, WorkerRow
  <2>2. worker' = Moved("finish", worker.done) \/ worker' = Moved("fail", worker.done)
    BY <1>0, <1>7 DEF CreatePull, WorkerRow, Moved, WorkerAt
  <2>3. {"finish", "fail"} \subseteq WorkerPC \ {"none", "ready", "reviewing", "all", "view", "adopt"}
    BY DEF WorkerPC
  <2>4. CallsKept /\ NoneReady(gh')
    <3>1. CASE UNCHANGED githubVars
      BY <3>1, NothingCalled DEF githubVars
    <3>2. CASE Len(gh.pulls) < MaxPulls /\ \E ok \in BOOLEAN : Call(Created(WorkBranch), ok)
      <4>1. WorkBranch \in Branches
        BY <2>1, WorkBranchNamed
      <4>2. Kept(Created(WorkBranch)) /\ NoneReady(Created(WorkBranch))
        BY <1>0, <3>2, <4>1, OthersWritten
      <4> QED BY <3>2, <4>2, CallKeeps
    <3> QED BY <1>7, <3>1, <3>2 DEF CreatePull
  <2> QED BY <1>1, <2>1, <2>2, <2>3, <2>4
<1>8. CASE WorkerSaves("finish", "completed") \/ WorkerSaves("fail", "failed")
  <2>1. /\ worker.pc \in {"finish", "fail"} /\ worker.done \in {"adopt", "code"} /\ OnlyWorker
        /\ UNCHANGED githubVars
    BY <1>0, <1>8 DEF WorkerSaves, Worker, WorkInv, WorkerRow
  <2>2. worker' = Moved("completed", worker.done) \/ worker' = Moved("failed", worker.done)
    BY <1>0, <1>8 DEF WorkerSaves, Worker, WorkerRow, Moved, WorkerAt
  <2>3. {"completed", "failed"} \subseteq WorkerPC \ {"none", "ready", "reviewing", "all", "view", "adopt"}
    BY DEF WorkerPC, Resting, Ended
  <2>4. CallsKept /\ NoneReady(gh')
    BY <2>1, NothingCalled DEF githubVars
  <2> QED BY <1>1, <2>1, <2>2, <2>3, <2>4
<1> QED BY <1>2, <1>3, <1>4, <1>5, <1>6, <1>7, <1>8, LookupKeeps, ViewSpecKeeps DEF WorkerStep, Goal

-----------------------------------------------------------------------------
(* Reviewer *)

\* What BlockedIsNotReady says of a step.
ReadyStep == \A n \in PullIds : /\ "looper:spec-ready" \notin gh.pulls[n].labels
                                /\ "looper:spec-ready" \in gh'.pulls[n].labels
                                => reviewer.pull = n /\ reviewer.found # "blocking"

\* A step of the reviewer that calls nothing, looks, or writes a label.
LEMMA ReviewerCalls ==
    ASSUME TypeInv
    PROVE  /\ UNCHANGED githubVars => CallsKept /\ NoneReady(gh')
           /\ \A ok \in BOOLEAN : View(ok) => CallsKept /\ NoneReady(gh')
           /\ \A l \in PullLabels, ok \in BOOLEAN :
                Call(WithLabel(reviewer.pull, l), ok) =>
                  /\ CallsKept
                  /\ l # "looper:spec-ready" => NoneReady(gh')
                  /\ \A n \in PullIds : n # reviewer.pull => gh'.pulls[n] = gh.pulls[n]
           /\ \A ls : \A ok \in BOOLEAN :
                Call(WithoutLabels(reviewer.pull, ls), ok) => CallsKept /\ NoneReady(gh')
<1>1. gh \in Repository /\ Len(gh.pulls) <= MaxPulls
  BY DEF TypeInv, FlowTypeOK, GitHubTypeOK
<1>2. ASSUME NEW l \in PullLabels, NEW ok \in BOOLEAN, Call(WithLabel(reviewer.pull, l), ok)
      PROVE  /\ CallsKept
             /\ l # "looper:spec-ready" => NoneReady(gh')
             /\ \A n \in PullIds : n # reviewer.pull => gh'.pulls[n] = gh.pulls[n]
  <2>1. gh' \in {gh, WithLabel(reviewer.pull, l)}
    BY <1>2 DEF Call
  <2>2. /\ Kept(WithLabel(reviewer.pull, l))
        /\ l # "looper:spec-ready" => NoneReady(WithLabel(reviewer.pull, l))
        /\ \A n \in PullIds : n # reviewer.pull => WithLabel(reviewer.pull, l).pulls[n] = gh.pulls[n]
    BY <1>1, LabelsWritten
  <2>3. CallsKept /\ (l # "looper:spec-ready" => NoneReady(gh'))
    BY <1>2, <2>2, CallKeeps
  <2> QED BY <2>1, <2>2, <2>3
<1>3. ASSUME NEW ls, NEW ok \in BOOLEAN, Call(WithoutLabels(reviewer.pull, ls), ok)
      PROVE  CallsKept /\ NoneReady(gh')
  BY <1>1, <1>3, LabelsWritten, CallKeeps
<1> QED BY <1>2, <1>3, NothingCalled, ViewKeeps DEF githubVars

LEMMA ReviewerKeeps ==
    ASSUME TypeInv, ReviewInv, ReviewerStep
    PROVE  CallsKept /\ ReadyStep /\ ReviewerOK' /\ OnlyReviewer /\ ReviewInv'
<1>0. ReviewerOK
  BY TypeParts
<1>1. ASSUME NoneReady(gh') PROVE ReadyStep
  BY <1>1 DEF NoneReady, ReadyStep
<1>2. CASE Filter
  <2>1. CallsKept /\ NoneReady(gh')
    BY <1>2, ReviewerCalls DEF Filter
  <2> QED BY <1>0, <1>1, <1>2, <2>1 DEF Filter, ReviewerOK, ReviewerRow, ReviewerPC, ReviewInv
<1>3. CASE RecordFilter
  BY <1>0, <1>1, <1>3, ReviewerCalls
     DEF RecordFilter, ReviewerSaves, ReviewerOK, ReviewerRow, ReviewerPC, ReviewInv
<1>4. CASE Review
  <2>1. CallsKept /\ NoneReady(gh')
    BY <1>4, ReviewerCalls DEF Review
  <2> QED BY <1>0, <1>1, <1>4, <2>1 DEF Review, ReviewerOK, ReviewerRow, ReviewerPC, ReviewInv
<1>5. CASE SaveVerdict
  BY <1>0, <1>1, <1>5, ReviewerCalls
     DEF SaveVerdict, ReviewerSaves, ReviewerOK, ReviewerRow, ReviewerPC, ReviewInv
<1>6. CASE RecordReview
  BY <1>0, <1>1, <1>6, ReviewerCalls
     DEF RecordReview, ReviewerSaves, ReviewerOK, ReviewerRow, ReviewerPC, ReviewInv
<1>7. CASE Publish
  <2>1. CallsKept /\ NoneReady(gh')
    BY <1>7, ReviewerCalls DEF Publish, ReviewerWrites, PullLabels
  <2> QED BY <1>0, <1>1, <1>7, <2>1
          DEF Publish, ReviewerWrites, Reviewer, ReviewerOK, ReviewerRow, ReviewerPC, ReviewInv
<1>8. CASE LookAtPhase
  <2>1. CallsKept /\ NoneReady(gh')
    BY <1>8, ReviewerCalls DEF LookAtPhase
  <2> QED BY <1>0, <1>1, <1>8, <2>1
          DEF LookAtPhase, HasIssues, ReviewerOK, ReviewerRow, ReviewerPC, ReviewInv
<1>9. CASE Unreview
  <2>. DEFINE ls == {"looper:spec-reviewing"}
  <2>0. \E ok \in BOOLEAN : Call(WithoutLabels(reviewer.pull, ls), ok)
    BY <1>9 DEF Unreview, ReviewerWrites
  <2>. HIDE DEF ls
  <2>1. CallsKept /\ NoneReady(gh')
    BY <2>0, ReviewerCalls
  <2> QED BY <1>0, <1>1, <1>9, <2>1
          DEF Unreview, ReviewerWrites, Reviewer, ReviewerOK, ReviewerRow, ReviewerPC, ReviewInv
<1>10. CASE MarkReady
  <2>1. CallsKept /\ \A n \in PullIds : n # reviewer.pull => gh'.pulls[n] = gh.pulls[n]
    BY <1>10, ReviewerCalls DEF MarkReady, ReviewerWrites, PullLabels
  <2>2. reviewer.pc = "mark" /\ reviewer.found # "blocking"
    BY <1>10 DEF MarkReady, ReviewerWrites, Reviewer, ReviewInv
  <2>3. ReadyStep
    BY <2>1, <2>2 DEF ReadyStep
  <2> QED BY <1>0, <1>10, <2>1, <2>3
          DEF MarkReady, ReviewerWrites, Reviewer, ReviewerOK, ReviewerRow, ReviewerPC, ReviewInv
<1>11. CASE NeedsFix
  <2>1. CallsKept /\ NoneReady(gh')
    BY <1>11, ReviewerCalls DEF NeedsFix, ReviewerWrites, PullLabels
  <2> QED BY <1>0, <1>1, <1>11, <2>1
          DEF NeedsFix, ReviewerWrites, Reviewer, ReviewerOK, ReviewerRow, ReviewerPC, ReviewInv
<1>12. CASE FinishReview
  <2>1. CallsKept /\ NoneReady(gh') /\ OnlyReviewer /\ reviewer.pc = "finish"
        /\ reviewer' = [reviewer EXCEPT !.pc = "completed", !.past = reviewer.past \cup {reviewer.pull}]
    BY <1>0, <1>12, ReviewerCalls DEF FinishReview, ReviewerSaves
  <2>2. reviewer.past \cup {reviewer.pull} \subseteq 1 .. MaxPulls
    <3>1. reviewer.past \subseteq 1 .. MaxPulls /\ reviewer.pull \in 0 .. MaxPulls /\ reviewer.pull > 0
      BY <1>0, <2>1 DEF ReviewerOK, ReviewerRow
    <3> QED BY <3>1, GitHubAssumption
  <2> QED BY <1>0, <1>1, <2>1, <2>2 DEF ReviewerOK, ReviewerRow, ReviewerPC, Resting, Ended, ReviewInv
<1> QED BY <1>2, <1>3, <1>4, <1>5, <1>6, <1>7, <1>8, <1>9, <1>10, <1>11, <1>12 DEF ReviewerStep

-----------------------------------------------------------------------------
(* Tick *)

\* Where the tick thread may go, with what it has still to look at.
LEMMA TickMoves ==
    ASSUME TypeInv, NEW pc \in TickPC, NEW todo \in SUBSET PullIds,
           TickTo(pc) \/ tick' = [pc |-> pc, todo |-> todo] \/ tick' = [pc |-> pc, todo |-> tick.todo \ todo]
    PROVE  (tick \in TickRow)'
<1>1. tick \in TickRow /\ PullIds \subseteq 1 .. MaxPulls
  <2>1. Len(gh.pulls) \in Nat /\ Len(gh.pulls) <= MaxPulls /\ PullIds = 1 .. Len(gh.pulls)
    BY RepositoryTypes DEF TypeInv, FlowTypeOK, GitHubTypeOK
  <2> QED BY <2>1, TypeParts, GitHubAssumption
<1> QED BY <1>1 DEF TickRow, TickTo

LEMMA TickWritesKeep ==
    ASSUME TypeInv, NEW from, NEW to \in TickPC, NEW new, Kept(new), NoneReady(new), TickWrites(from, to, new)
    PROVE  CallsKept /\ NoneReady(gh') /\ (tick \in TickRow)' /\ OnlyTick
<1>1. TickTo(to) /\ OnlyTick /\ \E ok \in BOOLEAN : Call(new, ok)
  BY DEF TickWrites, Tick
<1>2. (tick \in TickRow)'
  BY <1>1, TypeParts DEF TickTo, TickRow
<1> QED BY <1>1, <1>2, CallKeeps

LEMMA CoordinateKeeps ==
    ASSUME TypeInv, Coordinate
    PROVE  CallsKept /\ NoneReady(gh') /\ (tick \in TickRow)' /\ OnlyTick
<1>0. /\ gh \in Repository /\ Len(gh.pulls) <= MaxPulls
      /\ CoordinatorPC \cup {"reviewer", "worker", "planner"} \subseteq TickPC
      /\ tick \in TickRow /\ {} \in SUBSET PullIds
  BY TypeParts DEF TypeInv, FlowTypeOK, GitHubTypeOK, TickPC
<1>1. CASE ListReady
  <2>. DEFINE l == "looper:spec-ready"
  <2>1. PICK ok \in BOOLEAN : /\ List(l, ok)
                              /\ tick' = [pc |-> "link", todo |-> IF ok THEN DOMAIN Listed(l) ELSE {}]
    BY <1>1 DEF ListReady
  <2>2. DOMAIN Listed(l) \subseteq PullIds /\ l \in Lists
    BY ListedExist DEF PullLists, Lists
  <2>3. "link" \in TickPC /\ (IF ok THEN DOMAIN Listed(l) ELSE {}) \in SUBSET PullIds
    BY <1>0, <2>2 DEF CoordinatorPC
  <2>4. (tick \in TickRow)'
    BY <2>1, <2>3, TickMoves
  <2> QED BY <1>1, <2>1, <2>2, <2>4, ListKeeps DEF ListReady
<1>2. CASE ViewLinked
  <2>1. OnlyTick
    BY <1>2 DEF ViewLinked
  <2>2. CASE TickTo("stale") /\ UNCHANGED githubVars
    BY <1>0, <2>1, <2>2, TickMoves, NothingCalled DEF githubVars, CoordinatorPC
  <2>3. ASSUME NEW n \in tick.todo, NEW ok \in BOOLEAN, View(ok),
               tick' = [pc |-> IF ok /\ ForPlan /\ ~ForImplement THEN "undispatch" ELSE "link",
                        todo |-> tick.todo \ {n}]
        PROVE  CallsKept /\ NoneReady(gh') /\ (tick \in TickRow)'
    BY <1>0, <2>3, ViewKeeps DEF CoordinatorPC, TickRow
  <2> QED BY <1>2, <2>1, <2>2, <2>3 DEF ViewLinked
<1>3. CASE Undispatch \/ Dispatch \/ AddPlan \/ AddReady \/ DropPlan
  <2>1. \E new \in {WithoutIssueLabel("dispatch/plan"), WithIssueLabel("dispatch/implement"),
                    WithIssueLabel("looper:plan"), WithIssueLabel("looper:worker-ready"),
                    WithoutIssueLabel("looper:plan")} :
         \E from, to \in TickPC : TickWrites(from, to, new)
    BY <1>3 DEF Undispatch, Dispatch, AddPlan, AddReady, DropPlan, TickPC, CoordinatorPC
  <2>2. \A new \in {WithoutIssueLabel("dispatch/plan"), WithIssueLabel("dispatch/implement"),
                    WithIssueLabel("looper:plan"), WithIssueLabel("looper:worker-ready"),
                    WithoutIssueLabel("looper:plan")} : Kept(new) /\ NoneReady(new)
    BY <1>0, OthersWritten DEF IssueLabels
  <2> QED BY <2>1, <2>2, TickWritesKeep
<1>4. CASE ListStale
  <2>. DEFINE l == "looper:spec-reviewing"
  <2>1. OnlyTick /\ l \in Lists /\ l \in PullLists /\ {"plan", "unreview"} \subseteq TickPC
    BY <1>0, <1>4 DEF ListStale, PullLists, Lists, CoordinatorPC
  <2>2. CASE (\E ok \in BOOLEAN : List(l, ok)) /\ TickTo("plan")
    BY <1>0, <2>1, <2>2, ListKeeps, TickMoves
  <2>3. CASE Answered(l) /\ Trouble /\ \E n \in DOMAIN Listed(l) : tick' = [pc |-> "unreview", todo |-> {n}]
    <3>1. PICK n \in PullIds : tick' = [pc |-> "unreview", todo |-> {n}]
      BY <2>1, <2>3, ListedExist
    <3>2. (tick \in TickRow)'
      <4>. DEFINE one == {n}
      <4>1. one \in SUBSET PullIds /\ tick' = [pc |-> "unreview", todo |-> one]
        BY <3>1
      <4>. HIDE DEF one
      <4> QED BY <2>1, <4>1, TickMoves
    <3> QED BY <2>1, <2>3, <3>2, AnswerKeeps
  <2> QED BY <1>4, <2>1, <2>2, <2>3 DEF ListStale
<1>5. CASE UnreviewStale
  <2>1. \E from, to \in TickPC, ls \in {{"looper:spec-reviewing"}} :
           TickWrites(from, to, WithoutLabels(StalePull, ls))
    BY <1>5 DEF UnreviewStale, TickPC, CoordinatorPC
  <2> QED BY <1>0, <2>1, LabelsWritten, TickWritesKeep
<1>6. CASE CloseStale
  <2>1. OnlyTick /\ tick' = [pc |-> "plan", todo |-> {}] /\ \E ok \in BOOLEAN : Call(Closed(StalePull), ok)
    BY <1>6 DEF CloseStale
  <2>2. Kept(Closed(StalePull)) /\ NoneReady(Closed(StalePull))
    BY <1>0, LabelsWritten
  <2>3. (tick \in TickRow)'
    BY <1>0, <2>1 DEF CoordinatorPC, TickRow
  <2> QED BY <2>1, <2>2, <2>3, CallKeeps
<1>7. CASE ViewForPlan \/ ViewForImplement
  <2>1. OnlyTick /\ (\E ok \in BOOLEAN : View(ok)) /\ \E pc \in TickPC : TickTo(pc)
    BY <1>7 DEF ViewForPlan, ViewForImplement, ViewIssue, TickPC, CoordinatorPC
  <2> QED BY <1>0, <2>1, ViewKeeps, TickMoves
<1> QED BY <1>1, <1>2, <1>3, <1>4, <1>5, <1>6, <1>7 DEF Coordinate

\* A discovery that starts nothing, or starts the pipeline it may.
LEMMA DiscoverPlannerKeeps ==
    ASSUME TypeInv, DiscoverPlanner
    PROVE  /\ CallsKept /\ NoneReady(gh') /\ (tick \in TickRow)'
           /\ PlannerOK' /\ UNCHANGED <<reviewer, worker>>
<1>1. /\ (\E ok \in BOOLEAN : View(ok)) /\ TickTo("ready")
      /\ (MayPlan /\ StartPlanner) \/ UNCHANGED <<planner, reviewer, worker>>
  BY DEF DiscoverPlanner, Discovery
<1>2. (tick \in TickRow)'
  BY <1>1, TypeParts DEF TickTo, TickRow, TickPC, CoordinatorPC
<1>3. CASE MayPlan /\ StartPlanner
  <2>1. planner.loop + 1 \in 0 .. MaxLoops /\ planner.loop + 1 > 0
    BY <1>3, TypeParts, GitHubAssumption DEF PlannerOK, PlannerRow, MayPlan
  <2>2. 0 \in 0 .. MaxPulls
    BY GitHubAssumption
  <2>3. PlannerOK' /\ UNCHANGED <<reviewer, worker>>
    BY <1>3, <2>1, <2>2 DEF StartPlanner, PlannerOK, PlannerRow, PlannerPC
  <2> QED BY <1>1, <1>2, <2>3, ViewKeeps
<1>4. CASE UNCHANGED <<planner, reviewer, worker>>
  BY <1>1, <1>2, <1>4, ViewKeeps, OthersRest
<1> QED BY <1>1, <1>3, <1>4

LEMMA DiscoverReviewerKeeps ==
    ASSUME TypeInv, ReviewInv, DiscoverReviewer
    PROVE  /\ CallsKept /\ NoneReady(gh') /\ (tick \in TickRow)'
           /\ ReviewerOK' /\ ReviewInv' /\ UNCHANGED <<planner, worker>>
<1>. DEFINE l == "looper:spec-reviewing"
<1>1. /\ (\E ok \in BOOLEAN : List(l, ok)) /\ TickTo("worker")
      /\ StartReviewer \/ UNCHANGED <<planner, reviewer, worker>>
  BY DEF DiscoverReviewer, Discovery
<1>2. (tick \in TickRow)'
  BY <1>1, TypeParts DEF TickTo, TickRow, TickPC
<1>3. CallsKept /\ NoneReady(gh')
  BY <1>1, ListKeeps DEF Lists
<1>4. CASE StartReviewer
  <2>1. PICK n \in ToReview :
           reviewer' = [reviewer EXCEPT !.pull = n, !.pc = "filter", !.done = "none",
                                        !.verdict = "none", !.found = "none"]
    BY <1>4 DEF StartReviewer
  <2>2. n \in 0 .. MaxPulls /\ n > 0
    <3>1. n \in DOMAIN Listed(l)
      BY DEF ToReview
    <3>2. n \in 1 .. Len(gh.pulls) /\ Len(gh.pulls) \in Nat /\ Len(gh.pulls) <= MaxPulls
      BY <3>1, ListedExist, RepositoryTypes DEF PullLists, Lists, TypeInv, FlowTypeOK, GitHubTypeOK
    <3> QED BY <3>2, GitHubAssumption
  <2>3. ReviewerOK' /\ ReviewInv'
    BY ZenonT(30), <2>1, <2>2, TypeParts DEF ReviewerOK, ReviewerRow, ReviewerPC, Verdicts, ReviewInv
  <2> QED BY <1>2, <1>3, <1>4, <2>3 DEF StartReviewer
<1>5. CASE UNCHANGED <<planner, reviewer, worker>>
  BY <1>2, <1>3, <1>5, OthersRest
<1> QED BY <1>1, <1>4, <1>5

LEMMA DiscoverWorkerKeeps ==
    ASSUME TypeInv, WorkInv, DiscoverWorker
    PROVE  /\ CallsKept /\ NoneReady(gh') /\ (tick \in TickRow)'
           /\ WorkerOK' /\ WorkInv' /\ UNCHANGED <<planner, reviewer>>
<1>1. /\ (\E ok \in BOOLEAN : List("looper:worker-ready", ok)) /\ TickTo("planner")
      /\ (MayWork /\ StartWorker) \/ UNCHANGED <<planner, reviewer, worker>>
  BY DEF DiscoverWorker, Discovery
<1>2. (tick \in TickRow)'
  BY <1>1, TypeParts DEF TickTo, TickRow, TickPC
<1>3. CallsKept /\ NoneReady(gh')
  BY <1>1, IssueListKeeps
<1>4. CASE MayWork /\ StartWorker
  <2>1. worker.loop + 1 \in 0 .. MaxLoops /\ worker.loop + 1 > 0
    BY <1>4, TypeParts, GitHubAssumption DEF WorkerOK, WorkerRow, MayWork
  <2>2. 0 \in 0 .. MaxPulls /\ 0 <= Len(gh'.pulls)
    BY <1>3, GitHubAssumption, PullsStay DEF CallsKept
  <2>3. WorkerOK' /\ WorkInv' /\ UNCHANGED <<planner, reviewer>>
    BY <1>4, <2>1, <2>2 DEF StartWorker, WorkerOK, WorkerRow, WorkerPC, WorkInv
  <2> QED BY <1>2, <1>3, <2>3
<1>5. CASE UNCHANGED <<planner, reviewer, worker>>
  BY <1>2, <1>3, <1>5, OthersRest, WorkerRests
<1> QED BY <1>1, <1>4, <1>5

-----------------------------------------------------------------------------
(* Death and resumption *)

LEMMA CrashKeeps ==
    ASSUME TypeInv, ReviewInv, WorkInv, Crash
    PROVE  /\ CallsKept /\ NoneReady(gh') /\ (tick \in TickRow)'
           /\ PlannerOK' /\ WorkerOK' /\ ReviewerOK' /\ ReviewInv' /\ WorkInv'
<1>1. CallsKept /\ NoneReady(gh') /\ UNCHANGED gh
  <2>1. Kept(gh) /\ NoneReady(gh) /\ UNCHANGED gh /\ troubles' \in 0 .. MaxTroubles
    BY TroubleBound, OthersWritten DEF TypeInv, FlowTypeOK, GitHubTypeOK, Crash
  <2>2. cache' = [l \in Lists |-> <<>>]
    BY DEF Crash
  <2>3. \A l \in PullLists : cache'[l] = <<>>
    BY <2>2 DEF PullLists
  <2> QED BY <2>1, <2>2, <2>3 DEF CallsKept
<1>2. (tick \in TickRow)'
  BY DEF Crash, TickRow, TickPC
<1>3. PlannerOK'
  <2>1. PlannerOK /\ 0 \in 0 .. MaxPulls
    BY TypeParts, GitHubAssumption
  <2>2. CASE planner.pc \in Resting
    BY <2>1, <2>2 DEF Crash, Lost, PlannerOK, PlannerRow
  <2>3. CASE planner.pc \notin Resting
    BY <2>1, <2>3 DEF Crash, Lost, PlannerOK, PlannerRow, PlannerPC, Resting
  <2> QED BY <2>2, <2>3
<1>4. ReviewerOK' /\ ReviewInv'
  <2>1. ReviewerOK
    BY TypeParts
  <2>2. CASE reviewer.pc \in Resting
    BY <2>1, <2>2 DEF Crash, Lost, ReviewerOK, ReviewInv
  <2>3. CASE reviewer.pc \notin Resting
    BY <2>1, <2>3 DEF Crash, Lost, ReviewerOK, ReviewerRow, ReviewerPC, Resting, ReviewInv
  <2> QED BY <2>2, <2>3
<1>5. WorkerOK' /\ WorkInv'
  <2>1. WorkerOK /\ Kept(gh') /\ 0 \in 0 .. MaxPulls
    BY <1>1, TypeParts, GitHubAssumption DEF CallsKept
  <2>. DEFINE pc == IF worker.pc \in Resting THEN worker.pc ELSE "lost"
              pull == IF worker.done = "none" THEN 0 ELSE worker.pull
  <2>2. worker' = WorkerAt(pc, worker.done, {}, pull, worker.before, worker.blind)
    BY <2>1 DEF Crash, Lost, WorkerOK, WorkerRow, WorkerAt
  <2>3. /\ pc \in WorkerPC /\ pc \notin {"ready", "reviewing", "all", "view", "adopt", "code", "push",
                                         "clear", "strip", "create", "finish", "fail"}
        /\ worker.pc = "none" => pc = "none"
    BY <2>1 DEF WorkerOK, WorkerRow, WorkerPC, Resting, Ended
  <2>4. worker.done # "none" => pull = worker.pull
    OBVIOUS
  <2>5. pull \in PullIds \cup {0} /\ pull \in 0 .. MaxPulls
    BY <2>1 DEF WorkerOK, WorkerRow
  <2>. HIDE DEF pc, pull
  <2>6. WorkerOK'
    <3>1. /\ gh' = gh /\ PullIds' = PullIds
      BY <1>1 DEF CallsKept, PullIds
    <3>2. /\ worker.loop \in 0 .. MaxLoops /\ worker.done \in {"none", "adopt", "code"}
          /\ worker.before \in 0 .. MaxPulls /\ worker.blind \in BOOLEAN
          /\ worker.pc # "none" => worker.loop > 0
          /\ worker.before <= Len(gh.pulls)
      BY <2>1 DEF WorkerOK, WorkerRow
    <3>3. worker' \in WorkerRow
      BY <2>2, <2>3, <2>5, <3>2 DEF WorkerAt, WorkerRow
    <3>4. /\ worker'.pc = pc /\ worker'.loop = worker.loop /\ worker'.seen = {}
          /\ worker'.pull = pull /\ worker'.before = worker.before
      BY <2>2 DEF WorkerAt
    <3>5. (worker.pc # "none" => worker.loop > 0)'
      BY <2>3, <3>2, <3>4
    <3>7. (worker.seen \subseteq PullIds)'
      BY <3>4
    <3>6. (worker.pull \in PullIds \cup {0})' /\ (worker.before <= Len(gh.pulls))'
      BY <2>5, <3>1, <3>2, <3>4
    <3> QED BY <3>3, <3>5, <3>6, <3>7 DEF WorkerOK
  <2>7. /\ worker'.pc = pc /\ worker'.done = worker.done /\ worker'.pull = pull
        /\ worker'.before = worker.before /\ worker'.blind = worker.blind
    BY <2>2 DEF WorkerAt
  <2>8. NoSpecAmong(worker.before) => NoSpecAmong(worker.before)'
    BY <1>1, <2>7 DEF NoSpecAmong
  <2>9. worker'.done # "none" /\ worker'.pull = 0 /\ ~worker'.blind => NoSpecAmong(worker.before)'
    BY <2>4, <2>7, <2>8 DEF WorkInv
  <2> QED BY <2>3, <2>6, <2>7, <2>9 DEF WorkInv
<1> QED BY <1>1, <1>2, <1>3, <1>4, <1>5

LEMMA ResumeKeeps ==
    ASSUME TypeInv, ReviewInv, WorkInv, Resume
    PROVE  /\ CallsKept /\ NoneReady(gh') /\ (tick \in TickRow)'
           /\ PlannerOK' /\ WorkerOK' /\ ReviewerOK' /\ ReviewInv' /\ WorkInv'
<1>1. CallsKept /\ NoneReady(gh') /\ Kept(gh') /\ UNCHANGED tick
  <2>1. CallsKept /\ NoneReady(gh')
    BY NothingCalled DEF Resume, ResumePlanner, ResumeWorker, ResumeReviewer, githubVars
  <2> QED BY <2>1 DEF Resume, ResumePlanner, ResumeWorker, ResumeReviewer, OnlyPlanner, OnlyWorker,
                      OnlyReviewer, CallsKept
<1>2. CASE ResumePlanner
  <2>1. PlannerOK'
    BY <1>2, TypeParts DEF ResumePlanner, PlannerOK, PlannerRow, PlannerPC
  <2> QED BY <1>1, <1>2, <2>1, OthersRest, WorkerRests DEF ResumePlanner, OnlyPlanner
<1>3. CASE ResumeWorker
  <2>1. WorkerOK /\ 0 \in PullIds \cup {0} /\ worker.pc # "none"
    BY <1>3, TypeParts DEF ResumeWorker
  <2>2. \/ worker.done = "adopt" /\ worker' = Moved("code", "adopt")
        \/ worker.done = "code" /\ worker' = Moved("push", "code")
        \/ worker' = WorkerAt("ready", "none", worker.seen, 0, worker.before, worker.blind)
    BY <1>3, <2>1 DEF ResumeWorker, WorkerOK, WorkerRow, Moved, WorkerAt
  <2>3. /\ {"code", "push"} \subseteq WorkerPC \ {"none", "ready", "reviewing", "all", "view", "adopt"}
        /\ "ready" \in WorkerPC \ {"none"}
    BY DEF WorkerPC
  <2>4. ASSUME worker.done = "adopt", worker' = Moved("code", "adopt") PROVE WorkerOK' /\ WorkInv'
    <3>1. worker.done # "none" /\ "adopt" \in {"adopt", "code"} /\ "code" # "create"
      BY <2>4
    <3>2. "code" \in WorkerPC \ {"none", "ready", "reviewing", "all", "view", "adopt"}
      BY <2>3
    <3> QED BY <1>1, <2>1, <2>4, <3>1, <3>2, WorkGoesOn
  <2>5. ASSUME worker.done = "code", worker' = Moved("push", "code") PROVE WorkerOK' /\ WorkInv'
    <3>1. worker.done # "none" /\ "code" \in {"adopt", "code"} /\ "push" # "create"
      BY <2>5
    <3>2. "push" \in WorkerPC \ {"none", "ready", "reviewing", "all", "view", "adopt"}
      BY <2>3
    <3> QED BY <1>1, <2>1, <2>5, <3>1, <3>2, WorkGoesOn
  <2>6. ASSUME worker' = WorkerAt("ready", "none", worker.seen, 0, worker.before, worker.blind)
        PROVE  WorkerOK' /\ WorkInv'
    <3>1. /\ worker.seen \in SUBSET PullIds /\ worker.before \in 0 .. MaxPulls
          /\ worker.before <= Len(gh.pulls) /\ worker.blind \in BOOLEAN
      BY <2>1 DEF WorkerOK, WorkerRow
    <3>2. WorkerOK'
      BY <1>1, <2>1, <2>3, <2>6, <3>1, WorkerMoves
    <3>3. (worker.pc)' = "ready" /\ (worker.done)' = "none"
      BY <2>6 DEF WorkerAt
    <3>4. WorkInv'
      BY <3>3 DEF WorkInv
    <3> QED BY <3>2, <3>4
  <2>7. WorkerOK' /\ WorkInv'
    BY <2>2, <2>4, <2>5, <2>6
  <2> QED BY <1>1, <1>3, <2>7, OthersRest DEF ResumeWorker, OnlyWorker
<1>4. CASE ResumeReviewer
  <2>1. ReviewerOK' /\ ReviewInv'
    <3>1. ReviewerOK /\ reviewer.pc = "lost"
      BY <1>4, TypeParts DEF ResumeReviewer
    <3>2. PICK pc \in {"filter", "review", "approve"} :
             /\ reviewer' = [reviewer EXCEPT !.pc = pc]
             /\ pc = "approve" <=> reviewer.done = "review"
      BY <1>4, <3>1 DEF ResumeReviewer, ReviewerOK, ReviewerRow
    <3>3. ReviewerOK'
      BY <3>1, <3>2 DEF ReviewerOK, ReviewerRow, ReviewerPC
    <3> QED BY <3>1, <3>2, <3>3 DEF ReviewInv, ReviewerOK, ReviewerRow
  <2> QED BY <1>1, <1>4, <2>1, OthersRest, WorkerRests DEF ResumeReviewer, OnlyReviewer
<1> QED BY <1>2, <1>3, <1>4 DEF Resume

-----------------------------------------------------------------------------
(* Theorems *)

FlowInv == TypeInv /\ ReviewInv /\ WorkInv

LEMMA FlowInit == Init => FlowInv
<1>. SUFFICES ASSUME Init PROVE FlowInv
  OBVIOUS
<1>1. /\ gh.issue \in {{"dispatch/plan"}, {"dispatch/implement"}} /\ gh.pulls = <<>> /\ gh.pushed = {}
      /\ gh \in Repository
  <2>1. gh \in [issue : {{"dispatch/plan"}, {"dispatch/implement"}}, pulls : {<<>>}, pushed : {{}}]
    BY DEF Init, GitHubInit
  <2>2. gh = [issue |-> gh.issue, pulls |-> gh.pulls, pushed |-> gh.pushed]
    BY <2>1
  <2>3. gh.issue \in {{"dispatch/plan"}, {"dispatch/implement"}} /\ gh.pulls = <<>> /\ gh.pushed = {}
    BY <2>1
  <2>4. gh.issue \in SUBSET IssueLabels
    BY <2>3 DEF IssueLabels
  <2>5. <<>> \in Seq(Pull) /\ {} \in SUBSET (Branches \X {"spec", "code"})
    OBVIOUS
  <2> QED BY <2>2, <2>3, <2>4, <2>5 DEF Repository
<1>2. Len(gh.pulls) = 0 /\ PullIds = {} /\ Len(gh.pulls) <= MaxPulls
  BY <1>1, GitHubAssumption DEF PullIds
<1>3. GitHubTypeOK
  BY <1>1, <1>2, GitHubAssumption DEF GitHubTypeOK, Init, GitHubInit, Repository
<1>4. CacheOK
  BY DEF Init, GitHubInit, CacheOK, PullLists
<1>5. 0 \in 0 .. MaxLoops /\ 0 \in 0 .. MaxPulls
  BY GitHubAssumption
<1>6. tick \in TickRow /\ PlannerOK /\ WorkerOK /\ ReviewerOK
  BY <1>2, <1>5 DEF Init, TickRow, TickPC, PlannerOK, PlannerRow, PlannerPC, WorkerOK, WorkerRow, WorkerPC,
                    ReviewerOK, ReviewerRow, ReviewerPC, Resting, Verdicts
<1>7. FlowTypeOK /\ NamesOK
  BY <1>3, <1>6 DEF FlowTypeOK, NamesOK, TickRow, PlannerOK, PlannerRow, WorkerOK, WorkerRow,
                    ReviewerOK, ReviewerRow
<1>8. ReviewInv /\ WorkInv
  BY DEF Init, ReviewInv, WorkInv
<1> QED BY <1>1, <1>4, <1>7, <1>8 DEF FlowInv, TypeInv

LEMMA FlowNext == FlowInv /\ [Next]_vars => FlowInv' /\ [ReadyStep]_vars
<1>. SUFFICES ASSUME TypeInv, ReviewInv, WorkInv, [Next]_vars
              PROVE  FlowInv' /\ [ReadyStep]_vars
  BY DEF FlowInv
<1>0. ASSUME NoneReady(gh') PROVE ReadyStep
  BY <1>0 DEF NoneReady, ReadyStep
<1>1. CASE UNCHANGED vars
  BY <1>1 DEF vars, githubVars, FlowInv, TypeInv, FlowTypeOK, GitHubTypeOK, CacheOK, NamesOK, ReviewInv,
              WorkInv, NoSpecAmong, PullIds
<1>2. CASE TickStep
  <2>1. CASE Coordinate
    <3>1. CallsKept /\ NoneReady(gh') /\ (tick \in TickRow)' /\ OnlyTick
      BY <2>1, CoordinateKeeps
    <3> QED BY <3>1, <1>0, OthersRest, WorkerRests, TypeNext DEF OnlyTick, FlowInv
  <2>2. CASE DiscoverPlanner
    BY <2>2, <1>0, DiscoverPlannerKeeps, OthersRest, WorkerRests, TypeNext DEF FlowInv
  <2>3. CASE DiscoverReviewer
    BY <2>3, <1>0, DiscoverReviewerKeeps, OthersRest, WorkerRests, TypeNext DEF FlowInv
  <2>4. CASE DiscoverWorker
    BY <2>4, <1>0, DiscoverWorkerKeeps, OthersRest, TypeNext DEF FlowInv
  <2> QED BY <1>2, <2>1, <2>2, <2>3, <2>4 DEF TickStep
<1>3. CASE PlannerStep
  BY <1>3, <1>0, PlannerKeeps, OthersRest, WorkerRests, TypeNext DEF OnlyPlanner, FlowInv
<1>4. CASE WorkerStep
  BY <1>4, <1>0, WorkerKeeps, OthersRest, TypeNext DEF OnlyWorker, FlowInv
<1>5. CASE ReviewerStep
  BY <1>5, ReviewerKeeps, OthersRest, WorkerRests, TypeNext DEF OnlyReviewer, FlowInv
<1>6. ASSUME NEW l \in Lists, CacheExpires(l)
      PROVE  FlowInv' /\ [ReadyStep]_vars
  <2>1. CallsKept /\ NoneReady(gh') /\ UNCHANGED <<tick, planner, worker, reviewer>>
    BY <1>6, ExpiryKeeps DEF CacheExpires
  <2> QED BY <2>1, <1>0, OthersRest, WorkerRests, TypeNext DEF FlowInv
<1>7. CASE Crash \/ Resume
  BY <1>7, <1>0, CrashKeeps, ResumeKeeps, TypeNext DEF FlowInv
<1> QED BY <1>1, <1>2, <1>3, <1>4, <1>5, <1>6, <1>7 DEF Next

\* Every variable keeps its type, what names a pull request names one that
\* exists, and what reviewer and worker have saved is what they have found.
THEOREM FlowInvariance == Spec => []FlowInv
BY FlowInit, FlowNext, PTL DEF Spec

\* Wherever looperd dies and whichever calls fail: a worker that looked with
\* success does not open a pull request beside an open spec of its issue.
THEOREM InPlace == Spec => []ImplementsInPlace
<1>1. FlowInv => ImplementsInPlace
  BY DEF FlowInv, WorkInv, NoSpecAmong, ImplementsInPlace
<1> QED BY <1>1, FlowInvariance, PTL

\* No pull request is labelled as ready in a run whose last check of the
\* criteria was blocking, by the reviewer or by anybody else.
THEOREM BlockedStays == Spec => BlockedIsNotReady
<1>1. Spec => [][ReadyStep]_vars
  BY FlowInit, FlowNext, PTL DEF Spec
<1>2. ReadyStep => \A n \in PullIds : /\ "looper:spec-ready" \notin gh.pulls[n].labels
                                      /\ "looper:spec-ready" \in gh.pulls[n].labels'
                                      => reviewer.pull = n /\ reviewer.found # "blocking"
  BY DEF ReadyStep
<1> QED BY <1>1, <1>2, PTL DEF BlockedIsNotReady

=============================================================================
