---------------------------- MODULE ServicesProofs ----------------------------
(***************************************************************************)
(* Theorems about the services over the tables, for any number of          *)
(* projects, loops, runs and threads: a removed project has nothing        *)
(* running.                                                                *)
(***************************************************************************)
EXTENDS Services, TLAPS

-----------------------------------------------------------------------------
(* Types *)

\* The rows that stand for nothing are rows.
LEMMA EmptyRows == /\ NoProject \in ProjectRow /\ NoLoop \in LoopRow /\ NoRun \in RunRow
                   /\ NoRequest \in Request /\ ~NoLoop.there /\ ~NoProject.there
<1>1. (CHOOSE p \in Projects : TRUE) \in Projects /\ (CHOOSE t \in Targets : TRUE) \in Targets
  BY ServicesAssumption
<1>2. NoProject \in ProjectRow /\ ~NoProject.there
  BY DEF NoProject, ProjectRow
<1>3. NoLoop \in LoopRow /\ ~NoLoop.there
  BY <1>1 DEF NoLoop, LoopRow, LoopStatus
<1>4. NoRun \in RunRow
  BY ServicesAssumption DEF NoRun, RunRow, LoopIds, RunStatus
<1>5. NoRequest \in Request
  BY <1>1, <1>2, <1>3, <1>4, ServicesAssumption DEF NoRequest, Request, LoopIds
<1> QED BY <1>2, <1>3, <1>4, <1>5

\* The parts of the state, as a proof about one row needs them.
LEMMA RowTypes ==
    ASSUME ServicesTypeOK
    PROVE  /\ \A p \in Projects : projects[p] \in ProjectRow
           /\ \A l \in LoopIds : loops[l] \in LoopRow /\ item[l] \in ItemStatus
           /\ \A r \in RunIds : runRows[r] \in RunRow
           /\ \A c \in Threads : call[c] \in Request
BY DEF ServicesTypeOK

\* INSERT OR REPLACE keeps the types, leaves other projects' rows alone, and
\* takes no loop but those of the project.
LEMMA ReplaceRows ==
    ASSUME ServicesTypeOK, NEW p \in Projects, NEW row \in ProjectRow, Replace(p, row)
    PROVE  /\ projects' \in [Projects -> ProjectRow] /\ loops' \in [LoopIds -> LoopRow]
           /\ item' \in [LoopIds -> ItemStatus] /\ runRows' \in [RunIds -> RunRow]
           /\ projects' = [projects EXCEPT ![p] = row]
           /\ \A l \in LoopIds : \/ ~loops'[l].there /\ item'[l] = "none"
                                 \/ loops'[l] = loops[l] /\ item'[l] = item[l]
<1>. DEFINE gone == IF projects[p].there THEN LoopsOf(p) ELSE {}
<1>1. /\ projects' = [projects EXCEPT ![p] = row]
      /\ loops' = [l \in LoopIds |-> IF l \in gone THEN NoLoop ELSE loops[l]]
      /\ item' = [l \in LoopIds |-> IF l \in gone THEN "none" ELSE item[l]]
      /\ runRows' = [r \in RunIds |-> IF runRows[r].there /\ runRows[r].loop \in gone THEN NoRun ELSE runRows[r]]
  BY DEF Replace
<1>. HIDE DEF gone
<1>2. projects' \in [Projects -> ProjectRow] /\ runRows' \in [RunIds -> RunRow]
  BY <1>1, RowTypes, EmptyRows DEF ServicesTypeOK
<1>3. loops' \in [LoopIds -> LoopRow] /\ item' \in [LoopIds -> ItemStatus]
  BY <1>1, RowTypes, EmptyRows DEF ItemStatus
<1>4. ASSUME NEW l \in LoopIds
      PROVE  \/ ~loops'[l].there /\ item'[l] = "none"
             \/ loops'[l] = loops[l] /\ item'[l] = item[l]
  BY <1>1, EmptyRows
<1> QED BY <1>1, <1>2, <1>3, <1>4

-----------------------------------------------------------------------------
(* Types are kept *)

\* A thread reads, and keeps what it read: one request more, and a new record of
\* the thread.
LEMMA AskTypes ==
    ASSUME ServicesTypeOK, NEW c \in Threads, NEW p \in Projects, Ask(c, p),
           NEW r \in Request, call' = [call EXCEPT ![c] = r]
    PROVE  requests' \in 0 .. MaxRequests /\ call' \in [Threads -> Request]
BY ServicesAssumption DEF Ask, ServicesTypeOK

LEMMA ReadTypes ==
    ASSUME ServicesTypeOK, NEW c \in Threads, NEW p \in Projects,
           AddRead(c, p) \/ RemoveRead(c, p) \/ UpdateRead(c, p) \/ SyncRead(c, p)
    PROVE  ServicesTypeOK' /\ UNCHANGED <<Tables, removed>>
<1>0. call[c] \in Request /\ projects[p] \in ProjectRow /\ Ask(c, p) /\ UNCHANGED <<Tables, removed>>
  BY RowTypes DEF AddRead, RemoveRead, UpdateRead, SyncRead
<1>1. \E r \in Request : call' = [call EXCEPT ![c] = r]
  <2>1. CASE AddRead(c, p)
    <3>1. PICK repo \in BOOLEAN :
             call' = [call EXCEPT ![c].pc = "add", ![c].project = p,
                                  ![c].new = [there |-> TRUE, archived |-> FALSE, source |-> "api",
                                              repo |-> repo]]
      BY <2>1 DEF AddRead, ResolvedForAdd
    <3>. DEFINE r == [call[c] EXCEPT !.pc = "add", !.project = p,
                        !.new = [there |-> TRUE, archived |-> FALSE, source |-> "api",
                                 repo |-> repo]]
    <3>2. r \in Request
      BY <1>0 DEF Request, ProjectRow
    <3>3. call' = [call EXCEPT ![c] = r]
      BY <3>1 DEF ServicesTypeOK
    <3> QED BY <3>2, <3>3
  <2>2. CASE RemoveRead(c, p)
    <3>1. [call[c] EXCEPT !.pc = "archive", !.project = p] \in Request
      BY <1>0 DEF Request
    <3>2. call' = [call EXCEPT ![c] = [call[c] EXCEPT !.pc = "archive", !.project = p]]
      BY <2>2 DEF RemoveRead, ServicesTypeOK
    <3> QED BY <3>1, <3>2
  <2>3. CASE UpdateRead(c, p)
    <3>1. PICK archived \in BOOLEAN, given \in BOOLEAN, moved \in BOOLEAN, detected \in BOOLEAN :
             call' = [call EXCEPT ![c].pc = "update", ![c].project = p,
                                  ![c].new = [projects[p] EXCEPT !.archived = archived,
                                              !.repo = @ \/ given \/ (moved /\ detected)]]
      BY <2>3 DEF UpdateRead
    <3>. DEFINE new == [projects[p] EXCEPT !.archived = archived,
                                           !.repo = @ \/ given \/ (moved /\ detected)]
                r == [call[c] EXCEPT !.pc = "update", !.project = p, !.new = new]
    <3>2. new \in ProjectRow
      BY <1>0 DEF ProjectRow
    <3>. HIDE DEF new
    <3>3. r \in Request
      BY <1>0, <3>2 DEF Request
    <3>4. call' = [call EXCEPT ![c] = r]
      BY <3>1 DEF ServicesTypeOK, new
    <3> QED BY <3>3, <3>4
  <2>4. CASE SyncRead(c, p)
    <3>1. PICK found \in BOOLEAN :
             call' = [call EXCEPT ![c].pc = "sync", ![c].project = p,
                                  ![c].new = [there |-> TRUE, archived |-> FALSE, source |-> "config",
                                              repo |-> found \/ projects[p].repo]]
      BY <2>4 DEF SyncRead
    <3>. DEFINE new == [there |-> TRUE, archived |-> FALSE, source |-> "config",
                        repo |-> found \/ projects[p].repo]
                r == [call[c] EXCEPT !.pc = "sync", !.project = p, !.new = new]
    <3>2. new \in ProjectRow
      BY <1>0 DEF ProjectRow
    <3>. HIDE DEF new
    <3>3. r \in Request
      BY <1>0, <3>2 DEF Request
    <3>4. call' = [call EXCEPT ![c] = r]
      BY <3>1 DEF ServicesTypeOK, new
    <3> QED BY <3>3, <3>4
  <2> QED BY <2>1, <2>2, <2>3, <2>4
<1>2. requests' \in 0 .. MaxRequests /\ call' \in [Threads -> Request]
  BY <1>0, <1>1, AskTypes
<1> QED BY <1>0, <1>2 DEF Tables, ServicesTypeOK

\* A thread writes one table, or replaces a project.
LEMMA CallTypes ==
    ASSUME ServicesTypeOK, NEW c \in Threads, ProjectStep(c) \/ CreateStep(c)
    PROVE  ServicesTypeOK'
<1>0. call[c] \in Request /\ call[c].project \in Projects /\ call[c].target \in Targets
      /\ call[c].new \in ProjectRow /\ NoRequest \in Request
  BY RowTypes, EmptyRows DEF Request
<1>1. CASE \E p \in Projects : AddRead(c, p) \/ RemoveRead(c, p) \/ UpdateRead(c, p) \/ SyncRead(c, p)
  BY <1>1, ReadTypes
<1>2. CASE Archive(c)
  <2>1. projects' \in [Projects -> ProjectRow]
    <3>1. [projects[call[c].project] EXCEPT !.archived = TRUE] \in ProjectRow
      BY <1>0, RowTypes DEF ProjectRow
    <3>2. projects' = projects
          \/ projects' = [projects EXCEPT ![call[c].project] =
                            [projects[call[c].project] EXCEPT !.archived = TRUE]]
      BY <1>0, <1>2 DEF Archive, ServicesTypeOK
    <3> QED BY <3>1, <3>2 DEF ServicesTypeOK
  <2>2. call' \in [Threads -> Request]
    <3>1. [call[c] EXCEPT !.pc = "terminate"] \in Request
      BY <1>0 DEF Request
    <3>2. call' = [call EXCEPT ![c] = NoRequest]
          \/ call' = [call EXCEPT ![c] = [call[c] EXCEPT !.pc = "terminate"]]
      BY <1>0, <1>2 DEF Archive, ServicesTypeOK
    <3> QED BY <1>0, <3>1, <3>2 DEF ServicesTypeOK
  <2> QED BY <1>2, <2>1, <2>2 DEF Archive, ServicesTypeOK
<1>3. CASE TerminateByProject(c)
  <2>1. \A l \in LoopIds : [loops[l] EXCEPT !.status = "terminated"] \in LoopRow
    BY RowTypes DEF LoopRow, LoopStatus
  <2>2. loops' \in [LoopIds -> LoopRow]
    BY <1>3, <2>1, RowTypes DEF TerminateByProject
  <2>3. [call[c] EXCEPT !.pc = "cancel"] \in Request
    BY <1>0 DEF Request
  <2>4. call' = [call EXCEPT ![c] = [call[c] EXCEPT !.pc = "cancel"]]
    BY <1>3 DEF TerminateByProject, ServicesTypeOK
  <2> QED BY <1>3, <2>2, <2>3, <2>4 DEF TerminateByProject, ServicesTypeOK
<1>4. CASE CancelByProject(c)
  <2>1. item' \in [LoopIds -> ItemStatus]
    BY <1>4, RowTypes DEF CancelByProject, ItemStatus
  <2> QED BY <1>0, <1>4, <2>1 DEF CancelByProject, ServicesTypeOK
<1>5. CASE WriteProject(c)
  BY <1>0, <1>5, ReplaceRows DEF WriteProject, ServicesTypeOK
<1>6. CASE \E p \in Projects, t \in Targets : CreateCheck(c, p, t)
  <2>1. PICK p \in Projects, t \in Targets : CreateCheck(c, p, t)
    BY <1>6
  <2>2. [call[c] EXCEPT !.pc = "create", !.project = p, !.target = t] \in Request
    BY <1>0 DEF Request
  <2>3. call' = [call EXCEPT ![c] = [call[c] EXCEPT !.pc = "create", !.project = p, !.target = t]]
    BY <2>1 DEF CreateCheck, ServicesTypeOK
  <2>4. requests' \in 0 .. MaxRequests /\ call' \in [Threads -> Request]
    BY <2>1, <2>2, <2>3, AskTypes DEF CreateCheck
  <2> QED BY <2>1, <2>4 DEF CreateCheck, Tables, ServicesTypeOK
<1>7. CASE CreateInsert(c)
  <2>1. \A s \in {"idle", "queued", "running"} :
           [there |-> TRUE, project |-> call[c].project, target |-> call[c].target, status |-> s]
              \in LoopRow
    BY <1>0 DEF LoopRow, LoopStatus
  <2>2. loops' \in [LoopIds -> LoopRow]
    BY ZenonT(30), <1>7, <2>1 DEF CreateInsert, FirstOf, FreeLoops, ServicesTypeOK
  <2> QED BY <1>0, <1>7, <2>2 DEF CreateInsert, ServicesTypeOK
<1> QED BY <1>1, <1>2, <1>3, <1>4, <1>5, <1>6, <1>7 DEF ProjectStep, CreateStep

\* So do the threads' calls about loops,
LEMMA LoopTypes ==
    ASSUME ServicesTypeOK, NEW c \in Threads, LoopStep(c)
    PROVE  ServicesTypeOK'
<1>0. /\ call[c] \in Request /\ call[c].loop \in LoopIds /\ call[c].row \in LoopRow
      /\ call[c].then \in {"end", "cancelItem", "insertRun"} /\ NoRequest \in Request
  BY RowTypes, EmptyRows DEF Request
<1>1. ASSUME NEW l \in LoopIds, NEW s \in LoopStatus, NEW then \in {"end", "cancelItem"},
             LoopRead(c, l, s, then)
      PROVE  ServicesTypeOK'
  <2>. DEFINE r == [call[c] EXCEPT !.pc = "saveLoop", !.loop = l, !.then = then,
                                   !.row = [loops[l] EXCEPT !.status = s]]
  <2>1. [loops[l] EXCEPT !.status = s] \in LoopRow
    BY RowTypes DEF LoopRow
  <2>2. r \in Request
    BY <1>0, <2>1 DEF Request
  <2>3. call' = [call EXCEPT ![c] = r]
    BY <1>1 DEF LoopRead, ServicesTypeOK
  <2>4. requests' \in 0 .. MaxRequests
    BY <1>1, ServicesAssumption DEF LoopRead, ServicesTypeOK
  <2> QED BY <1>1, <2>2, <2>3, <2>4 DEF LoopRead, Tables, ServicesTypeOK
<1>2. CASE \E l \in LoopIds : (\E s \in LoopStatus : Transition(c, l, s)) \/ Pause(c, l) \/ Terminate(c, l)
  BY <1>1, <1>2 DEF Transition, Pause, Terminate, LoopStatus
<1>3. CASE \E l \in LoopIds : StartRead(c, l)
  <2>1. PICK l \in LoopIds : StartRead(c, l)
    BY <1>3
  <2>2. [call[c] EXCEPT !.pc = "start", !.loop = l, !.row = loops[l]] \in Request
    BY <1>0, RowTypes DEF Request
  <2>3. call' = [call EXCEPT ![c] = [call[c] EXCEPT !.pc = "start", !.loop = l, !.row = loops[l]]]
    BY <2>1 DEF StartRead, ServicesTypeOK
  <2>4. requests' \in 0 .. MaxRequests
    BY <2>1, ServicesAssumption DEF StartRead, ServicesTypeOK
  <2> QED BY <2>1, <2>2, <2>3, <2>4 DEF StartRead, Tables, ServicesTypeOK
<1>4. CASE StartCheck(c)
  <2>1. [call[c].row EXCEPT !.status = "running"] \in LoopRow
    BY <1>0 DEF LoopRow, LoopStatus
  <2>2. [call[c] EXCEPT !.pc = "saveLoop", !.then = "insertRun", !.row.status = "running"] \in Request
    BY <1>0, <2>1 DEF Request
  <2> QED BY <1>0, <1>4, <2>2 DEF StartCheck, Tables, ServicesTypeOK
<1>5. CASE SaveLoop(c)
  <2>1. call[c].then # "end" => [call[c] EXCEPT !.pc = call[c].then] \in Request
    BY <1>0 DEF Request
  <2>2. call' \in [Threads -> Request]
    BY <1>0, <1>5, <2>1 DEF SaveLoop, ServicesTypeOK
  <2>3. loops' \in [LoopIds -> LoopRow]
    BY <1>0, <1>5 DEF SaveLoop, ServicesTypeOK
  <2> QED BY <1>5, <2>2, <2>3 DEF SaveLoop, ServicesTypeOK
<1>6. CASE CancelItem(c)
  BY <1>0, <1>6 DEF CancelItem, ItemStatus, ServicesTypeOK
<1> QED BY <1>2, <1>3, <1>4, <1>5, <1>6 DEF LoopStep

\* their calls about runs,
LEMMA UpsertRunTypes ==
    ASSUME ServicesTypeOK, NEW r \in RunIds, NEW row \in RunRow, UpsertRun(r, row)
    PROVE  runRows' \in [RunIds -> RunRow]
<1>1. \A q \in RunIds : runRows[q] \in RunRow
  BY RowTypes
<1>2. CASE UNCHANGED runRows
  BY <1>2 DEF ServicesTypeOK
<1>3. CASE loops[row.loop].there
  BY <1>1, <1>3, EmptyRows DEF UpsertRun
<1> QED BY <1>2, <1>3 DEF UpsertRun

LEMMA RunTypes ==
    ASSUME ServicesTypeOK, NEW c \in Threads, RunStep(c)
    PROVE  ServicesTypeOK'
<1>0. call[c] \in Request /\ call[c].loop \in LoopIds /\ call[c].runRow \in RunRow /\ NoRequest \in Request
  BY RowTypes, EmptyRows DEF Request
<1>1. CASE \E r \in RunIds, s \in RunStatus : RunRead(c, r, s)
  <2>1. PICK r \in RunIds, s \in RunStatus : RunRead(c, r, s)
    BY <1>1
  <2>2. [runRows[r] EXCEPT !.status = s] \in RunRow
    BY RowTypes DEF RunRow
  <2>. DEFINE q == [call[c] EXCEPT !.pc = "saveRun", !.run = r,
                                   !.runRow = [runRows[r] EXCEPT !.status = s]]
  <2>3. q \in Request
    BY <1>0, <2>2 DEF Request
  <2>4. call' = [call EXCEPT ![c] = q]
    BY <2>1 DEF RunRead, ServicesTypeOK
  <2>5. requests' \in 0 .. MaxRequests
    BY <2>1, ServicesAssumption DEF RunRead, ServicesTypeOK
  <2> QED BY <2>1, <2>3, <2>4, <2>5 DEF RunRead, Tables, ServicesTypeOK
<1>2. CASE InsertRun(c)
  <2>1. PICK r \in RunIds : UpsertRun(r, [there |-> TRUE, loop |-> call[c].loop, status |-> "running"])
    BY <1>2 DEF InsertRun, FirstOf, FreeRuns
  <2>2. [there |-> TRUE, loop |-> call[c].loop, status |-> "running"] \in RunRow
    BY <1>0 DEF RunRow, RunStatus
  <2>3. runRows' \in [RunIds -> RunRow]
    BY <2>1, <2>2, UpsertRunTypes
  <2> QED BY <1>0, <1>2, <2>3 DEF InsertRun, ServicesTypeOK
<1>3. CASE SaveRun(c)
  <2>1. runRows' \in [RunIds -> RunRow]
    <3>1. CASE call[c].run \in RunIds
      BY <1>0, <1>3, <3>1, UpsertRunTypes DEF SaveRun
    <3>2. CASE call[c].run \notin RunIds
      <4>1. \A q \in RunIds : runRows[q] \in RunRow
        BY RowTypes
      <4>2. \/ UNCHANGED runRows
            \/ runRows' = [q \in RunIds |->
                  IF q = call[c].run THEN call[c].runRow
                  ELSE IF /\ call[c].runRow.status = "running"
                          /\ runRows[q].there /\ runRows[q].loop = call[c].runRow.loop
                          /\ runRows[q].status = "running"
                       THEN NoRun ELSE runRows[q]]
        BY <1>3 DEF SaveRun, UpsertRun
      <4> QED BY <1>0, <4>1, <4>2, EmptyRows DEF ServicesTypeOK
    <3> QED BY <3>1, <3>2
  <2> QED BY <1>0, <1>3, <2>1 DEF SaveRun, ServicesTypeOK
<1> QED BY <1>1, <1>2, <1>3 DEF RunStep

\* and the queue.
LEMMA NextTypes ==
    ASSUME ServicesTypeOK, [ServicesNext]_servicesVars
    PROVE  ServicesTypeOK'
<1>1. CASE UNCHANGED servicesVars
  BY <1>1 DEF servicesVars, ServicesTypeOK
<1>2. CASE \E l \in LoopIds : QueueStep(l)
  BY <1>2 DEF QueueStep, QueueItem, ClaimItem, EndItem, ServicesTypeOK, ItemStatus
<1> QED BY <1>1, <1>2, CallTypes, LoopTypes, RunTypes DEF ServicesNext

-----------------------------------------------------------------------------
(* A removed project is idle *)

\* A removed project is archived: what adds it to the history looks, and what
\* writes its row takes it out.
RemovedAreArchived == \A p \in removed : projects[p].archived

\* No item without a loop: the cascade takes both.
ItemsHaveLoops == \A l \in LoopIds : ~loops[l].there => item[l] = "none"

\* The row a thread read of a loop, and will write, names the loop's project: a
\* loop never changes it.
Holds(c) == call[c].pc \in {"start", "saveLoop"}
HeldRowsAreTrue ==
    /\ \A c \in Threads : Holds(c) =>
          /\ call[c].row.there
          /\ loops[call[c].loop].there => loops[call[c].loop].project = call[c].row.project
    /\ \A c, d \in Threads : Holds(c) /\ Holds(d) /\ call[c].loop = call[d].loop
                                => call[c].row.project = call[d].row.project

RemovalInv == ServicesTypeOK /\ RemovedAreArchived /\ ItemsHaveLoops /\ HeldRowsAreTrue /\ RemovedIsIdle

\* A step of a thread that takes no new row keeps the held rows true, if it
\* changes no project of a loop and brings none back that a thread holds.
LEMMA HeldRows ==
    ASSUME HeldRowsAreTrue, ServicesTypeOK,
           \A l \in LoopIds : \/ ~loops'[l].there
                              \/ loops[l].there /\ loops'[l].project = loops[l].project
                              \/ l \notin HeldLoops,
           \A d \in Threads : call'[d] = call[d] \/ call'[d].pc \notin {"start", "saveLoop"}
    PROVE  HeldRowsAreTrue'
<1>1. ASSUME NEW c \in Threads, Holds(c)'
      PROVE  /\ Holds(c) /\ call'[c] = call[c] /\ call[c].loop \in LoopIds
             /\ call[c].loop \in HeldLoops
  BY <1>1, RowTypes DEF Holds, Request, HeldLoops, OnLoop
<1>2. ASSUME NEW c \in Threads, Holds(c)'
      PROVE  /\ call'[c].row.there
             /\ loops'[call'[c].loop].there => loops'[call'[c].loop].project = call'[c].row.project
  BY <1>1, <1>2 DEF HeldRowsAreTrue
<1>3. ASSUME NEW c \in Threads, NEW d \in Threads, Holds(c)', Holds(d)',
             call'[c].loop = call'[d].loop
      PROVE  call'[c].row.project = call'[d].row.project
  BY <1>1, <1>3 DEF HeldRowsAreTrue
<1> QED BY <1>2, <1>3 DEF HeldRowsAreTrue

\* A thread that takes a row of a loop that is there takes it as it is.
LEMMA NewRow ==
    ASSUME HeldRowsAreTrue, ServicesTypeOK, UNCHANGED loops, NEW c \in Threads, NEW l \in LoopIds,
           loops[l].there, NEW r \in Request, call' = [call EXCEPT ![c] = r], r.loop = l,
           r.row.there, r.row.project = loops[l].project
    PROVE  HeldRowsAreTrue'
<1>1. call'[c] = r /\ \A d \in Threads : d # c => call'[d] = call[d]
  BY DEF ServicesTypeOK
<1>2. ASSUME NEW d \in Threads, Holds(d)'
      PROVE  /\ call'[d].row.there
             /\ loops'[call'[d].loop].there => loops'[call'[d].loop].project = call'[d].row.project
  BY <1>1, <1>2 DEF HeldRowsAreTrue, Holds
<1>3. ASSUME NEW d \in Threads, NEW e \in Threads, Holds(d)', Holds(e)',
             call'[d].loop = call'[e].loop
      PROVE  call'[d].row.project = call'[e].row.project
  BY <1>1, <1>3 DEF HeldRowsAreTrue, Holds
<1> QED BY <1>2, <1>3 DEF HeldRowsAreTrue

\* A thread's step: only CancelByProject adds to the history, and it leaves
\* nothing active; only WriteProject can unarchive.
LEMMA CallRemoval ==
    ASSUME RemovalInv, NEW c \in Threads, ProjectStep(c) \/ CreateStep(c)
    PROVE  (RemovedAreArchived /\ ItemsHaveLoops /\ RemovedIsIdle)'
<1>0. /\ ServicesTypeOK /\ call[c] \in Request /\ call[c].project \in Projects
      /\ call[c].new \in ProjectRow /\ removed \subseteq Projects
  BY RowTypes DEF RemovalInv, Request, ServicesTypeOK
<1>1. CASE \E p \in Projects : AddRead(c, p) \/ RemoveRead(c, p) \/ UpdateRead(c, p) \/ SyncRead(c, p)
  <2>1. UNCHANGED <<Tables, removed>>
    BY <1>0, <1>1, ReadTypes
  <2> QED BY <2>1 DEF Tables, RemovalInv, RemovedAreArchived, ItemsHaveLoops, RemovedIsIdle
<1>2. CASE Archive(c)
  <2>1. \A p \in Projects : projects[p].archived => projects'[p].archived
    BY <1>0, <1>2, RowTypes DEF Archive, ServicesTypeOK, ProjectRow
  <2> QED BY <1>0, <1>2, <2>1 DEF Archive, RemovalInv, RemovedAreArchived, ItemsHaveLoops, RemovedIsIdle
<1>3. CASE TerminateByProject(c)
  <2>1. \A l \in LoopIds : loops'[l].there = loops[l].there /\ loops'[l].project = loops[l].project
    BY <1>0, <1>3, RowTypes DEF TerminateByProject, LoopRow
  <2> QED BY <1>3, <2>1 DEF TerminateByProject, RemovalInv, RemovedAreArchived, ItemsHaveLoops,
             RemovedIsIdle
<1>4. CASE CancelByProject(c)
  <2>1. RemovedAreArchived'
    BY <1>4 DEF CancelByProject, RemovalInv, RemovedAreArchived
  <2>2. ItemsHaveLoops'
    BY <1>4 DEF CancelByProject, RemovalInv, ItemsHaveLoops, LoopsOf
  <2>3. RemovedIsIdle'
    BY <1>4 DEF CancelByProject, RemovalInv, RemovedIsIdle, LoopsOf
  <2> QED BY <2>1, <2>2, <2>3
<1>5. CASE WriteProject(c)
  <2>. DEFINE p == call[c].project
  <2>1. /\ projects' = [projects EXCEPT ![p] = call[c].new]
        /\ \A l \in LoopIds : \/ ~loops'[l].there /\ item'[l] = "none"
                              \/ loops'[l] = loops[l] /\ item'[l] = item[l]
        /\ removed' = removed \ {p}
    BY <1>0, <1>5, ReplaceRows DEF WriteProject
  <2>2. RemovedAreArchived'
    BY <1>0, <2>1 DEF RemovalInv, RemovedAreArchived, ServicesTypeOK
  <2>3. ItemsHaveLoops' /\ RemovedIsIdle'
    BY <2>1 DEF RemovalInv, ItemsHaveLoops, RemovedIsIdle
  <2> QED BY <2>2, <2>3
<1>6. CASE \E p \in Projects, t \in Targets : CreateCheck(c, p, t)
  BY <1>6 DEF CreateCheck, Tables, RemovalInv, RemovedAreArchived, ItemsHaveLoops, RemovedIsIdle
<1>7. CASE CreateInsert(c)
  <2>1. \A l \in LoopIds : \/ loops'[l] = loops[l]
                           \/ ~loops[l].there /\ loops'[l].there
    BY <1>0, <1>7, RowTypes DEF CreateInsert, FirstOf, FreeLoops, ServicesTypeOK
  <2> QED BY <1>7, <2>1 DEF CreateInsert, RemovalInv, RemovedAreArchived, ItemsHaveLoops, RemovedIsIdle
<1> QED BY <1>1, <1>2, <1>3, <1>4, <1>5, <1>6, <1>7 DEF ProjectStep, CreateStep

\* A thread that serves a request about a project holds no row of a loop, and
\* the loop it creates takes the place of none that is held.
LEMMA ProjectHeld ==
    ASSUME RemovalInv, NEW c \in Threads, ProjectStep(c) \/ CreateStep(c)
    PROVE  HeldRowsAreTrue'
<1>0. /\ ServicesTypeOK /\ HeldRowsAreTrue /\ call[c].project \in Projects
      /\ call[c].new \in ProjectRow /\ NoRequest.pc = "idle"
  BY RowTypes DEF RemovalInv, Request, NoRequest
<1>1. \A d \in Threads : call'[d] = call[d] \/ call'[d].pc \notin {"start", "saveLoop"}
  <2>1. ASSUME NEW p \in Projects, NEW d \in Threads,
               AddRead(c, p) \/ RemoveRead(c, p) \/ UpdateRead(c, p) \/ SyncRead(c, p)
        PROVE  call'[d] = call[d] \/ call'[d].pc \notin {"start", "saveLoop"}
    <3>0. call \in [Threads -> Request]
      BY <1>0 DEF ServicesTypeOK
    <3>1. d # c => call'[d] = call[d]
      BY <2>1, <3>0 DEF AddRead, RemoveRead, UpdateRead, SyncRead
    <3>2. call'[c].pc \in {"add", "archive", "update", "sync"}
      <4>1. CASE AddRead(c, p)
        BY <3>0, <4>1 DEF AddRead, Request
      <4>2. CASE RemoveRead(c, p)
        BY <3>0, <4>2 DEF RemoveRead, Request
      <4>3. CASE UpdateRead(c, p)
        BY <3>0, <4>3 DEF UpdateRead, Request
      <4>4. CASE SyncRead(c, p)
        BY <3>0, <4>4 DEF SyncRead, Request
      <4> QED BY <2>1, <4>1, <4>2, <4>3, <4>4
    <3> QED BY <3>1, <3>2
  <2>2. ASSUME NEW d \in Threads,
               Archive(c) \/ TerminateByProject(c) \/ CancelByProject(c) \/ WriteProject(c)
        PROVE  call'[d] = call[d] \/ call'[d].pc \notin {"start", "saveLoop"}
    BY <1>0, <2>2, RowTypes DEF Archive, TerminateByProject, CancelByProject, WriteProject,
       ServicesTypeOK, Request
  <2>3. ASSUME NEW d \in Threads, CreateStep(c)
        PROVE  call'[d] = call[d] \/ call'[d].pc \notin {"start", "saveLoop"}
    <3>1. CASE CreateInsert(c)
      BY <1>0, <3>1 DEF CreateInsert, ServicesTypeOK
    <3>2. CASE \E p \in Projects, t \in Targets : CreateCheck(c, p, t)
      BY <1>0, <3>2 DEF CreateCheck, ServicesTypeOK, Request
    <3> QED BY <2>3, <3>1, <3>2 DEF CreateStep
  <2> QED BY <2>1, <2>2, <2>3 DEF ProjectStep
<1>2. \A l \in LoopIds : \/ ~loops'[l].there
                         \/ loops[l].there /\ loops'[l].project = loops[l].project
                         \/ l \notin HeldLoops
  <2>1. CASE UNCHANGED loops
    BY <2>1
  <2>2. CASE TerminateByProject(c)
    BY <1>0, <2>2, RowTypes DEF TerminateByProject, LoopRow
  <2>3. CASE WriteProject(c)
    BY <1>0, <2>3, ReplaceRows DEF WriteProject
  <2>4. CASE CreateInsert(c)
    BY <1>0, <2>4 DEF CreateInsert, FirstOf, FreeLoops, ServicesTypeOK
  <2> QED BY <2>1, <2>2, <2>3, <2>4 DEF ProjectStep, CreateStep, AddRead, RemoveRead, UpdateRead,
             SyncRead, Archive, CancelByProject, CreateCheck, Tables
<1> QED BY <1>0, <1>1, <1>2, HeldRows

\* A request about a loop writes a row of the loop's own project, or brings back
\* one whose item is gone.
LEMMA LoopRemoval ==
    ASSUME RemovalInv, NEW c \in Threads, LoopStep(c)
    PROVE  (RemovedAreArchived /\ ItemsHaveLoops /\ HeldRowsAreTrue /\ RemovedIsIdle)'
<1>0. /\ ServicesTypeOK /\ HeldRowsAreTrue /\ call[c] \in Request
      /\ call[c].loop \in LoopIds /\ call[c].row \in LoopRow
      /\ call[c].then \in {"end", "cancelItem", "insertRun"} /\ NoRequest.pc = "idle"
  BY RowTypes DEF RemovalInv, Request, NoRequest
<1>1. ASSUME NEW l \in LoopIds, NEW s \in LoopStatus, NEW then \in {"end", "cancelItem"},
             LoopRead(c, l, s, then)
      PROVE  HeldRowsAreTrue' /\ UNCHANGED <<Tables, removed>>
  <2>. DEFINE r == [call[c] EXCEPT !.pc = "saveLoop", !.loop = l, !.then = then,
                                   !.row = [loops[l] EXCEPT !.status = s]]
  <2>1. [loops[l] EXCEPT !.status = s] \in LoopRow /\ loops[l] \in LoopRow
    BY <1>0, RowTypes DEF LoopRow
  <2>2. r \in Request /\ r.loop = l /\ r.row = [loops[l] EXCEPT !.status = s]
    BY <1>0, <2>1 DEF Request
  <2>3. call' = [call EXCEPT ![c] = r]
    BY <1>0, <1>1 DEF LoopRead, ServicesTypeOK
  <2>4. loops[l].there /\ UNCHANGED <<Tables, removed>>
    BY <1>1 DEF LoopRead
  <2>5. r.row.there /\ r.row.project = loops[l].project
    BY <2>1, <2>2, <2>4 DEF LoopRow
  <2>. HIDE DEF r
  <2> QED BY <1>0, <2>2, <2>3, <2>4, <2>5, NewRow DEF Tables
<1>2. CASE \E l \in LoopIds : (\E s \in LoopStatus : Transition(c, l, s)) \/ Pause(c, l) \/ Terminate(c, l)
  <2>1. HeldRowsAreTrue' /\ UNCHANGED <<Tables, removed>>
    BY <1>1, <1>2 DEF Transition, Pause, Terminate, LoopStatus
  <2> QED BY <2>1 DEF Tables, RemovalInv, RemovedAreArchived, ItemsHaveLoops, RemovedIsIdle
<1>3. CASE \E l \in LoopIds : StartRead(c, l)
  <2>1. PICK l \in LoopIds : StartRead(c, l)
    BY <1>3
  <2>. DEFINE r == [call[c] EXCEPT !.pc = "start", !.loop = l, !.row = loops[l]]
  <2>2. r \in Request /\ r.loop = l /\ r.row = loops[l]
    BY <1>0, RowTypes DEF Request
  <2>3. call' = [call EXCEPT ![c] = r] /\ loops[l].there /\ UNCHANGED <<Tables, removed>>
    BY <1>0, <2>1 DEF StartRead, ServicesTypeOK
  <2>. HIDE DEF r
  <2>4. HeldRowsAreTrue'
    BY <1>0, <2>2, <2>3, NewRow DEF Tables
  <2> QED BY <2>3, <2>4 DEF Tables, RemovalInv, RemovedAreArchived, ItemsHaveLoops, RemovedIsIdle
<1>4. CASE StartCheck(c)
  <2>1. UNCHANGED <<Tables, removed>> /\ Holds(c)
    BY <1>4 DEF StartCheck, Holds
  <2>2. \A d \in Threads : d # c => call'[d] = call[d]
    BY <1>0, <1>4 DEF StartCheck, ServicesTypeOK
  <2>3. Holds(c)' => /\ call'[c].loop = call[c].loop /\ call'[c].row.there = call[c].row.there
                     /\ call'[c].row.project = call[c].row.project
    BY <1>0, <1>4 DEF StartCheck, Holds, ServicesTypeOK, Request, LoopRow
  <2>4. \A d \in Threads : Holds(d)' =>
           /\ Holds(d) /\ call'[d].loop = call[d].loop /\ call'[d].row.there = call[d].row.there
           /\ call'[d].row.project = call[d].row.project
    BY <2>1, <2>2, <2>3 DEF Holds
  <2>5. HeldRowsAreTrue'
    BY <1>0, <2>1, <2>4 DEF HeldRowsAreTrue, Tables
  <2> QED BY <2>1, <2>5 DEF Tables, RemovalInv, RemovedAreArchived, ItemsHaveLoops, RemovedIsIdle
<1>5. CASE SaveLoop(c)
  <2>. DEFINE l == call[c].loop
  <2>1. UNCHANGED <<projects, item, removed>> /\ Holds(c)
    BY <1>5 DEF SaveLoop, Holds
  <2>2. \A k \in LoopIds : loops'[k] = loops[k] \/ (k = l /\ loops'[k] = call[c].row)
    BY <1>0, <1>5 DEF SaveLoop, ServicesTypeOK
  <2>3. call[c].row.there /\ (loops[l].there => loops[l].project = call[c].row.project)
    BY <1>0, <2>1 DEF HeldRowsAreTrue
  <2>4. \A d \in Threads : Holds(d)' => Holds(d) /\ call'[d] = call[d]
    BY <1>0, <1>5 DEF SaveLoop, Holds, ServicesTypeOK, Request
  <2>5. HeldRowsAreTrue'
    <3>1. ASSUME NEW d \in Threads, Holds(d)'
          PROVE  /\ call'[d].row.there
                 /\ loops'[call'[d].loop].there => loops'[call'[d].loop].project = call'[d].row.project
      <4>1. call[d].loop \in LoopIds
        BY <1>0, RowTypes DEF Request
      <4> QED BY <1>0, <2>1, <2>2, <2>4, <3>1, <4>1 DEF HeldRowsAreTrue
    <3> QED BY <1>0, <2>4, <3>1 DEF HeldRowsAreTrue
  <2>6. ItemsHaveLoops' /\ RemovedIsIdle'
    BY <2>1, <2>2, <2>3 DEF RemovalInv, ItemsHaveLoops, RemovedIsIdle
  <2> QED BY <2>1, <2>5, <2>6 DEF RemovalInv, RemovedAreArchived
<1>6. CASE CancelItem(c)
  <2>1. /\ UNCHANGED <<projects, loops, removed>>
        /\ \A k \in LoopIds : item'[k] = item[k] \/ (item[k] # "none" /\ item'[k] = "cancelled")
    BY <1>0, <1>6 DEF CancelItem, ServicesTypeOK
  <2>2. \A d \in Threads : call'[d] = call[d] \/ call'[d].pc \notin {"start", "saveLoop"}
    BY <1>0, <1>6 DEF CancelItem, ServicesTypeOK
  <2>3. HeldRowsAreTrue'
    BY <1>0, <2>1, <2>2, HeldRows
  <2> QED BY <2>1, <2>3 DEF RemovalInv, RemovedAreArchived, ItemsHaveLoops, RemovedIsIdle
<1> QED BY <1>2, <1>3, <1>4, <1>5, <1>6 DEF LoopStep

\* A request about a run leaves loops and items alone.
LEMMA RunRemoval ==
    ASSUME RemovalInv, NEW c \in Threads, RunStep(c)
    PROVE  (RemovedAreArchived /\ ItemsHaveLoops /\ HeldRowsAreTrue /\ RemovedIsIdle)'
<1>0. ServicesTypeOK /\ HeldRowsAreTrue /\ call[c] \in Request /\ NoRequest.pc = "idle"
  BY RowTypes DEF RemovalInv, NoRequest
<1>1. UNCHANGED <<projects, loops, item, removed>>
  BY DEF RunStep, RunRead, InsertRun, SaveRun, Tables
<1>2. \A d \in Threads : call'[d] = call[d] \/ call'[d].pc \notin {"start", "saveLoop"}
  <2>1. CASE InsertRun(c) \/ SaveRun(c)
    BY <1>0, <2>1 DEF InsertRun, SaveRun, ServicesTypeOK
  <2>2. CASE \E r \in RunIds, s \in RunStatus : RunRead(c, r, s)
    BY <1>0, <2>2 DEF RunRead, ServicesTypeOK, Request
  <2> QED BY <2>1, <2>2 DEF RunStep
<1>3. HeldRowsAreTrue'
  BY <1>0, <1>1, <1>2, HeldRows
<1> QED BY <1>1, <1>3 DEF RemovalInv, RemovedAreArchived, ItemsHaveLoops, RemovedIsIdle

\* A step of the queue: an item starts to run only if the project of its loop is
\* not archived.
LEMMA QueueRemoval ==
    ASSUME RemovalInv, NEW l \in LoopIds, QueueStep(l)
    PROVE  (RemovedAreArchived /\ ItemsHaveLoops /\ HeldRowsAreTrue /\ RemovedIsIdle)'
<1>0. ServicesTypeOK
  BY DEF RemovalInv
<1>1. UNCHANGED <<projects, loops, call, removed>>
  BY DEF QueueStep, QueueItem, ClaimItem, EndItem
<1>2. ItemsHaveLoops'
  BY <1>0, <1>1 DEF QueueStep, QueueItem, ClaimItem, EndItem, RemovalInv, ItemsHaveLoops,
     ServicesTypeOK
<1>3. RemovedIsIdle'
  BY <1>0, <1>1 DEF QueueStep, QueueItem, ClaimItem, EndItem, RemovalInv, RemovedIsIdle,
     RemovedAreArchived, ServicesTypeOK
<1> QED BY <1>1, <1>2, <1>3 DEF RemovalInv, RemovedAreArchived, HeldRowsAreTrue, Holds

\* RemovalInv holds at first and is kept by every step.
THEOREM RemovalInvariance == ServicesSpec => []RemovalInv
<1>1. ServicesInit => RemovalInv
  <2>. SUFFICES ASSUME ServicesInit PROVE RemovalInv
    OBVIOUS
  <2>1. ServicesTypeOK
    BY EmptyRows, ServicesAssumption DEF ServicesInit, ServicesTypeOK, ItemStatus
  <2>2. \A c \in Threads : ~Holds(c)
    BY DEF ServicesInit, Holds, NoRequest
  <2> QED BY <2>1, <2>2 DEF ServicesInit, RemovalInv, RemovedAreArchived, ItemsHaveLoops,
             HeldRowsAreTrue, RemovedIsIdle
<1>2. RemovalInv /\ [ServicesNext]_servicesVars => RemovalInv'
  <2>. SUFFICES ASSUME RemovalInv, [ServicesNext]_servicesVars PROVE RemovalInv'
    OBVIOUS
  <2>1. ServicesTypeOK'
    BY NextTypes DEF RemovalInv
  <2>2. CASE UNCHANGED servicesVars
    BY <2>1, <2>2 DEF servicesVars, RemovalInv, RemovedAreArchived, ItemsHaveLoops,
       HeldRowsAreTrue, Holds, RemovedIsIdle
  <2>3. CASE ServicesNext
    BY <2>1, <2>3, CallRemoval, ProjectHeld, LoopRemoval, RunRemoval, QueueRemoval
    DEF ServicesNext, RemovalInv
  <2> QED BY <2>2, <2>3
<1> QED BY <1>1, <1>2, PTL DEF ServicesSpec

\* For any number of projects, loops and threads: a removed project has no item
\* running until a request writes the project again, whatever claims, creations,
\* stale rows of loops and admissions fall between the three statements of
\* remove_project.
THEOREM RemovedStaysIdle == ServicesSpec => []RemovedIsIdle
<1>1. RemovalInv => RemovedIsIdle
  BY DEF RemovalInv
<1> QED BY <1>1, RemovalInvariance, PTL

=============================================================================
