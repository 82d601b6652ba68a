------------------------------ MODULE Scheduler ------------------------------
(***************************************************************************)
(* The scheduler's two threads (crate looper-scheduler): the tick thread   *)
(* alternates claim phases with the discovery of work of each type, the    *)
(* claim pump only claims.  A claim pass holds claim_mu from the count of  *)
(* free slots to the dispatch of what it claimed, and the SendRepos mutex  *)
(* over its claim statements.                                              *)
(***************************************************************************)
EXTENDS Runner, Sequences

CONSTANTS
    MaxConcurrentRuns,  \* max_concurrent_runs, set from max-workers
    DiscoveryEnabled,   \* the types whose discovery flag is on
    DiscoverKeys        \* the keys GitHub may offer to discovery

ASSUME SchedulerAssumption ==
    /\ MaxConcurrentRuns \in Nat
    /\ DiscoveryEnabled \subseteq IndexedTypes
    /\ DiscoverKeys \subseteq Keys

VARIABLES
    claimMu,   \* holder of claim_mu
    pass,      \* each thread's claim pass
    tick       \* the tick thread's place in its round

schedVars == <<claimMu, pass, tick>>

PassPC == {"idle", "lock", "fresh", "long", "dispatch"}
PassState == [pc : PassPC, slots : 0 .. MaxConcurrentRuns, batch : SUBSET Claim]
IdlePass == [pc |-> "idle", slots |-> 0, batch |-> {}]

\* One round: a claim phase, then each enabled discovery with the claim phase
\* that follows it.  The post-discovery claim phase directly follows another
\* and is one with it, and coordinator discovery, which writes no row, is left
\* out with its claim phase.
TickOrder == <<"planner", "reviewer", "fixer", "worker">>
EnabledDiscovery == SelectSeq(TickOrder, LAMBDA t : t \in DiscoveryEnabled)
Round == [x \in 1 .. 2 * Len(EnabledDiscovery) + 1 |->
            IF x % 2 = 1 THEN "claim" ELSE EnabledDiscovery[x \div 2]]

TickPC == {"idle", "create", "insert"}
\* left: the keys the current discovery may still come to; it lists each once.
TickState == [phase : Nat \ {0}, pc : TickPC, key : Keys, loop : Loops \cup {NoLoop},
              left : SUBSET Keys]
FirstPhase == [phase |-> 1, pc |-> "idle", key |-> SomeKey, loop |-> NoLoop,
               left |-> DiscoverKeys]

SchedulerTypeOK ==
    /\ claimMu \in {Free} \cup Claimants
    /\ pass \in [Claimants -> PassState]
    /\ tick \in TickState

SchedulerInit ==
    /\ claimMu = Free
    /\ pass = [c \in Claimants |-> IdlePass]
    /\ tick = FirstPhase

-----------------------------------------------------------------------------
(* A claim pass *)

AtPass(c, pc) == pass[c].pc = pc
Phase == Round[tick.phase]
NextPhase == IF tick.phase = Len(Round) THEN 1 ELSE tick.phase + 1

\* Mutant: what already runs is not subtracted.
SlotsOfIdlePool(q) == MaxConcurrentRuns

\* compute_available_slots
Slots(q) == IF Cardinality(Running(q)) >= MaxConcurrentRuns THEN 0
            ELSE MaxConcurrentRuns - Cardinality(Running(q))

MayClaim(c) == c = "tick" => Phase = "claim" /\ tick.pc = "idle"
ToNextPhase == tick' = [FirstPhase EXCEPT !.phase = NextPhase]
EndPhase(c) == IF c = "tick" THEN ToNextPhase ELSE UNCHANGED tick

FreePipes == {p \in Pipes : At(p, "free")}

\* Mutant: a pass does not take claim_mu.
PassUnlocked(c) ==
    /\ AtPass(c, "idle") /\ MayClaim(c) /\ reposMu = Free
    /\ Slots(queue) > 0 /\ Slots(queue) <= Cardinality(FreePipes)
    /\ pass' = [pass EXCEPT ![c] = [pc |-> "lock", slots |-> Slots(queue), batch |-> {}]]
    /\ UNCHANGED <<storeVars, runnerVars, claimMu, tick>>

\* Take claim_mu and count; a pass with no slot ends at once.  (Bound: a pass
\* waits until there is a pipeline for each slot.)
PassBegin(c) ==
    /\ AtPass(c, "idle") /\ MayClaim(c)
    /\ Slots(queue) <= Cardinality(FreePipes)
    /\ claimMu = Free /\ reposMu = Free
    /\ IF Slots(queue) = 0
       THEN EndPhase(c) /\ UNCHANGED <<claimMu, pass>>
       ELSE /\ claimMu' = c
            /\ pass' = [pass EXCEPT ![c] = [pc |-> "lock", slots |-> Slots(queue), batch |-> {}]]
            /\ UNCHANGED tick
    /\ UNCHANGED <<storeVars, runnerVars>>

PassLock(c) ==
    /\ AtPass(c, "lock") /\ reposMu = Free
    /\ reposMu' = c
    /\ pass' = [pass EXCEPT ![c].pc = "fresh"]
    /\ UNCHANGED <<storeVars, pipes, claimMu, tick>>

ClaimOf(q, i) == [item |-> i, key |-> q[i].key, loop |-> q[i].loop, attempts |-> q[i].attempts]

\* One claim statement: take the first candidate.
ClaimOne(c, S) ==
    \E i \in FirstByPriority(queue, S) :
        /\ queue' = ClaimItem(queue, i)
        /\ pass' = [pass EXCEPT ![c].slots = @ - 1, ![c].batch = @ \cup {ClaimOf(queue, i)}]
        /\ UNCHANGED <<loops, runs, locks, reposMu, pipes, claimMu, tick>>

ClaimFresh(c) ==
    /\ AtPass(c, "fresh") /\ pass[c].slots > 0
    /\ ClaimOne(c, FreshCandidates(queue, loops, locks))

FreshDone(c) ==
    /\ AtPass(c, "fresh")
    /\ pass[c].slots = 0 \/ FreshCandidates(queue, loops, locks) = {}
    /\ pass' = [pass EXCEPT ![c].pc = "long"]
    /\ UNCHANGED <<storeVars, runnerVars, claimMu, tick>>

\* Mutant: the second loop forgets the slots the first has used.
ClaimLongAnyway(c) ==
    /\ AtPass(c, "long")
    /\ ClaimOne(c, LongCandidates(queue, loops, locks))

ClaimLong(c) ==
    /\ AtPass(c, "long") /\ pass[c].slots > 0
    /\ ClaimOne(c, LongCandidates(queue, loops, locks))

\* drop(repos)
LongDone(c) ==
    /\ AtPass(c, "long")
    /\ pass[c].slots = 0 \/ LongCandidates(queue, loops, locks) = {}
    /\ reposMu' = Free
    /\ pass' = [pass EXCEPT ![c].pc = "dispatch", ![c].slots = 0]
    /\ UNCHANGED <<storeVars, pipes, claimMu, tick>>

HasProcessor(cl) == KeyType[cl.key] \in IndexedTypes

\* A claim without a processor is logged and dropped: its item stays running.
Dispatch(c) ==
    /\ AtPass(c, "dispatch")
    /\ \E cl \in pass[c].batch :
         /\ pass' = [pass EXCEPT ![c].batch = @ \ {cl}]
         /\ IF HasProcessor(cl)
            THEN \E p \in FreePipes :
                   pipes' = [pipes EXCEPT ![p] = [IdlePipe EXCEPT !.pc = "start", !.claim = cl]]
            ELSE UNCHANGED pipes
    /\ UNCHANGED <<storeVars, reposMu, claimMu, tick>>

PassEnd(c) ==
    /\ AtPass(c, "dispatch") /\ pass[c].batch = {}
    /\ claimMu' = Free
    /\ pass' = [pass EXCEPT ![c] = IdlePass]
    /\ EndPhase(c)
    /\ UNCHANGED <<storeVars, runnerVars>>

PassStep(c) == \/ PassBegin(c) \/ PassLock(c) \/ ClaimFresh(c) \/ FreshDone(c)
               \/ ClaimLong(c) \/ LongDone(c) \/ Dispatch(c) \/ PassEnd(c)

-----------------------------------------------------------------------------
(* Discovery, on the tick thread.  What GitHub lists is any of DiscoverKeys.*)

Discovering(t, pc) == Phase = t /\ tick.pc = pc
ItemDone == tick' = [tick EXCEPT !.pc = "idle", !.key = SomeKey, !.loop = NoLoop]

CompletedItem(q, k) == \E i \in Items : q[i].status = "completed" /\ q[i].key = k

\* The worker looks for an active item only, the planner for a completed one too.
FindIssue(k) ==
    /\ k \in tick.left /\ Discovering(KeyType[k], "idle")
    /\ KeyType[k] \in {"planner", "worker"}
    /\ reposMu = Free
    /\ FindActive(queue, k) = {}
    /\ KeyType[k] = "planner" => ~CompletedItem(queue, k)
    /\ tick' = [tick EXCEPT !.pc = "create", !.key = k, !.left = @ \ {k}]
    /\ UNCHANGED <<storeVars, runnerVars, claimMu, pass>>

CreateIssueLoop ==
    /\ Phase \in {"planner", "worker"} /\ tick.pc = "create"
    /\ reposMu = Free
    /\ \/ \E l \in Loops :
            /\ NextLoop(loops, l)
            /\ loops' = InsertLoop(loops, l, "active", Phase, KeyTarget[tick.key], "bare")
            /\ tick' = [tick EXCEPT !.pc = "insert", !.loop = l]
       \/ LoopsFull(loops) /\ ItemDone /\ UNCHANGED loops
    /\ UNCHANGED <<queue, runs, locks, runnerVars, claimMu, pass>>

InsertIssueItem ==
    /\ Phase \in {"planner", "worker"} /\ tick.pc = "insert"
    /\ reposMu = Free
    /\ queue' \in IF Phase = "planner" THEN UpsertActive(queue, tick.key, tick.loop, TRUE)
                  ELSE CreateOrGet(queue, tick.key, tick.loop, FALSE)
    /\ ItemDone
    /\ UNCHANGED <<loops, runs, locks, runnerVars, claimMu, pass>>

\* Reviewer discovery reuses a pull request's loop of any type that is not in
\* one of four statuses; fixer discovery is ensure_fixer_queue_item.
ReusablePrLoops(ls, k) ==
    {l \in Loops : /\ LoopExists(ls, l) /\ ls[l].target = KeyTarget[k]
                   /\ ls[l].status \notin TerminalLoopStatuses}
ReviewDone(ls, k) ==
    \E l \in Loops : /\ ls[l].status = "completed" /\ ls[l].type = "reviewer"
                     /\ ls[l].target = KeyTarget[k]

ReusableLoops(ls, k) == IF KeyType[k] = "reviewer" THEN ReusablePrLoops(ls, k)
                        ELSE ReusableFixerLoops(ls, k)

\* Both hold the mutex from the list of loops to the insertion of the item.
FindPullRequest(k) ==
    /\ k \in tick.left /\ Discovering(KeyType[k], "idle")
    /\ KeyType[k] \in {"reviewer", "fixer"}
    /\ reposMu = Free /\ reposMu' = "tick"
    /\ KeyType[k] = "reviewer" => /\ ~ReviewDone(loops, k)
                                  /\ FindActive(queue, k) = {}
                                  /\ ~CompletedItem(queue, k)
    /\ \/ \E l \in ReusableLoops(loops, k) :
            tick' = [tick EXCEPT !.pc = "insert", !.key = k, !.loop = l,
                                 !.left = @ \ {k}]
       \/ /\ ReusableLoops(loops, k) = {}
          /\ tick' = [tick EXCEPT !.pc = "create", !.key = k, !.left = @ \ {k}]
    /\ UNCHANGED <<storeVars, pipes, claimMu, pass>>

CreatePrLoop ==
    /\ Phase \in {"reviewer", "fixer"} /\ tick.pc = "create"
    /\ \/ \E l \in Loops :
            /\ NextLoop(loops, l)
            /\ loops' = InsertLoop(loops, l, "queued",
                                   IF Phase = "reviewer" THEN "review" ELSE "fixer",
                                   KeyTarget[tick.key], "bare")
            /\ tick' = [tick EXCEPT !.pc = "insert", !.loop = l]
            /\ UNCHANGED reposMu
       \/ LoopsFull(loops) /\ ItemDone /\ reposMu' = Free /\ UNCHANGED loops
    /\ UNCHANGED <<queue, runs, locks, pipes, claimMu, pass>>

InsertPrItem ==
    /\ Phase \in {"reviewer", "fixer"} /\ tick.pc = "insert"
    /\ reposMu' = Free
    /\ queue' \in IF Phase = "reviewer" THEN UpsertActive(queue, tick.key, tick.loop, FALSE)
                  ELSE CreateOrGet(queue, tick.key, tick.loop, FALSE)
    /\ ItemDone
    /\ UNCHANGED <<loops, runs, locks, pipes, claimMu, pass>>

DiscoveryEnd ==
    /\ Phase # "claim" /\ tick.pc = "idle"
    /\ ToNextPhase
    /\ UNCHANGED <<storeVars, runnerVars, claimMu, pass>>

DiscoveryStep == \/ \E k \in DiscoverKeys : FindIssue(k) \/ FindPullRequest(k)
                 \/ CreateIssueLoop \/ InsertIssueItem
                 \/ CreatePrLoop \/ InsertPrItem \/ DiscoveryEnd

TickStep == PassStep("tick") \/ DiscoveryStep
PumpStep == "pump" \in Claimants /\ PassStep("pump")

=============================================================================
