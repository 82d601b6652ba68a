-------------------------------- MODULE Agents --------------------------------
(***************************************************************************)
(* Agent executions: the child process, the task that supervises it and    *)
(* the two that read its output (looper-agent executor.rs), the rows of    *)
(* agent_executions, the kill of a handle (executor.rs, and by key in      *)
(* looper-scheduler active_executions.rs), and the recovery of orphans at  *)
(* startup (looper-infra agent_cleanup.rs).                                *)
(*                                                                         *)
(* The run loop, the readers and a killer share ExecutionState behind an   *)
(* asynchronous mutex.  All but one hold it for a moment; the run loop     *)
(* takes it when the child has exited and keeps it while it waits for the  *)
(* readers.  An agent is a process group of its own and outlives looperd;  *)
(* that none of its descendants leaves the group with its output is an     *)
(* assumption.  What it prints is left out, and so is the session for a    *)
(* native resume: nothing ever writes the status that asks for one.        *)
(***************************************************************************)
EXTENDS Integers

CONSTANTS Executions,  \* execution ids
          MaxDeaths    \* bound: deaths of looperd

Streams == {"stdout", "stderr"}
Active == {"running", "cancelling"}
Outcomes == {"completed", "failed", "timeout", "killed"}
Terminal == Outcomes \cup {"recovered"}

VARIABLES
    looperd,   \* the daemon: "up", "down", or "starting" (recovering orphans)
    deaths,    \* how often it died
    execRow,   \* agent_executions.status of each execution, or "none"
    proc,      \* the process: "none", "alive", or how it exited
    sig,       \* the worst signal sent to its group
    super,     \* the run loop: where it is
    state,     \* ExecutionState: timed out? killed? SIGTERM sent and grace running?
    clock,     \* what has run out: the idle time, the runtime, the grace period
    reader,    \* the task of each stream: reading, holding a chunk, at the end
    unread,    \* is there output in the pipe?
    killer     \* a call of kill: none, waiting for the state, done

agentVars == <<looperd, deaths, execRow, proc, sig, super, state, clock, reader, unread, killer>>

Fresh == [timedOut |-> FALSE, killed |-> FALSE, idleFired |-> FALSE,
          maxFired |-> FALSE, grace |-> FALSE]
NoClock == [idle |-> FALSE, runtime |-> FALSE, grace |-> FALSE]

AgentsInit == /\ looperd = "up" /\ deaths = 0
              /\ execRow = [e \in Executions |-> "none"]
              /\ proc = [e \in Executions |-> "none"]
              /\ sig = [e \in Executions |-> "no"]
              /\ super = [e \in Executions |-> "none"]
              /\ state = [e \in Executions |-> Fresh]
              /\ clock = [e \in Executions |-> NoClock]
              /\ reader = [e \in Executions |-> [s \in Streams |-> "none"]]
              /\ unread = [e \in Executions |-> [s \in Streams |-> FALSE]]
              /\ killer = [e \in Executions |-> "none"]

Alive(e) == proc[e] = "alive"
StateFree(e) == super[e] # "settle"
Term(e) == sig' = [sig EXCEPT ![e] = IF @ = "kill" THEN @ ELSE "term"]

-----------------------------------------------------------------------------
(* start *)

Spawn(e) ==
    /\ looperd = "up" /\ proc[e] = "none"
    /\ proc' = [proc EXCEPT ![e] = "alive"]
    /\ super' = [super EXCEPT ![e] = "spawned"]
    /\ UNCHANGED <<looperd, deaths, execRow, sig, state, clock, reader, unread, killer>>

\* The log files or the row cannot be written: the caller gets an error, and
\* the child, which nothing kills when its handle is dropped, goes on.
StartFails(e) ==
    /\ super[e] = "spawned"
    /\ super' = [super EXCEPT ![e] = "none"]
    /\ UNCHANGED <<looperd, deaths, execRow, proc, sig, state, clock, reader, unread, killer>>

Record(e) ==
    /\ super[e] = "spawned"
    /\ execRow' = [execRow EXCEPT ![e] = "running"]
    /\ super' = [super EXCEPT ![e] = "loop"]
    /\ reader' = [reader EXCEPT ![e] = [s \in Streams |-> "read"]]
    /\ UNCHANGED <<looperd, deaths, proc, sig, state, clock, unread, killer>>

-----------------------------------------------------------------------------
(* The agent, and time *)

Output(e, s) ==
    /\ Alive(e) /\ ~unread[e][s]
    /\ unread' = [unread EXCEPT ![e][s] = TRUE]
    /\ UNCHANGED <<looperd, deaths, execRow, proc, sig, super, state, clock, reader, killer>>

\* It ends when it likes, whatever signal it got.
Exit(e) ==
    /\ Alive(e)
    /\ \E how \in {"ok", "bad"} : proc' = [proc EXCEPT ![e] = how]
    /\ UNCHANGED <<looperd, deaths, execRow, sig, super, state, clock, reader, unread, killer>>

Elapse(e, what) ==
    /\ super[e] = "loop" /\ ~clock[e][what]
    /\ what = "grace" => state[e].grace
    /\ clock' = [clock EXCEPT ![e][what] = TRUE]
    /\ UNCHANGED <<looperd, deaths, execRow, proc, sig, super, state, reader, unread, killer>>

-----------------------------------------------------------------------------
(* run_loop and its readers *)

ReadChunk(e, s) ==
    /\ reader[e][s] = "read" /\ unread[e][s]
    /\ reader' = [reader EXCEPT ![e][s] = "store"]
    /\ unread' = [unread EXCEPT ![e][s] = FALSE]
    /\ UNCHANGED <<looperd, deaths, execRow, proc, sig, super, state, clock, killer>>

\* The chunk is appended, which counts as a sign of life.
StoreChunk(e, s) ==
    /\ reader[e][s] = "store" /\ StateFree(e)
    /\ reader' = [reader EXCEPT ![e][s] = "read"]
    /\ clock' = [clock EXCEPT ![e].idle = FALSE]
    /\ UNCHANGED <<looperd, deaths, execRow, proc, sig, super, state, unread, killer>>

ReadEnd(e, s) ==
    /\ reader[e][s] = "read" /\ ~unread[e][s] /\ ~Alive(e)
    /\ reader' = [reader EXCEPT ![e][s] = "end"]
    /\ UNCHANGED <<looperd, deaths, execRow, proc, sig, super, state, clock, unread, killer>>

ReaderStep(e) == \E s \in Streams : ReadChunk(e, s) \/ StoreChunk(e, s) \/ ReadEnd(e, s)

\* What a turn finds: a timeout that has not fired yet, a grace period that is
\* over (each timeout starts it anew), a child that has exited.
IdleFires(e) == clock[e].idle /\ ~state[e].idleFired
MaxFires(e)  == clock[e].runtime /\ ~state[e].maxFired
GraceOver(e) == clock[e].grace /\ ~IdleFires(e) /\ ~MaxFires(e)

\* Mutant: the process that does not go is given up.
TurnGivesUp(e) ==
    /\ super[e] = "loop"
    /\ state' = [state EXCEPT ![e].idleFired = @ \/ IdleFires(e), ![e].maxFired = @ \/ MaxFires(e),
                              ![e].timedOut = @ \/ IdleFires(e) \/ MaxFires(e),
                              ![e].grace = @ \/ IdleFires(e) \/ MaxFires(e)]
    /\ super' = [super EXCEPT ![e] = IF GraceOver(e) \/ ~Alive(e) THEN "drain" ELSE "loop"]
    /\ reader' = [reader EXCEPT ![e] = IF GraceOver(e) THEN [s \in Streams |-> "end"] ELSE @]
    /\ Term(e)
    /\ UNCHANGED <<looperd, deaths, execRow, proc, clock, unread, killer>>

\* Mutant: no grace period is started, so SIGTERM is all there is.
TurnTerminates(e) ==
    /\ super[e] = "loop"
    /\ state' = [state EXCEPT ![e].idleFired = @ \/ IdleFires(e), ![e].maxFired = @ \/ MaxFires(e)]
    /\ super' = [super EXCEPT ![e] = IF Alive(e) THEN "loop" ELSE "settle"]
    /\ Term(e)
    /\ UNCHANGED <<looperd, deaths, execRow, proc, clock, reader, unread, killer>>

\* One turn of the loop.
Turn(e) ==
    /\ super[e] = "loop"
    /\ LET fires == IdleFires(e) \/ MaxFires(e) IN
       /\ state' = [state EXCEPT ![e] =
                      [timedOut  |-> @.timedOut \/ fires,
                       killed    |-> @.killed \/ killer[e] # "none",
                       idleFired |-> @.idleFired \/ IdleFires(e),
                       maxFired  |-> @.maxFired \/ MaxFires(e),
                       grace     |-> @.grace \/ fires]]
       /\ clock' = IF fires THEN [clock EXCEPT ![e].grace = FALSE] ELSE clock
       /\ IF GraceOver(e)
          THEN /\ sig' = [sig EXCEPT ![e] = "kill"]
               /\ super' = [super EXCEPT ![e] = "drain"]
          ELSE /\ IF fires THEN Term(e) ELSE UNCHANGED sig
               /\ super' = [super EXCEPT ![e] = IF Alive(e) THEN "loop" ELSE "settle"]
    /\ UNCHANGED <<looperd, deaths, execRow, proc, reader, unread, killer>>

\* persist_terminal_status, when both readers have ended.
Status(e) == CASE state[e].timedOut -> "timeout"
               [] ~state[e].timedOut /\ state[e].killed -> "killed"
               [] OTHER -> IF proc[e] = "ok" THEN "completed" ELSE "failed"
Persist(e) ==
    /\ super[e] \in {"settle", "drain"}
    /\ \A s \in Streams : reader[e][s] = "end"
    /\ execRow' = [execRow EXCEPT ![e] = IF super[e] = "settle" \/ state[e].timedOut THEN Status(e)
                                 ELSE "killed"]
    /\ super' = [super EXCEPT ![e] = "done"]
    /\ UNCHANGED <<looperd, deaths, proc, sig, state, clock, reader, unread, killer>>

-----------------------------------------------------------------------------
(* kill, of a handle: the flag, then the process id out of the state *)

Kill(e) ==
    /\ super[e] \in {"loop", "settle", "drain", "done"} /\ killer[e] = "none"
    /\ killer' = [killer EXCEPT ![e] = "wait"]
    /\ UNCHANGED <<looperd, deaths, execRow, proc, sig, super, state, clock, reader, unread>>
KillSignals(e) ==
    /\ killer[e] = "wait" /\ StateFree(e)
    /\ killer' = [killer EXCEPT ![e] = "done"]
    /\ Term(e)
    /\ UNCHANGED <<looperd, deaths, execRow, proc, super, state, clock, reader, unread>>

-----------------------------------------------------------------------------
(* The death of looperd takes its tasks with it, and the agents go on *)

Die ==
    /\ looperd # "down" /\ deaths < MaxDeaths
    /\ looperd' = "down" /\ deaths' = deaths + 1
    /\ super' = [e \in Executions |-> "none"]
    /\ state' = [e \in Executions |-> Fresh]
    /\ clock' = [e \in Executions |-> NoClock]
    /\ reader' = [e \in Executions |-> [s \in Streams |-> "none"]]
    /\ killer' = [e \in Executions |-> "none"]
    /\ UNCHANGED <<execRow, proc, sig, unread>>

Start == /\ looperd = "down" /\ looperd' = "starting"
         /\ UNCHANGED <<deaths, execRow, proc, sig, super, state, clock, reader, unread, killer>>

\* Mutant: recovery of the rows whose process is alive.
ListAlive == {e \in Executions : execRow[e] \in Active /\ Alive(e)}
\* list_active, and recover_orphan_executions for one row of it: SIGTERM,
\* SIGKILL, and the row.
ListActive == {e \in Executions : execRow[e] \in Active}
RecoverOrphan(e) ==
    /\ looperd = "starting" /\ e \in ListActive
    /\ sig' = [sig EXCEPT ![e] = "kill"]
    /\ execRow' = [execRow EXCEPT ![e] = "recovered"]
    /\ UNCHANGED <<looperd, deaths, proc, super, state, clock, reader, unread, killer>>
Started ==
    /\ looperd = "starting" /\ ListActive = {}
    /\ looperd' = "up"
    /\ UNCHANGED <<deaths, execRow, proc, sig, super, state, clock, reader, unread, killer>>

LoopStep(e) == Turn(e) \/ Persist(e)
AgentsNext ==
    \/ \E e \in Executions :
         \/ Spawn(e) \/ StartFails(e) \/ Record(e)
         \/ Exit(e) \/ \E s \in Streams : Output(e, s)
         \/ \E what \in {"idle", "runtime", "grace"} : Elapse(e, what)
         \/ ReaderStep(e) \/ LoopStep(e)
         \/ Kill(e) \/ KillSignals(e) \/ RecoverOrphan(e)
    \/ Die \/ Start \/ Started

AgentsSpec == AgentsInit /\ [][AgentsNext]_agentVars

\* The runtime polls the tasks, time passes, and SIGKILL is obeyed; an agent
\* need not end of itself or on SIGTERM, and it may print for ever.
AgentsFairness ==
    \A e \in Executions :
        /\ WF_agentVars(LoopStep(e)) /\ WF_agentVars(KillSignals(e))
        /\ WF_agentVars(Elapse(e, "runtime")) /\ WF_agentVars(Elapse(e, "grace"))
        /\ WF_agentVars(sig[e] = "kill" /\ Exit(e))
        /\ \A s \in Streams : WF_agentVars(ReadChunk(e, s) \/ StoreChunk(e, s) \/ ReadEnd(e, s))

AgentsFairSpec == AgentsSpec /\ AgentsFairness

-----------------------------------------------------------------------------
(* Properties *)

\* An execution whose row tells of an outcome has no process that is left
\* alone: it has exited, or it has been sent SIGKILL (run_loop breaks only after
\* SIGKILL, recovery kills before it writes).
TerminalIsDead == \A e \in Executions : execRow[e] \in Terminal /\ Alive(e) => sig[e] = "kill"

\* Once looperd is up, each active row is in the hands of a run loop: what an
\* earlier process left behind was recovered, however often it died on the way.
ActiveIsSupervised ==
    \A e \in Executions :
        looperd = "up" /\ execRow[e] \in Active => super[e] \in {"loop", "settle", "drain"}

\* A supervised agent does not outlive its runtime limit, even if it prints all
\* the time and ignores SIGTERM: the escalation ends it, unless looperd dies.
RuntimeIsBounded ==
    \A e \in Executions : super[e] = "loop" /\ Alive(e) ~> ~Alive(e) \/ looperd # "up"

=============================================================================
