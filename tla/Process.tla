------------------------------ MODULE Process ------------------------------
(***************************************************************************)
(* looperd as a process: the order in which main.rs starts and ends it,    *)
(* the port it serves, and the commands of `looper daemon` that start,     *)
(* stop, restart, install and uninstall it (looper-cli/src/daemon.rs).     *)
(* Nothing keeps two of them apart: the daemon lock is never taken.        *)
(***************************************************************************)
EXTENDS Naturals, FiniteSets

CONSTANTS
    Instances,    \* bound: the processes ever started
    MaxAccidents  \* bound: deaths that nobody asked for

ASSUME ProcessAssumption == MaxAccidents \in Nat

VARIABLES
    daemon,    \* the processes
    port,      \* which of them listens
    cli,       \* what the command line is in the middle of
    home,      \* what is installed
    accidents

processVars == <<daemon, port, cli, home, accidents>>

\* off, boot (configuration to recovery), recovered, waiting (for a signal),
\* then draining, stopping, final and exiting (perform_graceful_shutdown), dead
DaemonPhases == {"off", "boot", "recovered", "waiting", "draining", "stopping", "final", "exiting", "dead"}

ProcessTypeOK ==
    /\ daemon \in [Instances -> [phase : DaemonPhases, api : {"none", "spawned", "serving", "failed", "closed"},
                                 scheduler : BOOLEAN, stream : BOOLEAN, signalled : BOOLEAN]]
    /\ port \in Instances \cup {"nobody"}
    /\ cli \in {"idle", "restarting", "uninstalling"}
    /\ home \subseteq {"binary", "unit", "data"}
    /\ accidents \in 0 .. MaxAccidents

ProcessInit ==
    /\ daemon = [d \in Instances |-> [phase |-> "off", api |-> "none", scheduler |-> FALSE,
                                      stream |-> FALSE, signalled |-> FALSE]]
    /\ port = "nobody" /\ cli = "idle" /\ home = {"binary", "data"} /\ accidents = 0

Lives(d) == daemon[d].phase \notin {"off", "dead"}
Running == {d \in Instances : Lives(d)}

Dies(d) == /\ daemon' = [daemon EXCEPT ![d].phase = "dead", ![d].scheduler = FALSE, ![d].stream = FALSE]
           /\ port' = IF port = d THEN "nobody" ELSE port

------------------------------------------------------------------------------
(* looperd: from main to complete_startup *)

\* Configuration, tools, directories, database, recovery of what the last
\* process left; a step that fails ends the process.
Recover(d) ==
    /\ daemon[d].phase = "boot"
    /\ \/ daemon' = [daemon EXCEPT ![d].phase = "recovered", ![d].api = "spawned"] /\ UNCHANGED port
       \/ Dies(d)
    /\ UNCHANGED <<cli, home, accidents>>

\* The API is a task of its own: that it cannot bind its address is an error
\* nobody reads before the shutdown, and the daemon goes on without it.
Bind(d) ==
    /\ Lives(d) /\ daemon[d].api = "spawned"
    /\ IF port = "nobody"
       THEN port' = d /\ daemon' = [daemon EXCEPT ![d].api = "serving"]
       ELSE UNCHANGED port /\ daemon' = [daemon EXCEPT ![d].api = "failed"]
    /\ UNCHANGED <<cli, home, accidents>>

\* The scheduler's threads start, then the handler of SIGTERM is registered.
CompleteStartup(d) ==
    /\ daemon[d].phase = "recovered"
    /\ daemon' = [daemon EXCEPT ![d].phase = "waiting", ![d].scheduler = TRUE]
    /\ UNCHANGED <<port, cli, home, accidents>>

------------------------------------------------------------------------------
(* looperd: perform_graceful_shutdown *)

\* The listener closes; open connections may go on.
BeginDrain(d) ==
    /\ daemon[d].phase = "waiting" /\ daemon[d].signalled
    /\ daemon' = [daemon EXCEPT ![d].phase = "draining",
                                ![d].api = IF @ = "failed" THEN @ ELSE "closed"]
    /\ port' = IF port = d THEN "nobody" ELSE port
    /\ UNCHANGED <<cli, home, accidents>>

\* At most ten seconds for the connections; event streams do not end.
EndDrainUntimed(d) ==
    /\ daemon[d].phase = "draining" /\ ~daemon[d].stream
    /\ daemon' = [daemon EXCEPT ![d].phase = "stopping"]
    /\ UNCHANGED <<port, cli, home, accidents>>
EndDrain(d) ==
    /\ daemon[d].phase = "draining"
    /\ daemon' = [daemon EXCEPT ![d].phase = "stopping"]
    /\ UNCHANGED <<port, cli, home, accidents>>

\* runtime.stop aborts the task that would call the scheduler's shutdown before
\* it wakes it: the scheduler's threads claim on to the end of the process.
StopRuntime(d) ==
    /\ daemon[d].phase = "stopping"
    /\ daemon' = [daemon EXCEPT ![d].phase = "final"]
    /\ UNCHANGED <<port, cli, home, accidents>>

\* An outcome row for every item that is running now.
NoteInterrupted(d) ==
    /\ daemon[d].phase = "final"
    /\ daemon' = [daemon EXCEPT ![d].phase = "exiting"]
    /\ UNCHANGED <<port, cli, home, accidents>>

EndProcess(d) == daemon[d].phase = "exiting" /\ Dies(d) /\ UNCHANGED <<cli, home, accidents>>

------------------------------------------------------------------------------
(* Clients of the API, and accidents *)

OpenStream(d) == /\ daemon[d].api = "serving"
                 /\ daemon' = [daemon EXCEPT ![d].stream = TRUE]
                 /\ UNCHANGED <<port, cli, home, accidents>>
CloseStream(d) == /\ daemon[d].stream
                  /\ daemon' = [daemon EXCEPT ![d].stream = FALSE]
                  /\ UNCHANGED <<port, cli, home, accidents>>
\* POST /shutdown exits at once, without any of the above.
PostShutdown(d) == /\ Lives(d) /\ daemon[d].api = "serving"
                   /\ Dies(d) /\ UNCHANGED <<cli, home, accidents>>
Crash(d) == /\ Lives(d) /\ accidents < MaxAccidents
            /\ accidents' = accidents + 1
            /\ Dies(d) /\ UNCHANGED <<cli, home>>

------------------------------------------------------------------------------
(* looper daemon *)

\* A new process, whether or not one is running.
Spawned(d) == daemon[d].phase = "off" /\ daemon' = [daemon EXCEPT ![d].phase = "boot"]
StartDaemon == /\ cli = "idle" /\ "binary" \in home
               /\ \E d \in Instances : Spawned(d)
               /\ UNCHANGED <<port, cli, home, accidents>>

\* pkill -f looperd: whoever has no handler yet dies, the others are told.
Told(d) == IF daemon[d].phase = "waiting" \/ daemon[d].signalled
           THEN [daemon[d] EXCEPT !.signalled = TRUE]
           ELSE [daemon[d] EXCEPT !.phase = "dead", !.signalled = TRUE]
Signal == /\ daemon' = [d \in Instances |-> IF Lives(d) THEN Told(d) ELSE daemon[d]]
          /\ port' = IF port # "nobody" /\ daemon'[port].phase = "dead" THEN "nobody" ELSE port

\* With nothing to kill pkill fails without a word, and so does the command.
StopDaemon == /\ cli = "idle" /\ Running # {}
              /\ Signal
              /\ UNCHANGED <<cli, home, accidents>>
RestartDaemon == /\ cli = "idle" /\ Running # {}
                 /\ Signal /\ cli' = "restarting"
                 /\ UNCHANGED <<home, accidents>>
\* Half a second later, whatever became of the signalled.
RestartStartDaemon == /\ cli = "restarting" /\ cli' = "idle"
                      /\ IF "binary" \in home THEN \E d \in Instances : Spawned(d) ELSE UNCHANGED daemon
                      /\ UNCHANGED <<port, home, accidents>>

\* The unit starts the command line itself or an archive, never looperd; only a
\* download replaces the binary, by the archive.
Install == /\ cli = "idle"
           /\ \E version \in BOOLEAN : home' = (home \cup {"unit"}) \ (IF version THEN {"binary"} ELSE {})
           /\ UNCHANGED <<daemon, port, cli, accidents>>
Uninstall == /\ cli = "idle"
             /\ IF Running # {} THEN Signal ELSE UNCHANGED <<daemon, port>>
             /\ cli' = "uninstalling" /\ UNCHANGED <<home, accidents>>
\* Unit, binaries and the whole data directory; a binary that cannot be removed
\* ends the command before the data.
UninstallFiles == /\ cli = "uninstalling" /\ cli' = "idle"
                  /\ home' \in {{}, home \ {"unit"}}
                  /\ UNCHANGED <<daemon, port, accidents>>

ShutdownStep(d) == BeginDrain(d) \/ EndDrain(d) \/ StopRuntime(d) \/ NoteInterrupted(d) \/ EndProcess(d)
ProcessNext ==
    \/ \E d \in Instances :
         \/ Recover(d) \/ Bind(d) \/ CompleteStartup(d)
         \/ ShutdownStep(d)
         \/ OpenStream(d) \/ CloseStream(d) \/ PostShutdown(d) \/ Crash(d)
    \/ StartDaemon \/ StopDaemon \/ RestartDaemon \/ RestartStartDaemon \/ Install \/ Uninstall \/ UninstallFiles

\* A process that was told to end runs; its clients and the command line do as
\* they like.
ProcessFairness == \A d \in Instances : WF_processVars(ShutdownStep(d))

------------------------------------------------------------------------------
(* Properties *)

\* A daemon that was told to stop does: no open event stream, no API that failed
\* to start and no scheduler that goes on claiming keeps it (main.rs:614-680).
ToldEnds == \A d \in Instances : daemon[d].signalled ~> daemon[d].phase = "dead"
============================================================================
