---------------------------- MODULE Supervision ----------------------------
(***************************************************************************)
(* Three parts of looper-infra that looperd does not call yet: the circuit *)
(* breaker around a dependency, the lock file of a daemon, and the         *)
(* supervisor of the gh forwarders.  Who calls them, and that several      *)
(* callers share one breaker behind a mutex, is an assumption of this      *)
(* module.                                                                 *)
(***************************************************************************)
EXTENDS Naturals, FiniteSets, FiniteSetsExt

CONSTANTS
    Askers,            \* threads that share the breaker
    FailureThreshold,  \* failure_threshold
    LockUsers,         \* processes that want the lock
    MaxInodes,         \* bound: lock files ever created
    Forwarded,         \* repositories that may be configured
    MaxTransient       \* MAX_CONSECUTIVE_TRANSIENT

ASSUME SupervisionAssumption == {FailureThreshold, MaxInodes, MaxTransient} \subseteq Nat \ {0}

VARIABLES
    breaker,    \* state, failure_count and last_failure_time
    asking,     \* the askers whose call is under way
    lockFile,   \* the inode behind the path, and for each inode holder and PID
    lockFd,     \* the inode each process has open, and whether it has removed the path
    forwarders, \* processes: the entries of the supervisor
    repos       \* configured_repos

superVars == <<breaker, asking, lockFile, lockFd, forwarders, repos>>
lockVars == <<lockFile, lockFd>>
breakerVars == <<breaker, asking>>
forwarderVars == <<forwarders, repos>>

Inodes == 1 .. MaxInodes
NoFd == [inode |-> 0, dropped |-> FALSE]
NoEntry == [child |-> "absent", transient |-> 0, degraded |-> FALSE]

SupervisionTypeOK ==
    /\ breaker \in [state : {"Closed", "Open", "HalfOpen"}, count : 0 .. FailureThreshold + 1,
                    since : {"never", "recent", "cooled"}]
    /\ asking \subseteq Askers
    /\ lockFile \in [path : 0 .. MaxInodes, made : 0 .. MaxInodes,
                     holder : [Inodes -> LockUsers \cup {"nobody"}], pid : [Inodes -> LockUsers \cup {"nobody"}]]
    /\ lockFd \in [LockUsers -> [inode : 0 .. MaxInodes, dropped : BOOLEAN]]
    /\ forwarders \in [Forwarded -> [child : {"absent", "none", "running", "exited"},
                                     transient : 0 .. MaxTransient, degraded : BOOLEAN]]
    /\ repos \subseteq Forwarded

SupervisionInit ==
    /\ breaker = [state |-> "Closed", count |-> 0, since |-> "never"] /\ asking = {}
    /\ lockFile = [path |-> 0, made |-> 0, holder |-> [i \in Inodes |-> "nobody"],
                   pid |-> [i \in Inodes |-> "nobody"]]
    /\ lockFd = [u \in LockUsers |-> NoFd]
    /\ forwarders = [r \in Forwarded |-> NoEntry] /\ repos = {}

------------------------------------------------------------------------------
(* circuit_breaker.rs *)

\* An open breaker without the time of its last failure is never available.
IsAvailable == breaker.state # "Open" \/ breaker.since = "cooled"

\* The half-open state lets through everybody who asks.
Ask(a) ==
    /\ a \notin asking /\ IsAvailable
    /\ breaker' = [breaker EXCEPT !.state = IF @ = "Open" THEN "HalfOpen" ELSE @]
    /\ asking' = asking \cup {a}
    /\ UNCHANGED <<lockVars, forwarderVars>>

\* From whatever state, also for a call that began before the breaker opened.
RecordSuccess(a) ==
    /\ a \in asking
    /\ breaker' = [state |-> "Closed", count |-> 0, since |-> "never"]
    /\ asking' = asking \ {a}
    /\ UNCHANGED <<lockVars, forwarderVars>>

\* The count goes on for ever; beyond the threshold its value means nothing.
Opens(count) == CASE breaker.state = "Closed" /\ count < FailureThreshold -> "Closed"
                  [] OTHER -> "Open"
RecordFailureUntimed(a) ==
    /\ a \in asking
    /\ LET count == Min({breaker.count + 1, FailureThreshold + 1})
       IN breaker' = [state |-> Opens(count), count |-> count, since |-> breaker.since]
    /\ asking' = asking \ {a}
    /\ UNCHANGED <<lockVars, forwarderVars>>
RecordFailure(a) ==
    /\ a \in asking
    /\ LET count == Min({breaker.count + 1, FailureThreshold + 1})
       IN breaker' = [state |-> Opens(count), count |-> count, since |-> "recent"]
    /\ asking' = asking \ {a}
    /\ UNCHANGED <<lockVars, forwarderVars>>

Cooldown == /\ breaker.since = "recent"
            /\ breaker' = [breaker EXCEPT !.since = "cooled"]
            /\ UNCHANGED <<asking, lockVars, forwarderVars>>

------------------------------------------------------------------------------
(* daemon_lock.rs *)

\* Opening truncates the file, and with it the PID of whoever holds the lock.
OpenLock(u) ==
    LET fresh == lockFile.path = 0
        inode == IF fresh THEN lockFile.made + 1 ELSE lockFile.path
    IN /\ lockFd[u].inode = 0 /\ inode <= MaxInodes
       /\ lockFd' = [lockFd EXCEPT ![u].inode = inode]
       /\ lockFile' = [lockFile EXCEPT !.path = inode, !.made = IF fresh THEN inode ELSE @,
                                       !.pid[inode] = "nobody"]
       /\ UNCHANGED <<breakerVars, forwarderVars>>

\* flock without waiting, then the PID; or the failure closes the file.
HoldsLock(u) == lockFd[u].inode # 0 /\ lockFile.holder[lockFd[u].inode] = u
TryLock(u) ==
    /\ lockFd[u].inode # 0 /\ ~HoldsLock(u)
    /\ LET inode == lockFd[u].inode
       IN IF lockFile.holder[inode] = "nobody"
          THEN lockFile' = [lockFile EXCEPT !.holder[inode] = u, !.pid[inode] = u] /\ UNCHANGED lockFd
          ELSE lockFd' = [lockFd EXCEPT ![u] = NoFd] /\ UNCHANGED lockFile
    /\ UNCHANGED <<breakerVars, forwarderVars>>

\* Drop removes what is at the path, its own file or another's, and then closes.
RemoveLock(u) ==
    /\ HoldsLock(u) /\ ~lockFd[u].dropped
    /\ lockFile' = [lockFile EXCEPT !.path = 0]
    /\ lockFd' = [lockFd EXCEPT ![u].dropped = TRUE]
    /\ UNCHANGED <<breakerVars, forwarderVars>>
\* The end of drop, and what the system does for a process that dies.
CloseLock(u) ==
    /\ HoldsLock(u)
    /\ lockFile' = [lockFile EXCEPT !.holder[lockFd[u].inode] = "nobody"]
    /\ lockFd' = [lockFd EXCEPT ![u] = NoFd]
    /\ UNCHANGED <<breakerVars, forwarderVars>>

------------------------------------------------------------------------------
(* forwarder_supervisor.rs *)

\* A stopped forwarder keeps its entry, without a child: reconcile neither
\* starts nor looks at it again.
Stopped(e) == IF e.child \in {"running", "exited"} THEN [e EXCEPT !.child = "none"] ELSE e
StopForwarder(r) ==
    /\ forwarders[r].child \in {"running", "exited"}
    /\ forwarders' = [forwarders EXCEPT ![r] = Stopped(@)]
    /\ UNCHANGED <<repos, breakerVars, lockVars>>
StopAll == /\ forwarders' = [r \in Forwarded |-> Stopped(forwarders[r])]
           /\ UNCHANGED <<repos, breakerVars, lockVars>>

\* What one pass makes of an entry: missing ones are started, also started and
\* looked at in one pass; an exited child counts as a failure whatever its
\* output says, the tenth gives up, and so does a spawn that fails.
StartedEntry(e) == IF e.child = "absent" THEN {NoEntry, [NoEntry EXCEPT !.child = "running"]} ELSE {e}
Respawned(e) ==
    IF e.degraded \/ e.child # "exited" THEN {e}
    ELSE IF e.transient + 1 >= MaxTransient
         THEN {[e EXCEPT !.transient = MaxTransient, !.degraded = TRUE]}
         ELSE {[e EXCEPT !.transient = @ + 1, !.child = "running"],
               [e EXCEPT !.transient = @ + 1, !.degraded = TRUE]}

\* reconcile, for the repositories configured now.
Passed(r, configured) ==
    IF r \in configured THEN UNION {Respawned(e) : e \in StartedEntry(forwarders[r])} ELSE {NoEntry}
ReconcileForwarders ==
    \E configured \in SUBSET Forwarded :
        /\ repos' = configured
        /\ \E next \in [Forwarded -> UNION {Passed(r, configured) : r \in Forwarded}] :
             /\ \A r \in Forwarded : next[r] \in Passed(r, configured)
             /\ forwarders' = next
        /\ UNCHANGED <<breakerVars, lockVars>>

ForwarderExits(r) ==
    /\ forwarders[r].child = "running"
    /\ forwarders' = [forwarders EXCEPT ![r].child = "exited"]
    /\ UNCHANGED <<repos, breakerVars, lockVars>>

BreakerNext == Cooldown \/ \E a \in Askers : Ask(a) \/ RecordSuccess(a) \/ RecordFailure(a)
LockNext == \E u \in LockUsers : OpenLock(u) \/ TryLock(u) \/ RemoveLock(u) \/ CloseLock(u)
ForwarderNext == \/ StopAll \/ ReconcileForwarders
                 \/ \E r \in Forwarded : StopForwarder(r) \/ ForwarderExits(r)

\* Time passes.
SupervisionFairness == WF_superVars(Cooldown)

------------------------------------------------------------------------------
(* Properties *)

\* A breaker that opened lets a call through again in the end, however the calls
\* that were under way when it opened turn out (circuit_breaker.rs:87-135).
OpenRecovers == breaker.state = "Open" ~> IsAvailable
============================================================================
