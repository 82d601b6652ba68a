------------------------------- MODULE Takeover -------------------------------
(***************************************************************************)
(* Takeover sessions: "looper takeover" (looper-cli commands/takeover.rs), *)
(* the handlers behind it (looper-api routes.rs) and their table.  A       *)
(* session names one pull request that looper is to see through; several   *)
(* clients start, list and stop sessions at once.  Nothing in the daemon   *)
(* reads a session: no step of the program advances, completes or fails    *)
(* one, and the budget of errors is never compared with anything.          *)
(***************************************************************************)
EXTENDS Integers, Sequences, FiniteSets, SequencesExt

CONSTANTS
    Clients,     \* command lines at work
    ProjectRows, \* what GET /projects answers, in its order: [id, name, repo]
    Repos,       \* the repositories asked for: [slug, named], named is their owner-repo
    Within,      \* pairs <<s, t>>: the slug s is a proper part of the slug t
    MaxSessions  \* bound: sessions in all

ASSUME TakeoverAssumption == MaxSessions \in Nat

VARIABLES
    sessions,  \* the table takeover_sessions, oldest first
    work,      \* the ids of the projects with unfinished items in the queue
    client     \* what a command line and its request are doing, and whether it said "Stopped"

takeoverVars == <<sessions, work, client>>

\* todo: the names that are still to be stopped; found: the session that the
\* handler of its request is about to end, 0 for none; listed: the sessions that
\* the answer held; seen: how many there were.  What else a command says is one.
Says(said) == [pc |-> "idle", said |-> said, todo |-> <<>>, found |-> 0, listed |-> {}, seen |-> 0]

TakeoverInit ==
    /\ sessions = <<>>
    /\ work \in SUBSET {ProjectRows[n].id : n \in DOMAIN ProjectRows}
    /\ client = [c \in Clients |-> Says("something")]

------------------------------------------------------------------------------
(* The daemon's side *)

NewSession(name, slug) == [project |-> name, repo |-> slug, status |-> "active", phase |-> "planning",
                           cycles |-> 0, errors |-> 0]

\* Every start is a new row: a session of the same pull request may be active.
\* The scheduler is asked for a tick, which looks at no session.
InsertSession(name, slug) ==
    sessions' = Append(sessions, NewSession(name, slug)) /\ UNCHANGED work

Active == {n \in DOMAIN sessions : sessions[n].status = "active"}

\* The first of a name in the list, the newest.  A mutant first: the newest of a
\* name may have ended before.
NewestEver(name) ==
    LET hits == {n \in DOMAIN sessions : sessions[n].project = name} IN {n \in hits : \A m \in hits : m <= n}
NewestOf(name) ==
    LET hits == {n \in Active : sessions[n].project = name} IN {n \in hits : \A m \in hits : m <= n}

------------------------------------------------------------------------------
(* The command line *)

\* The first project whose address holds the slug anywhere; if there is none, or
\* the projects could not be listed, a name that no project need have.
ProjectFor(repo, answered) ==
    LET Fits(row) == answered /\ (row.repo = repo.slug \/ <<repo.slug, row.repo>> \in Within)
        fit == SelectSeq(ProjectRows, Fits)
    IN  IF fit = <<>> THEN repo.named ELSE fit[1].name

Ends(c) == client' = [client EXCEPT ![c] = Says("something")]
Fresh(c) == client[c].pc = "idle"

\* The request arrives, or its answer is lost, or it never arrives.
StartTakeover(c) ==
    /\ Fresh(c) /\ Len(sessions) < MaxSessions
    /\ \E repo \in Repos, answered \in BOOLEAN :
        \/ InsertSession(ProjectFor(repo, answered), repo.slug)
        \/ UNCHANGED <<sessions, work>>
    /\ Ends(c)

\* The stop of one project is one request, and counts nothing.
StopOne(c) ==
    /\ Fresh(c) /\ UNCHANGED <<sessions, work>>
    /\ \E row \in Range(ProjectRows) :
        client' = [client EXCEPT ![c] = [Says("nothing") EXCEPT !.pc = "stopping", !.todo = <<row.name>>]]

\* "stop" without a project lists first, newest first; a list that fails reads as
\* an empty one.
ListToStop(c) ==
    /\ Fresh(c) /\ UNCHANGED <<sessions, work>>
    /\ \/ Ends(c)
       \/ /\ Active # {}
          /\ \E order \in [1 .. Cardinality(Active) -> Active] :
                /\ Range(order) = Active /\ \A i, j \in DOMAIN order : i < j => order[i] > order[j]
                /\ client' = [client EXCEPT ![c] =
                       [pc |-> "stopping", said |-> "nothing", found |-> 0, seen |-> Len(sessions), listed |-> Active,
                        todo |-> [i \in DOMAIN order |-> sessions[order[i]].project]]]

\* One request per session that was listed, by its project's name.  The handler
\* lists the active sessions and picks the newest of the name; if there is none,
\* or the request is lost, the command ends there.
FindSession(c) ==
    /\ client[c].pc = "stopping" /\ client[c].todo # <<>>
    /\ \/ \E n \in NewestOf(Head(client[c].todo)) :
            client' = [client EXCEPT ![c].pc = "found", ![c].found = n, ![c].todo = Tail(@)]
       \/ Ends(c)
    /\ UNCHANGED <<sessions, work>>

\* It ends that session, whatever other handlers have done to it since, or
\* looperd stops before.
UpdateStatus(c) ==
    /\ client[c].pc = "found" /\ UNCHANGED work
    /\ \/ /\ sessions' = [sessions EXCEPT ![client[c].found].status = "cancelled"]
          /\ client' = [client EXCEPT ![c].pc = "ended"]
       \/ UNCHANGED sessions /\ Ends(c)

\* Then the items of the project that has the name as its id are cancelled; that
\* this fails is not told.  The answer may be lost.
CancelWork(c) ==
    /\ client[c].pc = "ended" /\ UNCHANGED sessions
    /\ work' \in {work, work \ {sessions[client[c].found].project}}
    /\ client' = [client EXCEPT ![c] = [@ EXCEPT !.pc = "stopping", !.found = 0]] \/ Ends(c)

SayStopped(c) ==
    /\ client[c].pc = "stopping" /\ client[c].todo = <<>>
    /\ client' = [client EXCEPT ![c] = [@ EXCEPT !.pc = "idle", !.said = "stopped"]]
    /\ UNCHANGED <<sessions, work>>

\* Clients put work into the queue for reasons of their own.
Admit == /\ \E n \in DOMAIN ProjectRows : ProjectRows[n].id \notin work /\ work' = work \cup {ProjectRows[n].id}
         /\ UNCHANGED <<sessions, client>>

TakeoverNext ==
    \/ \E c \in Clients :
           \/ StartTakeover(c) \/ StopOne(c) \/ ListToStop(c)
           \/ FindSession(c) \/ UpdateStatus(c) \/ CancelWork(c) \/ SayStopped(c)
    \/ Admit

------------------------------------------------------------------------------
\* "Stopped n session(s)" is true (takeover.rs 114-129, routes.rs 1042-1060): of
\* the sessions that were listed, one is still active only if one of the same
\* project that was started since has been stopped in its place, whatever other
\* clients start and stop meanwhile, two requests that find one session included.
StoppedIsStopped ==
    \A c \in Clients : client[c].said = "stopped" =>
        \A name \in {sessions[n].project : n \in client[c].listed} :
            LET Of(ns) == {n \in ns : sessions[n].project = name} IN
            Cardinality(Of(client[c].listed) \cap Active)
                <= Cardinality(Of((client[c].seen + 1) .. Len(sessions)) \ Active)
==============================================================================
