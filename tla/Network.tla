------------------------------- MODULE Network -------------------------------
(***************************************************************************)
(* The network of looper nodes (crate looper-net): the loopernet server    *)
(* with its tables of join keys, nodes and the coordinator lease           *)
(* (server/db.rs, server/handlers.rs), and the processes that speak to it  *)
(* (manager.rs, client.rs, state.rs).                                      *)
(*                                                                         *)
(* Db takes its mutex for one statement at a time and the handlers run on  *)
(* several threads, so a handler is its statements in their order, and     *)
(* those of two requests interleave.  An answer can get lost, or the       *)
(* client die before it comes: the server has done its work all the same.  *)
(* A node's id and its token are issued together and are one number here.  *)
(* What the handlers check before their first statement (protocol and      *)
(* daemon version, the shape of the name) changes nothing and is left out, *)
(* and so are the audit events.  No command of looper starts a Manager;    *)
(* what is modelled is the library, with its heartbeat that hangs once it  *)
(* has reconciled the lease (manager.rs:134, 164).                         *)
(***************************************************************************)
EXTENDS Integers, FiniteSets

CONSTANTS
    Clients,     \* processes that hold a Manager: daemons and command lines
    Hosts,       \* the machines they run on, each with one network.json
    HostOf,      \* the machine of a process
    NameOf,      \* the node name a machine is configured with
    JoinKeys,    \* the join keys the administrator creates
    MaxIds,      \* bound: node ids ever issued; past it a join fails
    MaxToken,    \* bound: fencing tokens ever issued; past it an acquire fails
    MaxCommands  \* bound: joins, leaves, handoffs and restarts, by whom it may be

ASSUME NetworkAssumption ==
    /\ HostOf \in [Clients -> Hosts]
    /\ JoinKeys # {}
    /\ MaxIds \in Nat \ {0} /\ MaxToken \in Nat \ {0} /\ MaxCommands \in Nat

Names == {NameOf[h] : h \in Hosts}
Ids == 1 .. MaxIds
Nobody == 0   \* NULL in a column, no token in a client, no network.json

VARIABLES
    consumer,  \* join_keys: the node id that consumed each key
    nodes,     \* nodes: the row of each name
    lease,     \* the row 'coordinator' of coordinator_leases, if it exists
    nextId,    \* the next id and token to issue
    handed,    \* history: the fencing tokens that handoff_lease has passed on
    bare,      \* do the answers have the shape that client.rs decodes?
    file,      \* network.json of each machine
    cl,        \* each process: its manager and the request it waits for
    commands   \* how many commands were given

serverVars == <<consumer, nodes, lease, nextId, handed>>
vars == <<serverVars, bare, file, cl, commands>>

NodeRow  == [id : Ids \cup {Nobody}, active : BOOLEAN]
LeaseRow == [row : BOOLEAN, holder : Ids \cup {Nobody}, token : 0 .. MaxToken,
             expires : {"never", "later", "past"}]
NoLease  == [row |-> FALSE, holder |-> Nobody, token |-> 0, expires |-> "never"]
\* What a status tells of the lease, and a manager looks at.
Seen(l) == [row |-> l.row, holder |-> l.holder, token |-> l.token]
SeenRow == [row : BOOLEAN, holder : Ids \cup {Nobody}, token : 0 .. MaxToken]

Ops == {"none", "join", "leave", "acquire", "renew", "expire", "handoff"}
Steps == {"idle", "status", "reconcile", "consume", "reactivate", "byName", "insert", "auth", "do",
          "readLease", "expireLease", "answer", "refused", "hung"}
\* tok: the client's token; elig: may it coordinate, by its configuration; see:
\* the lease in the status its heartbeat works on, or hangs with; id: the node
\* id the request is about; fence, key, target: the request's arguments.
ClientRow == [tok : Ids \cup {Nobody}, elig : BOOLEAN, see : SeenRow, pc : Steps, op : Ops,
              id : Ids \cup {Nobody}, fence : 0 .. MaxToken, key : JoinKeys,
              target : Ids \cup {Nobody}]

\* A process that waits for nothing.
Rest(tok, elig) ==
    [tok |-> tok, elig |-> elig, see |-> Seen(NoLease), pc |-> "idle", op |-> "none",
     id |-> Nobody, fence |-> 0, key |-> CHOOSE k \in JoinKeys : TRUE, target |-> Nobody]

NetTypeOK == /\ consumer \in [JoinKeys -> Ids \cup {Nobody}]
             /\ nodes \in [Names -> NodeRow]
             /\ lease \in LeaseRow
             /\ nextId \in 1 .. MaxIds + 1
             /\ handed \subseteq 0 .. MaxToken
             /\ bare \in BOOLEAN
             /\ file \in [Hosts -> Ids \cup {Nobody}]
             /\ cl \in [Clients -> ClientRow]
             /\ commands \in 0 .. MaxCommands

\* The server makes the table of leases and no row in it: there is one only in
\* a database that another implementation of the server has used before.  The
\* answers are bare only if such a server gives them: this one wraps each in
\* {ok, data, error} (api_ok), which client.rs does not decode.
Init == /\ consumer = [k \in JoinKeys |-> Nobody]
        /\ nodes = [n \in Names |-> [id |-> Nobody, active |-> FALSE]]
        /\ lease \in {NoLease, [NoLease EXCEPT !.row = TRUE]}
        /\ nextId = 1 /\ handed = {}
        /\ bare \in BOOLEAN
        /\ file = [h \in Hosts |-> Nobody]
        /\ cl = [c \in Clients |-> Rest(Nobody, TRUE)]
        /\ commands = 0

-----------------------------------------------------------------------------
(* The server's statements *)

ActiveIds == {nodes[n].id : n \in {m \in Names : nodes[m].active}}
NodeName(c) == NameOf[HostOf[c]]
Goto(c, pc) == cl' = [cl EXCEPT ![c].pc = pc]

\* Mutant: the key is read and then written, without the condition.
ConsumeKeyAgain(c) ==
    /\ cl[c].pc = "consume" /\ nextId <= MaxIds
    /\ consumer' = [consumer EXCEPT ![cl[c].key] = nextId]
    /\ nextId' = nextId + 1
    /\ cl' = [cl EXCEPT ![c].pc = "reactivate", ![c].id = nextId]
    /\ UNCHANGED <<nodes, lease, handed>>

\* consume_join_key: UPDATE ... WHERE consumed_at IS NULL.
ConsumeKey(c) ==
    /\ cl[c].pc = "consume"
    /\ IF consumer[cl[c].key] = Nobody /\ nextId <= MaxIds
       THEN /\ consumer' = [consumer EXCEPT ![cl[c].key] = nextId]
            /\ nextId' = nextId + 1
            /\ cl' = [cl EXCEPT ![c].pc = "reactivate", ![c].id = nextId]
       ELSE Goto(c, "refused") /\ UNCHANGED <<consumer, nextId>>
    /\ UNCHANGED <<nodes, lease, handed>>

\* Mutant: reactivate_node forgets WHERE deactivated_at IS NOT NULL.
ReactivateAny(c) ==
    /\ cl[c].pc = "reactivate"
    /\ LET n == NodeName(c) IN
       IF nodes[n].id # Nobody
       THEN nodes' = [nodes EXCEPT ![n] = [id |-> cl[c].id, active |-> TRUE]] /\ Goto(c, "answer")
       ELSE Goto(c, "byName") /\ UNCHANGED nodes
    /\ UNCHANGED <<consumer, lease, nextId, handed>>

\* reactivate_node: a row of this name that has left takes the new identity.
Reactivate(c) ==
    /\ cl[c].pc = "reactivate"
    /\ LET n == NodeName(c) IN
       IF nodes[n].id # Nobody /\ ~nodes[n].active
       THEN nodes' = [nodes EXCEPT ![n] = [id |-> cl[c].id, active |-> TRUE]] /\ Goto(c, "answer")
       ELSE Goto(c, "byName") /\ UNCHANGED nodes
    /\ UNCHANGED <<consumer, lease, nextId, handed>>

\* get_node_by_name: an active node of this name is a conflict.
NameTaken(c) ==
    /\ cl[c].pc = "byName"
    /\ Goto(c, IF nodes[NodeName(c)].active THEN "refused" ELSE "insert")
    /\ UNCHANGED serverVars

\* insert_node: node_name is UNIQUE.
InsertNode(c) ==
    /\ cl[c].pc = "insert"
    /\ IF nodes[NodeName(c)].id # Nobody
       THEN Goto(c, "refused") /\ UNCHANGED nodes
       ELSE /\ nodes' = [nodes EXCEPT ![NodeName(c)] = [id |-> cl[c].id, active |-> TRUE]]
            /\ Goto(c, "answer")
    /\ UNCHANGED <<consumer, lease, nextId, handed>>

\* extract_node: the row of the token, if it is active.
Authenticate(c) ==
    /\ cl[c].pc = "auth"
    /\ Goto(c, IF cl[c].tok \in ActiveIds THEN "do" ELSE "refused")
    /\ UNCHANGED serverVars

\* deactivate_node, then what handle_leave does about the lease.
Deactivate(c) ==
    /\ cl[c].pc = "do" /\ cl[c].op = "leave"
    /\ nodes' = [n \in Names |-> IF nodes[n].id = cl[c].tok THEN [nodes[n] EXCEPT !.active = FALSE]
                                 ELSE nodes[n]]
    /\ Goto(c, "readLease")
    /\ UNCHANGED <<consumer, lease, nextId, handed>>

LeaveReadsLease(c) ==
    /\ cl[c].pc = "readLease"
    /\ IF lease.row /\ lease.holder = cl[c].tok
       THEN cl' = [cl EXCEPT ![c].pc = "expireLease", ![c].fence = lease.token]
       ELSE Goto(c, "answer")
    /\ UNCHANGED serverVars

Holds(c) == lease.row /\ lease.holder = cl[c].tok /\ lease.token = cl[c].fence
Vacated == [lease EXCEPT !.holder = Nobody, !.expires = "never"]

LeaveExpiresLease(c) ==
    /\ cl[c].pc = "expireLease"
    /\ lease' = IF Holds(c) THEN Vacated ELSE lease
    /\ Goto(c, "answer")
    /\ UNCHANGED <<consumer, nodes, nextId, handed>>

\* acquire_lease: UPDATE ... WHERE vacant or expired, token := MAX + 1.
Acquirable == /\ lease.row
              /\ lease.holder = Nobody \/ lease.expires \in {"never", "past"}
\* Mutant: a new holder gets the token of the last one.
SameToken == lease.token
NextToken == lease.token + 1
AcquireLease(c) ==
    /\ cl[c].pc = "do" /\ cl[c].op = "acquire"
    /\ IF Acquirable /\ lease.token < MaxToken
       THEN /\ lease' = [lease EXCEPT !.holder = cl[c].tok, !.token = NextToken,
                                      !.expires = "later"]
            /\ Goto(c, "answer")
       ELSE Goto(c, "refused") /\ UNCHANGED lease
    /\ UNCHANGED <<consumer, nodes, nextId, handed>>

\* renew_lease, expire_lease and handoff_lease go by holder and token alone.
RenewLease(c) ==
    /\ cl[c].pc = "do" /\ cl[c].op = "renew"
    /\ IF Holds(c) THEN lease' = [lease EXCEPT !.expires = "later"] /\ Goto(c, "answer")
                   ELSE Goto(c, "refused") /\ UNCHANGED lease
    /\ UNCHANGED <<consumer, nodes, nextId, handed>>

ExpireLease(c) ==
    /\ cl[c].pc = "do" /\ cl[c].op = "expire"
    /\ IF Holds(c) THEN lease' = Vacated /\ Goto(c, "answer")
                   ELSE Goto(c, "refused") /\ UNCHANGED lease
    /\ UNCHANGED <<consumer, nodes, nextId, handed>>

HandOffLease(c) ==
    /\ cl[c].pc = "do" /\ cl[c].op = "handoff"
    /\ IF Holds(c)
       THEN /\ lease' = [lease EXCEPT !.holder = cl[c].target, !.expires = "later"]
            /\ handed' = handed \cup {lease.token}
            /\ Goto(c, "answer")
       ELSE Goto(c, "refused") /\ UNCHANGED <<lease, handed>>
    /\ UNCHANGED <<consumer, nodes, nextId>>

ServerStep(c) ==
    \/ ConsumeKey(c) \/ Reactivate(c) \/ NameTaken(c) \/ InsertNode(c)
    \/ Authenticate(c) \/ Deactivate(c) \/ LeaveReadsLease(c) \/ LeaveExpiresLease(c)
    \/ AcquireLease(c) \/ RenewLease(c) \/ ExpireLease(c) \/ HandOffLease(c)

-----------------------------------------------------------------------------
(* The processes *)

\* Manager::new in a new process: the token comes from network.json, the rest
\* from the configuration.
Start(c) ==
    /\ cl[c].pc \in {"idle", "hung"}
    /\ \E e \in BOOLEAN : cl' = [cl EXCEPT ![c] = Rest(file[HostOf[c]], e)]
    /\ UNCHANGED file

Send(c, op, pc) == cl' = [cl EXCEPT ![c].op = op, ![c].pc = pc]

Join(c, k) ==
    /\ cl[c].pc = "idle"
    /\ cl' = [cl EXCEPT ![c].op = "join", ![c].pc = "consume", ![c].key = k]
    /\ UNCHANGED file

Leave(c) == cl[c].pc = "idle" /\ cl[c].tok # Nobody /\ Send(c, "leave", "auth") /\ UNCHANGED file

\* client.handoff_lease, with any token: the manager never calls it.
HandOff(c, target, token) ==
    /\ cl[c].pc = "idle" /\ cl[c].tok # Nobody
    /\ cl' = [cl EXCEPT ![c].op = "handoff", ![c].pc = "auth", ![c].fence = token,
                        ![c].target = target]
    /\ UNCHANGED file

\* A tick begins with a heartbeat, which writes only its time; one that is
\* refused, or whose answer cannot be read, ends the tick.
Beat(c) ==
    /\ cl[c].pc = "idle" /\ cl[c].tok \in ActiveIds /\ bare
    /\ Goto(c, "status")
    /\ UNCHANGED file

\* Then it asks for the status: membership and lease.
ReadStatus(c) ==
    /\ cl[c].pc = "status"
    /\ IF cl[c].tok \in ActiveIds
       THEN cl' = [cl EXCEPT ![c].see = Seen(lease), ![c].pc = "reconcile", ![c].op = "none"]
       ELSE Goto(c, "idle")
    /\ UNCHANGED file

\* reconcile_lease: renew what I hold, acquire what nobody holds, expire what I
\* hold and may not.
SeesMine(c)   == cl[c].see.row /\ cl[c].see.holder = cl[c].tok
\* Mutant: a lease is acquired only where there is none yet.
SeesUnheld(c) == ~cl[c].see.row
SeesVacant(c) == cl[c].see.row => cl[c].see.holder = Nobody
Decision(c) == CASE cl[c].elig /\ SeesMine(c)    -> "renew"
                 [] cl[c].elig /\ SeesVacant(c)  -> "acquire"
                 [] ~cl[c].elig /\ SeesMine(c)   -> "expire"
                 [] OTHER                        -> "none"
Reconcile(c) ==
    /\ cl[c].pc = "reconcile"
    /\ cl' = [cl EXCEPT ![c].op = Decision(c), ![c].fence = cl[c].see.token,
                        ![c].pc = IF Decision(c) = "none" THEN "answer" ELSE "auth"]
    /\ UNCHANGED file

\* What became of a lease request is only logged.  tick_heartbeat then asks
\* for the write lock on the state whose read guard it has held since line 134,
\* and waits for itself: no tick comes after this one, and the status is never
\* stored.
OfTick(c) == cl[c].op \in {"none", "acquire", "renew", "expire"}
Hang(c) ==
    /\ cl[c].pc \in {"answer", "refused"} /\ OfTick(c)
    /\ cl' = [cl EXCEPT ![c].pc = "hung", ![c].op = "none"]
    /\ UNCHANGED file

\* The answer to a command arrives, or never does.  A join is saved if it can be
\* read; a leave removes the file (its body may be anything).
StateFile(c) == CASE cl[c].op = "join" /\ bare -> [file EXCEPT ![HostOf[c]] = cl[c].id]
                  [] cl[c].op = "leave"        -> [file EXCEPT ![HostOf[c]] = Nobody]
                  [] OTHER                     -> file
TakeAnswer(c) ==
    /\ cl[c].pc \in {"answer", "refused"} /\ ~OfTick(c)
    /\ cl' = [cl EXCEPT ![c] = Rest(cl[c].tok, cl[c].elig)]
    /\ file' = IF cl[c].pc = "answer" THEN StateFile(c) ELSE file
LoseAnswer(c) ==
    /\ cl[c].pc \in {"answer", "refused"} /\ ~OfTick(c)
    /\ cl' = [cl EXCEPT ![c] = Rest(cl[c].tok, cl[c].elig)]
    /\ UNCHANGED file

TickStep(c) == Beat(c) \/ ReadStatus(c) \/ Reconcile(c) \/ Hang(c) \/ TakeAnswer(c)
CommandStep(c) ==
    \/ Start(c) \/ Leave(c)
    \/ \E k \in JoinKeys : Join(c, k)
    \/ \E i \in Ids, t \in 0 .. MaxToken : HandOff(c, i, t)

\* Time passes: heartbeats are late for as long as it takes a lease to run out
\* (lease_ttl_seconds after it was taken or renewed).
RunOut == /\ lease.expires = "later" /\ lease' = [lease EXCEPT !.expires = "past"]
          /\ UNCHANGED <<consumer, nodes, nextId, handed, bare, file, cl, commands>>

Serve(c)   == ServerStep(c) /\ UNCHANGED <<bare, file, commands>>
RunTick(c) == TickStep(c) /\ UNCHANGED <<serverVars, bare, commands>>
Lose(c)    == LoseAnswer(c) /\ UNCHANGED <<serverVars, bare, commands>>
Command(c) == /\ commands < MaxCommands /\ commands' = commands + 1
              /\ CommandStep(c) /\ UNCHANGED <<serverVars, bare>>

Next == \/ \E c \in Clients : Serve(c) \/ RunTick(c) \/ Lose(c) \/ Command(c)
        \/ RunOut

Spec == Init /\ [][Next]_vars

\* The server's threads run, and a daemon's interval ticks for as long as its
\* heartbeat returns; when people join, leave or restart is up to them.
Fairness == \A c \in Clients :
              /\ WF_vars(Serve(c))
              /\ SF_vars(RunTick(c))
FairSpec == Spec /\ Fairness

-----------------------------------------------------------------------------
(* Properties *)

\* A join key admits one node: every identity in the table, and every identity
\* about to be written, was issued for a key of its own, however requests with
\* one key interleave (consume_join_key).
Issued == {nodes[n].id : n \in Names} \cup {cl[c].id : c \in Clients}
KeyAdmitsOneNode ==
    /\ Issued \subseteq {consumer[k] : k \in JoinKeys} \cup {Nobody}
    /\ \A j, k \in JoinKeys : consumer[j] = consumer[k] /\ consumer[j] # Nobody => j = k

\* An identity is taken over only after its node has left: no join, however it
\* interleaves with others of the name, replaces the row of an active node.
ActiveNodesAreKept ==
    [][\A n \in Names : nodes[n].active => nodes'[n].id = nodes[n].id]_vars

\* The fencing token orders the coordinators: two processes whose heartbeats
\* act, or hang, on a status that makes their own node the holder have different
\* tokens, unless the holder handed its token on (acquire_lease counts,
\* expire_lease keeps the count, renew_lease does not revive a superseded
\* holder).
Believes(c) == /\ cl[c].see.row /\ cl[c].see.holder # Nobody
               /\ cl[c].see.holder = cl[c].tok
FencingOrdersHolders ==
    \A c, d \in Clients :
        /\ Believes(c) /\ Believes(d) /\ cl[c].tok # cl[d].tok
        /\ cl[c].see.token = cl[d].see.token
        => cl[c].see.token \in handed

\* A vacant lease is taken if there is an eligible node whose process has not
\* ticked yet: its first heartbeat sees the vacancy and acquires it, whatever
\* other requests come in between, unless another node was first, or the node
\* leaves or loses its eligibility (reconcile_lease).
MayCoordinate(c) == bare /\ cl[c].elig /\ cl[c].tok \in ActiveIds
Vacant == lease.row /\ lease.holder = Nobody
Filled == lease.holder # Nobody \/ lease.token = MaxToken
FirstTickFills ==
    \A c \in Clients :
        Vacant /\ MayCoordinate(c) /\ cl[c].pc = "idle" ~> Filled \/ ~MayCoordinate(c)

\* What manager.rs says of any process: its heartbeat loop "runs until
\* cancelled" (94), and acquires a lease that is vacant (193).  The code does
\* not: after its first status it hangs.
VacantIsAcquired ==
    \A c \in Clients : Vacant /\ MayCoordinate(c) ~> Filled \/ ~MayCoordinate(c)

=============================================================================
