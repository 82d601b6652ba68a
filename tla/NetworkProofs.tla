----------------------------- MODULE NetworkProofs -----------------------------
(***************************************************************************)
(* Theorems about the network of nodes, for any number of processes,       *)
(* machines, join keys, ids and fencing tokens: who is admitted by a join  *)
(* key, that no active node's row is taken over, and that fencing tokens   *)
(* order the holders of the coordinator lease.                             *)
(***************************************************************************)
EXTENDS Network, TLAPS

\* The parts of the state as a proof about one process needs them.
LEMMA NetTypes ==
    ASSUME NetTypeOK, NEW c \in Clients
    PROVE  /\ cl[c] \in ClientRow /\ NodeName(c) \in Names /\ HostOf[c] \in Hosts
           /\ cl[c].tok \in Ids \cup {Nobody} /\ cl[c].id \in Ids \cup {Nobody}
           /\ cl[c].see \in SeenRow
           /\ cl[c].key \in JoinKeys
           /\ lease \in LeaseRow /\ Seen(lease) \in SeenRow
BY NetworkAssumption DEF NetTypeOK, ClientRow, NodeName, Names, LeaseRow, SeenRow, Seen

\* A process that rests, with what it knows.
LEMMA RestType ==
    ASSUME NEW tok \in Ids \cup {Nobody}, NEW elig \in BOOLEAN
    PROVE  /\ Rest(tok, elig) \in ClientRow
           /\ Rest(tok, elig).pc = "idle" /\ Rest(tok, elig).id = Nobody
           /\ Rest(tok, elig).see = Seen(NoLease)
<1>1. \E k \in JoinKeys : TRUE
  BY NetworkAssumption
<1>2. Seen(NoLease) \in SeenRow
  BY NetworkAssumption DEF Seen, NoLease, SeenRow
<1> QED BY <1>1, <1>2, NetworkAssumption DEF Rest, ClientRow, Steps, Ops

\* Nothing seen of a lease is a sighting too.
LEMMA NothingSeen == Seen(NoLease) \in SeenRow
BY NetworkAssumption DEF Seen, NoLease, SeenRow

\* A request goes on.
LEMMA GotoType ==
    ASSUME NetTypeOK, NEW c \in Clients, NEW pc \in Steps, Goto(c, pc)
    PROVE  /\ cl' \in [Clients -> ClientRow]
           /\ \A d \in Clients : cl'[d] = [cl[d] EXCEPT !.pc = cl'[d].pc]
           /\ \A d \in Clients \ {c} : cl'[d] = cl[d]
           /\ cl'[c].pc = pc
<1>1. cl' = [cl EXCEPT ![c] = [cl[c] EXCEPT !.pc = pc]]
  BY NetTypes DEF Goto, NetTypeOK
<1>2. \A d \in Clients : cl[d] \in ClientRow
  BY NetTypes
<1>3. [cl[c] EXCEPT !.pc = pc] \in ClientRow
  BY <1>2 DEF ClientRow
<1>4. \A d \in Clients : cl[d] = [cl[d] EXCEPT !.pc = cl[d].pc]
  BY <1>2 DEF ClientRow
<1> QED BY <1>1, <1>2, <1>3, <1>4 DEF NetTypeOK, ClientRow

\* Every statement of the server keeps the types.
LEMMA ServerTypes ==
    ASSUME NetTypeOK, NEW c \in Clients, Serve(c)
    PROVE  NetTypeOK'
<1>1. /\ cl[c] \in ClientRow /\ NodeName(c) \in Names /\ lease \in LeaseRow
      /\ UNCHANGED <<bare, file, commands>> /\ nextId \in Nat
  BY NetTypes, NetworkAssumption DEF Serve, NetTypeOK
<1>2. CASE ConsumeKey(c)
  <2>1. CASE Goto(c, "refused") /\ UNCHANGED <<consumer, nextId>>
    BY <1>1, <1>2, <2>1, GotoType DEF ConsumeKey, NetTypeOK, Steps
  <2>2. CASE ~(Goto(c, "refused") /\ UNCHANGED <<consumer, nextId>>)
    <3>1. nextId \in Ids /\ nextId' = nextId + 1 /\ nextId' \in 1 .. MaxIds + 1
      BY <1>2, <2>2, NetworkAssumption DEF ConsumeKey, NetTypeOK, Ids
    <3>2. [cl[c] EXCEPT !.pc = "reactivate", !.id = nextId] \in ClientRow
      BY <1>1, <3>1 DEF ClientRow, Steps
    <3>3. cl' = [cl EXCEPT ![c] = [cl[c] EXCEPT !.pc = "reactivate", !.id = nextId]]
      BY <1>1, <1>2, <2>2 DEF ConsumeKey, NetTypeOK
    <3>4. consumer' \in [JoinKeys -> Ids \cup {Nobody}]
      BY <1>2, <2>2, <3>1 DEF ConsumeKey, NetTypeOK
    <3> QED BY <1>1, <1>2, <3>1, <3>2, <3>3, <3>4 DEF ConsumeKey, NetTypeOK
  <2> QED BY <2>1, <2>2
<1>3. CASE Reactivate(c) \/ NameTaken(c) \/ InsertNode(c) \/ Authenticate(c)
  <2>1. \E pc \in Steps : Goto(c, pc)
    BY <1>3 DEF Reactivate, NameTaken, InsertNode, Authenticate, Steps
  <2>2. nodes' = nodes \/ nodes' = [nodes EXCEPT ![NodeName(c)] = [id |-> cl[c].id, active |-> TRUE]]
    BY <1>3 DEF Reactivate, NameTaken, InsertNode, Authenticate, serverVars
  <2>3. nodes' \in [Names -> NodeRow]
    <3>1. [id |-> cl[c].id, active |-> TRUE] \in NodeRow
      BY NetTypes DEF NodeRow
    <3> QED BY <1>1, <2>2, <3>1 DEF NetTypeOK
  <2>4. UNCHANGED <<consumer, lease, nextId, handed>>
    BY <1>3 DEF Reactivate, NameTaken, InsertNode, Authenticate, serverVars
  <2> QED BY <1>1, <2>1, <2>3, <2>4, GotoType DEF NetTypeOK
<1>4. CASE Deactivate(c)
  <2>1. nodes' \in [Names -> NodeRow]
    BY <1>4 DEF Deactivate, NetTypeOK, NodeRow
  <2> QED BY <1>1, <1>4, <2>1, GotoType DEF Deactivate, NetTypeOK, Steps
<1>5. CASE LeaveReadsLease(c)
  <2>1. cl' = [cl EXCEPT ![c] = [cl[c] EXCEPT !.pc = "expireLease", !.fence = lease.token]]
        \/ Goto(c, "answer")
    BY <1>1, <1>5 DEF LeaveReadsLease, NetTypeOK
  <2>2. [cl[c] EXCEPT !.pc = "expireLease", !.fence = lease.token] \in ClientRow
    BY <1>1 DEF ClientRow, LeaseRow, Steps
  <2>3. cl' \in [Clients -> ClientRow]
    BY <2>1, <2>2, GotoType DEF NetTypeOK, Steps
  <2> QED BY <1>1, <1>5, <2>3 DEF LeaveReadsLease, serverVars, NetTypeOK
<1>6. CASE \/ LeaveExpiresLease(c) \/ AcquireLease(c) \/ RenewLease(c) \/ ExpireLease(c)
           \/ HandOffLease(c)
  <2>1. \E pc \in Steps : Goto(c, pc)
    BY <1>6 DEF LeaveExpiresLease, AcquireLease, RenewLease, ExpireLease, HandOffLease, Steps
  <2>2. Vacated \in LeaseRow
    BY <1>1 DEF Vacated, LeaseRow
  <2>3. lease' \in LeaseRow
    <3>1. cl[c].tok \in Ids \cup {Nobody} /\ cl[c].target \in Ids \cup {Nobody}
      BY <1>1 DEF ClientRow
    <3>2. CASE AcquireLease(c)
      <4>1. lease.token < MaxToken => NextToken \in 0 .. MaxToken
        BY <1>1, NetworkAssumption DEF LeaseRow, NextToken
      <4> QED BY <1>1, <3>1, <3>2, <4>1 DEF AcquireLease, LeaseRow
    <3>3. CASE HandOffLease(c)
      BY <1>1, <3>1, <3>3 DEF HandOffLease, LeaseRow
    <3>4. CASE LeaveExpiresLease(c) \/ RenewLease(c) \/ ExpireLease(c)
      BY <1>1, <2>2, <3>4 DEF LeaveExpiresLease, RenewLease, ExpireLease, LeaseRow
    <3> QED BY <1>6, <3>2, <3>3, <3>4
  <2>4. handed' \subseteq 0 .. MaxToken
    BY <1>1, <1>6 DEF LeaveExpiresLease, AcquireLease, RenewLease, ExpireLease, HandOffLease,
       LeaseRow, NetTypeOK
  <2>5. UNCHANGED <<consumer, nodes, nextId>>
    BY <1>6 DEF LeaveExpiresLease, AcquireLease, RenewLease, ExpireLease, HandOffLease
  <2> QED BY <1>1, <2>1, <2>3, <2>4, <2>5, GotoType DEF NetTypeOK
<1> QED BY <1>2, <1>3, <1>4, <1>5, <1>6 DEF Serve, ServerStep

\* What a step of a process does to its own record and to the others'.
Own(c) == /\ cl' \in [Clients -> ClientRow]
          /\ \A d \in Clients \ {c} : cl'[d] = cl[d]

\* Every step of a process does too; it keeps, or forgets, its request's id.
LEMMA ClientTypes ==
    ASSUME NetTypeOK, NEW c \in Clients, RunTick(c) \/ Lose(c) \/ Command(c)
    PROVE  NetTypeOK' /\ Own(c)
<1>1. /\ cl[c] \in ClientRow /\ lease \in LeaseRow /\ Seen(lease) \in SeenRow
      /\ cl[c].tok \in Ids \cup {Nobody} /\ cl[c].elig \in BOOLEAN
      /\ cl[c].see \in SeenRow
      /\ HostOf[c] \in Hosts /\ Seen(NoLease) \in SeenRow
      /\ UNCHANGED <<serverVars, bare>> /\ commands' \in 0 .. MaxCommands
  BY NetTypes, NothingSeen, NetworkAssumption DEF RunTick, Lose, Command, NetTypeOK, ClientRow
<1>2. \E x \in ClientRow : cl' = [cl EXCEPT ![c] = x]
  <2>1. cl[c] \in ClientRow /\ cl = [cl EXCEPT ![c] = cl[c]]
    BY <1>1 DEF NetTypeOK
  <2>2. CASE ReadStatus(c)
    <3>1. [cl[c] EXCEPT !.see = Seen(lease), !.pc = "reconcile", !.op = "none"] \in ClientRow
      BY <1>1 DEF ClientRow, Steps, Ops
    <3>2. \/ cl' = [cl EXCEPT ![c] = [cl[c] EXCEPT !.see = Seen(lease), !.pc = "reconcile",
                                                 !.op = "none"]]
          \/ cl' = [cl EXCEPT ![c] = [cl[c] EXCEPT !.pc = "idle"]]
      BY <1>1, <2>2 DEF ReadStatus, Goto, NetTypeOK
    <3>3. [cl[c] EXCEPT !.pc = "idle"] \in ClientRow
      BY <1>1 DEF ClientRow, Steps
    <3> QED BY <3>1, <3>2, <3>3
  <2>11. CASE Beat(c)
    <3>1. [cl[c] EXCEPT !.pc = "status"] \in ClientRow
      BY <1>1 DEF ClientRow, Steps
    <3>2. cl' = [cl EXCEPT ![c] = [cl[c] EXCEPT !.pc = "status"]]
      BY <1>1, <2>11 DEF Beat, Goto, NetTypeOK
    <3> QED BY <3>1, <3>2
  <2>3. CASE Reconcile(c)
    <3>1. Decision(c) \in Ops
      BY DEF Decision, Ops
    <3> DEFINE y == [cl[c] EXCEPT !.op = Decision(c), !.fence = cl[c].see.token,
                                  !.pc = IF Decision(c) = "none" THEN "answer" ELSE "auth"]
    <3>2. y \in ClientRow
      BY <1>1, <3>1 DEF ClientRow, Steps, SeenRow
    <3>3. cl' = [cl EXCEPT ![c] = y]
      BY <1>1, <2>3 DEF Reconcile, NetTypeOK
    <3> QED BY <3>2, <3>3
  <2>4. CASE TakeAnswer(c)
    BY <1>1, <2>4, RestType DEF TakeAnswer
  <2>10. CASE Hang(c)
    <3>1. [cl[c] EXCEPT !.pc = "hung", !.op = "none"] \in ClientRow
      BY <1>1 DEF ClientRow, Steps, Ops
    <3>2. cl' = [cl EXCEPT ![c] = [cl[c] EXCEPT !.pc = "hung", !.op = "none"]]
      BY <1>1, <2>10 DEF Hang, NetTypeOK
    <3> QED BY <3>1, <3>2
  <2>5. CASE LoseAnswer(c)
    BY <1>1, <2>5, RestType DEF LoseAnswer
  <2>6. CASE Start(c)
    <3>1. file[HostOf[c]] \in Ids \cup {Nobody}
      BY <1>1 DEF NetTypeOK
    <3> QED BY <1>1, <2>6, <3>1, RestType DEF Start
  <2>7. CASE Leave(c)
    <3>1. [cl[c] EXCEPT !.op = "leave", !.pc = "auth"] \in ClientRow
      BY <1>1 DEF ClientRow, Steps, Ops
    <3> QED BY ZenonT(30), <2>1, <2>7, <3>1 DEF Leave, Send
  <2>8. CASE \E k \in JoinKeys : Join(c, k)
    <3>1. PICK k \in JoinKeys : Join(c, k)
      BY <2>8
    <3> DEFINE y == [cl[c] EXCEPT !.op = "join", !.pc = "consume", !.key = k]
    <3>2. y \in ClientRow
      BY <1>1 DEF ClientRow, Steps, Ops
    <3>3. cl' = [cl EXCEPT ![c] = y]
      BY <1>1, <3>1 DEF Join, NetTypeOK
    <3> QED BY <3>2, <3>3
  <2>9. CASE \E i \in Ids, t \in 0 .. MaxToken : HandOff(c, i, t)
    <3>1. PICK i \in Ids, t \in 0 .. MaxToken : HandOff(c, i, t)
      BY <2>9
    <3> DEFINE y == [cl[c] EXCEPT !.op = "handoff", !.pc = "auth", !.fence = t, !.target = i]
    <3>2. y \in ClientRow
      BY <1>1 DEF ClientRow, Steps, Ops, SeenRow
    <3>3. cl' = [cl EXCEPT ![c] = y]
      BY <1>1, <3>1 DEF HandOff, NetTypeOK
    <3> QED BY <3>2, <3>3
  <2> QED BY <2>2, <2>3, <2>4, <2>5, <2>6, <2>7, <2>8, <2>9, <2>10, <2>11
          DEF RunTick, TickStep, Lose, Command, CommandStep
<1>3. file' \in [Hosts -> Ids \cup {Nobody}]
  BY <1>1 DEF RunTick, TickStep, Lose, Command, CommandStep, Beat, ReadStatus, Reconcile,
     Hang, TakeAnswer, StateFile, LoseAnswer, Start, Leave, Join, HandOff, NetTypeOK, ClientRow
<1> QED BY <1>1, <1>2, <1>3 DEF Own, NetTypeOK, serverVars

-----------------------------------------------------------------------------
(* Join keys and identities *)

Joining == {"reactivate", "byName", "insert"}
Known(i) == i = Nobody \/ \E k \in JoinKeys : consumer[k] = i

\* Ids are issued in order, each for one key; the rows and the requests have
\* none but those, and a request that joins, like an active node, has one.
AdmitInv == /\ \A k \in JoinKeys : consumer[k] < nextId
            /\ \A j, k \in JoinKeys : consumer[j] = consumer[k] /\ consumer[j] # Nobody => j = k
            /\ \A n \in Names : Known(nodes[n].id) /\ (nodes[n].active => nodes[n].id # Nobody)
            /\ \A c \in Clients : /\ Known(cl[c].id)
                                  /\ cl[c].pc \in Joining => cl[c].id # Nobody

\* A statement that consumes no key, and writes rows of known identities only.
LEMMA AdmitKept ==
    ASSUME AdmitInv, UNCHANGED <<consumer, nextId>>,
           \A n \in Names : \/ nodes'[n].id = nodes[n].id /\ (nodes'[n].active => nodes[n].active)
                            \/ Known(nodes'[n].id) /\ nodes'[n].id # Nobody,
           \A c \in Clients : \/ cl'[c].id = cl[c].id
                                 /\ (cl'[c].pc \in Joining => cl[c].pc \in Joining)
                              \/ cl'[c].id = Nobody /\ cl'[c].pc \notin Joining
    PROVE  AdmitInv'
BY DEF AdmitInv, Known

LEMMA ServerAdmits ==
    ASSUME NetTypeOK, AdmitInv, NEW c \in Clients, Serve(c)
    PROVE  AdmitInv'
<1>1. cl \in [Clients -> ClientRow] /\ cl[c] \in ClientRow /\ nextId \in Nat /\ NodeName(c) \in Names
  BY NetTypes, NetworkAssumption DEF NetTypeOK
<1>2. ASSUME NEW pc \in Steps, Goto(c, pc), pc \in Joining => cl[c].pc \in Joining
      PROVE  \A d \in Clients : cl'[d].id = cl[d].id
                                /\ (cl'[d].pc \in Joining => cl[d].pc \in Joining)
  <2>1. \A d \in Clients \ {c} : cl'[d] = cl[d]
    BY <1>2, GotoType
  <2>2. cl'[c].pc = pc /\ cl'[c] = [cl[c] EXCEPT !.pc = cl'[c].pc]
    BY <1>2, GotoType
  <2>3. cl'[c].id = cl[c].id
    BY <1>1, <2>2 DEF ClientRow
  <2> QED BY <1>2, <2>1, <2>2, <2>3
<1>3. CASE ConsumeKey(c)
  <2>1. CASE Goto(c, "refused") /\ UNCHANGED <<consumer, nextId>>
    BY <1>2, <1>3, <2>1, AdmitKept DEF ConsumeKey, Joining, Steps
  <2>2. CASE ~(Goto(c, "refused") /\ UNCHANGED <<consumer, nextId>>)
    <3> DEFINE k == cl[c].key
    <3>1. /\ consumer[k] = Nobody /\ consumer' = [consumer EXCEPT ![k] = nextId]
          /\ nextId' = nextId + 1 /\ nodes' = nodes /\ k \in JoinKeys /\ nextId # Nobody
      BY <1>3, <2>2, NetTypes, NetworkAssumption DEF ConsumeKey, NetTypeOK, Nobody
    <3>2. /\ consumer \in [JoinKeys -> Nat] /\ consumer'[k] = nextId
          /\ \A j \in JoinKeys \ {k} : consumer'[j] = consumer[j]
      BY <3>1, NetworkAssumption DEF NetTypeOK, Ids, Nobody
    <3>3. cl'[c].id = nextId /\ \A d \in Clients \ {c} : cl'[d] = cl[d]
      BY <1>1, <1>3, <2>2 DEF ConsumeKey, ClientRow
    <3>4. ASSUME NEW i, Known(i)
          PROVE  Known(i)'
      <4>1. CASE i = Nobody
        BY <4>1 DEF Known
      <4>2. CASE \E j \in JoinKeys \ {k} : consumer[j] = i
        BY <3>2, <4>2 DEF Known
      <4> QED BY <3>1, <3>4, <4>1, <4>2 DEF Known
    <3>6. \A j \in JoinKeys : consumer'[j] < nextId'
      BY <1>1, <3>1, <3>2 DEF AdmitInv
    <3>7. \A j, i \in JoinKeys : consumer'[j] = consumer'[i] /\ consumer'[j] # Nobody => j = i
      BY <1>1, <3>1, <3>2 DEF AdmitInv
    <3>8. \A n \in Names : (Known(nodes[n].id) /\ (nodes[n].active => nodes[n].id # Nobody))'
      BY <3>1, <3>4 DEF AdmitInv
    <3>9. \A d \in Clients : (Known(cl[d].id) /\ (cl[d].pc \in Joining => cl[d].id # Nobody))'
      <4>1. (Known(cl[c].id) /\ cl[c].id # Nobody)'
        BY <3>1, <3>2, <3>3 DEF Known
      <4>2. \A d \in Clients \ {c} : (Known(cl[d].id) /\ (cl[d].pc \in Joining => cl[d].id # Nobody))'
        BY <3>3, <3>4 DEF AdmitInv
      <4> QED BY <4>1, <4>2
    <3> QED BY <3>6, <3>7, <3>8, <3>9 DEF AdmitInv
  <2> QED BY <2>1, <2>2
<1>4. CASE Reactivate(c) \/ InsertNode(c)
  <2>1. cl[c].pc \in Joining /\ \E pc \in Steps : Goto(c, pc)
    BY <1>4 DEF Reactivate, InsertNode, Joining, Steps
  <2>2. Known(cl[c].id) /\ cl[c].id # Nobody
    BY <2>1 DEF AdmitInv
  <2>3. nodes' = nodes \/ nodes' = [nodes EXCEPT ![NodeName(c)] = [id |-> cl[c].id, active |-> TRUE]]
    BY <1>4 DEF Reactivate, InsertNode
  <2>4. \A n \in Names : \/ nodes'[n] = nodes[n]
                         \/ Known(nodes'[n].id) /\ nodes'[n].id # Nobody
    BY <1>1, <2>2, <2>3 DEF NetTypeOK
  <2> QED BY <1>2, <1>4, <2>1, <2>4, AdmitKept DEF Reactivate, InsertNode
<1>5. CASE Deactivate(c)
  <2>1. \A n \in Names : nodes'[n].id = nodes[n].id /\ (nodes'[n].active => nodes[n].active)
    BY <1>5 DEF Deactivate, NetTypeOK, NodeRow
  <2> QED BY <1>2, <1>5, <2>1, AdmitKept DEF Deactivate, Joining, Steps
<1>6. CASE LeaveReadsLease(c)
  <2>1. \A d \in Clients : cl'[d].id = cl[d].id /\ (cl'[d].pc \in Joining => cl[d].pc \in Joining)
    BY <1>1, <1>6 DEF LeaveReadsLease, Goto, ClientRow, Joining
  <2> QED BY <1>6, <2>1, AdmitKept DEF LeaveReadsLease, serverVars
<1>7. CASE \/ NameTaken(c) \/ Authenticate(c) \/ LeaveExpiresLease(c) \/ AcquireLease(c)
           \/ RenewLease(c) \/ ExpireLease(c) \/ HandOffLease(c)
  <2>1. \E pc \in Steps : Goto(c, pc) /\ (pc \in Joining => cl[c].pc \in Joining)
    BY <1>7 DEF NameTaken, Authenticate, LeaveExpiresLease, AcquireLease, RenewLease, ExpireLease,
       HandOffLease, Joining, Steps
  <2>2. UNCHANGED <<consumer, nodes, nextId>>
    BY <1>7 DEF NameTaken, Authenticate, LeaveExpiresLease, AcquireLease, RenewLease, ExpireLease,
       HandOffLease, serverVars
  <2> QED BY <1>2, <2>1, <2>2, AdmitKept
<1> QED BY <1>3, <1>4, <1>5, <1>6, <1>7 DEF Serve, ServerStep

LEMMA ClientAdmits ==
    ASSUME NetTypeOK, AdmitInv, NEW c \in Clients, RunTick(c) \/ Lose(c) \/ Command(c)
    PROVE  AdmitInv'
<1>1. cl \in [Clients -> ClientRow] /\ cl[c] \in ClientRow /\ Own(c)
      /\ UNCHANGED <<consumer, nodes, nextId>>
  BY NetTypes, ClientTypes DEF NetTypeOK, RunTick, Lose, Command, serverVars
<1>2. \/ cl'[c].id = cl[c].id /\ (cl'[c].pc \in Joining => cl[c].pc \in Joining)
      \/ cl'[c].id = Nobody /\ cl'[c].pc \notin Joining
  <2>1. \A tok, elig : Rest(tok, elig).id = Nobody /\ Rest(tok, elig).pc \notin Joining
    BY DEF Rest, Joining
  <2>2. CASE TakeAnswer(c) \/ LoseAnswer(c) \/ Start(c)
    BY <1>1, <2>1, <2>2 DEF TakeAnswer, LoseAnswer, Start
  <2>3. CASE Beat(c) \/ ReadStatus(c) \/ Reconcile(c) \/ Hang(c) \/ Leave(c)
    BY <1>1, <2>3 DEF Beat, ReadStatus, Reconcile, Hang, Leave, Goto, Send, ClientRow, Joining
  <2>4. CASE \E k \in JoinKeys : Join(c, k)
    BY <1>1, <2>4 DEF Join, ClientRow, Joining
  <2>5. CASE \E i \in Ids, t \in 0 .. MaxToken : HandOff(c, i, t)
    BY <1>1, <2>5 DEF HandOff, ClientRow, Joining
  <2> QED BY <2>2, <2>3, <2>4, <2>5 DEF RunTick, TickStep, Lose, Command, CommandStep
<1> QED BY <1>1, <1>2, AdmitKept DEF Own

-----------------------------------------------------------------------------
(* Fencing tokens *)

\* Two sightings of the lease with one token and two holders: it was handed on.
Agree(x, y) == /\ x.holder # Nobody /\ y.holder # Nobody /\ x.token = y.token
               => x.holder = y.holder \/ x.token \in handed

\* What is told of the lease: as it is, and as the heartbeats have read it.
Sightings == {Seen(lease)} \cup {cl[c].see : c \in Clients}

\* No sighting is ahead of the lease, and any two agree.
FenceInv == /\ \A x \in Sightings : x.token <= lease.token
            /\ \A x, y \in Sightings : Agree(x, y)

\* The sightings after a step are old ones, of nobody's lease, or of the lease.
LEMMA OldSightings ==
    ASSUME NetTypeOK, FenceInv, UNCHANGED handed,
           lease'.token = lease.token, lease'.holder \in {lease.holder, Nobody},
           \A x \in Sightings' : x \in Sightings \cup {Seen(NoLease), Seen(lease')}
    PROVE  FenceInv'
<1>1. /\ Seen(NoLease).token = 0 /\ Seen(NoLease).holder = Nobody /\ lease.token \in Nat
      /\ Seen(lease').token = lease'.token /\ Seen(lease').holder = lease'.holder
  BY NetworkAssumption DEF Seen, NoLease, NetTypeOK, LeaseRow
<1>2. \A x \in Sightings' : x.token <= lease'.token
  BY <1>1 DEF FenceInv
<1>3. \A x, y \in Sightings' : Agree(x, y)'
  <2>1. Seen(lease) \in Sightings /\ Seen(lease).token = lease.token /\ Seen(lease).holder = lease.holder
    BY DEF Sightings, Seen
  <2> SUFFICES ASSUME NEW x \in Sightings', NEW y \in Sightings',
                      x.holder # Nobody, y.holder # Nobody, x.token = y.token
               PROVE  x.holder = y.holder \/ x.token \in handed
    BY DEF Agree
  <2>2. \E u, v \in Sightings : /\ u.holder = x.holder /\ u.token = x.token
                                /\ v.holder = y.holder /\ v.token = y.token
    BY <1>1, <2>1
  <2> QED BY <2>2 DEF FenceInv, Agree
<1> QED BY <1>2, <1>3 DEF FenceInv

\* The statements of the server.
LEMMA ServerFences ==
    ASSUME NetTypeOK, FenceInv, NEW c \in Clients, Serve(c)
    PROVE  FenceInv'
<1>1. /\ cl \in [Clients -> ClientRow] /\ cl[c] \in ClientRow /\ lease \in LeaseRow
      /\ lease.token \in Nat
  BY NetTypes, NetworkAssumption DEF NetTypeOK, LeaseRow
<1>2. \A d \in Clients : cl'[d].see = cl[d].see
  BY <1>1 DEF Serve, ServerStep, ConsumeKey, Reactivate, NameTaken, InsertNode, Authenticate,
     Deactivate, LeaveReadsLease, LeaveExpiresLease, AcquireLease, RenewLease, ExpireLease,
     HandOffLease, Goto, ClientRow
<1>3. \A x \in Sightings' : x \in Sightings \cup {Seen(lease')}
  BY <1>2 DEF Sightings
<1>4. Seen(lease) \in Sightings /\ Seen(lease).token = lease.token /\ Seen(lease).holder = lease.holder
      /\ Seen(lease').token = lease'.token /\ Seen(lease').holder = lease'.holder
  BY DEF Sightings, Seen
<1>5. CASE lease'.token = lease.token /\ lease'.holder \in {lease.holder, Nobody} /\ handed' = handed
  BY <1>3, <1>5, OldSightings
<1>6. CASE lease'.token = lease.token + 1 /\ handed' = handed
  <2>1. \A x \in Sightings : x.token <= lease.token /\ x.token # lease.token + 1
    <3>1. \A x \in Sightings : x.token \in Nat
      BY <1>1, NetTypes, NetworkAssumption DEF Sightings, SeenRow
    <3> QED BY <1>1, <3>1 DEF FenceInv
  <2>2. \A x \in Sightings' : x.token <= lease'.token
    <3>1. \A x \in Sightings : x.token \in Nat
      BY <1>1, NetTypes, NetworkAssumption DEF Sightings, SeenRow
    <3> QED BY <1>1, <1>3, <1>4, <1>6, <2>1, <3>1
  <2>3. \A x, y \in Sightings' : Agree(x, y)'
    BY <1>3, <1>4, <1>6, <2>1 DEF FenceInv, Agree
  <2> QED BY <2>2, <2>3 DEF FenceInv
<1>7. CASE lease'.token = lease.token /\ handed' = handed \cup {lease.token}
  <2>1. \A x \in Sightings' : x.token <= lease'.token
    BY <1>1, <1>3, <1>4, <1>7 DEF FenceInv
  <2>2. \A x, y \in Sightings' : Agree(x, y)'
    BY <1>3, <1>4, <1>7 DEF FenceInv, Agree
  <2> QED BY <2>1, <2>2 DEF FenceInv
<1>8. CASE AcquireLease(c)
  BY <1>1, <1>5, <1>6, <1>8 DEF AcquireLease, NextToken, LeaseRow
<1>9. CASE HandOffLease(c)
  BY <1>1, <1>5, <1>7, <1>9 DEF HandOffLease, LeaseRow
<1>10. CASE LeaveExpiresLease(c) \/ RenewLease(c) \/ ExpireLease(c)
  BY <1>1, <1>5, <1>10 DEF LeaveExpiresLease, RenewLease, ExpireLease, Vacated, LeaseRow
<1>11. CASE lease' = lease /\ handed' = handed
  BY <1>5, <1>11
<1> QED BY <1>8, <1>9, <1>10, <1>11
        DEF Serve, ServerStep, ConsumeKey, Reactivate, NameTaken, InsertNode, Authenticate,
            Deactivate, LeaveReadsLease, serverVars

\* A process sees the lease as it is, keeps what it has seen, or forgets it.
LEMMA ClientFences ==
    ASSUME NetTypeOK, FenceInv, NEW c \in Clients, RunTick(c) \/ Lose(c) \/ Command(c)
    PROVE  FenceInv'
<1>1. cl \in [Clients -> ClientRow] /\ cl[c] \in ClientRow /\ Own(c) /\ UNCHANGED <<lease, handed>>
  BY NetTypes, ClientTypes DEF NetTypeOK, RunTick, Lose, Command, serverVars
<1>2. cl'[c].see \in {cl[c].see, Seen(lease), Seen(NoLease)}
  <2>1. \A tok, elig : Rest(tok, elig).see = Seen(NoLease)
    BY DEF Rest
  <2>2. CASE TakeAnswer(c) \/ LoseAnswer(c) \/ Start(c)
    BY <1>1, <2>1, <2>2 DEF TakeAnswer, LoseAnswer, Start
  <2>3. CASE Beat(c) \/ ReadStatus(c) \/ Reconcile(c) \/ Hang(c) \/ Leave(c)
    BY <1>1, <2>3 DEF Beat, ReadStatus, Reconcile, Hang, Leave, Goto, Send, ClientRow
  <2>4. CASE \E k \in JoinKeys : Join(c, k)
    BY <1>1, <2>4 DEF Join, ClientRow
  <2>5. CASE \E i \in Ids, t \in 0 .. MaxToken : HandOff(c, i, t)
    BY <1>1, <2>5 DEF HandOff, ClientRow
  <2> QED BY <2>2, <2>3, <2>4, <2>5 DEF RunTick, TickStep, Lose, Command, CommandStep
<1>3. \A x \in Sightings' : x \in Sightings \cup {Seen(NoLease), Seen(lease')}
  BY <1>1, <1>2 DEF Sightings, Own
<1> QED BY <1>1, <1>3, OldSightings

-----------------------------------------------------------------------------
(* The theorems *)

NetInv == NetTypeOK /\ AdmitInv /\ FenceInv

LEMMA NetInit == Init => NetInv
<1> SUFFICES ASSUME Init PROVE NetInv
  OBVIOUS
<1>1. \A c \in Clients : /\ cl[c] \in ClientRow /\ cl[c].pc = "idle" /\ cl[c].id = Nobody
                        /\ cl[c].see = Seen(NoLease)
  <2> DEFINE x == Rest(Nobody, TRUE)
  <2>1. x \in ClientRow /\ x.pc = "idle" /\ x.id = Nobody /\ x.see = Seen(NoLease)
    BY ZenonT(30), RestType, NothingSeen
  <2>2. \A c \in Clients : cl[c] = x
    BY DEF Init
  <2> QED BY <2>1, <2>2
<1>2. cl \in [Clients -> ClientRow]
  BY <1>1 DEF Init
<1>3. lease \in LeaseRow /\ Seen(lease).token = 0 /\ lease.token = 0 /\ Seen(lease).holder = Nobody
  <2>1. lease = NoLease \/ lease = [NoLease EXCEPT !.row = TRUE]
    BY DEF Init
  <2>2. NoLease \in LeaseRow /\ [NoLease EXCEPT !.row = TRUE] \in LeaseRow
    <3>1. 0 \in 0 .. MaxToken
      BY NetworkAssumption
    <3> QED BY <3>1 DEF NoLease, LeaseRow
  <2>3. lease.token = 0 /\ lease.holder = Nobody
    BY <2>1 DEF NoLease
  <2> QED BY <2>1, <2>2, <2>3 DEF Seen
<1>4. NetTypeOK
  <2>1. 1 \in 1 .. MaxIds + 1 /\ 0 \in 0 .. MaxCommands
    BY NetworkAssumption
  <2>2. [id |-> Nobody, active |-> FALSE] \in NodeRow
    BY DEF NodeRow
  <2> QED BY <1>2, <1>3, <2>1, <2>2 DEF Init, NetTypeOK
<1>5. AdmitInv
  <2>1. \A n \in Names : nodes[n].id = Nobody /\ ~nodes[n].active
    BY DEF Init
  <2>2. \A k \in JoinKeys : consumer[k] = Nobody /\ consumer[k] < nextId
    BY DEF Init, Nobody
  <2> QED BY <1>1, <2>1, <2>2 DEF AdmitInv, Known, Joining
<1>6. Seen(NoLease).token = 0 /\ Seen(NoLease).holder = Nobody
  BY DEF Seen, NoLease
<1>7. FenceInv
  BY <1>1, <1>3, <1>6 DEF FenceInv, Sightings, Agree
<1> QED BY <1>4, <1>5, <1>7 DEF NetInv

LEMMA NetNext == NetInv /\ [Next]_vars => NetInv'
<1> SUFFICES ASSUME NetInv, [Next]_vars PROVE NetInv'
  OBVIOUS
<1>1. CASE UNCHANGED vars
  BY <1>1 DEF vars, serverVars, NetInv, NetTypeOK, AdmitInv, Known, FenceInv, Sightings, Agree
<1>2. CASE \E c \in Clients : Serve(c)
  BY <1>2, ServerTypes, ServerAdmits, ServerFences DEF NetInv
<1>3. CASE \E c \in Clients : RunTick(c) \/ Lose(c) \/ Command(c)
  BY <1>3, ClientTypes, ClientAdmits, ClientFences DEF NetInv
<1>4. CASE RunOut
  <2>1. lease' \in LeaseRow /\ Seen(lease') = Seen(lease) /\ lease'.token = lease.token
    BY <1>4 DEF RunOut, NetInv, NetTypeOK, LeaseRow, Seen
  <2>2. UNCHANGED <<consumer, nodes, nextId, handed, bare, file, cl, commands>>
    BY <1>4 DEF RunOut
  <2> QED BY <2>1, <2>2 DEF NetInv, NetTypeOK, AdmitInv, Known, FenceInv, Sightings, Agree
<1> QED BY <1>1, <1>2, <1>3, <1>4 DEF Next

\* The tables, the files and the processes are well typed, identities are
\* issued once, and the sightings of the lease agree.
THEOREM NetInvariance == Spec => []NetInv
BY NetInit, NetNext, PTL DEF Spec

\* consume_join_key: however the requests with one key interleave, each
\* identity that exists was issued for a key of its own.
THEOREM OneNodePerKey == Spec => []KeyAdmitsOneNode
<1>1. NetInv => KeyAdmitsOneNode
  BY DEF NetInv, AdmitInv, Known, KeyAdmitsOneNode, Issued
<1> QED BY <1>1, NetInvariance, PTL

\* acquire_lease, renew_lease, expire_lease and handoff_lease: two processes
\* whose heartbeats act, or hang, on a status that makes their own node the
\* holder have different tokens, unless the token was handed on.
THEOREM TokensOrder == Spec => []FencingOrdersHolders
<1>1. NetInv => FencingOrdersHolders
  <2> SUFFICES ASSUME NetInv, NEW c \in Clients, NEW d \in Clients, Believes(c), Believes(d),
                      cl[c].tok # cl[d].tok, cl[c].see.token = cl[d].see.token
               PROVE  cl[c].see.token \in handed
    BY DEF FencingOrdersHolders
  <2>1. cl[c].see \in Sightings /\ cl[d].see \in Sightings
    BY DEF Sightings
  <2> QED BY <2>1 DEF NetInv, FenceInv, Agree, Believes
<1> QED BY <1>1, NetInvariance, PTL

\* reactivate_node and insert_node: no join takes over the row of a node that
\* has not left.
THEOREM ActiveKept == Spec => ActiveNodesAreKept
<1>1. NetInv /\ [Next]_vars
      => [\A n \in Names : nodes[n].active => nodes'[n].id = nodes[n].id]_vars
  <2> SUFFICES ASSUME NetInv, Next, NEW n \in Names, nodes[n].active
               PROVE  nodes'[n].id = nodes[n].id
    OBVIOUS
  <2>1. nodes \in [Names -> NodeRow] /\ nodes[n].id # Nobody
    BY DEF NetInv, NetTypeOK, AdmitInv
  <2>2. CASE \E c \in Clients : Serve(c)
    BY <2>1, <2>2 DEF Serve, ServerStep, ConsumeKey, Reactivate, NameTaken, InsertNode, Authenticate,
       Deactivate, LeaveReadsLease, LeaveExpiresLease, AcquireLease, RenewLease, ExpireLease,
       HandOffLease, serverVars, NodeRow
  <2> QED BY <2>2 DEF Next, RunTick, Lose, Command, RunOut, serverVars
<1> QED BY <1>1, NetInvariance, PTL DEF Spec, ActiveNodesAreKept

=============================================================================
