---------------------------- MODULE PeripheryProofs ----------------------------
(***************************************************************************)
(* Theorems about two parts around the pipelines.  The supervision of      *)
(* agents, for any number of executions and any number of deaths of        *)
(* looperd: a row that tells of an outcome has no process left that nobody *)
(* has killed, and while looperd is up every active row has a run loop;    *)
(* the inductive invariant says where a run loop may be, by what its       *)
(* process, its signals and its row say.  The webhook forwarder, for any   *)
(* payloads and workers: the queue and the map of works agree.             *)
(***************************************************************************)
EXTENDS Agents, Webhook, SequenceTheorems, FiniteSetTheorems, TLAPS

-----------------------------------------------------------------------------
(* Agents *)

\* Where a run loop may be, by what its process and its row say.  A loop settles
\* with a child that exited and drains one it has killed; before the row is
\* written there is none, and when the loop is done the row tells of an outcome.
SupervisionOf(e) ==
    /\ proc[e] = "none" => super[e] = "none" /\ execRow[e] = "none"
    /\ super[e] = "spawned" => execRow[e] = "none"
    /\ super[e] = "settle" => ~Alive(e)
    /\ super[e] = "drain" => sig[e] = "kill"
    /\ looperd # "up" => super[e] = "none"

AgentsInv ==
    /\ execRow \in [Executions -> Active \cup Terminal \cup {"none"}]
    /\ proc \in [Executions -> {"none", "alive", "ok", "bad"}]
    /\ sig \in [Executions -> {"no", "term", "kill"}]
    /\ super \in [Executions -> {"none", "spawned", "loop", "settle", "drain", "done"}]
    /\ \A e \in Executions : SupervisionOf(e)
    /\ TerminalIsDead
    /\ ActiveIsSupervised

\* SIGKILL is not taken back.
LEMMA TermKeepsKill ==
    ASSUME AgentsInv, NEW e \in Executions, Term(e)
    PROVE  /\ sig' \in [Executions -> {"no", "term", "kill"}]
           /\ \A f \in Executions : sig[f] = "kill" => sig'[f] = "kill"
BY DEF AgentsInv, Term

\* A step of one execution.
LEMMA ExecutionKeeps ==
    ASSUME AgentsInv, NEW e \in Executions,
           \/ Spawn(e) \/ StartFails(e) \/ Record(e) \/ Exit(e) \/ Turn(e) \/ Persist(e)
           \/ KillSignals(e) \/ RecoverOrphan(e)
    PROVE  AgentsInv'
<1>1. CASE Spawn(e)
  BY <1>1 DEF Spawn, AgentsInv, SupervisionOf, TerminalIsDead, ActiveIsSupervised, Alive, Active,
     Terminal, Outcomes
<1>2. CASE StartFails(e)
  BY <1>2 DEF StartFails, AgentsInv, SupervisionOf, TerminalIsDead, ActiveIsSupervised, Alive, Active,
     Terminal, Outcomes
<1>3. CASE Record(e)
  BY <1>3 DEF Record, AgentsInv, SupervisionOf, TerminalIsDead, ActiveIsSupervised, Alive, Active,
     Terminal, Outcomes
<1>4. CASE Exit(e)
  BY <1>4 DEF Exit, AgentsInv, SupervisionOf, TerminalIsDead, ActiveIsSupervised, Alive
<1>5. CASE Turn(e)
  <2>1. /\ sig' \in [Executions -> {"no", "term", "kill"}]
        /\ \A f \in Executions : sig[f] = "kill" => sig'[f] = "kill"
    BY <1>5, TermKeepsKill DEF Turn, AgentsInv
  <2>2. \/ super' = [super EXCEPT ![e] = "drain"] /\ sig'[e] = "kill"
        \/ super' = [super EXCEPT ![e] = IF Alive(e) THEN "loop" ELSE "settle"]
    BY <1>5 DEF Turn, AgentsInv
  <2>3. super[e] = "loop" /\ UNCHANGED <<looperd, execRow, proc>>
    BY <1>5 DEF Turn
  <2>4. super' \in [Executions -> {"none", "spawned", "loop", "settle", "drain", "done"}]
    BY <2>2 DEF AgentsInv
  <2>5. \A f \in Executions : SupervisionOf(f)'
    BY <2>1, <2>2, <2>3 DEF AgentsInv, SupervisionOf, Alive
  <2>6. TerminalIsDead'
    BY <2>1, <2>3 DEF AgentsInv, TerminalIsDead, Alive
  <2>7. ActiveIsSupervised'
    BY <2>2, <2>3 DEF AgentsInv, ActiveIsSupervised
  <2> QED BY <2>1, <2>3, <2>4, <2>5, <2>6, <2>7 DEF AgentsInv
<1>6. CASE Persist(e)
  <2>1. \E st \in Terminal : execRow' = [execRow EXCEPT ![e] = st]
    BY <1>6 DEF Persist, Status, Terminal, Outcomes
  <2>2. /\ super[e] \in {"settle", "drain"} /\ super' = [super EXCEPT ![e] = "done"]
        /\ UNCHANGED <<looperd, proc, sig>>
    BY <1>6 DEF Persist
  <2>3. Alive(e) => sig[e] = "kill"
    BY <2>2 DEF AgentsInv, SupervisionOf
  <2>4. Terminal \cap Active = {}
    BY DEF Terminal, Outcomes, Active
  <2> QED BY <2>1, <2>2, <2>3, <2>4 DEF AgentsInv, SupervisionOf, TerminalIsDead, ActiveIsSupervised,
             Alive
<1>7. CASE KillSignals(e)
  <2>1. UNCHANGED <<looperd, execRow, proc, super>>
    BY <1>7 DEF KillSignals
  <2> QED BY <1>7, <2>1, TermKeepsKill DEF KillSignals, AgentsInv, SupervisionOf, TerminalIsDead,
             ActiveIsSupervised, Alive
<1>8. CASE RecoverOrphan(e)
  <2>1. "recovered" \in Terminal /\ "recovered" \notin Active
    BY DEF Terminal, Active
  <2>2. execRow[e] # "none"
    BY <1>8 DEF RecoverOrphan, ListActive, Active
  <2> QED BY <1>8, <2>1, <2>2 DEF RecoverOrphan, AgentsInv, SupervisionOf, TerminalIsDead,
             ActiveIsSupervised, Alive
<1> QED BY <1>1, <1>2, <1>3, <1>4, <1>5, <1>6, <1>7, <1>8

\* The death of looperd takes the run loops, and a start ends when no row is
\* active.
LEMMA DaemonKeeps == ASSUME AgentsInv, Die \/ Start \/ Started PROVE AgentsInv'
<1>1. CASE Die
  BY <1>1 DEF Die, AgentsInv, SupervisionOf, TerminalIsDead, ActiveIsSupervised, Alive
<1>2. CASE Start
  BY <1>2 DEF Start, AgentsInv, SupervisionOf, TerminalIsDead, ActiveIsSupervised, Alive
<1>3. CASE Started
  BY <1>3 DEF Started, ListActive, AgentsInv, SupervisionOf, TerminalIsDead, ActiveIsSupervised, Alive
<1> QED BY <1>1, <1>2, <1>3

LEMMA AgentsStep == ASSUME AgentsInv, [AgentsNext]_agentVars PROVE AgentsInv'
<1>1. CASE UNCHANGED <<looperd, execRow, proc, sig, super>>
  BY <1>1 DEF AgentsInv, SupervisionOf, TerminalIsDead, ActiveIsSupervised, Alive
<1> QED BY <1>1, ExecutionKeeps, DaemonKeeps
        DEF AgentsNext, agentVars, LoopStep, ReaderStep, ReadChunk, StoreChunk, ReadEnd, Output, Elapse,
            Kill

\* The invariant holds from the first spawn on, whichever timer, reader, signal
\* or death of looperd comes when.
THEOREM AgentsInvariance == AgentsSpec => []AgentsInv
<1>1. AgentsInit => AgentsInv
  BY DEF AgentsInit, AgentsInv, SupervisionOf, TerminalIsDead, ActiveIsSupervised, Alive, Active,
     Terminal, Outcomes
<1> QED BY <1>1, AgentsStep, PTL DEF AgentsSpec

\* For any number of executions and deaths of looperd: a row that tells of an
\* outcome has no process that nobody has killed.
THEOREM OutcomeMeansDead == AgentsSpec => []TerminalIsDead
<1>1. AgentsInv => TerminalIsDead
  BY DEF AgentsInv
<1> QED BY <1>1, AgentsInvariance, PTL

\* For any number of executions and deaths of looperd: while it is up, every
\* active row has a run loop.
THEOREM NoActiveOrphans == AgentsSpec => []ActiveIsSupervised
<1>1. AgentsInv => ActiveIsSupervised
  BY DEF AgentsInv
<1> QED BY <1>1, AgentsInvariance, PTL


-----------------------------------------------------------------------------
(* Webhook *)

\* Where a key stands in a sequence.
PlacesOf(s, k) == {i \in DOMAIN s : s[i] = k}

\* The numbers agree key by key.
HookInv ==
    /\ queue \in Seq(Keys) /\ works \in [Keys \X Lanes -> Deliveries \cup {NoItem}]
    /\ WorksMatchQueue

LEMMA LanesOfAny == \A d : LanesOf(d) \subseteq Lanes
<1>. SUFFICES ASSUME NEW d PROVE LanesOf(d) \subseteq Lanes
  OBVIOUS
<1>1. ASSUME NEW action, NEW x, x = PullRequestLanes(action) PROVE x \subseteq Lanes
  BY <1>1 DEF PullRequestLanes, Lanes
<1>2. ASSUME NEW e, NEW x, x = RouteEvent(e) PROVE x \subseteq Lanes
  BY <1>1, <1>2 DEF RouteEvent, Lanes
<1> QED BY <1>2 DEF LanesOf

LEMMA TwoLanes ==
    ASSUME NEW lanes \in SUBSET Lanes
    PROVE  /\ IsFiniteSet(lanes)
           /\ \/ lanes = {} /\ Cardinality(lanes) = 0
              \/ (\E l \in Lanes : lanes = {l}) /\ Cardinality(lanes) = 1
              \/ lanes = Lanes /\ Cardinality(lanes) = 2
<1>1. lanes = {} \/ (\E l \in Lanes : lanes = {l}) \/ lanes = {"reviewer"} \cup {"fixer"}
  BY DEF Lanes
<1>2. /\ IsFiniteSet({}) /\ Cardinality({}) = 0
      /\ \A l \in Lanes : IsFiniteSet({l}) /\ Cardinality({l}) = 1
  BY FS_EmptySet, FS_Singleton
<1>3. IsFiniteSet({"reviewer"} \cup {"fixer"}) /\ Cardinality({"reviewer"} \cup {"fixer"}) = 2
  BY <1>2, FS_AddElement DEF Lanes
<1> QED BY <1>1, <1>2, <1>3 DEF Lanes

LEMMA PoppedOf ==
    ASSUME NEW S, NEW s \in Seq(S), s # <<>>, NEW x
    PROVE  /\ IsFiniteSet(PlacesOf(s, x)) /\ IsFiniteSet(PlacesOf(Tail(s), x))
           /\ Cardinality(PlacesOf(s, x)) \in Nat /\ Cardinality(PlacesOf(Tail(s), x)) \in Nat
           /\ Head(s) = x => Cardinality(PlacesOf(s, x)) = Cardinality(PlacesOf(Tail(s), x)) + 1
           /\ Head(s) # x => Cardinality(PlacesOf(s, x)) = Cardinality(PlacesOf(Tail(s), x))
<1>. DEFINE rest == PlacesOf(s, x) \ {1}
            shift == [i \in PlacesOf(Tail(s), x) |-> i + 1]
<1>1. /\ Len(s) \in Nat \ {0} /\ DOMAIN s = 1 .. Len(s) /\ Head(s) = s[1]
      /\ DOMAIN Tail(s) = 1 .. (Len(s) - 1) /\ \A i \in 1 .. (Len(s) - 1) : Tail(s)[i] = s[i + 1]
  BY HeadTailProperties, LenProperties, EmptySeq
<1>2. IsFiniteSet(1 .. Len(s)) /\ IsFiniteSet(1 .. (Len(s) - 1))
  BY <1>1, FS_Interval
<1>3. IsFiniteSet(PlacesOf(s, x)) /\ IsFiniteSet(PlacesOf(Tail(s), x))
  BY <1>1, <1>2, FS_Subset DEF PlacesOf
<1>4. shift \in Bijection(PlacesOf(Tail(s), x), rest)
  <2>1. shift \in [PlacesOf(Tail(s), x) -> rest]
    BY <1>1 DEF PlacesOf
  <2>2. \A i, j \in PlacesOf(Tail(s), x) : shift[i] = shift[j] => i = j
    BY <1>1 DEF PlacesOf
  <2>3. \A k \in rest : \E i \in PlacesOf(Tail(s), x) : shift[i] = k
    <3>. SUFFICES ASSUME NEW k \in rest PROVE k - 1 \in PlacesOf(Tail(s), x) /\ shift[k - 1] = k
      OBVIOUS
    <3>1. k \in 2 .. Len(s) /\ s[k] = x
      BY <1>1 DEF PlacesOf
    <3>2. k - 1 \in PlacesOf(Tail(s), x)
      BY <1>1, <3>1 DEF PlacesOf
    <3> QED BY <1>1, <3>1, <3>2
  <2>. HIDE DEF shift, rest
  <2> QED BY <2>1, <2>2, <2>3 DEF Bijection, Injection, Surjection, IsInjective
<1>5. Cardinality(rest) = Cardinality(PlacesOf(Tail(s), x))
  <2>. HIDE DEF shift, rest
  <2> QED BY <1>3, <1>4, FS_Bijection DEF ExistsBijection
<1>6. Cardinality(rest) = IF 1 \in PlacesOf(s, x) THEN Cardinality(PlacesOf(s, x)) - 1 ELSE Cardinality(PlacesOf(s, x))
  BY <1>3, FS_RemoveElement
<1>7. Cardinality(PlacesOf(s, x)) \in Nat /\ Cardinality(PlacesOf(Tail(s), x)) \in Nat
  BY <1>3, FS_CardinalityType
<1>8. 1 \in PlacesOf(s, x) <=> Head(s) = x
  BY <1>1 DEF PlacesOf
<1>. HIDE DEF rest
<1> QED BY <1>3, <1>5, <1>6, <1>7, <1>8


LEMMA AppendedOf ==
    ASSUME NEW S, NEW s \in Seq(S), NEW t \in Seq(S), NEW k
    PROVE  /\ s \o t \in Seq(S)
           /\ PlacesOf(t, k) = {} => PlacesOf(s \o t, k) = PlacesOf(s, k)
           /\ PlacesOf(s, k) = {} => PlacesOf(s \o t, k) = {Len(s) + p : p \in PlacesOf(t, k)}
<1>. DEFINE st == s \o t
<1>1. /\ Len(s) \in Nat /\ DOMAIN s = 1 .. Len(s) /\ Len(t) \in Nat /\ DOMAIN t = 1 .. Len(t)
  BY LenProperties
<1>2. /\ st \in Seq(S) /\ Len(st) = Len(s) + Len(t)
      /\ \A i \in 1 .. Len(st) : st[i] = IF i <= Len(s) THEN s[i] ELSE t[i - Len(s)]
  BY ConcatProperties
<1>. HIDE DEF st
<1>3. DOMAIN st = 1 .. (Len(s) + Len(t))
  BY <1>2, LenProperties
<1>4. PlacesOf(t, k) = {} => PlacesOf(st, k) = PlacesOf(s, k)
  <2>. SUFFICES ASSUME PlacesOf(t, k) = {} PROVE \A i : i \in PlacesOf(st, k) <=> i \in PlacesOf(s, k)
    OBVIOUS
  <2>1. \A p \in 1 .. Len(t) : t[p] # k
    BY <1>1 DEF PlacesOf
  <2>2. ASSUME NEW i \in 1 .. (Len(s) + Len(t)), ~(i <= Len(s)) PROVE st[i] # k
    <3>1. i - Len(s) \in 1 .. Len(t) /\ st[i] = t[i - Len(s)]
      BY <1>1, <1>2, <2>2
    <3> QED BY <2>1, <3>1
  <2>3. \A i \in 1 .. Len(s) : i \in 1 .. (Len(s) + Len(t)) /\ i <= Len(s) /\ st[i] = s[i]
    BY <1>1, <1>2
  <2>4. ASSUME NEW i \in PlacesOf(st, k) PROVE i \in PlacesOf(s, k)
    <3>1. i \in 1 .. (Len(s) + Len(t)) /\ st[i] = k
      BY <1>3 DEF PlacesOf
    <3>2. i \in 1 .. Len(s)
      BY <1>1, <2>2, <3>1
    <3> QED BY <1>1, <2>3, <3>1, <3>2 DEF PlacesOf
  <2>5. ASSUME NEW i \in PlacesOf(s, k) PROVE i \in PlacesOf(st, k)
    BY <1>1, <1>3, <2>3 DEF PlacesOf
  <2> QED BY <2>4, <2>5
<1>5. ASSUME PlacesOf(s, k) = {}
      PROVE  PlacesOf(st, k) = {Len(s) + p : p \in PlacesOf(t, k)}
  <2>1. ASSUME NEW i \in PlacesOf(st, k)
        PROVE  i - Len(s) \in PlacesOf(t, k) /\ i = Len(s) + (i - Len(s))
    BY <1>1, <1>2, <1>3, <1>5 DEF PlacesOf
  <2>2. ASSUME NEW p \in PlacesOf(t, k) PROVE Len(s) + p \in PlacesOf(st, k)
    <3>1. p \in 1 .. Len(t) /\ t[p] = k
      BY <1>1 DEF PlacesOf
    <3>2. /\ Len(s) + p \in 1 .. (Len(s) + Len(t)) /\ ~(Len(s) + p <= Len(s)) /\ (Len(s) + p) - Len(s) = p
          /\ Len(s) + p \in 1 .. Len(st)
      BY <1>1, <1>2, <3>1
    <3>3. st[Len(s) + p] = k
      BY <1>2, <3>1, <3>2
    <3> QED BY <1>3, <3>2, <3>3 DEF PlacesOf
  <2> QED BY <2>1, <2>2
<1> QED BY <1>2, <1>4, <1>5 DEF st

LEMMA PushedOf ==
    ASSUME NEW d \in Deliveries, LanesOf(d) # {}, NEW order \in Ascending(Enqueued(d)), NEW k
    PROVE  /\ Pushes(d, order) \in Seq(Keys)
           /\ ~(\E i \in Enqueued(d) : KeysOf[d][i] = k) => PlacesOf(Pushes(d, order), k) = {}
           /\ (\E i \in Enqueued(d) : KeysOf[d][i] = k) =>
                 \A n \in Nat : Cardinality({n + p : p \in PlacesOf(Pushes(d, order), k)}) = Cardinality(LanesOf(d))
<1>. DEFINE is == Enqueued(d)
            m == Cardinality(LanesOf(d))
            size == Cardinality(is)
            pushed == Pushes(d, order)
            Nth(p) == 1 + (p - 1) \div m
<1>1. m = 1 \/ m = 2
  BY LanesOfAny, TwoLanes
<1>2. /\ KeysOf[d] \in Seq(Keys) /\ Len(KeysOf[d]) \in Nat /\ DOMAIN KeysOf[d] = 1 .. Len(KeysOf[d])
      /\ \A i \in DOMAIN KeysOf[d] : KeysOf[d][i] \in Keys
  BY WebhookAssumption, LenProperties
<1>3. is \subseteq 1 .. Len(KeysOf[d])
  BY <1>2 DEF Enqueued
<1>4. IsFiniteSet(is) /\ size \in Nat
  <2>1. IsFiniteSet(1 .. Len(KeysOf[d]))
    <3>1. 1 \in Int /\ Len(KeysOf[d]) \in Int
      BY <1>2
    <3> QED BY <3>1, FS_Interval
  <2> QED BY <1>3, <2>1, FS_Subset, FS_CardinalityType
<1>5. /\ order \in [1 .. size -> is] /\ {order[r] : r \in 1 .. size} = is
      /\ \A r, q \in 1 .. size : r < q => order[r] < order[q]
  BY DEF Ascending
<1>6. Cardinality(DOMAIN order) = size
  <2>1. DOMAIN order = 1 .. size /\ 1 \in Int /\ size \in Int
    BY <1>4, <1>5
  <2>2. Cardinality(1 .. size) = IF 1 > size THEN 0 ELSE size - 1 + 1
    BY <2>1, FS_Interval
  <2> QED BY <1>4, <2>1, <2>2
<1>. HIDE DEF is, m, size
<1>7. pushed = [p \in 1 .. m * size |-> KeysOf[d][order[Nth(p)]]]
  BY <1>6 DEF Pushes, m
<1>. HIDE DEF pushed
<1>8. /\ m * size \in Nat /\ \A p \in 1 .. m * size : Nth(p) \in 1 .. size
      /\ m = 1 => m * size = size /\ \A p \in Nat : Nth(p) = p
      /\ m = 2 => m * size = 2 * size /\ \A p \in Nat, r \in Nat : Nth(p) = r <=> p = 2 * r - 1 \/ p = 2 * r
  BY <1>1, <1>4
<1>. HIDE DEF Nth
<1>9. pushed \in Seq(Keys)
  <2>1. pushed \in [1 .. m * size -> Keys]
    BY <1>2, <1>3, <1>5, <1>7, <1>8
  <2> QED BY <1>8, <2>1, SeqDef
<1>10. DOMAIN pushed = 1 .. m * size /\ \A p \in 1 .. m * size : pushed[p] = KeysOf[d][order[Nth(p)]]
  BY <1>7
<1>11. ASSUME ~(\E i \in is : KeysOf[d][i] = k) PROVE PlacesOf(pushed, k) = {}
  BY <1>5, <1>8, <1>10, <1>11 DEF PlacesOf
<1>12. ASSUME NEW i \in is, KeysOf[d][i] = k, NEW n \in Nat
       PROVE  Cardinality({n + p : p \in PlacesOf(pushed, k)}) = m
  <2>1. PICK r \in 1 .. size : order[r] = i
    BY <1>5
  <2>2. ASSUME NEW j \in is, KeysOf[d][j] = k PROVE j = i
    <3>1. i \in Nat /\ j \in Nat /\ 1 <= i /\ 1 <= j
      BY <1>2, <1>3, <1>12
    <3>2. /\ \A q \in 1 .. i - 1 : KeysOf[d][q] # k
          /\ \A q \in 1 .. j - 1 : KeysOf[d][q] # k
      BY <1>12, <2>2 DEF is, Enqueued
    <3>3. ~(j < i) /\ ~(i < j)
      BY <1>12, <2>2, <3>1, <3>2
    <3> QED BY <3>1, <3>3
  <2>3. \A q \in 1 .. size : KeysOf[d][order[q]] = k <=> q = r
    <3>. SUFFICES ASSUME NEW q \in 1 .. size, KeysOf[d][order[q]] = k PROVE q = r
      BY <1>12, <2>1
    <3>1. order[q] = order[r] /\ order[q] \in Nat
      <4>1. order[q] \in is
        BY <1>5
      <4>2. order[q] = i
        BY <2>2, <4>1
      <4>3. i \in Nat
        BY <1>2, <1>3
      <4> QED BY <2>1, <4>2, <4>3
    <3>2. ~(q < r) /\ ~(r < q)
      BY <1>4, <1>5, <3>1
    <3> QED BY <1>4, <3>2
  <2>4. \A p \in 1 .. m * size : p \in PlacesOf(pushed, k) <=> Nth(p) = r
    BY <1>8, <1>10, <2>3 DEF PlacesOf
  <2>5. CASE m = 1
    <3>1. PlacesOf(pushed, k) = {r}
      BY <1>4, <1>8, <1>10, <2>4, <2>5 DEF PlacesOf
    <3>2. {n + p : p \in PlacesOf(pushed, k)} = {n + r}
      BY <3>1
    <3> QED BY <2>5, <3>2, FS_Singleton
  <2>6. CASE m = 2
    <3>0. 2 * r - 1 \in 1 .. m * size /\ 2 * r \in 1 .. m * size
      BY <1>4, <1>8, <2>6
    <3>1. PlacesOf(pushed, k) = {2 * r - 1, 2 * r}
      <4>1. PlacesOf(pushed, k) \subseteq 1 .. m * size
        BY <1>10 DEF PlacesOf
      <4>2. \A p \in 1 .. m * size : Nth(p) = r <=> p = 2 * r - 1 \/ p = 2 * r
        BY <1>4, <1>8, <2>6
      <4> QED BY <2>4, <3>0, <4>1, <4>2
    <3>2. {n + p : p \in PlacesOf(pushed, k)} = {n + (2 * r - 1)} \cup {n + 2 * r}
      BY <3>1
    <3>3. n + 2 * r \notin {n + (2 * r - 1)}
      BY <1>4
    <3>4. IsFiniteSet({n + (2 * r - 1)}) /\ Cardinality({n + (2 * r - 1)}) = 1
      BY FS_Singleton
    <3>5. Cardinality({n + (2 * r - 1)} \cup {n + 2 * r}) = Cardinality({n + (2 * r - 1)}) + 1
      BY <3>3, <3>4, FS_AddElement
    <3>6. Cardinality({n + p : p \in PlacesOf(pushed, k)}) = 1 + 1
      BY <3>2, <3>4, <3>5
    <3> QED BY <2>6, <3>6
  <2> QED BY <1>1, <2>5, <2>6
<1> QED BY <1>9, <1>11, <1>12 DEF is, m, pushed

LEMMA ForwardMatches ==
    ASSUME HookInv, NEW d \in Deliveries, Forward(d)
    PROVE  HookInv'
<1>1. CASE LanesOf(d) = {}
  BY <1>1 DEF Forward, HookInv, WorksMatchQueue, Occurrences
<1>2. CASE LanesOf(d) # {}
  <2>1. PICK order \in Ascending(Enqueued(d)) : queue' = queue \o Pushes(d, order)
    BY <1>2 DEF Forward
  <2>2. works' = [x \in Keys \X Lanes |->
                    IF x[2] \in LanesOf(d) /\ \E i \in Enqueued(d) : KeysOf[d][i] = x[1] THEN d ELSE works[x]]
    BY <1>2 DEF Forward
  <2>3. queue \in Seq(Keys) /\ Pushes(d, order) \in Seq(Keys)
    BY <1>2, PushedOf DEF HookInv
  <2>4. queue' \in Seq(Keys)
    BY <2>1, <2>3, AppendedOf
  <2>5. works' \in [Keys \X Lanes -> Deliveries \cup {NoItem}]
    BY <2>2 DEF HookInv
  <2>6. d # NoItem
    BY WebhookAssumption DEF NoItem
  <2>7. ASSUME NEW k \in Keys
        PROVE  Cardinality(PlacesOf(queue', k)) = Cardinality({l \in Lanes : works'[k, l] # NoItem})
    <3>1. Cardinality(PlacesOf(queue, k)) = Cardinality({l \in Lanes : works[k, l] # NoItem})
      BY DEF HookInv, WorksMatchQueue, Occurrences, PlacesOf
    <3>2. \A l \in Lanes : works'[k, l] = IF l \in LanesOf(d) /\ \E i \in Enqueued(d) : KeysOf[d][i] = k
                                          THEN d ELSE works[k, l]
      BY <2>2
    <3>3. CASE ~(\E i \in Enqueued(d) : KeysOf[d][i] = k)
      <4>1. PlacesOf(Pushes(d, order), k) = {}
        BY <1>2, <3>3, PushedOf
      <4>2. PlacesOf(queue', k) = PlacesOf(queue, k)
        BY <2>1, <2>3, <4>1, AppendedOf
      <4>3. \A l \in Lanes : works'[k, l] = works[k, l]
        BY <3>2, <3>3
      <4> QED BY <3>1, <4>2, <4>3
    <3>4. CASE \E i \in Enqueued(d) : KeysOf[d][i] = k
      <4>1. \A l \in Lanes : works[k, l] = NoItem
        BY <3>4 DEF Enqueued
      <4>2. {l \in Lanes : works[k, l] # NoItem} = {}
        BY <4>1
      <4>3. PlacesOf(queue, k) = {}
        <5>1. Cardinality(PlacesOf(queue, k)) = 0
          BY <3>1, <4>2, FS_EmptySet
        <5>2. DOMAIN queue = 1 .. Len(queue) /\ Len(queue) \in Int /\ 1 \in Int
          BY <2>3, LenProperties
        <5>3. IsFiniteSet(1 .. Len(queue)) /\ PlacesOf(queue, k) \subseteq 1 .. Len(queue)
          BY <5>2, FS_Interval DEF PlacesOf
        <5>4. IsFiniteSet(PlacesOf(queue, k))
          BY <5>3, FS_Subset
        <5> QED BY <5>1, <5>4, FS_EmptySet
      <4>4. PlacesOf(queue', k) = {Len(queue) + p : p \in PlacesOf(Pushes(d, order), k)}
        BY <2>1, <2>3, <4>3, AppendedOf
      <4>5. Len(queue) \in Nat
        BY <2>3, LenProperties
      <4>6. Cardinality(PlacesOf(queue', k)) = Cardinality(LanesOf(d))
        BY ZenonT(30), <1>2, <3>4, <4>4, <4>5, PushedOf
      <4>7. {l \in Lanes : works'[k, l] # NoItem} = LanesOf(d)
        BY <2>6, <3>2, <3>4, <4>1, LanesOfAny
      <4> QED BY <4>6, <4>7
    <3> QED BY <3>3, <3>4
  <2> QED BY <2>4, <2>5, <2>7 DEF HookInv, WorksMatchQueue, Occurrences, PlacesOf
<1> QED BY <1>1, <1>2

LEMMA TakeMatches ==
    ASSUME HookInv, NEW w, Take(w)
    PROVE  HookInv'
<1>. DEFINE k == Head(queue)
            l == LaneToTake(k)
            with(h) == {n \in Lanes : works[h, n] # NoItem}
<1>1. /\ queue \in Seq(Keys) /\ queue # <<>> /\ k \in Keys /\ queue' = Tail(queue) /\ queue' \in Seq(Keys)
      /\ works' = [works EXCEPT ![<<k, l>>] = NoItem]
  BY HeadTailProperties DEF Take, HookInv
<1>2. l \in Lanes
  BY DEF LaneToTake, Lanes
<1>. HIDE DEF k, l
<1>3. /\ works' \in [Keys \X Lanes -> Deliveries \cup {NoItem}]
      /\ \A h \in Keys, n \in Lanes : works'[h, n] = IF h = k /\ n = l THEN NoItem ELSE works[h, n]
  BY <1>1, <1>2 DEF HookInv
<1>4. \A h \in Keys : Cardinality(PlacesOf(queue, h)) = Cardinality(with(h))
  BY DEF HookInv, WorksMatchQueue, Occurrences, PlacesOf
<1>5. ASSUME NEW h \in Keys
      PROVE  Cardinality(PlacesOf(queue', h)) = Cardinality({n \in Lanes : works'[h, n] # NoItem})
  <2>1. CASE h # k
    <3>1. {n \in Lanes : works'[h, n] # NoItem} = with(h)
      BY <1>3, <2>1
    <3>2. Cardinality(PlacesOf(queue', h)) = Cardinality(PlacesOf(queue, h))
      BY <1>1, <2>1, PoppedOf DEF k
    <3> QED BY <1>4, <3>1, <3>2
  <2>2. CASE h = k
    <3>1. /\ Cardinality(PlacesOf(queue, k)) = Cardinality(PlacesOf(queue', k)) + 1
          /\ Cardinality(PlacesOf(queue', k)) \in Nat
      BY <1>1, PoppedOf DEF k
    <3>2. IsFiniteSet(with(k)) /\ Cardinality(with(k)) = Cardinality(PlacesOf(queue, k))
      <4>1. with(k) \in SUBSET Lanes
        OBVIOUS
      <4> QED BY <1>1, <1>4, <4>1, TwoLanes
    <3>3. with(k) # {}
      <4>1. ASSUME NEW a, NEW b \in Nat, a = b + 1 PROVE a # 0
        BY <4>1
      <4>2. Cardinality(with(k)) # 0
        BY <3>1, <3>2, <4>1, Zenon
      <4> QED BY <4>2, FS_EmptySet
    <3>4. l \in with(k)
      BY <1>2, <3>3 DEF l, LaneToTake, Lanes
    <3>5. {n \in Lanes : works'[k, n] # NoItem} = with(k) \ {l}
      BY <1>1, <1>2, <1>3
    <3>6. Cardinality(with(k) \ {l}) = Cardinality(with(k)) - 1
      BY <3>2, <3>4, FS_RemoveElement
    <3>7. ASSUME NEW a, NEW b \in Nat, a = b + 1 PROVE b = a - 1
      BY <3>7
    <3>8. Cardinality(PlacesOf(queue', k)) = Cardinality(with(k)) - 1
      BY <3>1, <3>2, <3>7, Zenon
    <3> QED BY <2>2, <3>5, <3>6, <3>8, Zenon
  <2> QED BY <2>1, <2>2
<1> QED BY <1>1, <1>3, <1>5 DEF HookInv, WorksMatchQueue, Occurrences, PlacesOf

\* Of the webhook forwarder (forwarder.rs): a key stands in the queue as often as
\* it has items, for any payloads, any number of workers, and any failures.
THEOREM QueueIsTrue == WebhookInit /\ [][WebhookNext]_hookVars => []WorksMatchQueue
<1>1. WebhookInit => HookInv
  <2>. SUFFICES ASSUME WebhookInit PROVE HookInv
    OBVIOUS
  <2>1. queue = <<>> /\ works = [k \in Keys \X Lanes |-> NoItem]
    BY DEF WebhookInit
  <2>2. <<>> \in Seq(Keys) /\ Len(<<>>) = 0
    BY EmptySeq
  <2>3. DOMAIN queue = {}
    <3>1. DOMAIN <<>> = 1 .. 0
      BY <2>2, LenProperties
    <3> QED BY <2>1, <3>1
  <2>4. \A k \in Keys : {i \in DOMAIN queue : queue[i] = k} = {l \in Lanes : works[k, l] # NoItem}
    BY <2>1, <2>3
  <2> QED BY <2>1, <2>2, <2>4 DEF HookInv, WorksMatchQueue, Occurrences
<1>2. HookInv /\ [WebhookNext]_hookVars => HookInv'
  <2>. SUFFICES ASSUME HookInv, [WebhookNext]_hookVars PROVE HookInv'
    OBVIOUS
  <2>1. UNCHANGED <<queue, works>> => HookInv'
    BY DEF HookInv, WorksMatchQueue, Occurrences
  <2>2. \A w : FindsNothing(w) \/ Listen(w) \/ Leave(w) \/ Succeed(w) \/ Fail(w) => UNCHANGED <<queue, works>>
    BY DEF FindsNothing, Listen, Leave, Succeed, Fail
  <2>3. (\E d \in Deliveries : Redeliver(d)) \/ Close => UNCHANGED <<queue, works>>
    BY DEF Redeliver, Close
  <2>4. UNCHANGED hookVars => UNCHANGED <<queue, works>>
    BY DEF hookVars
  <2> QED BY <2>1, <2>2, <2>3, <2>4, ForwardMatches, TakeMatches DEF WebhookNext, WorkerStep
<1>3. HookInv => WorksMatchQueue
  BY DEF HookInv
<1> QED BY <1>1, <1>2, <1>3, PTL
===============================================================================
