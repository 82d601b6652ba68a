------------------------------ MODULE DepGraph ------------------------------
(***************************************************************************)
(* The dependency graph of depgraph.rs: which tracked issues are ready,    *)
(* what blocks the others, and the cycles among them.  build is one step;  *)
(* the depth-first search for cycles is a step for every call, every edge  *)
(* looked at and every return.  An issue reference is its place in the     *)
(* order of ref_less; 0 is a reference without a number.                   *)
(***************************************************************************)
EXTENDS Integers, FiniteSets, Sequences

CONSTANTS
    MaxRef,   \* references 1 .. MaxRef
    MaxDeps   \* dependencies of an issue

ASSUME DepGraphAssumption == MaxRef \in Nat /\ MaxDeps \in Nat

Refs   == 1 .. MaxRef
States == {"open", "completed", "not_planned", "unknown"}

VARIABLES
    graph,  \* what build makes of the snapshot
    dfs     \* detect_cycles

graphVars == <<graph, dfs>>

LeastIn(S) == CHOOSE x \in S : \A y \in S : x <= y

Blocker(ref, state) == [issue |-> ref, reTriage |-> state = "not_planned",
                        unreachable |-> state = "unknown"]

NoSearch == [visited |-> {}, stack |-> <<>>, left |-> [r \in Refs |-> {}], cycles |-> {}]
NoGraph == [tracked |-> {}, ready |-> {}, blockers |-> [r \in Refs |-> {}],
            edges |-> [r \in Refs |-> {}]]

DepGraphInit == graph = NoGraph /\ dfs = NoSearch

DepGraphTypeOK ==
    /\ graph \in [tracked : SUBSET Refs, ready : SUBSET Refs,
                  blockers : [Refs -> SUBSET [issue : Refs, reTriage : BOOLEAN,
                                              unreachable : BOOLEAN]],
                  edges : [Refs -> SUBSET graph.tracked]]
    /\ dfs \in [visited : SUBSET Refs, stack : Seq(graph.tracked),
                left : [Refs -> SUBSET Refs], cycles : SUBSET Seq(graph.tracked)]

------------------------------------------------------------------------------
(* build *)

\* The dependencies that keep an issue from being ready: all but the completed.
Unsatisfied(deps, state) == {Blocker(r, state[r]) : r \in {d \in deps \ {0} : state[d] # "completed"}}

\* Only a dependency that is tracked itself can close a cycle.
Edges(tracked, blockers) ==
    [r \in Refs |-> {b.issue : b \in {x \in blockers[r] : ~x.unreachable /\ x.issue \in tracked}}]

GraphOf(tracked, blockedBy, state) ==
    LET blockers == [r \in Refs |-> IF r \in tracked THEN Unsatisfied(blockedBy[r], state) ELSE {}]
    IN [tracked |-> tracked, ready |-> {r \in tracked : blockers[r] = {}},
        blockers |-> blockers, edges |-> Edges(tracked, blockers)]

DepsOf == {D \in SUBSET (0 .. MaxRef) : Cardinality(D) <= MaxDeps}

Build == /\ graph = NoGraph
         /\ \E tracked \in SUBSET Refs, state \in [Refs -> States] :
              \E blockedBy \in [tracked -> DepsOf] :
                 graph' = GraphOf(tracked, [r \in Refs |-> IF r \in tracked THEN blockedBy[r] ELSE {}], state)
         /\ UNCHANGED dfs

------------------------------------------------------------------------------
(* detect_cycles *)

Top      == dfs.stack[Len(dfs.stack)]
OnStack(r) == \E i \in DOMAIN dfs.stack : dfs.stack[i] = r
Unvisited == graph.tracked \ dfs.visited

Enter(r, left) == [visited |-> dfs.visited \cup {r}, stack |-> Append(dfs.stack, r),
                   left |-> [left EXCEPT ![r] = graph.edges[r]], cycles |-> dfs.cycles]

\* The nodes of the stack from index i on, rotated to begin at the least: no
\* node is on the stack twice, so this is the least rotation.
WholeStack(i) == SubSeq(dfs.stack, 1, Len(dfs.stack))
Segment(i) == SubSeq(dfs.stack, i, Len(dfs.stack))
Rotation(c, k) == [j \in 1 .. Len(c) |-> IF j + k - 1 <= Len(c) THEN c[j + k - 1]
                                         ELSE c[j + k - 1 - Len(c)]]
Canonical(c) == Rotation(c, CHOOSE k \in DOMAIN c : \A j \in DOMAIN c : c[k] <= c[j])

\* The outer loop visits the least tracked issue not visited yet.
RootsUnblocking == {r \in Unvisited : \A s \in graph.tracked : r \notin graph.edges[s]}
Roots == Unvisited
Begin == /\ graph # NoGraph /\ dfs.stack = <<>> /\ Roots # {}
         /\ dfs' = Enter(LeastIn(Roots), dfs.left)
         /\ UNCHANGED graph

Look == /\ dfs.stack # <<>> /\ dfs.left[Top] # {}
        /\ LET next == LeastIn(dfs.left[Top])
               rest == [dfs.left EXCEPT ![Top] = @ \ {next}]
           IN IF OnStack(next)
              THEN \E i \in DOMAIN dfs.stack :
                      /\ dfs.stack[i] = next
                      /\ dfs' = [dfs EXCEPT !.left = rest, !.cycles = @ \cup {Canonical(Segment(i))}]
              ELSE IF next \notin dfs.visited
              THEN dfs' = Enter(next, rest)
              ELSE dfs' = [dfs EXCEPT !.left = rest]
        /\ UNCHANGED graph

Return == /\ dfs.stack # <<>> /\ dfs.left[Top] = {}
          /\ dfs' = [dfs EXCEPT !.stack = SubSeq(@, 1, Len(@) - 1)]
          /\ UNCHANGED graph

DepGraphNext == Build \/ Begin \/ Look \/ Return
DepGraphSpec == DepGraphInit /\ [][DepGraphNext]_graphVars

------------------------------------------------------------------------------
(* Properties *)

\* The reference definition: m is in every set that holds the successors of n
\* and their successors.
Reaches(n, m) ==
    \A S \in SUBSET graph.tracked :
        (graph.edges[n] \subseteq S /\ \A k \in S : graph.edges[k] \subseteq S) => m \in S

Finished == graph # NoGraph /\ dfs.stack = <<>> /\ Roots = {}

\* Issues that wait for each other are reported: of every knot of dependencies
\* at least one cycle is found, so a coordinator that waits for the ready set is
\* told why it will stay empty (depgraph.rs:268-316; not every cycle is found).
KnotsAreReported ==
    Finished => \A n \in graph.tracked :
                   Reaches(n, n) => \E c \in dfs.cycles : \A i \in DOMAIN c : Reaches(n, c[i]) /\ Reaches(c[i], n)

\* What is reported is a cycle: each issue in it waits for the next, and the
\* last for the first (depgraph.rs:289-294, canonicalize_cycle).
IsCycle(c) ==
    /\ Len(c) > 0
    /\ \A i \in 1 .. Len(c) : c[i] \in graph.tracked
    /\ \A i \in 1 .. Len(c) - 1 : c[i + 1] \in graph.edges[c[i]]
    /\ c[1] \in graph.edges[c[Len(c)]]
CyclesAreReal == \A c \in dfs.cycles : IsCycle(c)
==============================================================================
