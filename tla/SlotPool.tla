------------------------------- MODULE SlotPool -------------------------------
(***************************************************************************)
(* What the scheduler promises about concurrency: a pool of Limit slots.   *)
(* Items take a free slot one at a time, none takes a slot when all are    *)
(* held, and any set of held slots may be given back at once (a run that   *)
(* ends, a loop that is paused or stopped, stop_all).                      *)
(***************************************************************************)
EXTENDS Naturals, FiniteSets

CONSTANTS Members, Limit
VARIABLE held

Init == held = {}

Take(i) == /\ i \notin held
           /\ Cardinality(held) < Limit
           /\ held' = held \cup {i}

GiveBack(S) == held' = held \ S

Next == (\E i \in Members : Take(i)) \/ (\E S \in SUBSET held : GiveBack(S))

Spec == Init /\ [][Next]_held

=============================================================================
