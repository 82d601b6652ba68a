------------------------------- MODULE MCDaemon -------------------------------
(***************************************************************************)
(* Small instances of Daemon for TLC.  Two keys about one pull request     *)
(* (rev, fix) and the key admit_work makes for reviewing it (adm), the key *)
(* of repair_reviewer (rep), one issue for a planner (plan), one for a     *)
(* worker (work), and an /enqueue key of a type no runner handles (misc).  *)
(***************************************************************************)
EXTENDS Daemon, TLC

TypeOfKey == [plan |-> "planner", work |-> "worker", rev |-> "reviewer", adm |-> "reviewer",
              rep |-> "reviewer", fix |-> "fixer", misc |-> "other"]
TargetOfKey == [plan |-> "issue1", work |-> "issue2", rev |-> "pr1", adm |-> "pr1",
                rep |-> "project", fix |-> "pr1", misc |-> "none"]
PriorityOfKey == [plan |-> 10, work |-> 50, rev |-> 1, adm |-> 1, rep |-> 50, fix |-> 2, misc |-> 1]

MCKeyType == [k \in Keys |-> TypeOfKey[k]]
MCKeyTarget == [k \in Keys |-> TargetOfKey[k]]
MCKeyPriority == [k \in Keys |-> PriorityOfKey[k]]

\* Pipelines are interchangeable, and so are handlers (safety runs only).
Symmetry == Permutations(Pipes) \cup Permutations(Handlers)

=============================================================================
