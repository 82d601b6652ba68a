------------------------------ MODULE MCNetwork ------------------------------
(***************************************************************************)
(* Two machines: a, with a daemon and a command line, and b with a daemon. *)
(***************************************************************************)
EXTENDS Network

MCHostOf == [c \in Clients |-> IF c = "daemonB" THEN "b" ELSE "a"]
MCNameOf == [h \in Hosts |-> h]

=============================================================================
