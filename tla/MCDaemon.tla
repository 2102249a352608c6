------------------------------ MODULE MCDaemon ------------------------------
(* Model-checking instance of Daemon. *)
EXTENDS Daemon

CONSTANTS o1, o2
MCKind == [o \in Origins |-> IF o = o1 THEN "container" ELSE "hostname"]
=============================================================================
