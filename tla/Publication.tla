---------------------------- MODULE Publication ----------------------------
(***************************************************************************)
(* What the daemon promises its administrator, without listeners, queries, *)
(* phases or restarts: there is a database and there is a policy in force. *)
(* The database changes; the policy in force is replaced, at once and as a *)
(* whole, by what the database says at that moment, never by a mixture of  *)
(* moments and never by an earlier one; and it catches up.                 *)
(***************************************************************************)
VARIABLES
    db,        \* the tables, as far as decisions depend on them
    inForce    \* what connections are checked against

Init == inForce = db

Change == inForce' = inForce
Adopt == inForce' = db /\ db' = db

Safety == Init /\ [][Change \/ Adopt]_<<db, inForce>>
CatchesUp == []<>(inForce = db)

Spec == Safety /\ CatchesUp
=============================================================================
