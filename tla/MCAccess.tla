------------------------------ MODULE MCAccess ------------------------------
(* Model-checking instance of Access and RuleLoop. *)
EXTENDS RuleLoop

MCMaxId ==
    [t \in Tables |-> IF t \in {"user_groups", "service_groups"} THEN 1 ELSE 2]
Symmetry == Permutations(Names) \cup Permutations(Addrs) \cup Permutations(Hostnames)
=============================================================================
