----------------------------- MODULE MCGateway -----------------------------
(* Model-checking instance of Gateway: the databases the daemon starts on.  *)
EXTENDS Gateway, TLC

CONSTANTS n1, n2, n3, h1, o1, a1, v1

\* One user in one group, one service; the group is allowed on the service.
Granted ==
    [users |-> {[id |-> 1, name |-> n1, ip |-> a1]},
     userGroups |-> {[id |-> 1, name |-> n2, lan |-> FALSE]},
     userMembers |-> {[member |-> 1, group |-> 1]},
     services |-> {[id |-> 1, name |-> n1, hostname |-> h1, origin |-> o1,
                    ip |-> v1, ports |-> {}]},
     serviceGroups |-> {},
     serviceMembers |-> {},
     rules |-> {[id |-> 1, subject |-> Ref("user_group", 1),
                 object |-> Ref("service", 1), action |-> "allow", updated |-> 1]},
     seq |-> [t \in Tables |-> IF t = "service_groups" THEN 0 ELSE 1],
     clock |-> 1]
GrantedOnly == {Granted}

MCMaxId == [t \in Tables |-> IF t \in {"user_groups", "service_groups"} THEN 1 ELSE 2]

Symmetry == Permutations(Requests) \cup Permutations(Conns)
=============================================================================
