------------------------------ MODULE MCAdmin ------------------------------
(* Model-checking instance of AdminApi. *)
EXTENDS AdminApi, TLC

CONSTANTS v1, n1, h1

MCMaxId == [t \in Tables |-> 1]
MCAddrs == 0..6
MCDefault == [n \in Names |-> h1]
MCLower == [k \in {"host", "container", "Container"} |->
                IF k = "Container" THEN "container" ELSE k]
MCOrigins ==
    {Spec("host", NoText, NoText), Spec("container", v1, n1), Spec("container", v1, NoText)}
Same == [name |-> {}, hostname |-> {}, ip |-> {}, kind |-> {}, value |-> {}, network |-> {},
         ports |-> {}]
MCUpdates ==
    {[Same EXCEPT !.kind = {"host"}, !.value = {NoText}],
     [Same EXCEPT !.kind = {"container"}, !.value = {v1}],
     [Same EXCEPT !.kind = {"Container"}, !.value = {v1}],
     [Same EXCEPT !.ports = {{}}],
     [Same EXCEPT !.ip = {2}]}
Symmetry == Permutations(Requests) \cup Permutations(Names)
=============================================================================
