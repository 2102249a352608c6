---------------------------- MODULE MCUdpProxy ----------------------------
(* Model-checking instance of UdpProxy. *)
EXTENDS UdpProxy, TLC

Symmetry ==
    UNION {Permutations(Keys), Permutations(Endpoints),
           Permutations(Handlers), Permutations(Sessions)}
=============================================================================
