----------------------------- MODULE MCIpAlloc -----------------------------
(* Model-checking instance of IpAlloc: every subnet of a small space.       *)
EXTENDS IpAlloc

AllPrefixes == [addr : 0 .. 2 ^ Width - 1, bits : 0 .. Width]
=============================================================================
