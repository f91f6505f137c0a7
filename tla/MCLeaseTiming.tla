---------------------------- MODULE MCLeaseTiming ----------------------------
(* Instances of LeaseTiming: two processes with a worker each.              *)
EXTENDS LeaseTiming, TLC

CONSTANTS j1, j2, a1, b1, a, b, q1

MCPodOf == [w \in Workers |-> IF w = b1 THEN b ELSE a]
MCScore == [j \in Jobs |-> 1]
=============================================================================
