---------------------------- MODULE MCOrionQueue ----------------------------
(* Instances of OrionQueue: up to two jobs, and workers named after the    *)
(* process they belong to.                                                 *)
EXTENDS OrionQueue, TLC

CONSTANTS j1, j2, a1, a2, a3, b1, a, b, s1

MCPodOf == [w \in Workers |-> IF w = b1 THEN b ELSE a]
MCScore == [j \in Jobs |-> IF j = j1 THEN 2 ELSE 1]
OneRetry == [j \in Jobs |-> 2]
NoRetry == [j \in Jobs |-> 1]

(* Processes and workers are alike as far as PodOf does not tell them      *)
(* apart: a renaming that keeps it leaves the system as it was.            *)
PodsAlike ==
  {f \in Permutations(Pods \cup Workers) :
     \A w \in Workers : f[w] \in Workers /\ PodOf[f[w]] = f[PodOf[w]]}
=============================================================================
