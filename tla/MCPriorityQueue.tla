--------------------------- MODULE MCPriorityQueue ---------------------------
(* The queue under its most general client, on a small instance: three   *)
(* jobs of one priority, two of which were submitted so close to each other *)
(* that they have the same score, and one entry of a lower priority whose   *)
(* JSON carries no id.                                                      *)
EXTENDS PriorityOrder, TLC

CONSTANTS j1, j2, j3, junk, c1

MCJobs == {j1, j2, j3, junk}
MCPriority == [j \in MCJobs |-> IF j = junk THEN 1 ELSE 2]
MCSubmitTime == (j1 :> 3) @@ (j2 :> 5) @@ (j3 :> 9) @@ (junk :> 1)
MCGrid == [j \in MCJobs |-> IF j = junk THEN 1 ELSE 4]
MCScore == [j \in MCJobs |-> score(j)]
MCPushable ==
  [id : {j1, j2}, attempt : {0, 1}, status : {"pending"}, stamp : {0}]
    \cup [id : {j3, junk}, attempt : {0}, status : {"pending"}, stamp : {0}]

=============================================================================
