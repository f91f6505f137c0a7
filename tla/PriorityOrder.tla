----------------------------- MODULE PriorityOrder -----------------------------
(***************************************************************************)
(* RedisPriorityQueue.score and the order jobs are popped in.  A score is  *)
(* a double: the priority minus the submit time, divided by 1e12 to stay   *)
(* below one.  Between two doubles of the size of the priority there is a  *)
(* gap, and submissions that fall in the same gap cannot be told apart: a  *)
(* tenth of a millisecond for LOW, 4 ms for CRITICAL, two minutes for a    *)
(* priority of a million.                                                  *)
(***************************************************************************)
EXTENDS QueueClient

CONSTANTS
  Priority,      (* [Jobs -> Int]                                           *)
  SubmitTime,    (* [Jobs -> Nat]: submit_time, as a number                 *)
  Scale,         (* 1e12: a unit of priority, in units of time              *)
  Grid           (* [Jobs -> Nat]: the distance between the doubles around  *)
                 (* the score of the job                                    *)

Exact(j) == Priority[j] * Scale - SubmitTime[j]

(* To the nearest multiple of g, of two equally near ones the even one.    *)
(* (The quotient is rounded before, to a grid finer by some nine digits.)  *)
Nearest(v, g) ==
  LET below == v \div g
      over == v % g
  IN IF 2 * over < g \/ (2 * over = g /\ below % 2 = 0)
     THEN below * g ELSE (below + 1) * g

(* Mutant of score: no tiebreaker. *)
ScoreOfPriorityOnly(j) == Nearest(Priority[j] * Scale, Grid[j])

score(j) == Nearest(Exact(j), Grid[j])

(* Time stays clear of the next priority, as it does for 30000 years.      *)
ASSUME OrderAssumption ==
  /\ Priority \in [Jobs -> Int]
  /\ SubmitTime \in [Jobs -> Nat]
  /\ Scale \in Nat
  /\ Grid \in [Jobs -> Nat \ {0}]
  /\ \A i, j \in Jobs : Priority[i] = Priority[j] => Grid[i] = Grid[j]
  /\ \A i, j \in Jobs : 2 * SubmitTime[i] + Grid[i] + Grid[j] < 2 * Scale
  /\ Score = [j \in Jobs |-> score(j)]

Members == {x.member : x \in queue}

(* "Priority first; within a priority, earlier submissions sort higher":   *)
(* an entry that leaves the queue while another stays has the higher       *)
(* priority, or the same and was not submitted later by more than the gap, *)
(* however often either was leased, requeued and recovered.                *)
PopsInOrder ==
  [][\A e, f \in Members :
       e \notin Members' /\ f \in Members' =>
         \/ Priority[e.id] > Priority[f.id]
         \/ /\ Priority[e.id] = Priority[f.id]
            /\ SubmitTime[e.id] <= SubmitTime[f.id] + Grid[e.id]]_queueVars
=============================================================================
