------------------------------ MODULE JobRecords ------------------------------
(***************************************************************************)
(* The Redis keys beside the queue: the delayed queue, the dead letter     *)
(* queue and the status records, with the operations of delayed_queue.py,  *)
(* dead_letter_queue.py and job_store.py on them, and the reply a Redis    *)
(* call may get.                                                           *)
(***************************************************************************)
EXTENDS PriorityQueue

CONSTANT MaxDisruptions   (* bound: failed replies, crashes, shutdowns and  *)
                          (* scale-downs in one behaviour                   *)

ASSUME JobRecordsAssumption == MaxDisruptions \in Nat

VARIABLES
  delayed,       (* "delayed_queue": the entries waiting for their retry    *)
  dlq,           (* "dead_letter_queue": the entries given up               *)
  record,        (* "job:{id}": the status last saved, "none" before that   *)
  disruptions    (* how many of MaxDisruptions have happened                *)

recordVars == <<delayed, dlq, record>>
redisVars == <<queueVars, recordVars>>

JobRecordsTypeOK ==
  /\ delayed \subseteq Entry
  /\ dlq \subseteq Entry
  /\ record \in [Jobs -> Status \cup {"none"}]
  /\ disruptions \in 0..MaxDisruptions

JobRecordsInit ==
  /\ delayed = {}
  /\ dlq = {}
  /\ record = [j \in Jobs |-> "none"]
  /\ disruptions = 0

DelayedIds == {e.id : e \in delayed}
DeadIds == {e.id : e \in dlq}

-----------------------------------------------------------------------------
Disrupt == disruptions < MaxDisruptions /\ disruptions' = disruptions + 1

(* The client makes one attempt with a timeout.  A call is answered, or is *)
(* refused before Redis applied it, or is applied and its answer lost; the *)
(* last two raise the same exception.                                      *)
Replies == {"ok", "refused", "lost"}

Reply(r) == IF r = "ok" THEN UNCHANGED disruptions ELSE Disrupt

Landed(r) == r # "refused"

(* DelayedQueue.add and DeadLetterQueue.add. *)
AddDelayed(e) == delayed' = delayed \cup {e} /\ UNCHANGED <<dlq, record>>

AddDead(e) == dlq' = dlq \cup {e} /\ UNCHANGED <<delayed, record>>

(* JobStore.save swallows every exception, so a caller cannot tell a lost  *)
(* answer from a good one: r is "ok" or "refused".                         *)
Save(e, r) ==
  /\ r \in {"ok", "refused"}
  /\ Reply(r)
  /\ record' = IF Landed(r) THEN [record EXCEPT ![e.id] = e.status] ELSE record
  /\ UNCHANGED <<delayed, dlq>>
=============================================================================
