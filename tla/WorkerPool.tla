------------------------------ MODULE WorkerPool ------------------------------
(***************************************************************************)
(* A worker process: the WorkerPool of worker_pool.py with its monitor     *)
(* thread, and the shutdown of worker_main.py.                             *)
(*                                                                         *)
(* last_heartbeat is only written between jobs and after failed calls, so  *)
(* a task longer than HEARTBEAT_TIMEOUT, a slow Redis or a paused process  *)
(* makes it stale at any point of a thread's life: staleness is not        *)
(* recorded, the monitor may find any thread of its pool stalled.          *)
(***************************************************************************)
EXTENDS Worker

CONSTANTS
  Pods,          (* worker processes                                        *)
  PodOf,         (* [Workers -> Pods]                                       *)
  Spares         (* Worker objects a pool does not start with; they bound   *)
                 (* how many a process can create                           *)

ASSUME WorkerPoolAssumption ==
  /\ PodOf \in [Workers -> Pods]
  /\ Spares \subseteq Workers

VARIABLES
  pool,          (* self.workers of each process                            *)
  monitor,       (* where the monitor thread of each process is             *)
  draining       (* the processes that have handled a SIGTERM               *)

poolVars == <<pool, monitor, draining>>

WorkersOf(p) == {w \in Workers : PodOf[w] = p}

(* What check_once is doing: the worker found stalled and the Job object   *)
(* held.  While the thread works on that object, object is Nil and         *)
(* current[worker] is the object; when it lets go the monitor keeps it.    *)
Idle == [at |-> "idle", worker |-> Nil, object |-> Nil]
Monitoring ==
  [at : {"save", "requeue", "replace"}, worker : Workers, object : Entry \cup {Nil}]

WorkerPoolTypeOK ==
  /\ pool \in [Pods -> SUBSET Workers]
  /\ monitor \in [Pods -> Monitoring \cup {Idle}]
  /\ draining \subseteq Pods

WorkerPoolInit ==
  /\ pc = [w \in Workers |-> IF w \in Spares THEN "unborn" ELSE "loop"]
  /\ current = [w \in Workers |-> Nil]
  /\ pending = [w \in Workers |-> Nil]
  /\ running = [w \in Workers |-> TRUE]
  /\ owner = [j \in Jobs |-> Nil]
  /\ stolen = {}
  /\ done = {}
  /\ failures = [j \in Jobs |-> 0]
  /\ pool = [p \in Pods |-> WorkersOf(p) \ Spares]
  /\ monitor = [p \in Pods |-> Idle]
  /\ draining = {}

-----------------------------------------------------------------------------
(* A thread that sets current_job to None leaves its Job object to the     *)
(* monitor, if the monitor is holding it.                                  *)
LeaveObject(w) ==
  monitor' = [p \in Pods |->
                IF /\ monitor[p].worker = w
                   /\ monitor[p].at \in {"save", "requeue"}
                   /\ monitor[p].object = Nil
                   /\ current'[w] = Nil
                THEN [monitor[p] EXCEPT !.object = current[w]]
                ELSE monitor[p]]

ThreadStep(w) ==
  /\ WorkerStep(w)
  /\ LeaveObject(w)
  /\ UNCHANGED <<running, pool, draining>>

-----------------------------------------------------------------------------
(* check_once.  An exception of requeue ends the pass: the worker is not   *)
(* replaced and the next pass starts over.                                 *)

Held(p) == IF monitor[p].object # Nil THEN monitor[p].object
           ELSE current[monitor[p].worker]

Unborn(p) == {w \in WorkersOf(p) : pc[w] = "unborn"}

(* Mutant of FindStalled: the string "PENDING" for JobStatus.PENDING. *)
FindStalledRaw(p, w) ==
  /\ monitor[p] = Idle
  /\ w \in pool[p]
  /\ Unborn(p) # {}
  /\ monitor' = [monitor EXCEPT ![p] =
                   [at |-> IF Busy(w) THEN "save" ELSE "replace",
                    worker |-> w, object |-> Nil]]
  /\ current' = IF Busy(w) THEN [current EXCEPT ![w].status = "PENDING"]
                ELSE current
  /\ UNCHANGED <<redisVars, disruptions, pc, pending, running, leaseHistory,
                 taskHistory, pool, draining>>

(* A stale heartbeat.  The object in hand is marked PENDING under the feet *)
(* of the thread.                                                          *)
FindStalled(p, w) ==
  /\ monitor[p] = Idle
  /\ w \in pool[p]
  /\ Unborn(p) # {}
  /\ monitor' = [monitor EXCEPT ![p] =
                   [at |-> IF Busy(w) THEN "save" ELSE "replace",
                    worker |-> w, object |-> Nil]]
  /\ current' = IF Busy(w) THEN [current EXCEPT ![w].status = "pending"]
                ELSE current
  /\ UNCHANGED <<redisVars, disruptions, pc, pending, running, leaseHistory,
                 taskHistory, pool, draining>>

SaveStalled(p, r) ==
  /\ monitor[p].at = "save"
  /\ Save(Held(p), r)
  /\ monitor' = [monitor EXCEPT ![p].at = "requeue"]
  /\ UNCHANGED <<queueVars, threadVars, running, leaseHistory, taskHistory,
                 pool, draining>>

RequeueStalled(p, r) ==
  /\ monitor[p].at = "requeue"
  /\ Reply(r)
  /\ IF Landed(r) THEN Requeue(Held(p)) ELSE UNCHANGED queueVars
  /\ monitor' = [monitor EXCEPT ![p] =
                   IF r = "ok" THEN [@ EXCEPT !.at = "replace", !.object = Nil]
                   ELSE Idle]
  /\ UNCHANGED <<recordVars, threadVars, running, leaseHistory, taskHistory,
                 pool, draining>>

(* stop() only asks: the old thread goes on until it next tests _running.  *)
(* If scale_down took the old worker out of the list meanwhile, its slot   *)
(* is gone, and the IndexError leaves the new thread outside the list, or  *)
(* the slot is another worker's by now.                                    *)
Replace(p, new) ==
  LET old == monitor[p].worker IN
  /\ monitor[p].at = "replace"
  /\ new \in Unborn(p)
  /\ running' = [running EXCEPT ![old] = FALSE]
  /\ pc' = [pc EXCEPT ![new] = "loop"]
  /\ \/ \E slot \in IF old \in pool[p] THEN {old} ELSE pool[p] :
           pool' = [pool EXCEPT ![p] = (@ \ {slot}) \cup {new}]
     \/ old \notin pool[p] /\ UNCHANGED pool
  /\ monitor' = [monitor EXCEPT ![p] = Idle]
  /\ UNCHANGED <<redisVars, disruptions, current, pending, leaseHistory,
                 taskHistory, draining>>

(* renew_leases, which the monitor thread calls between two passes.        *)
RenewLeases(p) ==
  /\ monitor[p] = Idle
  /\ Renew({current[w].id : w \in {v \in pool[p] : Busy(v)}})
  /\ UNCHANGED <<recordVars, disruptions, threadVars, running, leaseHistory,
                 taskHistory, poolVars>>

-----------------------------------------------------------------------------
ScaleUp(p, new) ==
  /\ new \in Unborn(p)
  /\ pc' = [pc EXCEPT ![new] = "loop"]
  /\ pool' = [pool EXCEPT ![p] = @ \cup {new}]
  /\ UNCHANGED <<redisVars, disruptions, current, pending, running,
                 leaseHistory, taskHistory, monitor, draining>>

(* The worker leaves the pool at once, and with it the renewals. *)
ScaleDown(p, w) ==
  /\ Disrupt
  /\ w \in pool[p]
  /\ pool' = [pool EXCEPT ![p] = @ \ {w}]
  /\ running' = [running EXCEPT ![w] = FALSE]
  /\ UNCHANGED <<redisVars, threadVars, leaseHistory, taskHistory, monitor,
                 draining>>

(* SIGTERM: every worker then in the pool is asked to stop.  The monitor   *)
(* thread is not.                                                          *)
Drain(p) ==
  /\ Disrupt
  /\ p \notin draining
  /\ draining' = draining \cup {p}
  /\ running' = [w \in Workers |-> w \notin pool[p] /\ running[w]]
  /\ UNCHANGED <<redisVars, threadVars, leaseHistory, taskHistory, pool, monitor>>

(* A process ends with all its threads, which are daemons, and Kubernetes  *)
(* starts another in its place.                                            *)
Restart(p) ==
  /\ pc' = [w \in Workers |-> IF w \notin WorkersOf(p) THEN pc[w]
                              ELSE IF w \in Spares THEN "unborn" ELSE "loop"]
  /\ current' = [w \in Workers |-> IF w \in WorkersOf(p) THEN Nil ELSE current[w]]
  /\ pending' = [w \in Workers |-> IF w \in WorkersOf(p) THEN Nil ELSE pending[w]]
  /\ running' = [w \in Workers |-> w \in WorkersOf(p) \/ running[w]]
  /\ pool' = [pool EXCEPT ![p] = WorkersOf(p) \ Spares]
  /\ monitor' = [monitor EXCEPT ![p] = Idle]
  /\ draining' = draining \ {p}
  /\ UNCHANGED <<redisVars, leaseHistory, taskHistory>>

(* After the join() of every worker, each bounded by the grace period, so  *)
(* that a worker may still be busy. *)
Exit(p) == p \in draining /\ Restart(p) /\ UNCHANGED disruptions

Crash(p) == Disrupt /\ Restart(p)

PodStep(p) ==
  \/ \E w \in Workers : FindStalled(p, w)
  \/ \E r \in Replies : SaveStalled(p, r) \/ RequeueStalled(p, r)
  \/ \E w \in Workers : Replace(p, w) \/ ScaleUp(p, w) \/ ScaleDown(p, w)
  \/ RenewLeases(p)
  \/ Drain(p)
  \/ Exit(p)
  \/ Crash(p)
=============================================================================
