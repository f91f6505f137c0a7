-------------------------------- MODULE Worker --------------------------------
(***************************************************************************)
(* A worker thread of worker.py, with the RetryManager it calls.  A step   *)
(* of a thread is one Redis call or one task execution, together with the  *)
(* local statements around it.                                             *)
(*                                                                         *)
(* The Job object a thread works on is shared with its pool's monitor,     *)
(* which may change its status at any time.                                *)
(***************************************************************************)
EXTENDS JobRecords

CONSTANTS
  Workers,       (* Worker objects, each with its thread                    *)
  MaxRetries,    (* [Jobs -> Int]: max_retries of each job                  *)
  MaxFailures    (* bound: how often the task of one job fails              *)

ASSUME WorkerAssumption ==
  /\ MaxRetries \in [Jobs -> Int]
  /\ MaxFailures \in Nat
  /\ Nil \notin Workers

VARIABLES
  pc,            (* where each thread is                                    *)
  current,       (* current_job: the Job object in hand, or Nil             *)
  pending,       (* id of the job whose acknowledgement is owed, or Nil     *)
  running,       (* _running                                                *)
  (* history, read by properties only *)
  owner,         (* the worker each lease was last delivered to, or Nil     *)
  stolen,        (* jobs that lost a lease to an acknowledgement by someone *)
                 (* it was not delivered to                                 *)
  done,          (* jobs whose task has succeeded                           *)
  failures       (* how often the task of each job has failed; the retry it *)
                 (* leads to carries the number as its stamp                *)

threadVars == <<pc, current, pending>>
leaseHistory == <<owner, stolen>>
taskHistory == <<done, failures>>

PC == {"unborn", "loop", "take", "start", "run", "done", "record", "commit",
       "abandon", "exit", "off"}

WorkerTypeOK ==
  /\ pc \in [Workers -> PC]
  /\ current \in [Workers -> Entry \cup {Nil}]
  /\ pending \in [Workers -> Jobs \cup {Nil}]
  /\ running \in [Workers -> BOOLEAN]
  /\ owner \in [Jobs -> Workers \cup {Nil}]
  /\ stolen \subseteq Jobs
  /\ done \subseteq Jobs
  /\ failures \in [Jobs -> 0..MaxFailures]

(* A thread has a job in hand from the end of take() to the finally block. *)
Busy(w) == pc[w] \in {"start", "run", "done", "record", "commit", "abandon"}

-----------------------------------------------------------------------------
(* while self._running *)
LoopTest(w) ==
  /\ pc[w] = "loop"
  /\ pc' = [pc EXCEPT ![w] = IF running[w] THEN "take" ELSE "exit"]
  /\ UNCHANGED <<redisVars, disruptions, current, pending, leaseHistory, taskHistory>>

Owed(w) == {pending[w]} \ {Nil}

(* What the history says of an acknowledgement by w. *)
NoteAcks(w) == stolen' = stolen \cup {j \in Owed(w) \cap Leased : owner[j] # w}

(* take(): acknowledge the last job and lease the next one.  An exception  *)
(* keeps the acknowledgement for the next round; the script may have run   *)
(* all the same, and then it has leased a job nobody was told about.       *)
Take(w, r, x) ==
  LET job == IF r = "ok" THEN Parsed(x) ELSE Nil IN
  /\ pc[w] = "take"
  /\ Reply(r)
  /\ IF Landed(r)
     THEN /\ AckAndPop(Owed(w), x)
          /\ NoteAcks(w)
          /\ owner' = [j \in Jobs |-> IF j \notin LeasedBy(x) THEN owner[j]
                                      ELSE IF job = Nil THEN Nil ELSE w]
     ELSE x = Nil /\ UNCHANGED <<queueVars, leaseHistory>>
  /\ pending' = IF r = "ok" THEN [pending EXCEPT ![w] = Nil] ELSE pending
  /\ current' = IF job = Nil THEN current
                ELSE [current EXCEPT ![w] = [job EXCEPT !.status = "running"]]
  /\ pc' = [pc EXCEPT ![w] = IF job = Nil THEN "loop" ELSE "start"]
  /\ UNCHANGED <<recordVars, taskHistory>>

(* The first _persist. *)
Start(w, r) ==
  /\ pc[w] = "start"
  /\ Save(current[w], r)
  /\ pc' = [pc EXCEPT ![w] = "run"]
  /\ UNCHANGED <<queueVars, current, pending, leaseHistory, taskHistory>>

(* The task returns. *)
Succeed(w) ==
  /\ pc[w] = "run"
  /\ done' = done \cup {current[w].id}
  /\ current' = [current EXCEPT ![w].status = "done"]
  /\ pc' = [pc EXCEPT ![w] = "done"]
  /\ UNCHANGED <<redisVars, disruptions, pending, leaseHistory, failures>>

(* Mutant of Exhausted: off by one. *)
ExhaustedEarly(e) == e.attempt + 1 >= MaxRetries[e.id]

Exhausted(e) == e.attempt >= MaxRetries[e.id]

(* The task raises an Exception, and handle_failure decides in memory what *)
(* becomes of the job.                                                     *)
Fail(w) ==
  LET job == current[w]
      n == failures[job.id] + 1
      tried == [job EXCEPT !.attempt = @ + 1]
  IN
  /\ pc[w] = "run"
  /\ n <= MaxFailures
  /\ failures' = [failures EXCEPT ![job.id] = n]
  /\ current' = [current EXCEPT ![w] =
                   IF Exhausted(tried) THEN [tried EXCEPT !.status = "dead"]
                   ELSE [tried EXCEPT !.status = "pending", !.stamp = n]]
  /\ pc' = [pc EXCEPT ![w] = "record"]
  /\ UNCHANGED <<redisVars, disruptions, pending, leaseHistory, done>>

(* The task raises what "except Exception" does not catch.  The finally    *)
(* blocks of _loop and _run find nothing to acknowledge; the thread ends.  *)
Abort(w) ==
  /\ pc[w] = "run"
  /\ Disrupt
  /\ current' = [current EXCEPT ![w] = Nil]
  /\ pc' = [pc EXCEPT ![w] = "off"]
  /\ UNCHANGED <<redisVars, pending, leaseHistory, taskHistory>>

(* The Redis call of handle_failure.  Only when it returns is the outcome  *)
(* taken to be recorded.                                                   *)
RecordFailure(w, r) ==
  LET job == current[w] IN
  /\ pc[w] = "record"
  /\ Reply(r)
  /\ IF ~Landed(r) THEN UNCHANGED recordVars
     ELSE IF Exhausted(job) THEN AddDead(job) ELSE AddDelayed(job)
  /\ pc' = [pc EXCEPT ![w] = IF r = "ok" THEN "commit" ELSE "abandon"]
  /\ UNCHANGED <<queueVars, current, pending, leaseHistory, taskHistory>>

(* Mutant of Finish: the lease is given back whatever happened. *)
FinishAlwaysAcks(w, r) ==
  /\ pc[w] \in {"done", "commit", "abandon"}
  /\ Save(current[w], r)
  /\ pending' = [pending EXCEPT ![w] = current[w].id]
  /\ current' = [current EXCEPT ![w] = Nil]
  /\ pc' = [pc EXCEPT ![w] = "loop"]
  /\ UNCHANGED <<queueVars, leaseHistory, taskHistory>>

(* Mutant of Finish: the acknowledgement is forgotten. *)
FinishNeverAcks(w, r) ==
  /\ pc[w] \in {"done", "commit", "abandon"}
  /\ Save(current[w], r)
  /\ current' = [current EXCEPT ![w] = Nil]
  /\ pc' = [pc EXCEPT ![w] = "loop"]
  /\ UNCHANGED <<queueVars, pending, leaseHistory, taskHistory>>

(* The last _persist and the finally block. *)
Finish(w, r) ==
  /\ pc[w] \in {"done", "commit", "abandon"}
  /\ Save(current[w], r)
  /\ pending' = [pending EXCEPT ![w] =
                   IF pc[w] = "abandon" THEN Nil ELSE current[w].id]
  /\ current' = [current EXCEPT ![w] = Nil]
  /\ pc' = [pc EXCEPT ![w] = "loop"]
  /\ UNCHANGED <<queueVars, leaseHistory, taskHistory>>

(* The finally block of _run.  _release swallows every exception. *)
Release(w, r) ==
  /\ pc[w] = "exit"
  /\ r \in {"ok", "refused"}
  /\ IF Owed(w) = {} THEN r = "ok" /\ UNCHANGED disruptions ELSE Reply(r)
  /\ IF Landed(r)
     THEN Forget(Owed(w)) /\ NoteAcks(w)
     ELSE UNCHANGED <<leaseKeys, stolen>>
  /\ pending' = [pending EXCEPT ![w] = Nil]
  /\ pc' = [pc EXCEPT ![w] = "off"]
  /\ UNCHANGED <<queue, recordVars, current, owner, taskHistory>>

(* One step of the thread of w. *)
WorkerStep(w) ==
  \/ LoopTest(w)
  \/ \E r \in Replies, x \in queue \cup {Nil} : Take(w, r, x)
  \/ \E r \in Replies : Start(w, r)
  \/ Succeed(w)
  \/ Fail(w)
  \/ Abort(w)
  \/ \E r \in Replies : RecordFailure(w, r)
  \/ \E r \in Replies : Finish(w, r)
  \/ \E r \in Replies : Release(w, r)
=============================================================================
