------------------------------ MODULE OrionQueue ------------------------------
(***************************************************************************)
(* The whole of Orion: the API that accepts jobs, the worker processes,    *)
(* the scheduler that brings retries back and the reaper that brings back  *)
(* the jobs of dead workers, around one Redis.                             *)
(***************************************************************************)
EXTENDS WorkerPool

CONSTANTS
  Schedulers,    (* scheduler processes; the deployment runs one            *)
  Lapsing        (* whether a lease may run out at all                      *)

ASSUME OrionAssumption == Lapsing \in BOOLEAN

VARIABLES
  api,           (* how far the /submit of each job has come                *)
  scheduler      (* the poll thread of each scheduler                       *)

vars == <<redisVars, disruptions, threadVars, running, leaseHistory,
          taskHistory, poolVars, api, scheduler>>

(* todo: the due entries poll has read and not dealt with; pushed: the one *)
(* it has pushed and not yet removed.                                      *)
Polling == [alive : BOOLEAN, todo : SUBSET Entry, pushed : Entry \cup {Nil}]
Rested == [alive |-> TRUE, todo |-> {}, pushed |-> Nil]

TypeOK ==
  /\ QueueTypeOK
  /\ JobRecordsTypeOK
  /\ WorkerTypeOK
  /\ WorkerPoolTypeOK
  /\ api \in [Jobs -> {"new", "saved", "accepted", "failed"}]
  /\ scheduler \in [Schedulers -> Polling]

Init ==
  /\ QueueInit
  /\ JobRecordsInit
  /\ WorkerPoolInit
  /\ api = [j \in Jobs |-> "new"]
  /\ scheduler = [s \in Schedulers |-> Rested]

workerVars == <<threadVars, running, leaseHistory, taskHistory, poolVars>>

-----------------------------------------------------------------------------
(* POST /submit.  "write status key BEFORE pushing to queue".              *)

Submitted(j) == [id |-> j, attempt |-> 0, status |-> "pending", stamp |-> 0]

(* Mutant of Submit: push first, save afterwards. *)
SubmitPushFirst(j, r) ==
  /\ \/ /\ api[j] = "new"
        /\ Reply(r)
        /\ IF Landed(r) THEN Push(Submitted(j)) ELSE UNCHANGED queueVars
        /\ api' = [api EXCEPT ![j] = IF r = "ok" THEN "saved" ELSE "failed"]
        /\ UNCHANGED recordVars
     \/ /\ api[j] = "saved"
        /\ Save(Submitted(j), r)
        /\ api' = [api EXCEPT ![j] = "accepted"]
        /\ UNCHANGED queueVars
  /\ UNCHANGED <<workerVars, scheduler>>

(* The two Redis calls of the handler.  The submitter is told "accepted"   *)
(* only when push returns.                                                 *)
Submit(j, r) ==
  /\ \/ /\ api[j] = "new"
        /\ Save(Submitted(j), r)
        /\ api' = [api EXCEPT ![j] = "saved"]
        /\ UNCHANGED queueVars
     \/ /\ api[j] = "saved"
        /\ Reply(r)
        /\ IF Landed(r) THEN Push(Submitted(j)) ELSE UNCHANGED queueVars
        /\ api' = [api EXCEPT ![j] = IF r = "ok" THEN "accepted" ELSE "failed"]
        /\ UNCHANGED recordVars
  /\ UNCHANGED <<workerVars, scheduler>>

-----------------------------------------------------------------------------
(* DelayedQueueScheduler._run has no handler: an exception of any of the   *)
(* three Redis calls of poll ends the thread, while the process goes on.   *)

Polls(s) == scheduler[s].alive

(* Mutant of PollRead: what is due is taken off the delayed queue at once. *)
PollReadAndRemove(s, due, r) ==
  /\ Polls(s) /\ scheduler[s].todo = {}
  /\ due # {}
  /\ r \in {"ok", "refused"}
  /\ Reply(r)
  /\ delayed' = IF r = "ok" THEN delayed \ due ELSE delayed
  /\ scheduler' = [scheduler EXCEPT ![s] =
                     IF r = "ok" THEN [@ EXCEPT !.todo = due]
                     ELSE [@ EXCEPT !.alive = FALSE]]
  /\ UNCHANGED <<queueVars, dlq, record, workerVars, api>>

(* ZRANGEBYSCORE of what is due; delays are not tracked, so any entries    *)
(* may be.                                                                 *)
PollRead(s, due, r) ==
  /\ Polls(s) /\ scheduler[s].todo = {}
  /\ due # {}
  /\ r \in {"ok", "refused"}
  /\ Reply(r)
  /\ scheduler' = [scheduler EXCEPT ![s] =
                     IF r = "ok" THEN [@ EXCEPT !.todo = due]
                     ELSE [@ EXCEPT !.alive = FALSE]]
  /\ UNCHANGED <<redisVars, workerVars, api>>

(* Mutant of PollPush: the job is only removed, as after a lost push. *)
PollSkip(s, e, r) ==
  /\ Polls(s) /\ e \in scheduler[s].todo /\ scheduler[s].pushed = Nil
  /\ r = "ok"
  /\ scheduler' = [scheduler EXCEPT ![s].pushed = e]
  /\ UNCHANGED <<redisVars, disruptions, workerVars, api>>

PollPush(s, e, r) ==
  /\ Polls(s) /\ e \in scheduler[s].todo /\ scheduler[s].pushed = Nil
  /\ Reply(r)
  /\ IF Landed(r) THEN Push([e EXCEPT !.status = "pending"]) ELSE UNCHANGED queueVars
  /\ scheduler' = [scheduler EXCEPT ![s] =
                     IF r = "ok" THEN [@ EXCEPT !.pushed = e]
                     ELSE [@ EXCEPT !.alive = FALSE]]
  /\ UNCHANGED <<recordVars, workerVars, api>>

(* Mutant of PollRemove: ZREM of the JSON of the job it has changed. *)
PollRemoveNothing(s, r) ==
  /\ Polls(s) /\ scheduler[s].pushed # Nil
  /\ r = "ok"
  /\ scheduler' = [scheduler EXCEPT ![s].todo = @ \ {scheduler[s].pushed},
                                   ![s].pushed = Nil]
  /\ UNCHANGED <<redisVars, disruptions, workerVars, api>>

PollRemove(s, r) ==
  LET e == scheduler[s].pushed IN
  /\ Polls(s) /\ e # Nil
  /\ Reply(r)
  /\ delayed' = IF Landed(r) THEN delayed \ {e} ELSE delayed
  /\ scheduler' = [scheduler EXCEPT ![s] =
                     IF r = "ok" THEN [Rested EXCEPT !.todo = scheduler[s].todo \ {e}]
                     ELSE [@ EXCEPT !.alive = FALSE]]
  /\ UNCHANGED <<queueVars, dlq, record, workerVars, api>>

(* The process ends and Kubernetes starts another. *)
SchedulerRestart(s) ==
  /\ Disrupt
  /\ scheduler' = [scheduler EXCEPT ![s] = Rested]
  /\ UNCHANGED <<redisVars, workerVars, api>>

PollStep(s) ==
  \/ \E due \in SUBSET delayed, r \in Replies : PollRead(s, due, r)
  \/ \E e \in delayed \cup scheduler[s].todo, r \in Replies : PollPush(s, e, r)
  \/ \E r \in Replies : PollRemove(s, r)

-----------------------------------------------------------------------------
(* One call of the reaper's loop; its thread survives every exception.     *)
ReaperPass ==
  /\ Lapsed # {}
  /\ \E S \in Batches : Reap(S)
  /\ UNCHANGED <<recordVars, disruptions, workerVars, api, scheduler>>

LeaseTick ==
  /\ Lapsing
  /\ Leased # Lapsed
  /\ Tick
  /\ UNCHANGED <<recordVars, disruptions, workerVars, api, scheduler>>

WorkerNext(w) == ThreadStep(w) /\ UNCHANGED <<api, scheduler>>
PodNext(p) == PodStep(p) /\ UNCHANGED <<api, scheduler>>

Next ==
  \/ \E w \in Workers : WorkerNext(w)
  \/ \E p \in Pods : PodNext(p)
  \/ \E j \in Jobs, r \in Replies : Submit(j, r)
  \/ \E s \in Schedulers : PollStep(s) \/ SchedulerRestart(s)
  \/ ReaperPass
  \/ LeaseTick

Spec == Init /\ [][Next]_vars

(* Threads keep running: the scheduling of the operating system, and tasks *)
(* that return.  A process that drains ends at its cutoff at the latest.   *)
(* The scheduler and the reaper poll for ever, and the clock goes on.      *)
(* Nothing is assumed of the monitor or of submitters, nor that a poll     *)
(* thread that died is ever restarted.                                     *)
Fairness ==
  /\ \A w \in Workers : WF_vars(WorkerNext(w))
  /\ \A p \in Pods : WF_vars(Exit(p) /\ UNCHANGED <<api, scheduler>>)
  /\ \A s \in Schedulers : WF_vars(PollStep(s))
  /\ WF_vars(ReaperPass)
  /\ WF_vars(LeaseTick)

FairSpec == Spec /\ Fairness

-----------------------------------------------------------------------------
(* Properties.                                                             *)

(* Where a job that has not run to success can still be brought back from, *)
(* or has been given up in the open.                                       *)
Custody == QueuedIds \cup Leased \cup DelayedIds \cup DeadIds

(* "Duplicated at worst, never lost": once /submit has answered, the job   *)
(* is in custody until it has succeeded, through crashes, shutdowns,       *)
(* lapsed leases, replaced threads and calls with unknown outcome; unless  *)
(* an acknowledgement took away a lease it was not for.                    *)
LostOnlyByStaleAck ==
  \A j \in Jobs \ Opaque :
    api[j] = "accepted" => j \in Custody \cup done \cup stolen

(* A job reaches the dead letter queue because its task failed max_retries *)
(* times: no crash, lapse or requeue uses up an attempt.                   *)
BurialsAreEarned ==
  \A e \in dlq : failures[e.id] >= MaxRetries[e.id]

(* What /status says of an end really happened, whoever saved it last:     *)
(* "done" means that the task succeeded, "dead" that it failed max_retries *)
(* times.                                                                  *)
EndsReallyHappened ==
  \A j \in Jobs :
    /\ record[j] = "done" => j \in done
    /\ record[j] = "dead" => failures[j] >= MaxRetries[j] /\ failures[j] > 0

(* "write status key BEFORE pushing to queue to avoid race condition": the *)
(* record the API writes never replaces one that is there already.         *)
SubmitOverwritesNothing ==
  [][\A j \in Jobs : api'[j] # api[j] /\ record'[j] # record[j]
                       => record[j] = "none"]_vars

(* "A worker acknowledges a job only once its outcome is durably recorded": *)
(* a worker that is about to acknowledge its own lease leaves the job       *)
(* behind as a success, in a queue or among the dead.                       *)
AckedOnlyWhenRecorded ==
  \A w \in Workers : \A j \in Owed(w) \cap Leased :
    owner[j] = w => j \in QueuedIds \cup DelayedIds \cup DeadIds \cup done

(* "requeue, not push ... the reaper would requeue it a second time": until *)
(* its task fails, a job is on the queue once or leased, never both,        *)
(* however often it lapses or its thread is replaced.  After a failure it   *)
(* is not so: a retry can be promoted while the first lease is still held.  *)
OneCopy ==
  \A j \in Jobs : failures[j] = 0 =>
    /\ j \notin QueuedIds \cap Leased
    /\ \A x, y \in queue : x.member.id = j /\ y.member.id = j => x = y

(* While no lease lapses, nothing crashes and nothing is found stalled, a  *)
(* failure is counted exactly once: whoever runs a job runs the attempt    *)
(* after the last failure, and nobody else runs it.                        *)
EachAttemptRunsOnce ==
  \A w \in Workers : pc[w] = "run" =>
    /\ current[w].attempt = failures[current[w].id]
    /\ current[w].id \notin done
    /\ \A v \in Workers \ {w} : pc[v] = "run" => current[v].id # current[w].id

(* Whatever is requeued, repeated, reaped or restarted, from outside the    *)
(* system leads each job through the life JobLife describes: no step shows  *)
(* a trial before the submission, an unearned burial, a report of what has  *)
(* not happened, or two changes at once.                                    *)
Life == INSTANCE JobLife
          WITH Statuses <- Status,
               submitted <- {j \in Jobs : api[j] \in {"accepted", "failed"}},
               buried <- DeadIds,
               report <- record

LivesAsPromised == Life!LifeSpec

(* The acknowledgements that are on their way: what a thread in take(), or *)
(* in the last call of its life, owes.                                     *)
Asked == {<<w, pending[w]>> :
            w \in {v \in Workers : pc[v] \in {"take", "exit"} /\ pending[v] # Nil}}

(* A job that was pushed is waiting or leased until a thread acknowledges  *)
(* it.  Each call a thread sets out to make settles one job at most, the   *)
(* one it names; no requeue, renewal, recovery, crash or passing of time   *)
(* drops one.                                                              *)
Promise == INSTANCE AtLeastOnceQueue
             WITH Callers <- Workers, owed <- Owing, inHand <- Leased, asked <- Asked

KeepsThePromise == Promise!PromiseSpec

(* An accepted job succeeds or is given up. *)
EveryJobSettles ==
  \A j \in Jobs : api[j] = "accepted" ~> j \in done \cup DeadIds

(* Everything comes to rest: no entry, lease or retry is left behind.      *)
QueueDrains == <>[](queue = {} /\ Leased = {} /\ delayed = {})

-----------------------------------------------------------------------------
(* What comments and documents say, and the program does not do.           *)

(* "Duplicated at worst, never lost", without the exception above: an      *)
(* accepted job that has not succeeded is in custody, or at least in the   *)
(* memory of a process.                                                    *)
InMemory(j) ==
  \/ \E w \in Workers : current[w] # Nil /\ current[w].id = j
  \/ \E p \in Pods : monitor[p].object # Nil /\ monitor[p].object.id = j

NoJobLost ==
  \A j \in Jobs \ Opaque :
    api[j] = "accepted" => j \in Custody \cup done \/ InMemory(j)

(* "does nothing if the reaper already got there first": the monitor takes *)
(* a job back only while the lease is the stalled worker's.                *)
MonitorYieldsToTheReaper ==
  [][\A p \in Pods :
       monitor[p].at = "requeue" /\ monitor'[p].at = "replace" /\ queue' # queue
         => owner[Held(p).id] = monitor[p].worker]_vars

(* "one scheduler thread polls a Redis sorted set every 500ms and moves    *)
(* due jobs back": a job does not wait for its retry for ever.             *)
RetriesComeBack == \A j \in Jobs : j \in DelayedIds ~> j \notin DelayedIds

(* "Stop pulling new jobs": no thread of a draining process sets out to    *)
(* take another job.                                                       *)
DrainingTakesNothing ==
  [][\A w \in Workers :
       PodOf[w] \in draining /\ pc[w] = "loop" => pc'[w] # "take"]_vars

(* "/status/{id} reflects reality": a job nobody will touch any more is    *)
(* not reported as pending or running.                                     *)
NothingAtRestIsPending ==
  \A j \in Jobs :
    /\ api[j] = "accepted"
    /\ j \notin QueuedIds \cup Leased \cup DelayedIds
    /\ ~InMemory(j)
    => record[j] \notin {"pending", "running"}
=============================================================================
