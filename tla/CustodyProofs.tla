----------------------------- MODULE CustodyProofs -----------------------------
(***************************************************************************)
(* Proofs that an accepted job is never lost but to an acknowledgement for *)
(* somebody else's lease, for every number of jobs, workers, processes and *)
(* schedulers, and any number of failed calls, crashes and shutdowns.      *)
(*                                                                         *)
(* The worker that is about to acknowledge a lease is the danger.  What    *)
(* makes it safe is that, as long as the lease is still the one delivered  *)
(* to it, the retry or the burial it has recorded is still there: nobody   *)
(* can have popped it without taking over the lease.                       *)
(***************************************************************************)
EXTENDS OutcomeProofs

USE DEF redisVars, queueVars, leaseKeys, recordVars, threadVars, leaseHistory,
        taskHistory, poolVars, workerVars, vars

(* Retries that are on the main queue already and about to leave the       *)
(* delayed queue do not count as waiting there.                            *)
Promoted == {e \in Entry : \E s \in Schedulers :
                             scheduler[s].alive /\ scheduler[s].pushed = e}
Waiting == delayed \ Promoted

(* Where a job is kept without a lease. *)
Safe(j) == j \in QueuedIds \cup {e.id : e \in Waiting} \cup DeadIds \cup done

(* w will acknowledge j. *)
Vouches(w, j) ==
  \/ j \in Owed(w)
  \/ pc[w] = "commit" /\ current[w].id = j

Kept ==
  \A j \in Jobs \ Opaque :
    api[j] = "accepted" => Safe(j) \/ j \in Leased \/ j \in stolen

Vouched ==
  \A w \in Workers : \A j \in Leased :
    Vouches(w, j) /\ owner[j] = w => Safe(j)

DoneIsDone == \A w \in Workers : pc[w] = "done" => current[w].id \in done

(* A retry about to be recorded is not the same as any that was recorded   *)
(* before: the ZADD adds a member, and no removal under way is for it.     *)
SameRetry(d, e) == d.id = e.id /\ d.stamp = e.stamp

Retries ==
  delayed \cup {e \in Entry : \E s \in Schedulers :
                                e \in scheduler[s].todo \/ scheduler[s].pushed = e}
Retrying == {w \in Workers : pc[w] = "record" /\ ~Exhausted(current[w])}

FreshRetries ==
  \A w \in Retrying :
    /\ \A e \in Retries : ~SameRetry(e, current[w])
    /\ \A v \in Retrying \ {w} : ~SameRetry(current[v], current[w])

CustodyInv ==
  OpaqueNeverLeased /\ Kept /\ Vouched /\ DoneIsDone /\ FreshRetries

(* Nothing is accepted, leased or recorded at the start. *)
LEMMA CustodyInit == Init => CustodyInv
BY DEF Init, QueueInit, JobRecordsInit, WorkerPoolInit, CustodyInv, OpaqueNeverLeased,
       Leased, Kept, Vouched, DoneIsDone, FreshRetries, Retrying

-----------------------------------------------------------------------------
(* What a step has to respect. *)

(* Where a job is safe it stays safe, if what keeps it there stays. *)
LEMMA SafeStays ==
  ASSUME QueuedIds \subseteq QueuedIds', Waiting \subseteq Waiting', dlq \subseteq dlq',
         done \subseteq done'
  PROVE  \A j \in Jobs : Safe(j) => Safe(j)'
BY DEF Safe, DeadIds

(* The retries waiting stay where they are. *)
LEMMA SameWaiting ==
  ASSUME UNCHANGED <<delayed, scheduler>> PROVE Waiting' = Waiting
BY DEF Waiting, Promoted

(* Leases may go if the job is safe or the loss is noted; new promises to  *)
(* acknowledge need a safe job.                                            *)
LEMMA LeasesRespected ==
  ASSUME CustodyInv,
         \A j \in Jobs : Safe(j) => Safe(j)',
         Leased' \subseteq Leased,
         \A j \in Leased \ Leased' : Safe(j)' \/ j \in stolen',
         UNCHANGED owner, stolen \subseteq stolen',
         \A w \in Workers : \A j \in Leased' : Vouches(w, j)' => Vouches(w, j) \/ Safe(j)',
         \A j \in Jobs : api'[j] = "accepted" => api[j] = "accepted" \/ Safe(j)'
  PROVE  OpaqueNeverLeased' /\ Kept' /\ Vouched'
<1>1. OpaqueNeverLeased'
  BY DEF CustodyInv, OpaqueNeverLeased
<1>2. Kept'
  BY DEF CustodyInv, Kept
<1>3. Vouched'
  BY DEF CustodyInv, Vouched, Leased
<1> QED
  BY <1>1, <1>2, <1>3

(* Threads that are at the same point with the same job as before. *)
HandsKept ==
  \A v \in Workers :
    /\ pc'[v] \in {"record", "done", "commit"} =>
         /\ pc'[v] = pc[v]
         /\ current'[v].id = current[v].id
         /\ current'[v].stamp = current[v].stamp
         /\ current'[v].attempt = current[v].attempt
    /\ pending'[v] \in {pending[v], Nil}

(* Such threads take on no acknowledgement, success or retry. *)
LEMMA HandsRespected ==
  ASSUME CustodyInv, HandsKept, done \subseteq done'
  PROVE  /\ \A w \in Workers : \A j : Vouches(w, j)' => Vouches(w, j)
         /\ DoneIsDone'
         /\ \A w \in Retrying' : w \in Retrying /\ current'[w].id = current[w].id
                                                /\ current'[w].stamp = current[w].stamp
<1>1. \A w \in Workers : \A j : Vouches(w, j)' => Vouches(w, j)
  BY DEF HandsKept, Vouches, Owed
<1>2. DoneIsDone'
  BY DEF HandsKept, DoneIsDone, CustodyInv
<1>3. \A w \in Retrying' : w \in Retrying /\ current'[w].id = current[w].id
                                          /\ current'[w].stamp = current[w].stamp
  BY DEF HandsKept, Retrying, Exhausted
<1> QED
  BY <1>1, <1>2, <1>3

(* Retries stay fresh when none is added and nobody starts to record one. *)
LEMMA RetriesRespected ==
  ASSUME CustodyInv, Retries' \subseteq Retries,
         \A w \in Retrying' : w \in Retrying /\ current'[w].id = current[w].id
                                             /\ current'[w].stamp = current[w].stamp
  PROVE  FreshRetries'
BY DEF CustodyInv, FreshRetries, SameRetry

(* Recorded retries stay recorded or disappear. *)
LEMMA SameRetries ==
  ASSUME UNCHANGED <<delayed, scheduler>> PROVE Retries' = Retries
BY DEF Retries

(* A step that touches no thread's business and takes nothing away. *)
LEMMA QuietStep ==
  ASSUME CustodyInv, HandsKept,
         \A j \in Jobs : Safe(j) => Safe(j)', done \subseteq done',
         Leased' \subseteq Leased,
         \A j \in Leased \ Leased' : Safe(j)' \/ j \in stolen',
         UNCHANGED owner, stolen \subseteq stolen',
         \A j \in Jobs : api'[j] = "accepted" => api[j] = "accepted" \/ Safe(j)',
         Retries' \subseteq Retries
  PROVE  CustodyInv'
BY LeasesRespected, HandsRespected, RetriesRespected DEF CustodyInv

(* A step that shows in no thread's business, on no queue and in no record. *)
LEMMA UnseenStep ==
  ASSUME CustodyInv, HandsKept,
         UNCHANGED <<queueVars, delayed, dlq, done, leaseHistory, api, scheduler>>
  PROVE  CustodyInv'
<1>1. Waiting' = Waiting /\ Retries' = Retries
  BY SameWaiting, SameRetries
<1>2. \A j \in Jobs : Safe(j) => Safe(j)'
  BY <1>1, SafeStays DEF QueuedIds
<1>3. Leased' = Leased
  BY DEF Leased
<1> QED
  BY <1>1, <1>2, <1>3, QuietStep

-----------------------------------------------------------------------------
(* The steps of a thread. *)

(* The loop test, the first save and the death of a thread. *)
LEMMA UnseenThreadCustody ==
  ASSUME TypeInv, CustodyInv, NEW w \in Workers, UNCHANGED <<api, scheduler>>,
         LoopTest(w) \/ Abort(w) \/ \E r \in Replies : Start(w, r)
  PROVE  CustodyInv'
<1>1. HandsKept
  BY DEF LoopTest, Abort, Start, HandsKept, TypeInv, WorkerTypeOK
<1>2. UNCHANGED <<queueVars, delayed, dlq, done, leaseHistory>>
  BY DEF LoopTest, Abort, Start, Save
<1> QED
  BY <1>1, <1>2, UnseenStep

(* The success is on record before the thread goes on. *)
LEMMA SucceedCustody ==
  ASSUME TypeInv, CustodyInv, NEW w \in Workers, UNCHANGED <<api, scheduler>>, Succeed(w)
  PROVE  CustodyInv'
<1>1. /\ Waiting' = Waiting /\ Retries' = Retries
      /\ Leased' = Leased /\ QueuedIds' = QueuedIds
      /\ done \subseteq done'
  BY SameWaiting, SameRetries DEF Succeed, Leased, QueuedIds
<1>2. \A j \in Jobs : Safe(j) => Safe(j)'
  BY <1>1, SafeStays DEF Succeed
<1>3. current[w] \in Entry /\ current'[w] = [current[w] EXCEPT !.status = "done"]
  BY InHandType DEF Succeed, Busy, TypeInv, WorkerTypeOK
<1>4. current'[w].id = current[w].id
  BY <1>3 DEF Entry
<1>5. \A v \in Workers \ {w} : pc'[v] = pc[v] /\ current'[v] = current[v]
  BY DEF Succeed, TypeInv, WorkerTypeOK
<1>6. pc'[w] = "done" /\ pending' = pending
  BY DEF Succeed, TypeInv, WorkerTypeOK
<1>7. \A v \in Workers : \A j : Vouches(v, j)' => Vouches(v, j)
  BY <1>5, <1>6 DEF Vouches, Owed
<1>8. OpaqueNeverLeased' /\ Kept' /\ Vouched'
  BY <1>1, <1>2, <1>7, LeasesRespected DEF Succeed
<1>9. DoneIsDone'
  BY <1>4, <1>5, <1>6 DEF Succeed, DoneIsDone, CustodyInv
<1>10. FreshRetries'
  BY <1>1, <1>5, <1>6, RetriesRespected DEF Retrying, Exhausted
<1> QED
  BY <1>8, <1>9, <1>10 DEF CustodyInv

(* The retry of a failure is numbered after every retry of the job so far. *)
LEMMA FailCustody ==
  ASSUME TypeInv, OutcomeInv, CustodyInv, NEW w \in Workers,
         UNCHANGED <<api, scheduler>>, Fail(w)
  PROVE  CustodyInv'
<1> DEFINE job == current[w]
           n == failures[job.id] + 1
           tried == [job EXCEPT !.attempt = @ + 1]
<1>1. /\ Waiting' = Waiting /\ Retries' = Retries
      /\ Leased' = Leased /\ QueuedIds' = QueuedIds
  BY SameWaiting, SameRetries DEF Fail, Leased, QueuedIds
<1>2. \A j \in Jobs : Safe(j) => Safe(j)'
  BY <1>1, SafeStays DEF Fail
<1>3. \A v \in Workers \ {w} : pc'[v] = pc[v] /\ current'[v] = current[v]
  BY DEF Fail, TypeInv, WorkerTypeOK
<1>4. /\ pc[w] = "run" /\ pc'[w] = "record" /\ pending' = pending
      /\ UNCHANGED <<owner, stolen, done>>
      /\ current'[w] = IF Exhausted(tried) THEN [tried EXCEPT !.status = "dead"]
                       ELSE [tried EXCEPT !.status = "pending", !.stamp = n]
  BY DEF Fail, TypeInv, WorkerTypeOK
<1>5. \A v \in Workers : \A j : Vouches(v, j)' => Vouches(v, j)
  BY <1>3, <1>4 DEF Vouches, Owed
<1>6. OpaqueNeverLeased' /\ Kept' /\ Vouched'
  BY <1>1, <1>2, <1>4, <1>5, LeasesRespected
<1>7. DoneIsDone'
  BY <1>3, <1>4 DEF DoneIsDone, CustodyInv
<1>8. job \in Entry /\ job.id \in Jobs /\ failures[job.id] \in Nat
  BY <1>4, InHandType, HistoryType DEF Busy, Entry
<1>9. w \in Retrying' => current'[w].id = job.id /\ current'[w].stamp = n
  <2>1. tried \in Entry /\ tried.id = job.id
    BY <1>8 DEF Entry
  <2>2. CASE Exhausted(tried)
    <3> DEFINE buried == [tried EXCEPT !.status = "dead"]
    <3>1. buried.id = tried.id /\ buried.attempt = tried.attempt
      BY <2>1 DEF Entry
    <3>2. current'[w] = buried
      BY <1>4, <2>2
    <3> HIDE DEF buried, tried
    <3>3. Exhausted(current[w])'
      BY <2>2, <3>1, <3>2 DEF Exhausted
    <3> QED
      BY <3>3 DEF Retrying
  <2>3. CASE ~Exhausted(tried)
    BY <1>4, <2>1, <2>3 DEF Entry
  <2> QED
    BY <2>2, <2>3
<1>10. \A e \in Retries : e.id = job.id => e.stamp # n
  <2>1. \A e \in Retries : e \in Entry /\ Truthful(e)
    BY NilIsNothing, EntriesOfScheduler
    DEF Retries, OutcomeInv, RecordsTruthful, SchedulersTruthful, TypeInv, JobRecordsTypeOK
  <2> QED
    BY <1>8, <2>1 DEF Truthful, Entry
<1>11. \A v \in Retrying : current[v].id = job.id => current[v].stamp # n
  <2>1. \A v \in Retrying : current[v] \in Entry /\ Truthful(current[v])
    BY InHandType, NilIsNothing DEF Retrying, Busy, OutcomeInv, HandsTruthful
  <2> QED
    BY <1>8, <2>1 DEF Truthful, Entry
<1>12. \A v \in Retrying' \ {w} : v \in Retrying /\ current'[v] = current[v]
  BY <1>3 DEF Retrying, Exhausted
<1> HIDE DEF job, n, tried
<1>13. FreshRetries'
  BY <1>1, <1>9, <1>10, <1>11, <1>12 DEF FreshRetries, SameRetry, CustodyInv
<1> QED
  BY <1>6, <1>7, <1>13 DEF CustodyInv

(* A failure that is recorded for certain leaves its job with the dead or  *)
(* waiting; nobody is about to remove the retry.                           *)
LEMMA RecordFailureCustody ==
  ASSUME TypeInv, CustodyInv, NEW w \in Workers, NEW r \in Replies,
         UNCHANGED <<api, scheduler>>, RecordFailure(w, r)
  PROVE  CustodyInv'
<1> DEFINE job == current[w]
<1>1. /\ pc[w] = "record" /\ pc' = [pc EXCEPT ![w] = IF r = "ok" THEN "commit" ELSE "abandon"]
      /\ UNCHANGED <<queueVars, current, pending, leaseHistory, taskHistory>>
      /\ delayed' \in {delayed, delayed \cup {job}}
      /\ dlq' \in {dlq, dlq \cup {job}}
      /\ r = "ok" => job \in delayed' \/ job \in dlq'
      /\ job \in delayed' => job \in delayed \/ ~Exhausted(job)
  BY DEF RecordFailure, AddDead, AddDelayed, Landed
<1>2. /\ Promoted' = Promoted /\ Waiting \subseteq Waiting'
      /\ Leased' = Leased /\ QueuedIds' = QueuedIds
  BY <1>1 DEF Promoted, Waiting, Leased, QueuedIds
<1>3. \A j \in Jobs : Safe(j) => Safe(j)'
  BY <1>1, <1>2, SafeStays
<1>4. job \in Entry /\ job.id \in Jobs /\ job # Nil
  BY <1>1, InHandType, NilIsNothing DEF Busy, Entry
<1>5. ~Exhausted(job) => job \notin Retries
  BY <1>1 DEF CustodyInv, FreshRetries, Retrying, SameRetry
<1>6. Promoted \subseteq Retries
  BY DEF Promoted, Retries
<1>7. ASSUME r = "ok", NEW j, j = job.id PROVE Safe(j)'
  <2>1. CASE job \in dlq'
    BY <1>7, <2>1 DEF Safe, DeadIds
  <2>2. CASE job \in delayed' /\ ~Exhausted(job)
    <3>1. job \in delayed' \ Promoted'
      BY <1>2, <1>5, <1>6, <2>2
    <3> QED
      BY <1>7, <3>1 DEF Safe, Waiting
  <2>3. CASE job \in delayed /\ Exhausted(job)
    <3>1. job \in dlq'
      BY <1>7, <2>3 DEF RecordFailure, AddDead, Landed
    <3> QED
      BY <1>7, <3>1 DEF Safe, DeadIds
  <2> QED
    BY <1>1, <1>7, <2>1, <2>2, <2>3
<1>8. \A v \in Workers \ {w} : pc'[v] = pc[v]
  BY <1>1 DEF TypeInv, WorkerTypeOK
<1>9. pc'[w] = IF r = "ok" THEN "commit" ELSE "abandon"
  BY <1>1 DEF TypeInv, WorkerTypeOK
<1>10. \A v \in Workers : \A j : Vouches(v, j)' => Vouches(v, j) \/ Safe(j)'
  <2>1. \A v \in Workers \ {w} : \A j : Vouches(v, j)' => Vouches(v, j)
    BY <1>1, <1>8 DEF Vouches, Owed
  <2>2. \A j : Vouches(w, j)' => Vouches(w, j) \/ (r = "ok" /\ j = job.id)
    BY <1>1, <1>9 DEF Vouches, Owed
  <2> HIDE DEF job
  <2> QED
    BY <1>7, <2>1, <2>2
<1>11. OpaqueNeverLeased' /\ Kept' /\ Vouched'
  BY <1>1, <1>2, <1>3, <1>10, LeasesRespected
<1>12. DoneIsDone'
  BY <1>1, <1>8, <1>9 DEF DoneIsDone, CustodyInv
<1>13. FreshRetries'
  <2>1. \A v \in Retrying' : v \in Retrying /\ v # w
    BY <1>1, <1>8, <1>9 DEF Retrying, Exhausted
  <2>2. Retries' \subseteq Retries \/ (w \in Retrying /\ Retries' \subseteq Retries \cup {job})
    BY <1>1 DEF Retries, Retrying
  <2> HIDE DEF job
  <2>3. \A v \in Retrying' : \A e \in Retries' : ~SameRetry(e, current[v])
    <3>1. \A v \in Retrying' : w \in Retrying => ~SameRetry(job, current[v])
      BY <2>1 DEF CustodyInv, FreshRetries, job
    <3> QED
      BY <2>1, <2>2, <3>1 DEF CustodyInv, FreshRetries
  <2> QED
    BY <1>1, <2>1, <2>3 DEF CustodyInv, FreshRetries, SameRetry
<1> QED
  BY <1>11, <1>12, <1>13 DEF CustodyInv

(* The acknowledgement is promised for a job that is safe.                 *)
LEMMA FinishCustody ==
  ASSUME TypeInv, CustodyInv, NEW w \in Workers, NEW r \in Replies,
         UNCHANGED <<api, scheduler>>, Finish(w, r)
  PROVE  CustodyInv'
<1>1. UNCHANGED <<queueVars, delayed, dlq, done, leaseHistory>>
  BY DEF Finish, Save
<1>2. /\ Waiting' = Waiting /\ Retries' = Retries
      /\ Leased' = Leased /\ QueuedIds' = QueuedIds
  BY <1>1, SameWaiting, SameRetries DEF Leased, QueuedIds
<1>3. \A j \in Jobs : Safe(j) => Safe(j)'
  BY <1>1, <1>2, SafeStays
<1>4. current[w] \in Entry /\ current[w].id \in Jobs
  BY InHandType DEF Finish, Busy, Entry
<1>5. \A v \in Workers \ {w} : /\ pc'[v] = pc[v] /\ current'[v] = current[v]
                               /\ pending'[v] = pending[v]
  BY DEF Finish, TypeInv, WorkerTypeOK
<1>6. /\ pc'[w] = "loop"
      /\ pending'[w] = IF pc[w] = "abandon" THEN Nil ELSE current[w].id
      /\ pc[w] \in {"done", "commit", "abandon"}
  BY DEF Finish, TypeInv, WorkerTypeOK
<1>7. \A v \in Workers : \A j : Vouches(v, j)' => Vouches(v, j) \/ Safe(j)'
  <2>1. \A v \in Workers \ {w} : \A j : Vouches(v, j)' => Vouches(v, j)
    BY <1>5 DEF Vouches, Owed
  <2>2. \A j : Vouches(w, j)' => j = current[w].id /\ pc[w] \in {"done", "commit"}
    BY <1>6 DEF Vouches, Owed
  <2>3. pc[w] = "commit" => Vouches(w, current[w].id)
    BY DEF Vouches
  <2>4. pc[w] = "done" => Safe(current[w].id)
    BY DEF CustodyInv, DoneIsDone, Safe
  <2> QED
    BY <1>3, <1>4, <2>1, <2>2, <2>3, <2>4
<1>8. OpaqueNeverLeased' /\ Kept' /\ Vouched'
  BY <1>1, <1>2, <1>3, <1>7, LeasesRespected
<1>9. DoneIsDone'
  BY <1>1, <1>5, <1>6 DEF DoneIsDone, CustodyInv
<1>10. FreshRetries'
  BY <1>2, <1>5, <1>6, RetriesRespected DEF Retrying, Exhausted
<1> QED
  BY <1>8, <1>9, <1>10 DEF CustodyInv

(* An acknowledgement takes the sender's own lease, whose job is safe, or  *)
(* it is noted.                                                            *)
LEMMA AckedAreSafe ==
  ASSUME CustodyInv, NEW w \in Workers, NoteAcks(w)
  PROVE  /\ \A j \in Owed(w) \cap Leased : Safe(j) \/ j \in stolen'
         /\ stolen \subseteq stolen'
BY DEF CustodyInv, Vouched, Vouches, NoteAcks

(* The last acknowledgement of a thread. *)
LEMMA ReleaseCustody ==
  ASSUME TypeInv, CustodyInv, NEW w \in Workers, NEW r \in Replies,
         UNCHANGED <<api, scheduler>>, Release(w, r)
  PROVE  CustodyInv'
<1>1. HandsKept
  BY DEF Release, HandsKept, TypeInv, WorkerTypeOK
<1>2. UNCHANGED <<queue, delayed, dlq, done, owner>>
  BY DEF Release
<1>3. \A j \in Jobs : Safe(j) => Safe(j)'
  BY <1>2, SameWaiting, SafeStays DEF QueuedIds
<1>4. /\ Leased' \subseteq Leased /\ stolen \subseteq stolen'
      /\ \A j \in Leased \ Leased' : Safe(j) \/ j \in stolen'
  <2>1. CASE Landed(r)
    <3>1. Forget(Owed(w)) /\ NoteAcks(w)
      BY <2>1 DEF Release
    <3>2. Leased' = Leased \ Owed(w)
      BY <3>1, LeasedAfterForget
    <3> QED
      BY <3>1, <3>2, AckedAreSafe
  <2>2. CASE ~Landed(r)
    BY <2>2 DEF Release, Leased
  <2> QED
    BY <2>1, <2>2
<1>5. \A j \in Leased \ Leased' : Safe(j)' \/ j \in stolen'
  BY <1>3, <1>4 DEF Leased
<1> QED
  BY <1>1, <1>2, <1>3, <1>4, <1>5, SameRetries, QuietStep

(* take() may pop the entry that made another job safe, but then leases it *)
(* anew: to w, who has no acknowledgement left, or to nobody.              *)
LEMMA TakeCustody ==
  ASSUME TypeInv, CustodyInv, NEW w \in Workers, NEW r \in Replies,
         NEW x \in queue \cup {Nil}, UNCHANGED <<api, scheduler>>, Take(w, r, x)
  PROVE  CustodyInv'
<1> DEFINE job == IF r = "ok" THEN Parsed(x) ELSE Nil
<1>1. \A v \in Workers \ {w} : /\ pc'[v] = pc[v] /\ current'[v] = current[v]
                               /\ pending'[v] = pending[v]
  BY DEF Take, TypeInv, WorkerTypeOK
<1>2. /\ pc[w] = "take" /\ pc'[w] = IF job = Nil THEN "loop" ELSE "start"
      /\ pending'[w] = IF r = "ok" THEN Nil ELSE pending[w]
      /\ UNCHANGED <<delayed, dlq, done>>
  BY DEF Take, TypeInv, WorkerTypeOK
<1>3. DoneIsDone'
  BY <1>1, <1>2 DEF DoneIsDone, CustodyInv
<1>4. FreshRetries'
  <2>1. \A v \in Retrying' : v \in Retrying /\ current'[v] = current[v]
    BY <1>1, <1>2 DEF Retrying, Exhausted
  <2> QED
    BY <1>2, <2>1, SameRetries, RetriesRespected
<1>5. \A v \in Workers : \A j : Vouches(v, j)' => Vouches(v, j)
  BY <1>1, <1>2 DEF Vouches, Owed
<1>6. CASE ~Landed(r)
  <2>1. /\ UNCHANGED <<queueVars, leaseHistory>>
        /\ Waiting' = Waiting
    BY <1>2, <1>6, SameWaiting DEF Take
  <2>2. /\ \A j \in Jobs : Safe(j) => Safe(j)'
        /\ Leased' = Leased
    BY <1>2, <2>1, SafeStays DEF QueuedIds, Leased
  <2> QED
    BY <1>3, <1>4, <1>5, <2>1, <2>2, LeasesRespected DEF CustodyInv
<1>7. CASE Landed(r)
  <2>1. AckAndPop(Owed(w), x) /\ NoteAcks(w)
    BY <1>7 DEF Take
  <2>2. Leased' = (Leased \ Owed(w)) \cup LeasedBy(x)
    BY <2>1, LeasedAfterPop DEF TypeInv
  <2>3. ASSUME NEW j \in Jobs \ Opaque, Safe(j) PROVE Safe(j)' \/ j \in LeasedBy(x)
    <3>1. j \in QueuedIds => j \in QueuedIds' \/ j \in LeasedBy(x)
      <4>1. \A y \in queue : y # Nil
        BY QueueAssumption DEF QueueAssumption, TypeInv, QueueInv, QueueTypeOK
      <4>2. queue' = queue \ {x}
        BY <2>1 DEF AckAndPop
      <4> QED
        BY <4>1, <4>2 DEF QueuedIds, LeasedBy
    <3>2. Waiting' = Waiting
      BY <1>2, SameWaiting
    <3> QED
      BY <1>2, <2>3, <3>1, <3>2 DEF Safe, DeadIds
  <2>4. OpaqueNeverLeased'
    BY <2>2 DEF OpaqueNeverLeased, LeasedBy, CustodyInv
  <2>5. Kept'
    BY <2>1, <2>2, <2>3, AckedAreSafe DEF Kept, CustodyInv
  <2>6. ASSUME NEW v \in Workers, NEW j \in Leased', Vouches(v, j)', owner'[j] = v
        PROVE  Safe(j)'
    <3>1. j \in Jobs
      BY DEF Leased
    <3>2. owner'[j] = IF j \notin LeasedBy(x) THEN owner[j] ELSE IF job = Nil THEN Nil ELSE w
      BY <1>7, <3>1 DEF Take
    <3>3. j \notin LeasedBy(x)
      BY <1>2, <2>6, <3>2, WorkerAssumption, NilIsNothing
      DEF Vouches, Owed, WorkerAssumption, LeasedBy
    <3>4. j \in Leased \ Opaque /\ owner[j] = v /\ Vouches(v, j)
      BY <1>5, <2>2, <2>6, <3>2, <3>3 DEF CustodyInv, OpaqueNeverLeased
    <3> QED
      BY <2>3, <3>1, <3>3, <3>4 DEF CustodyInv, Vouched
  <2>7. Vouched'
    BY <2>6 DEF Vouched
  <2> QED
    BY <1>3, <1>4, <2>4, <2>5, <2>7 DEF CustodyInv
<1> QED
  BY <1>6, <1>7

(* All the steps of a thread. *)
LEMMA WorkerNextCustody ==
  ASSUME TypeInv, OutcomeInv, CustodyInv, NEW w \in Workers, WorkerNext(w)
  PROVE  CustodyInv'
BY UnseenThreadCustody, SucceedCustody, FailCustody, RecordFailureCustody, FinishCustody,
   ReleaseCustody, TakeCustody DEF WorkerNext, ThreadStep, WorkerStep

-----------------------------------------------------------------------------
(* The steps of a process. *)

(* Whatever a monitor or a supervisor does to a thread, the thread takes   *)
(* over no obligation by it.                                               *)
LEMMA MemoryCustody ==
  ASSUME TypeInv, CustodyInv, NEW p \in Pods, UNCHANGED <<api, scheduler>>,
         \/ \E w \in Workers : FindStalled(p, w) \/ Replace(p, w)
                               \/ ScaleUp(p, w) \/ ScaleDown(p, w)
         \/ Drain(p) \/ Restart(p)
         \/ \E r \in Replies : SaveStalled(p, r)
  PROVE  CustodyInv'
<1>1. UNCHANGED <<queueVars, delayed, dlq, done, leaseHistory>>
  BY DEF FindStalled, Replace, ScaleUp, ScaleDown, Drain, Restart, SaveStalled, Save
<1>2. HandsKept
  <2>1. ASSUME NEW w \in Workers, FindStalled(p, w) PROVE HandsKept
    <3>1. Busy(w) => current[w] \in Entry
      BY InHandType
    <3>2. \A v \in Workers : current'[v].id = current[v].id
                          /\ current'[v].stamp = current[v].stamp
                          /\ current'[v].attempt = current[v].attempt
      <4>1. CASE Busy(w)
        <5>1. \A v \in Workers : current'[v] = IF v = w THEN [current[w] EXCEPT !.status = "pending"]
                                             ELSE current[v]
          BY <2>1, <4>1 DEF FindStalled, TypeInv, WorkerTypeOK
        <5> QED
          BY <3>1, <4>1, <5>1 DEF Entry
      <4>2. CASE ~Busy(w)
        BY <2>1, <4>2 DEF FindStalled
      <4> QED
        BY <4>1, <4>2
    <3> QED
      BY <2>1, <3>2 DEF FindStalled, HandsKept
  <2>2. ASSUME NEW w \in Workers, Replace(p, w) \/ ScaleUp(p, w) \/ ScaleDown(p, w)
        PROVE  HandsKept
    BY <2>2 DEF Replace, ScaleUp, ScaleDown, HandsKept, TypeInv, WorkerTypeOK
  <2>3. CASE Drain(p) \/ \E r \in Replies : SaveStalled(p, r)
    BY <2>3 DEF Drain, SaveStalled, HandsKept
  <2>4. CASE Restart(p)
    BY <2>4 DEF Restart, HandsKept
  <2> QED
    BY <2>1, <2>2, <2>3, <2>4
<1> QED
  BY <1>1, <1>2, UnseenStep

(* Renewing keeps every lease; a lease the monitor releases becomes an     *)
(* entry on the queue in the same step.                                    *)
LEMMA MonitorCustody ==
  ASSUME TypeInv, CustodyInv, NEW p \in Pods, UNCHANGED <<api, scheduler>>,
         RenewLeases(p) \/ \E r \in Replies : RequeueStalled(p, r)
  PROVE  CustodyInv'
<1>1. UNCHANGED <<delayed, dlq, done, leaseHistory, threadVars>>
  BY DEF RenewLeases, RequeueStalled
<1>2. HandsKept
  BY <1>1 DEF HandsKept
<1>3. /\ QueuedIds \subseteq QueuedIds' /\ Leased' \subseteq Leased
      /\ \A j \in Leased \ Leased' : j \in QueuedIds'
  <2>1. CASE RenewLeases(p)
    BY <2>1, LeasedAfterRenew DEF RenewLeases, Renew, QueuedIds
  <2>2. ASSUME NEW r \in Replies, RequeueStalled(p, r)
        PROVE  /\ QueuedIds \subseteq QueuedIds' /\ Leased' \subseteq Leased
               /\ \A j \in Leased \ Leased' : j \in QueuedIds'
    <3>1. CASE UNCHANGED queueVars
      BY <3>1 DEF QueuedIds, Leased
    <3>2. CASE Requeue(Held(p)) /\ Held(p).id \in Leased
      BY <3>2, IdsAfterAddingOne, LeasedAfterForget DEF Requeue
    <3> QED
      BY <2>2, <3>1, <3>2 DEF RequeueStalled, Requeue
  <2> QED
    BY <2>1, <2>2
<1>4. \A j \in Jobs : Safe(j) => Safe(j)'
  BY <1>1, <1>3, SameWaiting, SafeStays
<1>5. \A j \in Leased \ Leased' : Safe(j)' \/ j \in stolen'
  BY <1>3 DEF Safe
<1> QED
  BY <1>1, <1>2, <1>3, <1>4, <1>5, SameRetries, QuietStep

(* All the steps of a process. *)
LEMMA PodNextCustody ==
  ASSUME TypeInv, CustodyInv, NEW p \in Pods, PodNext(p)
  PROVE  CustodyInv'
BY MemoryCustody, MonitorCustody DEF PodNext, PodStep, Exit, Crash

-----------------------------------------------------------------------------
(* The API, the scheduler, the reaper and the clock. *)

(* Steps that touch no worker, free no lease and lose no retry. *)
LEMMA BesideTheWorkers ==
  ASSUME CustodyInv, UNCHANGED workerVars, Leased' \subseteq Leased,
         \A j \in Leased \ Leased' : Safe(j)',
         \A j \in Jobs : Safe(j) => Safe(j)',
         \A j \in Jobs : api'[j] = "accepted" => api[j] = "accepted" \/ Safe(j)',
         Retries' \subseteq Retries
  PROVE  CustodyInv'
<1>1. HandsKept
  BY DEF HandsKept
<1> QED
  BY <1>1, QuietStep

(* Only a push that returned is answered "accepted". *)
LEMMA SubmitCustody ==
  ASSUME TypeInv, CustodyInv, NEW j \in Jobs, NEW r \in Replies, Submit(j, r)
  PROVE  CustodyInv'
<1>1. UNCHANGED <<workerVars, delayed, dlq, scheduler>> /\ UNCHANGED leaseKeys
  BY DEF Submit, Save, Push
<1>2. /\ QueuedIds \subseteq QueuedIds' /\ Leased' = Leased
      /\ \A i \in Jobs : api'[i] = "accepted" => api[i] = "accepted" \/ i \in QueuedIds'
  <2>1. CASE UNCHANGED queueVars /\ api' = [api EXCEPT ![j] = "saved"]
    BY <2>1 DEF QueuedIds, Leased, TypeInv
  <2>2. CASE UNCHANGED queueVars /\ api' = [api EXCEPT ![j] = "failed"]
    BY <2>2 DEF QueuedIds, Leased, TypeInv
  <2>3. CASE Push(Submitted(j)) /\ UNCHANGED leaseKeys
    <3>1. QueuedIds' = QueuedIds \cup {Submitted(j).id}
      BY <2>3, IdsAfterAddingOne DEF Push
    <3>2. \A i \in Jobs \ {j} : api'[i] = api[i]
      BY DEF Submit, TypeInv
    <3> QED
      BY <2>3, <3>1, <3>2 DEF Leased, Submitted
  <2> QED
    BY <1>1, <2>1, <2>2, <2>3 DEF Submit, Landed
<1>3. \A i \in Jobs : Safe(i) => Safe(i)'
  BY <1>1, <1>2, SameWaiting, SafeStays
<1>4. \A i \in Jobs : api'[i] = "accepted" => api[i] = "accepted" \/ Safe(i)'
  BY <1>2 DEF Safe
<1> QED
  BY <1>1, <1>2, <1>3, <1>4, SameRetries, BesideTheWorkers

(* What poll has read is on the delayed queue or pushed already. *)
LEMMA PollReadCustody ==
  ASSUME TypeInv, CustodyInv, NEW s \in Schedulers, NEW due \in SUBSET delayed,
         NEW r \in Replies, PollRead(s, due, r)
  PROVE  CustodyInv'
<1>1. /\ \A z \in Schedulers : /\ scheduler'[z].pushed = scheduler[z].pushed
                               /\ scheduler'[z].alive => scheduler[z].alive
                               /\ scheduler'[z].todo \subseteq scheduler[z].todo \cup delayed
      /\ UNCHANGED <<redisVars, workerVars, api>>
  BY EntriesOfScheduler DEF PollRead, TypeInv, Polling
<1>2. /\ Promoted' \subseteq Promoted /\ Waiting \subseteq Waiting'
      /\ Retries' \subseteq Retries
  BY <1>1 DEF Promoted, Waiting, Retries
<1>3. \A j \in Jobs : Safe(j) => Safe(j)'
  BY <1>1, <1>2, SafeStays DEF QueuedIds
<1> QED
  BY <1>1, <1>2, <1>3, BesideTheWorkers DEF Leased

(* A retry that is about to leave the delayed queue is on the main queue.  *)
LEMMA PollPushCustody ==
  ASSUME TypeInv, CustodyInv, NEW s \in Schedulers, NEW e, NEW r \in Replies,
         PollPush(s, e, r)
  PROVE  CustodyInv'
<1>1. e \in Entry /\ e \in scheduler[s].todo /\ [e EXCEPT !.status = "pending"].id = e.id
  BY EntriesOfScheduler DEF PollPush, Entry
<1>2. ASSUME NEW z \in Schedulers
      PROVE  /\ \/ scheduler'[z].pushed = scheduler[z].pushed
                \/ scheduler'[z].pushed = e /\ r = "ok"
             /\ scheduler'[z].alive => scheduler[z].alive
             /\ scheduler'[z].todo = scheduler[z].todo
  <2>1. scheduler[s] \in Polling /\ scheduler \in [Schedulers -> Polling]
    BY EntriesOfScheduler DEF TypeInv
  <2>2. scheduler' = [scheduler EXCEPT ![s] =
                        IF r = "ok" THEN [scheduler[s] EXCEPT !.pushed = e]
                        ELSE [scheduler[s] EXCEPT !.alive = FALSE]]
    BY DEF PollPush
  <2>3. CASE z # s
    BY <2>1, <2>2, <2>3
  <2>4. CASE z = s /\ r = "ok"
    BY <2>1, <2>2, <2>4 DEF Polling, PollPush, Polls
  <2>5. CASE z = s /\ r # "ok"
    BY <2>1, <2>2, <2>5 DEF Polling
  <2> QED
    BY <2>3, <2>4, <2>5
<1>3. /\ QueuedIds \subseteq QueuedIds' /\ Leased' = Leased
      /\ r = "ok" => e.id \in QueuedIds'
      /\ UNCHANGED <<recordVars, workerVars, api>>
  <2> UNCHANGED <<recordVars, workerVars, api>>
    BY DEF PollPush
  <2>1. CASE Landed(r)
    <3>1. Push([e EXCEPT !.status = "pending"])
      BY <2>1 DEF PollPush
    <3>2. QueuedIds' = QueuedIds \cup {e.id}
      BY <1>1, <3>1, IdsAfterAddingOne DEF Push
    <3> QED
      BY <3>1, <3>2 DEF Push, Leased
  <2>2. CASE ~Landed(r)
    BY <2>2 DEF PollPush, Landed, QueuedIds, Leased
  <2> QED
    BY <2>1, <2>2
<1>4. /\ Promoted' \subseteq Promoted \cup {e}
      /\ r # "ok" => Promoted' \subseteq Promoted
      /\ Retries' \subseteq Retries
  BY <1>1, <1>2, <1>3 DEF Promoted, Retries
<1>5. ASSUME NEW j \in Jobs, Safe(j) PROVE Safe(j)'
  <2>1. CASE j \in {d.id : d \in Waiting}
    <3>1. PICK d \in Waiting : d.id = j
      BY <2>1
    <3>2. d \in Waiting' \/ (d = e /\ r = "ok")
      BY <1>3, <1>4 DEF Waiting
    <3> QED
      BY <1>3, <3>1, <3>2 DEF Safe
  <2>2. CASE j \notin {d.id : d \in Waiting}
    BY <1>3, <1>5, <2>2 DEF Safe, DeadIds
  <2> QED
    BY <2>1, <2>2
<1> QED
  BY <1>3, <1>4, <1>5, BesideTheWorkers

(* Only what was pushed leaves the delayed queue. *)
LEMMA PollRemoveCustody ==
  ASSUME TypeInv, CustodyInv, NEW s \in Schedulers, NEW r \in Replies, PollRemove(s, r)
  PROVE  CustodyInv'
<1> DEFINE e == scheduler[s].pushed
<1>1. e \in Entry /\ scheduler[s].alive /\ delayed' \in {delayed, delayed \ {e}}
  BY EntriesOfScheduler DEF PollRemove, Polls
<1>2. /\ \A z \in Schedulers : /\ scheduler'[z].pushed \in {scheduler[z].pushed, Nil}
                               /\ scheduler'[z].alive => scheduler[z].alive
                               /\ scheduler'[z].todo \subseteq scheduler[z].todo
      /\ UNCHANGED <<queueVars, dlq, record, workerVars, api>>
  BY EntriesOfScheduler DEF PollRemove, Polls, Rested, TypeInv, Polling
<1>3. Promoted' \subseteq Promoted /\ e \in Promoted /\ Retries' \subseteq Retries
  BY <1>1, <1>2, NilIsNothing DEF Promoted, Retries
<1> HIDE DEF e
<1>4. Waiting \subseteq Waiting'
  BY <1>1, <1>3 DEF Waiting
<1>5. \A j \in Jobs : Safe(j) => Safe(j)'
  BY <1>2, <1>4, SafeStays DEF QueuedIds
<1> QED
  BY <1>2, <1>3, <1>5, BesideTheWorkers DEF Leased

(* A scheduler that dies between push and removal leaves the retry where   *)
(* it was, to be pushed again.                                             *)
LEMMA SchedulerRestartCustody ==
  ASSUME TypeInv, CustodyInv, NEW s \in Schedulers, SchedulerRestart(s)
  PROVE  CustodyInv'
<1>1. /\ \A z \in Schedulers : scheduler'[z] \in {scheduler[z], Rested}
      /\ UNCHANGED <<redisVars, workerVars, api>>
  BY DEF SchedulerRestart, TypeInv
<1>2. Promoted' \subseteq Promoted /\ Retries' \subseteq Retries
  BY <1>1, NilIsNothing DEF Promoted, Retries, Rested
<1>3. \A j \in Jobs : Safe(j) => Safe(j)'
  BY <1>1, <1>2, SafeStays DEF Waiting, QueuedIds
<1> QED
  BY <1>1, <1>2, <1>3, BesideTheWorkers DEF Leased

(* A lease the reaper takes back has the payload to put on the queue. *)
LEMMA ReapReturns ==
  ASSUME QueueInv, NEW S \in Batches, Reap(S)
  PROVE  /\ Leased' = Leased \ S
         /\ QueuedIds \cup S \subseteq QueuedIds'
<1> DEFINE scoreOf(j) == IF savedScore[j] = Nil THEN 0 ELSE savedScore[j]
           added == {Scored(payload[j], scoreOf(j)) : j \in {i \in S : payload[i] # Nil}}
<1>1. Forget(S) /\ queue' = WithMembers(added)
  BY DEF Reap
<1>2. \A j \in S : payload[j] # Nil /\ payload[j].id = j
  BY NilIsNothing DEF Batches, Lapsed, QueueInv, LeaseKeysAgree
<1>3. ASSUME NEW j \in S PROVE j \in {a.member.id : a \in added}
  <2>1. Scored(payload[j], scoreOf(j)) \in added
    BY <1>2
  <2>2. Scored(payload[j], scoreOf(j)).member.id = j
    BY <1>2 DEF Scored
  <2> HIDE DEF added, scoreOf
  <2> QED
    BY <2>1, <2>2
<1> HIDE DEF added
<1>4. QueuedIds' = QueuedIds \cup {a.member.id : a \in added}
  BY <1>1, IdsAfterAdding
<1> QED
  BY <1>1, <1>3, <1>4, LeasedAfterForget

(* What the reaper takes back is on the queue in the same step; the clock  *)
(* takes nothing.                                                          *)
LEMMA ReaperAndClockCustody ==
  ASSUME TypeInv, CustodyInv, ReaperPass \/ LeaseTick
  PROVE  CustodyInv'
<1>1. UNCHANGED <<recordVars, workerVars, api, scheduler>>
  BY DEF ReaperPass, LeaseTick
<1>2. /\ QueuedIds \subseteq QueuedIds' /\ Leased' \subseteq Leased
      /\ \A j \in Leased \ Leased' : j \in QueuedIds'
  <2>1. CASE ReaperPass
    BY <2>1, ReapReturns DEF ReaperPass, TypeInv
  <2>2. CASE LeaseTick
    BY <2>2, LeasedAfterTick DEF LeaseTick, Tick, QueuedIds, TypeInv
  <2> QED
    BY <2>1, <2>2
<1>3. \A j \in Jobs : Safe(j) => Safe(j)'
  BY <1>1, <1>2, SameWaiting, SafeStays
<1>4. \A j \in Leased \ Leased' : Safe(j)'
  BY <1>2 DEF Safe
<1> QED
  BY <1>1, <1>2, <1>3, <1>4, SameRetries, BesideTheWorkers

-----------------------------------------------------------------------------
(* Every step of the system keeps the invariant. *)
LEMMA CustodyStep == TypeInv /\ OutcomeInv /\ CustodyInv /\ [Next]_vars => CustodyInv'
<1> SUFFICES ASSUME TypeInv, OutcomeInv, CustodyInv, [Next]_vars PROVE CustodyInv'
  OBVIOUS
<1>1. CASE UNCHANGED vars
  <2>1. HandsKept
    BY <1>1 DEF HandsKept
  <2> QED
    BY <1>1, <2>1, UnseenStep
<1>2. ASSUME NEW s \in Schedulers, PollStep(s) \/ SchedulerRestart(s) PROVE CustodyInv'
  BY <1>2, PollReadCustody, PollPushCustody, PollRemoveCustody, SchedulerRestartCustody
  DEF PollStep
<1> QED
  BY <1>1, <1>2, WorkerNextCustody, PodNextCustody, SubmitCustody, ReaperAndClockCustody
  DEF Next

(* So it always holds. *)
LEMMA CustodyAlways == Spec => []CustodyInv
BY CustodyInit, CustodyStep, TypeInvAlways, OutcomeAlways, PTL DEF Spec

(* An accepted job is waiting, leased, retried, given up or done, for ever, *)
(* through any number of crashes, shutdowns, lapsed leases, stalls and      *)
(* calls of unknown outcome; the one way to lose it is an acknowledgement   *)
(* that removes somebody else's lease.                                      *)
THEOREM NeverLostButByStaleAck == Spec => []LostOnlyByStaleAck
<1>1. CustodyInv => LostOnlyByStaleAck
  BY DEF CustodyInv, Kept, Safe, Waiting, Custody, DelayedIds, LostOnlyByStaleAck
<1> QED
  BY <1>1, CustodyAlways, PTL

(* A worker never acknowledges its own lease before the outcome of the job *)
(* is where it will be found.                                              *)
THEOREM AcksComeAfterRecords == Spec => []AckedOnlyWhenRecorded
<1>1. CustodyInv => AckedOnlyWhenRecorded
  BY DEF CustodyInv, Vouched, Vouches, Safe, Waiting, DelayedIds, AckedOnlyWhenRecorded
<1> QED
  BY <1>1, CustodyAlways, PTL
=============================================================================
