----------------------------- MODULE OutcomeProofs -----------------------------
(***************************************************************************)
(* Proofs that what the system records about the end of a job is true, for *)
(* every number of jobs, workers, processes and schedulers.                *)
(*                                                                         *)
(* The argument follows the copies of a job.  There may be many, on the    *)
(* queue, under a lease, in a thread, with a monitor, waiting for a retry: *)
(* none of them claims more failed attempts than the job has had, nor an   *)
(* end that has not happened.                                              *)
(***************************************************************************)
EXTENDS OrionQueueProofs

USE DEF redisVars, queueVars, leaseKeys, recordVars, threadVars, leaseHistory,
        taskHistory, poolVars, workerVars, vars

(* What a copy of a job says has happened. *)
Truthful(e) ==
  /\ e.attempt <= failures[e.id]
  /\ e.stamp <= failures[e.id]
  /\ e.status = "done" => e.id \in done
  /\ e.status = "dead" => failures[e.id] >= MaxRetries[e.id] /\ failures[e.id] > 0

QueueTruthful ==
  /\ \A x \in queue : Truthful(x.member)
  /\ \A j \in Jobs : payload[j] # Nil => Truthful(payload[j])

RecordsTruthful ==
  /\ \A e \in delayed : Truthful(e)
  /\ \A e \in dlq : Truthful(e) /\ Exhausted(e)
  /\ EndsReallyHappened

HandsTruthful ==
  /\ \A w \in Workers : current[w] # Nil => Truthful(current[w])
  /\ \A p \in Pods : monitor[p].object # Nil => Truthful(monitor[p].object)

SchedulersTruthful ==
  \A s \in Schedulers :
    /\ \A e \in scheduler[s].todo : Truthful(e)
    /\ scheduler[s].pushed # Nil => Truthful(scheduler[s].pushed)

OutcomeInv ==
  QueueTruthful /\ RecordsTruthful /\ HandsTruthful /\ SchedulersTruthful

(* At the start there are no copies. *)
LEMMA OutcomeInit == Init => OutcomeInv
BY DEF Init, QueueInit, JobRecordsInit, WorkerPoolInit, OutcomeInv, QueueTruthful,
       RecordsTruthful, HandsTruthful, SchedulersTruthful, EndsReallyHappened, Rested, Idle

-----------------------------------------------------------------------------
(* The history of the tasks only grows, so that what was true stays true.  *)
HistoryGrows ==
  /\ done \subseteq done'
  /\ \A j \in Jobs : failures'[j] \in Nat /\ failures'[j] >= failures[j]

(* Failures are counted in natural numbers. *)
LEMMA HistoryType ==
  ASSUME TypeInv
  PROVE  /\ failures \in [Jobs -> Nat]
         /\ MaxRetries \in [Jobs -> Int]
         /\ MaxFailures \in Nat
BY WorkerAssumption DEF TypeInv, WorkerTypeOK, WorkerAssumption

(* A step that is not the end of a task leaves the history alone. *)
LEMMA SameHistoryGrows ==
  ASSUME TypeInv, UNCHANGED taskHistory PROVE HistoryGrows
BY HistoryType DEF HistoryGrows

(* A copy that is truthful stays so while the history grows. *)
LEMMA TruthStays ==
  ASSUME TypeInv, HistoryGrows, NEW e \in Entry, Truthful(e)
  PROVE  Truthful(e)'
<1>1. /\ e.id \in Jobs /\ e.attempt \in Nat /\ e.stamp \in Nat
      /\ failures[e.id] \in Nat /\ failures'[e.id] \in Nat
      /\ failures'[e.id] >= failures[e.id]
      /\ MaxRetries[e.id] \in Int
  BY HistoryType DEF Entry, HistoryGrows
<1> QED
  BY <1>1 DEF HistoryGrows, Truthful

(* Changing the status of a copy to one that claims no end. *)
LEMMA HarmlessStatus ==
  ASSUME NEW e \in Entry, NEW s \in {"pending", "running"}, Truthful(e)
  PROVE  Truthful([e EXCEPT !.status = s])
BY DEF Entry, Truthful

(* A job that was just submitted claims nothing. *)
LEMMA SubmittedTruthful ==
  ASSUME TypeInv, NEW j \in Jobs PROVE Truthful(Submitted(j))
BY HistoryType DEF Submitted, Truthful

-----------------------------------------------------------------------------
(* The scripts move copies about and make none up. *)
LEMMA QueueStaysTruthful ==
  ASSUME TypeInv, QueueTruthful, HistoryGrows, UNCHANGED queueVars
  PROVE  QueueTruthful'
BY TruthStays DEF QueueTruthful, TypeInv, QueueInv, QueueTypeOK

(* Clearing leases drops copies. *)
LEMMA ForgetTruthful ==
  ASSUME TypeInv, QueueTruthful, HistoryGrows, NEW ids, Forget(ids)
  PROVE  \A j \in Jobs : payload'[j] # Nil => Truthful(payload[j])' /\ payload'[j] = payload[j]
BY TruthStays DEF QueueTruthful, TypeInv, QueueInv, QueueTypeOK, Forget, Drop

(* ZADD of truthful entries to a truthful queue. *)
LEMMA AddingTruthful ==
  ASSUME TypeInv, QueueTruthful, HistoryGrows, NEW added,
         \A a \in added : a.member \in Entry /\ Truthful(a.member),
         queue' = WithMembers(added)
  PROVE  \A x \in queue' : Truthful(x.member)'
BY TruthStays DEF QueueTruthful, TypeInv, QueueInv, QueueTypeOK, WithMembers

(* push() of a truthful entry. *)
LEMMA PushTruthful ==
  ASSUME TypeInv, QueueTruthful, HistoryGrows, NEW m \in Entry, Truthful(m), Push(m)
  PROVE  QueueTruthful'
<1>1. \A x \in queue' : Truthful(x.member)'
  <2>1. \A a \in {Scored(m, Score[m.id])} : a.member \in Entry /\ Truthful(a.member)
    BY DEF Scored
  <2> QED
    BY <2>1, AddingTruthful DEF Push
<1>2. \A j \in Jobs : payload'[j] # Nil => Truthful(payload[j])' /\ payload' = payload
  BY TruthStays DEF Push, QueueTruthful, TypeInv, QueueInv, QueueTypeOK
<1> QED
  BY <1>1, <1>2 DEF QueueTruthful

(* The lease made by a pop holds the entry that was popped. *)
LEMMA AckAndPopTruthful ==
  ASSUME TypeInv, QueueTruthful, HistoryGrows, NEW acked, NEW x \in queue \cup {Nil},
         AckAndPop(acked, x)
  PROVE  QueueTruthful'
<1>1. \A y \in queue' : Truthful(y.member)'
  BY TruthStays DEF AckAndPop, QueueTruthful, TypeInv, QueueInv, QueueTypeOK
<1>2. ASSUME NEW j \in Jobs, payload'[j] # Nil PROVE (Truthful(payload[j]))'
  <2>1. CASE j \in LeasedBy(x)
    <3>1. x \in queue /\ x.member \in Entry /\ payload'[j] = x.member
      BY <2>1 DEF AckAndPop, LeasedBy, TypeInv, QueueInv, QueueTypeOK
    <3>2. Truthful(x.member)'
      BY <3>1, TruthStays DEF QueueTruthful
    <3> QED
      BY <3>1, <3>2 DEF Truthful
  <2>2. CASE j \notin LeasedBy(x)
    <3>1. payload'[j] = payload[j] /\ payload[j] \in Entry /\ payload[j] # Nil
      BY <1>2, <2>2 DEF AckAndPop, Drop, TypeInv, QueueInv, QueueTypeOK
    <3>2. Truthful(payload[j]) /\ HistoryGrows
      BY <3>1 DEF QueueTruthful
    <3> QED
      BY <3>1, <3>2, HistoryType DEF Truthful, HistoryGrows, Entry
  <2> QED
    BY <2>1, <2>2
<1> QED
  BY <1>1, <1>2 DEF QueueTruthful

(* requeue() puts the caller's own copy on the queue. *)
LEMMA RequeueTruthful ==
  ASSUME TypeInv, QueueTruthful, HistoryGrows, NEW m \in Entry, Truthful(m), Requeue(m)
  PROVE  QueueTruthful'
<1>1. CASE m.id \in Leased
  <2>1. Forget({m.id}) /\ queue' = WithMembers({Scored(m, Score[m.id])})
    BY <1>1 DEF Requeue
  <2>2. \A a \in {Scored(m, Score[m.id])} : a.member \in Entry /\ Truthful(a.member)
    BY DEF Scored
  <2> QED
    BY <2>1, <2>2, AddingTruthful, ForgetTruthful DEF QueueTruthful
<1>2. CASE m.id \notin Leased
  BY <1>2, QueueStaysTruthful DEF Requeue
<1> QED
  BY <1>1, <1>2

(* A lease that is acknowledged leaves the queue as it was. *)
LEMMA AckTruthful ==
  ASSUME TypeInv, QueueTruthful, HistoryGrows, NEW ids, Forget(ids), UNCHANGED queue
  PROVE  QueueTruthful'
<1>1. \A x \in queue' : Truthful(x.member)'
  BY TruthStays DEF QueueTruthful, TypeInv, QueueInv, QueueTypeOK
<1> QED
  BY <1>1, ForgetTruthful DEF QueueTruthful

(* Renewals and time touch deadlines only. *)
LEMMA RenewOrTickTruthful ==
  ASSUME TypeInv, QueueTruthful, HistoryGrows, UNCHANGED <<queue, payload, savedScore>>
  PROVE  QueueTruthful'
BY TruthStays DEF QueueTruthful, TypeInv, QueueInv, QueueTypeOK

(* The reaper puts back the leased entry as it was popped. *)
LEMMA ReapTruthful ==
  ASSUME TypeInv, QueueTruthful, HistoryGrows, NEW S \in Batches, Reap(S)
  PROVE  QueueTruthful'
<1> DEFINE scoreOf(j) == IF savedScore[j] = Nil THEN 0 ELSE savedScore[j]
           back == {i \in S : payload[i] # Nil}
           added == {Scored(payload[j], scoreOf(j)) : j \in back}
<1>1. S \subseteq Jobs
  BY DEF Batches, Lapsed
<1>2. \A j \in back : payload[j] \in Entry /\ Truthful(payload[j])
  BY <1>1 DEF QueueTruthful, TypeInv, QueueInv, QueueTypeOK
<1>3. \A a \in added : a.member \in Entry /\ Truthful(a.member)
  BY <1>2 DEF Scored
<1>4. queue' = WithMembers(added)
  BY DEF Reap
<1>5. Forget(S)
  BY DEF Reap
<1> HIDE DEF added
<1> QED
  BY <1>3, <1>4, <1>5, AddingTruthful, ForgetTruthful DEF QueueTruthful

-----------------------------------------------------------------------------
(* The records. *)

(* Records and side queues that a step leaves alone. *)
LEMMA RecordsStayTruthful ==
  ASSUME TypeInv, RecordsTruthful, HistoryGrows, UNCHANGED recordVars
  PROVE  RecordsTruthful'
<1>1. /\ \A e \in delayed' : Truthful(e)'
      /\ \A e \in dlq' : Truthful(e)' /\ Exhausted(e)'
  BY TruthStays DEF RecordsTruthful, TypeInv, JobRecordsTypeOK, Exhausted
<1>2. EndsReallyHappened'
  BY HistoryType DEF RecordsTruthful, EndsReallyHappened, HistoryGrows
<1> QED
  BY <1>1, <1>2 DEF RecordsTruthful

(* A truthful copy leaves a truthful record, whoever saves it. *)
LEMMA SaveTruthful ==
  ASSUME TypeInv, RecordsTruthful, UNCHANGED taskHistory,
         NEW e \in Entry, NEW r, Truthful(e), Save(e, r)
  PROVE  RecordsTruthful'
<1>1. /\ \A d \in delayed' : Truthful(d)'
      /\ \A d \in dlq' : Truthful(d)' /\ Exhausted(d)'
  BY DEF RecordsTruthful, Save, Truthful, Exhausted
<1>2. EndsReallyHappened'
  BY DEF RecordsTruthful, Save, EndsReallyHappened, Truthful, TypeInv, JobRecordsTypeOK, Entry
<1> QED
  BY <1>1, <1>2 DEF RecordsTruthful

(* A truthful entry joins the delayed or, if exhausted, the dead letters. *)
LEMMA AddTruthful ==
  ASSUME TypeInv, RecordsTruthful, UNCHANGED taskHistory,
         NEW e \in Entry, Truthful(e),
         AddDelayed(e) \/ (AddDead(e) /\ Exhausted(e))
  PROVE  RecordsTruthful'
BY DEF RecordsTruthful, AddDelayed, AddDead, EndsReallyHappened, Truthful, Exhausted

-----------------------------------------------------------------------------
(* Threads and monitors. *)

(* Threads and monitors that a step leaves alone. *)
LEMMA HandsStayTruthful ==
  ASSUME TypeInv, HandsTruthful, HistoryGrows, UNCHANGED <<current, monitor>>
  PROVE  HandsTruthful'
<1>1. \A w \in Workers : current[w] # Nil => current[w] \in Entry
  BY DEF TypeInv, WorkerTypeOK
<1>2. \A p \in Pods : monitor[p].object # Nil => monitor[p].object \in Entry
  BY DEF TypeInv, WorkerPoolTypeOK, Monitoring, Idle
<1> QED
  BY <1>1, <1>2, TruthStays DEF HandsTruthful

(* Schedulers that a step leaves alone. *)
LEMMA SchedulersStayTruthful ==
  ASSUME TypeInv, SchedulersTruthful, HistoryGrows, UNCHANGED scheduler
  PROVE  SchedulersTruthful'
BY TruthStays, EntriesOfScheduler DEF SchedulersTruthful

(* What a thread leaves to a monitor was truthful in its hands. *)
LEMMA LeaveTruthful ==
  ASSUME TypeInv, HandsTruthful, HistoryGrows, NEW w \in Workers, LeaveObject(w),
         \A v \in Workers : current'[v] # Nil => Truthful(current[v])'
  PROVE  HandsTruthful'
<1>1. ASSUME NEW p \in Pods, monitor'[p].object # Nil
      PROVE  Truthful(monitor[p].object)'
  <2>1. CASE /\ monitor[p].worker = w
             /\ monitor[p].at \in {"save", "requeue"}
             /\ monitor[p].object = Nil
             /\ current'[w] = Nil
    <3>1. monitor[p] \in Monitoring
      BY <2>1 DEF TypeInv, WorkerPoolTypeOK, Idle
    <3>2. monitor'[p].object = current[w]
      BY <2>1, <3>1 DEF LeaveObject, Monitoring
    <3>3. current[w] \in Entry /\ Truthful(current[w])
      BY <1>1, <3>2 DEF TypeInv, WorkerTypeOK, HandsTruthful
    <3> QED
      BY <3>2, <3>3, TruthStays DEF Truthful
  <2>2. CASE ~ (/\ monitor[p].worker = w
                /\ monitor[p].at \in {"save", "requeue"}
                /\ monitor[p].object = Nil
                /\ current'[w] = Nil)
    <3>1. monitor'[p] = monitor[p]
      BY <2>2 DEF LeaveObject
    <3>2. monitor[p].object \in Entry /\ Truthful(monitor[p].object)
      BY <1>1, <3>1 DEF TypeInv, WorkerPoolTypeOK, Monitoring, Idle, HandsTruthful
    <3> QED
      BY <3>1, <3>2, TruthStays DEF Truthful
  <2> QED
    BY <2>1, <2>2
<1> QED
  BY <1>1 DEF HandsTruthful

-----------------------------------------------------------------------------
(* The steps of a thread. *)

(* A thread whose job is as truthful after its step as it was before.      *)
(* pre: the copy in hand after the step claims nothing false.              *)
LEMMA ThreadOutcome ==
  ASSUME TypeInv, OutcomeInv, NEW w \in Workers, LeaveObject(w), UNCHANGED scheduler,
         HistoryGrows, QueueTruthful', RecordsTruthful',
         \A v \in Workers \ {w} : current'[v] = current[v],
         current'[w] # Nil => Truthful(current[w])'
  PROVE  OutcomeInv'
<1>1. ASSUME NEW v \in Workers, current'[v] # Nil PROVE Truthful(current[v])'
  <2>1. CASE v = w
    BY <1>1, <2>1
  <2>2. CASE v # w
    <3>1. current'[v] = current[v] /\ current[v] \in Entry /\ Truthful(current[v])
      BY <1>1, <2>2 DEF OutcomeInv, HandsTruthful, TypeInv, WorkerTypeOK
    <3> QED
      BY <3>1, TruthStays DEF Truthful
  <2> QED
    BY <2>1, <2>2
<1>2. HandsTruthful'
  BY <1>1, LeaveTruthful DEF OutcomeInv
<1> QED
  BY <1>2, SchedulersStayTruthful DEF OutcomeInv

(* A thread that neither takes up a job nor changes the one it has. *)
LEMMA SameJobOutcome ==
  ASSUME TypeInv, OutcomeInv, NEW w \in Workers, LeaveObject(w), UNCHANGED scheduler,
         UNCHANGED taskHistory, QueueTruthful', RecordsTruthful',
         current' = current \/ current' = [current EXCEPT ![w] = Nil]
  PROVE  OutcomeInv'
<1>1. \A v \in Workers \ {w} : current'[v] = current[v]
  BY DEF TypeInv, WorkerTypeOK
<1>2. current'[w] # Nil => current'[w] = current[w] /\ current[w] \in Entry
  BY DEF TypeInv, WorkerTypeOK
<1>3. HistoryGrows
  BY SameHistoryGrows
<1>4. current'[w] # Nil => Truthful(current[w])'
  BY <1>2, <1>3, TruthStays DEF OutcomeInv, HandsTruthful, Truthful
<1> QED
  BY <1>1, <1>3, <1>4, ThreadOutcome

(* take() hands over the popped entry, marked as running. *)
LEMMA TakeOutcome ==
  ASSUME TypeInv, OutcomeInv, NEW w \in Workers, LeaveObject(w), UNCHANGED scheduler,
         NEW r \in Replies, NEW x \in queue \cup {Nil}, Take(w, r, x)
  PROVE  OutcomeInv'
<1> DEFINE job == IF r = "ok" THEN Parsed(x) ELSE Nil
<1>1. /\ current' = IF job = Nil THEN current
                    ELSE [current EXCEPT ![w] = [job EXCEPT !.status = "running"]]
      /\ pc[w] = "take"
      /\ UNCHANGED <<recordVars, taskHistory>>
  BY DEF Take
<1>2. HistoryGrows
  BY <1>1, SameHistoryGrows
<1>3. QueueTruthful'
  BY <1>2, AckAndPopTruthful, QueueStaysTruthful DEF Take, OutcomeInv
<1>4. RecordsTruthful'
  BY <1>1, <1>2, RecordsStayTruthful DEF OutcomeInv
<1>5. CASE job = Nil
  BY <1>1, <1>3, <1>4, <1>5, SameJobOutcome
<1>6. CASE job # Nil
  <2>1. job \in Entry /\ Truthful(job)
    BY <1>6 DEF Parsed, OutcomeInv, QueueTruthful, TypeInv, QueueInv, QueueTypeOK
  <2>2. Truthful([job EXCEPT !.status = "running"])
    BY <2>1, HarmlessStatus
  <2> DEFINE taken == [job EXCEPT !.status = "running"]
  <2>3. current'[w] = taken
    BY <1>1, <1>6 DEF TypeInv, WorkerTypeOK
  <2>4. Truthful(current[w])'
    <3> HIDE DEF taken, job
    <3>1. Truthful(taken)
      BY <2>2 DEF taken
    <3> QED
      BY <1>1, <2>3, <3>1 DEF Truthful
  <2>5. \A v \in Workers \ {w} : current'[v] = current[v]
    BY <1>1, <1>6 DEF TypeInv, WorkerTypeOK
  <2> QED
    BY <1>2, <1>3, <1>4, <2>4, <2>5, ThreadOutcome
<1> QED
  BY <1>5, <1>6

(* "done" is claimed in the step in which the task succeeds. *)
LEMMA SucceedOutcome ==
  ASSUME TypeInv, OutcomeInv, NEW w \in Workers, LeaveObject(w), UNCHANGED scheduler,
         Succeed(w)
  PROVE  OutcomeInv'
<1>1. current[w] \in Entry /\ Truthful(current[w]) /\ current[w] # Nil
  BY InHandType, NilIsNothing DEF Succeed, Busy, OutcomeInv, HandsTruthful
<1>2. HistoryGrows
  BY HistoryType DEF Succeed, HistoryGrows
<1>3. QueueTruthful' /\ RecordsTruthful'
  BY <1>2, QueueStaysTruthful, RecordsStayTruthful DEF Succeed, OutcomeInv
<1>4. \A v \in Workers \ {w} : current'[v] = current[v]
  BY DEF Succeed, TypeInv, WorkerTypeOK
<1>5. current'[w] = [current[w] EXCEPT !.status = "done"]
  BY DEF Succeed, TypeInv, WorkerTypeOK
<1>6. Truthful(current[w])'
  BY <1>1, <1>5 DEF Succeed, Truthful, Entry
<1> QED
  BY <1>2, <1>3, <1>4, <1>6, ThreadOutcome

(* A failure is counted on the job and in the history alike, and a job     *)
(* that is given up has failed often enough.                               *)
LEMMA FailOutcome ==
  ASSUME TypeInv, OutcomeInv, NEW w \in Workers, LeaveObject(w), UNCHANGED scheduler,
         Fail(w)
  PROVE  OutcomeInv'
<1> DEFINE job == current[w]
           n == failures[job.id] + 1
           tried == [job EXCEPT !.attempt = @ + 1]
<1>1. job \in Entry /\ Truthful(job) /\ job # Nil /\ job.id \in Jobs
  BY InHandType, NilIsNothing DEF Fail, Busy, OutcomeInv, HandsTruthful, Entry
<1>2. /\ failures' = [failures EXCEPT ![job.id] = n]
      /\ current' = [current EXCEPT ![w] =
                       IF Exhausted(tried) THEN [tried EXCEPT !.status = "dead"]
                       ELSE [tried EXCEPT !.status = "pending", !.stamp = n]]
      /\ UNCHANGED <<queueVars, recordVars, done>>
  BY DEF Fail
<1>3. HistoryGrows
  BY <1>1, <1>2, HistoryType DEF HistoryGrows
<1>4. QueueTruthful' /\ RecordsTruthful'
  BY <1>2, <1>3, QueueStaysTruthful, RecordsStayTruthful DEF OutcomeInv
<1>5. \A v \in Workers \ {w} : current'[v] = current[v]
  BY <1>2 DEF TypeInv, WorkerTypeOK
<1>6. /\ tried \in Entry /\ tried.id = job.id /\ tried.attempt = job.attempt + 1
      /\ failures'[job.id] = failures[job.id] + 1
      /\ failures[job.id] \in Nat /\ MaxRetries[job.id] \in Int
      /\ job.attempt \in Nat /\ job.attempt <= failures[job.id]
      /\ tried.stamp \in Nat /\ tried.stamp <= failures[job.id]
  BY <1>1, <1>2, HistoryType DEF Truthful, Entry
<1>7. CASE Exhausted(tried)
  <2>1. current'[w] = [tried EXCEPT !.status = "dead"]
    BY <1>2, <1>7 DEF TypeInv, WorkerTypeOK
  <2>2. /\ current'[w].id = job.id /\ current'[w].attempt = job.attempt + 1
        /\ current'[w].stamp = tried.stamp /\ current'[w].status = "dead"
    BY <1>6, <2>1 DEF Entry
  <2>3. failures'[job.id] >= MaxRetries[job.id] /\ failures'[job.id] > 0
    BY <1>6, <1>7 DEF Exhausted
  <2>4. Truthful(current[w])'
    BY <1>6, <2>2, <2>3 DEF Truthful
  <2> QED
    BY <1>3, <1>4, <1>5, <2>4, ThreadOutcome
<1>8. CASE ~Exhausted(tried)
  <2>1. current'[w] = [tried EXCEPT !.status = "pending", !.stamp = n]
    BY <1>2, <1>8 DEF TypeInv, WorkerTypeOK
  <2>2. /\ current'[w].id = job.id /\ current'[w].attempt = job.attempt + 1
        /\ current'[w].stamp = n /\ current'[w].status = "pending"
    BY <1>6, <2>1 DEF Entry
  <2>3. Truthful(current[w])'
    BY <1>6, <2>2 DEF Truthful
  <2> QED
    BY <1>3, <1>4, <1>5, <2>3, ThreadOutcome
<1> QED
  BY <1>7, <1>8

(* The steps that save or record the job in hand. *)
LEMMA SavingOutcome ==
  ASSUME TypeInv, OutcomeInv, NEW w \in Workers, LeaveObject(w), UNCHANGED scheduler,
         NEW r \in Replies, Start(w, r) \/ Finish(w, r) \/ RecordFailure(w, r)
  PROVE  OutcomeInv'
<1>1. current[w] \in Entry /\ Truthful(current[w])
  BY InHandType, NilIsNothing
  DEF Start, Finish, RecordFailure, Busy, OutcomeInv, HandsTruthful
<1>2. /\ UNCHANGED <<queueVars, taskHistory>>
      /\ current' = current \/ current' = [current EXCEPT ![w] = Nil]
  BY DEF Start, Finish, RecordFailure
<1>3. QueueTruthful'
  BY <1>2, SameHistoryGrows, QueueStaysTruthful DEF OutcomeInv
<1>4. RecordsTruthful'
  <2>1. CASE Start(w, r) \/ Finish(w, r)
    BY <1>1, <1>2, <2>1, SaveTruthful DEF Start, Finish, OutcomeInv
  <2>2. CASE RecordFailure(w, r)
    BY <1>1, <1>2, <2>2, AddTruthful, SameHistoryGrows, RecordsStayTruthful
    DEF RecordFailure, OutcomeInv
  <2> QED
    BY <2>1, <2>2
<1> QED
  BY <1>2, <1>3, <1>4, SameJobOutcome

(* The loop test, the death of a thread and its last acknowledgement. *)
LEMMA OtherThreadOutcome ==
  ASSUME TypeInv, OutcomeInv, NEW w \in Workers, LeaveObject(w), UNCHANGED scheduler,
         LoopTest(w) \/ Abort(w) \/ \E r \in Replies : Release(w, r)
  PROVE  OutcomeInv'
<1>1. /\ UNCHANGED <<recordVars, taskHistory>>
      /\ current' = current \/ current' = [current EXCEPT ![w] = Nil]
      /\ UNCHANGED queue
  BY DEF LoopTest, Abort, Release
<1>2. HistoryGrows
  BY <1>1, SameHistoryGrows
<1>3. QueueTruthful'
  BY <1>1, <1>2, AckTruthful, QueueStaysTruthful DEF LoopTest, Abort, Release, OutcomeInv
<1>4. RecordsTruthful'
  BY <1>1, <1>2, RecordsStayTruthful DEF OutcomeInv
<1> QED
  BY <1>1, <1>3, <1>4, SameJobOutcome

(* All the steps of a thread. *)
LEMMA WorkerNextOutcome ==
  ASSUME TypeInv, OutcomeInv, NEW w \in Workers, WorkerNext(w)
  PROVE  OutcomeInv'
<1>1. WorkerStep(w) /\ LeaveObject(w) /\ UNCHANGED scheduler
  BY DEF WorkerNext, ThreadStep
<1> QED
  BY <1>1, TakeOutcome, SucceedOutcome, FailOutcome, SavingOutcome, OtherThreadOutcome
  DEF WorkerStep

-----------------------------------------------------------------------------
(* The steps of a process. *)

(* What the monitor holds is truthful, in its own hands or the thread's. *)
LEMMA HeldTruthful ==
  ASSUME TypeInv, OutcomeInv, NEW p \in Pods, monitor[p].at \in {"save", "requeue"}
  PROVE  Held(p) \in Entry /\ Truthful(Held(p))
<1>1. Held(p) \in Entry
  BY HeldType
<1>2. monitor[p].worker \in Workers
  BY DEF TypeInv, WorkerPoolTypeOK, Monitoring, Idle
<1>3. Held(p) # Nil
  BY <1>1, NilIsNothing
<1> QED
  BY <1>1, <1>2, <1>3 DEF Held, OutcomeInv, HandsTruthful

(* Steps of a process that change neither queue nor records. *)
LEMMA MemoryOutcome ==
  ASSUME TypeInv, OutcomeInv, NEW p \in Pods, UNCHANGED scheduler,
         \/ \E w \in Workers : FindStalled(p, w) \/ Replace(p, w)
                               \/ ScaleUp(p, w) \/ ScaleDown(p, w)
         \/ Drain(p) \/ Restart(p)
  PROVE  OutcomeInv'
<1>1. UNCHANGED <<queueVars, recordVars, taskHistory>>
  BY DEF FindStalled, Replace, ScaleUp, ScaleDown, Drain, Restart
<1>2. HistoryGrows
  BY <1>1, SameHistoryGrows
<1>3. QueueTruthful' /\ RecordsTruthful' /\ SchedulersTruthful'
  BY <1>1, <1>2, QueueStaysTruthful, RecordsStayTruthful, SchedulersStayTruthful
  DEF OutcomeInv
<1>4. ASSUME NEW v \in Workers, current'[v] # Nil PROVE Truthful(current[v])'
  <2>1. CASE current'[v] = current[v]
    <3>1. current[v] \in Entry /\ Truthful(current[v])
      BY <1>4, <2>1 DEF TypeInv, WorkerTypeOK, OutcomeInv, HandsTruthful
    <3> QED
      BY <1>2, <2>1, <3>1, TruthStays DEF Truthful
  <2>2. CASE current'[v] # current[v]
    <3>1. PICK w \in Workers : FindStalled(p, w) \/ Restart(p)
      BY <2>2 DEF Replace, ScaleUp, ScaleDown, Drain
    <3>2. ~Restart(p)
      BY <1>4, <2>2 DEF Restart
    <3>3. Busy(w) /\ v = w /\ current'[v] = [current[v] EXCEPT !.status = "pending"]
      BY <2>2, <3>1, <3>2 DEF FindStalled, TypeInv, WorkerTypeOK
    <3>4. current[v] \in Entry /\ current[v] # Nil
      BY <3>3, InHandType, NilIsNothing
    <3>5. Truthful(current[v])
      BY <3>4 DEF OutcomeInv, HandsTruthful
    <3>6. Truthful([current[v] EXCEPT !.status = "pending"])
      BY <3>4, <3>5, HarmlessStatus
    <3> QED
      BY <1>1, <3>3, <3>6 DEF Truthful
  <2> QED
    BY <2>1, <2>2
<1>5. ASSUME NEW q \in Pods, monitor'[q].object # Nil PROVE Truthful(monitor[q].object)'
  <2>1. monitor'[q] = monitor[q]
    BY <1>5 DEF FindStalled, Replace, ScaleUp, ScaleDown, Drain, Restart, Idle,
                TypeInv, WorkerPoolTypeOK
  <2>2. monitor[q].object \in Entry /\ Truthful(monitor[q].object)
    BY <1>5, <2>1 DEF TypeInv, WorkerPoolTypeOK, Monitoring, Idle, OutcomeInv, HandsTruthful
  <2> QED
    BY <1>2, <2>1, <2>2, TruthStays DEF Truthful
<1> QED
  BY <1>3, <1>4, <1>5 DEF OutcomeInv, HandsTruthful

(* The calls of the monitor. *)
LEMMA MonitorOutcome ==
  ASSUME TypeInv, OutcomeInv, NEW p \in Pods, UNCHANGED scheduler,
         \/ \E r \in Replies : SaveStalled(p, r) \/ RequeueStalled(p, r)
         \/ RenewLeases(p)
  PROVE  OutcomeInv'
<1>1. UNCHANGED taskHistory /\ HistoryGrows /\ UNCHANGED current
  BY SameHistoryGrows DEF SaveStalled, RequeueStalled, RenewLeases
<1>2. RecordsTruthful'
  BY <1>1, HeldTruthful, SaveTruthful, RecordsStayTruthful
  DEF SaveStalled, RequeueStalled, RenewLeases, OutcomeInv
<1>3. QueueTruthful'
  <2>1. ASSUME NEW r \in Replies, SaveStalled(p, r) PROVE QueueTruthful'
    BY <1>1, <2>1, QueueStaysTruthful DEF SaveStalled, OutcomeInv
  <2>2. ASSUME NEW r \in Replies, RequeueStalled(p, r) PROVE QueueTruthful'
    BY <1>1, <2>2, HeldTruthful, RequeueTruthful, QueueStaysTruthful
    DEF RequeueStalled, OutcomeInv
  <2>3. CASE RenewLeases(p)
    BY <1>1, <2>3, RenewOrTickTruthful DEF RenewLeases, Renew, OutcomeInv
  <2> QED
    BY <2>1, <2>2, <2>3
<1>4. ASSUME NEW q \in Pods, monitor'[q].object # Nil
      PROVE  monitor'[q].object = monitor[q].object /\ monitor[q].object \in Entry
  <2>1. monitor[q] \in Monitoring \cup {Idle}
    BY DEF TypeInv, WorkerPoolTypeOK
  <2>2. CASE monitor'[q] = monitor[q]
    BY <1>4, <2>1, <2>2 DEF Monitoring, Idle
  <2>3. CASE monitor'[q] # monitor[q]
    <3>1. ASSUME NEW r \in Replies, SaveStalled(p, r)
          PROVE  monitor'[q] = [monitor[q] EXCEPT !.at = "requeue"]
      BY <2>3, <3>1 DEF SaveStalled, TypeInv, WorkerPoolTypeOK
    <3>2. ASSUME NEW r \in Replies, RequeueStalled(p, r) PROVE FALSE
      <4>1. q = p /\ monitor[p] \in Monitoring
        BY <2>3, <3>2 DEF RequeueStalled, TypeInv, WorkerPoolTypeOK, Idle
      <4> DEFINE rest == [monitor[p] EXCEPT !.at = "replace", !.object = Nil]
      <4>2. monitor'[p] \in {rest, Idle}
        BY <3>2 DEF RequeueStalled, TypeInv, WorkerPoolTypeOK
      <4>3. rest.object = Nil
        BY <4>1 DEF Monitoring
      <4>4. Idle.object = Nil
        BY DEF Idle
      <4> HIDE DEF rest
      <4> QED
        BY <1>4, <4>1, <4>2, <4>3, <4>4
    <3>3. ~RenewLeases(p)
      BY <2>3 DEF RenewLeases, poolVars
    <3>4. monitor'[q] = [monitor[q] EXCEPT !.at = "requeue"]
      BY <3>1, <3>2, <3>3
    <3> QED
      BY <1>4, <2>1, <3>4 DEF Monitoring, Idle
  <2> QED
    BY <2>2, <2>3
<1>5. HandsTruthful'
  <2>1. \A q \in Pods : monitor'[q].object # Nil => Truthful(monitor[q].object)'
    BY <1>1, <1>4, TruthStays DEF OutcomeInv, HandsTruthful, Truthful
  <2>2. \A v \in Workers : current[v] # Nil => current[v] \in Entry
    BY DEF TypeInv, WorkerTypeOK
  <2> QED
    BY <1>1, <2>1, <2>2, TruthStays DEF OutcomeInv, HandsTruthful
<1> QED
  BY <1>1, <1>2, <1>3, <1>5, SchedulersStayTruthful DEF OutcomeInv

(* All the steps of a process. *)
LEMMA PodNextOutcome ==
  ASSUME TypeInv, OutcomeInv, NEW p \in Pods, PodNext(p)
  PROVE  OutcomeInv'
BY MemoryOutcome, MonitorOutcome DEF PodNext, PodStep, Exit, Crash

-----------------------------------------------------------------------------
(* The API, the scheduler, the reaper and the clock. *)

(* The two calls of /submit. *)
LEMMA SubmitOutcome ==
  ASSUME TypeInv, OutcomeInv, NEW j \in Jobs, NEW r \in Replies, Submit(j, r)
  PROVE  OutcomeInv'
<1>1. Submitted(j) \in Entry /\ Truthful(Submitted(j))
  BY SubmittedType, SubmittedTruthful
<1>2. UNCHANGED <<taskHistory, current, monitor, scheduler>> /\ HistoryGrows
  BY SameHistoryGrows DEF Submit
<1>3. QueueTruthful'
  BY <1>1, <1>2, PushTruthful, QueueStaysTruthful DEF Submit, OutcomeInv
<1>4. RecordsTruthful'
  BY <1>1, <1>2, SaveTruthful, RecordsStayTruthful DEF Submit, OutcomeInv
<1> QED
  BY <1>2, <1>3, <1>4, HandsStayTruthful, SchedulersStayTruthful DEF OutcomeInv

(* poll passes on the entries it has read, marked as pending. *)
LEMMA PollOutcome ==
  ASSUME TypeInv, OutcomeInv, NEW s \in Schedulers, PollStep(s) \/ SchedulerRestart(s)
  PROVE  OutcomeInv'
<1>1. UNCHANGED <<taskHistory, current, monitor, dlq, record>> /\ HistoryGrows
  BY SameHistoryGrows DEF PollStep, PollRead, PollPush, PollRemove, SchedulerRestart
<1>2. HandsTruthful'
  BY <1>1, HandsStayTruthful DEF OutcomeInv
<1>3. \A e \in scheduler[s].todo : /\ e \in Entry /\ Truthful(e)
                                   /\ [e EXCEPT !.status = "pending"] \in Entry
                                   /\ Truthful([e EXCEPT !.status = "pending"])
  BY EntriesOfScheduler, HarmlessStatus DEF OutcomeInv, SchedulersTruthful
<1>4. QueueTruthful'
  <2>1. ASSUME NEW e, NEW r, PollPush(s, e, r) PROVE QueueTruthful'
    BY <1>1, <1>3, <2>1, PushTruthful, QueueStaysTruthful DEF PollPush, OutcomeInv
  <2> QED
    BY <1>1, <2>1, QueueStaysTruthful
    DEF PollStep, PollRead, PollRemove, SchedulerRestart, OutcomeInv
<1>5. RecordsTruthful'
  <2>1. delayed' \subseteq delayed
    BY DEF PollStep, PollRead, PollPush, PollRemove, SchedulerRestart
  <2>2. /\ \A e \in delayed' : Truthful(e)'
        /\ \A e \in dlq' : Truthful(e)' /\ Exhausted(e)'
    BY <1>1, <2>1, TruthStays DEF OutcomeInv, RecordsTruthful, TypeInv, JobRecordsTypeOK,
                                 Exhausted
  <2> QED
    BY <1>1, <2>2 DEF OutcomeInv, RecordsTruthful, EndsReallyHappened
<1>6. ASSUME NEW z \in Schedulers
      PROVE  /\ \A e \in scheduler'[z].todo : Truthful(e)'
             /\ scheduler'[z].pushed # Nil => Truthful(scheduler[z].pushed)'
  <2>1. /\ \A e \in scheduler[z].todo : e \in Entry /\ Truthful(e)
        /\ scheduler[z].pushed # Nil =>
             scheduler[z].pushed \in Entry /\ Truthful(scheduler[z].pushed)
        /\ \A e \in delayed : e \in Entry /\ Truthful(e)
    BY EntriesOfScheduler
    DEF OutcomeInv, SchedulersTruthful, RecordsTruthful, TypeInv, JobRecordsTypeOK
  <2>2. /\ scheduler'[z].todo \subseteq scheduler[z].todo \cup delayed
        /\ scheduler'[z].pushed \in scheduler[z].todo \cup {scheduler[z].pushed, Nil}
    <3>1. CASE z = s
      <4> DEFINE todo == scheduler[s].todo
                 pushed == scheduler[s].pushed
      <4>1. scheduler[s] \in Polling
        BY EntriesOfScheduler
      <4>2. ASSUME NEW due \in SUBSET delayed, NEW r \in Replies, PollRead(s, due, r)
            PROVE  scheduler'[s].todo \in {due, todo} /\ scheduler'[s].pushed = pushed
        BY <4>1, <4>2 DEF PollRead, TypeInv, Polling
      <4>3. ASSUME NEW e, NEW r \in Replies, PollPush(s, e, r)
            PROVE  /\ scheduler'[s].todo = todo
                   /\ scheduler'[s].pushed \in {e, pushed} /\ e \in todo
        BY <4>1, <4>3 DEF PollPush, TypeInv, Polling
      <4>4. ASSUME NEW r \in Replies, PollRemove(s, r)
            PROVE  /\ scheduler'[s].todo \in {todo \ {pushed}, todo}
                   /\ scheduler'[s].pushed \in {Nil, pushed}
        BY <4>1, <4>4 DEF PollRemove, Rested, TypeInv, Polling
      <4>5. ASSUME SchedulerRestart(s)
            PROVE  scheduler'[s].todo = {} /\ scheduler'[s].pushed = Nil
        BY <4>5 DEF SchedulerRestart, Rested, TypeInv
      <4> HIDE DEF todo, pushed
      <4> QED
        BY <3>1, <4>2, <4>3, <4>4, <4>5 DEF PollStep, todo, pushed
    <3>2. CASE z # s
      BY <3>2 DEF PollStep, PollRead, PollPush, PollRemove, SchedulerRestart, TypeInv
    <3> QED
      BY <3>1, <3>2
  <2> QED
    BY <1>1, <2>1, <2>2, TruthStays DEF Truthful
<1> QED
  BY <1>2, <1>4, <1>5, <1>6 DEF OutcomeInv, SchedulersTruthful

(* The reaper puts back leased entries; the clock moves none. *)
LEMMA ReaperAndClockOutcome ==
  ASSUME TypeInv, OutcomeInv, ReaperPass \/ LeaseTick
  PROVE  OutcomeInv'
<1>1. UNCHANGED <<taskHistory, current, monitor, recordVars, scheduler>> /\ HistoryGrows
  BY SameHistoryGrows DEF ReaperPass, LeaseTick
<1>2. QueueTruthful'
  BY <1>1, ReapTruthful, RenewOrTickTruthful DEF ReaperPass, LeaseTick, Tick, OutcomeInv
<1> QED
  BY <1>1, <1>2, RecordsStayTruthful, HandsStayTruthful, SchedulersStayTruthful
  DEF OutcomeInv

(* Every step of the system keeps the invariant. *)
LEMMA OutcomeStep == TypeInv /\ OutcomeInv /\ [Next]_vars => OutcomeInv'
<1> SUFFICES ASSUME TypeInv, OutcomeInv, [Next]_vars PROVE OutcomeInv'
  OBVIOUS
<1>1. CASE UNCHANGED vars
  <2>1. UNCHANGED <<queueVars, recordVars, taskHistory, current, monitor, scheduler>>
    BY <1>1 DEF vars, redisVars
  <2> QED
    BY <2>1, SameHistoryGrows, QueueStaysTruthful, RecordsStayTruthful, HandsStayTruthful,
       SchedulersStayTruthful DEF OutcomeInv
<1> QED
  BY <1>1, WorkerNextOutcome, PodNextOutcome, SubmitOutcome, PollOutcome,
     ReaperAndClockOutcome DEF Next

(* So it always holds. *)
LEMMA OutcomeAlways == Spec => []OutcomeInv
BY OutcomeInit, OutcomeStep, TypeInvAlways, PTL DEF Spec

-----------------------------------------------------------------------------
(* A job reaches the dead letter queue only after max_retries failures of  *)
(* its task: crashes, lapses, requeues and duplicates use up no attempt.   *)
THEOREM DeathIsEarned == Spec => []BurialsAreEarned
<1>1. TypeInv /\ OutcomeInv => BurialsAreEarned
  BY HistoryType DEF OutcomeInv, RecordsTruthful, BurialsAreEarned, Truthful, Exhausted,
                     TypeInv, JobRecordsTypeOK, Entry
<1> QED
  BY <1>1, TypeInvAlways, OutcomeAlways, PTL

(* What /status says of an end has happened, whoever saved it and however  *)
(* late, also when recording that end failed.                              *)
THEOREM RecordedEndsAreTrue == Spec => []EndsReallyHappened
<1>1. OutcomeInv => EndsReallyHappened
  BY DEF OutcomeInv, RecordsTruthful
<1> QED
  BY <1>1, OutcomeAlways, PTL
=============================================================================
