------------------------------ MODULE CopiesProofs ------------------------------
(***************************************************************************)
(* Proofs that a job is not multiplied until its task fails, whatever is   *)
(* retried, reaped, replaced or restarted, and that the API never writes   *)
(* over the record of a job that others know; for every number of jobs,    *)
(* workers, processes and schedulers.                                      *)
(*                                                                         *)
(* Only two steps add an entry of a job that may be elsewhere: the push of *)
(* /submit, before which nobody can know the job, and the push of poll,    *)
(* which handles jobs that have failed.                                    *)
(***************************************************************************)
EXTENDS OrionQueueProofs

USE DEF redisVars, queueVars, leaseKeys, recordVars, threadVars, leaseHistory,
        taskHistory, poolVars, workerVars, vars

(* Nobody knows the job: no key names it, and no process has it in memory. *)
Unknown(j) ==
  /\ j \notin QueuedIds \cup Leased \cup DelayedIds
  /\ \A w \in Workers : current[w] # Nil => current[w].id # j
  /\ \A p \in Pods : monitor[p].object # Nil => monitor[p].object.id # j
  /\ \A s \in Schedulers : \A e \in scheduler[s].todo : e.id # j

(* No retry of it is waiting, being promoted or about to be recorded. *)
NoRetry(j) ==
  /\ j \notin DelayedIds
  /\ \A w \in Workers : pc[w] = "record" => current[w].id # j
  /\ \A s \in Schedulers : \A e \in scheduler[s].todo : e.id # j

CopiesInv ==
  \A j \in Jobs :
    /\ api[j] \in {"new", "saved"} => Unknown(j)
    /\ api[j] = "new" => record[j] = "none"
    /\ failures[j] = 0 => Single(j) /\ NoRetry(j)

(* At the start nobody knows anything. *)
LEMMA CopiesInit == Init => CopiesInv
BY DEF Init, QueueInit, JobRecordsInit, WorkerPoolInit, CopiesInv, Unknown, NoRetry, Single,
       QueuedIds, Leased, DelayedIds, Rested, Idle

-----------------------------------------------------------------------------
(* The scripts but push bring no new job to the queue or the leases, and   *)
(* make no second copy.                                                    *)
CopiesKept ==
  /\ QueuedIds' \cup Leased' \subseteq QueuedIds \cup Leased
  /\ \A j \in Jobs : Single(j) => Single(j)'

(* No step of the queue, no new copy. *)
LEMMA SameCopies == ASSUME UNCHANGED queueVars PROVE CopiesKept
<1>1. QueuedIds' = QueuedIds /\ Leased' = Leased /\ UNCHANGED queue
  BY DEF QueuedIds, Leased
<1> QED
  BY <1>1, SameSingle DEF CopiesKept

(* A pop turns an entry into a lease. *)
LEMMA PopCopies ==
  ASSUME QueueInv, NEW acked, NEW x \in queue \cup {Nil}, AckAndPop(acked, x)
  PROVE  CopiesKept
<1>1. Leased' = (Leased \ acked) \cup LeasedBy(x) /\ queue' \subseteq queue
  BY LeasedAfterPop DEF AckAndPop
<1>2. LeasedBy(x) \subseteq QueuedIds /\ QueuedIds' \subseteq QueuedIds
  BY <1>1 DEF LeasedBy, QueuedIds
<1> QED
  BY <1>1, <1>2, PopSingle DEF CopiesKept

(* An acknowledgement removes a lease. *)
LEMMA ForgetCopies == ASSUME NEW ids, Forget(ids), UNCHANGED queue PROVE CopiesKept
<1>1. QueuedIds' = QueuedIds /\ Leased' \subseteq Leased
  BY LeasedAfterForget DEF QueuedIds
<1> QED
  BY <1>1, ForgetSingle DEF CopiesKept

(* A requeue turns a lease into an entry. *)
LEMMA RequeueCopies ==
  ASSUME NEW m \in Entry, Requeue(m) PROVE CopiesKept
<1>1. CASE m.id \in Leased
  <2>1. queue' = WithMembers({Scored(m, Score[m.id])}) /\ Leased' = Leased \ {m.id}
    BY <1>1, LeasedAfterForget DEF Requeue
  <2>2. QueuedIds' = QueuedIds \cup {m.id}
    BY <2>1, IdsAfterAddingOne
  <2> QED
    BY <1>1, <2>1, <2>2, RequeueSingle DEF CopiesKept
<1>2. CASE m.id \notin Leased
  BY <1>2, SameCopies DEF Requeue
<1> QED
  BY <1>1, <1>2

(* Renewals and the clock change deadlines only. *)
LEMMA RenewOrTickCopies ==
  ASSUME QueueInv, (\E ids : Renew(ids)) \/ Tick PROVE CopiesKept
<1>1. Leased' = Leased /\ UNCHANGED queue
  BY LeasedAfterRenew, LeasedAfterTick DEF Renew, Tick
<1>2. QueuedIds' = QueuedIds
  BY <1>1 DEF QueuedIds
<1> QED
  BY <1>1, <1>2, SameSingle DEF CopiesKept

(* The reaper turns leases into entries. *)
LEMMA ReapCopies ==
  ASSUME QueueInv, NEW S \in Batches, Reap(S) PROVE CopiesKept
<1>1. QueuedIds' = QueuedIds \cup S /\ Leased' = Leased \ S
  BY IdsAfterReap
<1>2. S \subseteq Leased
  BY NilIsNothing DEF Batches, Lapsed, Leased
<1> QED
  BY <1>1, <1>2, ReapSingle DEF CopiesKept

(* What the steps outside the API have to show. *)
LEMMA CopiesFrame ==
  ASSUME CopiesInv, CopiesKept, UNCHANGED api,
         \A j \in Jobs : Unknown(j) => Unknown(j)' /\ record'[j] = record[j],
         \A j \in Jobs : failures'[j] = 0 => failures[j] = 0 /\ (NoRetry(j) => NoRetry(j)')
  PROVE  CopiesInv'
BY DEF CopiesInv, CopiesKept

-----------------------------------------------------------------------------
(* The threads. *)

(* What a step of the thread of w has to show: the job it has in hand      *)
(* afterwards is the one it had or comes from the queue, what it adds to   *)
(* the delayed queue or to the records is the one it has in hand, and only *)
(* a failed task is about to be recorded as one.                           *)
LEMMA ThreadCopies ==
  ASSUME TypeInv, CopiesInv, CopiesKept, UNCHANGED <<api, scheduler>>,
         NEW w \in Workers, LeaveObject(w),
         \A v \in Workers \ {w} : current'[v] = current[v] /\ pc'[v] = pc[v],
         current'[w] # Nil => \/ current[w] # Nil /\ current'[w].id = current[w].id
                              \/ current'[w].id \in QueuedIds,
         \A i \in DelayedIds' \ DelayedIds : pc[w] = "record" /\ i = current[w].id,
         \A j \in Jobs : record'[j] # record[j] => current[w] # Nil /\ current[w].id = j,
         \A j \in Jobs : failures'[j] = 0 => failures[j] = 0,
         pc'[w] = "record" => failures'[current'[w].id] # 0
  PROVE  CopiesInv'
<1>1. pc[w] = "record" => current[w] # Nil
  BY DEF TypeInv, BusyHasJob, Busy
<1>2. ASSUME NEW j \in Jobs, Unknown(j) PROVE Unknown(j)' /\ record'[j] = record[j]
  <2>1. j \notin QueuedIds' \cup Leased' \cup DelayedIds'
    BY <1>1, <1>2 DEF CopiesKept, Unknown
  <2>2. \A v \in Workers : current'[v] # Nil => current'[v].id # j
    BY <1>2 DEF Unknown
  <2>3. \A p \in Pods : monitor'[p].object # Nil => monitor'[p].object.id # j
    <3> SUFFICES ASSUME NEW p \in Pods, monitor'[p].object # Nil
                 PROVE  monitor'[p].object.id # j
      OBVIOUS
    <3>1. monitor[p] \in Monitoring \cup {Idle}
      BY DEF TypeInv, WorkerPoolTypeOK
    <3>2. monitor'[p].object = monitor[p].object \/ monitor'[p].object = current[w]
      BY <3>1 DEF LeaveObject, Monitoring, Idle
    <3> QED
      BY <1>2, <3>2 DEF Unknown
  <2> QED
    BY <1>2, <2>1, <2>2, <2>3 DEF Unknown
<1>3. ASSUME NEW j \in Jobs, failures'[j] = 0, NoRetry(j) PROVE NoRetry(j)'
  <2>1. j \notin DelayedIds'
    BY <1>3 DEF NoRetry
  <2>2. \A v \in Workers : pc'[v] = "record" => current'[v].id # j
    BY <1>3 DEF NoRetry
  <2> QED
    BY <1>3, <2>1, <2>2 DEF NoRetry
<1> QED
  BY <1>2, <1>3, CopiesFrame

(* take() brings a job from the queue, or none. *)
LEMMA TakeCopies ==
  ASSUME TypeInv, CopiesInv, UNCHANGED <<api, scheduler>>, NEW w \in Workers,
         LeaveObject(w), NEW r \in Replies, NEW x \in queue \cup {Nil}, Take(w, r, x)
  PROVE  CopiesInv'
<1>1. CopiesKept
  BY PopCopies, SameCopies DEF Take, TypeInv
<1>2. current'[w] # Nil => \/ current'[w].id = current[w].id /\ current[w] # Nil
                           \/ current'[w].id \in QueuedIds
  <2> DEFINE job == IF r = "ok" THEN Parsed(x) ELSE Nil
  <2>1. CASE job = Nil
    BY <2>1 DEF Take
  <2>2. CASE job # Nil
    <3>1. x \in queue /\ job = x.member /\ job \in Entry
      BY <2>2 DEF Parsed, TypeInv, QueueInv, QueueTypeOK
    <3>2. current'[w] = [job EXCEPT !.status = "running"]
      BY <2>2 DEF Take, TypeInv, WorkerTypeOK
    <3>3. current'[w].id = job.id
      BY <3>1, <3>2 DEF Entry
    <3> QED
      BY <3>1, <3>3 DEF QueuedIds
  <2> QED
    BY <2>1, <2>2
<1>3. /\ \A v \in Workers \ {w} : current'[v] = current[v] /\ pc'[v] = pc[v]
      /\ UNCHANGED <<recordVars, failures>> /\ pc'[w] # "record"
  BY DEF Take, TypeInv, WorkerTypeOK
<1>4. DelayedIds' = DelayedIds
  BY <1>3 DEF DelayedIds
<1> QED
  BY <1>1, <1>2, <1>3, <1>4, ThreadCopies

(* A thread whose task has failed still has the job in hand. *)
LEMMA FailedHasJob ==
  ASSUME TypeInv, NEW w \in Workers, Fail(w)
  PROVE  current'[w] # Nil /\ current'[w].id = current[w].id
<1> DEFINE tried == [current[w] EXCEPT !.attempt = @ + 1]
<1>1. current[w] \in Entry /\ failures[current[w].id] + 1 \in Nat
  BY InHandType, WorkerAssumption
  DEF Fail, Busy, Entry, TypeInv, WorkerTypeOK, WorkerAssumption
<1>2. tried \in Entry /\ tried.id = current[w].id
  BY <1>1 DEF Entry
<1>3. \/ current'[w] = [tried EXCEPT !.status = "dead"]
      \/ current'[w] = [tried EXCEPT !.status = "pending",
                                     !.stamp = failures[current[w].id] + 1]
  BY DEF Fail, TypeInv, WorkerTypeOK
<1> HIDE DEF tried
<1>4. current'[w] \in Entry /\ current'[w].id = tried.id
  <2>1. CASE current'[w] = [tried EXCEPT !.status = "dead"]
    BY <1>2, <2>1 DEF Entry, Status
  <2>2. CASE current'[w] = [tried EXCEPT !.status = "pending",
                                         !.stamp = failures[current[w].id] + 1]
    BY <1>1, <1>2, <2>2 DEF Entry, Status
  <2> QED
    BY <1>3, <2>1, <2>2
<1> QED
  BY <1>2, <1>4, NilIsNothing

(* The task ends. *)
LEMMA TaskCopies ==
  ASSUME TypeInv, CopiesInv, UNCHANGED <<api, scheduler>>, NEW w \in Workers,
         LeaveObject(w), Succeed(w) \/ Fail(w) \/ Abort(w)
  PROVE  CopiesInv'
<1>1. CopiesKept /\ DelayedIds' = DelayedIds /\ UNCHANGED recordVars
  BY SameCopies DEF Succeed, Fail, Abort, DelayedIds
<1>2. current[w] \in Entry /\ current[w] # Nil /\ current[w].id \in Jobs
  BY InHandType, NilIsNothing DEF Succeed, Fail, Abort, Busy, Entry
<1>3. /\ \A v \in Workers \ {w} : current'[v] = current[v] /\ pc'[v] = pc[v]
      /\ current'[w] # Nil => current'[w].id = current[w].id
  <2>1. \A v \in Workers \ {w} : current'[v] = current[v] /\ pc'[v] = pc[v]
    BY DEF Succeed, Fail, Abort, TypeInv, WorkerTypeOK
  <2>2. CASE Succeed(w)
    <3>1. current'[w] = [current[w] EXCEPT !.status = "done"]
      BY <2>2 DEF Succeed, TypeInv, WorkerTypeOK
    <3> QED
      BY <1>2, <2>1, <3>1 DEF Entry
  <2>3. CASE Abort(w)
    BY <2>1, <2>3 DEF Abort, TypeInv, WorkerTypeOK
  <2> QED
    BY <2>1, <2>2, <2>3, FailedHasJob
<1>4. \A j \in Jobs : failures'[j] = 0 => failures[j] = 0
  BY <1>2, WorkerAssumption
  DEF Succeed, Fail, Abort, TypeInv, WorkerTypeOK, WorkerAssumption
<1>5. pc'[w] = "record" => failures'[current'[w].id] # 0
  <2>1. CASE Fail(w)
    <3>1. failures[current[w].id] \in Nat
      BY <1>2, WorkerAssumption DEF TypeInv, WorkerTypeOK, WorkerAssumption
    <3>2. failures'[current[w].id] = failures[current[w].id] + 1
      BY <1>2, <2>1 DEF Fail, TypeInv, WorkerTypeOK
    <3>3. current'[w].id = current[w].id
      BY <1>3, <2>1, FailedHasJob
    <3> QED
      BY <3>1, <3>2, <3>3
  <2>2. CASE Succeed(w) \/ Abort(w)
    BY <2>2 DEF Succeed, Abort, TypeInv, WorkerTypeOK
  <2> QED
    BY <2>1, <2>2
<1> QED
  BY <1>1, <1>2, <1>3, <1>4, <1>5, ThreadCopies

(* Saving the status, and recording a failure. *)
LEMMA SavingCopies ==
  ASSUME TypeInv, CopiesInv, UNCHANGED <<api, scheduler>>, NEW w \in Workers,
         LeaveObject(w), NEW r \in Replies,
         Start(w, r) \/ Finish(w, r) \/ RecordFailure(w, r)
  PROVE  CopiesInv'
<1>1. current[w] \in Entry /\ current[w] # Nil
  BY InHandType, NilIsNothing DEF Start, Finish, RecordFailure, Busy
<1>2. CopiesKept /\ UNCHANGED failures
  BY SameCopies DEF Start, Finish, RecordFailure
<1>3. /\ \A v \in Workers \ {w} : current'[v] = current[v] /\ pc'[v] = pc[v]
      /\ current'[w] \in {current[w], Nil}
      /\ pc'[w] # "record"
  BY DEF Start, Finish, RecordFailure, TypeInv, WorkerTypeOK
<1>4. \A i \in DelayedIds' \ DelayedIds : pc[w] = "record" /\ i = current[w].id
  BY DEF Start, Finish, RecordFailure, Save, AddDead, AddDelayed, DelayedIds
<1>5. \A j \in Jobs : record'[j] # record[j] => current[w].id = j
  BY DEF Start, Finish, RecordFailure, Save, AddDead, AddDelayed, TypeInv, JobRecordsTypeOK
<1> QED
  BY <1>1, <1>2, <1>3, <1>4, <1>5, ThreadCopies

(* The rest of a thread's life. *)
LEMMA OtherThreadCopies ==
  ASSUME TypeInv, CopiesInv, UNCHANGED <<api, scheduler>>, NEW w \in Workers,
         LeaveObject(w), LoopTest(w) \/ \E r \in Replies : Release(w, r)
  PROVE  CopiesInv'
<1>1. CopiesKept
  <2>1. CASE LoopTest(w)
    BY <2>1, SameCopies DEF LoopTest
  <2>2. ASSUME NEW r \in Replies, Release(w, r) PROVE CopiesKept
    <3>1. UNCHANGED queue /\ (Forget(Owed(w)) \/ UNCHANGED leaseKeys)
      BY <2>2 DEF Release
    <3> QED
      BY <3>1, ForgetCopies, SameCopies
  <2> QED
    BY <2>1, <2>2
<1>2. /\ UNCHANGED <<recordVars, failures, current>>
      /\ \A v \in Workers \ {w} : pc'[v] = pc[v]
      /\ pc'[w] # "record"
  BY DEF LoopTest, Release, TypeInv, WorkerTypeOK
<1>3. DelayedIds' = DelayedIds
  BY <1>2 DEF DelayedIds
<1> QED
  BY <1>1, <1>2, <1>3, ThreadCopies

(* All steps of a worker thread together. *)
LEMMA WorkerNextCopies ==
  ASSUME TypeInv, CopiesInv, NEW w \in Workers, WorkerNext(w)
  PROVE  CopiesInv'
<1>1. WorkerStep(w) /\ LeaveObject(w) /\ UNCHANGED <<api, scheduler>>
  BY DEF WorkerNext, ThreadStep
<1> QED
  BY <1>1, TakeCopies, TaskCopies, SavingCopies, OtherThreadCopies DEF WorkerStep

-----------------------------------------------------------------------------
(* The processes. *)

(* Steps in memory: they make up no job and begin no recording. *)
LEMMA MemoryCopies ==
  ASSUME TypeInv, CopiesInv, NEW p \in Pods, UNCHANGED <<api, scheduler>>,
         \/ \E w \in Workers : FindStalled(p, w) \/ Replace(p, w)
                               \/ ScaleUp(p, w) \/ ScaleDown(p, w)
         \/ Drain(p) \/ Restart(p)
  PROVE  CopiesInv'
<1>1. CopiesKept /\ UNCHANGED <<queueVars, recordVars, failures>>
  BY SameCopies DEF FindStalled, Replace, ScaleUp, ScaleDown, Drain, Restart
<1>2. DelayedIds' = DelayedIds /\ QueuedIds' = QueuedIds /\ Leased' = Leased
  BY <1>1 DEF DelayedIds, QueuedIds, Leased
<1>3. ASSUME NEW v \in Workers
      PROVE  /\ current'[v] # Nil => current[v] # Nil /\ current'[v].id = current[v].id
             /\ pc'[v] = "record" => pc[v] = "record" /\ current'[v].id = current[v].id
  <2>1. ASSUME NEW w \in Workers, FindStalled(p, w)
        PROVE  UNCHANGED pc /\ (current'[v] # current[v]
                 => current[v] # Nil /\ current'[v].id = current[v].id)
    <3>1. Busy(w) => current[w] \in Entry /\ current[w] # Nil
      BY InHandType, NilIsNothing
    <3> QED
      BY <2>1, <3>1 DEF FindStalled, TypeInv, WorkerTypeOK, Entry
  <2>2. ASSUME NEW w \in Workers, Replace(p, w) \/ ScaleUp(p, w) \/ ScaleDown(p, w) \/ Drain(p)
        PROVE  UNCHANGED current /\ (pc'[v] = "record" => pc[v] = "record")
    BY <2>2 DEF Replace, ScaleUp, ScaleDown, Drain, TypeInv, WorkerTypeOK
  <2>3. ASSUME Restart(p)
        PROVE  \/ current'[v] = Nil /\ pc'[v] # "record"
               \/ current'[v] = current[v] /\ pc'[v] = pc[v]
    BY <2>3 DEF Restart
  <2>4. pc[v] = "record" => current[v] # Nil
    BY DEF TypeInv, BusyHasJob, Busy
  <2> QED
    BY <2>1, <2>2, <2>3, <2>4
<1>4. \A q \in Pods : monitor'[q].object # Nil => monitor'[q].object = monitor[q].object
  BY DEF FindStalled, Replace, ScaleUp, ScaleDown, Drain, Restart, Idle, TypeInv,
         WorkerPoolTypeOK
<1>5. \A j \in Jobs : Unknown(j) => Unknown(j)'
  BY <1>2, <1>3, <1>4 DEF Unknown
<1>6. \A j \in Jobs : NoRetry(j) => NoRetry(j)'
  BY <1>2, <1>3 DEF NoRetry
<1> QED
  BY <1>1, <1>5, <1>6, CopiesFrame

(* The calls of the monitor are about a job that it or the thread has. *)
LEMMA MonitorCopies ==
  ASSUME TypeInv, CopiesInv, NEW p \in Pods, UNCHANGED <<api, scheduler>>,
         \/ \E r \in Replies : SaveStalled(p, r) \/ RequeueStalled(p, r)
         \/ RenewLeases(p)
  PROVE  CopiesInv'
<1>1. /\ UNCHANGED <<current, pc, delayed, failures>>
      /\ monitor[p].at \in {"save", "requeue"} \/ UNCHANGED monitor
  BY DEF SaveStalled, RequeueStalled, RenewLeases, Save
<1>2. monitor[p].at \in {"save", "requeue"} =>
        /\ Held(p) \in Entry
        /\ \A j \in Jobs : Unknown(j) => Held(p).id # j
  <2> SUFFICES ASSUME monitor[p].at \in {"save", "requeue"}
               PROVE  /\ Held(p) \in Entry
                      /\ \A j \in Jobs : Unknown(j) => Held(p).id # j
    OBVIOUS
  <2>1. Held(p) \in Entry /\ Held(p) # Nil
    BY HeldType, NilIsNothing
  <2>2. monitor[p].worker \in Workers
    BY DEF TypeInv, WorkerPoolTypeOK, Monitoring, Idle
  <2> QED
    BY <2>1, <2>2 DEF Held, Unknown
<1>3. CopiesKept
  <2>1. ASSUME NEW r \in Replies, RequeueStalled(p, r) PROVE CopiesKept
    BY <1>2, <2>1, RequeueCopies, SameCopies DEF RequeueStalled
  <2>2. ASSUME NEW r \in Replies, SaveStalled(p, r) PROVE CopiesKept
    BY <2>2, SameCopies DEF SaveStalled
  <2>3. CASE RenewLeases(p)
    BY <2>3, RenewOrTickCopies DEF RenewLeases, TypeInv
  <2> QED
    BY <2>1, <2>2, <2>3
<1>4. ASSUME NEW j \in Jobs, Unknown(j) PROVE record'[j] = record[j]
  BY <1>2, <1>4 DEF SaveStalled, RequeueStalled, RenewLeases, Save, TypeInv, JobRecordsTypeOK
<1>5. DelayedIds' = DelayedIds
  BY <1>1 DEF DelayedIds
<1>6. \A q \in Pods : monitor'[q].object # Nil => monitor'[q].object = monitor[q].object
  <2> SUFFICES ASSUME NEW q \in Pods PROVE monitor'[q].object \in {monitor[q].object, Nil}
    OBVIOUS
  <2>1. \/ UNCHANGED monitor
        \/ monitor' = [monitor EXCEPT ![p].at = "requeue"]
        \/ monitor' = [monitor EXCEPT ![p] = [monitor[p] EXCEPT !.at = "replace", !.object = Nil]]
        \/ monitor' = [monitor EXCEPT ![p] = Idle]
    BY DEF SaveStalled, RequeueStalled, RenewLeases
  <2>2. monitor[q] \in Monitoring \cup {Idle} /\ monitor \in [Pods -> Monitoring \cup {Idle}]
    BY DEF TypeInv, WorkerPoolTypeOK
  <2>3. [monitor[p] EXCEPT !.at = "requeue"].object = monitor[p].object
    BY <2>2 DEF TypeInv, WorkerPoolTypeOK, Monitoring, Idle
  <2>4. [monitor[p] EXCEPT !.at = "replace", !.object = Nil].object = Nil
    BY <2>2 DEF TypeInv, WorkerPoolTypeOK, Monitoring, Idle
  <2>5. CASE q # p
    BY <2>1, <2>2, <2>5
  <2>6. CASE q = p
    <3>1. \/ monitor'[p] = monitor[p]
          \/ monitor'[p] = [monitor[p] EXCEPT !.at = "requeue"]
          \/ monitor'[p] = [monitor[p] EXCEPT !.at = "replace", !.object = Nil]
          \/ monitor'[p] = Idle
      BY <2>1, <2>2
    <3>2. Idle.object = Nil
      BY DEF Idle
    <3>3. monitor'[p].object \in {monitor[p].object, Nil}
      BY <2>3, <2>4, <3>1, <3>2, Zenon
    <3> QED
      BY <2>6, <3>3
  <2> QED
    BY <2>5, <2>6
<1>7. \A j \in Jobs : Unknown(j) => Unknown(j)'
  BY <1>1, <1>3, <1>5, <1>6 DEF Unknown, CopiesKept
<1>8. \A j \in Jobs : NoRetry(j) => NoRetry(j)'
  BY <1>1, <1>5 DEF NoRetry
<1> QED
  BY <1>1, <1>3, <1>4, <1>7, <1>8, CopiesFrame

(* All steps of a process together. *)
LEMMA PodNextCopies ==
  ASSUME TypeInv, CopiesInv, NEW p \in Pods, PodNext(p)
  PROVE  CopiesInv'
BY MemoryCopies, MonitorCopies DEF PodNext, PodStep, Exit, Crash

-----------------------------------------------------------------------------
(* The API, the scheduler, the reaper and the clock. *)

(* /submit: nobody knows the job before it is pushed. *)
LEMMA SubmitCopies ==
  ASSUME TypeInv, CopiesInv, NEW j \in Jobs, NEW r \in Replies, Submit(j, r)
  PROVE  CopiesInv'
<1>1. /\ UNCHANGED <<current, pc, monitor, scheduler, delayed, failures>>
      /\ api[j] \in {"new", "saved"} /\ api'[j] # "new"
      /\ \A i \in Jobs \ {j} : api'[i] = api[i] /\ record'[i] = record[i]
      /\ Unknown(j)
  BY DEF Submit, Save, Submitted, CopiesInv, TypeInv, JobRecordsTypeOK
<1>2. DelayedIds' = DelayedIds
  BY <1>1 DEF DelayedIds
<1>3. \A i \in Jobs : NoRetry(i) => NoRetry(i)'
  BY <1>1, <1>2 DEF NoRetry
<1>4. CASE UNCHANGED queueVars
  <2>1. QueuedIds' = QueuedIds /\ Leased' = Leased
    BY <1>4 DEF QueuedIds, Leased
  <2>2. \A i \in Jobs : (Unknown(i) => Unknown(i)') /\ (Single(i) => Single(i)')
    BY <1>1, <1>2, <1>4, <2>1, SameCopies DEF Unknown, CopiesKept
  <2> QED
    BY <1>1, <1>3, <2>2 DEF CopiesInv
<1>5. CASE Push(Submitted(j)) /\ api[j] = "saved"
  <2>1. QueuedIds' = QueuedIds \cup {j} /\ Leased' = Leased
    <3>1. Submitted(j).id = j
      BY DEF Submitted
    <3> QED
      BY <1>5, <3>1, IdsAfterAddingOne DEF Push, Leased
  <2>2. \A i \in Jobs : Single(i) => Single(i)'
    BY <1>1, <1>5, PushSingle DEF Unknown, Submitted
  <2>3. \A i \in Jobs \ {j} : Unknown(i) => Unknown(i)'
    BY <1>1, <1>2, <2>1 DEF Unknown
  <2>4. api'[j] \in {"accepted", "failed"}
    BY <1>5 DEF Submit, TypeInv
  <2> QED
    BY <1>1, <1>3, <2>2, <2>3, <2>4 DEF CopiesInv
<1> QED
  BY <1>4, <1>5 DEF Submit

(* poll: whatever it pushes has failed before. *)
LEMMA PollCopies ==
  ASSUME TypeInv, CopiesInv, NEW s \in Schedulers, PollStep(s) \/ SchedulerRestart(s)
  PROVE  CopiesInv'
<1>1. /\ UNCHANGED <<current, pc, monitor, failures, api, record>>
      /\ delayed' \subseteq delayed
  BY DEF PollStep, PollRead, PollPush, PollRemove, SchedulerRestart
<1>2. DelayedIds' \subseteq DelayedIds
  BY <1>1 DEF DelayedIds
<1>3. \A z \in Schedulers : scheduler'[z].todo \subseteq scheduler[z].todo \cup delayed
  <2>1. CASE PollStep(s)
    <3>1. \A z \in Schedulers \ {s} : scheduler'[z] = scheduler[z]
      BY <2>1 DEF PollStep, PollRead, PollPush, PollRemove, TypeInv
    <3>2. scheduler[s] \in Polling
      BY EntriesOfScheduler
    <3>3. ASSUME NEW due \in SUBSET delayed, NEW r \in Replies, PollRead(s, due, r)
          PROVE  scheduler'[s].todo \in {due, scheduler[s].todo}
      BY <3>2, <3>3 DEF PollRead, TypeInv, Polling
    <3>4. ASSUME NEW e, NEW r \in Replies, PollPush(s, e, r)
          PROVE  scheduler'[s].todo = scheduler[s].todo
      BY <3>2, <3>4 DEF PollPush, TypeInv, Polling
    <3>5. ASSUME NEW r \in Replies, PollRemove(s, r)
          PROVE  scheduler'[s].todo \subseteq scheduler[s].todo
      BY <3>2, <3>5 DEF PollRemove, Rested, TypeInv, Polling
    <3> QED
      BY <2>1, <3>1, <3>3, <3>4, <3>5 DEF PollStep
  <2>2. CASE SchedulerRestart(s)
    BY <2>2 DEF SchedulerRestart, Rested, TypeInv
  <2> QED
    BY <2>1, <2>2
<1>4. \A z \in Schedulers : \A e \in scheduler'[z].todo :
        e \in scheduler[z].todo \/ e.id \in DelayedIds
  BY <1>3 DEF DelayedIds
<1>5. \A j \in Jobs : NoRetry(j) => NoRetry(j)'
  BY <1>1, <1>2, <1>4 DEF NoRetry
<1>6. CASE UNCHANGED queueVars
  <2>1. CopiesKept /\ QueuedIds' = QueuedIds /\ Leased' = Leased
    BY <1>6, SameCopies DEF QueuedIds, Leased
  <2>2. \A j \in Jobs : Unknown(j) => Unknown(j)'
    BY <1>1, <1>2, <1>4, <2>1 DEF Unknown
  <2> QED
    BY <1>1, <1>5, <2>1, <2>2, CopiesFrame
<1>7. ASSUME NEW e \in scheduler[s].todo, Push([e EXCEPT !.status = "pending"])
      PROVE  CopiesInv'
  <2>1. e \in Entry /\ [e EXCEPT !.status = "pending"].id = e.id
    BY EntriesOfScheduler DEF Entry
  <2>2. QueuedIds' = QueuedIds \cup {e.id} /\ Leased' = Leased
    BY <1>7, <2>1, IdsAfterAddingOne DEF Push, Leased
  <2>3. \A j \in Jobs : Unknown(j) => e.id # j
    BY DEF Unknown
  <2>4. \A j \in Jobs : Unknown(j) => Unknown(j)'
    BY <1>1, <1>2, <1>4, <2>2, <2>3 DEF Unknown
  <2>5. \A j \in Jobs : failures[j] = 0 => e.id # j
    BY DEF CopiesInv, NoRetry
  <2>6. \A j \in Jobs : failures[j] = 0 /\ Single(j) => Single(j)'
    BY <1>7, <2>1, <2>5, PushSingle
  <2> QED
    BY <1>1, <1>5, <2>4, <2>6 DEF CopiesInv
<1>8. UNCHANGED queueVars \/ \E e \in scheduler[s].todo : Push([e EXCEPT !.status = "pending"])
  BY DEF PollStep, PollRead, PollPush, PollRemove, SchedulerRestart
<1> QED
  BY <1>6, <1>7, <1>8

(* The reaper and the clock. *)
LEMMA ReaperAndClockCopies ==
  ASSUME TypeInv, CopiesInv, ReaperPass \/ LeaseTick
  PROVE  CopiesInv'
<1>1. UNCHANGED <<current, pc, monitor, failures, recordVars, api, scheduler>>
  BY DEF ReaperPass, LeaseTick
<1>2. CopiesKept
  BY ReapCopies, RenewOrTickCopies DEF ReaperPass, LeaseTick, TypeInv
<1>3. DelayedIds' = DelayedIds
  BY <1>1 DEF DelayedIds
<1>4. \A j \in Jobs : (Unknown(j) => Unknown(j)') /\ (NoRetry(j) => NoRetry(j)')
  BY <1>1, <1>2, <1>3 DEF Unknown, NoRetry, CopiesKept
<1> QED
  BY <1>1, <1>2, <1>4, CopiesFrame

(* Every step of the system keeps the invariant. *)
LEMMA CopiesStep == TypeInv /\ CopiesInv /\ [Next]_vars => CopiesInv'
<1> SUFFICES ASSUME TypeInv, CopiesInv, [Next]_vars PROVE CopiesInv'
  OBVIOUS
<1>1. CASE UNCHANGED vars
  <2>1. UNCHANGED <<queueVars, recordVars, current, pc, monitor, failures, api, scheduler>>
    BY <1>1
  <2>2. CopiesKept /\ DelayedIds' = DelayedIds
    BY <2>1, SameCopies DEF DelayedIds
  <2>3. \A j \in Jobs : (Unknown(j) => Unknown(j)') /\ (NoRetry(j) => NoRetry(j)')
    BY <2>1, <2>2 DEF Unknown, NoRetry, CopiesKept
  <2> QED
    BY <2>1, <2>2, <2>3, CopiesFrame
<1> QED
  BY <1>1, WorkerNextCopies, PodNextCopies, SubmitCopies, PollCopies, ReaperAndClockCopies
  DEF Next

(* The invariant always holds. *)
LEMMA CopiesAlways == Spec => []CopiesInv
BY CopiesInit, CopiesStep, TypeInvAlways, PTL DEF Spec

-----------------------------------------------------------------------------
(* Until its task fails a job is queued once or leased, never both: no     *)
(* crash, lapse, requeue, replacement or repeated call makes a second copy. *)
THEOREM JobsAreNotMultiplied == Spec => []OneCopy
<1>1. CopiesInv => OneCopy
  BY DEF CopiesInv, Single, OneCopy
<1> QED
  BY <1>1, CopiesAlways, PTL

(* The record the API writes never replaces one that is there already: a   *)
(* job whose record /submit has yet to write is known to nobody.           *)
THEOREM SubmissionsComeFirst == Spec => SubmitOverwritesNothing
<1>1. TypeInv /\ CopiesInv /\ [Next]_vars =>
        [\A j \in Jobs : api'[j] # api[j] /\ record'[j] # record[j] => record[j] = "none"]_vars
  <2> SUFFICES ASSUME TypeInv, CopiesInv, Next,
                      NEW j \in Jobs, api'[j] # api[j], record'[j] # record[j]
               PROVE  record[j] = "none"
    OBVIOUS
  <2>1. PICK i \in Jobs : \E r \in Replies : Submit(i, r)
    BY DEF Next, WorkerNext, PodNext, PollStep, PollRead, PollPush, PollRemove,
           SchedulerRestart, ReaperPass, LeaseTick
  <2>2. i = j /\ api[i] = "new"
    BY <2>1 DEF Submit, Save, Submitted, TypeInv, JobRecordsTypeOK
  <2> QED
    BY <2>2 DEF CopiesInv
<1> QED
  BY <1>1, TypeInvAlways, CopiesAlways, PTL DEF Spec, SubmitOverwritesNothing

-----------------------------------------------------------------------------
(* Calm: nothing fails or crashes, no lease lapses, no thread is found     *)
(* stalled (a pool without spares never replaces one), and one scheduler   *)
(* runs, as in the deployment.  Then a failure counts exactly once.        *)
Calm ==
  /\ MaxDisruptions = 0
  /\ ~Lapsing
  /\ Spares = {}
  /\ \A s, t \in Schedulers : s = t

(* Leases are young, no process stops or replaces a thread, and what a     *)
(* scheduler has read is still in the delayed queue.                       *)
Quiet ==
  /\ \A j \in Jobs : processing[j] \in {Nil, LeaseTicks}
  /\ \A p \in Pods : monitor[p] = Idle
  /\ draining = {}
  /\ \A w \in Workers : pc[w] # "unborn"
  /\ \A s \in Schedulers :
       /\ scheduler[s].todo \subseteq delayed
       /\ scheduler[s].pushed \in scheduler[s].todo \cup {Nil}

(* The three places an attempt of a job can be in: the queue, the hands of *)
(* a thread, and the retries that poll has yet to push.                    *)
Carries(w, j) == pc[w] \in {"start", "run", "record"} /\ current[w].id = j

Awaited == {e \in delayed : \A s \in Schedulers : scheduler[s].pushed # e}

(* An attempt is in one place. *)
OnePlace(j) ==
  /\ \A x, y \in queue : x.member.id = j /\ y.member.id = j => x = y
  /\ \A v, w \in Workers : Carries(v, j) /\ Carries(w, j) => v = w
  /\ \A d, e \in Awaited : d.id = j /\ e.id = j => d = e
  /\ \A x \in queue, w \in Workers : ~(x.member.id = j /\ Carries(w, j))
  /\ \A x \in queue, e \in Awaited : ~(x.member.id = j /\ e.id = j)
  /\ \A w \in Workers, e \in Awaited : ~(Carries(w, j) /\ e.id = j)

(* It is the attempt after the last failure, of a job still to succeed. *)
IsNext(j, attempt) == attempt = failures[j] /\ j \notin done

NextAttempt(j) ==
  /\ \A x \in queue : x.member.id = j => IsNext(j, x.member.attempt)
  /\ \A w \in Workers : Carries(w, j) => IsNext(j, current[w].attempt)
  /\ \A e \in Awaited : e.id = j => IsNext(j, e.attempt)
  /\ api[j] \in {"new", "saved"} => IsNext(j, 0)

AttemptInv == \A j \in Jobs : OnePlace(j) /\ NextAttempt(j)

(* At the start all is quiet, and nothing has been tried. *)
LEMMA AttemptInit == Calm /\ Init => Quiet /\ AttemptInv
<1> SUFFICES ASSUME Calm, Init PROVE Quiet /\ AttemptInv
  OBVIOUS
<1>1. Quiet
  BY DEF Calm, Init, QueueInit, WorkerPoolInit, Quiet, Rested
<1>2. /\ queue = {} /\ delayed = {} /\ done = {}
      /\ \A w \in Workers : pc[w] = "loop"
      /\ \A j \in Jobs : failures[j] = 0
  BY DEF Calm, Init, QueueInit, JobRecordsInit, WorkerPoolInit
<1> QED
  BY <1>1, <1>2 DEF AttemptInv, OnePlace, NextAttempt, IsNext, Carries, Awaited

(* No call fails, and nothing crashes. *)
LEMMA CalmReplies ==
  ASSUME Calm, TypeInv PROVE ~Disrupt /\ \A r \in Replies : Reply(r) => r = "ok"
BY DEF Calm, TypeInv, JobRecordsTypeOK, Disrupt, Reply

(* What is left of the program: threads that do not abort, renewals,       *)
(* submissions and polls that succeed.                                     *)
LEMMA CalmSteps ==
  ASSUME Calm, TypeInv, Quiet, Next
  PROVE  \/ \E w \in Workers : WorkerNext(w) /\ ~Abort(w)
         \/ \E p \in Pods : RenewLeases(p) /\ UNCHANGED <<api, scheduler>>
         \/ \E j \in Jobs : Submit(j, "ok")
         \/ \E s \in Schedulers :
              \/ \E due \in SUBSET delayed : PollRead(s, due, "ok")
              \/ \E e \in delayed \cup scheduler[s].todo : PollPush(s, e, "ok")
              \/ PollRemove(s, "ok")
<1>1. \A w \in Workers : ~Abort(w)
  BY CalmReplies DEF Abort
<1>2. ASSUME NEW p \in Pods, PodNext(p)
      PROVE  RenewLeases(p) /\ UNCHANGED <<api, scheduler>>
  <2>1. monitor[p] = Idle /\ Unborn(p) = {} /\ p \notin draining /\ ~Disrupt
    BY CalmReplies DEF Quiet, Unborn, WorkersOf
  <2> QED
    BY <1>2, <2>1 DEF PodNext, PodStep, FindStalled, SaveStalled, RequeueStalled, Replace,
                      ScaleUp, ScaleDown, Drain, Exit, Crash, Idle
<1>3. ASSUME NEW j \in Jobs, NEW r \in Replies, Submit(j, r) PROVE r = "ok"
  BY <1>3, CalmReplies DEF Submit, Save
<1>4. ASSUME NEW s \in Schedulers, PollStep(s) \/ SchedulerRestart(s)
      PROVE  \/ \E due \in SUBSET delayed : PollRead(s, due, "ok")
             \/ \E e \in delayed \cup scheduler[s].todo : PollPush(s, e, "ok")
             \/ PollRemove(s, "ok")
  <2>1. ~SchedulerRestart(s)
    BY CalmReplies DEF SchedulerRestart
  <2>2. ASSUME NEW due \in SUBSET delayed, NEW r \in Replies, PollRead(s, due, r) PROVE r = "ok"
    BY <2>2, CalmReplies DEF PollRead
  <2>3. ASSUME NEW e, NEW r \in Replies, PollPush(s, e, r) PROVE r = "ok"
    BY <2>3, CalmReplies DEF PollPush
  <2>4. ASSUME NEW r \in Replies, PollRemove(s, r) PROVE r = "ok"
    BY <2>4, CalmReplies DEF PollRemove
  <2> QED
    BY <1>4, <2>1, <2>2, <2>3, <2>4 DEF PollStep
<1>5. ~ReaperPass /\ ~LeaseTick
  <2>1. Lapsed = {}
    BY NilIsNothing, QueueAssumption DEF Quiet, Lapsed, QueueAssumption
  <2> QED
    BY <2>1 DEF Calm, ReaperPass, LeaseTick
<1> QED
  BY <1>1, <1>2, <1>3, <1>4, <1>5 DEF Next

(* Quiet is kept. *)
LEMMA QuietStep ==
  ASSUME Calm, TypeInv, Quiet, Next
  PROVE  Quiet'
<1>1. CASE \E w \in Workers : WorkerNext(w) /\ ~Abort(w)
  <2>1. PICK w \in Workers : WorkerNext(w)
    BY <1>1
  <2>2. WorkerStep(w) /\ LeaveObject(w) /\ UNCHANGED <<draining, scheduler>>
    BY <2>1 DEF WorkerNext, ThreadStep
  <2>3. \A j \in Jobs : processing'[j] \in {Nil, LeaseTicks}
    <3>1. ASSUME NEW ids, NEW x, AckAndPop(ids, x)
          PROVE  \A j \in Jobs : processing'[j] \in {Nil, LeaseTicks}
      BY <3>1 DEF AckAndPop, Drop, Quiet
    <3>2. ASSUME NEW ids, Forget(ids)
          PROVE  \A j \in Jobs : processing'[j] \in {Nil, LeaseTicks}
      BY <3>2 DEF Forget, Drop, Quiet
    <3>3. \/ UNCHANGED processing
          \/ \E ids : Forget(ids)
          \/ \E ids, x : AckAndPop(ids, x)
      BY <2>2 DEF WorkerStep, LoopTest, Take, Start, Succeed, Fail, Abort, RecordFailure,
                  Finish, Release
    <3> QED
      BY <3>1, <3>2, <3>3 DEF Quiet
  <2>4. \A p \in Pods : monitor'[p] = Idle
    BY <2>2 DEF LeaveObject, Quiet, Idle
  <2>5. \A v \in Workers : pc'[v] # "unborn"
    BY <2>2 DEF Quiet, TypeInv, WorkerTypeOK, WorkerStep, LoopTest, Take, Start, Succeed,
                Fail, Abort, RecordFailure, Finish, Release
  <2>6. delayed \subseteq delayed'
    BY <2>2 DEF WorkerStep, LoopTest, Take, Start, Succeed, Fail, Abort, RecordFailure,
                Finish, Release, Save, AddDead, AddDelayed
  <2> QED
    BY <2>2, <2>3, <2>4, <2>5, <2>6 DEF Quiet
<1>2. CASE \E p \in Pods : RenewLeases(p) /\ UNCHANGED <<api, scheduler>>
  BY <1>2 DEF RenewLeases, Renew, Quiet
<1>3. CASE \E j \in Jobs : Submit(j, "ok")
  BY <1>3 DEF Submit, Save, Push, Quiet
<1>4. ASSUME NEW s \in Schedulers,
             \/ \E due \in SUBSET delayed : PollRead(s, due, "ok")
             \/ \E e \in delayed \cup scheduler[s].todo : PollPush(s, e, "ok")
             \/ PollRemove(s, "ok")
      PROVE  Quiet'
  <2>1. /\ UNCHANGED <<processing, monitor, draining, pc>>
        /\ \A z \in Schedulers : z = s
        /\ scheduler[s] \in Polling
    BY <1>4, EntriesOfScheduler DEF PollRead, PollPush, PollRemove, Push, Calm
  <2>2. scheduler'[s].todo \subseteq delayed' /\ scheduler'[s].pushed \in scheduler'[s].todo \cup {Nil}
    <3>1. ASSUME NEW due \in SUBSET delayed, PollRead(s, due, "ok")
          PROVE  /\ scheduler'[s].todo = due /\ scheduler'[s].pushed = scheduler[s].pushed
                 /\ scheduler[s].todo = {} /\ UNCHANGED delayed
      BY <2>1, <3>1 DEF PollRead, TypeInv, Polling
    <3>2. ASSUME NEW e, PollPush(s, e, "ok")
          PROVE  /\ scheduler'[s].todo = scheduler[s].todo /\ scheduler'[s].pushed = e
                 /\ e \in scheduler[s].todo /\ UNCHANGED delayed
      BY <2>1, <3>2 DEF PollPush, TypeInv, Polling
    <3>3. ASSUME PollRemove(s, "ok")
          PROVE  /\ scheduler'[s].todo = scheduler[s].todo \ {scheduler[s].pushed}
                 /\ scheduler'[s].pushed = Nil
                 /\ delayed' = delayed \ {scheduler[s].pushed}
      BY <3>3 DEF PollRemove, Landed, TypeInv, Rested
    <3> QED
      BY <1>4, <3>1, <3>2, <3>3 DEF Quiet
  <2> QED
    BY <2>1, <2>2 DEF Quiet
<1> QED
  BY <1>1, <1>2, <1>3, <1>4, CalmSteps

-----------------------------------------------------------------------------
(* What a job has to show when a step brings it to no new place. *)
LEMMA SamePlaces ==
  ASSUME NEW j \in Jobs, OnePlace(j) /\ NextAttempt(j),
         \A x \in queue' : x.member.id = j => x \in queue,
         \A w \in Workers : Carries(w, j)' =>
           Carries(w, j) /\ current'[w].attempt = current[w].attempt,
         \A e \in Awaited' : e.id = j => e \in Awaited,
         failures'[j] = failures[j], j \in done' => j \in done,
         api'[j] \in {"new", "saved"} => api[j] \in {"new", "saved"}
  PROVE  (OnePlace(j) /\ NextAttempt(j))'
<1>1. OnePlace(j)'
  BY DEF OnePlace
<1>2. \A attempt : IsNext(j, attempt) => IsNext(j, attempt)'
  BY DEF IsNext
<1> QED
  BY <1>1, <1>2 DEF NextAttempt

(* Nothing awaits a push but what is in the delayed queue. *)
LEMMA SameAwaited == ASSUME UNCHANGED <<delayed, scheduler>> PROVE Awaited' = Awaited
BY DEF Awaited

(* A thread carries a job only while it has it in hand. *)
LEMMA CarriedIsInHand ==
  ASSUME TypeInv, NEW w \in Workers, pc[w] \in {"start", "run", "record"}
  PROVE  /\ current[w] \in Entry /\ current[w] # Nil
         /\ current[w].id \in Jobs /\ Carries(w, current[w].id)
BY InHandType, NilIsNothing DEF Carries, Busy, Entry

(* take() moves an attempt from the queue into the hands of the thread. *)
LEMMA TakeAttempt ==
  ASSUME TypeInv, AttemptInv, UNCHANGED <<api, scheduler>>, NEW w \in Workers,
         NEW r \in Replies, NEW x \in queue \cup {Nil}, Take(w, r, x)
  PROVE  AttemptInv'
<1>1. /\ \A v \in Workers \ {w} : current'[v] = current[v] /\ pc'[v] = pc[v]
      /\ UNCHANGED <<delayed, failures, done>>
      /\ queue' \subseteq queue /\ (r = "ok" => queue' = queue \ {x})
      /\ pc[w] = "take"
  BY DEF Take, AckAndPop, TypeInv, WorkerTypeOK, Landed
<1>2. Awaited' = Awaited
  BY <1>1, SameAwaited
<1>3. CASE pc'[w] # "start"
  <2>1. pc'[w] = "loop"
    BY <1>3 DEF Take, TypeInv, WorkerTypeOK
  <2>2. \A j \in Jobs, v \in Workers : Carries(v, j)' =>
          Carries(v, j) /\ current'[v].attempt = current[v].attempt
    BY <1>1, <2>1 DEF Carries
  <2> QED
    BY <1>1, <1>2, <2>2, SamePlaces DEF AttemptInv
<1>4. CASE pc'[w] = "start"
  <2>1. r = "ok" /\ Parsed(x) # Nil
    BY <1>4 DEF Take, TypeInv, WorkerTypeOK
  <2>2. x \in queue /\ Parsed(x) = x.member /\ x.member \in Entry /\ x.member.id \in Jobs
    BY <2>1 DEF Parsed, TypeInv, QueueInv, QueueTypeOK, Entry
  <2>3. current'[w] = [x.member EXCEPT !.status = "running"]
    BY <2>1, <2>2 DEF Take, TypeInv, WorkerTypeOK
  <2>4. current'[w].id = x.member.id /\ current'[w].attempt = x.member.attempt
    BY <2>2, <2>3 DEF Entry
  <2>5. \A j \in Jobs, v \in Workers : Carries(v, j)' =>
          IF v = w THEN j = x.member.id
          ELSE Carries(v, j) /\ current'[v].attempt = current[v].attempt
    BY <1>1, <2>4 DEF Carries
  <2>6. ASSUME NEW j \in Jobs, j # x.member.id PROVE (OnePlace(j) /\ NextAttempt(j))'
    BY <1>1, <1>2, <2>5, <2>6, SamePlaces DEF AttemptInv
  <2>7. ASSUME NEW j \in Jobs, j = x.member.id PROVE (OnePlace(j) /\ NextAttempt(j))'
    <3>1. OnePlace(j) /\ NextAttempt(j)
      BY DEF AttemptInv
    <3>2. IsNext(j, x.member.attempt)
      BY <2>2, <2>7, <3>1 DEF NextAttempt
    <3>3. \A y \in queue' : y.member.id # j
      BY <1>1, <2>1, <2>2, <2>7, <3>1 DEF OnePlace
    <3>4. \A v \in Workers : Carries(v, j)' => v = w
      BY <2>2, <2>5, <2>7, <3>1 DEF OnePlace
    <3>5. \A e \in Awaited : e.id # j
      BY <2>2, <2>7, <3>1 DEF OnePlace
    <3>6. OnePlace(j)'
      BY <1>2, <3>3, <3>4, <3>5 DEF OnePlace
    <3>7. IsNext(j, x.member.attempt)' /\ (IsNext(j, 0) => IsNext(j, 0)')
      BY <1>1, <3>2 DEF IsNext
    <3>8. NextAttempt(j)'
      BY <1>2, <2>4, <3>1, <3>3, <3>4, <3>5, <3>7 DEF NextAttempt
    <3> QED
      BY <3>6, <3>8
  <2> QED
    BY <2>6, <2>7 DEF AttemptInv
<1> QED
  BY <1>3, <1>4

(* The end of a task: a success ends the job's attempts, a failure begins  *)
(* the next one in the same hands.                                         *)
LEMMA TaskAttempt ==
  ASSUME TypeInv, CopiesInv, AttemptInv, UNCHANGED <<api, scheduler>>,
         NEW w \in Workers, Succeed(w) \/ Fail(w)
  PROVE  AttemptInv'
<1>0. PICK i \in Jobs : i = current[w].id
  BY CarriedIsInHand DEF Succeed, Fail
<1>1. current[w] \in Entry /\ current[w] # Nil /\ current[w].id = i /\ Carries(w, i)
  BY <1>0, CarriedIsInHand DEF Succeed, Fail
<1>2. /\ UNCHANGED <<queue, delayed>>
      /\ \A v \in Workers \ {w} : current'[v] = current[v] /\ pc'[v] = pc[v]
      /\ \A j \in Jobs \ {i} : failures'[j] = failures[j] /\ (j \in done' => j \in done)
  BY <1>1 DEF Succeed, Fail, TypeInv, WorkerTypeOK
<1>3. Awaited' = Awaited
  BY <1>2, SameAwaited
<1>4. \A v \in Workers \ {w}, j \in Jobs : Carries(v, j)' =>
        Carries(v, j) /\ current'[v].attempt = current[v].attempt
  BY <1>2 DEF Carries
<1>5. /\ OnePlace(i) /\ NextAttempt(i) /\ IsNext(i, current[w].attempt)
      /\ \A x \in queue : x.member.id # i
      /\ \A v \in Workers \ {w} : ~Carries(v, i)
      /\ \A e \in Awaited : e.id # i
  BY <1>1 DEF AttemptInv, OnePlace, NextAttempt
<1>6. api'[i] \notin {"new", "saved"}
  BY <1>1 DEF CopiesInv, Unknown
<1>7. OnePlace(i)'
  BY <1>2, <1>3, <1>4, <1>5 DEF OnePlace
<1>8. CASE Succeed(w)
  <2>1. pc'[w] = "done"
    BY <1>8 DEF Succeed, TypeInv, WorkerTypeOK
  <2>2. \A j \in Jobs : ~Carries(w, j)'
    BY <2>1 DEF Carries
  <2>3. NextAttempt(i)'
    BY <1>2, <1>3, <1>4, <1>5, <1>6, <2>2 DEF NextAttempt
  <2>4. ASSUME NEW j \in Jobs, j # i PROVE (OnePlace(j) /\ NextAttempt(j))'
    BY <1>2, <1>3, <1>4, <2>2, <2>4, SamePlaces DEF AttemptInv
  <2> QED
    BY <1>7, <2>3, <2>4 DEF AttemptInv
<1>9. CASE Fail(w)
  <2>1. current'[w].id = i
    BY <1>1, <1>9, FailedHasJob
  <2>2. current'[w].attempt = current[w].attempt + 1
    <3> DEFINE tried == [current[w] EXCEPT !.attempt = @ + 1]
    <3>1. tried \in Entry /\ tried.attempt = current[w].attempt + 1
      BY <1>1 DEF Entry
    <3>2. \/ current'[w] = [tried EXCEPT !.status = "dead"]
          \/ current'[w] = [tried EXCEPT !.status = "pending", !.stamp = failures[i] + 1]
      BY <1>1, <1>9 DEF Fail, TypeInv, WorkerTypeOK
    <3> HIDE DEF tried
    <3>3. current'[w].attempt = tried.attempt
      BY <3>1, <3>2 DEF Entry
    <3> QED
      BY <3>1, <3>3
  <2>3. failures'[i] = failures[i] + 1 /\ UNCHANGED done
    BY <1>1, <1>9 DEF Fail, TypeInv, WorkerTypeOK
  <2>4. IsNext(i, current[w].attempt)'
    BY <1>5, <2>2, <2>3 DEF IsNext
  <2>5. NextAttempt(i)'
    BY <1>2, <1>3, <1>4, <1>5, <1>6, <2>4 DEF NextAttempt
  <2>6. \A j \in Jobs \ {i} : ~Carries(w, j)'
    BY <2>1 DEF Carries
  <2>7. ASSUME NEW j \in Jobs, j # i PROVE (OnePlace(j) /\ NextAttempt(j))'
    BY <1>2, <1>3, <1>4, <2>6, <2>7, SamePlaces DEF AttemptInv
  <2> QED
    BY <1>7, <2>5, <2>7 DEF AttemptInv
<1> QED
  BY <1>8, <1>9

(* handle_failure hands the attempt over to the delayed queue, or it ends  *)
(* there.                                                                  *)
LEMMA RecordAttempt ==
  ASSUME TypeInv, AttemptInv, UNCHANGED <<api, scheduler>>, NEW w \in Workers,
         NEW r \in Replies, RecordFailure(w, r)
  PROVE  AttemptInv'
<1>0. PICK i \in Jobs : i = current[w].id
  BY CarriedIsInHand DEF RecordFailure
<1>1. current[w] \in Entry /\ current[w].id = i /\ Carries(w, i)
  BY <1>0, CarriedIsInHand DEF RecordFailure
<1>2. /\ UNCHANGED <<queue, current, failures, done>>
      /\ \A v \in Workers \ {w} : pc'[v] = pc[v]
      /\ pc'[w] \in {"commit", "abandon"}
      /\ delayed' \subseteq delayed \cup {current[w]}
  BY DEF RecordFailure, AddDead, AddDelayed, TypeInv, WorkerTypeOK
<1>3. Awaited' \subseteq Awaited \cup {current[w]}
  BY <1>2 DEF Awaited
<1>4. \A v \in Workers, j \in Jobs : Carries(v, j)' => v # w /\ Carries(v, j)
  BY <1>2 DEF Carries
<1>5. /\ OnePlace(i) /\ NextAttempt(i) /\ IsNext(i, current[w].attempt)
      /\ \A x \in queue : x.member.id # i
      /\ \A v \in Workers \ {w} : ~Carries(v, i)
      /\ \A e \in Awaited : e.id # i
  BY <1>1 DEF AttemptInv, OnePlace, NextAttempt
<1>6. ASSUME NEW j \in Jobs, j # i PROVE (OnePlace(j) /\ NextAttempt(j))'
  BY <1>1, <1>2, <1>3, <1>4, <1>6, SamePlaces DEF AttemptInv
<1>7. OnePlace(i)'
  BY <1>2, <1>3, <1>4, <1>5 DEF OnePlace
<1>8. NextAttempt(i)'
  <2>1. \A attempt : IsNext(i, attempt) => IsNext(i, attempt)'
    BY <1>2 DEF IsNext
  <2> QED
    BY <1>2, <1>3, <1>4, <1>5, <2>1 DEF NextAttempt
<1> QED
  BY <1>6, <1>7, <1>8 DEF AttemptInv

(* Every other step of a thread that carries on. *)
LEMMA OtherThreadAttempt ==
  ASSUME TypeInv, AttemptInv, UNCHANGED <<api, scheduler>>, NEW w \in Workers,
         \/ LoopTest(w)
         \/ \E r \in Replies : Start(w, r) \/ Finish(w, r) \/ Release(w, r)
  PROVE  AttemptInv'
<1>1. /\ UNCHANGED <<queue, delayed, failures, done>>
      /\ \A v \in Workers \ {w} : current'[v] = current[v] /\ pc'[v] = pc[v]
      /\ \/ pc[w] = "start" /\ current'[w] = current[w]
         \/ pc'[w] \notin {"start", "run", "record"}
  BY DEF LoopTest, Start, Finish, Release, Save, TypeInv, WorkerTypeOK
<1>2. Awaited' = Awaited
  BY <1>1, SameAwaited
<1>3. \A v \in Workers, j \in Jobs : Carries(v, j)' =>
        Carries(v, j) /\ current'[v].attempt = current[v].attempt
  BY <1>1 DEF Carries
<1> QED
  BY <1>1, <1>2, <1>3, SamePlaces DEF AttemptInv

(* The push of /submit brings the first attempt of a job nobody knows. *)
LEMMA SubmitAttempt ==
  ASSUME TypeInv, CopiesInv, AttemptInv, NEW j \in Jobs, Submit(j, "ok")
  PROVE  AttemptInv'
<1>1. /\ UNCHANGED <<delayed, scheduler, current, pc, failures, done>>
      /\ \A i \in Jobs \ {j} : api'[i] = api[i]
      /\ api[j] \in {"new", "saved"}
  BY DEF Submit, Save, TypeInv
<1>2. Awaited' = Awaited
  BY <1>1, SameAwaited
<1>3. \A v \in Workers, i \in Jobs : Carries(v, i)' => Carries(v, i)
  BY <1>1 DEF Carries
<1>4. CASE api[j] = "new"
  <2>1. UNCHANGED queue
    BY <1>4 DEF Submit
  <2> QED
    BY <1>1, <1>2, <1>3, <2>1, SamePlaces DEF AttemptInv
<1>5. CASE api[j] = "saved"
  <2>1. /\ queue' = WithMembers({Scored(Submitted(j), Score[Submitted(j).id])})
        /\ api'[j] = "accepted"
    BY <1>5 DEF Submit, Push, Landed, TypeInv
  <2>2. \A x \in queue' : \/ x \in queue
                          \/ /\ x.member.id = j /\ x.member.attempt = 0
                             /\ x = Scored(Submitted(j), Score[Submitted(j).id])
    BY <2>1 DEF WithMembers, Scored, Submitted
  <2>3. ASSUME NEW i \in Jobs, i # j PROVE (OnePlace(i) /\ NextAttempt(i))'
    BY <1>1, <1>2, <1>3, <2>2, <2>3, SamePlaces DEF AttemptInv
  <2>4. /\ \A x \in queue : x.member.id # j
        /\ \A w \in Workers : ~Carries(w, j)'
        /\ \A e \in Awaited : e.id # j
    <3>1. Unknown(j)
      BY <1>1 DEF CopiesInv
    <3>2. \A w \in Workers : ~Carries(w, j)
      BY <3>1, CarriedIsInHand DEF Unknown, Carries
    <3> QED
      BY <1>3, <3>1, <3>2 DEF Unknown, QueuedIds, DelayedIds, Awaited
  <2>5. OnePlace(j)'
    BY <1>2, <2>2, <2>4 DEF OnePlace
  <2>6. IsNext(j, 0)'
    BY <1>1 DEF AttemptInv, NextAttempt, IsNext
  <2>7. NextAttempt(j)'
    BY <1>2, <2>1, <2>2, <2>4, <2>6 DEF NextAttempt
  <2> QED
    BY <2>3, <2>5, <2>7 DEF AttemptInv
<1> QED
  BY <1>1, <1>4, <1>5

(* The push of poll takes a retry to the queue; the entry it leaves behind *)
(* for a moment awaits nothing any more.                                   *)
LEMMA PollPushAttempt ==
  ASSUME Calm, TypeInv, Quiet, AttemptInv, NEW s \in Schedulers, NEW e, PollPush(s, e, "ok")
  PROVE  AttemptInv'
<1>1. e \in Awaited /\ e \in Entry /\ e.id \in Jobs
  <2>1. e \in delayed /\ scheduler[s].pushed = Nil /\ e \in Entry
    BY DEF PollPush, Quiet, TypeInv, JobRecordsTypeOK
  <2>2. \A z \in Schedulers : scheduler[z].pushed # e
    BY <2>1, NilIsNothing DEF Calm
  <2> QED
    BY <2>1, <2>2 DEF Awaited, Entry
<1>2. PICK m \in Entry : /\ m = [e EXCEPT !.status = "pending"]
                         /\ m.id = e.id /\ m.attempt = e.attempt
  <2>1. [e EXCEPT !.status = "pending"] \in Entry
    BY <1>1, EntriesOfScheduler
  <2>2. /\ [e EXCEPT !.status = "pending"].id = e.id
        /\ [e EXCEPT !.status = "pending"].attempt = e.attempt
    BY <1>1 DEF Entry
  <2> QED
    BY <2>1, <2>2
<1>3. /\ UNCHANGED <<delayed, current, pc, failures, done, api>>
      /\ queue' = WithMembers({Scored(m, Score[m.id])})
      /\ scheduler'[s].pushed = e /\ scheduler[s].pushed = Nil
      /\ \A z \in Schedulers : z = s
  BY <1>2, EntriesOfScheduler DEF Calm, PollPush, Push, Landed, TypeInv, Polling
<1>4. Awaited' \subseteq Awaited \ {e}
  BY <1>1, <1>3, NilIsNothing DEF Awaited, TypeInv, JobRecordsTypeOK
<1>5. \A v \in Workers, i \in Jobs : Carries(v, i)' => Carries(v, i)
  BY <1>3 DEF Carries
<1>6. \A x \in queue' : \/ x \in queue
                        \/ /\ x.member.id = e.id /\ x.member.attempt = e.attempt
                           /\ x = Scored(m, Score[m.id])
  <2>1. Scored(m, Score[m.id]).member = m
    BY DEF Scored
  <2>2. \A x \in queue' : x \in queue \/ x = Scored(m, Score[m.id])
    BY <1>3 DEF WithMembers
  <2> QED
    BY <1>2, <2>1, <2>2
<1>7. ASSUME NEW i \in Jobs, i # e.id PROVE (OnePlace(i) /\ NextAttempt(i))'
  BY <1>3, <1>4, <1>5, <1>6, <1>7, SamePlaces DEF AttemptInv
<1>8. /\ OnePlace(e.id) /\ NextAttempt(e.id) /\ IsNext(e.id, e.attempt)
      /\ \A x \in queue : x.member.id # e.id
      /\ \A w \in Workers : ~Carries(w, e.id)
      /\ \A d \in Awaited : d.id = e.id => d = e
  BY <1>1 DEF AttemptInv, OnePlace, NextAttempt
<1>9. OnePlace(e.id)'
  BY <1>1, <1>4, <1>5, <1>6, <1>8 DEF OnePlace
<1>10. NextAttempt(e.id)'
  <2>1. \A attempt : IsNext(e.id, attempt) => IsNext(e.id, attempt)'
    BY <1>3 DEF IsNext
  <2> QED
    BY <1>1, <1>3, <1>4, <1>5, <1>6, <1>8, <2>1 DEF NextAttempt
<1> QED
  BY <1>7, <1>9, <1>10 DEF AttemptInv

(* Reading and removing bring a job to no new place. *)
LEMMA OtherPollAttempt ==
  ASSUME Calm, TypeInv, Quiet, AttemptInv, NEW s \in Schedulers,
         (\E due \in SUBSET delayed : PollRead(s, due, "ok")) \/ PollRemove(s, "ok")
  PROVE  AttemptInv'
<1>1. UNCHANGED <<queue, current, pc, failures, done, api>>
  BY DEF PollRead, PollRemove
<1>2. Awaited' \subseteq Awaited
  <2>1. ASSUME NEW due \in SUBSET delayed, PollRead(s, due, "ok")
        PROVE  UNCHANGED delayed /\ scheduler'[s].pushed = scheduler[s].pushed
    BY <2>1, EntriesOfScheduler DEF PollRead, TypeInv, Polling
  <2>2. ASSUME PollRemove(s, "ok") PROVE delayed' = delayed \ {scheduler[s].pushed}
    BY <2>2 DEF PollRemove, Landed
  <2> QED
    BY <2>1, <2>2 DEF Awaited, Calm
<1>3. \A v \in Workers, j \in Jobs : Carries(v, j)' => Carries(v, j)
  BY <1>1 DEF Carries
<1> QED
  BY <1>1, <1>2, <1>3, SamePlaces DEF AttemptInv

(* Every step of a calm system keeps the invariant. *)
LEMMA AttemptStep ==
  Calm /\ TypeInv /\ CopiesInv /\ Quiet /\ AttemptInv /\ [Next]_vars => Quiet' /\ AttemptInv'
<1> SUFFICES ASSUME Calm, TypeInv, CopiesInv, Quiet, AttemptInv, [Next]_vars
             PROVE  Quiet' /\ AttemptInv'
  OBVIOUS
<1>1. CASE UNCHANGED vars
  <2>1. UNCHANGED <<processing, queue, delayed, scheduler, monitor, draining, pc, current,
                    failures, done, api>>
    BY <1>1
  <2>2. Quiet'
    BY <2>1 DEF Quiet
  <2>3. Awaited' = Awaited /\ \A v \in Workers, j \in Jobs : Carries(v, j)' => Carries(v, j)
    BY <2>1 DEF Awaited, Carries
  <2>4. AttemptInv'
    BY <2>1, <2>3, SamePlaces DEF AttemptInv
  <2> QED
    BY <2>2, <2>4
<1>2. ASSUME NEW w \in Workers, WorkerNext(w), ~Abort(w) PROVE AttemptInv'
  BY <1>2, TakeAttempt, TaskAttempt, RecordAttempt, OtherThreadAttempt
  DEF WorkerNext, ThreadStep, WorkerStep
<1>3. ASSUME NEW p \in Pods, RenewLeases(p), UNCHANGED <<api, scheduler>> PROVE AttemptInv'
  <2>1. UNCHANGED <<queue, delayed, scheduler, pc, current, failures, done, api>>
    BY <1>3 DEF RenewLeases, Renew
  <2>2. Awaited' = Awaited /\ \A v \in Workers, j \in Jobs : Carries(v, j)' => Carries(v, j)
    BY <2>1 DEF Awaited, Carries
  <2> QED
    BY <2>1, <2>2, SamePlaces DEF AttemptInv
<1>4. CASE Next
  BY <1>2, <1>3, <1>4, CalmSteps, QuietStep, SubmitAttempt, PollPushAttempt, OtherPollAttempt
<1> QED
  BY <1>1, <1>4

(* While nothing fails or crashes, no lease lapses and no thread is found  *)
(* stalled, a failure is counted exactly once: whoever runs a job runs the *)
(* attempt after the last failure, of a job that has not succeeded, and    *)
(* nobody else runs it, in spite of the moment in which a promoted retry   *)
(* is in the queue and the delayed queue at once.                          *)
THEOREM AttemptsAreNotRepeated == ASSUME Calm PROVE Spec => []EachAttemptRunsOnce
<1>1. TypeInv /\ AttemptInv => EachAttemptRunsOnce
  BY CarriedIsInHand DEF AttemptInv, OnePlace, NextAttempt, IsNext, Carries, EachAttemptRunsOnce
<1>2. Init => Quiet /\ AttemptInv
  BY AttemptInit
<1>3. TypeInv /\ CopiesInv /\ Quiet /\ AttemptInv /\ [Next]_vars => Quiet' /\ AttemptInv'
  BY AttemptStep
<1> QED
  BY <1>1, <1>2, <1>3, TypeInvAlways, CopiesAlways, PTL DEF Spec
=============================================================================
