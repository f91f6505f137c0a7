----------------------------- MODULE JobLifeProofs -----------------------------
(***************************************************************************)
(* Proof that the whole system implements JobLife: every step of it is one *)
(* event in the life of one job, or is invisible from outside.  Two        *)
(* earlier invariants carry the argument: nobody has a job before its      *)
(* submission has ended (CopiesInv), and no copy of a job claims what has  *)
(* not happened (OutcomeInv).                                              *)
(***************************************************************************)
EXTENDS CopiesProofs, OutcomeProofs

USE DEF redisVars, queueVars, leaseKeys, recordVars, threadVars, leaseHistory,
        taskHistory, poolVars, workerVars, vars

(* The jobs JobLife calls submitted. *)
Submissions == {j \in Jobs : api[j] \in {"accepted", "failed"}}

LifeInv == TypeInv /\ CopiesInv /\ OutcomeInv

(* A step of JobLife, or none. *)
Lives == [Life!LifeNext]_(Life!life)

-----------------------------------------------------------------------------
(* A job in hand, and a job the monitor holds, has been submitted. *)
LEMMA InHandIsSubmitted ==
  ASSUME LifeInv, NEW w \in Workers, current[w] # Nil
  PROVE  /\ current[w] \in Entry /\ current[w].id \in Submissions
         /\ Truthful(current[w])
<1>1. current[w] \in Entry /\ current[w].id \in Jobs
  BY DEF LifeInv, TypeInv, WorkerTypeOK, Entry
<1>2. ~Unknown(current[w].id)
  BY DEF Unknown
<1> QED
  BY <1>1, <1>2 DEF LifeInv, CopiesInv, TypeInv, Submissions, OutcomeInv, HandsTruthful

(* The same of the Job object a monitor is about to save or requeue. *)
LEMMA HeldIsSubmitted ==
  ASSUME LifeInv, NEW p \in Pods, monitor[p].at \in {"save", "requeue"}
  PROVE  /\ Held(p) \in Entry /\ Held(p).id \in Submissions
         /\ Truthful(Held(p))
<1>1. Held(p) \in Entry /\ Held(p) # Nil /\ Truthful(Held(p)) /\ Held(p).id \in Jobs
  BY HeldTruthful, NilIsNothing DEF LifeInv, Entry
<1>2. monitor[p].worker \in Workers
  BY DEF LifeInv, TypeInv, WorkerPoolTypeOK, Monitoring, Idle
<1>3. ~Unknown(Held(p).id)
  BY <1>1, <1>2 DEF Held, Unknown
<1> QED
  BY <1>1, <1>3 DEF LifeInv, CopiesInv, TypeInv, Submissions

(* What JobLife does not see. *)
LEMMA OutOfSight ==
  ASSUME Submissions' = Submissions, UNCHANGED <<done, failures, dlq, record>>
  PROVE  Lives
<1>1. UNCHANGED Life!life
  BY DEF Life!life, Submissions, DeadIds
<1> QED
  BY <1>1 DEF Lives

(* A save of what is true is a report. *)
LEMMA SaveTells ==
  ASSUME LifeInv, NEW e \in Entry, e.id \in Submissions, Truthful(e), NEW r, Save(e, r),
         UNCHANGED <<api, done, failures>>
  PROVE  Lives
<1>1. Submissions' = Submissions /\ DeadIds' = DeadIds
  BY DEF Save, Submissions, DeadIds
<1>2. CASE Landed(r)
  <2>1. e.id \in Jobs /\ e.status \in Status
    BY DEF Entry
  <2>2. Life!Tell(e.id, e.status)
    BY <1>1, <1>2, <2>1 DEF Life!Tell, Life!SpentAll, Submissions, Truthful, Save
  <2> QED
    BY <2>1, <2>2 DEF Lives, Life!LifeNext
<1>3. CASE ~Landed(r)
  BY <1>1, <1>3, OutOfSight DEF Save
<1> QED
  BY <1>2, <1>3

-----------------------------------------------------------------------------
(* The steps of a thread. *)

(* The end of a task is a trial that succeeds or fails. *)
LEMMA TaskLives ==
  ASSUME LifeInv, NEW w \in Workers, Succeed(w) \/ Fail(w), UNCHANGED api
  PROVE  Lives
<1>1. current[w] # Nil
  BY InHandType, NilIsNothing DEF LifeInv, Succeed, Fail, Busy
<1>2. current[w].id \in Submissions /\ current[w].id \in Jobs
  BY <1>1, InHandIsSubmitted DEF Submissions
<1>3. Submissions' = Submissions /\ DeadIds' = DeadIds /\ UNCHANGED record
  BY DEF Succeed, Fail, Submissions, DeadIds
<1>4. CASE Succeed(w)
  <2>1. Life!TryAndSucceed(current[w].id)
    BY <1>2, <1>3, <1>4 DEF Succeed, Life!TryAndSucceed, Submissions
  <2> QED
    BY <1>2, <2>1 DEF Lives, Life!LifeNext
<1>5. CASE Fail(w)
  <2>1. Life!TryAndFail(current[w].id)
    BY <1>2, <1>3, <1>5 DEF Fail, Life!TryAndFail, Submissions, LifeInv, TypeInv, WorkerTypeOK
  <2> QED
    BY <1>2, <2>1 DEF Lives, Life!LifeNext
<1> QED
  BY <1>4, <1>5

(* An exhausted job is buried; a retry is out of sight. *)
LEMMA RecordFailureLives ==
  ASSUME LifeInv, NEW w \in Workers, NEW r \in Replies, RecordFailure(w, r), UNCHANGED api
  PROVE  Lives
<1> DEFINE job == current[w]
<1>1. current[w] # Nil
  BY InHandType, NilIsNothing DEF LifeInv, RecordFailure, Busy
<1>2. job \in Entry /\ job.id \in Submissions /\ job.id \in Jobs /\ Truthful(job)
  BY <1>1, InHandIsSubmitted DEF Submissions
<1>3. Submissions' = Submissions /\ UNCHANGED <<done, failures, record>>
  BY DEF RecordFailure, AddDead, AddDelayed, Submissions
<1>4. CASE UNCHANGED dlq
  BY <1>3, <1>4, OutOfSight
<1>5. CASE Exhausted(job) /\ dlq' = dlq \cup {job}
  <2>1. DeadIds' = DeadIds \cup {job.id}
    BY <1>5 DEF DeadIds
  <2>2. failures[job.id] # 0
    BY <1>2 DEF LifeInv, CopiesInv, NoRetry, RecordFailure
  <2>3. failures[job.id] \in Nat /\ job.attempt \in Nat /\ MaxRetries[job.id] \in Int
        /\ job.attempt <= failures[job.id] /\ job.attempt >= MaxRetries[job.id]
    BY <1>2, <1>5, HistoryType DEF LifeInv, Entry, Truthful, Exhausted
  <2>4. Life!SpentAll(job.id)
    BY <2>2, <2>3 DEF Life!SpentAll
  <2>5. Life!Bury(job.id)
    BY <1>2, <1>3, <2>1, <2>4 DEF Life!Bury, Submissions
  <2> QED
    BY <1>2, <2>5 DEF Lives, Life!LifeNext
<1> QED
  BY <1>4, <1>5 DEF RecordFailure, AddDead, AddDelayed

(* All steps of a thread. *)
LEMMA WorkerNextLives ==
  ASSUME LifeInv, NEW w \in Workers, WorkerNext(w)
  PROVE  Lives
<1>1. WorkerStep(w) /\ UNCHANGED api
  BY DEF WorkerNext, ThreadStep
<1>2. Submissions' = Submissions
  BY <1>1 DEF Submissions
<1>3. ASSUME NEW r \in Replies, Start(w, r) \/ Finish(w, r) PROVE Lives
  <2>1. current[w] # Nil
    BY <1>3, InHandType, NilIsNothing DEF LifeInv, Start, Finish, Busy
  <2> QED
    BY <1>1, <1>3, <2>1, InHandIsSubmitted, SaveTells DEF Start, Finish
<1>4. CASE \/ LoopTest(w) \/ Abort(w)
           \/ \E r \in Replies, x \in queue \cup {Nil} : Take(w, r, x)
           \/ \E r \in Replies : Release(w, r)
  BY <1>2, <1>4, OutOfSight DEF LoopTest, Abort, Take, Release
<1> QED
  BY <1>1, <1>3, <1>4, TaskLives, RecordFailureLives DEF WorkerStep

-----------------------------------------------------------------------------
(* The processes: only the monitor's save is seen. *)
LEMMA PodNextLives ==
  ASSUME LifeInv, NEW p \in Pods, PodNext(p)
  PROVE  Lives
<1>1. PodStep(p) /\ UNCHANGED api /\ Submissions' = Submissions
  BY DEF PodNext, Submissions
<1>2. ASSUME NEW r \in Replies, SaveStalled(p, r) PROVE Lives
  BY <1>1, <1>2, HeldIsSubmitted, SaveTells DEF SaveStalled
<1>3. ASSUME NEW r \in Replies, RequeueStalled(p, r) PROVE Lives
  BY <1>1, <1>3, OutOfSight DEF RequeueStalled
<1>4. ASSUME NEW w \in Workers,
             FindStalled(p, w) \/ Replace(p, w) \/ ScaleUp(p, w) \/ ScaleDown(p, w)
      PROVE  Lives
  BY <1>1, <1>4, OutOfSight DEF FindStalled, Replace, ScaleUp, ScaleDown
<1>5. CASE RenewLeases(p) \/ Drain(p) \/ Exit(p) \/ Crash(p)
  BY <1>1, <1>5, OutOfSight DEF RenewLeases, Drain, Exit, Crash, Restart
<1> QED
  BY <1>1, <1>2, <1>3, <1>4, <1>5 DEF PodStep

(* /submit: the save announces the job, the push enters it. *)
LEMMA SubmitLives ==
  ASSUME LifeInv, NEW j \in Jobs, NEW r \in Replies, Submit(j, r)
  PROVE  Lives
<1>1. UNCHANGED <<done, failures, dlq>> /\ DeadIds' = DeadIds
  BY DEF Submit, Save, DeadIds
<1>2. CASE api[j] = "new"
  <2>1. Save(Submitted(j), r) /\ Submissions' = Submissions
    BY <1>2 DEF Submit, Submissions, LifeInv, TypeInv
  <2>2. j \notin Submissions /\ record[j] = "none"
    BY <1>2 DEF Submissions, LifeInv, CopiesInv
  <2>3. CASE Landed(r)
    <3>1. record' = [record EXCEPT ![j] = "pending"]
      BY <2>1, <2>3 DEF Save, Submitted
    <3>2. Life!Announce(j)
      BY <1>1, <2>1, <2>2, <3>1 DEF Life!Announce, Submissions
    <3> QED
      BY <3>2 DEF Lives, Life!LifeNext
  <2>4. CASE ~Landed(r)
    BY <1>1, <2>1, <2>4, OutOfSight DEF Save
  <2> QED
    BY <2>3, <2>4
<1>3. CASE api[j] = "saved"
  <2>1. UNCHANGED record /\ Submissions' = Submissions \cup {j}
    BY <1>3 DEF Submit, Submissions, LifeInv, TypeInv
  <2>2. Life!Enter(j)
    BY <1>1, <2>1 DEF Life!Enter, Submissions
  <2> QED
    BY <2>2 DEF Lives, Life!LifeNext
<1> QED
  BY <1>2, <1>3 DEF Submit

(* Every step of the system is one event in the life of one job, or none. *)
LEMMA LifeStep == LifeInv /\ [Next]_vars => Lives
<1> SUFFICES ASSUME LifeInv, [Next]_vars PROVE Lives
  OBVIOUS
<1>1. ASSUME NEW s \in Schedulers, PollStep(s) \/ SchedulerRestart(s) PROVE Lives
  BY <1>1, OutOfSight
  DEF PollStep, PollRead, PollPush, PollRemove, SchedulerRestart, Submissions
<1>2. CASE ReaperPass \/ LeaseTick
  BY <1>2, OutOfSight DEF ReaperPass, LeaseTick, Submissions
<1>3. CASE UNCHANGED vars
  BY <1>3, OutOfSight DEF Submissions
<1> QED
  BY <1>1, <1>2, <1>3, WorkerNextLives, PodNextLives, SubmitLives DEF Next

-----------------------------------------------------------------------------
(* The system leads every job through the life JobLife describes, for any  *)
(* number of jobs, workers, processes and schedulers, and whatever crashes,*)
(* lapses, is repeated or replaced: tried only once submitted, buried only *)
(* when its attempts are spent, reported ended only when it has ended.     *)
THEOREM SystemLivesAsPromised == Spec => LivesAsPromised
<1>1. Init => Life!LifeInit
  BY DEF Init, JobRecordsInit, WorkerPoolInit, Life!LifeInit, DeadIds
<1>2. LifeInv /\ [Next]_vars => [Life!LifeNext]_(Life!life)
  BY LifeStep DEF Lives
<1>3. TypeInv /\ CopiesInv /\ OutcomeInv => LifeInv
  BY DEF LifeInv
<1> QED
  BY <1>1, <1>2, <1>3, TypeInvAlways, CopiesAlways, OutcomeAlways, PTL
  DEF Spec, LivesAsPromised, Life!LifeSpec
=============================================================================
