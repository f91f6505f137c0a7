--------------------------- MODULE OrionQueueProofs ---------------------------
(***************************************************************************)
(* Proofs about OrionQueue, for every number of jobs, workers, processes   *)
(* and schedulers.  The first part is type correctness, with what it rests *)
(* on: who holds a Job object, and that the queue's invariant survives the *)
(* calls the program makes.                                                *)
(***************************************************************************)
EXTENDS OrionQueue, PriorityQueueProofs

USE DEF redisVars, queueVars, leaseKeys, recordVars, threadVars, leaseHistory,
        taskHistory, poolVars, workerVars, vars

(* A thread has a Job object in hand exactly while it is busy. *)
BusyHasJob == \A w \in Workers : Busy(w) <=> current[w] # Nil

(* A monitor that is about to save or requeue a job has its Job object,    *)
(* from the thread or, when that let go of it, for itself; and it watches  *)
(* the threads of its own process only.                                    *)
MonitorHasJob ==
  \A p \in Pods :
    /\ pool[p] \subseteq WorkersOf(p)
    /\ monitor[p] # Idle => monitor[p].worker \in WorkersOf(p)
    /\ monitor[p].at \in {"save", "requeue"} =>
         monitor[p].object # Nil \/ current[monitor[p].worker] # Nil

TypeInv ==
  /\ QueueInv
  /\ JobRecordsTypeOK
  /\ WorkerTypeOK
  /\ WorkerPoolTypeOK
  /\ api \in [Jobs -> {"new", "saved", "accepted", "failed"}]
  /\ scheduler \in [Schedulers -> Polling]
  /\ BusyHasJob
  /\ MonitorHasJob

(* The invariant holds when the system starts. *)
LEMMA TypeInvInit == Init => TypeInv
<1> SUFFICES ASSUME Init PROVE TypeInv
  OBVIOUS
<1>1. QueueInv
  BY InitKeepsInv DEF Init
<1>2. JobRecordsTypeOK
  BY JobRecordsAssumption DEF Init, JobRecordsInit, JobRecordsTypeOK, JobRecordsAssumption
<1>3. WorkerTypeOK
  BY WorkerAssumption DEF Init, WorkerPoolInit, WorkerTypeOK, WorkerAssumption, PC
<1>4. WorkerPoolTypeOK
  BY DEF Init, WorkerPoolInit, WorkerPoolTypeOK, WorkersOf
<1>5. /\ api \in [Jobs -> {"new", "saved", "accepted", "failed"}]
      /\ scheduler \in [Schedulers -> Polling]
  BY DEF Init, Polling, Rested
<1>6. BusyHasJob
  BY DEF Init, WorkerPoolInit, BusyHasJob, Busy
<1>7. MonitorHasJob
  BY DEF Init, WorkerPoolInit, MonitorHasJob, Idle, WorkersOf
<1> QED
  BY <1>1, <1>2, <1>3, <1>4, <1>5, <1>6, <1>7 DEF TypeInv

-----------------------------------------------------------------------------
(* Facts about single operations. *)

(* Whatever becomes of a Redis call, the count of failures stays in bounds. *)
LEMMA ReplyType ==
  ASSUME disruptions \in 0..MaxDisruptions, NEW r, Reply(r)
  PROVE  disruptions' \in 0..MaxDisruptions
BY JobRecordsAssumption DEF Reply, Disrupt, JobRecordsAssumption

(* So it does when something else goes wrong. *)
LEMMA DisruptType ==
  ASSUME disruptions \in 0..MaxDisruptions, Disrupt
  PROVE  disruptions' \in 0..MaxDisruptions
BY JobRecordsAssumption DEF Disrupt, JobRecordsAssumption

(* JobStore.save writes the status of an entry. *)
LEMMA SaveType ==
  ASSUME JobRecordsTypeOK, NEW e \in Entry, NEW r, Save(e, r)
  PROVE  JobRecordsTypeOK'
BY ReplyType DEF JobRecordsTypeOK, Save, Entry

(* _parse returns a job or nothing. *)
LEMMA ParsedType ==
  ASSUME QueueInv, NEW x \in queue \cup {Nil}
  PROVE  Parsed(x) \in Entry \cup {Nil}
BY DEF Parsed, QueueInv, QueueTypeOK

(* A job in hand is an entry, and remains one when its status changes. *)
LEMMA InHandType ==
  ASSUME TypeInv, NEW w \in Workers, Busy(w)
  PROVE  /\ current[w] \in Entry
         /\ \A s \in Status : [current[w] EXCEPT !.status = s] \in Entry
BY DEF TypeInv, BusyHasJob, WorkerTypeOK, Entry

(* The monitor saves and requeues a Job object, never None. *)
LEMMA HeldType ==
  ASSUME TypeInv, NEW p \in Pods, monitor[p].at \in {"save", "requeue"}
  PROVE  Held(p) \in Entry
<1>1. monitor[p] # Idle
  BY DEF Idle
<1>2. monitor[p] \in Monitoring /\ monitor[p].worker \in Workers
  BY <1>1 DEF TypeInv, WorkerPoolTypeOK, Monitoring
<1> QED
  BY <1>2 DEF TypeInv, MonitorHasJob, Held, Monitoring, WorkerTypeOK

(* The job /submit creates. *)
LEMMA SubmittedType == ASSUME NEW j \in Jobs PROVE Submitted(j) \in Entry
BY DEF Submitted, Entry, Status

(* poll handles entries of the delayed queue. *)
LEMMA EntriesOfScheduler ==
  ASSUME TypeInv, NEW s \in Schedulers
  PROVE  /\ scheduler[s] \in Polling
         /\ scheduler[s].todo \subseteq Entry
         /\ scheduler[s].pushed \in Entry \cup {Nil}
         /\ \A e \in Entry : [e EXCEPT !.status = "pending"] \in Entry
BY DEF TypeInv, Polling, Entry, Status

-----------------------------------------------------------------------------
(* The steps of a thread. *)

(* A step that leaves the whole of the queue alone keeps its invariant. *)
LEMMA SameQueue == ASSUME QueueInv, UNCHANGED queueVars PROVE QueueInv'
BY DEF QueueInv, QueueTypeOK, LeaseKeysAgree, KeepsItsPlace, Leased

(* What a step of w leaves in order, whatever the monitors make of it. *)
ThreadInv(w) ==
  /\ QueueInv'
  /\ JobRecordsTypeOK'
  /\ WorkerTypeOK'
  /\ BusyHasJob'
  /\ \A v \in Workers \ {w} : current'[v] = current[v]

(* take() puts a job in hand exactly when it returns one. *)
LEMMA TakeType ==
  ASSUME TypeInv, NEW w \in Workers, NEW r \in Replies,
         NEW x \in queue \cup {Nil}, Take(w, r, x), UNCHANGED running
  PROVE  ThreadInv(w)
<1> DEFINE job == IF r = "ok" THEN Parsed(x) ELSE Nil
<1>1. job \in Entry \cup {Nil} /\ (job # Nil => [job EXCEPT !.status = "running"] \in Entry)
  BY ParsedType DEF TypeInv, Entry, Status
<1>2. QueueInv'
  BY AckAndPopKeepsInv, SameQueue DEF Take, TypeInv
<1>3. JobRecordsTypeOK'
  BY ReplyType DEF Take, TypeInv, JobRecordsTypeOK
<1>4. owner' \in [Jobs -> Workers \cup {Nil}] /\ stolen' \subseteq Jobs
  <2>1. stolen \subseteq Jobs /\ owner \in [Jobs -> Workers \cup {Nil}] /\ Leased \subseteq Jobs
    BY DEF TypeInv, WorkerTypeOK, Leased
  <2> QED
    BY <2>1 DEF Take, NoteAcks
<1>5. /\ pending' \in [Workers -> Jobs \cup {Nil}]
      /\ pc' = [pc EXCEPT ![w] = IF job = Nil THEN "loop" ELSE "start"]
      /\ current' = IF job = Nil THEN current
                    ELSE [current EXCEPT ![w] = [job EXCEPT !.status = "running"]]
      /\ pc[w] = "take"
      /\ UNCHANGED taskHistory
  BY DEF Take, TypeInv, WorkerTypeOK
<1>6. WorkerTypeOK'
  BY <1>1, <1>4, <1>5 DEF TypeInv, WorkerTypeOK, PC
<1>7. \A v \in Workers \ {w} : current'[v] = current[v]
  BY <1>5 DEF TypeInv, WorkerTypeOK
<1>8. BusyHasJob'
  BY <1>1, <1>5, <1>6, NilIsNothing DEF TypeInv, WorkerTypeOK, BusyHasJob, Busy
<1> QED
  BY <1>2, <1>3, <1>6, <1>7, <1>8 DEF ThreadInv

(* handle_failure leaves an entry in hand, dead or pending. *)
LEMMA FailType ==
  ASSUME TypeInv, NEW w \in Workers, Fail(w), UNCHANGED running
  PROVE  ThreadInv(w)
<1> DEFINE job == current[w]
           n == failures[job.id] + 1
           tried == [job EXCEPT !.attempt = @ + 1]
<1>1. job \in Entry /\ job.id \in Jobs
  BY InHandType DEF Fail, Busy, Entry
<1>2. n \in 0..MaxFailures
  BY <1>1, WorkerAssumption DEF Fail, TypeInv, WorkerTypeOK, WorkerAssumption
<1>3. /\ [tried EXCEPT !.status = "dead"] \in Entry
      /\ [tried EXCEPT !.status = "pending", !.stamp = n] \in Entry
  <2>1. n \in Nat
    BY <1>2, WorkerAssumption DEF WorkerAssumption
  <2>2. tried \in Entry
    BY <1>1 DEF Entry
  <2> QED
    BY <2>1, <2>2 DEF Entry, Status
<1>4. /\ pc[w] = "run"
      /\ failures' = [failures EXCEPT ![job.id] = n]
      /\ current' = [current EXCEPT ![w] =
                       IF Exhausted(tried) THEN [tried EXCEPT !.status = "dead"]
                       ELSE [tried EXCEPT !.status = "pending", !.stamp = n]]
      /\ pc' = [pc EXCEPT ![w] = "record"]
      /\ UNCHANGED <<redisVars, disruptions, pending, leaseHistory, done>>
  BY DEF Fail
<1>5. WorkerTypeOK'
  BY <1>2, <1>3, <1>4 DEF TypeInv, WorkerTypeOK, PC
<1>6. \A v \in Workers \ {w} : current'[v] = current[v]
  BY <1>4 DEF TypeInv, WorkerTypeOK
<1>7. BusyHasJob'
  BY <1>3, <1>4, NilIsNothing DEF TypeInv, WorkerTypeOK, BusyHasJob, Busy
<1>8. QueueInv' /\ JobRecordsTypeOK'
  BY <1>4, SameQueue DEF TypeInv, JobRecordsTypeOK
<1> QED
  BY <1>5, <1>6, <1>7, <1>8 DEF ThreadInv

(* Steps that save or record the job in hand and then let go of it or not. *)
LEMMA SavingType ==
  ASSUME TypeInv, NEW w \in Workers, NEW r \in Replies,
         Start(w, r) \/ Finish(w, r), UNCHANGED running
  PROVE  ThreadInv(w)
<1>1. Busy(w) /\ current[w] \in Entry /\ current[w].id \in Jobs /\ Save(current[w], r)
  BY InHandType DEF Start, Finish, Busy, Entry
<1>2. JobRecordsTypeOK'
  BY <1>1, SaveType DEF TypeInv
<1>3. QueueInv'
  BY SameQueue DEF Start, Finish, TypeInv
<1>4. WorkerTypeOK'
  BY <1>1 DEF Start, Finish, TypeInv, WorkerTypeOK, PC
<1>5. \A v \in Workers \ {w} : current'[v] = current[v]
  BY DEF Start, Finish, TypeInv, WorkerTypeOK
<1>6. BusyHasJob'
  BY DEF Start, Finish, TypeInv, WorkerTypeOK, BusyHasJob, Busy
<1> QED
  BY <1>2, <1>3, <1>4, <1>5, <1>6 DEF ThreadInv

(* Recording a failure moves the entry in hand to a queue. *)
LEMMA RecordFailureType ==
  ASSUME TypeInv, NEW w \in Workers, NEW r \in Replies, RecordFailure(w, r),
         UNCHANGED running
  PROVE  ThreadInv(w)
<1>1. current[w] \in Entry
  BY InHandType DEF RecordFailure, Busy
<1>2. disruptions' \in 0..MaxDisruptions
  BY ReplyType DEF RecordFailure, TypeInv, JobRecordsTypeOK
<1>3. JobRecordsTypeOK'
  BY <1>1, <1>2 DEF RecordFailure, TypeInv, JobRecordsTypeOK, AddDead, AddDelayed
<1>4. QueueInv'
  BY SameQueue DEF RecordFailure, TypeInv
<1>5. WorkerTypeOK'
  BY DEF RecordFailure, TypeInv, WorkerTypeOK, PC
<1>6. BusyHasJob' /\ \A v \in Workers \ {w} : current'[v] = current[v]
  BY DEF RecordFailure, TypeInv, WorkerTypeOK, BusyHasJob, Busy
<1> QED
  BY <1>3, <1>4, <1>5, <1>6 DEF ThreadInv

(* The last acknowledgement of a thread. *)
LEMMA ReleaseType ==
  ASSUME TypeInv, NEW w \in Workers, NEW r \in Replies, Release(w, r),
         UNCHANGED running
  PROVE  ThreadInv(w)
<1>1. QueueInv'
  BY AckKeepsInv, SameQueue DEF Release, TypeInv
<1>2. JobRecordsTypeOK'
  BY ReplyType DEF Release, TypeInv, JobRecordsTypeOK
<1>3. stolen' \subseteq Jobs
  <2>1. stolen \subseteq Jobs /\ Leased \subseteq Jobs
    BY DEF TypeInv, WorkerTypeOK, Leased
  <2> QED
    BY <2>1 DEF Release, NoteAcks
<1>4. WorkerTypeOK'
  BY <1>3 DEF Release, TypeInv, WorkerTypeOK, PC
<1>5. BusyHasJob' /\ \A v \in Workers \ {w} : current'[v] = current[v]
  BY DEF Release, TypeInv, WorkerTypeOK, BusyHasJob, Busy
<1> QED
  BY <1>1, <1>2, <1>4, <1>5 DEF ThreadInv

(* Steps without a Redis call. *)
LEMMA LocalType ==
  ASSUME TypeInv, NEW w \in Workers, LoopTest(w) \/ Succeed(w) \/ Abort(w),
         UNCHANGED running
  PROVE  ThreadInv(w)
<1>1. Busy(w) => current[w] \in Entry /\ current[w].id \in Jobs
  BY InHandType DEF Entry
<1>2. QueueInv'
  BY SameQueue DEF LoopTest, Succeed, Abort, TypeInv
<1>3. JobRecordsTypeOK'
  BY DisruptType DEF LoopTest, Succeed, Abort, TypeInv, JobRecordsTypeOK
<1>4. CASE LoopTest(w)
  BY <1>2, <1>3, <1>4 DEF LoopTest, ThreadInv, TypeInv, WorkerTypeOK, BusyHasJob, Busy, PC
<1>5. CASE Succeed(w)
  <2>1. [current[w] EXCEPT !.status = "done"] \in Entry
    BY <1>5, InHandType DEF Succeed, Busy, Status
  <2>2. WorkerTypeOK'
    BY <1>1, <1>5, <2>1 DEF Succeed, Busy, TypeInv, WorkerTypeOK, PC
  <2>3. BusyHasJob' /\ \A v \in Workers \ {w} : current'[v] = current[v]
    BY <1>5, <2>1, NilIsNothing DEF Succeed, TypeInv, WorkerTypeOK, BusyHasJob, Busy
  <2> QED
    BY <1>2, <1>3, <2>2, <2>3 DEF ThreadInv
<1>6. CASE Abort(w)
  BY <1>2, <1>3, <1>6 DEF Abort, ThreadInv, TypeInv, WorkerTypeOK, BusyHasJob, Busy, PC
<1> QED
  BY <1>4, <1>5, <1>6

(* All the steps of a thread. *)
LEMMA WorkerStepType ==
  ASSUME TypeInv, NEW w \in Workers, WorkerStep(w), UNCHANGED running
  PROVE  ThreadInv(w)
BY TakeType, FailType, SavingType, RecordFailureType, ReleaseType, LocalType DEF WorkerStep

(* The monitor that holds the Job object of w keeps it when w lets go. *)
LEMMA WorkerNextType ==
  ASSUME TypeInv, NEW w \in Workers, WorkerNext(w)
  PROVE  TypeInv'
<1>1. ThreadInv(w)
  BY WorkerStepType DEF WorkerNext, ThreadStep
<1>2. /\ monitor \in [Pods -> Monitoring \cup {Idle}]
      /\ current \in [Workers -> Entry \cup {Nil}]
      /\ current' \in [Workers -> Entry \cup {Nil}]
      /\ \A v \in Workers \ {w} : current'[v] = current[v]
  BY <1>1 DEF ThreadInv, TypeInv, WorkerPoolTypeOK, WorkerTypeOK
<1>3. ASSUME NEW p \in Pods
      PROVE  /\ monitor'[p] \in Monitoring \cup {Idle}
             /\ monitor'[p].worker = monitor[p].worker
             /\ monitor'[p].at = monitor[p].at
             /\ monitor'[p] = Idle <=> monitor[p] = Idle
             /\ monitor'[p].at \in {"save", "requeue"} =>
                  monitor'[p].object # Nil \/ current'[monitor'[p].worker] # Nil
  <2>1. CASE /\ monitor[p].worker = w
             /\ monitor[p].at \in {"save", "requeue"}
             /\ monitor[p].object = Nil
             /\ current'[w] = Nil
    <3>1. monitor[p] \in Monitoring /\ monitor[p] # Idle
      BY <1>2, <2>1 DEF Idle
    <3>2. current[w] \in Entry /\ current[w] # Nil
      BY <1>2, <2>1 DEF TypeInv, MonitorHasJob
    <3>3. monitor'[p] = [monitor[p] EXCEPT !.object = current[w]]
      BY <2>1 DEF WorkerNext, ThreadStep, LeaveObject
    <3> QED
      BY <3>1, <3>2, <3>3 DEF Monitoring, Idle
  <2>2. CASE ~ (/\ monitor[p].worker = w
                /\ monitor[p].at \in {"save", "requeue"}
                /\ monitor[p].object = Nil
                /\ current'[w] = Nil)
    <3>1. monitor'[p] = monitor[p]
      BY <2>2 DEF WorkerNext, ThreadStep, LeaveObject
    <3>2. monitor[p].at \in {"save", "requeue"} => monitor[p] \in Monitoring
      BY <1>2 DEF Idle
    <3>3. monitor[p].at \in {"save", "requeue"} =>
            monitor[p].object # Nil \/ current'[monitor[p].worker] # Nil
      BY <1>2, <2>2, <3>2 DEF TypeInv, MonitorHasJob, Monitoring
    <3> QED
      BY <1>2, <3>1, <3>3
  <2> QED
    BY <2>1, <2>2
<1>4. monitor' = [p \in Pods |-> monitor'[p]]
  BY DEF WorkerNext, ThreadStep, LeaveObject
<1>5. WorkerPoolTypeOK'
  BY <1>3, <1>4 DEF WorkerNext, ThreadStep, TypeInv, WorkerPoolTypeOK, WorkersOf
<1>6. MonitorHasJob'
  BY <1>3 DEF WorkerNext, ThreadStep, TypeInv, MonitorHasJob, WorkersOf
<1> QED
  BY <1>1, <1>5, <1>6 DEF WorkerNext, ThreadInv, TypeInv

-----------------------------------------------------------------------------
(* The steps of a process. *)

(* Marking the Job object in hand as PENDING leaves it an entry. *)
LEMMA FindStalledType ==
  ASSUME TypeInv, NEW p \in Pods, NEW w \in Workers, FindStalled(p, w),
         UNCHANGED <<api, scheduler>>
  PROVE  TypeInv'
<1>1. w \in WorkersOf(p) /\ PodOf' = PodOf
  BY DEF FindStalled, TypeInv, MonitorHasJob
<1>2. Busy(w) => /\ current[w] \in Entry
                 /\ [current[w] EXCEPT !.status = "pending"] \in Entry
  BY InHandType DEF Status
<1>3. /\ current' \in [Workers -> Entry \cup {Nil}]
      /\ \A v \in Workers : current'[v] # Nil <=> current[v] # Nil
  BY <1>2, NilIsNothing DEF FindStalled, TypeInv, WorkerTypeOK
<1>4. QueueInv' /\ JobRecordsTypeOK'
  BY SameQueue DEF FindStalled, TypeInv, JobRecordsTypeOK
<1>5. WorkerTypeOK'
  BY <1>3 DEF FindStalled, TypeInv, WorkerTypeOK
<1>6. WorkerPoolTypeOK'
  <2>1. [at |-> IF Busy(w) THEN "save" ELSE "replace", worker |-> w, object |-> Nil]
          \in Monitoring
    BY DEF Monitoring
  <2> QED
    BY <2>1 DEF FindStalled, TypeInv, WorkerPoolTypeOK
<1>7. BusyHasJob'
  BY <1>3 DEF FindStalled, TypeInv, BusyHasJob, Busy
<1>8. MonitorHasJob'
  <2>1. ASSUME NEW q \in Pods
        PROVE  /\ pool'[q] \subseteq WorkersOf(q)
               /\ monitor'[q] # Idle => monitor'[q].worker \in WorkersOf(q)
               /\ monitor'[q].at \in {"save", "requeue"} =>
                    monitor'[q].object # Nil \/ current'[monitor'[q].worker] # Nil
    <3>1. CASE q = p
      <4>1. monitor'[p] = [at |-> IF Busy(w) THEN "save" ELSE "replace",
                           worker |-> w, object |-> Nil]
        BY DEF FindStalled, TypeInv, WorkerPoolTypeOK
      <4>2. Busy(w) => current'[w] # Nil
        BY <1>3 DEF TypeInv, BusyHasJob
      <4> QED
        BY <1>1, <3>1, <4>1, <4>2 DEF FindStalled, TypeInv, MonitorHasJob
    <3>2. CASE q # p
      <4>1. monitor'[q] = monitor[q] /\ pool' = pool
        BY <3>2 DEF FindStalled, TypeInv, WorkerPoolTypeOK
      <4>2. monitor[q].at \in {"save", "requeue"} => monitor[q].worker \in Workers
        BY DEF TypeInv, WorkerPoolTypeOK, Monitoring, Idle
      <4> QED
        BY <1>3, <4>1, <4>2 DEF TypeInv, MonitorHasJob
    <3> QED
      BY <3>1, <3>2
  <2> QED
    BY <2>1 DEF MonitorHasJob, WorkersOf
<1> QED
  BY <1>4, <1>5, <1>6, <1>7, <1>8 DEF TypeInv, FindStalled

(* The monitor moves on with what it holds, or lets it go. *)
LEMMA MonitorMoves ==
  ASSUME TypeInv, NEW p \in Pods, NEW m,
         monitor' = [monitor EXCEPT ![p] = m], UNCHANGED <<current, pool, draining>>,
         \/ m = Idle
         \/ /\ monitor[p].at = "save"
            /\ m = [monitor[p] EXCEPT !.at = "requeue"]
         \/ /\ monitor[p].at = "requeue"
            /\ m = [monitor[p] EXCEPT !.at = "replace", !.object = Nil]
  PROVE  WorkerPoolTypeOK' /\ MonitorHasJob'
<1>1. /\ monitor \in [Pods -> Monitoring \cup {Idle}]
      /\ monitor[p].at \in {"save", "requeue"} =>
           monitor[p] # Idle /\ monitor[p] \in Monitoring
  BY DEF TypeInv, WorkerPoolTypeOK, Idle
<1>2. /\ m \in Monitoring \cup {Idle}
      /\ m # Idle => monitor[p] # Idle
      /\ m # Idle => m.worker = monitor[p].worker
      /\ m.at \in {"save", "requeue"} =>
           m.at = "requeue" /\ m.object = monitor[p].object /\ monitor[p].at = "save"
  <2>1. CASE m = Idle
    BY <2>1, NilIsNothing DEF Idle
  <2>2. CASE /\ monitor[p].at = "save"
             /\ m = [monitor[p] EXCEPT !.at = "requeue"]
    <3>1. monitor[p] \in Monitoring /\ monitor[p].at = "save" /\ monitor[p] # Idle
      BY <1>1, <2>2
    <3>2. m = [at |-> "requeue", worker |-> monitor[p].worker, object |-> monitor[p].object]
      BY <2>2, <3>1 DEF Monitoring
    <3> QED
      BY <3>1, <3>2 DEF Monitoring
  <2>3. CASE /\ monitor[p].at = "requeue"
             /\ m = [monitor[p] EXCEPT !.at = "replace", !.object = Nil]
    <3>1. monitor[p] \in Monitoring /\ monitor[p] # Idle
      BY <1>1, <2>3
    <3>2. m = [at |-> "replace", worker |-> monitor[p].worker, object |-> Nil]
      BY <2>3, <3>1 DEF Monitoring
    <3> QED
      BY <3>1, <3>2 DEF Monitoring
  <2> QED
    BY <2>1, <2>2, <2>3
<1>3. ASSUME NEW q \in Pods
      PROVE  monitor'[q] = IF q = p THEN m ELSE monitor[q]
  BY <1>1
<1>4. WorkerPoolTypeOK'
  BY <1>2 DEF TypeInv, WorkerPoolTypeOK
<1>5. ASSUME NEW q \in Pods
      PROVE  /\ pool'[q] \subseteq WorkersOf(q)
             /\ monitor'[q] # Idle => monitor'[q].worker \in WorkersOf(q)
             /\ monitor'[q].at \in {"save", "requeue"} =>
                  monitor'[q].object # Nil \/ current'[monitor'[q].worker] # Nil
  <2>1. CASE q = p
    <3>1. m.at \in {"save", "requeue"} => m # Idle
      BY DEF Idle
    <3> QED
      BY <1>1, <1>2, <1>3, <2>1, <3>1 DEF TypeInv, MonitorHasJob
  <2>2. CASE q # p
    BY <1>3, <2>2 DEF TypeInv, MonitorHasJob
  <2> QED
    BY <2>1, <2>2
<1>6. MonitorHasJob'
  BY <1>5 DEF MonitorHasJob, WorkersOf
<1> QED
  BY <1>4, <1>6

(* save() of a stalled job. *)
LEMMA SaveStalledType ==
  ASSUME TypeInv, NEW p \in Pods, NEW r \in Replies, SaveStalled(p, r),
         UNCHANGED <<api, scheduler>>
  PROVE  TypeInv'
<1>1. Held(p) \in Entry
  BY HeldType DEF SaveStalled
<1>2. JobRecordsTypeOK'
  BY <1>1, SaveType DEF SaveStalled, TypeInv
<1>3. QueueInv' /\ WorkerTypeOK' /\ BusyHasJob'
  BY SameQueue DEF SaveStalled, TypeInv, WorkerTypeOK, BusyHasJob, Busy
<1>4. WorkerPoolTypeOK' /\ MonitorHasJob'
  BY MonitorMoves DEF SaveStalled
<1> QED
  BY <1>2, <1>3, <1>4 DEF TypeInv, SaveStalled

(* requeue() of a stalled job, or an exception that ends the pass. *)
LEMMA RequeueStalledType ==
  ASSUME TypeInv, NEW p \in Pods, NEW r \in Replies, RequeueStalled(p, r),
         UNCHANGED <<api, scheduler>>
  PROVE  TypeInv'
<1>1. Held(p) \in Entry
  BY HeldType DEF RequeueStalled
<1>2. QueueInv'
  BY <1>1, RequeueKeepsInv, SameQueue DEF RequeueStalled, TypeInv
<1>3. JobRecordsTypeOK'
  BY ReplyType DEF RequeueStalled, TypeInv, JobRecordsTypeOK
<1>4. WorkerTypeOK' /\ BusyHasJob'
  BY DEF RequeueStalled, TypeInv, WorkerTypeOK, BusyHasJob, Busy
<1>5. WorkerPoolTypeOK' /\ MonitorHasJob'
  BY MonitorMoves DEF RequeueStalled
<1> QED
  BY <1>2, <1>3, <1>4, <1>5 DEF TypeInv, RequeueStalled

(* A new thread starts at the top of its loop, with nothing in hand. *)
LEMMA NewThread ==
  ASSUME TypeInv, NEW new \in Workers, pc[new] = "unborn",
         pc' = [pc EXCEPT ![new] = "loop"], UNCHANGED current
  PROVE  pc' \in [Workers -> PC] /\ BusyHasJob'
BY DEF TypeInv, WorkerTypeOK, PC, BusyHasJob, Busy

(* A stalled thread is replaced by a new one of the same process. *)
LEMMA ReplaceType ==
  ASSUME TypeInv, NEW p \in Pods, NEW new \in Workers, Replace(p, new),
         UNCHANGED <<api, scheduler>>
  PROVE  TypeInv'
<1>1. /\ monitor[p].worker \in Workers
      /\ pc[new] = "unborn" /\ new \in WorkersOf(p)
  BY DEF Replace, Unborn, TypeInv, WorkerPoolTypeOK, Monitoring, Idle
<1>2. WorkerTypeOK' /\ BusyHasJob'
  BY <1>1, NewThread DEF Replace, TypeInv, WorkerTypeOK
<1>3. /\ pool' \in [Pods -> SUBSET Workers]
      /\ \A q \in Pods : pool'[q] \subseteq WorkersOf(q)
  BY <1>1 DEF Replace, TypeInv, WorkerPoolTypeOK, MonitorHasJob, WorkersOf
<1>4. WorkerPoolTypeOK'
  BY <1>3 DEF Replace, TypeInv, WorkerPoolTypeOK
<1>5. MonitorHasJob'
  BY <1>3 DEF Replace, TypeInv, WorkerPoolTypeOK, MonitorHasJob, WorkersOf, Idle
<1>6. QueueInv' /\ JobRecordsTypeOK'
  BY SameQueue DEF Replace, TypeInv, JobRecordsTypeOK
<1> QED
  BY <1>2, <1>4, <1>5, <1>6 DEF Replace, TypeInv

(* The pool grows and shrinks within its process. *)
LEMMA ScaleType ==
  ASSUME TypeInv, NEW p \in Pods, NEW w \in Workers,
         ScaleUp(p, w) \/ ScaleDown(p, w),
         UNCHANGED <<api, scheduler>>
  PROVE  TypeInv'
<1>1. QueueInv' /\ JobRecordsTypeOK'
  BY SameQueue, DisruptType DEF ScaleUp, ScaleDown, TypeInv, JobRecordsTypeOK
<1>2. /\ pool' \in [Pods -> SUBSET Workers]
      /\ \A q \in Pods : pool'[q] \subseteq WorkersOf(q)
  BY DEF ScaleUp, ScaleDown, Unborn, TypeInv, WorkerPoolTypeOK, MonitorHasJob, WorkersOf
<1>3. WorkerPoolTypeOK' /\ MonitorHasJob'
  BY <1>2 DEF ScaleUp, ScaleDown, TypeInv, WorkerPoolTypeOK, MonitorHasJob, WorkersOf
<1>4. WorkerTypeOK' /\ BusyHasJob'
  <2>1. CASE ScaleUp(p, w)
    BY <2>1, NewThread DEF ScaleUp, Unborn, TypeInv, WorkerTypeOK
  <2>2. CASE ScaleDown(p, w)
    BY <2>2 DEF ScaleDown, TypeInv, WorkerTypeOK, BusyHasJob, Busy
  <2> QED
    BY <2>1, <2>2
<1> QED
  BY <1>1, <1>3, <1>4 DEF ScaleUp, ScaleDown, TypeInv

(* Renewals touch deadlines only. *)
LEMMA RenewLeasesType ==
  ASSUME TypeInv, NEW p \in Pods, RenewLeases(p),
         UNCHANGED <<api, scheduler>>
  PROVE  TypeInv'
<1>1. QueueInv'
  BY RenewKeepsInv DEF RenewLeases, TypeInv
<1> QED
  BY <1>1 DEF RenewLeases, TypeInv, JobRecordsTypeOK, WorkerTypeOK, WorkerPoolTypeOK,
              WorkersOf, BusyHasJob, Busy, MonitorHasJob

(* SIGTERM touches _running only. *)
LEMMA DrainType ==
  ASSUME TypeInv, NEW p \in Pods, Drain(p),
         UNCHANGED <<api, scheduler>>
  PROVE  TypeInv'
<1>1. QueueInv' /\ JobRecordsTypeOK'
  BY SameQueue, DisruptType DEF Drain, TypeInv, JobRecordsTypeOK
<1>2. WorkerTypeOK'
  BY DEF Drain, TypeInv, WorkerTypeOK
<1> QED
  BY <1>1, <1>2 DEF Drain, TypeInv, WorkerPoolTypeOK, WorkersOf, BusyHasJob, Busy,
                    MonitorHasJob

(* What the process was doing is gone, and so are the Job objects of its   *)
(* threads; nobody else's monitor was holding them.                        *)
LEMMA RestartType ==
  ASSUME TypeInv, NEW p \in Pods, Restart(p), disruptions' \in 0..MaxDisruptions,
         UNCHANGED <<api, scheduler>>
  PROVE  TypeInv'
<1>1. QueueInv' /\ JobRecordsTypeOK'
  BY SameQueue DEF Restart, TypeInv, JobRecordsTypeOK
<1>2. WorkerTypeOK'
  BY DEF Restart, TypeInv, WorkerTypeOK, PC
<1>3. BusyHasJob'
  BY DEF Restart, TypeInv, BusyHasJob, Busy
<1>4. WorkerPoolTypeOK'
  BY DEF Restart, TypeInv, WorkerPoolTypeOK, WorkersOf
<1>5. ASSUME NEW q \in Pods
      PROVE  /\ pool'[q] \subseteq WorkersOf(q)
             /\ monitor'[q] # Idle => monitor'[q].worker \in WorkersOf(q)
             /\ monitor'[q].at \in {"save", "requeue"} =>
                  monitor'[q].object # Nil \/ current'[monitor'[q].worker] # Nil
  <2>1. CASE q = p
    BY <2>1 DEF Restart, TypeInv, WorkerPoolTypeOK, WorkersOf, Idle
  <2>2. CASE q # p
    <3>1. monitor'[q] = monitor[q] /\ pool'[q] = pool[q]
      BY <2>2 DEF Restart, TypeInv, WorkerPoolTypeOK
    <3>2. \A v \in WorkersOf(q) : v \notin WorkersOf(p) /\ current'[v] = current[v]
      BY <2>2 DEF Restart, WorkersOf
    <3>3. monitor[q].at \in {"save", "requeue"} => monitor[q] # Idle
      BY DEF Idle
    <3> QED
      BY <3>1, <3>2, <3>3 DEF TypeInv, MonitorHasJob
  <2> QED
    BY <2>1, <2>2
<1>6. MonitorHasJob'
  BY <1>5 DEF MonitorHasJob, WorkersOf
<1> QED
  BY <1>1, <1>2, <1>3, <1>4, <1>6 DEF Restart, TypeInv

(* All the steps of a process. *)
LEMMA PodStepType ==
  ASSUME TypeInv, NEW p \in Pods, PodNext(p)
  PROVE  TypeInv'
<1>1. disruptions \in 0..MaxDisruptions
  BY DEF TypeInv, JobRecordsTypeOK
<1>2. Exit(p) \/ Crash(p) => Restart(p) /\ disruptions' \in 0..MaxDisruptions
  BY <1>1, DisruptType DEF Exit, Crash
<1> QED
  BY <1>2, FindStalledType, SaveStalledType, RequeueStalledType, ReplaceType, ScaleType,
     RenewLeasesType, DrainType, RestartType DEF PodNext, PodStep

-----------------------------------------------------------------------------
(* The API, the scheduler, the reaper and the clock touch no worker. *)
LEMMA WorkersUntouched ==
  ASSUME TypeInv, UNCHANGED workerVars
  PROVE  WorkerTypeOK' /\ WorkerPoolTypeOK' /\ BusyHasJob' /\ MonitorHasJob'
BY DEF workerVars, TypeInv, WorkerTypeOK, WorkerPoolTypeOK, WorkersOf, BusyHasJob, Busy,
       MonitorHasJob

(* The two calls of /submit. *)
LEMMA SubmitType ==
  ASSUME TypeInv, NEW j \in Jobs, NEW r \in Replies, Submit(j, r)
  PROVE  TypeInv'
<1>1. Submitted(j) \in Entry
  BY SubmittedType
<1>2. QueueInv'
  BY <1>1, PushKeepsInv, SameQueue DEF Submit, TypeInv
<1>3. JobRecordsTypeOK'
  BY <1>1, SaveType, ReplyType DEF Submit, TypeInv, JobRecordsTypeOK
<1>4. api' \in [Jobs -> {"new", "saved", "accepted", "failed"}]
  BY DEF Submit, TypeInv
<1> QED
  BY <1>2, <1>3, <1>4, WorkersUntouched DEF Submit, TypeInv

(* poll reads what is due. *)
LEMMA PollReadType ==
  ASSUME TypeInv, NEW s \in Schedulers, NEW due \in SUBSET delayed,
         NEW r \in Replies, PollRead(s, due, r)
  PROVE  TypeInv'
<1>1. JobRecordsTypeOK' /\ QueueInv'
  BY ReplyType, SameQueue DEF PollRead, TypeInv, JobRecordsTypeOK
<1>2. scheduler' \in [Schedulers -> Polling]
  BY EntriesOfScheduler DEF PollRead, TypeInv, JobRecordsTypeOK, Polling
<1> QED
  BY <1>1, <1>2, WorkersUntouched DEF PollRead, TypeInv

(* poll pushes a due retry. *)
LEMMA PollPushType ==
  ASSUME TypeInv, NEW s \in Schedulers, NEW e, NEW r \in Replies, PollPush(s, e, r)
  PROVE  TypeInv'
<1>1. e \in Entry /\ [e EXCEPT !.status = "pending"] \in Entry
  BY EntriesOfScheduler DEF PollPush
<1>2. JobRecordsTypeOK'
  BY ReplyType DEF PollPush, TypeInv, JobRecordsTypeOK
<1>3. QueueInv'
  BY <1>1, PushKeepsInv, SameQueue DEF PollPush, TypeInv
<1>4. scheduler' \in [Schedulers -> Polling]
  BY <1>1, EntriesOfScheduler DEF PollPush, TypeInv, Polling
<1> QED
  BY <1>2, <1>3, <1>4, WorkersUntouched DEF PollPush, TypeInv

(* poll removes what it has pushed. *)
LEMMA PollRemoveType ==
  ASSUME TypeInv, NEW s \in Schedulers, NEW r \in Replies, PollRemove(s, r)
  PROVE  TypeInv'
<1>1. JobRecordsTypeOK' /\ QueueInv'
  BY ReplyType, SameQueue DEF PollRemove, TypeInv, JobRecordsTypeOK
<1>2. scheduler' \in [Schedulers -> Polling]
  <2>1. /\ scheduler[s] \in Polling
        /\ scheduler[s].todo \ {scheduler[s].pushed} \in SUBSET Entry
    BY EntriesOfScheduler
  <2> QED
    BY <2>1 DEF PollRemove, TypeInv, Polling, Rested
<1> QED
  BY <1>1, <1>2, WorkersUntouched DEF PollRemove, TypeInv

(* A new scheduler starts with nothing read. *)
LEMMA SchedulerRestartType ==
  ASSUME TypeInv, NEW s \in Schedulers, SchedulerRestart(s)
  PROVE  TypeInv'
<1>1. JobRecordsTypeOK' /\ QueueInv'
  BY DisruptType, SameQueue DEF SchedulerRestart, TypeInv, JobRecordsTypeOK
<1>2. scheduler' \in [Schedulers -> Polling]
  BY DEF SchedulerRestart, TypeInv, Polling, Rested
<1> QED
  BY <1>1, <1>2, WorkersUntouched DEF SchedulerRestart, TypeInv

(* The reaper and the clock change the queue only. *)
LEMMA ReaperAndClockType ==
  ASSUME TypeInv, ReaperPass \/ LeaseTick
  PROVE  TypeInv'
<1>1. QueueInv'
  BY ReapKeepsInv, TickKeepsInv DEF ReaperPass, LeaseTick, TypeInv
<1>2. JobRecordsTypeOK'
  BY DEF ReaperPass, LeaseTick, TypeInv, JobRecordsTypeOK
<1> QED
  BY <1>1, <1>2, WorkersUntouched DEF ReaperPass, LeaseTick, TypeInv

(* Every step of the system keeps the invariant. *)
LEMMA TypeInvStep == TypeInv /\ [Next]_vars => TypeInv'
<1> SUFFICES ASSUME TypeInv, [Next]_vars PROVE TypeInv'
  OBVIOUS
<1>1. ASSUME NEW s \in Schedulers, PollStep(s) PROVE TypeInv'
  BY <1>1, PollReadType, PollPushType, PollRemoveType DEF PollStep
<1>2. ASSUME UNCHANGED vars PROVE TypeInv'
  <2>1. UNCHANGED <<queueVars, recordVars, disruptions, workerVars, api, scheduler>>
    BY <1>2 DEF vars, redisVars, workerVars
  <2> QED
    BY <2>1, SameQueue, WorkersUntouched DEF TypeInv, JobRecordsTypeOK
<1> QED
  BY <1>1, <1>2, WorkerNextType, PodStepType, SubmitType, SchedulerRestartType,
     ReaperAndClockType DEF Next

(* So it always holds. *)
LEMMA TypeInvAlways == Spec => []TypeInv
BY TypeInvInit, TypeInvStep, PTL DEF Spec

-----------------------------------------------------------------------------
(* Every variable of the whole system keeps its type.  That the Job object *)
(* a thread and a monitor share is at all times an entry, whoever changes  *)
(* or drops it, is the part with substance.                                *)
THEOREM TypeCorrect == Spec => []TypeOK
<1>1. TypeInv => TypeOK
  BY DEF TypeInv, TypeOK, QueueInv
<1> QED
  BY <1>1, TypeInvAlways, PTL

(* Called by the whole program, in whatever order, the scripts never leave *)
(* a lease the reaper could not bring back.                                *)
THEOREM SystemLeasesAreRecoverable == Spec => []LeaseKeysAgree
<1>1. TypeInv => LeaseKeysAgree
  BY DEF TypeInv, QueueInv
<1> QED
  BY <1>1, TypeInvAlways, PTL

-----------------------------------------------------------------------------
(* The system as a client of the queue. *)

(* Whatever a step of the system does to the keys of the queue, it does by *)
(* one call of one script, with an entry and with at most one job to       *)
(* acknowledge.                                                            *)
LEMMA SystemCalls == TypeInv /\ [Next]_vars => [Calls]_queueVars
<1> SUFFICES ASSUME TypeInv, Next PROVE Calls \/ UNCHANGED queueVars
  OBVIOUS
<1>1. ASSUME NEW w \in Workers, WorkerNext(w) PROVE Calls \/ UNCHANGED queueVars
  <2>1. Owed(w) \in SUBSET Jobs /\ AtMostOneOf(Owed(w))
    BY DEF Owed, AtMostOneOf, TypeInv, WorkerTypeOK
  <2>2. WorkerStep(w)
    BY <1>1 DEF WorkerNext, ThreadStep
  <2>3. ASSUME NEW r \in Replies, NEW x \in queue \cup {Nil}, Take(w, r, x)
        PROVE  Calls \/ UNCHANGED queueVars
    BY <2>1, <2>3 DEF Take, Calls
  <2>4. ASSUME NEW r \in Replies, Release(w, r) PROVE Calls \/ UNCHANGED queueVars
    BY <2>1, <2>4 DEF Release, Calls
  <2> QED
    BY <2>2, <2>3, <2>4 DEF WorkerStep, LoopTest, Start, Succeed, Fail, Abort,
                            RecordFailure, Finish
<1>2. ASSUME NEW p \in Pods, PodNext(p) PROVE Calls \/ UNCHANGED queueVars
  <2>1. ASSUME NEW r \in Replies, RequeueStalled(p, r) PROVE Calls \/ UNCHANGED queueVars
    <3>1. Held(p) \in Entry
      BY <2>1, HeldType DEF RequeueStalled
    <3> QED
      BY <2>1, <3>1 DEF RequeueStalled, Calls
  <2>2. CASE RenewLeases(p)
    <3> DEFINE ids == {current[w].id : w \in {v \in pool[p] : Busy(v)}}
    <3>1. ids \in SUBSET Jobs
      BY InHandType DEF TypeInv, WorkerPoolTypeOK, Entry
    <3>2. Renew(ids)
      BY <2>2 DEF RenewLeases
    <3> HIDE DEF ids
    <3> QED
      BY <3>1, <3>2 DEF Calls
  <2> QED
    BY <1>2, <2>1, <2>2 DEF PodNext, PodStep, FindStalled, SaveStalled, Replace, ScaleUp,
                            ScaleDown, Drain, Exit, Crash, Restart
<1>3. ASSUME NEW j \in Jobs, NEW r \in Replies, Submit(j, r)
      PROVE  Calls \/ UNCHANGED queueVars
  BY <1>3, SubmittedType DEF Submit, Calls
<1>4. ASSUME NEW s \in Schedulers, PollStep(s) \/ SchedulerRestart(s)
      PROVE  Calls \/ UNCHANGED queueVars
  <2>1. ASSUME NEW e, NEW r \in Replies, PollPush(s, e, r)
        PROVE  Calls \/ UNCHANGED queueVars
    <3>1. [e EXCEPT !.status = "pending"] \in Entry
      BY <2>1, EntriesOfScheduler DEF PollPush
    <3> QED
      BY <2>1, <3>1 DEF PollPush, Calls
  <2> QED
    BY <1>4, <2>1 DEF PollStep, PollRead, PollRemove, SchedulerRestart
<1>5. CASE ReaperPass \/ LeaseTick
  BY <1>5 DEF ReaperPass, LeaseTick, Calls
<1> QED
  BY <1>1, <1>2, <1>3, <1>4, <1>5 DEF Next

-----------------------------------------------------------------------------
(* The refinement of the promise.  A thread that sets out to call take(),  *)
(* or to make its last call, asks for what it owes to be settled.          *)

(* A thread that leaves that place takes its request back, *)
LEMMA RequestEnds ==
  ASSUME NEW w \in Workers, pc[w] \in {"take", "exit"}, pc'[w] \notin {"take", "exit"},
         \A v \in Workers \ {w} : pc'[v] = pc[v] /\ pending'[v] = pending[v]
  PROVE  Asked' = Asked \ {<<w, pending[w]>>}
BY DEF Asked

(* one that is and stays elsewhere has none, *)
LEMMA NoRequest ==
  ASSUME NEW w \in Workers, pc[w] \notin {"take", "exit"}, pc'[w] \notin {"take", "exit"},
         \A v \in Workers \ {w} : pc'[v] = pc[v] /\ pending'[v] = pending[v]
  PROVE  Asked' = Asked
BY DEF Asked

(* and what the threads do not touch remains. *)
LEMMA SameRequests == ASSUME UNCHANGED <<pc, pending>> PROVE Asked' = Asked
BY DEF Asked

(* A step that leaves the queue alone may end requests. *)
LEMMA QuietIsDeliver ==
  ASSUME UNCHANGED queueVars, Asked' \subseteq Asked
  PROVE  [Promise!PromiseNext]_(Promise!promise)
<1>1. Leased' = Leased /\ Owing' = Owing
  BY DEF Leased, Owing, QueuedIds
<1>2. Promise!Deliver({}) /\ {} \in Promise!AtMostOne
  BY <1>1 DEF Promise!Deliver, Promise!AtMostOne
<1> QED
  BY <1>2 DEF Promise!PromiseNext

(* A call that must lose nothing may end leases. *)
LEMMA HarmlessIsGiveBack ==
  ASSUME LosesNothing, Asked' = Asked
  PROVE  [Promise!PromiseNext]_(Promise!promise)
<1>1. PICK S \in SUBSET Leased : Leased' = Leased \ S /\ Owing' = Owing
  BY DEF LosesNothing
<1>2. S \in SUBSET Jobs
  BY DEF Leased
<1> QED
  BY <1>1, <1>2 DEF Promise!PromiseNext, Promise!GiveBack

(* A push makes its job owed. *)
LEMMA PushIsAccept ==
  ASSUME NEW m \in Entry, Push(m), Asked' = Asked
  PROVE  [Promise!PromiseNext]_(Promise!promise)
<1>1. m.id \in Jobs
  BY DEF Entry
<1>2. Promise!Accept(m.id) \/ UNCHANGED Promise!promise
  BY PushEffect DEF Promise!Accept, Promise!promise
<1> QED
  BY <1>1, <1>2 DEF Promise!PromiseNext

(* An acknowledgement settles the job the thread asked for, if it is in    *)
(* anybody's hands, and no other.                                          *)
LEMMA AckIsSettle ==
  ASSUME NEW w \in Workers, pc[w] \in {"take", "exit"}, pending[w] \in Jobs \cup {Nil},
         Asked' = Asked \ {<<w, pending[w]>>},
         NEW delivered \in SUBSET Jobs, AtMostOneOf(delivered), delivered \subseteq Owing,
         Leased' = (Leased \ Owed(w)) \cup delivered,
         Owing' = Owing \/ Owing' = Owing \ ((Owed(w) \cap Leased) \ delivered)
  PROVE  [Promise!PromiseNext]_(Promise!promise)
<1>1. delivered \in Promise!AtMostOne
  BY DEF AtMostOneOf, Promise!AtMostOne
<1>2. CASE Owed(w) \cap Leased = {}
  <2>1. Promise!Deliver(delivered)
    BY <1>2 DEF Promise!Deliver
  <2> QED
    BY <1>1, <2>1 DEF Promise!PromiseNext
<1>3. CASE Owed(w) \cap Leased # {}
  <2>1. Owed(w) = {pending[w]} /\ pending[w] # Nil /\ pending[w] \in Jobs \cap Leased
    BY <1>3 DEF Owed
  <2>2. <<w, pending[w]>> \in Asked
    BY <2>1 DEF Asked
  <2>3. Promise!Settle(w, pending[w], delivered)
    BY <2>1, <2>2 DEF Promise!Settle
  <2> QED
    BY <1>1, <2>1, <2>3 DEF Promise!PromiseNext
<1> QED
  BY <1>2, <1>3

(* The steps of a thread. *)
LEMMA ThreadKeepsThePromise ==
  ASSUME TypeInv, OpaqueNeverLeased, OpaqueNeverLeased', NEW w \in Workers, WorkerStep(w)
  PROVE  [Promise!PromiseNext]_(Promise!promise)
<1>1. /\ pc \in [Workers -> PC] /\ pending \in [Workers -> Jobs \cup {Nil}]
      /\ Owed(w) \in SUBSET Jobs /\ AtMostOneOf(Owed(w)) /\ QueueInv
  BY DEF Owed, AtMostOneOf, TypeInv, WorkerTypeOK
<1>2. CASE LoopTest(w)
  <2>1. Leased' = Leased /\ Owing' = Owing
    BY <1>2 DEF LoopTest, Leased, Owing, QueuedIds
  <2>2. CASE pending[w] = Nil
    <3>1. Asked' = Asked
      BY <1>1, <1>2, <2>2 DEF LoopTest, Asked
    <3> QED
      BY <2>1, <3>1 DEF Promise!promise
  <2>3. CASE pending[w] # Nil
    <3>1. Asked' = Asked \cup {<<w, pending[w]>>}
      BY <1>1, <1>2, <2>3 DEF LoopTest, Asked
    <3>2. Promise!Ask(<<w, pending[w]>>)
      BY <2>1, <3>1 DEF Promise!Ask
    <3>3. <<w, pending[w]>> \in Promise!Requests
      BY <1>1, <2>3 DEF Promise!Requests
    <3> QED
      BY <3>2, <3>3 DEF Promise!PromiseNext
  <2> QED
    BY <2>2, <2>3
<1>3. ASSUME NEW r \in Replies, NEW x \in queue \cup {Nil}, Take(w, r, x)
      PROVE  [Promise!PromiseNext]_(Promise!promise)
  <2>1. pc[w] = "take" /\ Asked' = Asked \ {<<w, pending[w]>>}
    <3>1. /\ pc[w] = "take" /\ pc'[w] \in {"loop", "start"}
          /\ \A v \in Workers \ {w} : pc'[v] = pc[v] /\ pending'[v] = pending[v]
      BY <1>1, <1>3 DEF Take
    <3> QED
      BY <3>1, RequestEnds
  <2>2. CASE AckAndPop(Owed(w), x)
    <3>1. /\ LeasedBy(x) \subseteq Owing /\ LeasedBy(x) \subseteq Jobs
          /\ AtMostOneOf(LeasedBy(x))
          /\ Leased' = (Leased \ Owed(w)) \cup LeasedBy(x)
          /\ \/ Owing' = Owing
             \/ Owing' = Owing \ ((Owed(w) \cap Leased) \ LeasedBy(x))
      BY <1>1, <2>2, PopEffect
    <3> QED
      BY <1>1, <2>1, <3>1, AckIsSettle
  <2>3. CASE UNCHANGED queueVars
    BY <2>1, <2>3, QuietIsDeliver
  <2> QED
    BY <1>3, <2>2, <2>3 DEF Take
<1>4. ASSUME NEW r \in Replies, Release(w, r)
      PROVE  [Promise!PromiseNext]_(Promise!promise)
  <2>1. pc[w] = "exit" /\ Asked' = Asked \ {<<w, pending[w]>>}
    <3>1. /\ pc[w] = "exit" /\ pc'[w] = "off"
          /\ \A v \in Workers \ {w} : pc'[v] = pc[v] /\ pending'[v] = pending[v]
      BY <1>1, <1>4 DEF Release
    <3> QED
      BY <3>1, RequestEnds
  <2>2. CASE Forget(Owed(w)) /\ UNCHANGED queue
    <3>1. /\ Leased' = (Leased \ Owed(w)) \cup {}
          /\ Owing' = Owing \/ Owing' = Owing \ ((Owed(w) \cap Leased) \ {})
      BY <1>1, <2>2, AckEffect
    <3>2. AtMostOneOf({})
      BY DEF AtMostOneOf
    <3> QED
      BY <1>1, <2>1, <3>1, <3>2, AckIsSettle
  <2>3. CASE UNCHANGED queueVars
    BY <2>1, <2>3, QuietIsDeliver
  <2> QED
    BY <1>4, <2>2, <2>3 DEF Release
<1>5. ASSUME \/ Succeed(w) \/ Fail(w) \/ Abort(w)
             \/ \E r \in Replies : Start(w, r) \/ RecordFailure(w, r) \/ Finish(w, r)
      PROVE  [Promise!PromiseNext]_(Promise!promise)
  <2>1. /\ pc[w] \notin {"take", "exit"} /\ pc'[w] \notin {"take", "exit"}
        /\ \A v \in Workers \ {w} : pc'[v] = pc[v] /\ pending'[v] = pending[v]
        /\ UNCHANGED queueVars
    BY <1>1, <1>5 DEF Succeed, Fail, Abort, Start, RecordFailure, Finish
  <2> QED
    BY <2>1, NoRequest, QuietIsDeliver
<1> QED
  BY <1>2, <1>3, <1>4, <1>5 DEF WorkerStep

(* The steps of a process, which end requests but make none. *)
LEMMA PodKeepsThePromise ==
  ASSUME TypeInv, NEW p \in Pods, PodNext(p)
  PROVE  [Promise!PromiseNext]_(Promise!promise)
<1>1. QueueInv
  BY DEF TypeInv
<1>2. ASSUME NEW r \in Replies, RequeueStalled(p, r)
      PROVE  [Promise!PromiseNext]_(Promise!promise)
  <2>1. LosesNothing
    BY <1>1, <1>2, HeldType, NothingLost DEF RequeueStalled
  <2> QED
    BY <1>2, <2>1, SameRequests, HarmlessIsGiveBack DEF RequeueStalled
<1>3. CASE RenewLeases(p)
  <2>1. LosesNothing
    BY <1>1, <1>3, NothingLost DEF RenewLeases
  <2> QED
    BY <1>3, <2>1, SameRequests, HarmlessIsGiveBack DEF RenewLeases
<1>4. ASSUME NEW w \in Workers, Replace(p, w) \/ ScaleUp(p, w)
      PROVE  [Promise!PromiseNext]_(Promise!promise)
  <2>1. /\ pc[w] = "unborn" /\ pc'[w] = "loop"
        /\ \A v \in Workers \ {w} : pc'[v] = pc[v] /\ pending'[v] = pending[v]
        /\ UNCHANGED queueVars
    BY <1>4 DEF Replace, ScaleUp, Unborn, TypeInv, WorkerTypeOK
  <2> QED
    BY <2>1, NoRequest, QuietIsDeliver
<1>5. CASE Restart(p)
  <2>1. Asked' \subseteq Asked
    BY <1>5 DEF Restart, Asked
  <2> QED
    BY <1>5, <2>1, QuietIsDeliver DEF Restart
<1>6. ASSUME \/ \E w \in Workers : FindStalled(p, w) \/ ScaleDown(p, w)
             \/ \E r \in Replies : SaveStalled(p, r)
             \/ Drain(p)
      PROVE  [Promise!PromiseNext]_(Promise!promise)
  BY <1>6, SameRequests, QuietIsDeliver DEF FindStalled, ScaleDown, SaveStalled, Drain
<1> QED
  BY <1>2, <1>3, <1>4, <1>5, <1>6 DEF PodNext, PodStep, Exit, Crash

(* The API, the scheduler, the reaper and the clock answer no request. *)
LEMMA OthersKeepThePromise ==
  ASSUME TypeInv,
         \/ \E j \in Jobs, r \in Replies : Submit(j, r)
         \/ \E s \in Schedulers : PollStep(s) \/ SchedulerRestart(s)
         \/ ReaperPass \/ LeaseTick
  PROVE  [Promise!PromiseNext]_(Promise!promise)
<1>1. QueueInv
  BY DEF TypeInv
<1>2. ASSUME NEW j \in Jobs, NEW r \in Replies, Submit(j, r)
      PROVE  [Promise!PromiseNext]_(Promise!promise)
  <2>1. Asked' = Asked /\ (Push(Submitted(j)) \/ UNCHANGED queueVars)
    BY <1>2, SameRequests DEF Submit
  <2> QED
    BY <2>1, SubmittedType, PushIsAccept, QuietIsDeliver
<1>3. ASSUME NEW s \in Schedulers, NEW e, NEW r \in Replies, PollPush(s, e, r)
      PROVE  [Promise!PromiseNext]_(Promise!promise)
  <2>1. Asked' = Asked /\ (Push([e EXCEPT !.status = "pending"]) \/ UNCHANGED queueVars)
    BY <1>3, SameRequests DEF PollPush
  <2>2. [e EXCEPT !.status = "pending"] \in Entry
    BY <1>3, EntriesOfScheduler DEF PollPush
  <2> QED
    BY <2>1, <2>2, PushIsAccept, QuietIsDeliver
<1>4. ASSUME NEW s \in Schedulers, PollStep(s) \/ SchedulerRestart(s)
      PROVE  [Promise!PromiseNext]_(Promise!promise)
  <2>1. ASSUME UNCHANGED queueVars, UNCHANGED <<pc, pending>>
        PROVE  [Promise!PromiseNext]_(Promise!promise)
    BY <2>1, SameRequests, QuietIsDeliver
  <2> QED
    BY <1>3, <1>4, <2>1 DEF PollStep, PollRead, PollRemove, SchedulerRestart
<1>5. ASSUME ReaperPass \/ LeaseTick
      PROVE  [Promise!PromiseNext]_(Promise!promise)
  <2>1. LosesNothing
    BY <1>1, <1>5, NothingLost DEF ReaperPass, LeaseTick
  <2> QED
    BY <1>5, <2>1, SameRequests, HarmlessIsGiveBack DEF ReaperPass, LeaseTick
<1> QED
  BY <1>2, <1>4, <1>5

(* With all its threads, monitors, schedulers and retries, the system      *)
(* keeps the promise: a job that was pushed is waiting or leased until a   *)
(* thread that set out to acknowledge it has done so.  No other call, and  *)
(* no crash, takes it away.                                                *)
THEOREM SystemKeepsThePromise == Spec => KeepsThePromise
<1>1. Init => OpaqueNeverLeased /\ Promise!PromiseInit
  BY DEF Init, QueueInit, WorkerPoolInit, OpaqueNeverLeased, Leased, Owing, QueuedIds, Asked,
         Promise!PromiseInit
<1>2. TypeInv => QueueInv
  BY DEF TypeInv
<1>3. QueueInv /\ OpaqueNeverLeased /\ [Calls]_queueVars => OpaqueNeverLeased'
  BY OpaqueStepKept
<1>4. TypeInv /\ OpaqueNeverLeased /\ OpaqueNeverLeased' /\ [Next]_vars
        => [Promise!PromiseNext]_(Promise!promise)
  <2>1. ASSUME UNCHANGED vars PROVE UNCHANGED Promise!promise
    BY <2>1 DEF Leased, Owing, QueuedIds, Asked, Promise!promise
  <2> QED
    BY <2>1, ThreadKeepsThePromise, PodKeepsThePromise, OthersKeepThePromise
    DEF Next, WorkerNext, ThreadStep
<1> QED
  BY <1>1, <1>2, <1>3, <1>4, SystemCalls, TypeInvAlways, PTL
  DEF Spec, KeepsThePromise, Promise!PromiseSpec

-----------------------------------------------------------------------------
(* No renewal, requeue, retry or recovery of the system resurrects a lease. *)
THEOREM SystemLeasesComeFromThePop == Spec => LeasesComeFromThePop
<1>1. QueueInv /\ [Calls]_queueVars =>
        [\A j \in Jobs : (j \notin Leased /\ j \in Leased')
           => \E x \in queue : x.member.id = j /\ x \notin queue']_queueVars
  BY LeasedByPopping
<1>2. TypeInv => QueueInv
  BY DEF TypeInv
<1> QED
  BY <1>1, <1>2, SystemCalls, TypeInvAlways, PTL DEF Spec, LeasesComeFromThePop

(* Every job keeps the score of its submission, through every retry,       *)
(* requeue, lapse and recovery in the system.                              *)
THEOREM SystemKeepsPlaces == Spec => []KeepsItsPlace
<1>1. TypeInv => KeepsItsPlace
  BY DEF TypeInv, QueueInv
<1> QED
  BY <1>1, TypeInvAlways, PTL
=============================================================================
