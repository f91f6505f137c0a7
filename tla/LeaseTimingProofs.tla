--------------------------- MODULE LeaseTimingProofs ---------------------------
(***************************************************************************)
(* Proofs about LeaseTiming, for any number of processes, workers, jobs    *)
(* and reapers, any durations and any number of faults.                    *)
(***************************************************************************)
EXTENDS LeaseTiming, PriorityQueueProofs, FiniteSetTheorems

USE DEF queueVars, leaseKeys, threadVars, counters, vars

TimingInv == TimingTypeOK /\ QueueInv

(* What is assumed of the constants, spelled out for the provers. *)
LEMMA Durations ==
  /\ RenewInterval \in Nat \ {0} /\ MonitorSleep \in Nat \ {0}
  /\ HeartbeatTimeout \in Nat \ {0} /\ ReapInterval \in Nat \ {0}
  /\ MaxTask \in Nat \ {0} /\ Backoff \in Nat \ {0}
  /\ MaxLate \in Nat /\ MaxFaults \in Nat
  /\ LeaseTicks \in Nat \ {0} /\ ReapLimit \in Nat \ {0}
  /\ Nil \notin Jobs /\ Nil \notin Int
  /\ Reapers # {}
  /\ PodOf \in [Workers -> Pods]
BY TimingAssumption, QueueAssumption DEF TimingAssumption, QueueAssumption

(* The entry of a new job is an entry. *)
LEMMA WaitingType == ASSUME NEW j \in Jobs PROVE Waiting(j) \in Entry /\ Waiting(j).id = j
BY DEF Waiting, Entry, Status

(* The count of faults stays in bounds. *)
LEMMA FaultType ==
  ASSUME TimingInv, Fault \/ UNCHANGED faults PROVE faults' \in 0..MaxFaults
BY Durations DEF TimingInv, TimingTypeOK, Fault

(* A batch is finite, so the reaper can count it. *)
LEMMA BatchSize == ASSUME TimingInv, NEW S \in Batches PROVE Cardinality(S) \in Nat
<1>1. S \subseteq Jobs
  BY DEF Batches, Lapsed
<1> QED
  BY <1>1, TimingAssumption, FS_Subset, FS_CardinalityType DEF TimingAssumption

(* The invariant holds when everything starts. *)
LEMMA TimingInit == Init => TimingInv
<1> SUFFICES ASSUME Init PROVE TimingInv
  OBVIOUS
<1>1. QueueInv
  BY InitKeepsInv DEF Init
<1>2. Started \in MonitorState /\ [wait |-> 0, total |-> 0] \in ReaperState
  BY Durations DEF Started, MonitorState, ReaperState
<1>3. /\ monitor \in [Pods -> MonitorState]
      /\ reaper \in [Reapers -> ReaperState]
      /\ replaced \in [Pods -> SUBSET [job : Jobs, wedged : BOOLEAN]]
  BY <1>2 DEF Init
<1>4. /\ {leases_expired_total, lease_ack_late_total, expiries, takenBack, unanswered} \subseteq Nat
      /\ faults \in 0..MaxFaults
  BY Durations DEF Init
<1> QED
  BY <1>1, <1>3, <1>4 DEF Init, TimingInv, TimingTypeOK, QueueInv

-----------------------------------------------------------------------------
(* Types, one action at a time. *)

LEMMA SubmitTiming ==
  ASSUME TimingInv, NEW j \in Jobs, Submit(j) PROVE TimingInv'
<1>1. QueueInv'
  BY PushKeepsInv, WaitingType DEF Submit, TimingInv
<1> QED
  BY <1>1 DEF Submit, TimingInv, TimingTypeOK, QueueInv

(* take(), whatever becomes of the call. *)
LEMMA TakeTiming ==
  ASSUME TimingInv, NEW w \in Workers, NEW r \in Replies, NEW x \in queue \cup {Nil},
         Take(w, r, x)
  PROVE  TimingInv'
<1>1. QueueInv'
  <2>1. CASE AckAndPop(Owed(w), x)
    BY <2>1, AckAndPopKeepsInv DEF TimingInv
  <2>2. CASE UNCHANGED queueVars
    BY <2>2 DEF TimingInv, QueueInv, QueueTypeOK, LeaseKeysAgree, KeepsItsPlace, Leased
  <2> QED
    BY <2>1, <2>2 DEF Take
<1>2. faults' \in 0..MaxFaults
  BY FaultType DEF Take, Reply
<1>3. Parsed(x) = Nil \/ Parsed(x).id \in Jobs
  BY DEF Parsed, TimingInv, QueueInv, QueueTypeOK, Entry
<1>4. hand' \in [Workers -> Jobs \cup {Nil}]
  BY <1>3 DEF Take, TimingInv, TimingTypeOK
<1>5. /\ owes' \in [Workers -> Jobs \cup {Nil}]
      /\ rest' \in [Workers -> (0..Backoff) \cup {Nil}]
      /\ excused' \in BOOLEAN
  BY Durations DEF Take, TimingInv, TimingTypeOK
<1>6. {leases_expired_total', lease_ack_late_total', expiries', takenBack', unanswered'} \subseteq Nat
  BY DEF Take, CountAck, TimingInv, TimingTypeOK
<1> QED
  BY <1>1, <1>2, <1>4, <1>5, <1>6 DEF Take, TimingInv, TimingTypeOK, QueueInv

(* The end of a task, or its hanging. *)
LEMMA TaskTiming ==
  ASSUME TimingInv, NEW w \in Workers, Finish(w) \/ Abandon(w) \/ Wedge(w)
  PROVE  TimingInv'
<1>1. QueueInv'
  BY DEF Finish, Abandon, Wedge, TimingInv, QueueInv, QueueTypeOK, LeaseKeysAgree, KeepsItsPlace, Leased
<1>2. faults' \in 0..MaxFaults
  BY FaultType DEF Finish, Abandon, Wedge
<1> QED
  BY <1>1, <1>2 DEF Finish, Abandon, Wedge, TimingInv, TimingTypeOK, QueueInv

(* A replaced thread sends its last acknowledgement. *)
LEMMA FinishReplacedTiming ==
  ASSUME TimingInv, NEW p \in Pods, NEW t \in replaced[p], NEW r \in Replies,
         FinishReplaced(p, t, r)
  PROVE  TimingInv'
<1>1. QueueInv'
  <2>1. CASE Ack(t.job)
    BY <2>1, AckKeepsInv DEF Ack, TimingInv
  <2>2. CASE UNCHANGED queueVars
    BY <2>2 DEF TimingInv, QueueInv, QueueTypeOK, LeaseKeysAgree, KeepsItsPlace, Leased
  <2> QED
    BY <2>1, <2>2 DEF FinishReplaced
<1>2. replaced' \in [Pods -> SUBSET [job : Jobs, wedged : BOOLEAN]]
  BY DEF FinishReplaced, TimingInv, TimingTypeOK
<1>3. faults' \in 0..MaxFaults
  BY FaultType DEF FinishReplaced, Reply
<1> QED
  BY <1>1, <1>2, <1>3 DEF FinishReplaced, TimingInv, TimingTypeOK, QueueInv

(* A stalled worker has a job in hand: idle, it would have written its     *)
(* heartbeat.                                                              *)
IdleIsFresh == \A w \in Workers : hand[w] = Nil => beat[w] = 0

(* A requeue and a new worker in the old place. *)
LEMMA ReplaceTiming ==
  ASSUME TimingInv, IdleIsFresh, NEW p \in Pods, NEW w \in Workers, Replace(p, w)
  PROVE  TimingInv' /\ hand[w] \in Jobs /\ PodOf[w] = p
<1>1. hand[w] \in Jobs /\ PodOf[w] = p
  BY Durations DEF Replace, Stalled, IdleIsFresh, TimingInv, TimingTypeOK
<1>2. QueueInv'
  BY <1>1, WaitingType, RequeueKeepsInv DEF Replace, TimingInv
<1>3. replaced' \in [Pods -> SUBSET [job : Jobs, wedged : BOOLEAN]]
  <2>1. [job |-> hand[w], wedged |-> w \in wedged] \in [job : Jobs, wedged : BOOLEAN]
    BY <1>1
  <2> QED
    BY <2>1 DEF Replace, TimingInv, TimingTypeOK
<1> QED
  BY <1>1, <1>2, <1>3 DEF Replace, TimingInv, TimingTypeOK, QueueInv

(* The end of a pass of the monitor. *)
LEMMA PassTiming ==
  ASSUME TimingInv, NEW p \in Pods, Pass(p) \/ Renewal(p) \/ MissedRenewal(p)
  PROVE  TimingInv'
<1>1. QueueInv'
  <2>1. CASE Renewal(p)
    BY <2>1, RenewKeepsInv DEF Renewal, TimingInv
  <2>2. CASE UNCHANGED queueVars
    BY <2>2 DEF TimingInv, QueueInv, QueueTypeOK, LeaseKeysAgree, KeepsItsPlace, Leased
  <2> QED
    BY <2>1, <2>2 DEF Pass, MissedRenewal
<1>2. faults' \in 0..MaxFaults
  BY FaultType DEF Pass, Renewal, MissedRenewal, Checked
<1>3. setback' \in [{"reaper", "monitor"} -> Nat]
  BY Durations DEF Pass, Renewal, MissedRenewal, Checked, TimingInv, TimingTypeOK
<1>4. monitor' \in [Pods -> MonitorState]
  <2>1. /\ [monitor[p] EXCEPT !.wait = MonitorSleep] \in MonitorState
        /\ \A m \in BOOLEAN : [wait |-> MonitorSleep, since |-> 0, missed |-> m] \in MonitorState
    BY Durations DEF TimingInv, TimingTypeOK, MonitorState
  <2> QED
    BY <2>1 DEF Pass, Renewal, MissedRenewal, TimingInv, TimingTypeOK
<1>5. excused' \in BOOLEAN
  BY DEF Pass, Renewal, MissedRenewal, TimingInv, TimingTypeOK
<1> QED
  BY <1>1, <1>2, <1>3, <1>4, <1>5
  DEF Pass, Renewal, MissedRenewal, Renew, TimingInv, TimingTypeOK, QueueInv

(* A process dies. *)
LEMMA CrashTiming == ASSUME TimingInv, NEW p \in Pods, Crash(p) PROVE TimingInv'
<1>1. QueueInv'
  BY DEF Crash, TimingInv, QueueInv, QueueTypeOK, LeaseKeysAgree, KeepsItsPlace, Leased
<1>2. faults' \in 0..MaxFaults
  BY FaultType DEF Crash
<1>3. Started \in MonitorState
  BY Durations DEF Started, MonitorState
<1> QED
  BY <1>1, <1>2, <1>3 DEF Crash, TimingInv, TimingTypeOK, QueueInv

(* The reaper counts whole batches. *)
LEMMA ReaperTiming ==
  ASSUME TimingInv, NEW q \in Reapers, NEW S \in Batches, ReapCall(q, S) \/ ReapFails(q, S)
  PROVE  TimingInv'
<1>1. QueueInv'
  <2>1. CASE Reap(S)
    BY <2>1, ReapKeepsInv DEF TimingInv
  <2>2. CASE UNCHANGED queueVars
    BY <2>2 DEF TimingInv, QueueInv, QueueTypeOK, LeaseKeysAgree, KeepsItsPlace, Leased
  <2> QED
    BY <2>1, <2>2 DEF ReapCall, ReapFails
<1>2. faults' \in 0..MaxFaults
  BY FaultType DEF ReapCall, ReapFails
<1>3. setback' \in [{"reaper", "monitor"} -> Nat]
  BY Durations DEF ReapCall, ReapFails, TimingInv, TimingTypeOK
<1>4. {leases_expired_total', lease_ack_late_total', expiries', takenBack', unanswered'} \subseteq Nat
  <2>1. Cardinality(S) \in Nat /\ reaper[q].total \in Nat
    BY BatchSize DEF TimingInv, TimingTypeOK, ReaperState
  <2> QED
    BY <2>1 DEF ReapCall, ReapFails, TimingInv, TimingTypeOK
<1>5. reaper' \in [Reapers -> ReaperState]
  <2>1. /\ [wait |-> ReapInterval, total |-> 0] \in ReaperState
        /\ [reaper[q] EXCEPT !.total = @ + Cardinality(S)] \in ReaperState
    BY Durations, BatchSize DEF TimingInv, TimingTypeOK, ReaperState
  <2>2. \/ reaper' = [reaper EXCEPT ![q] = [wait |-> ReapInterval, total |-> 0]]
        \/ reaper' = [reaper EXCEPT ![q] = [reaper[q] EXCEPT !.total = @ + Cardinality(S)]]
    BY DEF ReapCall, ReapFails
  <2> QED
    BY <2>1, <2>2 DEF TimingInv, TimingTypeOK
<1> QED
  BY <1>1, <1>2, <1>3, <1>4, <1>5 DEF ReapCall, ReapFails, TimingInv, TimingTypeOK, QueueInv

(* A second passes; nothing that waits goes below its bound. *)
LEMMA SecondTiming == ASSUME TimingInv, Second PROVE TimingInv'
<1>1. QueueInv'
  BY TickKeepsInv DEF Second, TimingInv
<1>2. beat' \in [Workers -> Nat]
  <2>1. \A w \in Workers : beat[w] + 1 \in Nat
    BY DEF TimingInv, TimingTypeOK
  <2> QED
    BY <2>1 DEF Second
<1>3. rest' \in [Workers -> (0..Backoff) \cup {Nil}]
  <2>1. ASSUME NEW w \in Workers
        PROVE  (IF rest[w] \in {Nil, 0} THEN rest[w] ELSE rest[w] - 1) \in (0..Backoff) \cup {Nil}
    <3>1. rest[w] \in (0..Backoff) \cup {Nil}
      BY DEF TimingInv, TimingTypeOK
    <3>2. CASE rest[w] \in {Nil, 0}
      BY <3>1, <3>2
    <3>3. CASE rest[w] \in 1..Backoff
      BY <3>3, Durations
    <3> QED
      BY <3>1, <3>2, <3>3, Durations
  <2> QED
    BY <2>1 DEF Second
<1>4. unheld' \in [Jobs -> Nat]
  <2>1. \A j \in Jobs : unheld[j] + 1 \in Nat
    BY DEF TimingInv, TimingTypeOK
  <2> QED
    BY <2>1 DEF Second
<1>5. monitor' \in [Pods -> MonitorState]
  <2>1. ASSUME NEW p \in Pods
        PROVE  [monitor[p] EXCEPT !.wait = @ - 1, !.since = @ + 1] \in MonitorState
    <3>1. monitor[p] \in MonitorState /\ monitor[p].wait # -MaxLate
      BY DEF Second, Urgent, TimingInv, TimingTypeOK
    <3>2. /\ monitor[p].wait - 1 \in (-MaxLate)..MonitorSleep
          /\ monitor[p].since + 1 \in Nat
      BY <3>1, Durations DEF MonitorState
    <3> QED
      BY <3>1, <3>2 DEF MonitorState
  <2> QED
    BY <2>1 DEF Second
<1>6. reaper' \in [Reapers -> ReaperState]
  <2>1. ASSUME NEW q \in Reapers
        PROVE  [reaper[q] EXCEPT !.wait = @ - 1] \in ReaperState
    <3>1. reaper[q] \in ReaperState /\ reaper[q].wait # 0
      BY DEF Second, Urgent, TimingInv, TimingTypeOK
    <3> QED
      BY <3>1, Durations DEF ReaperState
  <2> QED
    BY <2>1 DEF Second
<1> QED
  BY <1>1, <1>2, <1>3, <1>4, <1>5, <1>6 DEF Second, TimingInv, TimingTypeOK, QueueInv

-----------------------------------------------------------------------------
(* The monitors are on time: the last attempt to renew is no longer ago    *)
(* than the interval and one sleep, and a heartbeat grows no older than    *)
(* the next pass of the monitor lets it.                                   *)
OnTime ==
  \A p \in Pods :
    monitor[p].since <= RenewInterval - 1 + MonitorSleep - monitor[p].wait

OnWatch ==
  \A w \in Workers :
    beat[w] + monitor[PodOf[w]].wait
      <= HeartbeatTimeout + MonitorSleep + setback["monitor"]

PunctualInv == IdleIsFresh /\ OnTime /\ OnWatch

(* The numbers these invariants compare. *)
LEMMA Numbers ==
  ASSUME TimingInv
  PROVE  /\ \A p \in Pods : /\ monitor[p].wait \in Int /\ monitor[p].since \in Nat
                            /\ -MaxLate <= monitor[p].wait
                            /\ monitor[p].wait <= MonitorSleep
                            /\ monitor[p].missed \in BOOLEAN
         /\ \A w \in Workers : beat[w] \in Nat /\ PodOf[w] \in Pods
         /\ \A q \in Reapers : reaper[q].wait \in 0..ReapInterval
         /\ \A j \in Jobs : unheld[j] \in Nat /\ processing[j] \in (0..LeaseTicks) \cup {Nil}
         /\ setback["monitor"] \in Nat /\ setback["reaper"] \in Nat
BY Durations DEF TimingInv, TimingTypeOK, MonitorState, ReaperState, QueueTypeOK

(* It is so at the start. *)
LEMMA PunctualInit == Init => PunctualInv
<1> SUFFICES ASSUME Init PROVE PunctualInv
  OBVIOUS
<1>1. \A p \in Pods : monitor[p].wait = 0 /\ monitor[p].since = RenewInterval
  BY DEF Init, Started
<1>2. /\ \A w \in Workers : beat[w] = 0 /\ PodOf[w] \in Pods
      /\ setback["monitor"] = 0
  BY Durations DEF Init
<1> QED
  BY <1>1, <1>2, Durations DEF PunctualInv, IdleIsFresh, OnTime, OnWatch

(* Steps that leave the monitors alone and make no heartbeat older. *)
LEMMA PunctualOthers ==
  ASSUME TimingInv, PunctualInv, UNCHANGED <<monitor, setback>>,
         \A w \in Workers : \/ beat'[w] = beat[w] /\ (hand'[w] = Nil => beat[w] = 0)
                           \/ beat'[w] = 0
  PROVE  PunctualInv'
<1>1. IdleIsFresh' /\ OnTime'
  BY DEF PunctualInv, IdleIsFresh, OnTime
<1>2. OnWatch'
  BY Numbers, Durations DEF PunctualInv, OnWatch
<1> QED
  BY <1>1, <1>2 DEF PunctualInv

(* The end of a pass: nobody's heartbeat is old, or requeue has failed. *)
LEMMA PunctualPass ==
  ASSUME TimingInv, PunctualInv, NEW p \in Pods,
         Pass(p) \/ Renewal(p) \/ MissedRenewal(p)
  PROVE  PunctualInv'
<1>1. UNCHANGED <<hand, beat>> /\ Due(p)
  BY DEF Pass, Renewal, MissedRenewal
<1>2. /\ monitor'[p].wait = MonitorSleep
      /\ monitor'[p].since <= RenewInterval - 1
      /\ \A o \in Pods \ {p} : monitor'[o] = monitor[o]
  <2>1. monitor \in [Pods -> MonitorState]
    BY DEF TimingInv, TimingTypeOK
  <2>2. CASE Pass(p)
    <3>1. monitor[p].since \in Nat /\ ~(monitor[p].since >= RenewInterval)
      BY <2>2, Numbers DEF Pass, RenewalDue
    <3> QED
      BY <2>1, <2>2, <3>1, Durations DEF Pass, MonitorState
  <2>3. CASE Renewal(p) \/ MissedRenewal(p)
    BY <2>1, <2>3, Durations DEF Renewal, MissedRenewal
  <2> QED
    BY <2>2, <2>3
<1>3. \/ Stalled(p) = {} /\ UNCHANGED setback
      \/ setback'["monitor"] = setback["monitor"] + MonitorSleep + MaxLate
  BY DEF Pass, Renewal, MissedRenewal, Checked, TimingInv, TimingTypeOK
<1>4. IdleIsFresh' /\ OnTime'
  BY <1>1, <1>2, Durations DEF PunctualInv, IdleIsFresh, OnTime
<1>5. ASSUME NEW w \in Workers
      PROVE  beat'[w] + monitor'[PodOf[w]].wait
               <= HeartbeatTimeout + MonitorSleep + setback'["monitor"]
  <2>1. CASE PodOf[w] # p
    BY <1>1, <1>2, <1>3, <2>1, Numbers, Durations DEF PunctualInv, OnWatch
  <2>2. CASE PodOf[w] = p /\ Stalled(p) = {} /\ UNCHANGED setback
    BY <1>1, <1>2, <2>2, Numbers, Durations DEF Stalled
  <2>3. CASE PodOf[w] = p /\ setback'["monitor"] = setback["monitor"] + MonitorSleep + MaxLate
    <3>1. beat[w] + monitor[p].wait <= HeartbeatTimeout + MonitorSleep + setback["monitor"]
      BY <2>3 DEF PunctualInv, OnWatch
    <3> QED
      BY <1>1, <1>2, <2>3, <3>1, Numbers, Durations
  <2> QED
    BY <1>3, <2>1, <2>2, <2>3
<1> QED
  BY <1>4, <1>5 DEF PunctualInv, OnWatch

(* A new process has fresh heartbeats. *)
LEMMA PunctualCrash ==
  ASSUME TimingInv, PunctualInv, NEW p \in Pods, Crash(p)
  PROVE  PunctualInv'
<1>1. /\ monitor'[p].wait = 0 /\ monitor'[p].since = RenewInterval
      /\ \A o \in Pods \ {p} : monitor'[o] = monitor[o]
      /\ UNCHANGED setback
  BY DEF Crash, Started, TimingInv, TimingTypeOK
<1>2. \A w \in Workers : IF PodOf[w] = p THEN beat'[w] = 0
                         ELSE beat'[w] = beat[w] /\ hand'[w] = hand[w]
  BY DEF Crash
<1>3. IdleIsFresh' /\ OnTime'
  BY <1>1, <1>2, Durations DEF PunctualInv, IdleIsFresh, OnTime
<1>4. OnWatch'
  BY <1>1, <1>2, Numbers, Durations DEF PunctualInv, OnWatch
<1> QED
  BY <1>3, <1>4 DEF PunctualInv

(* What grows older comes nearer to the next pass by as much. *)
LEMMA PunctualSecond == ASSUME TimingInv, PunctualInv, Second PROVE PunctualInv'
<1>1. \A p \in Pods : /\ monitor'[p].wait = monitor[p].wait - 1
                     /\ monitor'[p].since = monitor[p].since + 1
  BY DEF Second, TimingInv, TimingTypeOK, MonitorState
<1>2. /\ \A w \in Workers : beat'[w] = IF hand[w] = Nil THEN 0 ELSE beat[w] + 1
      /\ UNCHANGED <<hand, setback>>
  BY DEF Second
<1>3. IdleIsFresh'
  BY <1>2 DEF IdleIsFresh
<1>4. OnTime'
  BY <1>1, Numbers, Durations DEF PunctualInv, OnTime
<1>5. OnWatch'
  BY <1>1, <1>2, Numbers, Durations DEF PunctualInv, OnWatch
<1> QED
  BY <1>3, <1>4, <1>5 DEF PunctualInv

(* Both invariants are kept by every step. *)
LEMMA PunctualStep ==
  ASSUME TimingInv, PunctualInv, [Next]_vars
  PROVE  TimingInv' /\ PunctualInv'
<1>1. ASSUME NEW j \in Jobs, Submit(j) PROVE TimingInv' /\ PunctualInv'
  BY <1>1, SubmitTiming, PunctualOthers DEF Submit, PunctualInv, IdleIsFresh
<1>2. ASSUME NEW w \in Workers, NEW r \in Replies, NEW x \in queue \cup {Nil}, Take(w, r, x)
      PROVE  TimingInv' /\ PunctualInv'
  <2>1. \A v \in Workers : beat'[v] = beat[v] /\ (hand'[v] = Nil => beat[v] = 0)
    BY <1>2 DEF Take, PunctualInv, IdleIsFresh, TimingInv, TimingTypeOK
  <2> QED
    BY <1>2, <2>1, TakeTiming, PunctualOthers DEF Take
<1>3. ASSUME NEW w \in Workers, Finish(w) \/ Abandon(w) \/ Wedge(w)
      PROVE  TimingInv' /\ PunctualInv'
  <2>1. \A v \in Workers : \/ beat'[v] = beat[v] /\ (hand'[v] = Nil => beat[v] = 0)
                          \/ beat'[v] = 0
    BY <1>3 DEF Finish, Abandon, Wedge, PunctualInv, IdleIsFresh, TimingInv, TimingTypeOK
  <2> QED
    BY <1>3, <2>1, TaskTiming, PunctualOthers DEF Finish, Abandon, Wedge
<1>4. ASSUME NEW p \in Pods, NEW t \in replaced[p], NEW r \in Replies, FinishReplaced(p, t, r)
      PROVE  TimingInv' /\ PunctualInv'
  BY <1>4, FinishReplacedTiming, PunctualOthers DEF FinishReplaced, PunctualInv, IdleIsFresh
<1>5. ASSUME NEW p \in Pods, NEW w \in Workers, Replace(p, w)
      PROVE  TimingInv' /\ PunctualInv'
  <2>1. \A v \in Workers : \/ beat'[v] = beat[v] /\ (hand'[v] = Nil => beat[v] = 0)
                          \/ beat'[v] = 0
    BY <1>5 DEF Replace, PunctualInv, IdleIsFresh, TimingInv, TimingTypeOK
  <2> QED
    BY <1>5, <2>1, ReplaceTiming, PunctualOthers DEF Replace, PunctualInv
<1>6. ASSUME NEW p \in Pods, Pass(p) \/ Renewal(p) \/ MissedRenewal(p)
      PROVE  TimingInv' /\ PunctualInv'
  BY <1>6, PassTiming, PunctualPass
<1>7. ASSUME NEW p \in Pods, Crash(p) PROVE TimingInv' /\ PunctualInv'
  BY <1>7, CrashTiming, PunctualCrash
<1>8. ASSUME NEW q \in Reapers, NEW S \in Batches, ReapCall(q, S) \/ ReapFails(q, S)
      PROVE  TimingInv' /\ PunctualInv'
  <2>1. UNCHANGED <<monitor, beat, hand>> /\ setback'["monitor"] = setback["monitor"]
    BY <1>8 DEF ReapCall, ReapFails, TimingInv, TimingTypeOK
  <2> QED
    BY <1>8, <2>1, ReaperTiming DEF PunctualInv, IdleIsFresh, OnTime, OnWatch
<1>9. CASE Second
  BY <1>9, SecondTiming, PunctualSecond
<1>10. CASE UNCHANGED vars
  <2>1. QueueInv'
    BY <1>10 DEF TimingInv, QueueInv, QueueTypeOK, LeaseKeysAgree, KeepsItsPlace, Leased
  <2> QED
    BY <1>10, <2>1 DEF TimingInv, TimingTypeOK, QueueInv, PunctualInv, IdleIsFresh, OnTime, OnWatch
<1> QED
  BY <1>1, <1>2, <1>3, <1>4, <1>5, <1>6, <1>7, <1>8, <1>9, <1>10 DEF Next

(* They always hold. *)
LEMMA AlwaysPunctual == Spec => [](TimingInv /\ PunctualInv)
<1>1. Init => TimingInv /\ PunctualInv
  BY TimingInit, PunctualInit
<1>2. TimingInv /\ PunctualInv /\ [Next]_vars => TimingInv' /\ PunctualInv'
  BY PunctualStep
<1> QED
  BY <1>1, <1>2, PTL DEF Spec

(* All variables keep their types. *)
THEOREM TimingTypeCorrect == Spec => []TimingTypeOK
<1>1. TimingInv => TimingTypeOK
  BY DEF TimingInv
<1> QED
  BY <1>1, AlwaysPunctual, PTL

(* "Replaces a wedged thread within about ten seconds": within the timeout *)
(* and one period of the monitor, for any durations.                       *)
THEOREM WedgedThreadsAreReplacedInTime == Spec => []WedgedThreadsAreReplaced
<1>1. TimingInv /\ PunctualInv => WedgedThreadsAreReplaced
  BY Numbers, Durations DEF PunctualInv, OnWatch, WedgedThreadsAreReplaced
<1> QED
  BY <1>1, AlwaysPunctual, PTL

-----------------------------------------------------------------------------
(* What keeps a lost lease from lasting: while a lease that nobody holds   *)
(* runs, it has been unheld no longer than it has run; once it has lapsed, *)
(* the next pass of each reaper is at hand.                                *)
LostInv ==
  /\ \A j \in Jobs : unheld[j] < LeaseTicks + ReapInterval + setback["reaper"]
  /\ \A j \in Leased \ Lapsed :
       processing[j] # LeaseTicks => unheld[j] <= LeaseTicks - processing[j]
  /\ \A j \in Lapsed, q \in Reapers :
       unheld[j] + reaper[q].wait < LeaseTicks + ReapInterval + setback["reaper"]

(* No script but the clock makes a lease older: it leaves a deadline as it *)
(* is, removes it, or sets it anew.                                        *)
NoOlder == \A j \in Jobs : processing'[j] \in {Nil, LeaseTicks, processing[j]}

(* A script leaves a deadline as it is, removes it or makes it fresh. *)
LEMMA ScriptsMakeNoOlder ==
  ASSUME TimingInv,
         \/ \E acked : \E x \in queue \cup {Nil} : AckAndPop(acked, x)
         \/ \E ids : Forget(ids)
         \/ \E ids : Renew(ids)
         \/ \E m : Requeue(m)
         \/ UNCHANGED processing
  PROVE  NoOlder
<1>1. CASE \E acked : \E x \in queue \cup {Nil} : AckAndPop(acked, x)
  BY <1>1 DEF AckAndPop, Drop, NoOlder
<1>2. CASE \E ids : Forget(ids)
  BY <1>2 DEF Forget, Drop, NoOlder
<1>3. CASE \E ids : Renew(ids)
  BY <1>3 DEF Renew, NoOlder
<1>4. CASE \E m : Requeue(m)
  BY <1>4 DEF Requeue, Forget, Drop, NoOlder
<1>5. CASE UNCHANGED processing
  BY <1>5 DEF NoOlder
<1> QED
  BY <1>1, <1>2, <1>3, <1>4, <1>5

(* Only the clock and the end of a reaper's pass matter to the invariant. *)
LEMMA LostOthers ==
  ASSUME TimingInv, LostInv, NoOlder, UNCHANGED unheld,
         setback'["reaper"] = setback["reaper"],
         \A q \in Reapers : reaper'[q].wait = reaper[q].wait
  PROVE  LostInv'
<1>1. \A j \in Leased' : \/ processing'[j] = LeaseTicks
                         \/ j \in Leased /\ processing'[j] = processing[j]
  BY DEF NoOlder, Leased
<1>2. Lapsed' \subseteq Lapsed
  BY <1>1, Durations DEF Lapsed, Leased
<1> QED
  BY <1>1, <1>2 DEF LostInv, Lapsed, Leased

(* A pass that ends well leaves nothing lapsed. *)
LEMMA LostReapCall ==
  ASSUME TimingInv, LostInv, NEW q \in Reapers, NEW S \in Batches, ReapCall(q, S)
  PROVE  LostInv'
<1>1. NoOlder /\ Leased' = Leased \ S /\ UNCHANGED <<unheld, setback>>
  BY ScriptsMakeNoOlder, IdsAfterReap DEF ReapCall, Reap, TimingInv
<1>2. CASE Cardinality(S) < ReapLimit
  <2>1. S = Lapsed
    BY <1>2, BatchSize, Durations DEF Batches
  <2>2. \A j \in Leased' : processing'[j] = LeaseTicks \/ processing'[j] = processing[j]
    BY <1>1 DEF NoOlder, Leased
  <2>3. Lapsed' = {}
    BY <1>1, <2>1, <2>2, Durations DEF Lapsed, Leased
  <2> QED
    BY <1>1, <2>2, <2>3 DEF LostInv, Lapsed
<1>3. CASE ~(Cardinality(S) < ReapLimit)
  <2>1. \A o \in Reapers : reaper'[o].wait = reaper[o].wait
    BY <1>3 DEF ReapCall, TimingInv, TimingTypeOK, ReaperState
  <2> QED
    BY <1>1, <2>1, LostOthers
<1> QED
  BY <1>2, <1>3

(* One that fails costs one cycle. *)
LEMMA LostReapFails ==
  ASSUME TimingInv, LostInv, NEW q \in Reapers, NEW S \in Batches, ReapFails(q, S)
  PROVE  LostInv'
<1>1. NoOlder /\ UNCHANGED unheld
  BY ScriptsMakeNoOlder DEF ReapFails, Reap
<1>2. /\ setback'["reaper"] = setback["reaper"] + ReapInterval
      /\ reaper[q].wait = 0 /\ reaper'[q].wait = ReapInterval
      /\ \A o \in Reapers \ {q} : reaper'[o] = reaper[o]
  BY DEF ReapFails, TimingInv, TimingTypeOK
<1>3. \A j \in Leased' : \/ processing'[j] = LeaseTicks
                         \/ j \in Leased /\ processing'[j] = processing[j]
  BY <1>1 DEF NoOlder, Leased
<1>4. Lapsed' \subseteq Lapsed
  BY <1>3, Durations DEF Lapsed, Leased
<1>5. \A j \in Jobs : unheld'[j] < LeaseTicks + ReapInterval + setback'["reaper"]
  BY <1>1, <1>2, Numbers, Durations DEF LostInv
<1>6. \A j \in Leased' \ Lapsed' :
        processing'[j] # LeaseTicks => unheld'[j] <= LeaseTicks - processing'[j]
  BY <1>1, <1>3 DEF LostInv, Lapsed, Leased
<1>7. ASSUME NEW j \in Lapsed', NEW o \in Reapers
      PROVE  unheld'[j] + reaper'[o].wait < LeaseTicks + ReapInterval + setback'["reaper"]
  <2>1. j \in Jobs /\ unheld[j] + reaper[o].wait < LeaseTicks + ReapInterval + setback["reaper"]
                   /\ unheld[j] + reaper[q].wait < LeaseTicks + ReapInterval + setback["reaper"]
    BY <1>4 DEF LostInv, Lapsed
  <2> QED
    BY <1>1, <1>2, <2>1, Numbers, Durations
<1> QED
  BY <1>5, <1>6, <1>7 DEF LostInv

(* A tick takes from the lease, or from the reaper's sleep, what it adds   *)
(* to the time a job has been lost.                                        *)
LEMMA LostSecond == ASSUME TimingInv, LostInv, Second PROVE LostInv'
<1>1. /\ \A j \in Jobs : unheld'[j] = IF j \notin Leased \ Held THEN 0
                                      ELSE IF processing[j] = LeaseTicks THEN 1
                                      ELSE unheld[j] + 1
      /\ \A j \in Jobs : processing'[j] = IF j \in Leased \ Lapsed THEN processing[j] - 1
                                          ELSE processing[j]
      /\ UNCHANGED setback
  BY DEF Second, Tick
<1>2. \A q \in Reapers : /\ reaper'[q].wait = reaper[q].wait - 1
                        /\ reaper[q].wait \in 1..ReapInterval
  <2>1. reaper \in [Reapers -> ReaperState] /\ (\A q \in Reapers : reaper[q].wait # 0)
    BY DEF Second, Urgent, TimingInv, TimingTypeOK
  <2>2. \A q \in Reapers : reaper'[q].wait = reaper[q].wait - 1
    BY <2>1 DEF Second, ReaperState
  <2> QED
    BY <2>1, <2>2, Numbers, Durations
<1>3. Leased' = Leased /\ Leased \subseteq Jobs
  BY LeasedAfterTick DEF Second, TimingInv, Leased
<1>4. ASSUME NEW j \in Leased \ Lapsed
      PROVE  /\ unheld'[j] <= LeaseTicks
             /\ j \notin Lapsed' => unheld'[j] <= LeaseTicks - processing'[j]
  <2>1. processing[j] \in 1..LeaseTicks /\ processing'[j] = processing[j] - 1
    BY <1>1, <1>3, Numbers, Durations DEF Leased, Lapsed
  <2>2. unheld[j] \in Nat /\ (processing[j] # LeaseTicks => unheld[j] <= LeaseTicks - processing[j])
    BY <1>3, Numbers DEF LostInv
  <2> QED
    BY <1>1, <1>3, <2>1, <2>2, Durations
<1>5. ASSUME NEW j \in Lapsed, NEW q \in Reapers
      PROVE  unheld'[j] + reaper'[q].wait < LeaseTicks + ReapInterval + setback["reaper"]
  <2>1. j \in Jobs /\ processing[j] = 0 /\ unheld[j] \in Nat
    BY Numbers DEF Lapsed
  <2>2. unheld[j] + reaper[q].wait < LeaseTicks + ReapInterval + setback["reaper"]
    BY DEF LostInv
  <2>3. unheld'[j] = 0 \/ unheld'[j] = unheld[j] + 1
    BY <1>1, <2>1, Durations
  <2> QED
    BY <1>2, <2>1, <2>2, <2>3, Numbers, Durations
<1>6. \A j \in Jobs : unheld'[j] < LeaseTicks + ReapInterval + setback'["reaper"]
  <2> SUFFICES ASSUME NEW j \in Jobs
               PROVE  unheld'[j] < LeaseTicks + ReapInterval + setback["reaper"]
    BY <1>1
  <2>1. CASE j \notin Leased
    BY <1>1, <2>1, Numbers, Durations
  <2>2. CASE j \in Leased \ Lapsed
    <3>1. unheld'[j] <= LeaseTicks /\ unheld'[j] \in Nat
      BY <1>1, <1>4, <2>2, Numbers
    <3> QED
      BY <3>1, Numbers, Durations
  <2>3. CASE j \in Lapsed
    <3>1. PICK q \in Reapers : TRUE
      BY Durations
    <3>2. unheld'[j] \in Nat
      BY <1>1, Numbers
    <3> QED
      BY <1>2, <1>5, <2>3, <3>1, <3>2, Numbers, Durations
  <2> QED
    BY <2>1, <2>2, <2>3 DEF Lapsed, Leased
<1>7. \A j \in Leased' \ Lapsed' :
        processing'[j] # LeaseTicks => unheld'[j] <= LeaseTicks - processing'[j]
  <2>1. Lapsed \subseteq Lapsed'
    BY <1>1 DEF Lapsed
  <2> QED
    BY <1>3, <1>4, <2>1
<1>8. ASSUME NEW j \in Lapsed', NEW q \in Reapers
      PROVE  unheld'[j] + reaper'[q].wait < LeaseTicks + ReapInterval + setback'["reaper"]
  <2>1. CASE j \in Lapsed
    BY <1>1, <1>5, <2>1
  <2>2. CASE j \notin Lapsed
    <3>1. j \in Leased \ Lapsed
      BY <1>3, <2>2, Durations DEF Lapsed, Leased
    <3>2. unheld'[j] <= LeaseTicks /\ unheld'[j] \in Nat
      BY <1>1, <1>3, <1>4, <3>1, Numbers
    <3> QED
      BY <1>1, <1>2, <3>2, Numbers, Durations
  <2> QED
    BY <2>1, <2>2
<1> QED
  BY <1>6, <1>7, <1>8 DEF LostInv

(* Every step keeps it. *)
LEMMA LostStep == ASSUME TimingInv, LostInv, [Next]_vars PROVE LostInv'
<1>1. ASSUME NEW q \in Reapers, NEW S \in Batches, ReapCall(q, S) \/ ReapFails(q, S)
      PROVE  LostInv'
  BY <1>1, LostReapCall, LostReapFails
<1>2. CASE Second
  BY <1>2, LostSecond
<1>3. ASSUME NEW p \in Pods, Pass(p) \/ Renewal(p) \/ MissedRenewal(p) PROVE LostInv'
  <2>1. /\ UNCHANGED <<unheld, reaper>> /\ setback'["reaper"] = setback["reaper"]
        /\ Renew(Running(p)) \/ UNCHANGED processing
    BY <1>3 DEF Pass, Renewal, MissedRenewal, Checked, TimingInv, TimingTypeOK
  <2> QED
    BY <2>1, ScriptsMakeNoOlder, LostOthers
<1>4. ASSUME NEW w \in Workers, NEW r \in Replies, NEW x \in queue \cup {Nil}, Take(w, r, x)
      PROVE  LostInv'
  <2>1. UNCHANGED <<unheld, reaper, setback>> /\ (AckAndPop(Owed(w), x) \/ UNCHANGED processing)
    BY <1>4 DEF Take
  <2> QED
    BY <2>1, ScriptsMakeNoOlder, LostOthers
<1>5. ASSUME NEW p \in Pods, NEW w \in Workers, Replace(p, w) PROVE LostInv'
  <2>1. UNCHANGED <<unheld, reaper, setback>> /\ \E m : Requeue(m)
    BY <1>5 DEF Replace
  <2> QED
    BY <2>1, ScriptsMakeNoOlder, LostOthers
<1>6. ASSUME NEW p \in Pods, NEW t \in replaced[p], NEW r \in Replies, FinishReplaced(p, t, r)
      PROVE  LostInv'
  <2>1. /\ UNCHANGED <<unheld, reaper, setback>>
        /\ (\E ids : Forget(ids)) \/ UNCHANGED processing
    BY <1>6 DEF FinishReplaced, Ack
  <2> QED
    BY <2>1, ScriptsMakeNoOlder, LostOthers
<1>7. ASSUME UNCHANGED <<unheld, reaper, setback, processing>> PROVE LostInv'
  BY <1>7, ScriptsMakeNoOlder, LostOthers
<1> QED
  BY <1>1, <1>2, <1>3, <1>4, <1>5, <1>6, <1>7 DEF Next, Submit, Push, Finish, Abandon, Wedge, Crash

(* "Worst-case recovery time for a crashed worker's jobs is LEASE_SECONDS  *)
(* + REAP_INTERVAL", and one cycle more for each pass that failed.         *)
THEOREM CrashedJobsComeBackInTime == Spec => []CrashedJobsComeBack
<1>1. Init => LostInv
  BY Durations DEF Init, QueueInit, LostInv, Leased, Lapsed
<1>2. TimingInv /\ LostInv /\ [Next]_vars => LostInv'
  BY LostStep
<1>3. LostInv => CrashedJobsComeBack
  BY DEF LostInv, CrashedJobsComeBack, Leased
<1> QED
  BY <1>1, <1>2, <1>3, AlwaysPunctual, PTL DEF Spec

-----------------------------------------------------------------------------
(* A worker claims the job in its hand and the one it owes the             *)
(* acknowledgement of.                                                     *)
Claim(w) == {hand[w], owes[w]} \ {Nil}

(* How old the leases may be that a process renews, and for how long a     *)
(* worker has slept since its take failed.                                 *)
Age(p) == monitor[p].since + (IF monitor[p].missed THEN Gap ELSE 0)
Slept(w) == IF rest[w] = Nil THEN 0 ELSE Backoff - rest[w]

(* Every job is claimed once at most, by a worker whose lease on it runs:  *)
(* one in hand has been renewed recently, one that is owed was when it was *)
(* in hand.  What is claimed is not queued, so nobody else can pop it, and *)
(* no lease of another worker can be the one an acknowledgement takes.     *)
ClaimsApart ==
  /\ \A j \in Jobs : Single(j)
  /\ \A w \in Workers : hand[w] # Nil => owes[w] = Nil /\ rest[w] = Nil
  /\ \A w \in Workers : Claim(w) \cap QueuedIds = {}
  /\ \A v, w \in Workers : v # w => Claim(v) \cap Claim(w) = {}

ClaimsFresh ==
  /\ \A w \in Workers : hand[w] # Nil =>
       hand[w] \in Leased /\ processing[hand[w]] >= LeaseTicks - Age(PodOf[w])
  /\ \A w \in Workers : owes[w] \in Leased =>
       processing[owes[w]] >= LeaseTicks - 2 * Gap - Slept(w)

TasksShort ==
  /\ \A w \in Workers : w \in wedged \/ beat[w] <= MaxTask
  /\ \A p \in Pods : \A t \in replaced[p] : t.wedged

ClaimInv == ClaimsApart /\ ClaimsFresh /\ TasksShort

(* Renewals come soon enough: no claimed lease is near its end. *)
LEMMA ClaimedRun ==
  ASSUME DurationsFit, TimingInv, PunctualInv, ClaimInv, NEW w \in Workers
  PROVE  /\ PodOf[w] \in Pods /\ Claim(w) \subseteq Jobs
         /\ Gap \in Nat /\ Age(PodOf[w]) \in 0..(2 * Gap)
         /\ Slept(w) \in 0..Backoff
         /\ \A j \in Claim(w) \cap Leased : processing[j] \in 1..LeaseTicks
<1>1. PodOf[w] \in Pods /\ Claim(w) \subseteq Jobs /\ Gap \in Nat
  BY Numbers, Durations DEF Claim, TimingInv, TimingTypeOK, Gap
<1>2. monitor[PodOf[w]].since <= Gap
  BY <1>1, Numbers, Durations DEF PunctualInv, OnTime, Gap
<1>3. Age(PodOf[w]) \in 0..(2 * Gap)
  BY <1>1, <1>2, Numbers DEF Age
<1>4. Slept(w) \in 0..Backoff
  BY Durations DEF Slept, TimingInv, TimingTypeOK
<1>5. ASSUME NEW j \in Claim(w) \cap Leased PROVE processing[j] \in 1..LeaseTicks
  <2>1. processing[j] \in 0..LeaseTicks
    BY <1>1, Numbers DEF Leased
  <2>2. processing[j] >= LeaseTicks - 2 * Gap - Backoff
    <3>1. CASE j = hand[w]
      <4>1. processing[j] >= LeaseTicks - Age(PodOf[w])
        BY <3>1, <1>5 DEF Claim, ClaimInv, ClaimsFresh
      <4> QED
        BY <1>1, <1>3, <2>1, <4>1, Durations
    <3>2. CASE j = owes[w]
      <4>1. processing[j] >= LeaseTicks - 2 * Gap - Slept(w)
        BY <3>2, <1>5 DEF Claim, ClaimInv, ClaimsFresh
      <4> QED
        BY <1>1, <1>4, <2>1, <4>1, Durations
    <3> QED
      BY <3>1, <3>2 DEF Claim
  <2> QED
    BY <1>1, <2>1, <2>2, Durations DEF DurationsFit
<1> QED
  BY <1>1, <1>3, <1>4, <1>5

(* At the start nobody claims anything. *)
LEMMA ClaimInit == Init => ClaimInv
<1> SUFFICES ASSUME Init PROVE ClaimInv
  OBVIOUS
<1>1. ClaimsApart
  BY DEF Init, QueueInit, ClaimsApart, Single, QueuedIds, Claim
<1>2. Nil \notin Leased
  BY Durations DEF Leased
<1> QED
  BY <1>1, <1>2, Durations DEF Init, ClaimInv, ClaimsFresh, TasksShort

(* Steps that let the threads be, put no claimed job on the queue and take *)
(* nothing from a claimed lease.                                           *)
LEMMA ClaimOthers ==
  ASSUME ClaimInv,
         UNCHANGED <<hand, owes, rest, wedged, beat, replaced>>,
         \A j \in Jobs : Single(j)',
         \A w \in Workers :
           /\ Claim(w) \cap QueuedIds' = {}
           /\ hand[w] # Nil => /\ hand[w] \in Leased'
                               /\ processing'[hand[w]] >= LeaseTicks - Age(PodOf[w])'
           /\ owes[w] \in Leased' => processing'[owes[w]] >= LeaseTicks - 2 * Gap - Slept(w)
  PROVE  ClaimInv'
BY DEF ClaimInv, ClaimsApart, ClaimsFresh, TasksShort, Claim, Slept

(* A new job is claimed by nobody. *)
LEMMA ClaimSubmit ==
  ASSUME DurationsFit, TimingInv, PunctualInv, ClaimInv, NEW j \in Jobs, Submit(j)
  PROVE  ClaimInv'
<1>1. Push(Waiting(j)) /\ Waiting(j).id = j /\ j \notin QueuedIds \cup Leased \cup Held
  BY WaitingType DEF Submit
<1>2. \A i \in Jobs : Single(i)'
  BY <1>1, PushSingle DEF ClaimInv, ClaimsApart
<1>3. QueuedIds' = QueuedIds \cup {j} /\ UNCHANGED <<processing, monitor>> /\ Leased' = Leased
  BY <1>1, IdsAfterAddingOne DEF Push, Submit, Leased
<1>4. \A w \in Workers : j \notin Claim(w)
  BY <1>1 DEF Held, Claim
<1> QED
  BY <1>2, <1>3, <1>4, ClaimOthers DEF Submit, ClaimInv, ClaimsApart, ClaimsFresh, Age

(* A pass without a renewal, and a renewal. *)
LEMMA ClaimPass ==
  ASSUME DurationsFit, TimingInv, PunctualInv, ClaimInv, NEW p \in Pods,
         Pass(p) \/ Renewal(p)
  PROVE  ClaimInv'
<1>1. Leased' = Leased /\ UNCHANGED queue
  BY LeasedAfterRenew DEF Pass, Renewal, Renew, Leased
<1>2. \A j \in Jobs : Single(j)'
  BY <1>1, SameSingle DEF ClaimInv, ClaimsApart
<1>3. \A j \in Jobs : \/ processing'[j] = processing[j]
                      \/ processing'[j] = LeaseTicks
  BY DEF Pass, Renewal, Renew
<1>4. ASSUME NEW w \in Workers
      PROVE  /\ Claim(w) \cap QueuedIds' = {}
             /\ hand[w] # Nil => /\ hand[w] \in Leased'
                                 /\ processing'[hand[w]] >= LeaseTicks - Age(PodOf[w])'
             /\ owes[w] \in Leased' => processing'[owes[w]] >= LeaseTicks - 2 * Gap - Slept(w)
  <2>1. Claim(w) \cap QueuedIds' = {}
    BY <1>1 DEF ClaimInv, ClaimsApart, QueuedIds
  <2>2. owes[w] \in Leased' => processing'[owes[w]] >= LeaseTicks - 2 * Gap - Slept(w)
    BY <1>1, <1>3, ClaimedRun, Durations DEF ClaimInv, ClaimsFresh, Leased
  <2>3. ASSUME hand[w] # Nil
        PROVE  hand[w] \in Leased' /\ processing'[hand[w]] >= LeaseTicks - Age(PodOf[w])'
    <3>1. hand[w] \in Leased /\ hand[w] \in Jobs /\ processing[hand[w]] >= LeaseTicks - Age(PodOf[w])
      BY <2>3 DEF ClaimInv, ClaimsFresh, Leased
    <3>2. CASE Renewal(p) /\ PodOf[w] = p
      <4>1. Age(p)' = 0
        BY <3>2, Durations DEF Renewal, Age, TimingInv, TimingTypeOK
      <4>2. processing'[hand[w]] = LeaseTicks
        BY <2>3, <3>1, <3>2 DEF Renewal, Renew, Running
      <4> QED
        BY <1>1, <3>1, <3>2, <4>1, <4>2, Durations
    <3>3. CASE Pass(p) \/ PodOf[w] # p
      <4>1. Age(PodOf[w])' = Age(PodOf[w])
        BY <3>3, Numbers DEF Pass, Renewal, Age, TimingInv, TimingTypeOK, MonitorState
      <4> QED
        BY <1>1, <1>3, <3>1, <4>1, ClaimedRun, Durations
    <3> QED
      BY <3>2, <3>3
  <2> QED
    BY <2>1, <2>2, <2>3
<1> QED
  BY <1>2, <1>4, ClaimOthers DEF Pass, Renewal

(* A missed renewal: the one before it was not missed. *)
LEMMA ClaimMissed ==
  ASSUME DurationsFit, TimingInv, PunctualInv, ClaimInv, NEW p \in Pods, MissedRenewal(p),
         ~monitor[p].missed
  PROVE  ClaimInv'
<1>1. ASSUME NEW w \in Workers PROVE Age(PodOf[w])' >= Age(PodOf[w]) /\ Age(PodOf[w])' \in Int
  <2>1. CASE PodOf[w] = p
    <3>1. Gap \in Nat /\ monitor[p].since \in Nat
      BY ClaimedRun, Numbers
    <3>2. monitor'[p] = [wait |-> MonitorSleep, since |-> 0, missed |-> TRUE]
      BY DEF MissedRenewal, TimingInv, TimingTypeOK
    <3>3. Age(p)' = Gap /\ Age(p) = monitor[p].since
      BY <3>1, <3>2 DEF MissedRenewal, Age
    <3>4. monitor[p].since <= Gap
      BY Numbers, Durations DEF PunctualInv, OnTime, Gap
    <3> QED
      BY <2>1, <3>1, <3>3, <3>4
  <2>2. CASE PodOf[w] # p
    <3>1. Age(PodOf[w])' = Age(PodOf[w])
      BY <2>2, Numbers DEF MissedRenewal, Age, TimingInv, TimingTypeOK
    <3> QED
      BY <3>1, ClaimedRun
  <2> QED
    BY <2>1, <2>2
<1>2. Leased' = Leased /\ QueuedIds' = QueuedIds /\ UNCHANGED <<queue, processing>>
  BY DEF MissedRenewal, Leased, QueuedIds
<1>3. \A j \in Jobs : Single(j)'
  BY <1>2, SameSingle DEF ClaimInv, ClaimsApart
<1>4. ASSUME NEW w \in Workers, hand[w] # Nil
      PROVE  processing'[hand[w]] >= LeaseTicks - Age(PodOf[w])'
  <2>1. processing[hand[w]] \in 1..LeaseTicks /\ processing[hand[w]] >= LeaseTicks - Age(PodOf[w])
    BY <1>4, ClaimedRun DEF Claim, ClaimInv, ClaimsFresh
  <2> QED
    BY <1>1, <1>2, <2>1, ClaimedRun, Durations
<1> QED
  BY <1>2, <1>3, <1>4, ClaimOthers DEF MissedRenewal, ClaimInv, ClaimsApart, ClaimsFresh

(* The reaper takes back what has lapsed, and no claimed lease has. *)
LEMMA ClaimReap ==
  ASSUME DurationsFit, TimingInv, PunctualInv, ClaimInv, NEW q \in Reapers,
         NEW S \in Batches, ReapCall(q, S) \/ ReapFails(q, S)
  PROVE  ClaimInv'
<1>1. CASE Reap(S)
  <2>1. QueuedIds' = QueuedIds \cup S /\ Leased' = Leased \ S
    BY <1>1, IdsAfterReap DEF TimingInv
  <2>2. \A j \in Jobs : Single(j)'
    BY <1>1, ReapSingle DEF TimingInv, ClaimInv, ClaimsApart
  <2>3. \A w \in Workers : Claim(w) \cap S = {}
    <3> SUFFICES ASSUME NEW w \in Workers, NEW j \in Claim(w) \cap S PROVE FALSE
      OBVIOUS
    <3>1. j \in Leased /\ processing[j] = 0
      BY Durations DEF Batches, Lapsed, Leased
    <3> QED
      BY <3>1, ClaimedRun, Durations
  <2>4. \A j \in Jobs \ S : processing'[j] = processing[j]
    BY <1>1 DEF Reap, Forget, Drop
  <2>5. \A w \in Workers : (hand[w] # Nil => hand[w] \in Claim(w)) /\ (owes[w] # Nil => owes[w] \in Claim(w))
    BY DEF Claim
  <2>6. Nil \notin Leased /\ Leased \subseteq Jobs /\ UNCHANGED monitor
    BY Durations DEF Leased, ReapCall, ReapFails
  <2>7. UNCHANGED <<hand, owes, rest, wedged, beat, replaced>>
    BY DEF ReapCall, ReapFails
  <2>8. ASSUME NEW w \in Workers
        PROVE  /\ Claim(w) \cap QueuedIds' = {}
               /\ hand[w] # Nil => /\ hand[w] \in Leased'
                                   /\ processing'[hand[w]] >= LeaseTicks - Age(PodOf[w])'
               /\ owes[w] \in Leased' => processing'[owes[w]] >= LeaseTicks - 2 * Gap - Slept(w)
    BY <2>1, <2>3, <2>4, <2>5, <2>6 DEF ClaimInv, ClaimsApart, ClaimsFresh, Age
  <2> QED
    BY <2>2, <2>7, <2>8, ClaimOthers
<1>2. CASE UNCHANGED queueVars
  <2>1. Leased' = Leased /\ QueuedIds' = QueuedIds /\ UNCHANGED <<queue, processing, monitor>>
    BY <1>2 DEF ReapCall, ReapFails, Leased, QueuedIds
  <2>2. \A j \in Jobs : Single(j)'
    BY <2>1, SameSingle DEF ClaimInv, ClaimsApart
  <2>3. UNCHANGED <<hand, owes, rest, wedged, beat, replaced>>
    BY DEF ReapCall, ReapFails
  <2> QED
    BY <2>1, <2>2, <2>3, ClaimOthers DEF ClaimInv, ClaimsApart, ClaimsFresh, Age
<1> QED
  BY <1>1, <1>2 DEF ReapCall, ReapFails

(* Time: what a renewal or a sleep lacks, the lease has left.              *)
LEMMA ClaimSecond ==
  ASSUME DurationsFit, TimingInv, PunctualInv, ClaimInv, Second
  PROVE  ClaimInv'
<1>1. Leased' = Leased /\ UNCHANGED <<queue, hand, owes, wedged, replaced>>
  BY LeasedAfterTick DEF Second, Tick, TimingInv
<1>2. \A j \in Jobs : Single(j)'
  BY <1>1, SameSingle DEF ClaimInv, ClaimsApart
<1>3. \A w \in Workers : \A j \in Claim(w) \cap Leased :
        processing[j] \in 1..LeaseTicks /\ processing'[j] = processing[j] - 1
  <2> SUFFICES ASSUME NEW w \in Workers, NEW j \in Claim(w) \cap Leased
               PROVE  processing[j] \in 1..LeaseTicks /\ processing'[j] = processing[j] - 1
    OBVIOUS
  <2>1. j \in Jobs /\ processing[j] \in 1..LeaseTicks
    BY ClaimedRun
  <2>2. j \in Leased \ Lapsed
    BY <2>1, Durations DEF Lapsed
  <2>3. processing' = [i \in Jobs |-> IF i \in Leased \ Lapsed THEN processing[i] - 1
                                      ELSE processing[i]]
    BY DEF Second, Tick
  <2> QED
    BY <2>1, <2>2, <2>3
<1>4. \A p \in Pods : Age(p) \in Nat /\ Age(p)' = Age(p) + 1
  <2> SUFFICES ASSUME NEW p \in Pods PROVE Age(p) \in Nat /\ Age(p)' = Age(p) + 1
    OBVIOUS
  <2>1. monitor[p].since \in Nat /\ Gap \in Nat
    BY Numbers, Durations DEF Gap
  <2>2. monitor'[p].since = monitor[p].since + 1 /\ monitor'[p].missed = monitor[p].missed
    BY DEF Second, TimingInv, TimingTypeOK, MonitorState
  <2> QED
    BY <2>1, <2>2 DEF Age
<1>5. \A w \in Workers : owes[w] # Nil => Slept(w)' = Slept(w) + 1
  <2> SUFFICES ASSUME NEW w \in Workers, owes[w] # Nil PROVE Slept(w)' = Slept(w) + 1
    OBVIOUS
  <2>1. rest[w] \notin {Nil, 0}
    BY DEF Second, Urgent
  <2>2. rest[w] \in (0..Backoff) \cup {Nil}
    BY DEF TimingInv, TimingTypeOK
  <2>3. rest'[w] = rest[w] - 1
    BY <2>1 DEF Second
  <2>4. rest[w] - 1 # Nil
    BY <2>1, <2>2, Durations
  <2> QED
    BY <2>1, <2>2, <2>3, <2>4, Durations DEF Slept
<1>6. ClaimsApart'
  <2>1. \A w \in Workers : hand'[w] # Nil => owes'[w] = Nil /\ rest'[w] = Nil
    BY <1>1 DEF Second, ClaimInv, ClaimsApart
  <2> QED
    BY <1>1, <1>2, <2>1 DEF ClaimInv, ClaimsApart, Claim, QueuedIds
<1>7. ASSUME NEW w \in Workers, hand[w] # Nil
      PROVE  hand[w] \in Leased /\ processing'[hand[w]] >= LeaseTicks - Age(PodOf[w])'
  <2>1. hand[w] \in Claim(w) \cap Leased /\ processing[hand[w]] >= LeaseTicks - Age(PodOf[w])
    BY <1>7 DEF Claim, ClaimInv, ClaimsFresh
  <2> QED
    BY <1>3, <1>4, <2>1, ClaimedRun, Durations
<1>8. ASSUME NEW w \in Workers, owes[w] \in Leased
      PROVE  processing'[owes[w]] >= LeaseTicks - 2 * Gap - Slept(w)'
  <2>1. owes[w] # Nil
    BY <1>8, Durations DEF Leased
  <2>2. owes[w] \in Claim(w) \cap Leased /\ processing[owes[w]] >= LeaseTicks - 2 * Gap - Slept(w)
    BY <1>8, <2>1 DEF Claim, ClaimInv, ClaimsFresh
  <2> QED
    BY <1>3, <1>5, <2>1, <2>2, ClaimedRun, Durations
<1>9. TasksShort'
  <2>1. ASSUME NEW w \in Workers PROVE w \in wedged \/ beat'[w] <= MaxTask
    <3>1. beat'[w] = IF hand[w] = Nil THEN 0 ELSE beat[w] + 1
      BY DEF Second
    <3>2. w \in wedged \/ beat[w] # MaxTask
      BY DEF Second, Urgent
    <3> QED
      BY <3>1, <3>2, Numbers, Durations DEF ClaimInv, TasksShort
  <2> QED
    BY <1>1, <2>1 DEF ClaimInv, TasksShort
<1> QED
  BY <1>1, <1>6, <1>7, <1>8, <1>9 DEF ClaimInv, ClaimsFresh

(* A task that ends leaves a fresh lease to acknowledge. *)
LEMMA ClaimTask ==
  ASSUME DurationsFit, TimingInv, PunctualInv, ClaimInv, NEW w \in Workers,
         Finish(w) \/ Abandon(w) \/ Wedge(w)
  PROVE  ClaimInv'
<1>1. Leased' = Leased /\ QueuedIds' = QueuedIds /\ UNCHANGED <<queue, processing, monitor>>
  BY DEF Finish, Abandon, Wedge, Leased, QueuedIds
<1>2. \A j \in Jobs : Single(j)'
  BY <1>1, SameSingle DEF ClaimInv, ClaimsApart
<1>3. hand[w] # Nil /\ hand[w] \in Leased /\ owes[w] = Nil /\ rest[w] = Nil
  BY DEF Finish, Abandon, Wedge, ClaimInv, ClaimsApart, ClaimsFresh
<1>4. CASE Finish(w)
  <2>1. /\ hand'[w] = Nil /\ owes'[w] = hand[w] /\ beat'[w] = 0 /\ UNCHANGED <<rest, replaced>>
        /\ \A v \in Workers \ {w} : hand'[v] = hand[v] /\ owes'[v] = owes[v] /\ beat'[v] = beat[v]
        /\ wedged' = wedged \ {w}
    BY <1>4 DEF Finish, TimingInv, TimingTypeOK
  <2>2. \A v \in Workers : Claim(v)' = Claim(v) /\ Slept(v)' = Slept(v)
    BY <1>3, <2>1 DEF Claim, Slept
  <2>3. ClaimsApart'
    BY <1>1, <1>2, <2>1, <2>2 DEF ClaimInv, ClaimsApart
  <2>4. processing[hand[w]] >= LeaseTicks - 2 * Gap - Slept(w)
    <3>1. processing[hand[w]] >= LeaseTicks - Age(PodOf[w])
      BY <1>3 DEF ClaimInv, ClaimsFresh
    <3>2. processing[hand[w]] \in 1..LeaseTicks /\ Slept(w) = 0
      BY <1>3, ClaimedRun DEF Claim, Slept
    <3> QED
      BY <3>1, <3>2, ClaimedRun, Durations
  <2>5. ClaimsFresh'
    BY <1>1, <2>1, <2>2, <2>4 DEF ClaimInv, ClaimsFresh, Age
  <2> QED
    BY <2>1, <2>3, <2>5, Durations DEF ClaimInv, TasksShort
<1>5. CASE Wedge(w)
  BY <1>1, <1>2, <1>5 DEF Wedge, ClaimInv, ClaimsApart, ClaimsFresh, TasksShort, Claim, Slept, Age
<1>6. CASE Abandon(w)
  <2>1. /\ hand'[w] = Nil /\ beat'[w] = 0 /\ UNCHANGED <<owes, rest, replaced>>
        /\ \A v \in Workers \ {w} : hand'[v] = hand[v] /\ beat'[v] = beat[v]
        /\ wedged' = wedged \ {w}
    BY <1>6 DEF Abandon, TimingInv, TimingTypeOK
  <2>2. ClaimsApart'
    BY <1>1, <1>2, <1>3, <2>1 DEF ClaimInv, ClaimsApart, Claim
  <2>3. ClaimsFresh'
    BY <1>1, <1>3, <2>1, Durations DEF ClaimInv, ClaimsFresh, Age, Slept, Leased
  <2> QED
    BY <2>1, <2>2, <2>3, Durations DEF ClaimInv, TasksShort
<1> QED
  BY <1>4, <1>5, <1>6

(* A process that dies gives up its claims; their leases run out. *)
LEMMA ClaimCrash ==
  ASSUME DurationsFit, TimingInv, PunctualInv, ClaimInv, NEW p \in Pods, Crash(p)
  PROVE  ClaimInv'
<1>1. Leased' = Leased /\ QueuedIds' = QueuedIds /\ UNCHANGED <<queue, processing>>
  BY DEF Crash, Leased, QueuedIds
<1>2. \A j \in Jobs : Single(j)'
  BY <1>1, SameSingle DEF ClaimInv, ClaimsApart
<1>3. \A w \in Workers :
        IF PodOf[w] = p
        THEN hand'[w] = Nil /\ owes'[w] = Nil /\ rest'[w] = Nil /\ beat'[w] = 0
        ELSE /\ hand'[w] = hand[w] /\ owes'[w] = owes[w] /\ rest'[w] = rest[w]
             /\ beat'[w] = beat[w] /\ (w \in wedged => w \in wedged')
             /\ Age(PodOf[w])' = Age(PodOf[w])
  BY Numbers DEF Crash, Age, TimingInv, TimingTypeOK
<1>4. ClaimsApart'
  BY <1>1, <1>2, <1>3 DEF ClaimInv, ClaimsApart, Claim
<1>5. ClaimsFresh'
  <2>1. Nil \notin Leased
    BY Durations DEF Leased
  <2> QED
    BY <1>1, <1>3, <2>1 DEF ClaimInv, ClaimsFresh, Slept
<1>6. TasksShort'
  <2>1. \A o \in Pods : replaced'[o] \subseteq replaced[o]
    BY DEF Crash, TimingInv, TimingTypeOK
  <2> QED
    BY <1>3, <2>1, Durations DEF ClaimInv, TasksShort
<1> QED
  BY <1>4, <1>5, <1>6 DEF ClaimInv

(* A stalled task is a wedged one, and its thread gives up its claim.      *)
LEMMA ClaimReplace ==
  ASSUME DurationsFit, TimingInv, PunctualInv, ClaimInv, NEW p \in Pods, NEW w \in Workers,
         Replace(p, w)
  PROVE  ClaimInv'
<1>1. hand[w] \in Jobs /\ hand[w] # Nil /\ hand[w] \in Leased /\ owes[w] = Nil
  BY ReplaceTiming, Durations DEF PunctualInv, ClaimInv, ClaimsApart, ClaimsFresh
<1>2. w \in wedged
  BY Numbers, Durations DEF Replace, Stalled, DurationsFit, ClaimInv, TasksShort
<1>3. /\ queue' = WithMembers({Scored(Waiting(hand[w]), Score[hand[w]])})
      /\ Forget({hand[w]})
  BY <1>1, WaitingType DEF Replace, Requeue
<1>4. QueuedIds' = QueuedIds \cup {hand[w]} /\ Leased' = Leased \ {hand[w]}
  <2>1. QueuedIds' = QueuedIds \cup {Waiting(hand[w]).id}
    BY <1>3, IdsAfterAddingOne
  <2> QED
    BY <1>1, <1>3, <2>1, WaitingType, LeasedAfterForget
<1>5. \A j \in Jobs : Single(j)'
  <2>1. Waiting(hand[w]) \in Entry /\ Requeue(Waiting(hand[w]))
    BY <1>1, WaitingType DEF Replace
  <2> QED
    BY <2>1, RequeueSingle DEF ClaimInv, ClaimsApart
<1>6. /\ hand'[w] = Nil /\ beat'[w] = 0 /\ UNCHANGED <<owes, rest, monitor>>
      /\ \A v \in Workers \ {w} : hand'[v] = hand[v] /\ beat'[v] = beat[v]
      /\ wedged' = wedged \ {w}
      /\ \A o \in Pods : \A t \in replaced'[o] : t \in replaced[o] \/ t.wedged
  <2> DEFINE given == [job |-> hand[w], wedged |-> w \in wedged]
  <2>1. given.wedged
    BY <1>2
  <2>2. replaced' = [replaced EXCEPT ![p] = @ \cup {given}]
    BY DEF Replace
  <2> HIDE DEF given
  <2>3. \A o \in Pods : \A t \in replaced'[o] : t \in replaced[o] \/ t.wedged
    BY <2>1, <2>2 DEF TimingInv, TimingTypeOK
  <2> QED
    BY <2>3 DEF Replace, TimingInv, TimingTypeOK
<1>7. \A v \in Workers \ {w} : hand[w] \notin Claim(v)
  BY <1>1 DEF ClaimInv, ClaimsApart, Claim
<1>8. /\ Claim(w)' = {}
      /\ \A v \in Workers \ {w} : Claim(v)' = Claim(v)
      /\ \A v \in Workers : Slept(v)' = Slept(v)
  BY <1>1, <1>6 DEF Claim, Slept
<1>9. ClaimsApart'
  BY <1>4, <1>5, <1>6, <1>7, <1>8 DEF ClaimInv, ClaimsApart
<1>10. \A j \in Jobs \ {hand[w]} : processing'[j] = processing[j]
  BY <1>3 DEF Forget, Drop
<1>11. ClaimsFresh'
  <2>1. ASSUME NEW v \in Workers, hand'[v] # Nil
        PROVE  hand'[v] \in Leased' /\ processing'[hand'[v]] >= LeaseTicks - Age(PodOf[v])'
    <3>1. v # w /\ hand'[v] = hand[v] /\ hand[v] # hand[w]
      BY <1>6, <1>7, <2>1 DEF Claim
    <3>2. hand[v] \in Leased /\ processing[hand[v]] >= LeaseTicks - Age(PodOf[v])
      BY <2>1, <3>1 DEF ClaimInv, ClaimsFresh
    <3> QED
      BY <1>4, <1>6, <1>10, <3>1, <3>2 DEF Age, Leased
  <2>2. ASSUME NEW v \in Workers, owes'[v] \in Leased'
        PROVE  processing'[owes'[v]] >= LeaseTicks - 2 * Gap - Slept(v)'
    <3>1. owes[v] \in Leased \ {hand[w]} /\ owes'[v] = owes[v]
      BY <1>4, <1>6, <2>2
    <3>2. processing[owes[v]] >= LeaseTicks - 2 * Gap - Slept(v)
      BY <3>1 DEF ClaimInv, ClaimsFresh
    <3> QED
      BY <1>8, <1>10, <3>1, <3>2 DEF Leased
  <2> QED
    BY <2>1, <2>2 DEF ClaimsFresh
<1>12. TasksShort'
  BY <1>6, Durations DEF ClaimInv, TasksShort
<1> QED
  BY <1>9, <1>11, <1>12 DEF ClaimInv

(* A pop leases nothing that is claimed, and what it acknowledges is       *)
(* claimed by nobody but the caller.                                       *)
LEMMA ClaimedElsewhere ==
  ASSUME TimingInv, ClaimInv, NEW w \in Workers, NEW x \in queue \cup {Nil},
         AckAndPop(Owed(w), x)
  PROVE  /\ QueuedIds' \subseteq QueuedIds
         /\ Owed(w) \cap Leased' = {}
         /\ \A v \in Workers \ {w} : \A j \in Claim(v) :
              (j \in Leased' <=> j \in Leased) /\ processing'[j] = processing[j]
<1>1. LeasedBy(x) \subseteq QueuedIds
  BY DEF LeasedBy, QueuedIds
<1>2. \A v \in Workers : Claim(v) \cap LeasedBy(x) = {}
  BY <1>1 DEF ClaimInv, ClaimsApart
<1>3. Owed(w) \subseteq Claim(w)
  BY DEF Owed, Claim
<1>4. \A v \in Workers \ {w} : Claim(v) \cap Owed(w) = {}
  BY <1>3 DEF ClaimInv, ClaimsApart
<1>5. Leased' = (Leased \ Owed(w)) \cup LeasedBy(x)
  BY LeasedAfterPop DEF TimingInv
<1>6. \A v \in Workers : Claim(v) \subseteq Jobs
  BY DEF Claim, TimingInv, TimingTypeOK
<1>7. \A j \in Jobs \ (LeasedBy(x) \cup Owed(w)) : processing'[j] = processing[j]
  BY DEF AckAndPop, Drop
<1> QED
  BY <1>2, <1>3, <1>4, <1>5, <1>6, <1>7 DEF AckAndPop, QueuedIds

(* A take that fails, in one way or the other, keeps the claims, unless it *)
(* is another failure of a thread that owes an acknowledgement.            *)
LEMMA ClaimTakeFails ==
  ASSUME DurationsFit, TimingInv, PunctualInv, ClaimInv, NEW w \in Workers,
         NEW r \in Replies, NEW x \in queue \cup {Nil}, Take(w, r, x), r # "ok",
         rest[w] = Nil \/ owes[w] = Nil
  PROVE  ClaimInv'
<1>1. /\ UNCHANGED <<hand, owes, beat, wedged, replaced, monitor>>
      /\ hand[w] = Nil /\ rest'[w] = Backoff
      /\ \A v \in Workers \ {w} : rest'[v] = rest[v]
  BY DEF Take, TimingInv, TimingTypeOK
<1>2. /\ \A v \in Workers : Claim(v)' = Claim(v) /\ (Slept(v)' = Slept(v) \/ owes[v] = Nil)
      /\ \A p \in Pods : Age(p)' = Age(p)
  BY <1>1, Durations DEF Claim, Slept, Age
<1>3. TasksShort' /\ \A v \in Workers : hand'[v] # Nil => owes'[v] = Nil /\ rest'[v] = Nil
  BY <1>1 DEF ClaimInv, ClaimsApart, TasksShort
<1>4. CASE r = "refused"
  <2>1. UNCHANGED <<queue, processing>>
    BY <1>4 DEF Take, Landed
  <2>2. Leased' = Leased /\ QueuedIds' = QueuedIds
    BY <2>1 DEF Leased, QueuedIds
  <2>3. \A j \in Jobs : Single(j)'
    BY <2>1, <2>2, SameSingle DEF ClaimInv, ClaimsApart
  <2>4. Nil \notin Leased
    BY Durations DEF Leased
  <2> QED
    BY <1>1, <1>2, <1>3, <2>1, <2>2, <2>3, <2>4, Durations DEF ClaimInv, ClaimsApart, ClaimsFresh
<1>5. CASE r = "lost"
  <2>1. AckAndPop(Owed(w), x)
    BY <1>5 DEF Take, Landed
  <2>2. \A j \in Jobs : Single(j)'
    BY <2>1, PopSingle DEF TimingInv, ClaimInv, ClaimsApart
  <2>3. ClaimsApart'
    BY <1>2, <1>3, <2>1, <2>2, ClaimedElsewhere DEF ClaimInv, ClaimsApart
  <2>4. Nil \notin Leased /\ Nil \notin Leased' /\ owes[w] \notin Leased'
    BY <2>1, ClaimedElsewhere, Durations DEF Owed, Leased
  <2>5. \A v \in Workers \ {w} :
          /\ hand[v] # Nil => hand[v] \in Claim(v)
          /\ owes[v] \in Leased' => owes[v] \in Claim(v)
    BY <2>4 DEF Claim
  <2>6. ClaimsFresh'
    <3>1. ASSUME NEW v \in Workers, hand[v] # Nil
          PROVE  hand[v] \in Leased' /\ processing'[hand[v]] >= LeaseTicks - Age(PodOf[v])
      BY <1>1, <2>1, <2>5, <3>1, ClaimedElsewhere DEF ClaimInv, ClaimsFresh
    <3>2. ASSUME NEW v \in Workers, owes[v] \in Leased'
          PROVE  processing'[owes[v]] >= LeaseTicks - 2 * Gap - Slept(v)
      BY <2>1, <2>4, <2>5, <3>2, ClaimedElsewhere DEF ClaimInv, ClaimsFresh
    <3> QED
      BY <1>1, <1>2, <2>4, <3>1, <3>2, Durations DEF ClaimsFresh
  <2> QED
    BY <1>3, <2>3, <2>6 DEF ClaimInv
<1> QED
  BY <1>4, <1>5 DEF Replies

(* One that succeeds ends the old claim, and begins a new one if it        *)
(* brings a job.                                                           *)
LEMMA ClaimTakeSucceeds ==
  ASSUME DurationsFit, TimingInv, PunctualInv, ClaimInv, NEW w \in Workers,
         NEW x \in queue \cup {Nil}, Take(w, "ok", x)
  PROVE  ClaimInv'
<1>1. /\ AckAndPop(Owed(w), x)
      /\ UNCHANGED <<beat, wedged, replaced, monitor>>
      /\ hand'[w] = IF Parsed(x) = Nil THEN Nil ELSE Parsed(x).id
      /\ owes'[w] = Nil /\ rest'[w] = Nil
      /\ \A v \in Workers \ {w} : /\ hand'[v] = hand[v] /\ owes'[v] = owes[v]
                                  /\ rest'[v] = rest[v]
  BY DEF Take, Landed, TimingInv, TimingTypeOK
<1>2. \A j \in Jobs : Single(j)'
  BY <1>1, PopSingle DEF TimingInv, ClaimInv, ClaimsApart
<1>3. \A v \in Workers \ {w} : Claim(v)' = Claim(v) /\ Slept(v)' = Slept(v)
  BY <1>1 DEF Claim, Slept
<1>4. \A p \in Pods : Age(p)' = Age(p)
  BY <1>1 DEF Age
<1>5. Nil \notin Leased /\ Nil \notin Leased'
  BY Durations DEF Leased
<1>6. ASSUME hand'[w] # Nil
      PROVE  /\ hand'[w] \in Jobs /\ hand'[w] \in QueuedIds
             /\ hand'[w] \in Leased' /\ processing'[hand'[w]] = LeaseTicks
  <2>1. x \in queue /\ hand'[w] = x.member.id /\ x.member.id \notin Unreadable
    BY <1>1, <1>6 DEF Parsed
  <2>2. x.member.id \in Jobs /\ x.member.id \in QueuedIds /\ LeasedBy(x) = {x.member.id}
    BY <2>1, Durations, QueueAssumption
    DEF QueueAssumption, TimingInv, QueueInv, QueueTypeOK, Entry, QueuedIds, LeasedBy
  <2>3. processing'[x.member.id] = LeaseTicks
    BY <1>1, <2>2 DEF AckAndPop
  <2> QED
    BY <2>1, <2>2, <2>3, Durations DEF Leased
<1>7. ClaimsApart'
  <2>1. Claim(w)' \subseteq {hand'[w]} \ {Nil}
    BY <1>1 DEF Claim
  <2>2. \A v \in Workers \ {w} : Claim(v)' \cap Claim(w)' = {}
    BY <1>3, <1>6, <2>1 DEF ClaimInv, ClaimsApart
  <2>3. Claim(w)' \cap QueuedIds' = {}
    BY <1>2, <1>6, <2>1 DEF Single
  <2>4. \A v \in Workers \ {w} : Claim(v)' \cap QueuedIds' = {}
    BY <1>1, <1>3, ClaimedElsewhere DEF ClaimInv, ClaimsApart
  <2>5. \A u, v \in Workers : u # v => Claim(u)' \cap Claim(v)' = {}
    BY <1>3, <2>2 DEF ClaimInv, ClaimsApart
  <2>6. \A v \in Workers : hand'[v] # Nil => owes'[v] = Nil /\ rest'[v] = Nil
    BY <1>1 DEF ClaimInv, ClaimsApart
  <2> QED
    BY <1>2, <2>3, <2>4, <2>5, <2>6 DEF ClaimsApart
<1>8. ASSUME NEW v \in Workers, hand'[v] # Nil
      PROVE  hand'[v] \in Leased' /\ processing'[hand'[v]] >= LeaseTicks - Age(PodOf[v])'
  <2>1. CASE v = w
    BY <1>4, <1>6, <1>8, <2>1, ClaimedRun, Durations
  <2>2. CASE v # w
    <3>1. hand'[v] = hand[v] /\ hand[v] \in Claim(v)
      BY <1>1, <1>8, <2>2 DEF Claim
    <3>2. hand[v] \in Leased' /\ processing'[hand[v]] = processing[hand[v]]
      BY <1>1, <1>8, <2>2, <3>1, ClaimedElsewhere DEF ClaimInv, ClaimsFresh
    <3> QED
      BY <1>4, <1>8, <3>1, <3>2, Numbers DEF ClaimInv, ClaimsFresh
  <2> QED
    BY <2>1, <2>2
<1>9. ASSUME NEW v \in Workers, owes'[v] \in Leased'
      PROVE  processing'[owes'[v]] >= LeaseTicks - 2 * Gap - Slept(v)'
  <2>1. v # w /\ owes'[v] = owes[v] /\ owes[v] \in Claim(v)
    BY <1>1, <1>5, <1>9 DEF Claim
  <2>2. owes[v] \in Leased /\ processing'[owes[v]] = processing[owes[v]]
    BY <1>1, <1>9, <2>1, ClaimedElsewhere
  <2> QED
    BY <1>3, <2>1, <2>2 DEF ClaimInv, ClaimsFresh
<1> QED
  BY <1>1, <1>7, <1>8, <1>9 DEF ClaimInv, ClaimsFresh, TasksShort

(* Every step keeps the claims, until something happens that excuses.      *)
LEMMA ClaimStep ==
  ASSUME DurationsFit, TimingInv, PunctualInv, ~excused => ClaimInv, [Next]_vars
  PROVE  (~excused => ClaimInv)'
<1>1. CASE excused
  <2>1. excused'
    BY <1>1 DEF Next, Submit, Take, Finish, Abandon, Wedge, FinishReplaced, Replace, Pass, Renewal,
                MissedRenewal, Crash, ReapCall, ReapFails, Second
  <2> QED
    BY <2>1
<1>2. CASE ClaimInv
  <2>1. ASSUME NEW w \in Workers, NEW r \in Replies, NEW x \in queue \cup {Nil}, Take(w, r, x)
        PROVE  (~excused => ClaimInv)'
    <3>1. CASE r = "ok" \/ rest[w] = Nil \/ owes[w] = Nil
      BY <1>2, <2>1, <3>1, ClaimTakeFails, ClaimTakeSucceeds
    <3>2. CASE ~(r = "ok" \/ rest[w] = Nil \/ owes[w] = Nil)
      BY <2>1, <3>2 DEF Take
    <3> QED
      BY <3>1, <3>2
  <2>2. ASSUME NEW p \in Pods, NEW t \in replaced[p], NEW r \in Replies, FinishReplaced(p, t, r)
        PROVE  excused'
    BY <2>2 DEF FinishReplaced
  <2>3. ASSUME NEW p \in Pods, MissedRenewal(p) PROVE (~excused => ClaimInv)'
    BY <1>2, <2>3, ClaimMissed DEF MissedRenewal
  <2>4. ASSUME UNCHANGED vars PROVE ClaimInv'
    <3>1. Leased' = Leased /\ QueuedIds' = QueuedIds /\ UNCHANGED <<queue, processing, monitor>>
      BY <2>4 DEF Leased, QueuedIds
    <3>2. \A j \in Jobs : Single(j)'
      BY <1>2, <3>1, SameSingle DEF ClaimInv, ClaimsApart
    <3> QED
      BY <1>2, <2>4, <3>1, <3>2, ClaimOthers DEF ClaimInv, ClaimsApart, ClaimsFresh, Age
  <2> QED
    BY <1>2, <2>1, <2>2, <2>3, <2>4, ClaimSubmit, ClaimTask, ClaimReplace, ClaimPass,
       ClaimCrash, ClaimReap, ClaimSecond DEF Next
<1> QED
  BY <1>1, <1>2

(* Claims imply the property. *)
LEMMA ClaimedAreKept ==
  ASSUME DurationsFit, TimingInv, PunctualInv, ~excused => ClaimInv
  PROVE  LeasesAreKept
<1> SUFFICES ASSUME ClaimInv PROVE LiveWorkersKeepTheirLeases
  BY DEF LeasesAreKept
<1>1. ASSUME NEW w \in Workers, hand[w] # Nil PROVE hand[w] \in Leased \ Lapsed
  <2>1. hand[w] \in Claim(w) \cap Leased
    BY <1>1 DEF Claim, ClaimInv, ClaimsFresh
  <2> QED
    BY <2>1, ClaimedRun, Durations DEF Lapsed
<1>2. \A v, w \in Workers : v # w /\ hand[v] # Nil => hand[v] # hand[w]
  BY DEF ClaimInv, ClaimsApart, Claim
<1> QED
  BY <1>1, <1>2 DEF LiveWorkersKeepTheirLeases, LiveJobs, LiveReplaced, ClaimInv, TasksShort

(* "A live worker never loses its lease", and nobody else runs its job: so *)
(* it is for all durations where the timeout is longer than every task and *)
(* a lease outlasts two renewals and a retried take, whatever else fails,  *)
(* until two renewals of a process, or two takes that carry the same       *)
(* acknowledgement, fail in a row, or a task returns whose thread had been *)
(* replaced.                                                               *)
THEOREM LeasesAreKeptInTime == DurationsFit => (Spec => []LeasesAreKept)
<1> SUFFICES ASSUME DurationsFit PROVE Spec => []LeasesAreKept
  OBVIOUS
<1>1. Init => (~excused => ClaimInv)
  BY ClaimInit
<1>2. TimingInv /\ PunctualInv /\ (~excused => ClaimInv) /\ [Next]_vars
        => (~excused => ClaimInv)'
  BY ClaimStep
<1>3. TimingInv /\ PunctualInv /\ (~excused => ClaimInv) => LeasesAreKept
  BY ClaimedAreKept
<1> QED
  BY <1>1, <1>2, <1>3, AlwaysPunctual, PTL DEF Spec

-----------------------------------------------------------------------------
(* Sizes of finite sets, as the counting below needs them. *)

(* A set that keeps all but one of another's elements is smaller by one at *)
(* most.                                                                   *)
LEMMA AllButOne ==
  ASSUME NEW S, NEW T, IsFiniteSet(S), IsFiniteSet(T), NEW x, S \ {x} \subseteq T
  PROVE  Cardinality(S) <= Cardinality(T) + 1
<1>1. IsFiniteSet(T \cup {x}) /\ Cardinality(T \cup {x}) <= Cardinality(T) + 1
  BY FS_AddElement, FS_CardinalityType
<1>2. S \subseteq T \cup {x}
  OBVIOUS
<1>3. Cardinality(S) <= Cardinality(T \cup {x})
  BY <1>1, <1>2, FS_Subset
<1> QED
  BY <1>1, <1>3, FS_CardinalityType

(* A function has no more values than arguments. *)
LEMMA NoMoreValues ==
  ASSUME NEW S, IsFiniteSet(S), NEW f, f = [s \in S |-> f[s]]
  PROVE  LET T == {f[s] : s \in S} IN IsFiniteSet(T) /\ Cardinality(T) <= Cardinality(S)
<1> DEFINE T == {f[s] : s \in S}
<1>1. f \in Surjection(S, T)
  BY DEF Surjection
<1> QED
  BY <1>1, FS_Surjection

(* A set covered by two others is no larger than both together. *)
LEMMA Covered ==
  ASSUME NEW S, NEW T, NEW U, IsFiniteSet(T), IsFiniteSet(U), S \subseteq T \cup U
  PROVE  IsFiniteSet(S) /\ Cardinality(S) <= Cardinality(T) + Cardinality(U)
<1>1. /\ IsFiniteSet(T \cup U)
      /\ Cardinality(T \cup U) = Cardinality(T) + Cardinality(U) - Cardinality(T \cap U)
  BY FS_Union
<1>2. IsFiniteSet(T \cap U)
  BY FS_Subset
<1>3. IsFiniteSet(S) /\ Cardinality(S) <= Cardinality(T \cup U)
  BY <1>1, FS_Subset
<1> QED
  BY <1>1, <1>2, <1>3, FS_CardinalityType

(* The parts of a set. *)
LEMMA Parts ==
  ASSUME NEW S, IsFiniteSet(S), NEW T \in SUBSET S
  PROVE  /\ IsFiniteSet(T) /\ IsFiniteSet(S \ T)
         /\ Cardinality(S) = Cardinality(T) + Cardinality(S \ T)
<1> DEFINE U == S \ T
<1>1. IsFiniteSet(T) /\ IsFiniteSet(U)
  BY FS_Subset
<1>2. Cardinality(T \cup U) = Cardinality(T) + Cardinality(U) - Cardinality(T \cap U)
  BY <1>1, FS_Union
<1>3. T \cup U = S /\ T \cap U = {}
  OBVIOUS
<1>4. Cardinality(T \cap U) = 0
  BY <1>3, FS_EmptySet
<1>5. Cardinality(T) \in Nat /\ Cardinality(U) \in Nat
  BY <1>1, FS_CardinalityType
<1>6. Cardinality(S) = Cardinality(T) + Cardinality(U) - Cardinality(T \cap U)
  BY <1>2, <1>3
<1> QED
  BY <1>1, <1>4, <1>5, <1>6

-----------------------------------------------------------------------------
(* Late acknowledgements.  Whoever has a job, or owes its acknowledgement, *)
(* claims its lease: the workers, and the threads the monitor gave up.     *)
Claimants == {w \in Workers : Claim(w) # {}}
GivenUp == {g \in Pods \X [job : Jobs, wedged : BOOLEAN] : g[2] \in replaced[g[1]]}

(* The leases that are claimed, be it by several. *)
Claimed == {j \in Leased : \/ \E w \in Workers : j \in Claim(w)
                          \/ \E g \in GivenUp : g[2].job = j}

(* A claim without a lease of its own will be counted as late when it is   *)
(* acknowledged, and is paid for already: by a lease that was taken back,  *)
(* or by an acknowledgement that was applied and will be sent again.       *)
ClaimsArePaidFor ==
  lease_ack_late_total + Cardinality(Claimants) + Cardinality(GivenUp)
    <= takenBack + unanswered + Cardinality(Claimed)

LateInv ==
  /\ \A j \in Jobs : Single(j)
  /\ \A w \in Workers : hand[w] # Nil => owes[w] = Nil
  /\ IsFiniteSet(Claimants) /\ IsFiniteSet(GivenUp)
  /\ ClaimsArePaidFor

(* What is compared here are numbers. *)
LEMMA LateNumbers ==
  ASSUME TimingInv, LateInv
  PROVE  /\ Cardinality(Claimants) \in Nat /\ Cardinality(GivenUp) \in Nat
         /\ IsFiniteSet(Claimed) /\ Cardinality(Claimed) \in Nat
         /\ lease_ack_late_total \in Nat /\ takenBack \in Nat /\ unanswered \in Nat
<1>1. Claimed \subseteq Jobs
  BY DEF Claimed, Leased
<1> QED
  BY <1>1, TimingAssumption, FS_Subset, FS_CardinalityType
  DEF TimingAssumption, LateInv, TimingInv, TimingTypeOK

(* After a step the claimed leases are countable as well. *)
LEMMA ClaimedFinite == IsFiniteSet(Claimed) /\ IsFiniteSet(Claimed')
<1>1. Claimed \subseteq Jobs /\ Claimed' \subseteq Jobs
  BY DEF Claimed, Leased
<1> QED
  BY <1>1, TimingAssumption, FS_Subset DEF TimingAssumption

(* Steps that change no claim and take no lease. *)
LEMMA LateOthers ==
  ASSUME TimingInv, LateInv, \A j \in Jobs : Single(j)',
         \A w \in Workers : Claim(w)' = Claim(w) /\ (hand'[w] # Nil => owes'[w] = Nil),
         UNCHANGED <<replaced, lease_ack_late_total, takenBack, unanswered>>,
         Leased \subseteq Leased'
  PROVE  LateInv'
<1>1. Claimants' = Claimants /\ GivenUp' = GivenUp
  BY DEF Claimants, GivenUp
<1>2. Claimed \subseteq Claimed'
  BY <1>1 DEF Claimed
<1>3. Cardinality(Claimed) <= Cardinality(Claimed') /\ Cardinality(Claimed') \in Nat
  BY <1>2, ClaimedFinite, FS_Subset, FS_CardinalityType
<1> QED
  BY <1>1, <1>3, LateNumbers DEF LateInv, ClaimsArePaidFor

(* A worker that gives up its job, and with it its claim. *)
LEMMA LateAbandon ==
  ASSUME TimingInv, LateInv, NEW w \in Workers, Abandon(w)
  PROVE  LateInv'
<1>1. /\ hand[w] # Nil /\ owes[w] = Nil /\ hand'[w] = Nil /\ owes'[w] = Nil
      /\ \A v \in Workers \ {w} : hand'[v] = hand[v] /\ owes'[v] = owes[v]
      /\ UNCHANGED <<queue, replaced, lease_ack_late_total, takenBack, unanswered>>
      /\ Leased' = Leased
  BY DEF Abandon, LateInv, TimingInv, TimingTypeOK, Leased
<1>2. w \in Claimants /\ Claimants' = Claimants \ {w} /\ GivenUp' = GivenUp
  BY <1>1 DEF Claimants, GivenUp, Claim
<1>3. Claimed \ {hand[w]} \subseteq Claimed'
  BY <1>1, <1>2 DEF Claimed, Claim
<1>4. Cardinality(Claimed) <= Cardinality(Claimed') + 1 /\ Cardinality(Claimed') \in Nat
  BY <1>3, AllButOne, ClaimedFinite, FS_CardinalityType
<1>5. IsFiniteSet(Claimants') /\ Cardinality(Claimants') = Cardinality(Claimants) - 1
  BY <1>2, FS_RemoveElement DEF LateInv
<1>6. \A j \in Jobs : Single(j)'
  BY <1>1, SameSingle DEF LateInv
<1>7. ClaimsArePaidFor'
  BY <1>1, <1>2, <1>4, <1>5, LateNumbers DEF LateInv, ClaimsArePaidFor
<1> QED
  BY <1>1, <1>2, <1>5, <1>6, <1>7 DEF LateInv

(* The last acknowledgement of a replaced thread takes a lease, or is late. *)
LEMMA LateFinishReplaced ==
  ASSUME TimingInv, LateInv, NEW p \in Pods, NEW t \in replaced[p], NEW r \in Replies,
         FinishReplaced(p, t, r)
  PROVE  LateInv'
<1>1. /\ UNCHANGED <<queue, hand, owes, takenBack, unanswered>>
      /\ Leased' = Leased \ {t.job} \/ Leased' = Leased
      /\ lease_ack_late_total' \in {lease_ack_late_total, lease_ack_late_total + 1}
      /\ t.job \in Leased => lease_ack_late_total' = lease_ack_late_total
  <2>1. CASE Landed(r)
    <3>1. Forget({t.job}) /\ UNCHANGED queue
      BY <2>1 DEF FinishReplaced, Ack
    <3> QED
      BY <3>1, LeasedAfterForget DEF FinishReplaced
  <2>2. CASE ~Landed(r)
    BY <2>2 DEF FinishReplaced, Leased
  <2> QED
    BY <2>1, <2>2
<1>2. t \in [job : Jobs, wedged : BOOLEAN]
  BY DEF TimingInv, TimingTypeOK
<1>3. <<p, t>> \in GivenUp /\ GivenUp' = GivenUp \ {<<p, t>>}
  BY <1>2 DEF FinishReplaced, GivenUp, TimingInv, TimingTypeOK
<1>4. Claimants' = Claimants /\ \A w \in Workers : Claim(w)' = Claim(w)
  BY <1>1 DEF Claimants, Claim
<1>5. Claimed \ {t.job} \subseteq Claimed'
  BY <1>1, <1>3, <1>4 DEF Claimed
<1>6. Cardinality(Claimed') \in Nat
  BY ClaimedFinite, FS_CardinalityType
<1>7. lease_ack_late_total' + Cardinality(Claimed)
        <= lease_ack_late_total + 1 + Cardinality(Claimed')
  <2>1. CASE t.job \in Leased
    BY <1>1, <1>5, <1>6, <2>1, AllButOne, ClaimedFinite, LateNumbers
  <2>2. CASE t.job \notin Leased
    <3>1. Claimed \subseteq Claimed'
      BY <1>5, <2>2 DEF Claimed
    <3> QED
      BY <1>1, <1>6, <2>2, <3>1, ClaimedFinite, FS_Subset, LateNumbers
  <2> QED
    BY <2>1, <2>2
<1>8. IsFiniteSet(GivenUp') /\ Cardinality(GivenUp') = Cardinality(GivenUp) - 1
  BY <1>3, FS_RemoveElement DEF LateInv
<1>9. \A j \in Jobs : Single(j)'
  BY <1>1 DEF Single, QueuedIds, LateInv
<1>10. lease_ack_late_total' \in Nat
  BY <1>1, LateNumbers
<1>11. ClaimsArePaidFor'
  BY <1>1, <1>4, <1>6, <1>7, <1>8, <1>10, LateNumbers DEF LateInv, ClaimsArePaidFor
<1> QED
  BY <1>1, <1>4, <1>8, <1>9, <1>11 DEF LateInv

(* A replaced worker hands its claim to the thread that was given up; if   *)
(* it had a lease, that lease was taken back.                              *)
LEMMA LateReplace ==
  ASSUME TimingInv, PunctualInv, LateInv, NEW p \in Pods, NEW w \in Workers, Replace(p, w)
  PROVE  LateInv'
<1> DEFINE given == [job |-> hand[w], wedged |-> w \in wedged]
<1>1. hand[w] \in Jobs /\ hand[w] # Nil /\ owes[w] = Nil
  BY ReplaceTiming, Durations DEF PunctualInv, LateInv
<1>2. Requeue(Waiting(hand[w])) /\ Waiting(hand[w]) \in Entry /\ Waiting(hand[w]).id = hand[w]
  BY <1>1, WaitingType DEF Replace
<1>3. \A j \in Jobs : Single(j)'
  BY <1>2, RequeueSingle DEF LateInv
<1>4. Leased' = Leased \ {hand[w]}
  <2>1. CASE hand[w] \in Leased
    BY <1>2, <2>1, LeasedAfterForget DEF Requeue
  <2>2. CASE hand[w] \notin Leased
    BY <1>2, <2>2 DEF Requeue, Leased
  <2> QED
    BY <2>1, <2>2
<1>5. /\ hand'[w] = Nil /\ \A v \in Workers \ {w} : hand'[v] = hand[v]
      /\ UNCHANGED <<owes, lease_ack_late_total, unanswered>>
      /\ takenBack' = IF hand[w] \in Leased THEN takenBack + 1 ELSE takenBack
  BY DEF Replace, TimingInv, TimingTypeOK
<1>6. GivenUp' = GivenUp \cup {<<p, given>>}
  <2>1. given \in [job : Jobs, wedged : BOOLEAN]
    BY <1>1
  <2>2. replaced' = [replaced EXCEPT ![p] = @ \cup {given}]
    BY DEF Replace
  <2> HIDE DEF given
  <2> QED
    BY <2>1, <2>2 DEF GivenUp, TimingInv, TimingTypeOK
<1>7. w \in Claimants /\ Claimants' = Claimants \ {w}
  BY <1>1, <1>5 DEF Claimants, Claim
<1>8. /\ IsFiniteSet(Claimants') /\ Cardinality(Claimants') = Cardinality(Claimants) - 1
      /\ IsFiniteSet(GivenUp') /\ Cardinality(GivenUp') <= Cardinality(GivenUp) + 1
      /\ Cardinality(GivenUp') \in Nat
  <2> DEFINE g == <<p, given>>
  <2>1. /\ IsFiniteSet(GivenUp \cup {g})
        /\ Cardinality(GivenUp \cup {g}) = IF g \in GivenUp THEN Cardinality(GivenUp)
                                          ELSE Cardinality(GivenUp) + 1
    BY FS_AddElement DEF LateInv
  <2>2. GivenUp' = GivenUp \cup {g}
    BY <1>6
  <2>3. IsFiniteSet(Claimants \ {w}) /\ Cardinality(Claimants \ {w}) = Cardinality(Claimants) - 1
    BY <1>7, FS_RemoveElement DEF LateInv
  <2> HIDE DEF g
  <2> QED
    BY <1>7, <2>1, <2>2, <2>3, LateNumbers
<1>9. Claimed \ {hand[w]} \subseteq Claimed'
  <2>1. \A v \in Workers : Claim(v) \ {hand[w]} \subseteq Claim(v)'
    BY <1>1, <1>5 DEF Claim
  <2>2. GivenUp \subseteq GivenUp'
    BY <1>6
  <2> QED
    BY <1>4, <2>1, <2>2 DEF Claimed
<1>10. Cardinality(Claimed') \in Nat
  BY ClaimedFinite, FS_CardinalityType
<1>11. takenBack + Cardinality(Claimed) <= takenBack' + Cardinality(Claimed')
  <2>1. CASE hand[w] \in Leased
    BY <1>5, <1>9, <1>10, <2>1, AllButOne, ClaimedFinite, LateNumbers
  <2>2. CASE hand[w] \notin Leased
    <3>1. Claimed \subseteq Claimed'
      BY <1>9, <2>2 DEF Claimed
    <3> QED
      BY <1>5, <1>10, <2>2, <3>1, ClaimedFinite, FS_Subset, LateNumbers
  <2> QED
    BY <2>1, <2>2
<1>12. takenBack' \in Nat
  BY <1>5, LateNumbers
<1>13. ClaimsArePaidFor'
  BY <1>5, <1>8, <1>10, <1>11, <1>12, LateNumbers DEF LateInv, ClaimsArePaidFor
<1>14. \A v \in Workers : hand'[v] # Nil => owes'[v] = Nil
  BY <1>5 DEF LateInv
<1> QED
  BY <1>3, <1>8, <1>13, <1>14 DEF LateInv

(* A take that fails: either nothing has happened, or the acknowledgement  *)
(* was applied and is still owed.                                          *)
LEMMA LateTakeFails ==
  ASSUME TimingInv, LateInv, NEW w \in Workers, NEW r \in Replies,
         NEW x \in queue \cup {Nil}, Take(w, r, x), r # "ok"
  PROVE  LateInv'
<1>1. /\ UNCHANGED <<hand, owes, replaced, takenBack, lease_ack_late_total>>
      /\ unanswered' = IF r = "lost" /\ Owed(w) # {} THEN unanswered + 1 ELSE unanswered
  BY DEF Take, CountAck, LateInv, TimingInv, TimingTypeOK
<1>2. \A v \in Workers : Claim(v)' = Claim(v) /\ (hand'[v] # Nil => owes'[v] = Nil)
  BY <1>1 DEF Claim, LateInv
<1>3. CASE UNCHANGED queueVars /\ UNCHANGED unanswered
  <2>1. Leased' = Leased /\ UNCHANGED queue
    BY <1>3 DEF Leased
  <2>2. \A j \in Jobs : Single(j)'
    BY <2>1, SameSingle DEF LateInv
  <2> QED
    BY <1>1, <1>2, <1>3, <2>1, <2>2, LateOthers
<1>4. CASE AckAndPop(Owed(w), x) /\ r = "lost"
  <2>1. \A j \in Jobs : Single(j)'
    BY <1>4, PopSingle DEF TimingInv, LateInv
  <2>2. Leased \ Owed(w) \subseteq Leased'
    BY <1>4, LeasedAfterPop DEF TimingInv
  <2>3. CASE Owed(w) = {}
    BY <1>1, <1>2, <2>1, <2>2, <2>3, LateOthers
  <2>4. CASE Owed(w) # {}
    <3>1. Claimants' = Claimants /\ GivenUp' = GivenUp
      BY <1>1, <1>2 DEF Claimants, GivenUp
    <3>2. Claimed \ {owes[w]} \subseteq Claimed'
      BY <1>2, <2>2, <3>1 DEF Claimed, Owed
    <3>3. Cardinality(Claimed) <= Cardinality(Claimed') + 1 /\ Cardinality(Claimed') \in Nat
      BY <3>2, AllButOne, ClaimedFinite, FS_CardinalityType
    <3>4. unanswered' = unanswered + 1
      BY <1>1, <1>4, <2>4
    <3> QED
      BY <1>1, <1>2, <2>1, <3>1, <3>3, <3>4, LateNumbers DEF LateInv, ClaimsArePaidFor
  <2> QED
    BY <2>3, <2>4
<1> QED
  BY <1>1, <1>3, <1>4 DEF Take, Landed, Replies

(* One that is answered settles the claim that was owed, with its lease or *)
(* as a late one, and claims the lease of the job it brings.               *)
LEMMA LateTakeSucceeds ==
  ASSUME TimingInv, LateInv, NEW w \in Workers, NEW x \in queue \cup {Nil}, Take(w, "ok", x)
  PROVE  LateInv'
<1> DEFINE others == Claimants \ {w}
           kept == Claimed \ Owed(w)
<1>1. /\ AckAndPop(Owed(w), x)
      /\ hand[w] = Nil
      /\ hand'[w] = IF Parsed(x) = Nil THEN Nil ELSE Parsed(x).id
      /\ owes'[w] = Nil
      /\ \A v \in Workers \ {w} : hand'[v] = hand[v] /\ owes'[v] = owes[v]
      /\ UNCHANGED <<replaced, takenBack, unanswered>>
      /\ lease_ack_late_total' = IF Owed(w) \ Leased # {} THEN lease_ack_late_total + 1
                                 ELSE lease_ack_late_total
  BY DEF Take, Landed, CountAck, TimingInv, TimingTypeOK
<1>2. \A j \in Jobs : Single(j)'
  BY <1>1, PopSingle DEF TimingInv, LateInv
<1>3. Leased' = (Leased \ Owed(w)) \cup LeasedBy(x)
  BY <1>1, LeasedAfterPop DEF TimingInv
<1>4. \A v \in Workers \ {w} : Claim(v)' = Claim(v)
  BY <1>1 DEF Claim
<1>5. GivenUp' = GivenUp
  BY <1>1 DEF GivenUp
<1>6. Claim(w) = Owed(w) /\ Claim(w)' = {hand'[w]} \ {Nil}
  BY <1>1 DEF Claim, Owed
<1>7. kept \subseteq Claimed'
  BY <1>3, <1>4, <1>5, <1>6 DEF Claimed
<1>8. IsFiniteSet(kept) /\ Cardinality(kept) \in Nat
  BY ClaimedFinite, FS_Subset, FS_CardinalityType
<1>9. IsFiniteSet(others) /\ Cardinality(others) \in Nat
  BY FS_Subset, FS_CardinalityType DEF LateInv
<1>10. lease_ack_late_total' + Cardinality(others) + Cardinality(Claimed)
         <= lease_ack_late_total + Cardinality(Claimants) + Cardinality(kept)
  <2>1. CASE owes[w] = Nil
    <3>1. Owed(w) = {} /\ others = Claimants /\ kept = Claimed
      BY <1>6, <2>1 DEF Owed, Claimants
    <3>2. lease_ack_late_total' = lease_ack_late_total
      BY <1>1, <3>1
    <3> HIDE DEF others, kept
    <3> QED
      BY <3>1, <3>2, LateNumbers
  <2>2. CASE owes[w] # Nil
    <3>1. Owed(w) = {owes[w]} /\ w \in Claimants
      BY <1>6, <2>2 DEF Owed, Claimants
    <3>2. Cardinality(others) = Cardinality(Claimants) - 1
      BY <3>1, FS_RemoveElement DEF LateInv
    <3>3. CASE owes[w] \in Leased
      <4>1. owes[w] \in Claimed /\ kept = Claimed \ {owes[w]}
        BY <1>6, <3>1, <3>3 DEF Claimed
      <4>2. Cardinality(kept) = Cardinality(Claimed) - 1
        BY <4>1, ClaimedFinite, FS_RemoveElement
      <4>3. lease_ack_late_total' = lease_ack_late_total
        BY <1>1, <3>1, <3>3
      <4> HIDE DEF others, kept
      <4> QED
        BY <3>2, <4>2, <4>3, LateNumbers
    <3>4. CASE owes[w] \notin Leased
      <4>1. kept = Claimed
        BY <3>1, <3>4 DEF Claimed
      <4>2. lease_ack_late_total' = lease_ack_late_total + 1
        BY <1>1, <3>1, <3>4
      <4> HIDE DEF others, kept
      <4> QED
        BY <3>2, <4>1, <4>2, LateNumbers
    <3> QED
      BY <3>3, <3>4
  <2> QED
    BY <2>1, <2>2
<1>11. /\ IsFiniteSet(Claimants')
       /\ Cardinality(Claimants') + Cardinality(kept) <= Cardinality(others) + Cardinality(Claimed')
  <2>1. CASE hand'[w] = Nil
    <3>1. Claimants' = others
      BY <1>4, <1>6, <2>1 DEF Claimants
    <3>2. Cardinality(kept) <= Cardinality(Claimed') /\ Cardinality(Claimed') \in Nat
      BY <1>7, ClaimedFinite, FS_Subset, FS_CardinalityType
    <3> HIDE DEF others, kept
    <3> QED
      BY <1>8, <1>9, <3>1, <3>2
  <2>2. CASE hand'[w] # Nil
    <3>1. x \in queue /\ hand'[w] = x.member.id /\ x.member.id \notin Unreadable
      BY <1>1, <2>2 DEF Parsed
    <3>2. hand'[w] \in Jobs /\ hand'[w] \in QueuedIds /\ hand'[w] \in LeasedBy(x)
      BY <3>1, Durations, QueueAssumption
      DEF QueueAssumption, TimingInv, QueueInv, QueueTypeOK, Entry, QueuedIds, LeasedBy
    <3>3. hand'[w] \notin Claimed /\ hand'[w] \in Claimed'
      BY <1>3, <1>6, <2>2, <3>2 DEF LateInv, Single, Claimed
    <3>4. Claimants' = others \cup {w}
      BY <1>4, <1>6, <2>2 DEF Claimants
    <3>5. IsFiniteSet(Claimants') /\ Cardinality(Claimants') = Cardinality(others) + 1
      BY <1>9, <3>4, FS_AddElement
    <3>6. kept \cup {hand'[w]} \subseteq Claimed' /\ hand'[w] \notin kept
      BY <1>7, <3>3
    <3>7. Cardinality(kept \cup {hand'[w]}) = Cardinality(kept) + 1
      BY <1>8, <3>6, FS_AddElement
    <3>8. Cardinality(kept) + 1 <= Cardinality(Claimed') /\ Cardinality(Claimed') \in Nat
      BY <3>6, <3>7, ClaimedFinite, FS_Subset, FS_CardinalityType
    <3> HIDE DEF others, kept
    <3> QED
      BY <1>8, <1>9, <3>5, <3>8
  <2> QED
    BY <2>1, <2>2
<1>12. /\ Cardinality(Claimants') \in Nat /\ Cardinality(Claimed') \in Nat
       /\ lease_ack_late_total' \in Nat
  BY <1>1, <1>11, ClaimedFinite, FS_CardinalityType, LateNumbers
<1>13. ClaimsArePaidFor'
  <2> HIDE DEF others, kept
  <2> QED
    BY <1>1, <1>5, <1>8, <1>9, <1>10, <1>11, <1>12, LateNumbers DEF LateInv, ClaimsArePaidFor
<1> QED
  BY <1>1, <1>2, <1>5, <1>11, <1>13 DEF LateInv

(* The leases that some of the claims name: each names one at most. *)
NamedBy(A, B) == {j \in Leased : \/ \E w \in A : j \in Claim(w)
                                \/ \E g \in B : g[2].job = j}

LEMMA EveryClaimNamesOne ==
  ASSUME TimingInv, LateInv, NEW A \in SUBSET Claimants, NEW B \in SUBSET GivenUp
  PROVE  /\ IsFiniteSet(A) /\ IsFiniteSet(B) /\ IsFiniteSet(NamedBy(A, B))
         /\ Cardinality(NamedBy(A, B)) <= Cardinality(A) + Cardinality(B)
<1> DEFINE jobOf == [w \in A |-> IF hand[w] # Nil THEN hand[w] ELSE owes[w]]
           jobAt == [g \in B |-> g[2].job]
           theirs == {jobOf[w] : w \in A}
           whose == {jobAt[g] : g \in B}
<1>1. IsFiniteSet(A) /\ IsFiniteSet(B)
  BY FS_Subset DEF LateInv
<1>2. \A w \in A : Claim(w) = {jobOf[w]}
  BY DEF Claimants, Claim, LateInv
<1>3. NamedBy(A, B) \subseteq theirs \cup whose
  <2> SUFFICES ASSUME NEW j \in NamedBy(A, B) PROVE j \in theirs \cup whose
    OBVIOUS
  <2>1. CASE \E w \in A : j \in Claim(w)
    BY <1>2, <2>1
  <2>2. CASE \E g \in B : g[2].job = j
    BY <2>2
  <2> QED
    BY <2>1, <2>2 DEF NamedBy
<1>4. IsFiniteSet(theirs) /\ Cardinality(theirs) <= Cardinality(A)
  <2>1. jobOf = [w \in A |-> jobOf[w]]
    OBVIOUS
  <2> HIDE DEF jobOf
  <2> QED
    BY <1>1, <2>1, NoMoreValues
<1>5. IsFiniteSet(whose) /\ Cardinality(whose) <= Cardinality(B)
  <2>1. jobAt = [g \in B |-> jobAt[g]]
    OBVIOUS
  <2> HIDE DEF jobAt
  <2> QED
    BY <1>1, <2>1, NoMoreValues
<1> HIDE DEF theirs, whose
<1>6. /\ IsFiniteSet(NamedBy(A, B))
      /\ Cardinality(NamedBy(A, B)) <= Cardinality(theirs) + Cardinality(whose)
  BY <1>3, <1>4, <1>5, Covered
<1> QED
  BY <1>1, <1>4, <1>5, <1>6, FS_CardinalityType

(* A process that dies gives up all its claims; no more leases than that   *)
(* are claimed by nobody then.                                             *)
LEMMA LateCrash ==
  ASSUME TimingInv, LateInv, NEW p \in Pods, Crash(p)
  PROVE  LateInv'
<1> DEFINE idle == Claimants \ Claimants'
           gone == GivenUp \ GivenUp'
           lost == NamedBy(idle, gone)
<1>1. /\ \A w \in Workers : IF PodOf[w] = p THEN hand'[w] = Nil /\ owes'[w] = Nil
                            ELSE hand'[w] = hand[w] /\ owes'[w] = owes[w]
      /\ UNCHANGED <<queue, lease_ack_late_total, takenBack, unanswered>>
      /\ Leased' = Leased
  BY DEF Crash, Leased
<1>2. \A o \in Pods : replaced'[o] \subseteq replaced[o]
  BY DEF Crash, TimingInv, TimingTypeOK
<1>3. Claimants' \subseteq Claimants /\ GivenUp' \subseteq GivenUp
  BY <1>1, <1>2 DEF Claimants, GivenUp, Claim
<1>4. Claimed \subseteq Claimed' \cup lost
  <2> SUFFICES ASSUME NEW j \in Claimed, j \notin Claimed' PROVE j \in lost
    OBVIOUS
  <2>1. ASSUME NEW w \in Workers, j \in Claim(w) PROVE w \in idle
    BY <1>1, <2>1 DEF Claimants, Claim, Claimed
  <2>2. ASSUME NEW g \in GivenUp, g[2].job = j PROVE g \in gone
    BY <1>1, <2>2 DEF Claimed
  <2> QED
    BY <2>1, <2>2 DEF Claimed, NamedBy
<1>5. /\ IsFiniteSet(Claimants') /\ IsFiniteSet(GivenUp')
      /\ IsFiniteSet(idle) /\ IsFiniteSet(gone)
  BY <1>3, FS_Subset DEF LateInv
<1>6. /\ Cardinality(Claimants) = Cardinality(Claimants') + Cardinality(idle)
      /\ Cardinality(GivenUp) = Cardinality(GivenUp') + Cardinality(gone)
  BY <1>3, Parts DEF LateInv
<1>7. /\ IsFiniteSet(lost)
      /\ Cardinality(lost) <= Cardinality(idle) + Cardinality(gone)
  BY EveryClaimNamesOne
<1> HIDE DEF idle, gone, lost
<1>8. Cardinality(Claimed) <= Cardinality(Claimed') + Cardinality(lost)
  BY <1>4, <1>7, ClaimedFinite, Covered
<1>9. /\ Cardinality(Claimants') \in Nat /\ Cardinality(GivenUp') \in Nat
      /\ Cardinality(idle) \in Nat /\ Cardinality(gone) \in Nat
      /\ Cardinality(lost) \in Nat /\ Cardinality(Claimed') \in Nat
  BY <1>5, <1>7, ClaimedFinite, FS_CardinalityType
<1>10. ClaimsArePaidFor'
  BY <1>1, <1>6, <1>7, <1>8, <1>9, LateNumbers DEF LateInv, ClaimsArePaidFor
<1>11. \A j \in Jobs : Single(j)'
  BY <1>1, SameSingle DEF LateInv
<1>12. \A w \in Workers : hand'[w] # Nil => owes'[w] = Nil
  BY <1>1 DEF LateInv
<1> QED
  BY <1>5, <1>10, <1>11, <1>12 DEF LateInv

(* A reaper counts every lease it takes back. *)
LEMMA LateReap ==
  ASSUME TimingInv, LateInv, NEW q \in Reapers, NEW S \in Batches,
         ReapCall(q, S) \/ ReapFails(q, S)
  PROVE  LateInv'
<1>1. /\ UNCHANGED <<hand, owes, replaced, lease_ack_late_total, unanswered>>
      /\ \A w \in Workers : Claim(w)' = Claim(w) /\ (hand'[w] # Nil => owes'[w] = Nil)
  BY DEF ReapCall, ReapFails, Claim, LateInv
<1>2. CASE UNCHANGED <<queueVars, takenBack>>
  <2>1. Leased' = Leased /\ UNCHANGED queue
    BY <1>2 DEF Leased
  <2>2. \A j \in Jobs : Single(j)'
    BY <2>1, SameSingle DEF LateInv
  <2> QED
    BY <1>1, <1>2, <2>1, <2>2, LateOthers
<1>3. CASE Reap(S) /\ takenBack' = takenBack + Cardinality(S)
  <2>1. Leased' = Leased \ S
    BY <1>3, IdsAfterReap DEF TimingInv
  <2>2. \A j \in Jobs : Single(j)'
    BY <1>3, ReapSingle DEF TimingInv, LateInv
  <2>3. Claimants' = Claimants /\ GivenUp' = GivenUp
    BY <1>1 DEF Claimants, GivenUp
  <2>4. Claimed \subseteq Claimed' \cup S
    BY <1>1, <2>1, <2>3 DEF Claimed
  <2>5. IsFiniteSet(S) /\ Cardinality(S) \in Nat
    <3>1. S \subseteq Jobs
      BY DEF Batches, Lapsed
    <3> QED
      BY <3>1, TimingAssumption, FS_Subset, FS_CardinalityType DEF TimingAssumption
  <2>6. Cardinality(Claimed) <= Cardinality(Claimed') + Cardinality(S)
    BY <2>4, <2>5, ClaimedFinite, Covered
  <2>7. Cardinality(Claimed') \in Nat
    BY ClaimedFinite, FS_CardinalityType
  <2>8. ClaimsArePaidFor'
    BY <1>1, <1>3, <2>3, <2>5, <2>6, <2>7, LateNumbers DEF LateInv, ClaimsArePaidFor
  <2> QED
    BY <1>1, <2>2, <2>3, <2>8 DEF LateInv
<1> QED
  BY <1>2, <1>3 DEF ReapCall, ReapFails

(* Every step keeps every claim paid for. *)
LEMMA LateStep ==
  ASSUME TimingInv, PunctualInv, LateInv, [Next]_vars
  PROVE  LateInv'
<1>1. ASSUME NEW j \in Jobs, Submit(j) PROVE LateInv'
  <2>1. /\ Push(Waiting(j)) /\ Waiting(j).id = j /\ j \notin QueuedIds \cup Leased
        /\ UNCHANGED <<hand, owes, replaced, lease_ack_late_total, takenBack, unanswered>>
    BY <1>1, WaitingType DEF Submit
  <2>2. \A i \in Jobs : Single(i)'
    BY <2>1, PushSingle DEF LateInv
  <2> QED
    BY <2>1, <2>2, LateOthers DEF Push, Leased, Claim, LateInv
<1>2. ASSUME NEW w \in Workers, NEW r \in Replies, NEW x \in queue \cup {Nil}, Take(w, r, x)
      PROVE  LateInv'
  BY <1>2, LateTakeFails, LateTakeSucceeds
<1>3. ASSUME NEW w \in Workers, Finish(w) PROVE LateInv'
  <2>1. \A v \in Workers : Claim(v)' = Claim(v) /\ (hand'[v] # Nil => owes'[v] = Nil)
    BY <1>3 DEF Finish, Claim, LateInv, TimingInv, TimingTypeOK
  <2>2. Leased' = Leased /\ UNCHANGED queue
    BY <1>3 DEF Finish, Leased
  <2>3. \A j \in Jobs : Single(j)'
    BY <2>2, SameSingle DEF LateInv
  <2> QED
    BY <1>3, <2>1, <2>2, <2>3, LateOthers DEF Finish
<1>4. ASSUME UNCHANGED <<hand, owes, replaced, counters, queue>>, Leased' = Leased PROVE LateInv'
  <2>1. \A j \in Jobs : Single(j)'
    BY <1>4, SameSingle DEF LateInv
  <2> QED
    BY <1>4, <2>1, LateOthers DEF Claim, LateInv
<1>5. ASSUME NEW w \in Workers, Wedge(w) PROVE LateInv'
  BY <1>4, <1>5 DEF Wedge, Leased
<1>6. ASSUME NEW p \in Pods, Pass(p) \/ Renewal(p) \/ MissedRenewal(p) PROVE LateInv'
  <2>1. Leased' = Leased /\ UNCHANGED queue
    BY <1>6, LeasedAfterRenew DEF Pass, Renewal, MissedRenewal, Renew, Leased
  <2> QED
    BY <1>4, <1>6, <2>1 DEF Pass, Renewal, MissedRenewal
<1>7. CASE Second
  <2>1. Leased' = Leased
    BY <1>7, LeasedAfterTick DEF Second, TimingInv
  <2> QED
    BY <1>4, <1>7, <2>1 DEF Second, Tick
<1>8. CASE UNCHANGED vars
  BY <1>4, <1>8 DEF Leased
<1> QED
  BY <1>1, <1>2, <1>3, <1>5, <1>6, <1>7, <1>8, LateAbandon, LateFinishReplaced, LateReplace,
     LateCrash, LateReap DEF Next

(* "Each is a duplicate execution": for any number of processes, workers,  *)
(* jobs and reapers, whatever fails, every acknowledgement that finds no   *)
(* lease is explained by one that was taken back, or by an acknowledgement *)
(* that was applied before and not answered.                               *)
THEOREM LateAcksAlwaysExplained == Spec => []LateAcksAreExplained
<1>1. Init => LateInv
  <2> SUFFICES ASSUME Init PROVE LateInv
    OBVIOUS
  <2>1. Claimants = {} /\ GivenUp = {} /\ Claimed = {}
    BY DEF Init, QueueInit, Claimants, GivenUp, Claimed, Claim, Leased
  <2>2. \A j \in Jobs : Single(j)
    BY DEF Init, QueueInit, Single, QueuedIds
  <2>3. ClaimsArePaidFor
    BY <2>1, FS_EmptySet DEF Init, ClaimsArePaidFor
  <2> QED
    BY <2>1, <2>2, <2>3, FS_EmptySet DEF Init, LateInv
<1>2. TimingInv /\ PunctualInv /\ LateInv /\ [Next]_vars => LateInv'
  BY LateStep
<1>3. TimingInv /\ LateInv => LateAcksAreExplained
  <2> SUFFICES ASSUME TimingInv, LateInv PROVE LateAcksAreExplained
    OBVIOUS
  <2>1. Claimed = NamedBy(Claimants, GivenUp)
    BY DEF Claimed, NamedBy, Claimants
  <2>2. Cardinality(Claimed) <= Cardinality(Claimants) + Cardinality(GivenUp)
    BY <2>1, EveryClaimNamesOne
  <2> QED
    BY <2>2, LateNumbers DEF LateInv, ClaimsArePaidFor, LateAcksAreExplained
<1> QED
  BY <1>1, <1>2, <1>3, AlwaysPunctual, PTL DEF Spec

-----------------------------------------------------------------------------
(* Expiries.  What the reapers have taken back in the passes under way and *)
(* have not yet counted, one element for each lease: total is a number per *)
(* reaper, and there are as many reapers as there are schedulers.          *)
Uncounted == {u \in Reapers \X Nat : 1 <= u[2] /\ u[2] <= reaper[u[1]].total}

(* Each expiry is counted, or will be when the pass ends, or was forgotten *)
(* by a pass that failed.                                                  *)
CountInv ==
  /\ IsFiniteSet(Uncounted)
  /\ leases_expired_total + Cardinality(Uncounted) <= expiries
  /\ setback["reaper"] = 0 => leases_expired_total + Cardinality(Uncounted) = expiries

(* The share of one reaper is as large as its total. *)
LEMMA ShareSize ==
  ASSUME NEW q, NEW n \in Nat
  PROVE  IsFiniteSet({q} \X (1..n)) /\ Cardinality({q} \X (1..n)) = n
<1>1. IsFiniteSet(1..n) /\ Cardinality(1..n) = n
  BY FS_Interval
<1>2. IsFiniteSet({q}) /\ Cardinality({q}) = 1
  BY FS_Singleton
<1>3. /\ IsFiniteSet({q} \X (1..n))
      /\ Cardinality({q} \X (1..n)) = Cardinality({q}) * Cardinality(1..n)
  BY <1>1, <1>2, FS_Product
<1> QED
  BY <1>1, <1>2, <1>3

(* When one reaper alone is at work, what is uncounted grows and shrinks   *)
(* with its total.                                                         *)
LEMMA UncountedMoves ==
  ASSUME TimingInv, CountInv, NEW q \in Reapers,
         reaper'[q].total \in Nat, \A o \in Reapers \ {q} : reaper'[o] = reaper[o]
  PROVE  /\ IsFiniteSet(Uncounted')
         /\ Cardinality(Uncounted') \in Nat /\ Cardinality(Uncounted) \in Nat
         /\ Cardinality(Uncounted') + reaper[q].total = Cardinality(Uncounted) + reaper'[q].total
<1> DEFINE before == {q} \X (1..reaper[q].total)
           after == {q} \X (1..reaper'[q].total)
           others == Uncounted \ before
<1>1. reaper[q].total \in Nat
  BY DEF TimingInv, TimingTypeOK, ReaperState
<1>2. before \subseteq Uncounted /\ after \subseteq Uncounted'
  BY <1>1 DEF Uncounted
<1>3. Uncounted' \ after = others
  BY <1>1 DEF Uncounted
<1>4. /\ IsFiniteSet(before) /\ Cardinality(before) = reaper[q].total
      /\ IsFiniteSet(after) /\ Cardinality(after) = reaper'[q].total
  BY <1>1, ShareSize
<1>5. IsFiniteSet(others) /\ Cardinality(Uncounted) = Cardinality(before) + Cardinality(others)
  <2> HIDE DEF before
  <2> QED
    BY <1>2, Parts DEF CountInv
<1>6. IsFiniteSet(Uncounted')
  <2>1. Uncounted' \subseteq others \cup after
    BY <1>3
  <2> QED
    BY <1>4, <1>5, <2>1, Covered
<1>7. Cardinality(Uncounted') = Cardinality(after) + Cardinality(Uncounted' \ after)
  <2> HIDE DEF after
  <2> QED
    BY <1>2, <1>6, Parts
<1>8. Cardinality(others) \in Nat
  BY <1>5, FS_CardinalityType
<1> HIDE DEF before, after, others
<1>9. Cardinality(Uncounted') = Cardinality(after) + Cardinality(others)
  BY <1>3, <1>7
<1>10. Cardinality(Uncounted') \in Nat /\ Cardinality(Uncounted) \in Nat
  BY <1>6, FS_CardinalityType DEF CountInv
<1> QED
  BY <1>1, <1>4, <1>5, <1>6, <1>8, <1>9, <1>10

(* Every step keeps the count. *)
LEMMA CountStep == ASSUME TimingInv, CountInv, [Next]_vars PROVE CountInv'
<1>1. /\ leases_expired_total \in Nat /\ expiries \in Nat /\ setback["reaper"] \in Nat
      /\ \A q \in Reapers : reaper[q].total \in Nat
  BY DEF TimingInv, TimingTypeOK, ReaperState
<1>2. ASSUME NEW q \in Reapers, NEW S \in Batches, ReapCall(q, S) PROVE CountInv'
  <2>1. Cardinality(S) \in Nat
    BY BatchSize
  <2>2. \A o \in Reapers \ {q} : reaper'[o] = reaper[o]
    BY <1>2 DEF ReapCall, TimingInv, TimingTypeOK
  <2>3. /\ expiries' = expiries + Cardinality(S) /\ setback'["reaper"] = setback["reaper"]
        /\ reaper'[q].total \in Nat
        /\ leases_expired_total' + reaper'[q].total
             = leases_expired_total + reaper[q].total + Cardinality(S)
        /\ leases_expired_total' \in Nat
    <3>1. reaper \in [Reapers -> ReaperState]
      BY DEF TimingInv, TimingTypeOK
    <3>2. CASE Cardinality(S) < ReapLimit
      BY <1>1, <1>2, <2>1, <3>1, <3>2 DEF ReapCall, ReaperState
    <3>3. CASE ~(Cardinality(S) < ReapLimit)
      <4>1. reaper'[q].total = reaper[q].total + Cardinality(S)
        BY <1>2, <3>1, <3>3 DEF ReapCall, ReaperState
      <4> QED
        BY <1>1, <1>2, <2>1, <3>3, <4>1 DEF ReapCall
    <3> QED
      BY <3>2, <3>3
  <2>4. /\ IsFiniteSet(Uncounted')
        /\ Cardinality(Uncounted') \in Nat /\ Cardinality(Uncounted) \in Nat
        /\ Cardinality(Uncounted') + reaper[q].total = Cardinality(Uncounted) + reaper'[q].total
    BY <2>2, <2>3, UncountedMoves
  <2> QED
    BY <1>1, <2>1, <2>3, <2>4 DEF CountInv
<1>3. ASSUME NEW q \in Reapers, NEW S \in Batches, ReapFails(q, S) PROVE CountInv'
  <2>1. \A o \in Reapers \ {q} : reaper'[o] = reaper[o]
    BY <1>3 DEF ReapFails, TimingInv, TimingTypeOK
  <2>2. /\ reaper'[q].total = 0 /\ UNCHANGED leases_expired_total
        /\ setback'["reaper"] = setback["reaper"] + ReapInterval
        /\ expiries' = expiries \/ expiries' = expiries + Cardinality(S)
    BY <1>3 DEF ReapFails, TimingInv, TimingTypeOK
  <2>3. /\ IsFiniteSet(Uncounted')
        /\ Cardinality(Uncounted') \in Nat /\ Cardinality(Uncounted) \in Nat
        /\ Cardinality(Uncounted') + reaper[q].total = Cardinality(Uncounted) + reaper'[q].total
    BY <2>1, <2>2, UncountedMoves
  <2> QED
    BY <1>1, <2>2, <2>3, BatchSize, Durations DEF CountInv
<1>4. ASSUME UNCHANGED <<leases_expired_total, expiries>>, setback'["reaper"] = setback["reaper"],
             \A q \in Reapers : reaper'[q].total = reaper[q].total
      PROVE  CountInv'
  <2>1. Uncounted' = Uncounted
    BY <1>4 DEF Uncounted
  <2> QED
    BY <1>4, <2>1 DEF CountInv
<1>5. ASSUME NEW p \in Pods, Pass(p) \/ Renewal(p) \/ MissedRenewal(p) PROVE CountInv'
  <2>1. setback'["reaper"] = setback["reaper"]
    BY <1>5 DEF Pass, Renewal, MissedRenewal, Checked, TimingInv, TimingTypeOK
  <2> QED
    BY <1>4, <1>5, <2>1 DEF Pass, Renewal, MissedRenewal
<1>6. CASE Second
  <2>1. \A q \in Reapers : reaper'[q].total = reaper[q].total
    BY <1>6 DEF Second, TimingInv, TimingTypeOK, ReaperState
  <2> QED
    BY <1>4, <1>6, <2>1 DEF Second
<1>7. ASSUME UNCHANGED <<leases_expired_total, expiries, setback, reaper>> PROVE CountInv'
  BY <1>4, <1>7
<1> QED
  BY <1>2, <1>3, <1>5, <1>6, <1>7
  DEF Next, Submit, Take, CountAck, Finish, Abandon, Wedge, FinishReplaced, Replace, Crash

(* "Every expiry is counted", for any number of reapers: none is counted   *)
(* twice, and when no pass is under way and none has ever failed, the      *)
(* counter is exact.                                                       *)
THEOREM ExpiriesAlwaysCounted == Spec => []ExpiriesAreCounted
<1>1. Init => CountInv
  <2> SUFFICES ASSUME Init PROVE CountInv
    OBVIOUS
  <2>1. Uncounted = {}
    BY DEF Init, Uncounted
  <2> QED
    BY <2>1, FS_EmptySet DEF Init, CountInv
<1>2. TimingInv /\ CountInv /\ [Next]_vars => CountInv'
  BY CountStep
<1>3. TimingInv /\ CountInv => ExpiriesAreCounted
  <2> SUFFICES ASSUME TimingInv, CountInv PROVE ExpiriesAreCounted
    OBVIOUS
  <2>1. leases_expired_total \in Nat /\ expiries \in Nat /\ Cardinality(Uncounted) \in Nat
    BY FS_CardinalityType DEF TimingInv, TimingTypeOK, CountInv
  <2>2. ASSUME \A q \in Reapers : reaper[q].total = 0 PROVE Cardinality(Uncounted) = 0
    <3>1. Uncounted = {}
      BY <2>2 DEF Uncounted
    <3> QED
      BY <3>1, FS_EmptySet
  <2> QED
    BY <2>1, <2>2 DEF CountInv, ExpiriesAreCounted
<1> QED
  BY <1>1, <1>2, <1>3, AlwaysPunctual, PTL DEF Spec
=============================================================================
