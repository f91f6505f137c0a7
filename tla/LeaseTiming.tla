------------------------------ MODULE LeaseTiming ------------------------------
(***************************************************************************)
(* Leases against the clock: worker processes that renew the leases of the *)
(* jobs they run, monitors that replace stalled threads, and reapers that  *)
(* take back what has lapsed, over the queue of PriorityQueue.  Time is    *)
(* discrete; one tick of it is a second of the program, or a part of one.  *)
(*                                                                         *)
(* OrionQueue leaves durations open and shows what stays true whatever     *)
(* they are.  This module says what the configured durations achieve: who  *)
(* keeps a lease, how soon a lost job is back, how soon a wedged thread is *)
(* replaced, and what the two lease counters count.                        *)
(***************************************************************************)
EXTENDS PriorityQueue

CONSTANTS
  Workers,           (* the places of the workers in the lists of all pools *)
  Pods,              (* worker processes                                    *)
  PodOf,             (* [Workers -> Pods]                                   *)
  Reapers,           (* reaper threads, one per scheduler                   *)
  RenewInterval,     (* renew_interval                                      *)
  MonitorSleep,      (* the monitor's sleep(1)                              *)
  MaxLate,           (* bound: how late a pass of the monitor may come      *)
  HeartbeatTimeout,  (* HEARTBEAT_TIMEOUT                                   *)
  Backoff,           (* ERROR_BACKOFF_SECONDS, with the failing call's own  *)
                     (* timeout                                             *)
  ReapInterval,      (* REAP_INTERVAL                                       *)
  MaxTask,           (* bound: the longest task                             *)
  MaxFaults          (* bound: crashes, wedged tasks and failed calls       *)

ASSUME TimingAssumption ==
  /\ PodOf \in [Workers -> Pods]
  /\ IsFiniteSet(Jobs)
  /\ Nil \notin Jobs
  /\ Reapers # {}
  /\ {RenewInterval, MonitorSleep, HeartbeatTimeout, ReapInterval, MaxTask,
      Backoff} \subseteq Nat \ {0}
  /\ {MaxLate, MaxFaults} \subseteq Nat

VARIABLES
  hand,          (* current_job of each worker, or Nil                      *)
  owes,          (* the job whose acknowledgement it still owes, or Nil     *)
  rest,          (* what is left of its sleep after a failed take, or Nil   *)
  beat,          (* how old last_heartbeat is, which is not written while a *)
                 (* task runs                                               *)
  wedged,        (* workers whose task hangs: it returns later than after   *)
                 (* MaxTask, or never                                       *)
  replaced,      (* per process: what the threads the monitor has replaced  *)
                 (* are still running                                       *)
  monitor,       (* per process: until the next pass, since last_renew, and *)
                 (* whether the last renewal failed                         *)
  reaper,        (* per reaper: until the next pass, and total              *)
  leases_expired_total, lease_ack_late_total,
  (* history, read by properties only *)
  excused,       (* something has happened after which LeasesAreKept claims *)
                 (* nothing                                                 *)
  unheld,        (* for how long each leased job has been in nobody's hands *)
  expiries,      (* leases the reapers have taken back                      *)
  takenBack,     (* leases taken back, by a reaper or by a monitor          *)
  unanswered,    (* acknowledgements that are sent again because their      *)
                 (* answer was lost                                         *)
  setback,       (* time that failed passes of reapers and monitors cost    *)
  faults

threadVars == <<hand, owes, rest, beat, wedged, replaced, excused>>
counters == <<leases_expired_total, lease_ack_late_total, expiries, takenBack, unanswered>>
vars == <<queueVars, threadVars, monitor, reaper, counters, unheld, setback, faults>>

Waiting(j) == [id |-> j, attempt |-> 0, status |-> "pending", stamp |-> 0]

Owed(w) == {owes[w]} \ {Nil}
Held == {hand[w] : w \in Workers} \cup {owes[w] : w \in Workers}

(* last_renew = 0.0, so that the first pass renews. *)
Started == [wait |-> 0, since |-> RenewInterval, missed |-> FALSE]

MonitorState == [wait : (-MaxLate)..MonitorSleep, since : Nat, missed : BOOLEAN]
ReaperState == [wait : 0..ReapInterval, total : Nat]

TimingTypeOK ==
  /\ QueueTypeOK
  /\ hand \in [Workers -> Jobs \cup {Nil}]
  /\ owes \in [Workers -> Jobs \cup {Nil}]
  /\ rest \in [Workers -> (0..Backoff) \cup {Nil}]
  /\ beat \in [Workers -> Nat]
  /\ wedged \subseteq Workers
  /\ replaced \in [Pods -> SUBSET [job : Jobs, wedged : BOOLEAN]]
  /\ excused \in BOOLEAN
  /\ monitor \in [Pods -> MonitorState]
  /\ reaper \in [Reapers -> ReaperState]
  /\ {leases_expired_total, lease_ack_late_total, expiries, takenBack, unanswered} \subseteq Nat
  /\ unheld \in [Jobs -> Nat]
  /\ setback \in [{"reaper", "monitor"} -> Nat]
  /\ faults \in 0..MaxFaults

Init ==
  /\ QueueInit
  /\ hand = [w \in Workers |-> Nil]
  /\ owes = [w \in Workers |-> Nil]
  /\ rest = [w \in Workers |-> Nil]
  /\ beat = [w \in Workers |-> 0]
  /\ wedged = {}
  /\ replaced = [p \in Pods |-> {}]
  /\ excused = FALSE
  /\ monitor = [p \in Pods |-> Started]
  /\ reaper = [q \in Reapers |-> [wait |-> 0, total |-> 0]]
  /\ leases_expired_total = 0
  /\ lease_ack_late_total = 0
  /\ unheld = [j \in Jobs |-> 0]
  /\ expiries = 0
  /\ takenBack = 0
  /\ unanswered = 0
  /\ setback = [s \in {"reaper", "monitor"} |-> 0]
  /\ faults = 0

-----------------------------------------------------------------------------
(* A Redis call is answered, refused, or applied without an answer; the    *)
(* caller of the last two sees the same exception.                         *)
Replies == {"ok", "refused", "lost"}

Landed(r) == r # "refused"

Fault == faults < MaxFaults /\ faults' = faults + 1

Reply(r) == IF r = "ok" THEN UNCHANGED faults ELSE Fault

(* A new job, under an id that is in use nowhere.                          *)
Submit(j) ==
  /\ j \notin QueuedIds \cup Leased \cup Held
  /\ \A p \in Pods : \A t \in replaced[p] : t.job # j
  /\ Push(Waiting(j))
  /\ UNCHANGED <<threadVars, monitor, reaper, counters, unheld, setback, faults>>

-----------------------------------------------------------------------------
(* The threads of the workers.                                             *)

(* Mutant of CountAck: "not acked" for "acked is False". *)
CountAckLoosely(w, r) ==
  /\ lease_ack_late_total' = IF r = "ok" /\ Owed(w) \cap Leased = {}
                             THEN lease_ack_late_total + 1 ELSE lease_ack_late_total
  /\ unanswered' = IF r = "lost" /\ Owed(w) # {} THEN unanswered + 1 ELSE unanswered
  /\ UNCHANGED <<leases_expired_total, expiries, takenBack>>

(* _count_ack, for an acknowledgement that finds no lease.                 *)
CountAck(w, r) ==
  /\ lease_ack_late_total' = IF r = "ok" /\ Owed(w) \ Leased # {}
                             THEN lease_ack_late_total + 1 ELSE lease_ack_late_total
  /\ unanswered' = IF r = "lost" /\ Owed(w) # {} THEN unanswered + 1 ELSE unanswered
  /\ UNCHANGED <<leases_expired_total, expiries, takenBack>>

(* take().  After an exception the thread keeps its heartbeat, sleeps and  *)
(* tries again, with the acknowledgement it still owes.                    *)
Take(w, r, x) ==
  LET job == IF r = "ok" THEN Parsed(x) ELSE Nil IN
  /\ hand[w] = Nil /\ rest[w] \in {Nil, 0}
  /\ Reply(r)
  /\ IF Landed(r) THEN AckAndPop(Owed(w), x) ELSE x = Nil /\ UNCHANGED queueVars
  /\ hand' = [hand EXCEPT ![w] = IF job = Nil THEN Nil ELSE job.id]
  /\ owes' = IF r = "ok" THEN [owes EXCEPT ![w] = Nil] ELSE owes
  /\ rest' = [rest EXCEPT ![w] = IF r = "ok" THEN Nil ELSE Backoff]
  /\ excused' = (excused \/ (r # "ok" /\ rest[w] # Nil /\ owes[w] # Nil))
  /\ CountAck(w, r)
  /\ UNCHANGED <<beat, wedged, replaced, monitor, reaper, unheld, setback>>

(* The task ends and its outcome is recorded.  current_job is cleared, and *)
(* with it the renewals end, before the acknowledgement is sent.           *)
Finish(w) ==
  /\ hand[w] # Nil
  /\ hand' = [hand EXCEPT ![w] = Nil]
  /\ owes' = [owes EXCEPT ![w] = hand[w]]
  /\ beat' = [beat EXCEPT ![w] = 0]
  /\ wedged' = wedged \ {w}
  /\ UNCHANGED <<queueVars, rest, replaced, excused, monitor, reaper, counters,
                 unheld, setback, faults>>

(* Its outcome could not be recorded, "leaving its lease to expire". *)
Abandon(w) ==
  /\ hand[w] # Nil
  /\ Fault
  /\ hand' = [hand EXCEPT ![w] = Nil]
  /\ beat' = [beat EXCEPT ![w] = 0]
  /\ wedged' = wedged \ {w}
  /\ UNCHANGED <<queueVars, owes, rest, replaced, excused, monitor, reaper, counters,
                 unheld, setback>>

(* The task hangs, for a while or for ever. *)
Wedge(w) ==
  /\ hand[w] # Nil /\ w \notin wedged
  /\ Fault
  /\ wedged' = wedged \cup {w}
  /\ UNCHANGED <<queueVars, hand, owes, rest, beat, replaced, excused, monitor,
                 reaper, counters, unheld, setback>>

(* A replaced thread whose task returns: it finds _running false and sends *)
(* its last acknowledgement, in _release, which counts it when the answer  *)
(* comes and never sends it again.  (One that cannot record its outcome    *)
(* sends none, and is no different from one that never returns.)           *)
FinishReplaced(p, t, r) ==
  /\ replaced' = [replaced EXCEPT ![p] = @ \ {t}]
  /\ excused' = TRUE
  /\ Reply(r)
  /\ IF Landed(r) THEN Ack(t.job) ELSE UNCHANGED queueVars
  /\ lease_ack_late_total' = IF r = "ok" /\ t.job \notin Leased
                             THEN lease_ack_late_total + 1 ELSE lease_ack_late_total
  /\ UNCHANGED <<hand, owes, rest, beat, wedged, monitor, reaper, unheld, setback,
                 leases_expired_total, expiries, takenBack, unanswered>>

-----------------------------------------------------------------------------
(* The monitor.  A pass replaces every stalled worker and then renews, if  *)
(* the last attempt to renew is long enough ago; then the thread sleeps.   *)

Due(p) == monitor[p].wait <= 0

(* Mutant of Stalled: only workers without a job. *)
StalledIdle(p) == {w \in Workers : /\ PodOf[w] = p /\ hand[w] = Nil
                                   /\ beat[w] > HeartbeatTimeout}

Stalled(p) == {w \in Workers : PodOf[w] = p /\ beat[w] > HeartbeatTimeout}

(* A new worker takes the place of a stalled one.  The old thread, if its  *)
(* task ever returns, is still running the job.                            *)
Replace(p, w) ==
  /\ Due(p) /\ w \in Stalled(p)
  /\ Requeue(Waiting(hand[w]))
  /\ takenBack' = IF hand[w] \in Leased THEN takenBack + 1 ELSE takenBack
  /\ replaced' = [replaced EXCEPT ![p] = @ \cup {[job |-> hand[w], wedged |-> w \in wedged]}]
  /\ hand' = [hand EXCEPT ![w] = Nil]
  /\ beat' = [beat EXCEPT ![w] = 0]
  /\ wedged' = wedged \ {w}
  /\ UNCHANGED <<owes, rest, excused, monitor, reaper, leases_expired_total,
                 lease_ack_late_total, expiries, unanswered, unheld, setback, faults>>

(* check_once finds nobody stalled, or requeue raises: then it is left to  *)
(* the next pass.  A requeue that was applied and not answered is          *)
(* OrionQueue's subject.                                                   *)
Checked(p) ==
  \/ Stalled(p) = {} /\ UNCHANGED <<setback, faults>>
  \/ /\ Stalled(p) # {}
     /\ Fault
     /\ setback' = [setback EXCEPT !["monitor"] = @ + MonitorSleep + MaxLate]

RenewalDue(p) == monitor[p].since >= RenewInterval

Running(p) == {hand[w] : w \in {v \in Workers : PodOf[v] = p}} \ {Nil}

(* Mutant of Pass: last_renew is set whether or not it was time to renew. *)
PassResetting(p) ==
  /\ Due(p) /\ ~RenewalDue(p)
  /\ Checked(p)
  /\ monitor' = [monitor EXCEPT ![p].wait = MonitorSleep, ![p].since = 0]
  /\ UNCHANGED <<queueVars, threadVars, reaper, counters, unheld>>

Pass(p) ==
  /\ Due(p) /\ ~RenewalDue(p)
  /\ Checked(p)
  /\ monitor' = [monitor EXCEPT ![p].wait = MonitorSleep]
  /\ UNCHANGED <<queueVars, threadVars, reaper, counters, unheld>>

Renewal(p) ==
  /\ Due(p) /\ RenewalDue(p)
  /\ Checked(p)
  /\ Renew(Running(p))
  /\ monitor' = [monitor EXCEPT ![p] = [wait |-> MonitorSleep, since |-> 0, missed |-> FALSE]]
  /\ UNCHANGED <<threadVars, reaper, counters, unheld>>

(* A missed renewal: last_renew is set as if it had been done.  The outage *)
(* that is the reason also keeps check_once from replacing anybody.        *)
MissedRenewal(p) ==
  /\ Due(p) /\ RenewalDue(p)
  /\ Fault
  /\ setback' = IF Stalled(p) = {} THEN setback
                ELSE [setback EXCEPT !["monitor"] = @ + MonitorSleep + MaxLate]
  /\ excused' = (excused \/ monitor[p].missed)
  /\ monitor' = [monitor EXCEPT ![p] = [wait |-> MonitorSleep, since |-> 0, missed |-> TRUE]]
  /\ UNCHANGED <<queueVars, hand, owes, rest, beat, wedged, replaced, reaper, counters, unheld>>

(* The process is killed, and another starts in its place. *)
Crash(p) ==
  LET mine == {w \in Workers : PodOf[w] = p}
      without(f, v) == [w \in Workers |-> IF w \in mine THEN v ELSE f[w]]
  IN
  /\ Fault
  /\ hand' = without(hand, Nil)
  /\ owes' = without(owes, Nil)
  /\ rest' = without(rest, Nil)
  /\ beat' = without(beat, 0)
  /\ wedged' = wedged \ mine
  /\ replaced' = [replaced EXCEPT ![p] = {}]
  /\ monitor' = [monitor EXCEPT ![p] = Started]
  /\ UNCHANGED <<queueVars, excused, reaper, counters, unheld, setback>>

-----------------------------------------------------------------------------
(* The reaper: reap_expired again and again until a batch is not full.     *)

(* Mutant of ReapCall: one batch is a pass. *)
ReapOneBatch(q, S) ==
  /\ reaper[q].wait = 0
  /\ Reap(S)
  /\ expiries' = expiries + Cardinality(S)
  /\ takenBack' = takenBack + Cardinality(S)
  /\ leases_expired_total' = leases_expired_total + reaper[q].total + Cardinality(S)
  /\ reaper' = [reaper EXCEPT ![q] = [wait |-> ReapInterval, total |-> 0]]
  /\ UNCHANGED <<threadVars, monitor, lease_ack_late_total, unanswered, unheld, setback, faults>>

(* Mutant of ReapCall: only the last batch is counted. *)
ReapCallForgetting(q, S) ==
  /\ reaper[q].wait = 0
  /\ Reap(S)
  /\ expiries' = expiries + Cardinality(S)
  /\ takenBack' = takenBack + Cardinality(S)
  /\ IF Cardinality(S) < ReapLimit
     THEN /\ leases_expired_total' = leases_expired_total + Cardinality(S)
          /\ reaper' = [reaper EXCEPT ![q] = [wait |-> ReapInterval, total |-> 0]]
     ELSE UNCHANGED <<leases_expired_total, reaper>>
  /\ UNCHANGED <<threadVars, monitor, lease_ack_late_total, unanswered, unheld, setback, faults>>

ReapCall(q, S) ==
  LET n == Cardinality(S) IN
  /\ reaper[q].wait = 0
  /\ Reap(S)
  /\ expiries' = expiries + n
  /\ takenBack' = takenBack + n
  /\ IF n < ReapLimit
     THEN /\ leases_expired_total' = leases_expired_total + reaper[q].total + n
          /\ reaper' = [reaper EXCEPT ![q] = [wait |-> ReapInterval, total |-> 0]]
     ELSE /\ reaper' = [reaper EXCEPT ![q].total = @ + n]
          /\ UNCHANGED leases_expired_total
  /\ UNCHANGED <<threadVars, monitor, lease_ack_late_total, unanswered, unheld, setback, faults>>

(* An exception ends the pass, and total is forgotten; the batch may have  *)
(* been reaped all the same.                                               *)
ReapFails(q, S) ==
  /\ reaper[q].wait = 0
  /\ Fault
  /\ \/ Reap(S) /\ expiries' = expiries + Cardinality(S)
                /\ takenBack' = takenBack + Cardinality(S)
     \/ UNCHANGED <<queueVars, expiries, takenBack>>
  /\ reaper' = [reaper EXCEPT ![q] = [wait |-> ReapInterval, total |-> 0]]
  /\ setback' = [setback EXCEPT !["reaper"] = @ + ReapInterval]
  /\ UNCHANGED <<threadVars, monitor, leases_expired_total, lease_ack_late_total,
                 unanswered, unheld>>

-----------------------------------------------------------------------------
(* What cannot wait any longer: a task that has run for MaxTask, a thread  *)
(* between finally and take(), a reaper whose sleep is over, a monitor     *)
(* that is as late as it may be.                                           *)
Urgent ==
  \/ \E w \in Workers : \/ w \notin wedged /\ beat[w] = MaxTask
                        \/ owes[w] # Nil /\ rest[w] \in {Nil, 0}
  \/ \E q \in Reapers : reaper[q].wait = 0
  \/ \E p \in Pods : monitor[p].wait = -MaxLate

Second ==
  /\ ~Urgent
  /\ Tick
  /\ beat' = [w \in Workers |-> IF hand[w] = Nil THEN 0 ELSE beat[w] + 1]
  /\ rest' = [w \in Workers |-> IF rest[w] \in {Nil, 0} THEN rest[w] ELSE rest[w] - 1]
  /\ monitor' = [p \in Pods |-> [monitor[p] EXCEPT !.wait = @ - 1, !.since = @ + 1]]
  /\ reaper' = [q \in Reapers |-> [reaper[q] EXCEPT !.wait = @ - 1]]
  /\ unheld' = [j \in Jobs |-> IF j \notin Leased \ Held THEN 0
                               ELSE IF processing[j] = LeaseTicks THEN 1
                               ELSE unheld[j] + 1]
  /\ UNCHANGED <<hand, owes, wedged, replaced, excused, counters, setback, faults>>

Next ==
  \/ \E j \in Jobs : Submit(j)
  \/ \E w \in Workers : \/ \E r \in Replies, x \in queue \cup {Nil} : Take(w, r, x)
                        \/ Finish(w)
                        \/ Abandon(w)
                        \/ Wedge(w)
  \/ \E p \in Pods : \/ \E t \in replaced[p], r \in Replies : FinishReplaced(p, t, r)
                     \/ \E w \in Workers : Replace(p, w)
                     \/ Pass(p)
                     \/ Renewal(p)
                     \/ MissedRenewal(p)
                     \/ Crash(p)
  \/ \E q \in Reapers, S \in Batches : ReapCall(q, S) \/ ReapFails(q, S)
  \/ Second

Spec == Init /\ [][Next]_vars

-----------------------------------------------------------------------------
(* Properties.                                                             *)

(* The jobs of the tasks that are running and will return in time. *)
LiveJobs == {hand[w] : w \in Workers \ wedged} \ {Nil}
LiveReplaced(p) == {t.job : t \in {u \in replaced[p] : ~u.wedged}}

(* "The worker renews every third of this while the job runs, so a live    *)
(* worker never loses its lease": the job of a task that is running is     *)
(* leased, and nobody else is running it, or has given it up to its        *)
(* replacement.                                                            *)
LiveWorkersKeepTheirLeases ==
  /\ LiveJobs \subseteq Leased \ Lapsed
  /\ \A v, w \in Workers : v # w /\ hand[v] # Nil => hand[v] # hand[w]
  /\ \A p \in Pods : LiveReplaced(p) = {}

(* For the longest time between two renewals, the lateness of a pass       *)
(* included, a lease must survive two of them, and a retried take.         *)
Gap == RenewInterval - 1 + MonitorSleep + MaxLate
DurationsFit ==
  /\ MaxTask <= HeartbeatTimeout
  /\ 2 * Gap + Backoff < LeaseTicks

(* Crashes, wedged tasks, a missed renewal and a failed take do not change *)
(* that, however often.  Three things do, which excused stands for: two    *)
(* renewals of a process missed in a row, or two takes of a thread that    *)
(* owes an acknowledgement failed in a row, for then a lease may run out;  *)
(* and a task that returns after its thread was replaced, for its          *)
(* acknowledgement takes the lease of whoever has the job now.             *)
LeasesAreKept == ~excused => LiveWorkersKeepTheirLeases

(* "A crashed worker's jobs come back within LEASE_SECONDS + REAP_INTERVAL", *)
(* and "a failure costs one cycle and no more".                              *)
CrashedJobsComeBack ==
  \A j \in Leased : unheld[j] < LeaseTicks + ReapInterval + setback["reaper"]

(* "Replaces a wedged thread within about ten seconds". *)
WedgedThreadsAreReplaced ==
  \A w \in Workers :
    beat[w] <= HeartbeatTimeout + MonitorSleep + MaxLate + setback["monitor"]

(* "Every expiry is counted": no expiry is counted twice, and between two   *)
(* passes none is uncounted unless a pass has failed.                       *)
ExpiriesAreCounted ==
  /\ leases_expired_total <= expiries
  /\ setback["reaper"] = 0 /\ (\A q \in Reapers : reaper[q].total = 0)
       => leases_expired_total = expiries

(* "Each is a duplicate execution": a late acknowledgement is counted only *)
(* for a lease that was taken back, or for one acknowledged before.        *)
LateAcksAreExplained == lease_ack_late_total <= takenBack + unanswered
=============================================================================
