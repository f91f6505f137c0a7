------------------------------- MODULE JobLife -------------------------------
(***************************************************************************)
(* The life of a job as the submitter and the tasks see it, with no queue, *)
(* worker or scheduler in sight: submitted, tried until it succeeds or has *)
(* failed max_retries times, buried in the dead letter queue; and what     *)
(* /status tells of it meanwhile.  One job changes at a time.              *)
(*                                                                         *)
(* Reports may come late or more than once, a job may be tried again after *)
(* its success, and nothing says that it is tried at all.  But nothing is  *)
(* tried before it is submitted, no job is buried that has not earned it,  *)
(* and no end is reported that has not happened.                           *)
(***************************************************************************)
EXTENDS Integers

CONSTANTS
  Jobs,          (* job ids                                                 *)
  Statuses,      (* what /status may say                                    *)
  MaxRetries     (* [Jobs -> Int]: failures after which a job is buried     *)

VARIABLES
  submitted,     (* jobs whose /submit has ended                            *)
  done,          (* jobs that have succeeded                                *)
  failures,      (* how often each job has failed                           *)
  buried,        (* jobs in the dead letter queue                           *)
  report         (* what /status says of each job, "none" at first          *)

life == <<submitted, done, failures, buried, report>>

LifeInit ==
  /\ submitted = {} /\ done = {} /\ buried = {}
  /\ failures = [j \in Jobs |-> 0]
  /\ report = [j \in Jobs |-> "none"]

SpentAll(j) == failures[j] > 0 /\ failures[j] >= MaxRetries[j]

(* The first report comes before the job, and replaces no other. *)
Announce(j) ==
  /\ j \notin submitted /\ report[j] = "none"
  /\ report' = [report EXCEPT ![j] = "pending"]
  /\ UNCHANGED <<submitted, done, failures, buried>>

Enter(j) ==
  /\ submitted' = submitted \cup {j}
  /\ UNCHANGED <<done, failures, buried, report>>

TryAndSucceed(j) ==
  /\ j \in submitted
  /\ done' = done \cup {j}
  /\ UNCHANGED <<submitted, failures, buried, report>>

TryAndFail(j) ==
  /\ j \in submitted
  /\ failures' = [failures EXCEPT ![j] = @ + 1]
  /\ UNCHANGED <<submitted, done, buried, report>>

Bury(j) ==
  /\ j \in submitted /\ SpentAll(j)
  /\ buried' = buried \cup {j}
  /\ UNCHANGED <<submitted, done, failures, report>>

Tell(j, status) ==
  /\ j \in submitted
  /\ status = "done" => j \in done
  /\ status = "dead" => SpentAll(j)
  /\ report' = [report EXCEPT ![j] = status]
  /\ UNCHANGED <<submitted, done, failures, buried>>

LifeNext ==
  \E j \in Jobs :
    \/ Announce(j) \/ Enter(j)
    \/ TryAndSucceed(j) \/ TryAndFail(j) \/ Bury(j)
    \/ \E status \in Statuses : Tell(j, status)

LifeSpec == LifeInit /\ [][LifeNext]_life
=============================================================================
