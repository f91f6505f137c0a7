---------------------------- MODULE PriorityQueue ----------------------------
(***************************************************************************)
(* RedisPriorityQueue of priority_queue.py: the four Redis keys of a queue *)
(* and the Lua scripts over them, each of which Redis runs atomically.     *)
(*                                                                         *)
(* The module has no specification of its own.  QueueClient calls the     *)
(* scripts with any argument at any time; what holds of it holds whatever  *)
(* the workers do.  OrionQueue and LeaseTiming call them in the order the  *)
(* program does.                                                           *)
(*                                                                         *)
(* Deadlines are kept as the number of ticks a lease still has to live, so *)
(* that time is a finite part of the state; 0 is a deadline in the past.   *)
(***************************************************************************)
EXTENDS Integers, FiniteSets

CONSTANTS
  Jobs,         (* job ids                                                 *)
  Score,        (* [Jobs -> Int]: what score() computes; it depends on the *)
                (* priority and the submit time, which a job never changes *)
  Unreadable,   (* ids of entries that Job.from_dict rejects               *)
  Opaque,       (* ids of entries cjson cannot decode to a table with an id*)
  LeaseTicks,   (* lease_seconds, in ticks                                 *)
  ReapLimit,    (* the reaper's batch                                      *)
  Nil           (* no lease, no entry                                      *)

(* The values of JobStatus. *)
Status == {"pending", "running", "done", "failed", "dead"}

(* A Job, in memory or as JSON, reduced to what changes after submission;  *)
(* stamp stands for next_retry_time, which no two retries share, and for   *)
(* error, the message of the failure that led to the retry.                *)
(* (The error of the last failure, after which there is no retry, is not   *)
(* kept.)                                                                  *)
Entry == [id : Jobs, attempt : Nat, status : Status, stamp : Nat]

ASSUME QueueAssumption ==
  /\ Score \in [Jobs -> Int]
  /\ Opaque \subseteq Unreadable
  /\ Unreadable \subseteq Jobs
  /\ LeaseTicks \in Nat \ {0}
  /\ ReapLimit \in Nat \ {0}
  /\ Nil \notin Int \cup Entry \cup [member : Entry, score : Int]

VARIABLES
  queue,        (* <queue_key>: sorted set, entry -> priority score        *)
  processing,   (* :processing: job id -> ticks until the deadline, or Nil *)
  payload,      (* :processing:payload: job id -> the leased entry, or Nil *)
  savedScore    (* :processing:score: job id -> its score, or Nil          *)

leaseKeys == <<processing, payload, savedScore>>
queueVars == <<queue, leaseKeys>>

Scored(m, s) == [member |-> m, score |-> s]

QueueTypeOK ==
  /\ queue \subseteq [member : Entry, score : Int]
  /\ processing \in [Jobs -> (0..LeaseTicks) \cup {Nil}]
  /\ payload \in [Jobs -> Entry \cup {Nil}]
  /\ savedScore \in [Jobs -> Int \cup {Nil}]

QueueInit ==
  /\ queue = {}
  /\ processing = [j \in Jobs |-> Nil]
  /\ payload = [j \in Jobs |-> Nil]
  /\ savedScore = [j \in Jobs |-> Nil]

-----------------------------------------------------------------------------
(* Readings of the state.                                                  *)

QueuedIds == {x.member.id : x \in queue}
Leased == {j \in Jobs : processing[j] # Nil}
Lapsed == {j \in Jobs : processing[j] = 0}

(* The jobs that are still to be run, and can be: an entry without an id   *)
(* leaves the queue without a lease.                                       *)
Owing == (QueuedIds \cup Leased) \ Opaque

(* What ZPOPMAX may return.  Redis orders members of equal score by their  *)
(* bytes, that is by uuid; here they come in any order.                    *)
Highest == {x \in queue : \A y \in queue : y.score <= x.score}

-----------------------------------------------------------------------------
(* The scripts.                                                            *)

(* ZADD of a member the set already has only rewrites its score. *)
WithMembers(added) ==
  {x \in queue : \A a \in added : a.member # x.member} \cup added

(* ZREM and the two HDELs. *)
Drop(f, ids) == [j \in Jobs |-> IF j \in ids THEN Nil ELSE f[j]]

(* Mutant of Forget: the hashes are left behind. *)
ForgetDeadlineOnly(ids) ==
  /\ processing' = Drop(processing, ids)
  /\ UNCHANGED <<payload, savedScore>>

Forget(ids) ==
  /\ processing' = Drop(processing, ids)
  /\ payload' = Drop(payload, ids)
  /\ savedScore' = Drop(savedScore, ids)

Push(m) == queue' = WithMembers({Scored(m, Score[m.id])}) /\ UNCHANGED leaseKeys

(* The ids leased by popping x: none when the queue was empty (x = Nil) or *)
(* when the entry has no id to lease it under.                             *)
LeasedBy(x) == IF x = Nil THEN {} ELSE {x.member.id} \ Opaque

(* What _parse makes of the member: nothing when from_dict rejects it. *)
Parsed(x) == IF x = Nil \/ x.member.id \in Unreadable THEN Nil ELSE x.member

(* Mutant of AckAndPop: the ZPOPMAX the queue began with, without a lease. *)
AckAndPopUnleased(acked, x) ==
  /\ x \in IF queue = {} THEN {Nil} ELSE Highest
  /\ queue' = queue \ {x}
  /\ Forget(acked)

(* _ACK_AND_POP and, with nothing to acknowledge, _POP. *)
AckAndPop(acked, x) ==
  /\ x \in IF queue = {} THEN {Nil} ELSE Highest
  /\ queue' = queue \ {x}
  /\ processing' = [j \in Jobs |-> IF j \in LeasedBy(x) THEN LeaseTicks
                                   ELSE Drop(processing, acked)[j]]
  /\ payload' = [j \in Jobs |-> IF j \in LeasedBy(x) THEN x.member
                                ELSE Drop(payload, acked)[j]]
  /\ savedScore' = [j \in Jobs |-> IF j \in LeasedBy(x) THEN x.score
                                   ELSE Drop(savedScore, acked)[j]]

Pop(x) == AckAndPop({}, x)

Ack(j) == Forget({j}) /\ UNCHANGED queue

(* Mutant of Requeue: the leased entry goes back whether held or not. *)
RequeueUnchecked(m) ==
  /\ Forget({m.id})
  /\ queue' = WithMembers({Scored(payload[m.id], Score[m.id])})

(* Mutant of Requeue: a push, which leaves the lease live. *)
RequeueByPush(m) == Push(m)

(* Mutant of Requeue: the lease is released and the job not put back. *)
RequeueDropping(m) == Forget({m.id}) /\ UNCHANGED queue

(* _REQUEUE does nothing when the lease is gone.  The member is the JSON   *)
(* of the caller's Job, not the payload kept with the lease.               *)
Requeue(m) ==
  IF m.id \in Leased
  THEN /\ Forget({m.id})
       /\ queue' = WithMembers({Scored(m, Score[m.id])})
  ELSE UNCHANGED queueVars

(* Mutant of Renew: ZADD without XX. *)
RenewOrCreate(ids) ==
  /\ processing' = [j \in Jobs |-> IF j \in ids THEN LeaseTicks ELSE processing[j]]
  /\ UNCHANGED <<queue, payload, savedScore>>

(* _RENEW: ZADD XX, so that only a lease that exists is extended. *)
Renew(ids) ==
  /\ processing' = [j \in Jobs |-> IF j \in ids \cap Leased THEN LeaseTicks
                                   ELSE processing[j]]
  /\ UNCHANGED <<queue, payload, savedScore>>

(* _REAP takes back at most ReapLimit lapsed leases, those of the earliest *)
(* deadlines; deadlines in the past are all 0 here, so any of them.        *)
Batches ==
  {S \in SUBSET Lapsed :
     \/ S = Lapsed /\ Cardinality(S) <= ReapLimit
     \/ Cardinality(S) = ReapLimit}

(* Mutant of Reap: the job comes back, at the bottom of the queue. *)
ReapToTheBottom(S) ==
  /\ queue' = WithMembers({Scored(payload[j], 0) : j \in {i \in S : payload[i] # Nil}})
  /\ Forget(S)

(* Mutant of Reap: the hashes are deleted before they are read. *)
ReapForgetsFirst(S) == Forget(S) /\ UNCHANGED queue

(* Mutant of Reap: recovering a job uses up one of its attempts. *)
ReapCounting(S) ==
  /\ queue' = WithMembers({Scored([payload[j] EXCEPT !.attempt = @ + 1], savedScore[j]) :
                             j \in {i \in S : payload[i] # Nil}})
  /\ Forget(S)

Reap(S) ==
  /\ queue' = WithMembers({Scored(payload[j],
                                  IF savedScore[j] = Nil THEN 0 ELSE savedScore[j]) :
                             j \in {i \in S : payload[i] # Nil}})
  /\ Forget(S)

Clear ==
  /\ queue' = {}
  /\ Forget(Jobs)

(* Time passes for every lease alike. *)
Tick ==
  /\ processing' = [j \in Jobs |-> IF j \in Leased \ Lapsed THEN processing[j] - 1
                                   ELSE processing[j]]
  /\ UNCHANGED <<queue, payload, savedScore>>

-----------------------------------------------------------------------------
(* Properties.                                                             *)

(* The three lease keys always speak of the same jobs.  A lease without a  *)
(* payload is the one thing the reaper cannot bring back: _REAP drops it.  *)
LeaseKeysAgree ==
  \A j \in Jobs : /\ (processing[j] = Nil) <=> (payload[j] = Nil)
                  /\ (processing[j] = Nil) <=> (savedScore[j] = Nil)
                  /\ payload[j] # Nil => payload[j].id = j

(* "A recovered job must not lose its place": whatever brought an entry to *)
(* the queue, and whatever it went through before, it is there at the      *)
(* score of its own job; the reaper's default of 0 is never used.          *)
KeepsItsPlace ==
  /\ \A x \in queue : x.score = Score[x.member.id]
  /\ \A j \in Leased : savedScore[j] = Score[j]

(* "A lease the reaper has already taken is not resurrected": a lease that *)
(* was not there before a step is there after it only because that step    *)
(* took an entry of the same job off the queue.  Renewals create nothing.  *)
LeasesComeFromThePop ==
  [][\A j \in Jobs :
       (j \notin Leased /\ j \in Leased')
         => \E x \in queue : x.member.id = j /\ x \notin queue']_queueVars
=============================================================================
