----------------------------- MODULE QueueClient -----------------------------
(***************************************************************************)
(* The queue of priority_queue.py under its most general client, which may *)
(* call any operation with any argument at any time.                       *)
(*                                                                         *)
(* An acknowledgement is sent before Redis applies it, and the same is so  *)
(* of clear(): asked are those that are on their way.  No script reads it. *)
(* It tells an acknowledgement apart from everything else that may end a   *)
(* lease.                                                                  *)
(***************************************************************************)
EXTENDS PriorityQueue

CONSTANTS
  Pushable,     (* the entries the client writes                           *)
  Callers       (* its threads; each waits for the answer to its request   *)

ASSUME ClientAssumption == Pushable \subseteq Entry

VARIABLE asked  (* the requests on their way: <<caller, job id>> for ack() *)
                (* or take(), <<caller, "everything">> for clear()         *)

clientVars == <<queueVars, asked>>

Requests == Callers \X (Jobs \cup {"everything"})

ClientInit == QueueInit /\ asked = {}

(* A caller sends an acknowledgement or the order to clear. *)
Send(request) ==
  /\ \A r \in asked : r[1] # request[1]
  /\ asked' = asked \cup {request}
  /\ UNCHANGED queueVars

(* It is carried out, or the call fails. *)
Answer(request) ==
  /\ asked' = asked \ {request}
  /\ \/ /\ request[2] \in Jobs
        /\ \/ Ack(request[2])
           \/ \E x \in queue \cup {Nil} : AckAndPop({request[2]}, x)
     \/ request[2] = "everything" /\ Clear
     \/ UNCHANGED queueVars

(* The other operations.  Renewals, the reaper and the clock are among     *)
(* them: who calls them makes no difference to the queue.                  *)
Call ==
  /\ \/ \E m \in Pushable : Push(m) \/ Requeue(m)
     \/ \E x \in queue \cup {Nil} : Pop(x)
     \/ \E ids \in SUBSET Jobs : Renew(ids)
     \/ \E S \in Batches : Reap(S)
     \/ Tick
  /\ UNCHANGED asked

QueueNext ==
  \/ \E request \in Requests : Send(request)
  \/ \E request \in asked : Answer(request)
  \/ Call

QueueSpec == ClientInit /\ [][QueueNext]_clientVars

-----------------------------------------------------------------------------
(* The queue keeps the promise of AtLeastOnceQueue: once pushed, a job is  *)
(* waiting or leased until a caller acknowledges it.  No requeue, renewal, *)
(* recovery or passing of time ever drops one, nor does an acknowledgement *)
(* drop any job but the one it names.                                      *)
Promise == INSTANCE AtLeastOnceQueue WITH owed <- Owing, inHand <- Leased

KeepsThePromise == Promise!PromiseSpec
=============================================================================
