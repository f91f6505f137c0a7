-------------------------- MODULE AtLeastOnceQueue --------------------------
(***************************************************************************)
(* What priority_queue.py promises its callers, with no Redis in sight:    *)
(* a job that was pushed stays owed until a caller acknowledges it.        *)
(* Handing a job out, getting it back from a dead worker and handing it    *)
(* out again never change what is owed.                                    *)
(*                                                                         *)
(* An acknowledgement is a request of a caller.  It is asked for before it *)
(* is carried out, and is used up by the one step that carries it out.  So *)
(* a step that drops a job in hand without such a request, as a requeue    *)
(* that fails to put it back would, is no step of this specification.      *)
(***************************************************************************)
EXTENDS FiniteSets

CONSTANTS
  Jobs,              (* the identities of the jobs                         *)
  Callers            (* who may acknowledge, or clear the queue            *)

VARIABLES
  owed,              (* jobs that still have to be delivered and settled   *)
  inHand,            (* owed jobs that are leased to a caller right now    *)
  asked              (* the requests under way: <<caller, job>> for an     *)
                     (* acknowledgement, <<caller, "everything">> to clear *)

promise == <<owed, inHand, asked>>

Requests == Callers \X (Jobs \cup {"everything"})

PromiseInit == owed = {} /\ inHand = {} /\ asked = {}

(* A job is pushed, for the first time or again. *)
Accept(j) == owed' = owed \cup {j} /\ UNCHANGED <<inHand, asked>>

(* A caller sends an acknowledgement, or the order to clear the queue. *)
Ask(request) ==
  /\ asked' = asked \cup {request}
  /\ UNCHANGED <<owed, inHand>>

(* A job that is owed is handed out, or none.  Requests may end with it:   *)
(* calls that failed, callers that died, acknowledgements of a job nobody  *)
(* has in hand.                                                            *)
Deliver(delivered) ==
  /\ delivered \subseteq owed
  /\ inHand' = inHand \cup delivered
  /\ asked' \subseteq asked
  /\ UNCHANGED owed

(* A job in hand is acknowledged, and in the same call another may be      *)
(* handed out.  It stays owed when another copy of it is waiting.          *)
Settle(c, j, delivered) ==
  /\ <<c, j>> \in asked
  /\ asked' = asked \ {<<c, j>>}
  /\ j \in inHand
  /\ delivered \subseteq owed
  /\ inHand' = (inHand \ {j}) \cup delivered
  /\ owed' \in {owed, owed \ ({j} \ delivered)}

(* Jobs leave the hands they were in without having been settled. *)
GiveBack(S) ==
  /\ S \subseteq inHand
  /\ inHand' = inHand \ S
  /\ UNCHANGED <<owed, asked>>

(* The operator drops everything. *)
Wipe(c) ==
  /\ <<c, "everything">> \in asked
  /\ asked' = asked \ {<<c, "everything">>}
  /\ owed' = {} /\ inHand' = {}

AtMostOne == {{}} \cup {{j} : j \in Jobs}

PromiseNext ==
  \/ \E j \in Jobs : Accept(j)
  \/ \E request \in Requests : Ask(request)
  \/ \E delivered \in AtMostOne :
       \/ Deliver(delivered)
       \/ \E c \in Callers, j \in Jobs : Settle(c, j, delivered)
  \/ \E S \in SUBSET Jobs : GiveBack(S)
  \/ \E c \in Callers : Wipe(c)

PromiseSpec == PromiseInit /\ [][PromiseNext]_promise
=============================================================================
