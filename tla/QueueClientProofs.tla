--------------------------- MODULE QueueClientProofs ---------------------------
(***************************************************************************)
(* Proofs about the queue under its most general client, for any number of *)
(* jobs and callers, any batch size and any length of leases: its type     *)
(* invariant, what holds of the leases, that it keeps the promise of       *)
(* AtLeastOnceQueue, and that it is popped by priority and, within a       *)
(* priority, by time of submission up to the gap between two doubles.      *)
(***************************************************************************)
EXTENDS PriorityOrder, PriorityQueueProofs

(* The requests on their way are requests of the client's callers. *)
ClientInv == QueueInv /\ OpaqueNeverLeased /\ asked \subseteq Requests

(* Acknowledging one job, which is on the way, alone or with a pop. *)
LEMMA AnswerCalls ==
  ASSUME NEW request, Answer(request) PROVE Calls \/ UNCHANGED queueVars
<1>1. ASSUME request[2] \in Jobs,
             (\E x \in queue \cup {Nil} : AckAndPop({request[2]}, x)) \/ Ack(request[2])
      PROVE  Calls
  <2>1. {request[2]} \in SUBSET Jobs /\ AtMostOneOf({request[2]})
    BY <1>1 DEF AtMostOneOf
  <2> QED
    BY <1>1, <2>1 DEF Ack, Calls
<1> QED
  BY <1>1 DEF Answer, Calls

(* The general client reaches the keys of the queue by its scripts only. *)
LEMMA ClientCalls == [QueueNext]_clientVars => [Calls]_queueVars
<1>1. ASSUME NEW x \in queue \cup {Nil}, Pop(x) PROVE Calls
  BY <1>1 DEF Pop, Calls, AtMostOneOf
<1>2. Call => Calls
  BY <1>1, ClientAssumption DEF ClientAssumption, Call, Calls
<1> QED
  BY <1>2, AnswerCalls DEF QueueNext, Send, clientVars

(* It is so at the start, *)
LEMMA ClientInvInit == ClientInit => ClientInv
BY InitKeepsInv DEF ClientInit, ClientInv, QueueInit, OpaqueNeverLeased, Leased

(* and after every step. *)
LEMMA ClientInvStep == ClientInv /\ [QueueNext]_clientVars => ClientInv'
<1> SUFFICES ASSUME ClientInv, [QueueNext]_clientVars PROVE ClientInv'
  OBVIOUS
<1>1. QueueInv' /\ OpaqueNeverLeased'
  BY ClientCalls, CallsKeepInv, OpaqueStepKept DEF ClientInv
<1>2. Requests' = Requests
  BY DEF Requests
<1>3. asked' \subseteq Requests
  BY DEF ClientInv, QueueNext, Send, Answer, Call, clientVars
<1> QED
  BY <1>1, <1>2, <1>3 DEF ClientInv

-----------------------------------------------------------------------------
(* Type correctness of the queue under any client. *)
THEOREM QueueTypeCorrect == QueueSpec => []QueueTypeOK
<1>1. ClientInv => QueueTypeOK BY DEF ClientInv, QueueInv
<1> QED BY <1>1, ClientInvInit, ClientInvStep, PTL DEF QueueSpec

(* Every lease has the payload and the score the reaper needs to bring the *)
(* job back.                                                               *)
THEOREM LeasesAreRecoverable == QueueSpec => []LeaseKeysAgree
<1>1. ClientInv => LeaseKeysAgree BY DEF ClientInv, QueueInv
<1> QED BY <1>1, ClientInvInit, ClientInvStep, PTL DEF QueueSpec

(* A job keeps its priority through leases, requeues and recoveries. *)
THEOREM PlaceIsKept == QueueSpec => []KeepsItsPlace
<1>1. ClientInv => KeepsItsPlace BY DEF ClientInv, QueueInv
<1> QED BY <1>1, ClientInvInit, ClientInvStep, PTL DEF QueueSpec

(* No renewal, requeue or recovery makes a lease appear. *)
THEOREM OnlyPopsLease == QueueSpec => LeasesComeFromThePop
<1>1. ClientInv /\ [QueueNext]_clientVars =>
        [\A j \in Jobs : (j \notin Leased /\ j \in Leased')
           => \E x \in queue : x.member.id = j /\ x \notin queue']_queueVars
  BY ClientCalls, LeasedByPopping DEF ClientInv
<1> QED
  BY <1>1, ClientInvInit, ClientInvStep, PTL DEF QueueSpec, LeasesComeFromThePop

-----------------------------------------------------------------------------
(* The refinement: every step of the client and its queue is a step of the *)
(* promise, or changes nothing the promise speaks of.                      *)

(* A call that answers no request and hands nothing out. *)
LEMMA HarmlessIsGiveBack ==
  ASSUME LosesNothing, UNCHANGED asked
  PROVE  [Promise!PromiseNext]_(Promise!promise)
<1>1. PICK S \in SUBSET Leased : Leased' = Leased \ S /\ Owing' = Owing
  BY DEF LosesNothing
<1>2. S \in SUBSET Jobs
  BY DEF Leased
<1> QED
  BY <1>1, <1>2 DEF Promise!PromiseNext, Promise!GiveBack

(* What may be handed out at a time. *)
LEMMA OneIsHandedOut ==
  ASSUME NEW ids \in SUBSET Jobs, AtMostOneOf(ids) PROVE ids \in Promise!AtMostOne
BY DEF AtMostOneOf, Promise!AtMostOne

(* A request that is answered. *)
LEMMA AnswerSimulates ==
  ASSUME ClientInv, OpaqueNeverLeased', NEW request \in asked, Answer(request)
  PROVE  [Promise!PromiseNext]_(Promise!promise)
<1>1. PICK c \in Callers, k \in Jobs \cup {"everything"} : request = <<c, k>>
  BY DEF ClientInv, Requests
<1>2. /\ asked' = asked \ {<<c, k>>} /\ <<c, k>> \in asked
      /\ request[2] = k
      /\ {} \in Promise!AtMostOne
  BY <1>1 DEF Answer, Promise!AtMostOne
<1>3. CASE UNCHANGED queueVars
  <2>1. Leased' = Leased /\ Owing' = Owing
    BY <1>3 DEF queueVars, leaseKeys, Leased, Owing, QueuedIds
  <2>2. Promise!Deliver({})
    BY <1>2, <2>1 DEF Promise!Deliver
  <2> QED
    BY <1>2, <2>2 DEF Promise!PromiseNext
<1>4. CASE k = "everything" /\ Clear
  <2>1. Leased' = {} /\ Owing' = {}
    BY <1>4, LeasedAfterForget DEF Clear, Owing, QueuedIds, Leased
  <2>2. Promise!Wipe(c)
    BY <1>2, <1>4, <2>1 DEF Promise!Wipe
  <2> QED
    BY <2>2 DEF Promise!PromiseNext
<1>5. ASSUME NEW delivered \in SUBSET Jobs, AtMostOneOf(delivered), delivered \subseteq Owing,
             k \in Jobs, Leased' = (Leased \ {k}) \cup delivered,
             Owing' = Owing \/ Owing' = Owing \ (({k} \cap Leased) \ delivered)
      PROVE  [Promise!PromiseNext]_(Promise!promise)
  <2>1. delivered \in Promise!AtMostOne
    BY <1>5, OneIsHandedOut
  <2>2. CASE k \in Leased
    <3>1. Promise!Settle(c, k, delivered)
      BY <1>2, <1>5, <2>2 DEF Promise!Settle
    <3> QED
      BY <1>5, <2>1, <3>1 DEF Promise!PromiseNext
  <2>3. CASE k \notin Leased
    <3>1. Promise!Deliver(delivered)
      BY <1>2, <1>5, <2>3 DEF Promise!Deliver
    <3> QED
      BY <2>1, <3>1 DEF Promise!PromiseNext
  <2> QED
    BY <2>2, <2>3
<1>6. ASSUME k \in Jobs PROVE {k} \in SUBSET Jobs /\ AtMostOneOf({k})
  BY <1>6 DEF AtMostOneOf
<1>7. ASSUME k \in Jobs, NEW x \in queue \cup {Nil}, AckAndPop({k}, x)
      PROVE  [Promise!PromiseNext]_(Promise!promise)
  BY <1>5, <1>6, <1>7, PopEffect DEF ClientInv
<1>8. ASSUME k \in Jobs, Ack(k)
      PROVE  [Promise!PromiseNext]_(Promise!promise)
  <2>1. Leased' = (Leased \ {k}) \cup {}
        /\ (Owing' = Owing \/ Owing' = Owing \ (({k} \cap Leased) \ {}))
    BY <1>6, <1>8, AckEffect DEF Ack, ClientInv
  <2>2. AtMostOneOf({})
    BY DEF AtMostOneOf
  <2> QED
    BY <1>5, <1>8, <2>1, <2>2
<1> QED
  BY <1>2, <1>3, <1>4, <1>7, <1>8 DEF Answer

(* The other calls. *)
LEMMA CallSimulates ==
  ASSUME ClientInv, OpaqueNeverLeased', Call
  PROVE  [Promise!PromiseNext]_(Promise!promise)
<1>1. UNCHANGED asked
  BY DEF Call
<1>2. ASSUME NEW m \in Pushable, Push(m) PROVE [Promise!PromiseNext]_(Promise!promise)
  <2>1. m.id \in Jobs
    BY ClientAssumption DEF ClientAssumption, Entry
  <2>2. Leased' = Leased /\ Owing' = Owing \cup ({m.id} \ Opaque)
    BY <1>2, PushEffect
  <2>3. Promise!Accept(m.id) \/ UNCHANGED Promise!promise
    BY <1>1, <2>2 DEF Promise!Accept, Promise!promise
  <2> QED
    BY <2>1, <2>3 DEF Promise!PromiseNext
<1>3. ASSUME NEW x \in queue \cup {Nil}, Pop(x)
      PROVE  [Promise!PromiseNext]_(Promise!promise)
  <2>1. {} \in SUBSET Jobs /\ AtMostOneOf({}) /\ AckAndPop({}, x)
    BY <1>3 DEF Pop, AtMostOneOf
  <2>2. /\ LeasedBy(x) \subseteq Owing /\ LeasedBy(x) \in Promise!AtMostOne
        /\ Leased' = Leased \cup LeasedBy(x) /\ Owing' = Owing
    <3>1. /\ LeasedBy(x) \subseteq Owing /\ LeasedBy(x) \subseteq Jobs
          /\ AtMostOneOf(LeasedBy(x))
          /\ Leased' = (Leased \ {}) \cup LeasedBy(x)
          /\ Owing' = Owing \/ Owing' = Owing \ (({} \cap Leased) \ LeasedBy(x))
      BY <2>1, PopEffect DEF ClientInv
    <3>2. LeasedBy(x) \in Promise!AtMostOne
      BY <3>1, OneIsHandedOut
    <3> QED
      BY <3>1, <3>2
  <2>3. Promise!Deliver(LeasedBy(x))
    BY <1>1, <2>2 DEF Promise!Deliver
  <2> QED
    BY <2>2, <2>3 DEF Promise!PromiseNext
<1>4. ASSUME \/ \E m \in Pushable : Requeue(m)
             \/ \E ids \in SUBSET Jobs : Renew(ids)
             \/ \E S \in Batches : Reap(S)
             \/ Tick
      PROVE  [Promise!PromiseNext]_(Promise!promise)
  <2>1. LosesNothing
    BY <1>4, NothingLost, ClientAssumption DEF ClientAssumption, ClientInv
  <2> QED
    BY <1>1, <2>1, HarmlessIsGiveBack
<1> QED
  BY <1>2, <1>3, <1>4 DEF Call

(* The four keys and six scripts implement the promise: a job that was     *)
(* pushed is waiting or leased until a lease on it is acknowledged, by an  *)
(* acknowledgement that was sent and names it, or the queue is cleared.    *)
THEOREM QueueKeepsThePromise == QueueSpec => KeepsThePromise
<1>1. ClientInit => Promise!PromiseInit
  BY DEF ClientInit, QueueInit, Leased, Owing, QueuedIds, Promise!PromiseInit
<1>2. ASSUME ClientInv, ClientInv', [QueueNext]_clientVars
      PROVE  [Promise!PromiseNext]_(Promise!promise)
  <2>1. ASSUME NEW request \in Requests, Send(request)
        PROVE  [Promise!PromiseNext]_(Promise!promise)
    <3>1. Leased' = Leased /\ Owing' = Owing
      BY <2>1 DEF Send, queueVars, leaseKeys, Leased, Owing, QueuedIds
    <3>2. Promise!Ask(request)
      BY <2>1, <3>1 DEF Send, Promise!Ask
    <3> QED
      BY <3>2 DEF Promise!PromiseNext, Promise!Requests, Requests
  <2>2. CASE UNCHANGED clientVars
    BY <2>2 DEF clientVars, queueVars, leaseKeys, Leased, Owing, QueuedIds, Promise!promise
  <2> QED
    BY <1>2, <2>1, <2>2, AnswerSimulates, CallSimulates DEF QueueNext, ClientInv
<1> QED
  BY <1>1, <1>2, ClientInvInit, ClientInvStep, PTL
  DEF QueueSpec, KeepsThePromise, Promise!PromiseSpec

-----------------------------------------------------------------------------
(* Rounding moves a number by at most half the distance of the grid. *)
LEMMA NearestIsNear ==
  ASSUME NEW v \in Int, NEW g \in Nat \ {0}
  PROVE  /\ Nearest(v, g) \in Int
         /\ 2 * Nearest(v, g) <= 2 * v + g
         /\ 2 * v <= 2 * Nearest(v, g) + g
<1> DEFINE below == v \div g
           over == v % g
<1>1. below \in Int /\ over \in 0..(g - 1)
  OBVIOUS
<1>2. below * g \in Int /\ (below + 1) * g = below * g + g
  BY <1>1
<1>3. v = below * g + over
  <2>1. v = g * below + over
    OBVIOUS
  <2> QED BY <2>1, <1>1
<1>4. Nearest(v, g) = IF 2 * over < g \/ (2 * over = g /\ below % 2 = 0)
                      THEN below * g ELSE (below + 1) * g
  BY DEF Nearest
<1> DEFINE low == below * g
<1>5. low \in Int /\ v = low + over /\ over \in 0..(g - 1)
  BY <1>1, <1>2, <1>3
<1>6. \/ Nearest(v, g) = low /\ (2 * over < g \/ 2 * over = g)
      \/ Nearest(v, g) = low + g /\ ~(2 * over < g)
  <2>1. \/ Nearest(v, g) = low /\ (2 * over < g \/ 2 * over = g)
        \/ Nearest(v, g) = (below + 1) * g /\ ~(2 * over < g)
    BY <1>4, Zenon
  <2> QED
    BY <2>1, <1>2, Zenon
<1> HIDE DEF low, over, below
<1> QED
  BY <1>5, <1>6

(* A whole unit of priority outweighs the times and the rounding. *)
LEMMA UnitOfPriority ==
  ASSUME NEW p \in Int, NEW q \in Int, NEW s \in Nat, p < q
  PROVE  p * s + s <= q * s
<1>1. PICK d \in Nat : q = p + 1 + d
  <2>1. q - p - 1 \in Nat /\ q = p + 1 + (q - p - 1)
    OBVIOUS
  <2> QED BY <2>1
<1>2. q * s = p * s + s + d * s /\ d * s >= 0 /\ p * s \in Int /\ d * s \in Int
  BY <1>1
<1> QED
  BY <1>2

(* The order of two scores says as much about priorities and times. *)
LEMMA ScoresOrder ==
  ASSUME NEW i \in Jobs, NEW j \in Jobs, Score[j] <= Score[i]
  PROVE  \/ Priority[i] > Priority[j]
         \/ /\ Priority[i] = Priority[j]
            /\ SubmitTime[i] <= SubmitTime[j] + Grid[i]
<1> DEFINE unit(k) == Priority[k] * Scale
<1>1. \A k \in Jobs : /\ Priority[k] \in Int /\ SubmitTime[k] \in Nat
                      /\ Grid[k] \in Nat \ {0} /\ Scale \in Nat
                      /\ unit(k) \in Int
                      /\ Exact(k) = unit(k) - SubmitTime[k]
                      /\ Score[k] = Nearest(Exact(k), Grid[k])
  BY OrderAssumption DEF OrderAssumption, Exact, score
<1>2. \A k \in Jobs : /\ Score[k] \in Int
                      /\ 2 * Score[k] <= 2 * unit(k) - 2 * SubmitTime[k] + Grid[k]
                      /\ 2 * unit(k) - 2 * SubmitTime[k] <= 2 * Score[k] + Grid[k]
  <2> SUFFICES ASSUME NEW k \in Jobs
               PROVE  /\ Score[k] \in Int
                      /\ 2 * Score[k] <= 2 * unit(k) - 2 * SubmitTime[k] + Grid[k]
                      /\ 2 * unit(k) - 2 * SubmitTime[k] <= 2 * Score[k] + Grid[k]
    OBVIOUS
  <2>1. Exact(k) \in Int /\ Exact(k) = unit(k) - SubmitTime[k]
    BY <1>1
  <2>2. /\ Score[k] \in Int
        /\ 2 * Score[k] <= 2 * Exact(k) + Grid[k]
        /\ 2 * Exact(k) <= 2 * Score[k] + Grid[k]
    BY <1>1, <2>1, NearestIsNear
  <2> HIDE DEF unit
  <2> QED BY <1>1, <2>1, <2>2
<1>3. 2 * unit(j) - 2 * SubmitTime[j] - Grid[j] <= 2 * unit(i) - 2 * SubmitTime[i] + Grid[i]
  <2> HIDE DEF unit
  <2> QED BY <1>1, <1>2
<1>4. CASE Priority[i] = Priority[j]
  <2>1. unit(i) = unit(j) /\ Grid[i] = Grid[j]
    BY <1>4, OrderAssumption DEF OrderAssumption
  <2> HIDE DEF unit
  <2> QED BY <1>1, <1>3, <1>4, <2>1
<1>5. CASE Priority[i] < Priority[j]
  <2>1. unit(i) + Scale <= unit(j)
    BY <1>1, <1>5, UnitOfPriority
  <2>2. 2 * SubmitTime[j] + Grid[j] + Grid[i] < 2 * Scale
    BY OrderAssumption DEF OrderAssumption
  <2> HIDE DEF unit
  <2> QED BY <1>1, <1>3, <2>1, <2>2
<1>6. Priority[i] \in Int /\ Priority[j] \in Int
  BY <1>1
<1> HIDE DEF unit
<1> QED
  BY <1>4, <1>5, <1>6

(* Adding members takes none off the queue. *)
LEMMA AddingKeepsMembers ==
  ASSUME NEW added, queue' = WithMembers(added)
  PROVE  Members \subseteq Members'
BY DEF WithMembers, Members

(* Nor does a step that leaves the queue alone. *)
LEMMA SameMembers ==
  ASSUME UNCHANGED queue
  PROVE  Members \subseteq Members'
BY DEF Members

(* Jobs leave the queue by priority, then by time of submission up to the  *)
(* gap between two doubles.                                                *)
THEOREM JobsArePoppedInOrder == QueueSpec => PopsInOrder
<1> DEFINE Step == \A e, f \in Members :
                     e \notin Members' /\ f \in Members' =>
                       \/ Priority[e.id] > Priority[f.id]
                       \/ /\ Priority[e.id] = Priority[f.id]
                          /\ SubmitTime[e.id] <= SubmitTime[f.id] + Grid[e.id]
<1>1. ASSUME QueueInv, Calls PROVE Step
  <2>1. ASSUME NEW acked, NEW x \in queue \cup {Nil}, AckAndPop(acked, x) PROVE Step
    <3> SUFFICES ASSUME NEW e \in Members, NEW f \in Members,
                        e \notin Members', f \in Members'
                 PROVE  \/ Priority[e.id] > Priority[f.id]
                        \/ /\ Priority[e.id] = Priority[f.id]
                           /\ SubmitTime[e.id] <= SubmitTime[f.id] + Grid[e.id]
      OBVIOUS
    <3>1. PICK y \in queue : y.member = e
      BY DEF Members
    <3>2. PICK z \in queue : z.member = f
      BY DEF Members
    <3>3. queue # {} /\ y = x /\ x \in Highest
      BY <2>1, <3>1 DEF AckAndPop, Members
    <3>4. z.score <= y.score
      BY <3>2, <3>3 DEF Highest
    <3>5. /\ y.score = Score[e.id] /\ z.score = Score[f.id]
          /\ e.id \in Jobs /\ f.id \in Jobs
      BY <1>1, <3>1, <3>2 DEF QueueInv, QueueTypeOK, KeepsItsPlace, Entry
    <3> QED
      BY <3>4, <3>5, ScoresOrder
  <2>2. ASSUME Members \subseteq Members' PROVE Step
    BY <2>2
  <2>3. ASSUME NEW m, Push(m) \/ Requeue(m) PROVE Members \subseteq Members'
    BY <2>3, AddingKeepsMembers, SameMembers DEF Push, Requeue, queueVars
  <2>4. ASSUME NEW S, Reap(S) PROVE Members \subseteq Members'
    BY <2>4, AddingKeepsMembers DEF Reap
  <2>5. ASSUME UNCHANGED queue PROVE Members \subseteq Members'
    BY <2>5, SameMembers
  <2>6. ASSUME Clear PROVE Step
    BY <2>6 DEF Clear, Members
  <2> HIDE DEF Step
  <2> QED
    BY <1>1, <2>1, <2>2, <2>3, <2>4, <2>5, <2>6 DEF Calls, Renew, Tick
<1>2. ClientInv /\ [QueueNext]_clientVars => [Step]_queueVars
  BY <1>1, ClientCalls DEF ClientInv
<1> QED
  BY <1>2, ClientInvInit, ClientInvStep, PTL DEF QueueSpec, PopsInOrder
=============================================================================
