-------------------------- MODULE PriorityQueueProofs --------------------------
(***************************************************************************)
(* Lemmas about PriorityQueue, for whoever calls it: every script, called  *)
(* with any argument, keeps the lease keys together and every entry at its *)
(* score, and what each of them does to the jobs that are owed.            *)
(***************************************************************************)
EXTENDS PriorityQueue, TLAPS

(* The inductive invariant.  Neither half stands alone: Reap puts back     *)
(* savedScore[j], which is Score[j] only because a lapsed lease has one.   *)
QueueInv == QueueTypeOK /\ LeaseKeysAgree /\ KeepsItsPlace

(* Nil is told apart from scores, entries and members of the queue. *)
LEMMA NilIsNothing ==
  /\ Nil \notin Int
  /\ Nil \notin Entry
  /\ \A e \in Entry, s \in Int : Scored(e, s) # Nil
BY QueueAssumption DEF QueueAssumption, Scored

(* An empty Redis satisfies the invariant. *)
LEMMA InitKeepsInv == QueueInit => QueueInv
BY DEF QueueInit, QueueInv, QueueTypeOK, LeaseKeysAgree, KeepsItsPlace, Leased

(* Adding entries at the scores of their jobs. *)
LEMMA AddingKeepsInv ==
  ASSUME QueueInv,
         NEW added \in SUBSET [member : Entry, score : Int],
         \A x \in added : x.score = Score[x.member.id],
         queue' = WithMembers(added)
  PROVE  /\ queue' \subseteq [member : Entry, score : Int]
         /\ \A x \in queue' : x.score = Score[x.member.id]
BY DEF QueueInv, QueueTypeOK, KeepsItsPlace, WithMembers

(* Dropping leases, whichever they are. *)
LEMMA ForgettingKeepsInv ==
  ASSUME QueueInv, NEW ids, Forget(ids)
  PROVE  /\ processing' \in [Jobs -> (0..LeaseTicks) \cup {Nil}]
         /\ payload' \in [Jobs -> Entry \cup {Nil}]
         /\ savedScore' \in [Jobs -> Int \cup {Nil}]
         /\ LeaseKeysAgree'
         /\ \A j \in Leased' : savedScore'[j] = Score[j]
BY DEF QueueInv, QueueTypeOK, LeaseKeysAgree, KeepsItsPlace, Forget, Drop, Leased

(* An entry at the score of its job is a member the queue may hold. *)
LEMMA ScoredType ==
  ASSUME NEW m \in Entry
  PROVE  /\ {Scored(m, Score[m.id])} \in SUBSET [member : Entry, score : Int]
         /\ \A x \in {Scored(m, Score[m.id])} : x.score = Score[x.member.id]
BY QueueAssumption DEF QueueAssumption, Scored, Entry

(* push() puts an entry at the score of its job. *)
LEMMA PushKeepsInv ==
  ASSUME QueueInv, NEW m \in Entry, Push(m)
  PROVE  QueueInv'
<1>1. queue' = WithMembers({Scored(m, Score[m.id])})
  BY DEF Push
<1>2. /\ queue' \subseteq [member : Entry, score : Int]
      /\ \A x \in queue' : x.score = Score[x.member.id]
  BY <1>1, ScoredType, AddingKeepsInv
<1> QED
  BY <1>2 DEF Push, leaseKeys, QueueInv, QueueTypeOK, LeaseKeysAgree, KeepsItsPlace, Leased

(* _ACK_AND_POP writes all three keys of the lease it makes. *)
LEMMA AckAndPopKeepsInv ==
  ASSUME QueueInv, NEW acked, NEW x \in queue \cup {Nil}, AckAndPop(acked, x)
  PROVE  QueueInv'
<1>1. /\ LeasedBy(x) \subseteq Jobs
      /\ LeasedBy(x) # {} => /\ x \in queue
                             /\ LeasedBy(x) = {x.member.id}
                             /\ x.member \in Entry
                             /\ x.score = Score[x.member.id]
                             /\ x.score \in Int
  BY DEF LeasedBy, QueueInv, QueueTypeOK, KeepsItsPlace, Entry
<1>2. \A j \in LeasedBy(x) : /\ x.member \in Entry
                             /\ x.member.id = j
                             /\ x.score \in Int
                             /\ x.score = Score[j]
  BY <1>1
<1>3. QueueTypeOK'
  <2>1. queue' \subseteq [member : Entry, score : Int]
    BY DEF AckAndPop, QueueInv, QueueTypeOK
  <2>2. processing' \in [Jobs -> (0..LeaseTicks) \cup {Nil}]
    BY QueueAssumption DEF QueueAssumption, AckAndPop, QueueInv, QueueTypeOK, Drop
  <2>3. payload' \in [Jobs -> Entry \cup {Nil}]
    BY <1>2 DEF AckAndPop, QueueInv, QueueTypeOK, Drop
  <2>4. savedScore' \in [Jobs -> Int \cup {Nil}]
    BY <1>2 DEF AckAndPop, QueueInv, QueueTypeOK, Drop
  <2> QED
    BY <2>1, <2>2, <2>3, <2>4 DEF QueueTypeOK
<1>4. LeaseKeysAgree'
  BY <1>2, NilIsNothing, QueueAssumption
  DEF QueueAssumption, AckAndPop, QueueInv, LeaseKeysAgree, Drop
<1>5. KeepsItsPlace'
  BY <1>2 DEF AckAndPop, QueueInv, KeepsItsPlace, Drop, Leased
<1> QED
  BY <1>3, <1>4, <1>5 DEF QueueInv

(* _ACK clears all three keys of a lease. *)
LEMMA AckKeepsInv ==
  ASSUME QueueInv, NEW ids, Forget(ids), UNCHANGED queue
  PROVE  QueueInv'
BY ForgettingKeepsInv DEF QueueInv, QueueTypeOK, KeepsItsPlace

(* _REQUEUE releases the lease and adds the entry at its score. *)
LEMMA RequeueKeepsInv ==
  ASSUME QueueInv, NEW m \in Entry, Requeue(m)
  PROVE  QueueInv'
<1>1. CASE m.id \in Leased
  <2>1. Forget({m.id}) /\ queue' = WithMembers({Scored(m, Score[m.id])})
    BY <1>1 DEF Requeue
  <2>2. /\ queue' \subseteq [member : Entry, score : Int]
        /\ \A x \in queue' : x.score = Score[x.member.id]
    BY <2>1, ScoredType, AddingKeepsInv
  <2> QED
    BY <2>1, <2>2, ForgettingKeepsInv DEF QueueInv, QueueTypeOK, KeepsItsPlace
<1>2. CASE m.id \notin Leased
  BY <1>2 DEF Requeue, queueVars, leaseKeys, QueueInv, QueueTypeOK, LeaseKeysAgree,
              KeepsItsPlace, Leased
<1> QED
  BY <1>1, <1>2

(* _RENEW rewrites deadlines of leases that exist. *)
LEMMA RenewKeepsInv ==
  ASSUME QueueInv, NEW ids, Renew(ids)
  PROVE  QueueInv'
BY QueueAssumption
DEF QueueAssumption, Renew, QueueInv, QueueTypeOK, LeaseKeysAgree, KeepsItsPlace, Leased

(* _REAP finds payload and score with every lease it takes back. *)
LEMMA ReapKeepsInv ==
  ASSUME QueueInv, NEW S \in Batches, Reap(S)
  PROVE  QueueInv'
<1> DEFINE added == {Scored(payload[j], IF savedScore[j] = Nil THEN 0 ELSE savedScore[j]) :
                       j \in {i \in S : payload[i] # Nil}}
<1>1. S \subseteq Leased /\ Leased \subseteq Jobs
  BY NilIsNothing DEF Batches, Lapsed, Leased
<1>2. \A j \in S : /\ payload[j] \in Entry
                   /\ payload[j].id = j
                   /\ savedScore[j] = Score[j]
                   /\ savedScore[j] \in Int
                   /\ savedScore[j] # Nil
  BY <1>1, NilIsNothing
  DEF QueueInv, QueueTypeOK, LeaseKeysAgree, KeepsItsPlace, Leased
<1>3. /\ added \in SUBSET [member : Entry, score : Int]
      /\ \A x \in added : x.score = Score[x.member.id]
  BY <1>2 DEF Scored
<1>4. queue' = WithMembers(added)
  BY DEF Reap
<1>5. /\ queue' \subseteq [member : Entry, score : Int]
      /\ \A x \in queue' : x.score = Score[x.member.id]
  <2> HIDE DEF added
  <2> QED BY <1>3, <1>4, AddingKeepsInv
<1>6. Forget(S)
  BY DEF Reap
<1> QED
  BY <1>5, <1>6, ForgettingKeepsInv DEF QueueInv, QueueTypeOK, KeepsItsPlace

(* clear() deletes the four keys. *)
LEMMA ClearKeepsInv == ASSUME QueueInv, Clear PROVE QueueInv'
BY ForgettingKeepsInv DEF Clear, QueueInv, QueueTypeOK, KeepsItsPlace

(* The passing of time makes no lease appear or disappear. *)
LEMMA TickKeepsInv == ASSUME QueueInv, Tick PROVE QueueInv'
BY NilIsNothing, QueueAssumption
DEF QueueAssumption, Tick, QueueInv, QueueTypeOK, LeaseKeysAgree, KeepsItsPlace, Leased, Lapsed

-----------------------------------------------------------------------------
(* A call of one of the scripts, by whomever, with any entry: what is      *)
(* shown of Calls holds of the general client and of the whole system.     *)
AtMostOneOf(ids) == \A i, j \in ids : i = j

Calls ==
  \/ \E m \in Entry : Push(m) \/ Requeue(m)
  \/ \E acked \in SUBSET Jobs :
       /\ AtMostOneOf(acked)
       /\ \/ \E x \in queue \cup {Nil} : AckAndPop(acked, x)
          \/ Forget(acked) /\ UNCHANGED queue
  \/ \E ids \in SUBSET Jobs : Renew(ids)
  \/ \E S \in Batches : Reap(S)
  \/ Clear
  \/ Tick

(* No call breaks the invariant. *)
LEMMA CallsKeepInv == QueueInv /\ [Calls]_queueVars => QueueInv'
<1> SUFFICES ASSUME QueueInv, [Calls]_queueVars PROVE QueueInv'
  OBVIOUS
<1>1. CASE UNCHANGED queueVars
  BY <1>1 DEF queueVars, leaseKeys, QueueInv, QueueTypeOK, LeaseKeysAgree,
              KeepsItsPlace, Leased
<1>2. CASE Calls
  BY <1>2, PushKeepsInv, RequeueKeepsInv, AckAndPopKeepsInv, AckKeepsInv, RenewKeepsInv,
     ReapKeepsInv, ClearKeepsInv, TickKeepsInv DEF Calls
<1> QED
  BY <1>1, <1>2

(* Leases are made by pops only. *)
LEMMA LeasedAfterPop ==
  ASSUME QueueInv, NEW acked, NEW x \in queue \cup {Nil}, AckAndPop(acked, x)
  PROVE  Leased' = (Leased \ acked) \cup LeasedBy(x)
<1>1. LeasedBy(x) \subseteq Jobs
  BY DEF LeasedBy, QueueInv, QueueTypeOK, Entry
<1>2. LeaseTicks # Nil
  BY NilIsNothing, QueueAssumption DEF QueueAssumption
<1> QED
  BY <1>1, <1>2 DEF AckAndPop, Leased, Drop

(* Clearing leases removes exactly the jobs named. *)
LEMMA LeasedAfterForget == ASSUME NEW ids, Forget(ids) PROVE Leased' = Leased \ ids
BY DEF Forget, Drop, Leased

(* Renewing changes nothing about who is leased. *)
LEMMA LeasedAfterRenew == ASSUME NEW ids, Renew(ids) PROVE Leased' = Leased
BY NilIsNothing, QueueAssumption DEF QueueAssumption, Renew, Leased

(* Nor does time: a lapsed lease is still a lease. *)
LEMMA LeasedAfterTick == ASSUME QueueInv, Tick PROVE Leased' = Leased
BY NilIsNothing DEF Tick, Leased, Lapsed, QueueInv, QueueTypeOK

(* No call but a pop makes a lease appear. *)
LEMMA LeasedByPopping ==
  ASSUME QueueInv, Calls, NEW j \in Jobs, j \notin Leased, j \in Leased'
  PROVE  \E x \in queue : x.member.id = j /\ x \notin queue'
<1>1. ASSUME NEW acked, NEW x \in queue \cup {Nil}, AckAndPop(acked, x)
      PROVE  \E y \in queue : y.member.id = j /\ y \notin queue'
  <2>1. j \in LeasedBy(x)
    BY <1>1, LeasedAfterPop
  <2> QED
    BY <1>1, <2>1 DEF LeasedBy, AckAndPop
<1>2. ASSUME NEW m, Push(m) PROVE FALSE
  BY <1>2 DEF Push, leaseKeys, Leased
<1>3. ASSUME NEW ids, Forget(ids) PROVE FALSE
  BY <1>3, LeasedAfterForget
<1>4. ASSUME NEW m, Requeue(m) PROVE FALSE
  BY <1>3, <1>4 DEF Requeue, queueVars, leaseKeys, Leased
<1>5. ASSUME (\E ids : Renew(ids)) \/ Tick PROVE FALSE
  BY <1>5, LeasedAfterRenew, LeasedAfterTick
<1> QED
  BY <1>1, <1>2, <1>3, <1>4, <1>5 DEF Calls, Reap, Clear

-----------------------------------------------------------------------------
(* What the calls do to the jobs that are owed and in hand.  Entries       *)
(* without an id leave the queue without a lease.                          *)

OpaqueNeverLeased == Leased \cap Opaque = {}

(* An entry without an id is never leased. *)
LEMMA OpaqueStepKept ==
  QueueInv /\ OpaqueNeverLeased /\ [Calls]_queueVars => OpaqueNeverLeased'
<1> SUFFICES ASSUME QueueInv, OpaqueNeverLeased, [Calls]_queueVars
             PROVE  OpaqueNeverLeased'
  OBVIOUS
<1>1. ASSUME NEW acked, NEW x \in queue \cup {Nil}, AckAndPop(acked, x)
      PROVE  OpaqueNeverLeased'
  BY <1>1, LeasedAfterPop DEF OpaqueNeverLeased, LeasedBy
<1>2. ASSUME NEW ids, Forget(ids) PROVE OpaqueNeverLeased'
  BY <1>2, LeasedAfterForget DEF OpaqueNeverLeased
<1>3. ASSUME Leased' = Leased PROVE OpaqueNeverLeased'
  BY <1>3 DEF OpaqueNeverLeased
<1>4. ASSUME NEW m, Push(m) \/ Requeue(m) PROVE OpaqueNeverLeased'
  BY <1>2, <1>3, <1>4 DEF Push, Requeue, queueVars, leaseKeys, Leased
<1>5. ASSUME UNCHANGED queueVars PROVE OpaqueNeverLeased'
  BY <1>3, <1>5 DEF queueVars, leaseKeys, Leased
<1> QED
  BY <1>1, <1>2, <1>3, <1>4, <1>5, LeasedAfterRenew, LeasedAfterTick
  DEF Calls, Reap, Clear

(* ZADD adds the ids of its members to those on the queue. *)
LEMMA IdsAfterAdding ==
  ASSUME NEW added, queue' = WithMembers(added)
  PROVE  QueuedIds' = QueuedIds \cup {a.member.id : a \in added}
BY DEF WithMembers, QueuedIds

(* The same for a single member. *)
LEMMA IdsAfterAddingOne ==
  ASSUME NEW m, NEW s, queue' = WithMembers({Scored(m, s)})
  PROVE  QueuedIds' = QueuedIds \cup {m.id}
<1>1. {a.member.id : a \in {Scored(m, s)}} = {m.id}
  BY DEF Scored
<1> QED
  BY <1>1, IdsAfterAdding

(* What a reap makes of the queue. *)
LEMMA IdsAfterReap ==
  ASSUME QueueInv, NEW S \in Batches, Reap(S)
  PROVE  QueuedIds' = QueuedIds \cup S /\ Leased' = Leased \ S
<1> DEFINE back == {Scored(payload[j], IF savedScore[j] = Nil THEN 0 ELSE savedScore[j]) :
                      j \in {i \in S : payload[i] # Nil}}
<1>1. queue' = WithMembers(back) /\ Leased' = Leased \ S
  BY LeasedAfterForget DEF Reap
<1>2. \A j \in S : payload[j] # Nil /\ payload[j].id = j
  BY NilIsNothing DEF Batches, Lapsed, QueueInv, QueueTypeOK, LeaseKeysAgree
<1>3. {a.member.id : a \in back} = S
  <2>1. \A a \in back : a.member.id \in S
    BY <1>2 DEF Scored
  <2>2. ASSUME NEW j \in S PROVE \E a \in back : a.member.id = j
    <3>1. Scored(payload[j], IF savedScore[j] = Nil THEN 0 ELSE savedScore[j]) \in back
      BY <1>2
    <3> QED
      BY <1>2, <3>1 DEF Scored
  <2> HIDE DEF back
  <2> QED
    BY <2>1, <2>2
<1> QED
  BY <1>1, <1>3, IdsAfterAdding

(* A pop hands out a job that is owed.  Of the jobs owed it takes away the *)
(* one it acknowledges at most, and that one only if it was leased.        *)
LEMMA PopEffect ==
  ASSUME QueueInv, OpaqueNeverLeased, OpaqueNeverLeased',
         NEW acked \in SUBSET Jobs, AtMostOneOf(acked),
         NEW x \in queue \cup {Nil}, AckAndPop(acked, x)
  PROVE  /\ LeasedBy(x) \subseteq Owing /\ LeasedBy(x) \subseteq Jobs
         /\ AtMostOneOf(LeasedBy(x))
         /\ Leased' = (Leased \ acked) \cup LeasedBy(x)
         /\ \/ Owing' = Owing
            \/ Owing' = Owing \ ((acked \cap Leased) \ LeasedBy(x))
<1> DEFINE settled == acked \cap Leased
           delivered == LeasedBy(x)
<1>1. Leased' = (Leased \ settled) \cup delivered
  BY LeasedAfterPop
<1>2. delivered \subseteq Owing /\ delivered \subseteq Jobs /\ AtMostOneOf(delivered)
  BY DEF LeasedBy, QueuedIds, Owing, AtMostOneOf, QueueInv, QueueTypeOK, Entry
<1>3. QueuedIds' \subseteq QueuedIds
  BY DEF AckAndPop, QueuedIds
<1>4. ASSUME NEW i \in QueuedIds \ QueuedIds' PROVE i \in delivered \cup Opaque
  <2>1. PICK y \in queue : y.member.id = i
    BY DEF QueuedIds
  <2>2. y = x /\ x # Nil
    BY <2>1, NilIsNothing DEF AckAndPop, QueuedIds, QueueInv, QueueTypeOK, Scored
  <2> QED
    BY <2>1, <2>2 DEF LeasedBy
<1>5. Owing' = (QueuedIds' \cup Leased') \ Opaque
  BY DEF Owing
<1>6. CASE settled \ delivered \subseteq QueuedIds'
  BY <1>1, <1>2, <1>3, <1>4, <1>5, <1>6 DEF Owing
<1>7. CASE ~(settled \ delivered \subseteq QueuedIds')
  <2>1. (settled \ delivered) \cap (QueuedIds' \cup Leased') = {}
    BY <1>1, <1>7 DEF AtMostOneOf
  <2> QED
    BY <1>1, <1>2, <1>3, <1>4, <1>5, <2>1 DEF Owing
<1> QED
  BY <1>1, <1>2, <1>6, <1>7

(* So does an acknowledgement on its own. *)
LEMMA AckEffect ==
  ASSUME OpaqueNeverLeased, NEW acked \in SUBSET Jobs, AtMostOneOf(acked),
         Forget(acked), UNCHANGED queue
  PROVE  /\ Leased' = Leased \ acked
         /\ Owing' = Owing \/ Owing' = Owing \ (acked \cap Leased)
<1>1. Leased' = Leased \ acked /\ QueuedIds' = QueuedIds
  BY LeasedAfterForget DEF QueuedIds
<1>2. CASE acked \cap Leased \subseteq QueuedIds
  BY <1>1, <1>2 DEF Owing
<1>3. CASE ~(acked \cap Leased \subseteq QueuedIds)
  <2>1. (acked \cap Leased) \cap QueuedIds = {}
    BY <1>3 DEF AtMostOneOf
  <2> QED
    BY <1>1, <2>1 DEF Owing
<1> QED
  BY <1>1, <1>2, <1>3

(* A push adds its job, unless the entry has no id. *)
LEMMA PushEffect ==
  ASSUME NEW m, Push(m)
  PROVE  Leased' = Leased /\ Owing' = Owing \cup ({m.id} \ Opaque)
<1>1. Leased' = Leased /\ QueuedIds' = QueuedIds \cup {m.id}
  BY IdsAfterAddingOne DEF Push, leaseKeys, Leased
<1> QED
  BY <1>1 DEF Owing

(* The calls that must lose nothing: leases may end, the jobs stay owed. *)
LosesNothing == \E S \in SUBSET Leased : Leased' = Leased \ S /\ Owing' = Owing

(* What is released and back on the queue is still owed. *)
LEMMA ReturnEffect ==
  ASSUME NEW S \in SUBSET Leased, Leased' = Leased \ S, QueuedIds' = QueuedIds \cup S
  PROVE  LosesNothing
BY DEF LosesNothing, Owing

(* Requeues, recoveries, renewals and time lose nothing. *)
LEMMA NothingLost ==
  ASSUME QueueInv,
         \/ \E m \in Entry : Requeue(m)
         \/ \E S \in Batches : Reap(S)
         \/ \E ids : Renew(ids)
         \/ Tick
         \/ UNCHANGED queueVars
  PROVE  LosesNothing
<1>1. ASSUME Leased' = Leased, UNCHANGED queue PROVE LosesNothing
  BY <1>1 DEF LosesNothing, Owing, QueuedIds
<1>2. ASSUME UNCHANGED queueVars PROVE LosesNothing
  BY <1>1, <1>2 DEF queueVars, leaseKeys, Leased
<1>3. ASSUME NEW m \in Entry, Requeue(m) PROVE LosesNothing
  <2>1. CASE m.id \in Leased
    <3>1. Leased' = Leased \ {m.id} /\ QueuedIds' = QueuedIds \cup {m.id}
      BY <1>3, <2>1, IdsAfterAddingOne, LeasedAfterForget DEF Requeue
    <3> QED
      BY <2>1, <3>1, ReturnEffect
  <2>2. CASE m.id \notin Leased
    BY <1>2, <1>3, <2>2 DEF Requeue
  <2> QED
    BY <2>1, <2>2
<1>4. ASSUME NEW S \in Batches, Reap(S) PROVE LosesNothing
  <2>1. S \in SUBSET Leased
    BY NilIsNothing DEF Batches, Lapsed, Leased
  <2> QED
    BY <1>4, <2>1, IdsAfterReap, ReturnEffect
<1>5. ASSUME NEW ids, Renew(ids) PROVE LosesNothing
  BY <1>1, <1>5, LeasedAfterRenew DEF Renew
<1>6. ASSUME Tick PROVE LosesNothing
  BY <1>1, <1>6, LeasedAfterTick DEF Tick
<1> QED
  BY <1>2, <1>3, <1>4, <1>5, <1>6

-----------------------------------------------------------------------------
(* A job that exists once: it is queued in one entry at most, and not      *)
(* leased at the same time.  Not so under any client, who may push it      *)
(* twice, but each of the other scripts keeps it that way.                 *)
Single(j) ==
  /\ j \in QueuedIds => j \notin Leased
  /\ \A x, y \in queue : x.member.id = j /\ y.member.id = j => x = y

(* A pop takes the one entry away and may lease its job. *)
LEMMA PopSingle ==
  ASSUME QueueInv, NEW acked, NEW x \in queue \cup {Nil}, AckAndPop(acked, x),
         NEW j \in Jobs, Single(j)
  PROVE  Single(j)'
<1>1. Leased' = (Leased \ acked) \cup LeasedBy(x) /\ queue' = queue \ {x}
  BY LeasedAfterPop DEF AckAndPop
<1>2. j \in QueuedIds' => j \in QueuedIds /\ j \notin LeasedBy(x)
  BY <1>1 DEF QueuedIds, LeasedBy, Single
<1> QED
  BY <1>1, <1>2 DEF Single

(* A push adds a copy, unless the job was in no key. *)
LEMMA PushSingle ==
  ASSUME NEW m, Push(m), NEW j \in Jobs, Single(j),
         m.id = j => j \notin QueuedIds \cup Leased
  PROVE  Single(j)'
<1>1. queue' = WithMembers({Scored(m, Score[m.id])}) /\ Leased' = Leased
  BY DEF Push, leaseKeys, Leased
<1>2. QueuedIds' = QueuedIds \cup {m.id}
  BY <1>1, IdsAfterAddingOne
<1> QED
  BY <1>1, <1>2 DEF Single, WithMembers, Scored, QueuedIds

(* Releasing leases. *)
LEMMA ForgetSingle ==
  ASSUME NEW ids, Forget(ids), UNCHANGED queue, NEW j \in Jobs, Single(j)
  PROVE  Single(j)'
BY LeasedAfterForget DEF Single, QueuedIds

(* A requeue and a reap put back what they have released. *)
LEMMA RequeueSingle ==
  ASSUME NEW m \in Entry, Requeue(m), NEW j \in Jobs, Single(j)
  PROVE  Single(j)'
<1>1. CASE m.id \in Leased
  <2>1. queue' = WithMembers({Scored(m, Score[m.id])}) /\ Leased' = Leased \ {m.id}
    BY <1>1, LeasedAfterForget DEF Requeue
  <2>2. QueuedIds' = QueuedIds \cup {m.id}
    BY <2>1, IdsAfterAddingOne
  <2> QED
    BY <1>1, <2>1, <2>2 DEF Single, WithMembers, Scored, QueuedIds
<1>2. CASE m.id \notin Leased
  BY <1>2 DEF Requeue, queueVars, leaseKeys, Single, QueuedIds, Leased
<1> QED
  BY <1>1, <1>2

(* It adds one entry of each job it takes back. *)
LEMMA ReapSingle ==
  ASSUME QueueInv, NEW S \in Batches, Reap(S), NEW j \in Jobs, Single(j)
  PROVE  Single(j)'
<1> DEFINE back == {Scored(payload[i], IF savedScore[i] = Nil THEN 0 ELSE savedScore[i]) :
                      i \in {i \in S : payload[i] # Nil}}
<1>1. queue' = WithMembers(back) /\ S \subseteq Leased
  BY NilIsNothing DEF Reap, Batches, Lapsed, Leased
<1>2. \A i \in S : payload[i] # Nil /\ payload[i].id = i
  BY NilIsNothing DEF Batches, Lapsed, QueueInv, QueueTypeOK, LeaseKeysAgree
<1>3. \A a, b \in back : a.member.id = b.member.id => a = b
  BY <1>2 DEF Scored
<1>4. \A a \in back : a.member.id \in S
  BY <1>2 DEF Scored
<1>5. QueuedIds' = QueuedIds \cup S /\ Leased' = Leased \ S
  BY IdsAfterReap
<1>6. ASSUME NEW x \in queue', NEW y \in queue', x.member.id = j, y.member.id = j
      PROVE  x = y
  <2>1. CASE j \in S
    <3>1. j \notin QueuedIds
      BY <1>1, <2>1 DEF Single
    <3> QED
      BY <1>1, <1>3, <1>6, <3>1 DEF WithMembers, QueuedIds
  <2>2. CASE j \notin S
    BY <1>1, <1>4, <1>6, <2>2 DEF WithMembers, Single
  <2> QED
    BY <2>1, <2>2
<1> QED
  BY <1>1, <1>5, <1>6 DEF Single

(* Renewals and time move nothing. *)
LEMMA SameSingle ==
  ASSUME UNCHANGED queue, Leased' = Leased, NEW j \in Jobs, Single(j)
  PROVE  Single(j)'
BY DEF Single, QueuedIds
=============================================================================
