-------------------------- MODULE ModelAdmissionProofs --------------------------
(***************************************************************************)
(* The two counters of an admission slot are exact and bounded, for any    *)
(* finite set of requests, any models and any limits.                      *)
(*                                                                         *)
(* Neither bound is inductive by itself: a request that is about to swap a *)
(* counter must have loaded a value below the limit, however stale it is   *)
(* by now.  LoadsBelowLimit says so; with it the successful exchange,      *)
(* which finds the counter at the loaded value, keeps the limit.           *)
(*                                                                         *)
(* That no wakeup is lost for good rests on two more facts.  Notify's list *)
(* holds exactly the waiters that sleep, each once.  And a request on its  *)
(* way to sleep, which saw every slot taken, finds either somebody who     *)
(* will notify or the permit that was left meanwhile.                      *)
(***************************************************************************)
EXTENDS ModelAdmission, FiniteSetTheorems, SequenceTheorems, TLAPS

Held == {"holding"}
InQueue == {"enqueue", "waiting", "woken", "expired", "gone"}

CountersTyped ==
    /\ active \in [Models -> Nat]
    /\ queued \in [Models -> Nat]
    /\ pc \in [Requests -> Places]
    /\ seen \in [Requests -> Nat]

LoadsBelowLimit ==
    \A r \in Requests :
        /\ pc[r] = "casActive" => seen[r] < Concurrency[ModelOf[r]]
        /\ pc[r] = "casQueued" => seen[r] < MaxQueueDepth(ModelOf[r])

CountersInv == CountersTyped /\ LoadsBelowLimit /\ SlotsBounded /\ QueuePlacesAccounted

-------------------------------------------------------------------------------
\* What moving one request does to the set of requests at some places.

\* The limit of a queue is a natural number.
LEMMA DepthNat == \A m \in Models : MaxQueueDepth(m) \in Nat
<1> SUFFICES ASSUME NEW m \in Models PROVE MaxQueueDepth(m) \in Nat
  OBVIOUS
<1>1. Concurrency[m] \in Nat /\ RATIO_NUM \in Nat /\ RATIO_DEN \in Nat \ {0}
  BY AdmissionAssumption
<1>2. Concurrency[m] * RATIO_NUM \in Nat
  BY <1>1
<1>3. (Concurrency[m] * RATIO_NUM) \div RATIO_DEN \in Int
  BY <1>1, <1>2
<1> DEFINE depth == (Concurrency[m] * RATIO_NUM) \div RATIO_DEN
<1> HIDE DEF depth
<1>4. (IF Concurrency[m] = 0 THEN 0 ELSE IF depth < 1 THEN 1 ELSE depth) \in Nat
  BY <1>3 DEF depth
<1> QED
  BY <1>4 DEF MaxQueueDepth, depth

\* The requests of a model at given places are finitely many.
LEMMA AtFinite == \A m \in Models : \A places : IsFiniteSet(At(m, places))
<1> SUFFICES ASSUME NEW m \in Models, NEW places PROVE IsFiniteSet(At(m, places))
  OBVIOUS
<1>1. At(m, places) \subseteq Requests
  BY DEF At
<1> QED
  BY <1>1, FS_Subset, AdmissionAssumption

\* A request that moves within the places, or outside them, changes no count.
LEMMA MoveSame ==
    ASSUME NEW places, NEW r \in Requests, NEW place, pc \in [Requests -> Places],
           pc' = [pc EXCEPT ![r] = place],
           pc[r] \in places <=> place \in places
    PROVE  \A m \in Models : At(m, places)' = At(m, places)
BY DEF At

\* A request that moves into the places adds one to the count of its model.
LEMMA MoveIn ==
    ASSUME NEW places, NEW r \in Requests, NEW place, pc \in [Requests -> Places],
           pc' = [pc EXCEPT ![r] = place],
           pc[r] \notin places, place \in places
    PROVE  \A m \in Models :
               Cardinality(At(m, places)') =
                   Cardinality(At(m, places)) + IF m = ModelOf[r] THEN 1 ELSE 0
<1> SUFFICES ASSUME NEW m \in Models
             PROVE  Cardinality(At(m, places)') =
                        Cardinality(At(m, places)) + IF m = ModelOf[r] THEN 1 ELSE 0
  OBVIOUS
<1>1. IsFiniteSet(At(m, places)) /\ Cardinality(At(m, places)) \in Nat
  BY AtFinite, FS_CardinalityType
<1>2. CASE m = ModelOf[r]
  <2>1. At(m, places)' = At(m, places) \cup {r}
    BY <1>2 DEF At
  <2>2. r \notin At(m, places)
    BY DEF At
  <2> QED
    BY <1>1, <1>2, <2>1, <2>2, FS_AddElement
<1>3. CASE m # ModelOf[r]
  <2>1. At(m, places)' = At(m, places)
    BY <1>3 DEF At
  <2> QED
    BY <1>1, <1>3, <2>1
<1> QED
  BY <1>2, <1>3

\* A request that moves out of the places takes one from the count of its model,
\* which was positive.
LEMMA MoveOut ==
    ASSUME NEW places, NEW r \in Requests, NEW place, pc \in [Requests -> Places],
           pc' = [pc EXCEPT ![r] = place],
           pc[r] \in places, place \notin places
    PROVE  /\ Cardinality(At(ModelOf[r], places)) \in Nat \ {0}
           /\ \A m \in Models :
                  Cardinality(At(m, places)') =
                      Cardinality(At(m, places)) - IF m = ModelOf[r] THEN 1 ELSE 0
<1>1. \A m \in Models : IsFiniteSet(At(m, places)) /\ Cardinality(At(m, places)) \in Nat
  BY AtFinite, FS_CardinalityType
<1>2. ModelOf[r] \in Models
  BY AdmissionAssumption
<1>3. r \in At(ModelOf[r], places)
  BY DEF At
<1>4. Cardinality(At(ModelOf[r], places)) # 0
  BY <1>1, <1>2, <1>3, FS_EmptySet
<1>5. ASSUME NEW m \in Models
      PROVE  Cardinality(At(m, places)') =
                 Cardinality(At(m, places)) - IF m = ModelOf[r] THEN 1 ELSE 0
  <2>1. CASE m = ModelOf[r]
    <3>1. At(m, places)' = At(m, places) \ {r}
      BY <2>1 DEF At
    <3> QED
      BY <1>1, <1>3, <2>1, <3>1, FS_RemoveElement
  <2>2. CASE m # ModelOf[r]
    <3>1. At(m, places)' = At(m, places)
      BY <2>2 DEF At
    <3> QED
      BY <1>1, <2>2, <3>1
  <2> QED
    BY <2>1, <2>2
<1> QED
  BY <1>1, <1>2, <1>4, <1>5

-------------------------------------------------------------------------------
\* The invariant holds at the start.
LEMMA CountersInit == Init => CountersInv
<1> SUFFICES ASSUME Init PROVE CountersInv
  OBVIOUS
<1>1. CountersTyped
  BY DEF Init, CountersTyped, Places
<1>2. LoadsBelowLimit
  BY DEF Init, LoadsBelowLimit
<1>3. \A m \in Models : At(m, {"holding"}) = {} /\ At(m, {"enqueue", "waiting", "woken", "expired", "gone"}) = {}
  BY DEF Init, At
<1>4. \A m \in Models : Concurrency[m] \in Nat
  BY AdmissionAssumption
<1>5. Cardinality({}) = 0
  BY FS_EmptySet
<1>6. SlotsBounded
  <2> SUFFICES ASSUME NEW m \in Models
               PROVE  active[m] = Cardinality(At(m, {"holding"})) /\ active[m] <= Concurrency[m]
    BY DEF SlotsBounded
  <2>1. active[m] = 0
    BY DEF Init
  <2>2. Cardinality(At(m, {"holding"})) = 0
    BY <1>3, <1>5
  <2>3. 0 <= Concurrency[m]
    BY <1>4
  <2> QED
    BY <2>1, <2>2, <2>3
<1>7. QueuePlacesAccounted
  <2> SUFFICES ASSUME NEW m \in Models
               PROVE  /\ queued[m] = Cardinality(At(m, {"enqueue", "waiting", "woken", "expired", "gone"}))
                      /\ queued[m] <= MaxQueueDepth(m)
    BY DEF QueuePlacesAccounted
  <2>1. queued[m] = 0
    BY DEF Init
  <2> QED
    BY <1>3, <1>5, <2>1, DepthNat
<1> QED
  BY <1>1, <1>2, <1>6, <1>7 DEF CountersInv

\* A step that moves one request between places that do not count, with the counters
\* left alone, keeps the invariant.
LEMMA CountersUntouched ==
    ASSUME CountersInv, NEW r \in Requests, NEW place \in Places,
           pc' = [pc EXCEPT ![r] = place],
           pc[r] \in Held <=> place \in Held, pc[r] \in InQueue <=> place \in InQueue,
           UNCHANGED <<active, queued>>, seen' \in [Requests -> Nat], LoadsBelowLimit'
    PROVE  CountersInv'
<1>1. CountersTyped'
  BY DEF CountersInv, CountersTyped
<1>2. \A m \in Models : At(m, Held)' = At(m, Held) /\ At(m, InQueue)' = At(m, InQueue)
  BY MoveSame DEF CountersInv, CountersTyped
<1>3. SlotsBounded' /\ QueuePlacesAccounted'
  BY <1>2 DEF CountersInv, SlotsBounded, QueuePlacesAccounted, Held, InQueue, MaxQueueDepth
<1> QED
  BY <1>1, <1>3 DEF CountersInv

\* Every step keeps the invariant.
LEMMA CountersNext == CountersInv /\ [Next]_vars => CountersInv'
<1> SUFFICES ASSUME CountersInv, [Next]_vars PROVE CountersInv'
  OBVIOUS
<1> USE DEF Goto
<1>1. CASE UNCHANGED vars
  BY <1>1 DEF vars, CountersInv, CountersTyped, LoadsBelowLimit, SlotsBounded, QueuePlacesAccounted,
              At, MaxQueueDepth
<1>2. ASSUME NEW r \in Requests, Arrive(r) \/ Step(r) \/ TimeOut(r) \/ Cancel(r)
      PROVE  CountersInv'
  <2> DEFINE m == ModelOf[r]
  <2>0. /\ m \in Models /\ Concurrency[m] \in Nat /\ MaxQueueDepth(m) \in Nat
        /\ active \in [Models -> Nat] /\ queued \in [Models -> Nat]
        /\ pc \in [Requests -> Places] /\ seen \in [Requests -> Nat]
    BY AdmissionAssumption, DepthNat DEF CountersInv, CountersTyped
  <2>d. \A k \in Models : MaxQueueDepth(k)' = MaxQueueDepth(k)
    BY DEF MaxQueueDepth
  <2>1. CASE Arrive(r)
    <3>1. LoadsBelowLimit'
      BY <2>0, <2>1, <2>d DEF Arrive, CountersInv, LoadsBelowLimit, notify, MaxQueueDepth
    <3> QED
      BY <2>0, <2>1, <3>1, CountersUntouched DEF Arrive, Held, InQueue, Places, Answered
  <2>2. CASE LoadActive(r)
    <3>1. LoadsBelowLimit'
      BY <2>0, <2>2, <2>d DEF LoadActive, CountersInv, LoadsBelowLimit, MaxQueueDepth
    <3> QED
      BY <2>0, <2>2, <3>1, CountersUntouched DEF LoadActive, Held, InQueue, Places, Answered
  <2>3. CASE LoadQueued(r)
    <3>1. LoadsBelowLimit'
      BY <2>0, <2>3, <2>d DEF LoadQueued, CountersInv, LoadsBelowLimit
    <3> QED
      BY <2>0, <2>3, <3>1, CountersUntouched DEF LoadQueued, Held, InQueue, Places, Answered
  <2>4. CASE CasFails(r)
    <3>1. LoadsBelowLimit'
      BY <2>0, <2>4, <2>d DEF CasFails, CountersInv, LoadsBelowLimit, MaxQueueDepth
    <3> QED
      BY <2>0, <2>4, <3>1, CountersUntouched DEF CasFails, Held, InQueue, Places, Answered
  <2>5. CASE Enqueue(r)
    <3>1. LoadsBelowLimit'
      BY <2>0, <2>5, <2>d DEF Enqueue, CountersInv, LoadsBelowLimit, MaxQueueDepth
    <3> QED
      BY <2>0, <2>5, <3>1, CountersUntouched DEF Enqueue, Held, InQueue, Places, Answered
  <2>6. CASE WakeUp(r) \/ TimeOut(r)
    <3>1. LoadsBelowLimit'
      BY <2>0, <2>6, <2>d DEF WakeUp, TimeOut, CountersInv, LoadsBelowLimit, MaxQueueDepth
    <3> QED
      BY <2>0, <2>6, <3>1, CountersUntouched DEF WakeUp, TimeOut, Held, InQueue, Places, Answered
  <2>7. CASE Cancel(r)
    <3>0. pc[r] = "waiting" /\ pc' = [pc EXCEPT ![r] = "gone"] /\ UNCHANGED <<active, queued, seen>>
      BY <2>7 DEF Cancel
    <3>1. LoadsBelowLimit'
      BY <2>0, <3>0, <2>d DEF CountersInv, LoadsBelowLimit, MaxQueueDepth
    <3> QED
      BY <2>0, <3>0, <3>1, CountersUntouched DEF Held, InQueue, Places, Answered
  <2>8. CASE NotifyReleased(r)
    <3>0. pc[r] = "notifying" /\ pc' = [pc EXCEPT ![r] = "released"] /\ UNCHANGED <<active, queued, seen>>
      BY <2>8 DEF NotifyReleased
    <3>1. LoadsBelowLimit'
      BY <2>0, <3>0, <2>d DEF CountersInv, LoadsBelowLimit, MaxQueueDepth
    <3> QED
      BY <2>0, <3>0, <3>1, CountersUntouched DEF Held, InQueue, Places, Answered
  <2>9. CASE TakeSlot(r)
    <3>0. /\ pc[r] = "casActive" /\ active[m] = seen[r]
          /\ active' = [active EXCEPT ![m] = seen[r] + 1]
          /\ pc' = [pc EXCEPT ![r] = "holding"] /\ UNCHANGED <<queued, seen>>
      BY <2>9 DEF TakeSlot
    <3>1. seen[r] < Concurrency[m]
      BY <3>0 DEF CountersInv, LoadsBelowLimit
    <3>2. CountersTyped' /\ LoadsBelowLimit'
      BY <2>0, <2>d, <3>0 DEF CountersInv, CountersTyped, LoadsBelowLimit, Places, Answered, MaxQueueDepth
    <3>3. \A k \in Models : Cardinality(At(k, Held)') = Cardinality(At(k, Held)) + IF k = m THEN 1 ELSE 0
      BY <2>0, <3>0, MoveIn DEF Held
    <3>4. \A k \in Models : At(k, InQueue)' = At(k, InQueue)
      BY <2>0, <3>0, MoveSame DEF InQueue
    <3>5. SlotsBounded'
      <4> SUFFICES ASSUME NEW k \in Models
                   PROVE  /\ active'[k] = Cardinality(At(k, Held)')
                          /\ active'[k] <= Concurrency[k]
        BY DEF SlotsBounded, Held
      <4>1. active[k] = Cardinality(At(k, Held)) /\ active[k] <= Concurrency[k]
        BY DEF CountersInv, SlotsBounded, Held
      <4> QED
        BY <2>0, <3>0, <3>1, <3>3, <4>1, AdmissionAssumption
    <3>6. QueuePlacesAccounted'
      BY <2>d, <3>0, <3>4 DEF CountersInv, QueuePlacesAccounted, InQueue
    <3> QED
      BY <3>2, <3>5, <3>6 DEF CountersInv
  <2>10. CASE TakeQueuePlace(r)
    <3>0. /\ pc[r] = "casQueued" /\ queued[m] = seen[r]
          /\ queued' = [queued EXCEPT ![m] = seen[r] + 1]
          /\ pc' = [pc EXCEPT ![r] = "enqueue"] /\ UNCHANGED <<active, seen>>
      BY <2>10 DEF TakeQueuePlace
    <3>1. seen[r] < MaxQueueDepth(m)
      BY <3>0 DEF CountersInv, LoadsBelowLimit
    <3>2. CountersTyped' /\ LoadsBelowLimit'
      BY <2>0, <2>d, <3>0 DEF CountersInv, CountersTyped, LoadsBelowLimit, Places, Answered, MaxQueueDepth
    <3>3. \A k \in Models : Cardinality(At(k, InQueue)') = Cardinality(At(k, InQueue)) + IF k = m THEN 1 ELSE 0
      BY <2>0, <3>0, MoveIn DEF InQueue
    <3>4. \A k \in Models : At(k, Held)' = At(k, Held)
      BY <2>0, <3>0, MoveSame DEF Held
    <3>5. QueuePlacesAccounted'
      <4> SUFFICES ASSUME NEW k \in Models
                   PROVE  /\ queued'[k] = Cardinality(At(k, InQueue)')
                          /\ queued'[k] <= MaxQueueDepth(k)
        BY <2>d DEF QueuePlacesAccounted, InQueue
      <4>1. queued[k] = Cardinality(At(k, InQueue)) /\ queued[k] <= MaxQueueDepth(k)
        BY DEF CountersInv, QueuePlacesAccounted, InQueue
      <4> QED
        BY <2>0, <3>0, <3>1, <3>3, <4>1, DepthNat
    <3>6. SlotsBounded'
      BY <3>0, <3>4 DEF CountersInv, SlotsBounded, Held
    <3> QED
      BY <3>2, <3>5, <3>6 DEF CountersInv
  <2>11. CASE LeaveQueue(r)
    <3> DEFINE next == IF pc[r] = "woken" THEN "load" ELSE "timeout"
    <3>0. /\ pc[r] \in {"woken", "expired"} /\ queued' = [queued EXCEPT ![m] = @ - 1]
          /\ pc' = [pc EXCEPT ![r] = next] /\ UNCHANGED <<active, seen>>
      BY <2>11 DEF LeaveQueue
    <3>1. next \in Places /\ next \notin Held /\ next \notin InQueue /\ pc[r] \notin Held /\ pc[r] \in InQueue
      BY <3>0 DEF Places, Answered, Held, InQueue
    <3>3. /\ Cardinality(At(m, InQueue)) \in Nat \ {0}
          /\ \A k \in Models : Cardinality(At(k, InQueue)') = Cardinality(At(k, InQueue)) - IF k = m THEN 1 ELSE 0
      BY <2>0, <3>0, <3>1, MoveOut
    <3>4. \A k \in Models : At(k, Held)' = At(k, Held)
      BY <2>0, <3>0, <3>1, MoveSame
    <3>5. \A k \in Models : queued[k] = Cardinality(At(k, InQueue)) /\ queued[k] <= MaxQueueDepth(k)
      BY DEF CountersInv, QueuePlacesAccounted, InQueue
    <3>2. CountersTyped'
      BY <2>0, <3>0, <3>1, <3>3, <3>5 DEF CountersTyped
    <3>7. LoadsBelowLimit'
      BY <2>0, <2>d, <3>0 DEF CountersInv, LoadsBelowLimit, MaxQueueDepth
    <3>8. QueuePlacesAccounted'
      <4> SUFFICES ASSUME NEW k \in Models
                   PROVE  /\ queued'[k] = Cardinality(At(k, InQueue)')
                          /\ queued'[k] <= MaxQueueDepth(k)
        BY <2>d DEF QueuePlacesAccounted, InQueue
      <4> QED
        BY <2>0, <3>0, <3>3, <3>5, DepthNat
    <3>6. SlotsBounded'
      BY <3>0, <3>4 DEF CountersInv, SlotsBounded, Held
    <3> QED
      BY <3>2, <3>7, <3>8, <3>6 DEF CountersInv
  <2>12. CASE Release(r)
    <3>0. /\ pc[r] = "holding" /\ active' = [active EXCEPT ![m] = @ - 1]
          /\ pc' = [pc EXCEPT ![r] = "notifying"] /\ UNCHANGED <<queued, seen>>
      BY <2>12 DEF Release
    <3>1. pc[r] \in Held /\ "notifying" \notin Held
      BY <3>0 DEF Held
    <3>3. /\ Cardinality(At(m, Held)) \in Nat \ {0}
          /\ \A k \in Models : Cardinality(At(k, Held)') = Cardinality(At(k, Held)) - IF k = m THEN 1 ELSE 0
      BY <2>0, <3>0, <3>1, MoveOut
    <3>4. \A k \in Models : At(k, InQueue)' = At(k, InQueue)
      BY <2>0, <3>0, MoveSame DEF InQueue
    <3>5. \A k \in Models : active[k] = Cardinality(At(k, Held)) /\ active[k] <= Concurrency[k]
      BY DEF CountersInv, SlotsBounded, Held
    <3>2. CountersTyped'
      BY <2>0, <3>0, <3>3, <3>5 DEF CountersTyped, Places, Answered
    <3>7. LoadsBelowLimit'
      BY <2>0, <2>d, <3>0 DEF CountersInv, LoadsBelowLimit, MaxQueueDepth
    <3>8. SlotsBounded'
      <4> SUFFICES ASSUME NEW k \in Models
                   PROVE  /\ active'[k] = Cardinality(At(k, Held)')
                          /\ active'[k] <= Concurrency[k]
        BY DEF SlotsBounded, Held
      <4> QED
        BY <2>0, <3>0, <3>3, <3>5, AdmissionAssumption
    <3>6. QueuePlacesAccounted'
      BY <2>d, <3>0, <3>4 DEF CountersInv, QueuePlacesAccounted, InQueue
    <3> QED
      BY <3>2, <3>7, <3>8, <3>6 DEF CountersInv
  <2> QED
    BY <1>2, <2>1, <2>2, <2>3, <2>4, <2>5, <2>6, <2>7, <2>8, <2>9, <2>10, <2>11, <2>12 DEF Step
<1> QED
  BY <1>1, <1>2 DEF Next

-------------------------------------------------------------------------------
\* No interleaving of stale loads, failed exchanges and releases lets more requests
\* through than the model's concurrency, and active is the number of guards alive.
THEOREM SlotsAreBounded == Spec => []SlotsBounded
<1>1. CountersInv => SlotsBounded
  BY DEF CountersInv
<1> QED
  BY CountersInit, CountersNext, <1>1, PTL DEF Spec

\* The queue counter is exact once the places of vanished clients are counted in, and
\* never exceeds its limit.
THEOREM QueuePlacesAreAccounted == Spec => []QueuePlacesAccounted
<1>1. CountersInv => QueuePlacesAccounted
  BY DEF CountersInv
<1> QED
  BY CountersInit, CountersNext, <1>1, PTL DEF Spec

-------------------------------------------------------------------------------
\* Wakeups.

WakerPlaces == {"holding", "notifying", "woken", "load", "casActive"}
HeadingPlaces == {"loadQueued", "casQueued", "enqueue"}

Sleepers(m) == At(m, {"waiting"}) \ notified
Wakers(m) == At(m, WakerPlaces) \cup (At(m, {"waiting"}) \cap notified)
Heading(m) == At(m, HeadingPlaces)

\* The queue holds the members of a set, each once.
Lists(queue, set) ==
    /\ queue \in Seq(Requests)
    /\ \A i \in 1..Len(queue) : queue[i] \in set
    /\ \A r \in set : \E i \in 1..Len(queue) : queue[i] = r
    /\ \A i, j \in 1..Len(queue) : queue[i] = queue[j] => i = j

NotifyTyped ==
    /\ pc \in [Requests -> Places]
    /\ permit \in [Models -> BOOLEAN]
    /\ waiters = [m \in Models |-> waiters[m]]
    /\ notified \in SUBSET Requests
    /\ \A r \in notified : pc[r] = "waiting"
    /\ \A r \in Requests : pc[r] \notin {"idle", "unlimited"} => Concurrency[ModelOf[r]] # 0

\* Nobody sleeps, or is about to, unless somebody will wake the sleepers.
Wakeable(m) ==
    /\ Lists(waiters[m], Sleepers(m))
    /\ permit[m] => waiters[m] = <<>>
    /\ Sleepers(m) \cup Heading(m) # {} => permit[m] \/ Wakers(m) # {}

WakeInv == NotifyTyped /\ \A m \in Models : Wakeable(m)

\* A list of sleepers is empty only if nobody sleeps.
LEMMA ListEmpty ==
    ASSUME NEW set, Lists(<<>>, set)
    PROVE  set = {}
  BY DEF Lists

LEMMA ListAppended ==
    ASSUME NEW set, NEW queue, Lists(queue, set), NEW x \in Requests, x \notin set
    PROVE  Lists(Append(queue, x), set \cup {x})
  <1>1. PICK n \in Nat : n = Len(queue)
    BY DEF Lists
  <1>2. queue \in Seq(Requests) /\ \A i \in 1..n : queue[i] \in set
    BY <1>1 DEF Lists
  <1>3. PICK t : t = Append(queue, x)
    OBVIOUS
  <1>4. /\ t \in Seq(Requests) /\ Len(t) = n + 1 /\ t[n + 1] = x
        /\ \A i \in 1..n : t[i] = queue[i] /\ queue[i] \in set
    BY <1>1, <1>2, <1>3, AppendProperties
  <1>5. \A r \in set \cup {x} : \E i \in 1..(n + 1) : t[i] = r
    BY <1>1, <1>4 DEF Lists
  <1>6. ASSUME NEW i \in 1..(n + 1), NEW j \in 1..(n + 1), t[i] = t[j] PROVE i = j
    <2>1. CASE i \in 1..n /\ j \in 1..n
      BY <1>1, <1>4, <1>6, <2>1 DEF Lists
    <2>2. CASE i = n + 1 /\ j \in 1..n
      BY <1>4, <1>6, <2>2
    <2>3. CASE j = n + 1 /\ i \in 1..n
      BY <1>4, <1>6, <2>3
    <2> QED
      BY <2>1, <2>2, <2>3
  <1> QED
    BY <1>3, <1>4, <1>5, <1>6 DEF Lists

\* Taking an element out, from wherever it stands.
LEMMA ListWithout ==
    ASSUME NEW set, NEW queue, Lists(queue, set), NEW k \in 1..Len(queue), NEW t,
           t = RemoveAt(queue, k)
    PROVE  Lists(t, set \ {queue[k]})
  <1>1. PICK n \in Nat : n = Len(queue)
    BY DEF Lists
  <1>2. queue \in Seq(Requests) /\ k \in 1..n /\ \A i \in 1..n : queue[i] \in set
    BY <1>1 DEF Lists
  <1>3. PICK a, b : a = SubSeq(queue, 1, k - 1) /\ b = SubSeq(queue, k + 1, n)
    OBVIOUS
  <1>4. /\ a \in Seq(Requests) /\ Len(a) = k - 1
        /\ \A j \in 1..(k - 1) : a[j] = queue[j]
    BY <1>1, <1>2, <1>3
  <1>5. /\ b \in Seq(Requests) /\ Len(b) = n - k
        /\ \A j \in 1..(n - k) : b[j] = queue[k + j]
    BY <1>1, <1>2, <1>3
  <1>6. t = a \o b
    BY <1>1, <1>3 DEF RemoveAt
  <1>7. /\ t \in Seq(Requests) /\ Len(t) = n - 1
        /\ \A j \in 1..(n - 1) : t[j] = IF j <= k - 1 THEN a[j] ELSE b[j - (k - 1)]
    <2>1. /\ a \o b \in Seq(Requests) /\ Len(a \o b) = Len(a) + Len(b)
          /\ \A j \in 1..(Len(a) + Len(b)) :
                 (a \o b)[j] = IF j <= Len(a) THEN a[j] ELSE b[j - Len(a)]
      <3>1. a \in Seq(Requests) /\ b \in Seq(Requests)
        BY <1>4, <1>5
      <3> QED
        BY <3>1, ConcatProperties, Zenon
    <2>2. (k - 1) + (n - k) = n - 1
      BY <1>2
    <2> QED
      BY <1>4, <1>5, <1>6, <2>1, <2>2
  <1>8. ASSUME NEW j \in 1..(n - 1) PROVE t[j] = queue[IF j < k THEN j ELSE j + 1]
    <2>1. CASE j < k
      <3>1. j <= k - 1 /\ j \in 1..(k - 1)
        BY <1>2, <2>1
      <3> QED
        BY <1>4, <1>7, <2>1, <3>1
    <2>2. CASE ~(j < k)
      <3>1. /\ ~(j <= k - 1) /\ j - (k - 1) \in 1..(n - k) /\ k + (j - (k - 1)) = j + 1
        BY <1>2, <2>2
      <3> QED
        BY <1>5, <1>7, <2>2, <3>1
    <2> QED
      BY <2>1, <2>2
  <1>9. ASSUME NEW j \in 1..(n - 1)
        PROVE  (IF j < k THEN j ELSE j + 1) \in (1..n) \ {k}
    BY <1>2
  <1>10. \A i, j \in 1..n : queue[i] = queue[j] => i = j
    BY <1>1 DEF Lists
  <1>11. \A j \in 1..(n - 1) : t[j] \in set \ {queue[k]}
    <2> SUFFICES ASSUME NEW j \in 1..(n - 1) PROVE t[j] \in set \ {queue[k]}
      OBVIOUS
    <2>1. PICK i \in (1..n) \ {k} : t[j] = queue[i]
      BY <1>8, <1>9
    <2> QED
      BY <1>2, <1>10, <2>1
  <1>12. ASSUME NEW r \in set \ {queue[k]} PROVE \E j \in 1..(n - 1) : t[j] = r
    <2>1. PICK i \in 1..n : queue[i] = r
      BY <1>1 DEF Lists
    <2>2. i # k
      BY <2>1
    <2>3. CASE i < k
      BY <1>2, <1>8, <2>1, <2>3
    <2>4. CASE i > k
      <3>1. i - 1 \in 1..(n - 1) /\ ~(i - 1 < k) /\ (i - 1) + 1 = i
        BY <1>2, <2>4
      <3> QED
        BY <1>8, <2>1, <3>1
    <2> QED
      BY <1>2, <2>2, <2>3, <2>4
  <1>13. ASSUME NEW i \in 1..(n - 1), NEW j \in 1..(n - 1), t[i] = t[j] PROVE i = j
    <2>1. (IF i < k THEN i ELSE i + 1) = (IF j < k THEN j ELSE j + 1)
      BY <1>8, <1>9, <1>10, <1>13
    <2> QED
      BY <1>2, <2>1
  <1> QED
    BY <1>7, <1>11, <1>12, <1>13 DEF Lists

\* A future takes its own node out.
LEMMA ListUnlinked ==
    ASSUME NEW set, NEW queue, Lists(queue, set), NEW x \in set
    PROVE  Lists(Unlinked(queue, x), set \ {x})
  <1>1. DOMAIN queue = 1..Len(queue) /\ \E i \in DOMAIN queue : queue[i] = x
    BY LenProperties DEF Lists
  <1>2. PICK k : k = CHOOSE i \in DOMAIN queue : queue[i] = x
    OBVIOUS
  <1>3. k \in 1..Len(queue) /\ queue[k] = x
    BY <1>1, <1>2
  <1>4. Unlinked(queue, x) = RemoveAt(queue, k)
    BY <1>2 DEF Unlinked
  <1> QED
    BY <1>3, <1>4, ListWithout

\* notify_one takes the oldest waiter off the list.
LEMMA ListTail ==
    ASSUME NEW set, NEW queue, Lists(queue, set), queue # <<>>
    PROVE  Head(queue) \in set /\ Lists(Tail(queue), set \ {Head(queue)})
  <1>1. queue \in Seq(Requests) /\ Len(queue) \in Nat \ {0}
    BY EmptySeq DEF Lists
  <1>2. Head(queue) = queue[1] /\ 1 \in 1..Len(queue) /\ Head(queue) \in set
    BY <1>1 DEF Lists
  <1>3. SubSeq(queue, 1, 1 - 1) = <<>> /\ SubSeq(queue, 1 + 1, Len(queue)) = Tail(queue)
    BY <1>1
  <1>4. Tail(queue) \in Seq(Requests)
    BY <1>1
  <1>5. RemoveAt(queue, 1) = Tail(queue)
    BY <1>3, <1>4, ConcatEmptySeq DEF RemoveAt
  <1> QED
    BY <1>2, <1>5, ListWithout

LEMMA WakeInit == Init => WakeInv
  <1> SUFFICES ASSUME Init PROVE WakeInv
    OBVIOUS
  <1>1. NotifyTyped
    BY DEF Init, NotifyTyped, Places
  <1>2. \A m \in Models : Sleepers(m) = {} /\ Heading(m) = {} /\ waiters[m] = <<>> /\ ~permit[m]
    BY DEF Init, Sleepers, Heading, At, HeadingPlaces
  <1>3. Lists(<<>>, {})
    BY DEF Lists
  <1> QED
    BY <1>1, <1>2, <1>3 DEF WakeInv, Wakeable

\* Who sleeps, wakes and is on the way to sleep, when one request moves.
LEMMA MoveSets ==
    ASSUME NotifyTyped, NEW r \in Requests, NEW place \in Places, pc' = [pc EXCEPT ![r] = place],
           NEW k
    PROVE  /\ \A x \in Requests \ {r} : pc'[x] = pc[x]
           /\ pc'[r] = place
           /\ \A x \in Requests \ {r} : \A places : x \in At(k, places)' <=> x \in At(k, places)
           /\ \A places : r \in At(k, places)' <=> k = ModelOf[r] /\ place \in places
           /\ \A places : r \in At(k, places) <=> k = ModelOf[r] /\ pc[r] \in places
  BY DEF NotifyTyped, At

LEMMA MoveSleepers ==
    ASSUME NotifyTyped, NEW r \in Requests, NEW place \in Places, pc' = [pc EXCEPT ![r] = place],
           NEW k
    PROVE  /\ Sleepers(k) \subseteq Requests /\ Sleepers(k)' \subseteq Requests
           /\ \A x \in Requests :
                  x \in Sleepers(k) <=> ModelOf[x] = k /\ pc[x] = "waiting" /\ x \notin notified
           /\ \A x \in Requests \ {r} :
                  x \in Sleepers(k)' <=> ModelOf[x] = k /\ pc[x] = "waiting" /\ x \notin notified'
           /\ r \in Sleepers(k)' <=> ModelOf[r] = k /\ place = "waiting" /\ r \notin notified'
  <1>1. pc'[r] = place /\ \A x \in Requests \ {r} : pc'[x] = pc[x]
    BY DEF NotifyTyped
  <1> QED
    BY <1>1 DEF Sleepers, At

\* A request that neither sleeps nor will sleep moves, and Notify is left alone: the
\* sleepers keep their waker if it becomes one, if it was none and is not newly on its
\* way to sleep, or if somebody else holds a slot.
LEMMA QuietMove ==
    ASSUME WakeInv, NEW r \in Requests, NEW place \in Places, pc' = [pc EXCEPT ![r] = place],
           UNCHANGED <<permit, waiters, notified>>,
           pc[r] # "waiting", place # "waiting",
           place \notin {"idle", "unlimited"} => Concurrency[ModelOf[r]] # 0,
           \/ place \in WakerPlaces
           \/ pc[r] \notin WakerPlaces /\ (place \in HeadingPlaces => pc[r] \in HeadingPlaces)
           \/ \E h \in At(ModelOf[r], {"holding"}) : h # r
    PROVE  WakeInv'
  <1>1. NotifyTyped
    BY DEF WakeInv
  <1>2. NotifyTyped'
    BY <1>1 DEF NotifyTyped
  <1>3. ASSUME NEW k \in Models PROVE Wakeable(k)'
    <2>1. Wakeable(k)
      BY DEF WakeInv
    <2>2. /\ \A x \in Requests \ {r} : \A places : x \in At(k, places)' <=> x \in At(k, places)
          /\ \A places : r \in At(k, places)' <=> k = ModelOf[r] /\ place \in places
          /\ \A places : r \in At(k, places) <=> k = ModelOf[r] /\ pc[r] \in places
      BY <1>1, MoveSets
    <2>3. \A places : At(k, places) \subseteq Requests /\ At(k, places)' \subseteq Requests
      BY DEF At
    <2>4. At(k, {"waiting"})' = At(k, {"waiting"})
      BY <2>2, <2>3
    <2>5. Sleepers(k)' = Sleepers(k)
      BY <2>4 DEF Sleepers
    <2>6. \A x \in Wakers(k) \ {r} : x \in Wakers(k)'
      BY <2>2, <2>3, <2>4 DEF Wakers
    <2>7. \A x \in Heading(k)' \ {r} : x \in Heading(k)
      BY <2>2, <2>3 DEF Heading
    <2>8. ASSUME Sleepers(k)' \cup Heading(k)' # {}, ~permit'[k] PROVE Wakers(k)' # {}
      <3>1. CASE k = ModelOf[r] /\ place \in WakerPlaces
        BY <2>2, <3>1 DEF Wakers
      <3>2. CASE k = ModelOf[r] /\ \E h \in At(ModelOf[r], {"holding"}) : h # r
        <4>1. PICK h \in At(k, {"holding"}) : h # r
          BY <3>2
        <4>2. h \in At(k, WakerPlaces)
          BY <4>1 DEF At, WakerPlaces
        <4> QED
          BY <2>6, <4>1, <4>2 DEF Wakers
      <3>3. CASE k # ModelOf[r] \/ (pc[r] \notin WakerPlaces /\ (place \in HeadingPlaces => pc[r] \in HeadingPlaces))
        <4>1. r \notin Wakers(k)
          BY <2>2, <3>3 DEF Wakers
        <4>2. r \in Heading(k)' => r \in Heading(k)
          BY <2>2, <3>3 DEF Heading
        <4>3. Sleepers(k) \cup Heading(k) # {}
          BY <2>5, <2>7, <2>8, <4>2
        <4>4. Wakers(k) # {}
          BY <2>1, <2>8, <4>3 DEF Wakeable
        <4> QED
          BY <2>6, <4>1, <4>4
      <3> QED
        BY <3>1, <3>2, <3>3
    <2> QED
      BY <2>1, <2>5, <2>8 DEF Wakeable
  <1> QED
    BY <1>2, <1>3 DEF WakeInv

\* What the other models' requests do is no concern of this one's sleepers.
LEMMA OtherModel ==
    ASSUME WakeInv, NEW r \in Requests, NEW place \in Places, pc' = [pc EXCEPT ![r] = place],
           NEW k \in Models, k # ModelOf[r],
           permit'[k] = permit[k], waiters'[k] = waiters[k],
           \A x \in Requests : ModelOf[x] = k => (x \in notified' <=> x \in notified)
    PROVE  Wakeable(k)'
  <1>1. NotifyTyped /\ Wakeable(k)
    BY DEF WakeInv
  <1>2. \A places : At(k, places)' = At(k, places)
    <2>1. \A x \in Requests : ModelOf[x] = k => pc'[x] = pc[x]
      BY <1>1 DEF NotifyTyped
    <2>2. ASSUME NEW places PROVE At(k, places)' = At(k, places)
      BY <2>1 DEF At
    <2> QED
      BY <2>2
  <1>3. \A x \in At(k, {"waiting"}) : x \in notified' <=> x \in notified
    BY DEF At
  <1>4. Sleepers(k)' = Sleepers(k)
    BY <1>2, <1>3 DEF Sleepers
  <1>5. Wakers(k)' = Wakers(k)
    BY <1>2, <1>3 DEF Wakers
  <1>6. Heading(k)' = Heading(k)
    BY <1>2 DEF Heading
  <1> QED
    BY <1>1, <1>4, <1>5, <1>6 DEF Wakeable

\* The first poll of a request on its way to sleep.
LEMMA WakeEnqueue ==
    ASSUME WakeInv, NEW r \in Requests, Enqueue(r)
    PROVE  WakeInv'
  <1>1. PICK m \in Models : m = ModelOf[r]
    BY AdmissionAssumption
  <1>2. NotifyTyped /\ Wakeable(m) /\ pc[r] = "enqueue" /\ notified' = notified /\ r \notin notified
    BY <1>1 DEF WakeInv, Enqueue, NotifyTyped
  <1>3. Concurrency[m] # 0
    BY <1>1, <1>2 DEF NotifyTyped
  <1>4. CASE permit[m]
    <2>1. pc' = [pc EXCEPT ![r] = "woken"] /\ permit' = [permit EXCEPT ![m] = FALSE] /\ waiters' = waiters
      BY <1>1, <1>4 DEF Enqueue, Goto
    <2>2. "woken" \in Places
      BY DEF Places
    <2>3. NotifyTyped'
      BY <1>1, <1>2, <1>3, <2>1, <2>2 DEF NotifyTyped
    <2>4. Wakeable(m)'
      <3>1. /\ \A x \in Requests \ {r} : \A places : x \in At(m, places)' <=> x \in At(m, places)
            /\ \A places : r \in At(m, places)' <=> m = ModelOf[r] /\ "woken" \in places
            /\ \A places : r \in At(m, places) <=> m = ModelOf[r] /\ pc[r] \in places
        BY <1>2, <2>1, <2>2, MoveSets
      <3>2. r \in Wakers(m)'
        BY <1>1, <3>1 DEF Wakers, WakerPlaces
      <3>3. \A x \in Requests : x \in At(m, {"waiting"})' <=> x \in At(m, {"waiting"})
        BY <1>2, <3>1
      <3>4. Sleepers(m)' = Sleepers(m)
        BY <1>2, <3>3 DEF Sleepers, At
      <3>5. ~permit'[m]
        BY <1>1, <1>2, <2>1 DEF NotifyTyped
      <3> QED
        BY <1>2, <2>1, <3>2, <3>4, <3>5 DEF Wakeable
    <2>5. ASSUME NEW k \in Models, k # m PROVE Wakeable(k)'
      <3>1. permit'[k] = permit[k] /\ waiters'[k] = waiters[k]
        BY <1>2, <2>1, <2>5 DEF NotifyTyped
      <3> QED
        BY <1>1, <1>2, <2>1, <2>2, <2>5, <3>1, OtherModel
    <2> QED
      BY <2>3, <2>4, <2>5 DEF WakeInv
  <1>5. CASE ~permit[m]
    <2>1. /\ pc' = [pc EXCEPT ![r] = "waiting"] /\ permit' = permit
          /\ waiters' = [waiters EXCEPT ![m] = Append(@, r)]
      BY <1>1, <1>5 DEF Enqueue, Goto
    <2>2. "waiting" \in Places
      BY DEF Places
    <2>3. NotifyTyped'
      BY <1>1, <1>2, <1>3, <2>1, <2>2 DEF NotifyTyped
    <2>4. Wakeable(m)'
      <3>1. /\ \A x \in Requests \ {r} : \A places : x \in At(m, places)' <=> x \in At(m, places)
            /\ \A places : r \in At(m, places)' <=> m = ModelOf[r] /\ "waiting" \in places
            /\ \A places : r \in At(m, places) <=> m = ModelOf[r] /\ pc[r] \in places
        BY <1>2, <2>1, <2>2, MoveSets
      <3>2. r \in Heading(m)
        BY <1>1, <1>2, <3>1 DEF Heading, HeadingPlaces
      <3>3. PICK w \in Wakers(m) : TRUE
        BY <1>2, <1>5, <3>2 DEF Wakeable
      <3>4. w \in Requests /\ w # r
        BY <1>2, <3>1 DEF Wakers, WakerPlaces, At
      <3>5. w \in Wakers(m)'
        BY <1>2, <3>1, <3>3, <3>4 DEF Wakers
      <3>6. Sleepers(m)' = Sleepers(m) \cup {r} /\ r \notin Sleepers(m)
        <4>1. PICK old, new : old = Sleepers(m) /\ new = Sleepers(m)'
          OBVIOUS
        <4>2. /\ old \subseteq Requests /\ new \subseteq Requests
              /\ \A x \in Requests :
                     x \in old <=> ModelOf[x] = m /\ pc[x] = "waiting" /\ x \notin notified
              /\ \A x \in Requests \ {r} :
                     x \in new <=> ModelOf[x] = m /\ pc[x] = "waiting" /\ x \notin notified'
              /\ r \in new <=> ModelOf[r] = m /\ "waiting" = "waiting" /\ r \notin notified'
          BY <4>1, <1>2, <2>1, <2>2, MoveSleepers
        <4> QED
          BY <4>1, <4>2, <1>1, <1>2
      <3>7. Lists(Append(waiters[m], r), Sleepers(m) \cup {r})
        BY <1>2, <3>6, ListAppended DEF Wakeable
      <3>8. waiters'[m] = Append(waiters[m], r) /\ ~permit'[m]
        BY <1>1, <1>2, <1>5, <2>1 DEF NotifyTyped
      <3> QED
        BY <3>5, <3>6, <3>7, <3>8 DEF Wakeable
    <2>5. ASSUME NEW k \in Models, k # m PROVE Wakeable(k)'
      <3>1. permit'[k] = permit[k] /\ waiters'[k] = waiters[k]
        BY <1>2, <2>1, <2>5 DEF NotifyTyped
      <3> QED
        BY <1>1, <1>2, <2>1, <2>2, <2>5, <3>1, OtherModel
    <2> QED
      BY <2>3, <2>4, <2>5 DEF WakeInv
  <1> QED
    BY <1>4, <1>5

LEMMA WakeWakeUp ==
    ASSUME WakeInv, NEW r \in Requests, WakeUp(r)
    PROVE  WakeInv'
  <1>1. PICK m \in Models : m = ModelOf[r]
    BY AdmissionAssumption
  <1>2. /\ NotifyTyped /\ Wakeable(m) /\ pc[r] = "waiting" /\ r \in notified
        /\ notified' = notified \ {r} /\ pc' = [pc EXCEPT ![r] = "woken"]
        /\ UNCHANGED <<permit, waiters>> /\ "woken" \in Places
    BY <1>1 DEF WakeInv, WakeUp, Goto, Places
  <1>3. NotifyTyped'
    BY <1>2 DEF NotifyTyped
  <1>4. Wakeable(m)'
    <2>1. /\ \A x \in Requests \ {r} : \A places : x \in At(m, places)' <=> x \in At(m, places)
          /\ \A places : r \in At(m, places)' <=> m = ModelOf[r] /\ "woken" \in places
          /\ \A places : r \in At(m, places) <=> m = ModelOf[r] /\ pc[r] \in places
      BY <1>2, MoveSets
    <2>2. r \in Wakers(m)'
      BY <1>1, <2>1 DEF Wakers, WakerPlaces
    <2>3. Sleepers(m)' = Sleepers(m)
      <3>1. PICK old, new : old = Sleepers(m) /\ new = Sleepers(m)'
        OBVIOUS
      <3>2. /\ old \subseteq Requests /\ new \subseteq Requests
            /\ \A x \in Requests :
                   x \in old <=> ModelOf[x] = m /\ pc[x] = "waiting" /\ x \notin notified
            /\ \A x \in Requests \ {r} :
                   x \in new <=> ModelOf[x] = m /\ pc[x] = "waiting" /\ x \notin notified'
            /\ r \in new <=> ModelOf[r] = m /\ "woken" = "waiting" /\ r \notin notified'
        BY <3>1, <1>2, MoveSleepers
      <3> QED
        BY <3>1, <3>2, <1>2
    <2> QED
      BY <1>2, <2>2, <2>3 DEF Wakeable
  <1>5. ASSUME NEW k \in Models, k # m PROVE Wakeable(k)'
    BY <1>1, <1>2, <1>5, OtherModel
  <1> QED
    BY <1>3, <1>4, <1>5 DEF WakeInv

\* A sleeper leaves, for its deadline or with its client.
LEMMA SleeperLeaves ==
    ASSUME WakeInv, NEW r \in Requests, pc[r] = "waiting", r \notin notified,
           NEW place \in {"expired", "gone"}, pc' = [pc EXCEPT ![r] = place],
           waiters' = [waiters EXCEPT ![ModelOf[r]] = Unlinked(@, r)],
           UNCHANGED <<permit, notified>>
    PROVE  WakeInv'
  <1>1. PICK m \in Models : m = ModelOf[r]
    BY AdmissionAssumption
  <1>2. NotifyTyped /\ Wakeable(m) /\ place \in Places
    BY <1>1 DEF WakeInv, Places, Answered
  <1>3. NotifyTyped'
    BY <1>2 DEF NotifyTyped
  <1>4. Wakeable(m)'
    <2>1. /\ \A x \in Requests \ {r} : \A places : x \in At(m, places)' <=> x \in At(m, places)
          /\ \A places : r \in At(m, places)' <=> m = ModelOf[r] /\ place \in places
          /\ \A places : r \in At(m, places) <=> m = ModelOf[r] /\ pc[r] \in places
      BY <1>2, MoveSets
    <2>2. Sleepers(m)' = Sleepers(m) \ {r} /\ r \in Sleepers(m)
      <3>1. PICK old, new : old = Sleepers(m) /\ new = Sleepers(m)'
        OBVIOUS
      <3>2. /\ old \subseteq Requests /\ new \subseteq Requests
            /\ \A x \in Requests :
                   x \in old <=> ModelOf[x] = m /\ pc[x] = "waiting" /\ x \notin notified
            /\ \A x \in Requests \ {r} :
                   x \in new <=> ModelOf[x] = m /\ pc[x] = "waiting" /\ x \notin notified'
            /\ r \in new <=> ModelOf[r] = m /\ place = "waiting" /\ r \notin notified'
        BY <3>1, <1>2, MoveSleepers
      <3> QED
        BY <3>1, <3>2, <1>1
    <2>3. Lists(Unlinked(waiters[m], r), Sleepers(m) \ {r})
      BY <1>2, <2>2, ListUnlinked DEF Wakeable
    <2>4. waiters'[m] = Unlinked(waiters[m], r)
      BY <1>1, <1>2 DEF NotifyTyped
    <2>5. ~permit[m]
      BY <1>2, <2>2, ListEmpty DEF Wakeable
    <2>6. PICK w \in Wakers(m) : TRUE
      BY <1>2, <2>2, <2>5 DEF Wakeable
    <2>7. w # r /\ w \in Requests
      BY <2>1 DEF Wakers, WakerPlaces, At
    <2>8. w \in Wakers(m)'
      BY <2>1, <2>6, <2>7 DEF Wakers
    <2> QED
      BY <2>2, <2>3, <2>4, <2>5, <2>8 DEF Wakeable
  <1>5. ASSUME NEW k \in Models, k # m PROVE Wakeable(k)'
    <2>1. waiters'[k] = waiters[k]
      BY <1>1, <1>2, <1>5 DEF NotifyTyped
    <2> QED
      BY <1>1, <1>2, <1>5, <2>1, OtherModel
  <1> QED
    BY <1>3, <1>4, <1>5 DEF WakeInv

\* A guard is released, or a client goes away with a notification it did not use: the
\* oldest sleeper is notified in turn, and with none the permit stays.
LEMMA NotifyKeeps ==
    ASSUME WakeInv, NEW r \in Requests, pc[r] = "notifying" \/ (pc[r] = "waiting" /\ r \in notified),
           NEW place \in {"released", "gone"}, pc' = [pc EXCEPT ![r] = place],
           NotifyOne(ModelOf[r], waiters[ModelOf[r]], notified \ {r})
    PROVE  WakeInv'
  <1>1. PICK m \in Models : m = ModelOf[r]
    BY AdmissionAssumption
  <1>2. NotifyTyped /\ Wakeable(m) /\ place \in Places /\ Concurrency[m] # 0
    BY <1>1 DEF WakeInv, Places, Answered, NotifyTyped
  <1>3. /\ \A x \in Requests \ {r} : \A places : x \in At(m, places)' <=> x \in At(m, places)
        /\ \A places : r \in At(m, places)' <=> m = ModelOf[r] /\ place \in places
        /\ \A places : r \in At(m, places) <=> m = ModelOf[r] /\ pc[r] \in places
    BY <1>2, MoveSets
  <1>4. r \notin Sleepers(m)
    BY DEF Sleepers, At
  <1>5. CASE waiters[m] = <<>>
    <2>1. /\ permit' = [permit EXCEPT ![m] = TRUE] /\ notified' = notified \ {r}
          /\ waiters' = [waiters EXCEPT ![m] = waiters[m]]
      BY <1>1, <1>5 DEF NotifyOne
    <2>2. waiters' = waiters /\ permit'[m]
      BY <1>2, <2>1 DEF NotifyTyped
    <2>3. NotifyTyped'
      BY <1>1, <1>2, <2>1, <2>2 DEF NotifyTyped
    <2>4. Sleepers(m)' = Sleepers(m)
      <3>1. PICK old, new : old = Sleepers(m) /\ new = Sleepers(m)'
        OBVIOUS
      <3>2. /\ old \subseteq Requests /\ new \subseteq Requests
            /\ \A x \in Requests :
                   x \in old <=> ModelOf[x] = m /\ pc[x] = "waiting" /\ x \notin notified
            /\ \A x \in Requests \ {r} :
                   x \in new <=> ModelOf[x] = m /\ pc[x] = "waiting" /\ x \notin notified'
            /\ r \in new <=> ModelOf[r] = m /\ place = "waiting" /\ r \notin notified'
        BY <3>1, <1>2, MoveSleepers
      <3> QED
        BY <3>1, <3>2, <1>1, <2>1
    <2>5. Wakeable(m)'
      BY <1>2, <1>5, <2>2, <2>4 DEF Wakeable
    <2>6. ASSUME NEW k \in Models, k # m PROVE Wakeable(k)'
      <3>1. permit'[k] = permit[k]
        BY <1>2, <2>1, <2>6 DEF NotifyTyped
      <3>2. \A x \in Requests : ModelOf[x] = k => (x \in notified' <=> x \in notified)
        BY <1>1, <2>1, <2>6
      <3> QED
        BY <1>1, <1>2, <2>2, <2>6, <3>1, <3>2, OtherModel
    <2> QED
      BY <2>3, <2>5, <2>6 DEF WakeInv
  <1>6. CASE waiters[m] # <<>>
    <2>1. PICK h : h = Head(waiters[m])
      OBVIOUS
    <2>2. /\ waiters' = [waiters EXCEPT ![m] = Tail(waiters[m])] /\ permit' = permit
          /\ notified' = (notified \ {r}) \cup {h}
      BY <1>1, <1>6, <2>1 DEF NotifyOne
    <2>3. h \in Sleepers(m) /\ Lists(Tail(waiters[m]), Sleepers(m) \ {h})
      BY <1>2, <1>6, <2>1, ListTail DEF Wakeable
    <2>4. h \in Requests /\ pc[h] = "waiting" /\ ModelOf[h] = m /\ h # r /\ h \notin notified
      BY <1>4, <2>3 DEF Sleepers, At
    <2>5. NotifyTyped'
      BY <1>1, <1>2, <2>2, <2>4 DEF NotifyTyped
    <2>6. Sleepers(m)' = Sleepers(m) \ {h}
      <3>1. PICK old, new : old = Sleepers(m) /\ new = Sleepers(m)'
        OBVIOUS
      <3>2. /\ old \subseteq Requests /\ new \subseteq Requests
            /\ \A x \in Requests :
                   x \in old <=> ModelOf[x] = m /\ pc[x] = "waiting" /\ x \notin notified
            /\ \A x \in Requests \ {r} :
                   x \in new <=> ModelOf[x] = m /\ pc[x] = "waiting" /\ x \notin notified'
            /\ r \in new <=> ModelOf[r] = m /\ place = "waiting" /\ r \notin notified'
        BY <3>1, <1>2, MoveSleepers
      <3> QED
        BY <3>1, <3>2, <1>1, <2>2, <2>4
    <2>7. h \in Wakers(m)'
      BY <1>3, <2>2, <2>4 DEF Wakers, At
    <2>8. waiters'[m] = Tail(waiters[m]) /\ ~permit'[m]
      BY <1>2, <1>6, <2>2 DEF NotifyTyped, Wakeable
    <2>9. Wakeable(m)'
      BY <2>3, <2>6, <2>7, <2>8 DEF Wakeable
    <2>10. ASSUME NEW k \in Models, k # m PROVE Wakeable(k)'
      <3>1. waiters'[k] = waiters[k]
        BY <1>2, <2>2, <2>10 DEF NotifyTyped
      <3>2. \A x \in Requests : ModelOf[x] = k => (x \in notified' <=> x \in notified)
        BY <1>1, <2>2, <2>4, <2>10
      <3> QED
        BY <1>1, <1>2, <2>2, <2>10, <3>1, <3>2, OtherModel
    <2> QED
      BY <2>5, <2>9, <2>10 DEF WakeInv
  <1> QED
    BY <1>5, <1>6

\* Whoever finds every slot taken finds somebody who holds one.
LEMMA SomebodyHolds ==
    ASSUME CountersInv, NEW m \in Models, Concurrency[m] # 0, active[m] >= Concurrency[m]
    PROVE  At(m, {"holding"}) # {}
  <1>1. active[m] = Cardinality(At(m, {"holding"})) /\ active[m] \in Nat /\ Concurrency[m] \in Nat
    BY AdmissionAssumption DEF CountersInv, SlotsBounded, CountersTyped
  <1>2. Cardinality({}) = 0
    BY FS_EmptySet
  <1>3. active[m] # 0
    BY <1>1
  <1> QED
    BY <1>1, <1>2, <1>3

LEMMA WakeNext == CountersInv /\ WakeInv /\ [Next]_vars => WakeInv'
  <1> SUFFICES ASSUME CountersInv, WakeInv, [Next]_vars PROVE WakeInv'
    OBVIOUS
  <1> USE DEF Goto
  <1>1. CASE UNCHANGED vars
    <2>1. UNCHANGED <<permit, waiters, notified, pc>>
      BY <1>1 DEF vars, notify
    <2>2. \A m \in Models : Sleepers(m)' = Sleepers(m) /\ Wakers(m)' = Wakers(m) /\ Heading(m)' = Heading(m)
      BY <2>1 DEF Sleepers, Wakers, Heading, At
    <2> QED
      BY <2>1, <2>2 DEF WakeInv, NotifyTyped, Wakeable
  <1>2. ASSUME NEW r \in Requests, Arrive(r) \/ Step(r) \/ TimeOut(r) \/ Cancel(r)
        PROVE  WakeInv'
    <2>1. PICK m \in Models : m = ModelOf[r]
      BY AdmissionAssumption
    <2>2. NotifyTyped /\ (pc[r] \notin {"idle", "unlimited"} => Concurrency[m] # 0)
      BY <2>1 DEF WakeInv, NotifyTyped
    <2>3. CASE Arrive(r)
      <3>1. PICK place : place = IF Concurrency[m] = 0 THEN "unlimited" ELSE "load"
        OBVIOUS
      <3>2. /\ pc[r] = "idle" /\ pc' = [pc EXCEPT ![r] = place]
            /\ UNCHANGED <<permit, waiters, notified>>
        BY <2>1, <2>3, <3>1 DEF Arrive, notify
      <3> QED
        BY <2>1, <3>1, <3>2, QuietMove DEF Places, Answered, WakerPlaces, HeadingPlaces
    <2>4. CASE LoadActive(r)
      <3>1. PICK place : place = IF active[m] < Concurrency[m] THEN "casActive" ELSE "loadQueued"
        OBVIOUS
      <3>2. /\ pc[r] = "load" /\ pc' = [pc EXCEPT ![r] = place]
            /\ UNCHANGED <<permit, waiters, notified>>
        BY <2>1, <2>4, <3>1 DEF LoadActive, notify
      <3>3. CASE active[m] < Concurrency[m]
        BY <2>1, <2>2, <3>1, <3>2, <3>3, QuietMove DEF Places, WakerPlaces
      <3>4. CASE ~(active[m] < Concurrency[m])
        <4>1. active[m] >= Concurrency[m]
          BY <3>4, AdmissionAssumption DEF CountersInv, CountersTyped
        <4>2. PICK h \in At(m, {"holding"}) : TRUE
          BY <2>2, <3>2, <4>1, SomebodyHolds
        <4>3. h # r
          BY <3>2 DEF At
        <4> QED
          BY <2>1, <2>2, <3>1, <3>2, <3>4, <4>2, <4>3, QuietMove DEF Places
      <3> QED
        BY <3>3, <3>4
    <2>5. CASE TakeSlot(r)
      <3>1. /\ pc[r] = "casActive" /\ pc' = [pc EXCEPT ![r] = "holding"]
            /\ UNCHANGED <<permit, waiters, notified>>
        BY <2>5 DEF TakeSlot, notify
      <3> QED
        BY <2>1, <2>2, <3>1, QuietMove DEF Places, Answered, WakerPlaces
    <2>6. CASE LoadQueued(r)
      <3>1. PICK place \in {"full", "casQueued"} : pc' = [pc EXCEPT ![r] = place]
        BY <2>6 DEF LoadQueued
      <3>2. pc[r] = "loadQueued" /\ UNCHANGED <<permit, waiters, notified>>
        BY <2>6 DEF LoadQueued, notify
      <3> QED
        BY <2>1, <2>2, <3>1, <3>2, QuietMove DEF Places, Answered, WakerPlaces, HeadingPlaces
    <2>7. CASE TakeQueuePlace(r)
      <3>1. /\ pc[r] = "casQueued" /\ pc' = [pc EXCEPT ![r] = "enqueue"]
            /\ UNCHANGED <<permit, waiters, notified>>
        BY <2>7 DEF TakeQueuePlace, notify
      <3> QED
        BY <2>1, <2>2, <3>1, QuietMove DEF Places, Answered, WakerPlaces, HeadingPlaces
    <2>8. CASE CasFails(r)
      <3>1. /\ pc[r] \in {"casActive", "casQueued"} /\ pc' = [pc EXCEPT ![r] = "load"]
            /\ UNCHANGED <<permit, waiters, notified>>
        BY <2>8 DEF CasFails, notify
      <3> QED
        BY <2>1, <2>2, <3>1, QuietMove DEF Places, WakerPlaces
    <2>9. CASE Enqueue(r)
      BY <2>9, WakeEnqueue
    <2>10. CASE WakeUp(r)
      BY <2>10, WakeWakeUp
    <2>11. CASE LeaveQueue(r)
      <3>1. PICK place : place = IF pc[r] = "woken" THEN "load" ELSE "timeout"
        OBVIOUS
      <3>2. /\ pc[r] \in {"woken", "expired"} /\ pc' = [pc EXCEPT ![r] = place]
            /\ UNCHANGED <<permit, waiters, notified>>
        BY <2>11, <3>1 DEF LeaveQueue, notify
      <3> QED
        BY <2>1, <2>2, <3>1, <3>2, QuietMove DEF Places, Answered, WakerPlaces, HeadingPlaces
    <2>12. CASE Release(r)
      <3>1. /\ pc[r] = "holding" /\ pc' = [pc EXCEPT ![r] = "notifying"]
            /\ UNCHANGED <<permit, waiters, notified>>
        BY <2>12 DEF Release, notify
      <3> QED
        BY <2>1, <2>2, <3>1, QuietMove DEF Places, Answered, WakerPlaces
    <2>13. CASE NotifyReleased(r)
      <3>1. /\ pc[r] = "notifying" /\ pc' = [pc EXCEPT ![r] = "released"]
            /\ NotifyOne(ModelOf[r], waiters[ModelOf[r]], notified)
        BY <2>13 DEF NotifyReleased
      <3>2. notified \ {r} = notified
        BY <2>2, <3>1 DEF NotifyTyped
      <3> QED
        BY <3>1, <3>2, NotifyKeeps
    <2>14. CASE TimeOut(r)
      BY <2>14, SleeperLeaves DEF TimeOut
    <2>15. CASE Cancel(r)
      BY <2>15, SleeperLeaves, NotifyKeeps DEF Cancel
    <2> QED
      BY <1>2, <2>3, <2>4, <2>5, <2>6, <2>7, <2>8, <2>9, <2>10, <2>11, <2>12, <2>13, <2>14, <2>15 DEF Step
  <1> QED
    BY <1>1, <1>2 DEF Next

LEMMA WakeImplies == WakeInv => SleepersHaveWaker
  <1> SUFFICES ASSUME WakeInv, NEW m \in Models, Sleepers(m) # {}
               PROVE  Wakers(m) # {}
    BY DEF SleepersHaveWaker, Sleepers, Wakers, WakerPlaces
  <1>1. Wakeable(m)
    BY DEF WakeInv
  <1>2. waiters[m] # <<>>
    BY <1>1, ListEmpty DEF Wakeable
  <1> QED
    BY <1>1, <1>2 DEF Wakeable

\* The counters never wrap and Notify's list holds requests: every variable keeps the
\* type of what capacity.rs stores.
THEOREM AdmissionTypeCorrect == Spec => []TypeOK
  <1>1. CountersInv /\ WakeInv => TypeOK
    <2> SUFFICES ASSUME CountersInv, WakeInv PROVE TypeOK
      OBVIOUS
    <2>1. \A m \in Models : waiters[m] \in Seq(Requests)
      BY DEF WakeInv, Wakeable, Lists
    <2>2. waiters \in [Models -> Seq(Requests)]
      BY <2>1 DEF WakeInv, NotifyTyped
    <2> QED
      BY <2>2 DEF TypeOK, CountersInv, CountersTyped, WakeInv, NotifyTyped
  <1> QED
    BY <1>1, CountersInit, CountersNext, WakeInit, WakeNext, PTL DEF Spec

\* Whatever the interleaving of releases, first polls, deadlines and vanishing clients,
\* as long as a waiter of a model sleeps somebody will wake the sleepers of that model.
THEOREM SleepersAlwaysHaveWaker == Spec => []SleepersHaveWaker
  BY CountersInit, CountersNext, WakeInit, WakeNext, WakeImplies, PTL DEF Spec
===============================================================================
