---------------------------- MODULE ModelAdmission ----------------------------
(***************************************************************************)
(* Admission of inference requests, src/capacity.rs, as the handler in     *)
(* src/server/inference.rs uses it: a per-model slot with two atomic       *)
(* counters and a tokio Notify.  Each atomic operation is a step of its    *)
(* own, and compare_exchange_weak may fail for no reason.  A request whose *)
(* client goes away while it waits is dropped at the await: nothing after  *)
(* the await runs, so the queue place it took is never given back.         *)
(***************************************************************************)
EXTENDS Integers, FiniteSets, SequencesExt

CONSTANTS
    Requests,               \* the HTTP requests of a behaviour
    Models,
    ModelOf,                \* [Requests -> Models]
    Concurrency,            \* [Models -> Nat], 0 means unlimited
    RATIO_NUM, RATIO_DEN    \* the configured queue_depth_ratio

ASSUME AdmissionAssumption ==
    /\ IsFiniteSet(Requests)
    /\ ModelOf \in [Requests -> Models]
    /\ Concurrency \in [Models -> Nat]
    /\ RATIO_NUM \in Nat
    /\ RATIO_DEN \in Nat \ {0}

\* max_queue_depth: the ratio rounded down, but at least one place.
MaxQueueDepth(m) ==
    LET depth == (Concurrency[m] * RATIO_NUM) \div RATIO_DEN
    IN  IF Concurrency[m] = 0 THEN 0 ELSE IF depth < 1 THEN 1 ELSE depth

VARIABLES
    active, queued,         \* [Models -> Nat], the two atomics of a slot
    permit,                 \* [Models -> BOOLEAN], a notification Notify has stored
    waiters,                \* [Models -> Seq(Requests)], its waiters, oldest first
    notified,               \* waiters that were notified but not polled since
    pc,                     \* where each request is
    seen                    \* [Requests -> Nat], the counter value it loaded last

notify == <<permit, waiters, notified>>
vars == <<active, queued, notify, pc, seen>>

Answered == {"unlimited", "holding", "notifying", "released", "full", "timeout", "gone"}
Places == {"idle", "load", "casActive", "loadQueued", "casQueued", "enqueue", "waiting",
           "woken", "expired"} \cup Answered

\* The two counters of a slot are unsigned: no release or queue exit happens
\* without the matching acquire, so neither atomic ever wraps below zero.
TypeOK ==
    /\ active \in [Models -> Nat]
    /\ queued \in [Models -> Nat]
    /\ permit \in [Models -> BOOLEAN]
    /\ waiters \in [Models -> Seq(Requests)]
    /\ notified \in SUBSET Requests
    /\ pc \in [Requests -> Places]
    /\ seen \in [Requests -> Nat]

Init ==
    /\ active = [m \in Models |-> 0]
    /\ queued = [m \in Models |-> 0]
    /\ permit = [m \in Models |-> FALSE]
    /\ waiters = [m \in Models |-> <<>>]
    /\ notified = {}
    /\ pc = [r \in Requests |-> "idle"]
    /\ seen = [r \in Requests |-> 0]

Goto(r, place) == pc' = [pc EXCEPT ![r] = place]

-------------------------------------------------------------------------------
\* tokio::sync::Notify, as acquire and release_inner use it.

\* notify_one: the oldest waiter is notified; with none, one permit is kept
\* (and a second one is lost).
NotifyOne(m, queue, done) ==
    IF queue = <<>>
    THEN /\ permit' = [permit EXCEPT ![m] = TRUE]
         /\ waiters' = [waiters EXCEPT ![m] = queue]
         /\ notified' = done
    ELSE /\ waiters' = [waiters EXCEPT ![m] = Tail(queue)]
         /\ notified' = done \cup {Head(queue)}
         /\ UNCHANGED permit

\* A future that is dropped takes its node out of the list.
Unlinked(queue, r) == RemoveAt(queue, CHOOSE i \in DOMAIN queue : queue[i] = r)

-------------------------------------------------------------------------------
\* acquire.

\* The handler reaches acquire; an unlimited model needs no slot.
Arrive(r) ==
    /\ pc[r] = "idle"
    /\ Goto(r, IF Concurrency[ModelOf[r]] = 0 THEN "unlimited" ELSE "load")
    /\ UNCHANGED <<active, queued, notify, seen>>

LoadActive(r) ==
    LET m == ModelOf[r]
    IN  /\ pc[r] = "load"
        /\ seen' = [seen EXCEPT ![r] = active[m]]
        /\ Goto(r, IF active[m] < Concurrency[m] THEN "casActive" ELSE "loadQueued")
        /\ UNCHANGED <<active, queued, notify>>

\* Mutant: the slot is taken without looking again at what was loaded.
TakeSlotBlindly(r) ==
    LET m == ModelOf[r]
    IN  /\ pc[r] = "casActive"
        /\ active' = [active EXCEPT ![m] = @ + 1]
        /\ Goto(r, "holding")
        /\ UNCHANGED <<queued, notify, seen>>

\* compare_exchange_weak(active, active + 1) succeeds.
TakeSlot(r) ==
    LET m == ModelOf[r]
    IN  /\ pc[r] = "casActive"
        /\ active[m] = seen[r]
        /\ active' = [active EXCEPT ![m] = seen[r] + 1]
        /\ Goto(r, "holding")
        /\ UNCHANGED <<queued, notify, seen>>

LoadQueued(r) ==
    LET m == ModelOf[r]
    IN  /\ pc[r] = "loadQueued"
        /\ seen' = [seen EXCEPT ![r] = queued[m]]
        /\ Goto(r, IF MaxQueueDepth(m) = 0 \/ queued[m] >= MaxQueueDepth(m)
                   THEN "full" ELSE "casQueued")
        /\ UNCHANGED <<active, queued, notify>>

\* compare_exchange_weak(queued, queued + 1) succeeds.
TakeQueuePlace(r) ==
    LET m == ModelOf[r]
    IN  /\ pc[r] = "casQueued"
        /\ queued[m] = seen[r]
        /\ queued' = [queued EXCEPT ![m] = seen[r] + 1]
        /\ Goto(r, "enqueue")
        /\ UNCHANGED <<active, notify, seen>>

\* Either compare_exchange_weak fails, with or without a reason, and the loop
\* starts over.
CasFails(r) ==
    /\ pc[r] \in {"casActive", "casQueued"}
    /\ Goto(r, "load")
    /\ UNCHANGED <<active, queued, notify, seen>>

\* Mutant: the first poll ignores a stored permit.
EnqueueAsleep(r) ==
    LET m == ModelOf[r]
    IN  /\ pc[r] = "enqueue"
        /\ waiters' = [waiters EXCEPT ![m] = Append(@, r)]
        /\ Goto(r, "waiting")
        /\ UNCHANGED <<active, queued, permit, notified, seen>>

\* The first poll of notified(): a stored permit ends the wait at once.
Enqueue(r) ==
    LET m == ModelOf[r]
    IN  /\ pc[r] = "enqueue"
        /\ IF permit[m]
           THEN /\ permit' = [permit EXCEPT ![m] = FALSE]
                /\ Goto(r, "woken")
                /\ UNCHANGED waiters
           ELSE /\ waiters' = [waiters EXCEPT ![m] = Append(@, r)]
                /\ Goto(r, "waiting")
                /\ UNCHANGED permit
        /\ UNCHANGED <<active, queued, notified, seen>>

\* A notified waiter is polled; timeout polls it before it looks at the clock.
WakeUp(r) ==
    /\ pc[r] = "waiting"
    /\ r \in notified
    /\ notified' = notified \ {r}
    /\ Goto(r, "woken")
    /\ UNCHANGED <<active, queued, permit, waiters, seen>>

\* The deadline passes before a notification; the waiter leaves Notify's list.
TimeOut(r) ==
    LET m == ModelOf[r]
    IN  /\ pc[r] = "waiting"
        /\ r \notin notified
        /\ waiters' = [waiters EXCEPT ![m] = Unlinked(@, r)]
        /\ Goto(r, "expired")
        /\ UNCHANGED <<active, queued, permit, notified, seen>>

\* Mutant: a request that timed out keeps its place in the queue.
LeaveQueueOnlyWoken(r) ==
    LET m == ModelOf[r]
    IN  /\ pc[r] \in {"woken", "expired"}
        /\ queued' = IF pc[r] = "woken" THEN [queued EXCEPT ![m] = @ - 1] ELSE queued
        /\ Goto(r, IF pc[r] = "woken" THEN "load" ELSE "timeout")
        /\ UNCHANGED <<active, notify, seen>>

\* fetch_sub after the await: a woken request starts over, and may find the slot
\* taken or even the queue full; an expired one is answered.
LeaveQueue(r) ==
    LET m == ModelOf[r]
    IN  /\ pc[r] \in {"woken", "expired"}
        /\ queued' = [queued EXCEPT ![m] = @ - 1]
        /\ Goto(r, IF pc[r] = "woken" THEN "load" ELSE "timeout")
        /\ UNCHANGED <<active, notify, seen>>

\* The client goes away during the await: the future is dropped.  Notify hands a
\* notification that was not consumed to the next waiter; queued stays as it is.
Cancel(r) ==
    LET m == ModelOf[r]
    IN  /\ pc[r] = "waiting"
        /\ Goto(r, "gone")
        /\ IF r \in notified
           THEN NotifyOne(m, waiters[m], notified \ {r})
           ELSE /\ waiters' = [waiters EXCEPT ![m] = Unlinked(@, r)]
                /\ UNCHANGED <<permit, notified>>
        /\ UNCHANGED <<active, queued, seen>>

\* release_inner, first half: the guard is dropped when the response stream ends,
\* for whatever reason.
Release(r) ==
    LET m == ModelOf[r]
    IN  /\ pc[r] = "holding"
        /\ active' = [active EXCEPT ![m] = @ - 1]
        /\ Goto(r, "notifying")
        /\ UNCHANGED <<queued, notify, seen>>

\* Mutant: a release leaves the waiters asleep.
NotifyReleasedNobody(r) ==
    /\ pc[r] = "notifying"
    /\ Goto(r, "released")
    /\ UNCHANGED <<active, queued, notify, seen>>

\* release_inner, second half.
NotifyReleased(r) ==
    LET m == ModelOf[r]
    IN  /\ pc[r] = "notifying"
        /\ NotifyOne(m, waiters[m], notified)
        /\ Goto(r, "released")
        /\ UNCHANGED <<active, queued, seen>>

Step(r) ==
    \/ LoadActive(r)
    \/ TakeSlot(r)
    \/ LoadQueued(r)
    \/ TakeQueuePlace(r)
    \/ CasFails(r)
    \/ Enqueue(r)
    \/ WakeUp(r)
    \/ LeaveQueue(r)
    \/ Release(r)
    \/ NotifyReleased(r)

Next == \E r \in Requests : Arrive(r) \/ Step(r) \/ TimeOut(r) \/ Cancel(r)

Spec == Init /\ [][Next]_vars

\* The runtime polls ready tasks and response streams end.  A weak compare and
\* exchange that keeps being tried cannot fail spuriously for ever.  Nothing is
\* assumed of timeouts or of clients going away.
Fairness ==
    \A r \in Requests : WF_vars(Step(r)) /\ SF_vars(TakeSlot(r) \/ TakeQueuePlace(r))

FairSpec == Spec /\ Fairness

-------------------------------------------------------------------------------
\* Properties.

At(m, places) == {r \in Requests : ModelOf[r] = m /\ pc[r] \in places}

\* Concurrency is never exceeded, and active is exactly the number of guards
\* alive, under every interleaving of stale loads, failed exchanges and releases.
SlotsBounded ==
    \A m \in Models :
        /\ active[m] = Cardinality(At(m, {"holding"}))
        /\ active[m] <= Concurrency[m]

\* queued counts the requests in the queue plus those whose client went away while
\* they waited (a place that is never given back), and never exceeds its limit.
QueuePlacesAccounted ==
    \A m \in Models :
        /\ queued[m] = Cardinality(At(m, {"enqueue", "waiting", "woken", "expired", "gone"}))
        /\ queued[m] <= MaxQueueDepth(m)

\* No lost wakeup leaves the waiters asleep with nobody to wake them: as long as a
\* waiter sleeps, some request of its model holds a slot, is about to notify, was
\* woken, or is on its way to a free slot.
SleepersHaveWaker ==
    \A m \in Models :
        At(m, {"waiting"}) \ notified # {} =>
            At(m, {"holding", "notifying", "woken", "load", "casActive"})
                \cup (At(m, {"waiting"}) \cap notified) # {}

\* Every request that arrives is answered, even if no timeout ever fires: the
\* releases alone wake the sleepers one after another.
EveryRequestAnswered ==
    \A r \in Requests : (pc[r] # "idle") ~> (pc[r] \in Answered)
===============================================================================
