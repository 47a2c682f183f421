---------------------------- MODULE OutboxProofs ----------------------------
(***************************************************************************)
(* Theorems about Outbox, for any number of events, workers, failures and  *)
(* crashes, and for every lease and backoff.                               *)
(***************************************************************************)
EXTENDS Outbox, TLAPS

\* Rows and worker states are records of their fields.  Delays stay untyped:
\* the provers do not know that a power of two is a number, and nothing below
\* depends on when an event becomes available.
Shape ==
  /\ DOMAIN ev = Events
  /\ \A e \in Events : DOMAIN ev[e] = {"state", "wait", "lock", "age", "attempts"}
  /\ DOMAIN wk = Workers
  /\ \A w \in Workers :
       DOMAIN wk[w] = {"phase", "job", "attempts", "spent", "after", "polled"}

States == {"absent", "pending", "cancelled", "processed"}

\* An event that was never written, or that was acknowledged, has no lock.
LockedExists ==
  \A e \in Events : /\ ev[e].state \in States
                    /\ ev[e].state \in {"absent", "processed"} => ev[e].lock = None

\* A worker at work holds an event that was written, and one about to
\* acknowledge it has handled it.
JobHandled ==
  \A w \in Workers :
    /\ Holds(w) => wk[w].job \in Events /\ ev[wk[w].job].state # "absent"
    /\ wk[w].phase = "ok" => wk[w].job \in handled

QueueInv == Shape /\ LockedExists /\ JobHandled

\* An empty table with workers not yet started satisfies the invariant.
LEMMA QueueInit == Init => QueueInv
<1> SUFFICES ASSUME Init PROVE QueueInv OBVIOUS
<1>1. Shape BY DEF Init, Shape, Resting
<1>2. LockedExists BY DEF Init, LockedExists, States
<1>3. JobHandled BY DEF Init, JobHandled, Holds, Resting
<1> QED BY <1>1, <1>2, <1>3 DEF QueueInv

\* A tick moves clocks only.
LEMMA TickKeeps ==
  ASSUME Shape, Tick
  PROVE  /\ DOMAIN ev' = Events
         /\ \A e \in Events : /\ DOMAIN ev'[e] = DOMAIN ev[e]
                              /\ ev'[e].state = ev[e].state
                              /\ ev'[e].lock = ev[e].lock
         /\ DOMAIN wk' = Workers
         /\ \A w \in Workers : /\ DOMAIN wk'[w] = DOMAIN wk[w]
                               /\ wk'[w].phase = wk[w].phase
                               /\ wk'[w].job = wk[w].job
         /\ handled' = handled
<1>1. /\ DOMAIN ev' = Events
      /\ \A e \in Events : /\ DOMAIN ev'[e] = DOMAIN ev[e]
                           /\ ev'[e].state = ev[e].state
                           /\ ev'[e].lock = ev[e].lock
  BY DEF Tick, Shape
<1>2. /\ DOMAIN wk' = Workers
      /\ \A w \in Workers : /\ DOMAIN wk'[w] = DOMAIN wk[w]
                            /\ wk'[w].phase = wk[w].phase
                            /\ wk'[w].job = wk[w].job
  BY DEF Tick, Shape
<1> QED BY <1>1, <1>2 DEF Tick

\* Every statement of the workers and of the writers of events keeps it.
LEMMA QueueStep == QueueInv /\ [Next]_vars => QueueInv'
<1> SUFFICES ASSUME QueueInv, [Next]_vars PROVE QueueInv' OBVIOUS
<1> USE OutboxAssumption DEF QueueInv, Shape, LockedExists, JobHandled, States, Holds
<1>1. ASSUME NEW e \in Events, NEW d \in RetryAfters, Enqueue(e, d) PROVE QueueInv'
  BY <1>1 DEF Enqueue
<1>2. ASSUME NEW e \in Events, Cancel(e) PROVE QueueInv'
  BY <1>2 DEF Cancel
<1>3. ASSUME NEW w \in Workers, Start(w) PROVE QueueInv'
  BY <1>3 DEF Start, Resting
<1>4. ASSUME NEW w \in Workers, Claim(w) PROVE QueueInv'
  BY <1>4 DEF Claim, Due
<1>5. ASSUME NEW w \in Workers, NothingDue(w) PROVE QueueInv'
  BY <1>5 DEF NothingDue
<1>6. ASSUME NEW w \in Workers, HandlerSucceeds(w) PROVE QueueInv'
  BY <1>6 DEF HandlerSucceeds
<1>7. ASSUME NEW w \in Workers, NEW a \in RetryAfters, HandlerFails(w, a) PROVE QueueInv'
  BY <1>7 DEF HandlerFails
<1>8. ASSUME NEW w \in Workers, Ack(w) PROVE QueueInv'
  BY <1>8 DEF Ack, Resting
<1>9. ASSUME NEW w \in Workers, Retry(w) PROVE QueueInv'
  BY <1>9 DEF Retry, Resting
<1>10. ASSUME NEW w \in Workers, Crash(w) PROVE QueueInv'
  BY <1>10 DEF Crash, Resting
<1>11. CASE Tick
  <2>1. Shape' BY <1>11, TickKeeps
  <2>2. LockedExists' BY <1>11, TickKeeps
  <2>3. JobHandled' BY <1>11, TickKeeps
  <2> QED BY <2>1, <2>2, <2>3
<1>12. CASE UNCHANGED vars
  BY <1>12 DEF vars
<1> QED BY <1>1, <1>2, <1>3, <1>4, <1>5, <1>6, <1>7, <1>8, <1>9, <1>10, <1>11, <1>12
        DEF Next, Work

\* Locks belong to written events, and acknowledgements follow handlers.
LEMMA QueueInvariant == Spec => []QueueInv
BY QueueInit, QueueStep, PTL DEF Spec

-----------------------------------------------------------------------------
\* The outbox implements the abstract queue.  Enqueueing, cancelling, a handler
\* that succeeds and an acknowledgement by the lock's owner are its four actions;
\* claims, retries, late acknowledgements, crashes and time are stutters.
THEOREM ImplementsWorkQueue == Spec => QueueSpec
<1> DEFINE q == [e \in Events |-> ev[e].state]
<1>1. Init => Queue!Init
  BY DEF Init, Queue!Init
<1>2. QueueInv /\ [Next]_vars => [Queue!Next]_<<q, handled>>
  <2> SUFFICES ASSUME QueueInv, [Next]_vars PROVE [Queue!Next]_<<q, handled>> OBVIOUS
  <2> USE OutboxAssumption DEF QueueInv, Shape, LockedExists, States
  <2>1. ASSUME NEW e \in Events, NEW d \in RetryAfters, Enqueue(e, d)
        PROVE  Queue!Enqueue(e)
    BY <2>1 DEF Enqueue, Queue!Enqueue
  <2>2. ASSUME NEW e \in Events, Cancel(e) PROVE Queue!Cancel(e)
    BY <2>2 DEF Cancel, Queue!Cancel
  <2>3. ASSUME NEW w \in Workers, NEW e \in Events, wk[w].job = e, HandlerSucceeds(w)
        PROVE  Queue!Handle(e)
    BY <2>3 DEF HandlerSucceeds, Queue!Handle, JobHandled, Holds
  <2>4. ASSUME NEW w \in Workers, NEW e \in Events, wk[w].job = e, Ack(w)
        PROVE  Queue!Complete(e) \/ UNCHANGED <<q, handled>>
    <3>1. CASE ev[e].lock = w
      BY <2>4, <3>1 DEF Ack, Queue!Complete, JobHandled, Holds
    <3>2. CASE ev[e].lock # w
      BY <2>4, <3>2 DEF Ack
    <3> QED BY <3>1, <3>2
  <2>5. ASSUME NEW w \in Workers,
               \/ Start(w) \/ NothingDue(w) \/ Crash(w)
               \/ \E a \in RetryAfters : HandlerFails(w, a)
        PROVE  UNCHANGED <<q, handled>>
    BY <2>5 DEF Start, NothingDue, Crash, HandlerFails
  <2>6. ASSUME NEW w \in Workers, Claim(w) PROVE UNCHANGED <<q, handled>>
    BY <2>6 DEF Claim
  <2>7. ASSUME NEW w \in Workers, Retry(w) PROVE UNCHANGED <<q, handled>>
    BY <2>7 DEF Retry, JobHandled, Holds
  <2>8. CASE Tick
    BY <2>8, TickKeeps
  <2>9. CASE UNCHANGED vars
    BY <2>9 DEF vars
  <2>10. ASSUME NEW w \in Workers, HandlerSucceeds(w) \/ Ack(w)
         PROVE  \E e \in Events : wk[w].job = e
    BY <2>10 DEF JobHandled, Holds, HandlerSucceeds, Ack
  <2> HIDE OutboxAssumption DEF q, QueueInv, Shape, LockedExists, States
  <2>11. ASSUME NEW w \in Workers, Start(w) \/ Work(w) \/ Crash(w)
         PROVE  Queue!Next \/ UNCHANGED <<q, handled>>
    <3>1. CASE HandlerSucceeds(w) BY <2>3, <2>10, <3>1 DEF Queue!Next
    <3>2. CASE Ack(w) BY <2>4, <2>10, <3>2 DEF Queue!Next
    <3>3. CASE Start(w) BY <2>5, <3>3
    <3>4. CASE NothingDue(w) BY <2>5, <3>4
    <3>5. CASE Crash(w) BY <2>5, <3>5
    <3>6. CASE \E a \in RetryAfters : HandlerFails(w, a) BY <2>5, <3>6
    <3>7. CASE Claim(w) BY <2>6, <3>7
    <3>8. CASE Retry(w) BY <2>7, <3>8
    <3> QED BY <2>11, <3>1, <3>2, <3>3, <3>4, <3>5, <3>6, <3>7, <3>8 DEF Work
  <2>12. ASSUME NEW e \in Events, (\E d \in RetryAfters : Enqueue(e, d)) \/ Cancel(e)
         PROVE  Queue!Next
    BY <2>1, <2>2, <2>12 DEF Queue!Next
  <2> QED BY <2>8, <2>9, <2>11, <2>12 DEF Next
<1> QED BY <1>1, <1>2, QueueInvariant, PTL DEF Spec, QueueSpec, Queue!Spec, q

\* Once processed or cancelled, an event is never claimed again.
THEOREM Retired == Spec => RetiredForGood
<1>1. QueueInv /\ [Next]_vars =>
        [\A e \in Events : ev[e].state \in {"cancelled", "processed"} =>
           /\ ev'[e].state \in {"cancelled", "processed"}
           /\ ev'[e].lock \in {ev[e].lock, None}]_vars
  <2> SUFFICES ASSUME QueueInv, Next, NEW e \in Events,
                      ev[e].state \in {"cancelled", "processed"}
               PROVE  /\ ev'[e].state \in {"cancelled", "processed"}
                      /\ ev'[e].lock \in {ev[e].lock, None}
    OBVIOUS
  <2> USE DEF QueueInv, Shape
  <2>1. ASSUME NEW f \in Events, NEW d \in RetryAfters, Enqueue(f, d) \/ Cancel(f)
        PROVE  ev'[e] = ev[e]
    BY <2>1 DEF Enqueue, Cancel
  <2>2. ASSUME NEW w \in Workers, Claim(w) PROVE ev'[e] = ev[e]
    BY <2>2 DEF Claim, Due
  <2>3. ASSUME NEW w \in Workers, Ack(w) \/ Retry(w)
        PROVE  /\ ev'[e].state \in {"cancelled", "processed"}
               /\ ev'[e].lock \in {ev[e].lock, None}
    <3>1. CASE Ack(w) BY <3>1 DEF Ack
    <3>2. CASE Retry(w) BY <3>2 DEF Retry
    <3> QED BY <2>3, <3>1, <3>2
  <2>4. ASSUME NEW w \in Workers,
               \/ Start(w) \/ NothingDue(w) \/ Crash(w) \/ HandlerSucceeds(w)
               \/ \E a \in RetryAfters : HandlerFails(w, a)
        PROVE  ev'[e] = ev[e]
    BY <2>4 DEF Start, NothingDue, Crash, HandlerSucceeds, HandlerFails
  <2>5. CASE Tick
    BY <2>5 DEF Tick
  <2>6. ASSUME NEW f \in Events, Cancel(f) PROVE ev'[e] = ev[e]
    BY <2>6 DEF Cancel
  <2> QED BY <2>1, <2>2, <2>3, <2>4, <2>5, <2>6 DEF Next, Work
<1> QED BY <1>1, QueueInvariant, PTL DEF Spec, RetiredForGood

-----------------------------------------------------------------------------
(* Leases.  A lock is never older than the claim it belongs to, which is   *)
(* what keeps it from expiring under a worker that is still within its     *)
(* lease; only expired locks are taken over.                               *)

\* Ages are numbers, and a worker without an event has spent nothing on it.
Clocks ==
  /\ \A e \in Events : ev[e].age \in Nat
  /\ \A w \in Workers : wk[w].spent \in Nat /\ (~Holds(w) => wk[w].spent = 0)

\* A lock was taken when its owner's claim began.
LockNoOlder ==
  \A w \in Workers :
    Holds(w) /\ ev[wk[w].job].lock = w => ev[wk[w].job].age <= wk[w].spent

LeaseInv == Clocks /\ LockNoOlder /\ LeaseHeld

\* Nobody holds anything at first.
LEMMA LeaseInit == Init => LeaseInv
BY DEF Init, LeaseInv, Clocks, LockNoOlder, LeaseHeld, Holds, Resting

\* Every step keeps the lease of a worker that is within it.
LEMMA LeaseStep == QueueInv /\ LeaseInv /\ [Next]_vars => LeaseInv'
<1> SUFFICES ASSUME QueueInv, LeaseInv, [Next]_vars PROVE LeaseInv' OBVIOUS
<1> USE OutboxAssumption
    DEF QueueInv, Shape, JobHandled, LeaseInv, Clocks, LockNoOlder, LeaseHeld, Holds
<1>1. ASSUME NEW e \in Events, NEW d \in RetryAfters, Enqueue(e, d) PROVE LeaseInv'
  BY <1>1 DEF Enqueue
<1>2. ASSUME NEW e \in Events, Cancel(e) PROVE LeaseInv'
  BY <1>2 DEF Cancel
<1>3. ASSUME NEW w \in Workers, Start(w) PROVE LeaseInv'
  BY <1>3 DEF Start, Resting
<1>4. ASSUME NEW w \in Workers, Claim(w) PROVE LeaseInv'
  BY <1>4 DEF Claim, Due
<1>5. ASSUME NEW w \in Workers, NothingDue(w) PROVE LeaseInv'
  BY <1>5 DEF NothingDue
<1>6. ASSUME NEW w \in Workers, HandlerSucceeds(w) PROVE LeaseInv'
  BY <1>6 DEF HandlerSucceeds
<1>7. ASSUME NEW w \in Workers, NEW a \in RetryAfters, HandlerFails(w, a) PROVE LeaseInv'
  BY <1>7 DEF HandlerFails
<1>8. ASSUME NEW w \in Workers, Ack(w) PROVE LeaseInv'
  BY <1>8 DEF Ack, Resting
<1>9. ASSUME NEW w \in Workers, Retry(w) PROVE LeaseInv'
  BY <1>9 DEF Retry, Resting
<1>10. ASSUME NEW w \in Workers, Crash(w) PROVE LeaseInv'
  BY <1>10 DEF Crash, Resting
<1>11. CASE Tick
  <2>1. ASSUME NEW e \in Events
        PROVE  ev'[e].age = IF ev[e].lock = None THEN ev[e].age
                            ELSE Smaller(ev[e].age + 1, Lease)
    BY <1>11 DEF Tick
  <2>2. ASSUME NEW e \in Events PROVE ev'[e].age \in Nat /\ ev'[e].age <= ev[e].age + 1
    <3> DEFINE a == ev[e].age
    <3>1. a \in Nat /\ Lease \in Nat OBVIOUS
    <3> HIDE DEF a
    <3>2. Smaller(a + 1, Lease) \in Nat /\ Smaller(a + 1, Lease) <= a + 1
      BY <3>1 DEF Smaller
    <3>3. ev'[e].age \in {a, Smaller(a + 1, Lease)} BY <2>1 DEF a
    <3> QED BY <3>1, <3>2, <3>3 DEF a
  <2>3. ASSUME NEW w \in Workers
        PROVE  wk'[w].spent = IF Holds(w) THEN wk[w].spent + 1 ELSE wk[w].spent
    BY <1>11 DEF Tick
  <2>4. Clocks' BY <1>11, TickKeeps, <2>2, <2>3
  <2>5. ASSUME NEW w \in Workers, Holds(w)'
        PROVE  /\ Holds(w) /\ wk'[w].job = wk[w].job /\ wk[w].job \in Events
               /\ ev'[wk[w].job].lock = ev[wk[w].job].lock
               /\ wk'[w].spent = wk[w].spent + 1
    BY <1>11, TickKeeps, <2>3, <2>5
  <2>6. ASSUME NEW w \in Workers, Holds(w)', (ev[wk[w].job].lock = w)'
        PROVE  (ev[wk[w].job].age <= wk[w].spent)'
    <3>1. ev[wk[w].job].age <= wk[w].spent BY <2>5, <2>6
    <3>2. ev'[wk[w].job].age <= ev[wk[w].job].age + 1 BY <2>2, <2>5, <2>6
    <3>3. /\ ev[wk[w].job].age \in Nat /\ ev'[wk[w].job].age \in Nat /\ wk[w].spent \in Nat
          /\ wk'[w].job = wk[w].job /\ wk'[w].spent = wk[w].spent + 1
      BY <2>2, <2>5, <2>6
    <3> HIDE DEF QueueInv, Shape, JobHandled, LeaseInv, Clocks, LockNoOlder, LeaseHeld, Holds
    <3> QED BY <3>1, <3>2, <3>3
  <2>7. LeaseHeld' BY <2>5
  <2>8. LockNoOlder' BY <2>6
  <2> QED BY <2>4, <2>7, <2>8
<1>12. CASE UNCHANGED vars
  BY <1>12 DEF vars
<1> QED BY <1>1, <1>2, <1>3, <1>4, <1>5, <1>6, <1>7, <1>8, <1>9, <1>10, <1>11, <1>12
        DEF Next, Work

\* Within its lease a worker owns the lock of its event, so that nobody else can
\* claim, acknowledge or retry it.
THEOREM Exclusive == Spec => []LeaseHeld
<1>1. LeaseInv => LeaseHeld BY DEF LeaseInv
<1> QED BY <1>1, QueueInvariant, LeaseInit, LeaseStep, PTL DEF Spec

\* A lock is released by its owner's own report, also when a late worker returns.
THEOREM ReleasedByOwner == Spec => OwnerReleases
<1>1. QueueInv /\ [Next]_vars =>
        [\A e \in Events :
           ev[e].lock # None /\ ev'[e].lock = None =>
             LET owner == ev[e].lock IN
               /\ wk[owner].job = e /\ wk[owner].phase \in {"ok", "error"}
               /\ wk'[owner].phase = "idle"]_vars
  <2> DEFINE Reported(e, owner) == /\ wk[owner].job = e /\ wk[owner].phase \in {"ok", "error"}
                                   /\ wk'[owner].phase = "idle"
  <2> SUFFICES ASSUME QueueInv, Next, NEW e \in Events,
                      ev[e].lock # None, ev'[e].lock = None
               PROVE  Reported(e, ev[e].lock)
    OBVIOUS
  <2> USE OutboxAssumption DEF QueueInv, Shape
  <2>1. ASSUME NEW f \in Events, NEW d \in RetryAfters, Enqueue(f, d) PROVE FALSE
    BY <2>1 DEF Enqueue
  <2>2. ASSUME NEW f \in Events, Cancel(f) PROVE FALSE
    BY <2>2 DEF Cancel
  <2>3. ASSUME NEW w \in Workers, Claim(w) PROVE FALSE
    BY <2>3 DEF Claim
  <2>4. ASSUME NEW w \in Workers, Ack(w)
        PROVE  Reported(e, ev[e].lock)
    BY <2>4 DEF Ack, Resting
  <2>5. ASSUME NEW w \in Workers, Retry(w)
        PROVE  Reported(e, ev[e].lock)
    BY <2>5 DEF Retry, Resting
  <2>6. ASSUME NEW w \in Workers,
               \/ Start(w) \/ NothingDue(w) \/ Crash(w) \/ HandlerSucceeds(w)
               \/ \E a \in RetryAfters : HandlerFails(w, a)
        PROVE  FALSE
    BY <2>6 DEF Start, NothingDue, Crash, HandlerSucceeds, HandlerFails
  <2>7. CASE Tick
    BY <2>7, TickKeeps
  <2> HIDE OutboxAssumption DEF QueueInv, Shape
  <2> QED BY <2>1, <2>2, <2>3, <2>4, <2>5, <2>6, <2>7 DEF Next, Work
<1> QED BY <1>1, QueueInvariant, PTL DEF Spec, OwnerReleases
=============================================================================
