------------------------------- MODULE Outbox -------------------------------
(***************************************************************************)
(* Table outbox_events and the workers that drain it: claims with a lease, *)
(* acknowledgements and retries guarded by the lock's owner, exponential   *)
(* backoff, cancellation by other transactions, and workers that crash.    *)
(*                                                                         *)
(* Time advances in ticks of the worker's one-second loop; delays and      *)
(* lease ages are counted in ticks.  A handler is a black box that takes   *)
(* up to MaxHandle ticks and then succeeds or fails.                       *)
(***************************************************************************)
EXTENDS Naturals, FiniteSets

CONSTANTS
  Events,        \* outbox events, numbered in the order of created_at
  Workers,       \* worker processes; a restarted worker is a new one
  Cancellable,   \* events that a later transaction may cancel
  Poison,        \* events whose handler always fails
  Lease,         \* ticks after which a lock expires (5 minutes in the code)
  MaxShift,      \* the cap on the exponent of the backoff (8 in the code)
  MaxBackoff,    \* the cap on the exponential backoff (300 seconds)
  MaxRetryAfter, \* the cap on a delay the handler asks for (1 hour)
  RetryAfters,   \* delays that handlers ask for; 0 asks for none
  MaxHandle,     \* bound: ticks a handler takes
  MaxFails,      \* bound: failures of handlers of events that are not poison
  MaxCrashes,    \* bound: workers that crash
  None           \* no worker, no event

ASSUME OutboxAssumption ==
  /\ Events \subseteq Nat
  /\ Cancellable \subseteq Events
  /\ Poison \subseteq Events
  /\ Lease \in Nat \ {0}
  /\ MaxShift \in Nat
  /\ MaxBackoff \in Nat
  /\ MaxRetryAfter \in Nat
  /\ RetryAfters \subseteq Nat
  /\ MaxHandle \in Nat
  /\ MaxFails \in Nat
  /\ MaxCrashes \in Nat
  /\ None \notin Workers \cup Events

VARIABLES
  ev,      \* ev[e]: the row of event e
  wk,      \* wk[w]: the worker process w
  handled, \* events whose handler has succeeded at least once
  fails,   \* failures so far of handlers that are not poison
  crashes  \* crashes so far

vars == <<ev, wk, handled, fails, crashes>>

Smaller(a, b) == IF a < b THEN a ELSE b

EventRow ==
  [state : {"absent", "pending", "cancelled", "processed"},
   wait : Nat,                    \* ticks until available_at
   lock : Workers \cup {None},    \* locked_by
   age : 0 .. Lease,              \* ticks since locked_at
   attempts : 0 .. MaxShift + 1]  \* the code tells no larger values apart

WorkerState ==
  [phase : {"new", "idle", "busy", "ok", "error", "dead"},
   job : Events \cup {None},
   attempts : 0 .. MaxShift + 1,  \* as returned by the claim
   spent : 0 .. MaxHandle,        \* ticks since the claim
   after : Nat,                   \* the delay a failed handler asks for
   polled : BOOLEAN]              \* has looked for work in this tick

TypeOK ==
  /\ ev \in [Events -> EventRow]
  /\ wk \in [Workers -> WorkerState]
  /\ handled \subseteq Events
  /\ fails \in 0 .. MaxFails
  /\ crashes \in 0 .. MaxCrashes

Resting(phase) == [phase |-> phase, job |-> None, attempts |-> 0, spent |-> 0,
                   after |-> 0, polled |-> TRUE]

Init ==
  /\ ev = [e \in Events |-> [state |-> "absent", wait |-> 0, lock |-> None,
                             age |-> 0, attempts |-> 0]]
  /\ wk = [w \in Workers |-> Resting("new")]
  /\ handled = {}
  /\ fails = 0
  /\ crashes = 0

-----------------------------------------------------------------------------
\* INSERT INTO outbox_events, with or without a delay.
Enqueue(e, delay) ==
  /\ ev[e].state = "absent"
  /\ \A f \in Events : f < e => ev[f].state # "absent"
  /\ ev' = [ev EXCEPT ![e] = [@ EXCEPT !.state = "pending", !.wait = delay]]
  /\ UNCHANGED <<wk, handled, fails, crashes>>

\* requestPower and SyncRuntimeStats set processed_at and leave the lock alone.
Cancel(e) ==
  /\ e \in Cancellable
  /\ ev[e].state = "pending"
  /\ ev' = [ev EXCEPT ![e].state = "cancelled"]
  /\ UNCHANGED <<wk, handled, fails, crashes>>

-----------------------------------------------------------------------------
\* Mutant: the claim does not look at the lock.
DueLocked(e) == ev[e].state = "pending" /\ ev[e].wait = 0

\* Mutant: the claim does not look at processed_at.
DueRetired(e) ==
  /\ ev[e].state # "absent"
  /\ ev[e].wait = 0
  /\ ev[e].lock = None \/ ev[e].age >= Lease

Due(e) ==
  /\ ev[e].state = "pending"
  /\ ev[e].wait = 0
  /\ ev[e].lock = None \/ ev[e].age >= Lease

Start(w) ==
  /\ wk[w].phase = "new"
  /\ wk' = [wk EXCEPT ![w] = Resting("idle")]
  /\ UNCHANGED <<ev, handled, fails, crashes>>

\* processOne takes the oldest event that is due.
Claim(w) ==
  /\ wk[w].phase = "idle" /\ ~wk[w].polled
  /\ \E e \in Events :
       /\ Due(e)
       /\ \A f \in Events : Due(f) => e <= f
       /\ LET n == Smaller(ev[e].attempts + 1, MaxShift + 1) IN
            /\ ev' = [ev EXCEPT ![e] = [@ EXCEPT !.lock = w, !.age = 0, !.attempts = n]]
            /\ wk' = [wk EXCEPT ![w] = [@ EXCEPT !.phase = "busy", !.job = e, !.attempts = n]]
  /\ UNCHANGED <<handled, fails, crashes>>

\* Nothing is due: the loop waits for the next tick.
NothingDue(w) ==
  /\ wk[w].phase = "idle" /\ ~wk[w].polled
  /\ ~ \E e \in Events : Due(e)
  /\ wk' = [wk EXCEPT ![w].polled = TRUE]
  /\ UNCHANGED <<ev, handled, fails, crashes>>

HandlerSucceeds(w) ==
  /\ wk[w].phase = "busy" /\ wk[w].job \notin Poison
  /\ wk' = [wk EXCEPT ![w].phase = "ok"]
  /\ handled' = handled \cup {wk[w].job}
  /\ UNCHANGED <<ev, fails, crashes>>

HandlerFails(w, after) ==
  /\ wk[w].phase = "busy"
  /\ \/ wk[w].job \in Poison /\ UNCHANGED fails
     \/ fails < MaxFails /\ fails' = fails + 1
  /\ wk' = [wk EXCEPT ![w] = [@ EXCEPT !.phase = "error", !.after = after]]
  /\ UNCHANGED <<ev, handled, crashes>>

\* Mutant: the acknowledgement does not compare locked_by.
AckAnyone(w) ==
  /\ wk[w].phase = "ok"
  /\ ev' = [ev EXCEPT ![wk[w].job] = [@ EXCEPT !.state = "processed", !.lock = None]]
  /\ wk' = [wk EXCEPT ![w] = Resting("idle")]
  /\ UNCHANGED <<handled, fails, crashes>>

\* WHERE id = $1 AND locked_by = $2.
Ack(w) ==
  /\ wk[w].phase = "ok"
  /\ LET e == wk[w].job IN
       ev' = IF ev[e].lock = w
             THEN [ev EXCEPT ![e] = [@ EXCEPT !.state = "processed", !.lock = None]]
             ELSE ev
  /\ wk' = [wk EXCEPT ![w] = Resting("idle")]
  /\ UNCHANGED <<handled, fails, crashes>>

\* Mutant: every retry comes after one second.
BackoffConstant(attempts, after) == 1

Backoff(attempts, after) ==
  IF after > 0 THEN Smaller(after, MaxRetryAfter)
  ELSE Smaller(MaxBackoff, 2 ^ Smaller(attempts, MaxShift))

\* Mutant: an event that has failed often enough is dropped.
RetryDrops(w) ==
  /\ wk[w].phase = "error"
  /\ LET e == wk[w].job IN
       ev' = IF ev[e].lock = w
             THEN [ev EXCEPT ![e] = [@ EXCEPT !.lock = None,
                       !.state = IF wk[w].attempts >= MaxShift THEN "processed" ELSE @]]
             ELSE ev
  /\ wk' = [wk EXCEPT ![w] = Resting("idle")]
  /\ UNCHANGED <<handled, fails, crashes>>

Retry(w) ==
  /\ wk[w].phase = "error"
  /\ LET e == wk[w].job IN
       ev' = IF ev[e].lock = w
             THEN [ev EXCEPT ![e] = [@ EXCEPT !.lock = None,
                                       !.wait = Backoff(wk[w].attempts, wk[w].after)]]
             ELSE ev
  /\ wk' = [wk EXCEPT ![w] = Resting("idle")]
  /\ UNCHANGED <<handled, fails, crashes>>

\* The process is killed, or shut down: its context is cancelled, and with it
\* the statement that would have acknowledged or released the event.
Crash(w) ==
  /\ crashes < MaxCrashes
  /\ wk[w].phase \in {"idle", "busy", "ok", "error"}
  /\ wk' = [wk EXCEPT ![w] = Resting("dead")]
  /\ crashes' = crashes + 1
  /\ UNCHANGED <<ev, handled, fails>>

\* A second passes.  An idle worker looks for work once in each.
Tick ==
  /\ \A w \in Workers :
       /\ wk[w].phase = "idle" => wk[w].polled
       /\ wk[w].phase \in {"busy", "ok", "error"} => wk[w].spent < MaxHandle
  /\ ev' = [e \in Events |->
              [ev[e] EXCEPT !.wait = IF @ = 0 THEN 0 ELSE @ - 1,
                            !.age = IF ev[e].lock = None THEN @ ELSE Smaller(@ + 1, Lease)]]
  /\ wk' = [w \in Workers |->
              IF wk[w].phase \in {"busy", "ok", "error"}
              THEN [wk[w] EXCEPT !.spent = @ + 1]
              ELSE [wk[w] EXCEPT !.polled = wk[w].phase # "idle"]]
  /\ UNCHANGED <<handled, fails, crashes>>

Work(w) ==
  \/ Claim(w) \/ NothingDue(w)
  \/ HandlerSucceeds(w) \/ \E after \in RetryAfters : HandlerFails(w, after)
  \/ Ack(w) \/ Retry(w)

Next ==
  \/ \E e \in Events : (\E delay \in RetryAfters : Enqueue(e, delay)) \/ Cancel(e)
  \/ \E w \in Workers : Start(w) \/ Work(w) \/ Crash(w)
  \/ Tick

Spec == Init /\ [][Next]_vars

\* Handlers return, a live worker keeps polling, Docker restarts a worker that
\* died and time passes.  Nothing is assumed of the writers of events.
Fairness ==
  /\ \A w \in Workers : WF_vars(Work(w)) /\ WF_vars(Start(w))
  /\ WF_vars(Tick)

FairSpec == Spec /\ Fairness

-----------------------------------------------------------------------------
(* Properties.                                                             *)

Holds(w) == wk[w].phase \in {"busy", "ok", "error"}

\* A worker is the only one with the right to finish its event for as long as
\* its lease lasts, whatever other workers claim, fail, crash or retry.
LeaseHeld ==
  \A w \in Workers : Holds(w) /\ wk[w].spent < Lease => ev[wk[w].job].lock = w

\* Only the worker that owns the lock releases it, with its own report: the late
\* acknowledgement or retry of a worker whose lease expired does not touch its
\* successor's claim.
OwnerReleases ==
  [][\A e \in Events :
       ev[e].lock # None /\ ev'[e].lock = None =>
         LET owner == ev[e].lock IN
           /\ wk[owner].job = e /\ wk[owner].phase \in {"ok", "error"}
           /\ wk'[owner].phase = "idle"]_vars

\* A retired event is never handed out again and never becomes pending, not
\* even if it was cancelled while a worker was about to send it to a retry.
RetiredForGood ==
  [][\A e \in Events : ev[e].state \in {"cancelled", "processed"} =>
       /\ ev'[e].state \in {"cancelled", "processed"}
       /\ ev'[e].lock \in {ev[e].lock, None}]_vars

\* The outbox implements the abstract queue: no event is lost, and none is
\* retired unless a handler succeeded or a transaction cancelled it.
Queue == INSTANCE WorkQueue WITH queue <- [e \in Events |-> ev[e].state]

QueueSpec == Queue!Spec

\* What an event that keeps failing waits in the long run.
LastingDelays ==
  {Smaller(MaxBackoff, 2 ^ MaxShift)} \cup {Smaller(a, MaxRetryAfter) : a \in RetryAfters \ {0}}

\* The oldest event that is due goes first, so that events that fail for ever hold up
\* all that are newer whenever they are due.  An event whose handler can succeed is
\* nevertheless retired, also if workers crash while they hold it, as long as the
\* failing ones are done with in less time than each of them then waits; and provided
\* that handlers come to finish within their lease (otherwise two workers may take an
\* event from each other for ever).
NoStarvation ==
  \A n \in 0 .. MaxHandle :
    /\ n < Lease
    /\ \A d \in LastingDelays : Cardinality(Poison) * (n + 1) < d
    /\ <>[](\A w \in Workers : wk[w].spent <= n)
    => \A e \in Events \ Poison :
         ev[e].state = "pending" ~> ev[e].state \in {"cancelled", "processed"}
=============================================================================
