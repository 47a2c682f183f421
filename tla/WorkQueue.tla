------------------------------ MODULE WorkQueue ------------------------------
(***************************************************************************)
(* What the outbox promises to the code that writes events into it: work   *)
(* is never lost, and retired only after it was done or by the transaction *)
(* that cancels it.  Work may be done more than once.                      *)
(***************************************************************************)
CONSTANTS
  Events,      \* identities of outbox events
  Cancellable  \* events a later transaction may cancel

VARIABLES
  queue,   \* queue[e]: "absent", "pending", "cancelled" or "processed"
  handled  \* events whose handler has succeeded at least once

Init ==
  /\ queue = [e \in Events |-> "absent"]
  /\ handled = {}

Enqueue(e) ==
  /\ queue[e] = "absent"
  /\ queue' = [queue EXCEPT ![e] = "pending"]
  /\ UNCHANGED handled

\* A handler succeeds, for the first time or again.
Handle(e) ==
  /\ queue[e] # "absent"
  /\ handled' = handled \cup {e}
  /\ UNCHANGED queue

Complete(e) ==
  /\ queue[e] \in {"pending", "cancelled"}
  /\ e \in handled
  /\ queue' = [queue EXCEPT ![e] = "processed"]
  /\ UNCHANGED handled

Cancel(e) ==
  /\ e \in Cancellable
  /\ queue[e] = "pending"
  /\ queue' = [queue EXCEPT ![e] = "cancelled"]
  /\ UNCHANGED handled

Next == \E e \in Events : Enqueue(e) \/ Handle(e) \/ Complete(e) \/ Cancel(e)

Spec == Init /\ [][Next]_<<queue, handled>>
=============================================================================
