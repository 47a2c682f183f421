------------------------- MODULE MCServerLifecycle -------------------------
(* Instances of ServerLifecycle for TLC. *)
EXTENDS ServerLifecycle, TLC

\* Requests are interchangeable and so are the identities of recovery events.
Symmetry == Permutations(Reqs) \cup Permutations(RecIds)
=============================================================================
