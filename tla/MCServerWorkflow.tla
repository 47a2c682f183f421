-------------------------- MODULE MCServerWorkflow --------------------------
(* Instances of ServerWorkflow for TLC. *)
EXTENDS ServerWorkflow, TLC

\* Power requests are interchangeable.
Symmetry == Permutations(Reqs)
=============================================================================
