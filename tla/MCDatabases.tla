---------------------------- MODULE MCDatabases ----------------------------
(* Instances of Databases for TLC. *)
EXTENDS Databases, TLC

\* Requests are interchangeable, and with them databases and passwords.
Symmetry == Permutations(Requests)
=============================================================================
