--------------------------- MODULE SafeReplacement ---------------------------
(***************************************************************************)
(* What the in-panel update promises to the owner of the panel: the old    *)
(* release is not touched before there is something to fall back to, and   *)
(* from then on there always is.  An update may be given up half-way, and  *)
(* one that was complete may still be taken back.                          *)
(***************************************************************************)
VARIABLES
  installed,  \* "old", "new", or "between" when parts of both are there
  fallback    \* whether there is a whole snapshot

Init ==
  /\ installed = "old"
  /\ fallback \in BOOLEAN   \* an earlier update may have left one

Secure ==
  /\ ~fallback /\ fallback' = TRUE
  /\ UNCHANGED installed

Begin ==
  /\ installed = "old" /\ fallback
  /\ installed' = "between"
  /\ UNCHANGED fallback

\* The last part of a release is replaced, forward or back.
Complete ==
  /\ installed = "between" /\ fallback
  /\ installed' \in {"old", "new"}
  /\ UNCHANGED fallback

TakeBack ==
  /\ installed = "new" /\ fallback
  /\ installed' = "between"
  /\ UNCHANGED fallback

Next == Secure \/ Begin \/ Complete \/ TakeBack

Spec == Init /\ [][Next]_<<installed, fallback>>
=============================================================================
