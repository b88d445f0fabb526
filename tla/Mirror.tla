------------------------------- MODULE Mirror -------------------------------
(***************************************************************************)
(* What a copy of a record promises, whichever store keeps it: it may lag, *)
(* go back to an older version or be absent, and it never shows anything   *)
(* but a version that was committed before.                                *)
(***************************************************************************)
CONSTANT Versions

VARIABLES
    past,    \* the versions committed so far
    shown    \* the versions the copies show

Init == past \subseteq Versions /\ shown \subseteq past

Commit == \E v \in Versions : past' = past \cup {v} /\ UNCHANGED shown
Show   == shown' \in SUBSET past /\ UNCHANGED past

Spec == Init /\ [][Commit \/ Show]_<<past, shown>>
=============================================================================
