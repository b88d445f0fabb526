------------------------------ MODULE MCRental ------------------------------
(***************************************************************************)
(* Small instances of the backend for TLC.                                 *)
(***************************************************************************)
EXTENDS Claims, TLC

Sym == Permutations(Reqs) \cup Permutations(Bookings)

(* Days 1 to 3 and 2 to 4 overlap without being equal: two lock keys.      *)
Crossing == {[ci |-> 1, co |-> 3], [ci |-> 2, co |-> 4]}
OneStay  == {[ci |-> 2, co |-> 3]}
(* Two stays that do not collide.                                          *)
TwoStays == {[ci |-> 1, co |-> 2], [ci |-> 2, co |-> 3]}
(* An amount with the sign the form expects, and one with the other.       *)
OneEachWay == {-1, 1}
TwoEachWay == {-2, 2}
(* A block that touches the second stay only.                              *)
OneBlock == {[ci |-> 4, co |-> 5]}
=============================================================================
