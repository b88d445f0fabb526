---------------------------- MODULE MCStorefront ----------------------------
(***************************************************************************)
(* A small instance of the storefront for TLC: one listing, two handlers   *)
(* at once, three requests in all.                                         *)
(***************************************************************************)
EXTENDS Storefront

One == 100000   \* an amount of one

(* With discounts, every fee and any length; and with no discount, the     *)
(* default fee, and stays of a week to four weeks.                         *)
TwoTerms ==
    {[price |-> 4 * One, weekly |-> 20, monthly |-> 25, cleaning |-> 2 * One, fee |-> 12,
      min |-> 1, max |-> 0],
     [price |-> 3 * One, weekly |-> 0, monthly |-> 0, cleaning |-> 0, fee |-> 12,
      min |-> 7, max |-> 27]}
=============================================================================
