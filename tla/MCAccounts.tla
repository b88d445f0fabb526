----------------------------- MODULE MCAccounts -----------------------------
(***************************************************************************)
(* A small instance of the account for TLC: two handlers at once, four     *)
(* requests in all.                                                        *)
(***************************************************************************)
EXTENDS Accounts
=============================================================================
