------------------------------- MODULE Wallets -------------------------------
(***************************************************************************)
(* WalletService.withdraw.  topUp and internalTransfer have no caller.     *)
(***************************************************************************)
EXTENDS Platform

(* MUTANT of WithdrawRead: the balance is not checked.                     *)
WithdrawUnchecked(r, owner, amount) ==
    /\ Start(r, [Idle EXCEPT !.pc = "withdraw_debit", !.arg = owner, !.amt = amount])
    /\ UNCHANGED <<today, property, bookings, history, dispute, money, wallets>>

(* The only check is of the balance: a negative amount passes it, and the  *)
(* decrement will add to the wallet.  Bound: not beyond MaxFunds.          *)
WithdrawRead(r, owner, amount) ==
    /\ balance[owner] >= amount
    /\ amount < 0 => balance[owner] - amount <= MaxFunds
    /\ Start(r, [Idle EXCEPT !.pc = "withdraw_debit", !.arg = owner, !.amt = amount])
    /\ UNCHANGED <<today, property, bookings, history, dispute, money, wallets>>

WithdrawDebit(r) ==
    /\ At(r, "withdraw_debit")
    /\ balance' = [balance EXCEPT ![req[r].arg] = @ - req[r].amt]
    /\ withdrawn' = withdrawn + (IF req[r].arg = "host" THEN req[r].amt ELSE 0)
    /\ Finish(r)
    /\ UNCHANGED <<today, property, bookings, history, dispute, money, pending>>
=============================================================================
