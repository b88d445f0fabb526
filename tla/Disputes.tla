------------------------------ MODULE Disputes ------------------------------
(***************************************************************************)
(* DisputesService: openDispute by the guest or the host, resolve and      *)
(* escalate by an admin.                                                   *)
(***************************************************************************)
EXTENDS Platform

Unchanged == UNCHANGED <<today, property, history, money>>

DisputeRead(r, b) ==
    /\ dispute[b] = NONE
    /\ bookings[b].status \in {"CONFIRMED", "CHECKED_IN", "CHECKED_OUT"}
    /\ Start(r, Read(b, "dispute_commit"))
    /\ Unchanged /\ UNCHANGED <<bookings, dispute, wallets>>

(* One transaction: the dispute (one per booking), the booking's status    *)
(* and, if the payment was complete when read, the host's pending balance. *)
DisputeCommit(r) ==
    LET b == req[r].b IN
    /\ At(r, "dispute_commit")
    /\ dispute[b] = NONE
    /\ ~BookingLocked(b)
    /\ dispute' = [dispute EXCEPT ![b] = "OPEN"]
    /\ SetStatus(b, "DISPUTED")
    /\ pending' = pending - (IF req[r].paid THEN HostPayout ELSE 0)
    /\ Finish(r)
    /\ Unchanged /\ UNCHANGED <<balance, withdrawn>>

(* Only a CLOSED dispute is refused, and nothing closes one.  amount is    *)
(* the optional refundAmount, 0 when left out and otherwise any number.    *)
(* Bound: MaxFunds.                                                        *)
ResolveRead(r, b, winner, amount) ==
    /\ dispute[b] # NONE
    /\ balance["host"] + HostPayout <= MaxFunds
    /\ Start(r, [Read(b, "resolve_update") EXCEPT !.arg = winner,
                    !.amt = IF winner = "HOST" \/ payment[b] = NoPayment THEN 0 ELSE amount])
    /\ Unchanged /\ UNCHANGED <<bookings, dispute, wallets>>

(* The transaction's dispute.update locks the row; the refund, if the      *)
(* guest won one, runs inside the transaction on another connection.       *)
ResolveUpdate(r) ==
    /\ At(r, "resolve_update")
    /\ ~DisputeLocked(req[r].b)
    /\ req' = [req EXCEPT ![r].ret = "resolve_commit",
                          ![r].pc = IF req[r].amt # 0
                                    THEN "refund_read" ELSE "resolve_commit"]
    /\ Unchanged /\ UNCHANGED <<bookings, dispute, wallets>>

ResolveCommit(r) ==
    LET b == req[r].b IN
    /\ At(r, "resolve_commit")
    /\ ~BookingLocked(b)
    /\ SetStatus(b, "CHECKED_OUT")
    /\ IF req[r].arg = "HOST"
       THEN /\ dispute' = [dispute EXCEPT ![b] = "RESOLVED_HOST"]
            /\ balance' = [balance EXCEPT !["host"] = @ + HostPayout]
       ELSE /\ dispute' = [dispute EXCEPT ![b] = "RESOLVED_GUEST"]
            /\ UNCHANGED balance
    /\ Finish(r)
    /\ Unchanged /\ UNCHANGED <<pending, withdrawn>>

(* One UPDATE, whatever the dispute's status was.                          *)
Escalate(b) ==
    /\ dispute[b] # NONE
    /\ ~DisputeLocked(b)
    /\ dispute' = [dispute EXCEPT ![b] = "ESCALATED"]
    /\ Unchanged /\ UNCHANGED <<bookings, wallets, req>>
=============================================================================
