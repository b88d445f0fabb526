------------------------------ MODULE Payments ------------------------------
(***************************************************************************)
(* PaymentsService: initiatePayment, the PayPal capture, the MoMo status   *)
(* poll, completePayment and processRefund; and the guest at the           *)
(* provider's page, who is external.  The Stripe webhook has no route (the *)
(* controller's handler is commented out), so none of its events arrives.  *)
(*                                                                         *)
(* Transaction rows are a log nothing reads back; only the failure of      *)
(* writing one matters, and it is modelled.                                *)
(***************************************************************************)
EXTENDS Platform

Frame == UNCHANGED <<today, property, bookings, history, dispute>>

SetPayment(b, s) ==
    /\ ~PaymentLocked(b)
    /\ payment' = [payment EXCEPT ![b].status = s]

-----------------------------------------------------------------------------
(* initiatePayment.                                                        *)

(* The booking's status is not looked at.                                  *)
PayRead(r, b) ==
    /\ Exists(b)
    /\ payment[b] = NoPayment
    /\ Start(r, Read(b, "pay_insert"))
    /\ Frame /\ UNCHANGED <<money, wallets>>

(* Payment.bookingId is unique: the insert of a second payment throws.     *)
PayInsert(r, m) ==
    LET b == req[r].b IN
    /\ At(r, "pay_insert")
    /\ payment[b] = NoPayment
    /\ payment' = [payment EXCEPT ![b] = [NoPayment EXCEPT !.status = "PENDING", !.provider = m]]
    /\ Goto(r, IF m = "INTERNAL" THEN "pay_check" ELSE "pay_order")
    /\ Frame /\ UNCHANGED <<order, refunded, returned, wallets>>

(* createPaymentIntent, createOrder or requestToPay.                       *)
PayOrder(r) ==
    /\ At(r, "pay_order")
    /\ order' = [order EXCEPT ![req[r].b].state = "created"]
    /\ Goto(r, "pay_update")
    /\ Frame /\ UNCHANGED <<payment, refunded, returned, wallets>>

(* payFromWallet: check the balance, then decrement it.                    *)
PayCheck(r) ==
    /\ At(r, "pay_check")
    /\ Goto(r, IF balance["guest"] >= Price THEN "pay_debit" ELSE "pay_failed")
    /\ Frame /\ UNCHANGED <<money, wallets>>

PayDebit(r) ==
    /\ At(r, "pay_debit")
    /\ balance' = [balance EXCEPT !["guest"] = @ - Price]
    /\ order' = [order EXCEPT ![req[r].b].state = "captured"]
    /\ Goto(r, "pay_update")
    /\ Frame /\ UNCHANGED <<payment, refunded, returned, pending, withdrawn>>

(* The provider's reference, and the status, whatever it was by then: a    *)
(* wallet payment is complete, and its capturedAt is set.                  *)
PayUpdate(r) ==
    LET b == req[r].b
        s == IF payment[b].provider = "INTERNAL" THEN "COMPLETED" ELSE "PROCESSING" IN
    /\ At(r, "pay_update")
    /\ ~PaymentLocked(b)
    /\ payment' = [payment EXCEPT ![b].status = s, ![b].ref = TRUE,
                                  ![b].captured = @ \/ s = "COMPLETED"]
    /\ Goto(r, "pay_log")
    /\ Frame /\ UNCHANGED <<order, refunded, returned, wallets>>

(* logTransaction; then the client learns the approval URL or reference.   *)
PayLog(r) ==
    /\ At(r, "pay_log")
    /\ order' = [order EXCEPT ![req[r].b].known = TRUE]
    /\ Finish(r)
    /\ Frame /\ UNCHANGED <<payment, refunded, returned, wallets>>

(* Any await inside the try may reject; the catch marks the payment FAILED *)
(* whatever has been done by then.                                         *)
PayThrow(r) ==
    /\ req[r].pc \in {"pay_order", "pay_check", "pay_debit", "pay_update", "pay_log"}
    /\ Goto(r, "pay_failed")
    /\ Frame /\ UNCHANGED <<money, wallets>>

PayFailed(r) ==
    /\ At(r, "pay_failed")
    /\ SetPayment(req[r].b, "FAILED")
    /\ Finish(r)
    /\ Frame /\ UNCHANGED <<order, refunded, returned, wallets>>

-----------------------------------------------------------------------------
(* The guest at the provider.                                              *)

SetOrder(b, s) ==
    /\ order' = [order EXCEPT ![b].state = s]
    /\ Frame /\ UNCHANGED <<payment, refunded, returned, wallets, req>>

(* A PayPal order is approved on the page behind the approval URL; a card  *)
(* or MoMo payment is taken at once, or declined.                          *)
GuestApproves(b) ==
    /\ payment[b].provider = "PAYPAL"
    /\ order[b].state = "created" /\ order[b].known
    /\ SetOrder(b, "approved")

GuestPays(b) ==
    /\ payment[b].provider \in {"STRIPE", "MTN_MOMO"}
    /\ order[b].state = "created"
    /\ SetOrder(b, "captured")

GuestDeclines(b) ==
    /\ payment[b].provider \in {"STRIPE", "MTN_MOMO"}
    /\ order[b].state = "created"
    /\ SetOrder(b, "failed")

-----------------------------------------------------------------------------
(* capturePaypalPayment and checkMomoStatus.  The client names a reference *)
(* at the provider and a payment; nothing checks that they belong to each  *)
(* other, nor what the payment's provider, status or owner is.             *)

(* A paymentId that names no payment only captures the order, which is     *)
(* what a handler dropped right after the capture does.                    *)
Named(o, m, b) ==
    /\ payment[o].provider = m /\ order[o].known
    /\ payment[b].provider # NONE

(* MUTANT of CapturePaypal: the answer of captureOrder is not looked at.   *)
CaptureUnchecked(r, o, b) ==
    /\ Named(o, "PAYPAL", b)
    /\ Start(r, [Idle EXCEPT !.pc = "complete_read", !.b = b])
    /\ Frame /\ UNCHANGED <<money, wallets>>

(* MUTANT of CapturePaypal: an order captured already counts as captured.  *)
CaptureAgain(r, o, b) ==
    /\ Named(o, "PAYPAL", b)
    /\ order[o].state \in {"approved", "captured"}
    /\ Start(r, [Idle EXCEPT !.pc = "complete_read", !.b = b])
    /\ order' = [order EXCEPT ![o].state = "captured"]
    /\ Frame /\ UNCHANGED <<payment, refunded, returned, wallets>>

(* PayPal captures an approved order once; otherwise captureOrder throws.  *)
CapturePaypal(r, o, b) ==
    /\ Named(o, "PAYPAL", b)
    /\ order[o].state = "approved"
    /\ Start(r, [Idle EXCEPT !.pc = "complete_read", !.b = b])
    /\ order' = [order EXCEPT ![o].state = "captured"]
    /\ Frame /\ UNCHANGED <<payment, refunded, returned, wallets>>

(* A reference can be asked for again and again.  Bound: MaxFunds.         *)
PollMomo(r, o, b) ==
    /\ Named(o, "MTN_MOMO", b)
    /\ \/ /\ order[o].state = "captured"
          /\ pending + HostPayout <= MaxFunds
          /\ Start(r, [Idle EXCEPT !.pc = "complete_read", !.b = b])
       \/ /\ order[o].state = "failed"
          /\ Start(r, [Idle EXCEPT !.pc = "momo_failed", !.b = b])
    /\ Frame /\ UNCHANGED <<money, wallets>>

MomoFailed(r) ==
    /\ At(r, "momo_failed")
    /\ SetPayment(req[r].b, "FAILED")
    /\ Finish(r)
    /\ Frame /\ UNCHANGED <<order, refunded, returned, wallets>>

(* completePayment: payment and booking are read once, before the          *)
(* transaction that acts on them.  Only a COMPLETED payment is left alone. *)
CompleteRead(r) ==
    LET b == req[r].b IN
    /\ At(r, "complete_read")
    /\ IF Settled(b)
       THEN Finish(r)
       ELSE req' = [req EXCEPT ![r] = Read(b, "complete_update")]
    /\ Frame /\ UNCHANGED <<money, wallets>>

(* The transaction's first UPDATE, of the payment row: locked from here.   *)
CompleteUpdate(r) ==
    /\ At(r, "complete_update")
    /\ ~PaymentLocked(req[r].b)
    /\ Goto(r, "complete_commit")
    /\ Frame /\ UNCHANGED <<money, wallets>>

(* MUTANT of CompleteCommit: the booking is left to the host.              *)
CompleteUnconfirmed(r) ==
    /\ At(r, "complete_commit")
    /\ payment' = [payment EXCEPT ![req[r].b].status = "COMPLETED",
                                  ![req[r].b].captured = TRUE]
    /\ pending' = pending + HostPayout
    /\ Finish(r)
    /\ Frame /\ UNCHANGED <<order, refunded, returned, balance, withdrawn>>

(* MUTANT of CompleteCommit: the provider's own word for complete.         *)
CompleteRaw(r) ==
    LET b == req[r].b IN
    /\ At(r, "complete_commit")
    /\ payment' = [payment EXCEPT ![b].status = "SUCCESSFUL", ![b].captured = TRUE]
    /\ IF req[r].status = "PENDING"
       THEN ~BookingLocked(b) /\ SetStatus(b, "CONFIRMED")
       ELSE UNCHANGED bookings
    /\ pending' = pending + HostPayout
    /\ Finish(r)
    /\ UNCHANGED <<today, property, history, dispute, order, refunded, returned, balance,
                   withdrawn>>

(* The booking is confirmed if it was pending when read; no history row.   *)
CompleteCommit(r) ==
    LET b == req[r].b IN
    /\ At(r, "complete_commit")
    /\ payment' = [payment EXCEPT ![b].status = "COMPLETED", ![b].captured = TRUE]
    /\ IF req[r].status = "PENDING"
       THEN ~BookingLocked(b) /\ SetStatus(b, "CONFIRMED")
       ELSE UNCHANGED bookings
    /\ pending' = pending + HostPayout
    /\ Finish(r)
    /\ UNCHANGED <<today, property, history, dispute, order, refunded, returned, balance,
                   withdrawn>>

-----------------------------------------------------------------------------
(* processRefund(payment, amt), called by reject, cancel and resolve; when *)
(* it is done the caller goes on at req[r].ret.                            *)

RefundRead(r) ==
    /\ At(r, "refund_read")
    /\ Settled(req[r].b)
    /\ Goto(r, "refund_provider")
    /\ Frame /\ UNCHANGED <<money, wallets>>

(* MUTANT of RefundProvider: a missing case falls through to the row.      *)
RefundNobody(r) ==
    /\ At(r, "refund_provider")
    /\ Goto(r, "refund_row")
    /\ Frame /\ UNCHANGED <<money, wallets>>

(* What a provider refunds: a positive amount, and no more in all than it  *)
(* captured for the payment's own order.                                   *)
Refundable(b, amount) ==
    /\ payment[b].provider \in {"PAYPAL", "MTN_MOMO"}
    /\ payment[b].ref /\ order[b].state = "captured"
    /\ amount > 0 /\ returned[b] + amount <= Price

(* The money goes back: an increment of the guest's wallet, whatever the   *)
(* amount, or a call to the provider, which may refuse (a Stripe payment   *)
(* falls through to the PayPal call and is refused there).                 *)
RefundProvider(r) ==
    LET b == req[r].b IN
    /\ At(r, "refund_provider")
    /\ \/ /\ payment[b].provider = "INTERNAL"
          /\ balance' = [balance EXCEPT !["guest"] = @ + req[r].amt]
       \/ /\ Refundable(b, req[r].amt)
          /\ UNCHANGED balance
    /\ returned' = [returned EXCEPT ![b] = @ + req[r].amt]
    /\ Goto(r, "refund_row")
    /\ Frame /\ UNCHANGED <<payment, order, refunded, pending, withdrawn>>

RefundRow(r) ==
    /\ At(r, "refund_row")
    /\ refunded' = [refunded EXCEPT ![req[r].b] = @ + req[r].amt]
    /\ Goto(r, "refund_update")
    /\ Frame /\ UNCHANGED <<payment, order, returned, wallets>>

RefundUpdate(r) ==
    /\ At(r, "refund_update")
    /\ SetPayment(req[r].b, IF req[r].amt >= Price THEN "REFUNDED" ELSE "PARTIALLY_REFUNDED")
    /\ IF req[r].ret = "idle" THEN Finish(r) ELSE Goto(r, req[r].ret)
    /\ Frame /\ UNCHANGED <<order, refunded, returned, wallets>>
=============================================================================
