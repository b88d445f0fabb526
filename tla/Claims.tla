------------------------------- MODULE Claims -------------------------------
(***************************************************************************)
(* What comments, error messages and the README of the repository say the  *)
(* services do.  The code does not keep these: TLC shows how each fails.   *)
(***************************************************************************)
EXTENDS RentalProperties

Quiet == \A r \in Reqs : At(r, "idle")

(* "with ACID double-booking prevention" (bookings.service.ts:25): no two  *)
(* bookings that are pending, confirmed or checked in overlap.             *)
NoLiveOverlap ==
    \A b, c \in Bookings :
        /\ bookings[b].status \in Live /\ bookings[c].status \in Live
        /\ Overlaps(bookings[b].stay, bookings[c].stay)
        => b = c

(* "Cannot cancel booking with status: ..." (bookings.service.ts:315): a   *)
(* cancellation goes ahead only for a booking read PENDING or CONFIRMED.   *)
CancelOnlyOpen ==
    \A r \in Reqs : req[r].pc \in {"cancel_update", "cancel_commit"} =>
        req[r].status \in {"PENDING", "CONFIRMED"}

(* "Trigger refund if already paid" (bookings.service.ts:230): once every  *)
(* handler is done, a rejected booking's payment is not still COMPLETED.   *)
RejectedIsRefunded ==
    Quiet => \A b \in Bookings : bookings[b].status = "REJECTED" => ~Settled(b)

(* "Release host payout from pending" (bookings.service.ts:293): what      *)
(* check-out takes from pendingBalance was there.                          *)
PendingCovered == pending >= 0

(* "Release payout if decided in host's favor" (disputes.service.ts:177):  *)
(* what is released is a payout the host does not have yet, so a host      *)
(* never gets more than one hostPayout for each booking.                   *)
HostPaidOnce == balance["host"] <= HostPayout * Cardinality({b \in Bookings : Exists(b)})

(* "Insufficient wallet balance" (payments.service.ts:344): a debit larger *)
(* than the balance is refused.                                            *)
NoOverdraft == balance["guest"] >= 0

(* "Can only refund completed payments" (payments.service.ts:173): what    *)
(* was refunded in full is not refunded again.                             *)
RefundedOnce == \A b \in Bookings : returned[b] <= Price

(* "Cannot block dates with existing confirmed bookings"                   *)
(* (properties.service.ts:326): no confirmed stay touches a blocked range. *)
BlockedUnbooked ==
    \A b \in Bookings, k \in blocks :
        bookings[b].status \in Active => ~Touches(bookings[b].stay, k)

(* "Cannot delete property with active bookings"                           *)
(* (properties.service.ts:245): a deleted property has none.               *)
RemovedInactive == listing.deleted => \A b \in Bookings : bookings[b].status \notin Active

(* "Stripe calls webhook -> booking confirmed" (README.md:310): a Stripe   *)
(* payment the guest made is eventually complete, or refunded.             *)
StripeConfirmed ==
    \A b \in Bookings :
        payment[b].provider = "STRIPE" /\ order[b].state = "captured"
            ~> payment[b].status \in Paid
=============================================================================
