-------------------------- MODULE RentalProperties --------------------------
(***************************************************************************)
(* The correctness properties of the composed services.                    *)
(***************************************************************************)
EXTENDS Rental

CONSTANT MaxDebit   \* no single debit of a wallet is larger
ASSUME MaxDebitAssumption ==
    MaxDebit \in Nat /\ \A a \in Amounts \cup {Price} : a <= MaxDebit

Paid == {"COMPLETED", "REFUNDED", "PARTIALLY_REFUNDED"}

(* The rows have the columns of the schema, every status is one of its     *)
(* enumeration, and every handler holds values of its variables' types.    *)
TypeOK ==
    /\ today \in Days
    /\ listing \in [status : {"ACTIVE", "SUSPENDED", "ARCHIVED"}, deleted : BOOLEAN]
    /\ blocks \subseteq Blocks
    /\ lock \in [Stays -> Reqs \cup {NONE}]
    /\ stale \subseteq Reqs
    /\ bookings \in [Bookings -> BookingRow]
    /\ history \in [Bookings -> SUBSET BookingStatus]
    /\ dispute \in [Bookings -> DisputeStatus \cup {NONE}]
    /\ payment \in [Bookings -> PaymentRow]
    /\ order \in [Bookings -> OrderRow]
    /\ refunded \in [Bookings -> Int]
    /\ returned \in [Bookings -> Int]
    /\ balance \in [Owners -> Int]
    /\ pending \in Int /\ withdrawn \in Int
    /\ req \in [Reqs -> Request]

-----------------------------------------------------------------------------
(* The calendar.                                                           *)

(* A reservation is over once it was cancelled, rejected, checked out or   *)
(* disputed, whatever a late write makes of its status afterwards.         *)
Ended(b) ==
    \/ bookings[b].cancelled
    \/ bookings[b].checkedOut
    \/ "REJECTED" \in history[b]
    \/ dispute[b] # NONE
Open(b) == Exists(b) /\ ~Ended(b)

(* No two reservations that are not over have overlapping dates, however   *)
(* the create requests and all other handlers interleave, locks expire and *)
(* processes die: the promise of BookingsService.create.                   *)
NoDoubleBooking ==
    \A b, c \in Bookings :
        Open(b) /\ Open(c) /\ Overlaps(bookings[b].stay, bookings[c].stay) => b = c

(* Whatever occupies the calendar without being live is over: a handler    *)
(* that takes a booking out of PENDING, CONFIRMED and CHECKED_IN leaves    *)
(* the mark of it in the same commit, so no dates are freed in silence.    *)
FreedOnlyWhenEnded ==
    \A b \in Bookings : Exists(b) /\ bookings[b].status \notin Live => Ended(b)

(* An open create transaction that can still commit has seen the property  *)
(* as it is and every reservation it would collide with.                   *)
SnapshotCurrent ==
    \A r \in Reqs : At(r, "create_commit") /\ r \notin stale =>
        /\ listing.status = "ACTIVE" /\ ~listing.deleted
        /\ \A b \in Bookings : Open(b) => ~Overlaps(bookings[b].stay, req[r].stay)

(* The detailed services implement the calendar of reservations.           *)
heldStays == [b \in Bookings |-> IF Open(b) THEN bookings[b].stay ELSE NONE]
overStays == {b \in Bookings : Exists(b) /\ Ended(b)}
Cal == INSTANCE Calendar WITH held <- heldStays, over <- overStays, Nobody <- NONE
CalendarSpec == Cal!Spec

(* A booking appears only while the property is listed: approval,          *)
(* suspension and removal race the create transaction's checks, and the    *)
(* transaction loses.                                                      *)
CreatedOnlyWhenListed ==
    [][\A b \in Bookings : ~Exists(b) /\ Exists(b)' =>
            listing.status = "ACTIVE" /\ ~listing.deleted]_vars

(* A booking lock is taken from its holder only by its own release or by   *)
(* its TTL: a create that outlived its lock does not free the next one's.  *)
ReleaseOnlyOwn ==
    [][\A s \in Stays, r \in Reqs : lock[s] = r /\ lock'[s] # r =>
            LockExpires(s) \/ (At(r, "create_release") /\ req[r].stay = s)]_vars

(* A guest is checked in only under a booking that the host confirmed, or  *)
(* that the completion of a payment did, for which some order was really   *)
(* paid; and out only after that, though every handler writes a status it  *)
(* decided on before its await.                                            *)
MoneyTaken == \E o \in Bookings : order[o].state = "captured"
StagesInOrder ==
    \A b \in Bookings :
        /\ bookings[b].checkedOut => bookings[b].checkedIn
        /\ bookings[b].checkedIn =>
                "CONFIRMED" \in history[b] \/ (payment[b].captured /\ MoneyTaken)

-----------------------------------------------------------------------------
(* Money.                                                                  *)

Captured == {o \in Bookings : order[o].state = "captured"}
PaidBookings == {b \in Bookings : payment[b].status \in Paid}

(* A capture may complete a payment it was not made for, but only one: as  *)
(* long as nobody pays by MoMo, whose references can be polled again, no   *)
(* more payments count as complete or refunded than orders and wallet      *)
(* debits were really taken, whatever throws, fails or is refunded.        *)
PaymentsNeedCaptures ==
    (\A b \in Bookings : payment[b].provider # "MTN_MOMO")
        => Cardinality(PaidBookings) <= Cardinality(Captured)

(* A booking whose provider payment completed does not wait for the host   *)
(* any more: completePayment acts on the status it read before its         *)
(* transaction, and still never leaves a paid booking PENDING.             *)
PaidIsConfirmed ==
    \A b \in Bookings :
        Settled(b) /\ payment[b].provider # "INTERNAL" => bookings[b].status # "PENDING"

(* Refund rows never claim more than was given back: a refund that dies    *)
(* halfway errs on the guest's side.  Providers refuse what is not         *)
(* positive; a dispute over a wallet payment is resolved with any amount,  *)
(* also one that takes money from the guest.                               *)
RefundRowsAreReal ==
    \A b \in Bookings :
        (payment[b].provider = "INTERNAL" => dispute[b] = NONE) => refunded[b] <= returned[b]

(* The host's funds: every payment that counts as complete or refunded     *)
(* through PayPal has added hostPayout to them, and no capture has twice,  *)
(* though a payment refunded or failed can be completed again by the       *)
(* capture of another order.  Check-out only moves hostPayout from         *)
(* pendingBalance to balance and a withdrawal from there to a transaction  *)
(* row, however all of these race; as long as no dispute is opened.        *)
HostCreditedOnce ==
    (\A b \in Bookings : dispute[b] = NONE /\ payment[b].provider \in {"PAYPAL", NONE})
        => LET funds == pending + balance["host"] + withdrawn IN
           /\ HostPayout * Cardinality(PaidBookings) <= funds
           /\ funds <= HostPayout * Cardinality(Captured)

(* The balance checks of payFromWallet and withdraw are not atomic with    *)
(* their debits; a wallet goes below zero by no more than the debits of    *)
(* all other requests in flight.  Only the negative refund of a disputed   *)
(* wallet payment debits the guest without a check.                        *)
OverdraftBounded ==
    \A o \in Owners :
        (o = "guest" => \A b \in Bookings : payment[b].provider = "INTERNAL" => dispute[b] = NONE)
            => balance[o] >= -((Cardinality(Reqs) - 1) * MaxDebit)

-----------------------------------------------------------------------------
(* Progress.                                                               *)

(* Every request ends: rows locked by cancel, resolve and completePayment  *)
(* while they wait for one another never block a handler for good.         *)
RequestsEnd == \A r \in Reqs : ~At(r, "idle") ~> At(r, "idle")
=============================================================================
