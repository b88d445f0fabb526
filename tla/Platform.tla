------------------------------ MODULE Platform ------------------------------
(***************************************************************************)
(* What the services of the rental backend share: the rows of the          *)
(* PostgreSQL tables they read and write, the Redis lock, the providers'   *)
(* own records and the HTTP requests in flight.                            *)
(*                                                                         *)
(* The backend is a NestJS application whose handlers are async functions: *)
(* a handler runs alone up to its next await, and there every other        *)
(* handler may run.  A request in flight is a slot r of Reqs; req[r] holds *)
(* the point the handler has reached and the local variables it still      *)
(* needs, above all what it read from the database and has not read again. *)
(*                                                                         *)
(* One property, its host and one guest are modelled: every conflict rule  *)
(* of the code is per property, every balance rule per wallet.             *)
(***************************************************************************)
EXTENDS Integers, FiniteSets

CONSTANTS
    Reqs,         \* request slots: how many handlers can be in flight at once
    Bookings,     \* ids of booking rows
    Stays,        \* the date ranges guests ask for, records [ci, co] of days
    Blocks,       \* the date ranges hosts block, records [ci, co] of days
    Days,         \* the days the clock can show
    NONE,         \* "no row", "nobody"
    InstantBook,  \* Property.instantBook
    Policy,       \* Property.cancellationPolicy
    Methods,      \* the providers behind the payment methods guests choose
    Price,        \* Booking.totalAmount
    HostPayout,   \* Booking.hostPayout
    Opening,      \* the guest's wallet balance at the start
    Amounts,      \* the amounts users and admins type in: their sign is not checked
    MaxFunds      \* bound: no request starts that would credit a wallet beyond it again

Ranges == [ci : Nat, co : Nat]

ASSUME ReqsAssumption == IsFiniteSet(Reqs) /\ Reqs # {}
ASSUME StaysAssumption ==
    /\ Stays \subseteq Ranges
    /\ Blocks \subseteq Ranges
    /\ \A s \in Stays : s.ci < s.co
ASSUME DaysAssumption == Days \subseteq Nat /\ 0 \in Days
ASSUME MoneyAssumption ==
    /\ Price \in Nat \ {0}
    /\ HostPayout \in Nat
    /\ Opening \in Nat
    /\ Amounts \subseteq Int
ASSUME InstantBookAssumption == InstantBook \in BOOLEAN

VARIABLES
    today,     \* the day the server's clock shows
    listing,   \* the property row: its status, and whether deletedAt is set
    blocks,    \* the AvailabilityBlock rows of the property
    lock,      \* Redis: the holder of the booking lock of each date range
    stale,     \* the open create transactions whose snapshot was overtaken
    bookings,  \* the Booking rows
    history,   \* the toStatus values of each booking's BookingStatusHistory
    dispute,   \* the Dispute row of each booking: its status, or NONE
    payment,   \* the Payment row of each booking
    order,     \* what the provider knows of the booking's payment
    refunded,  \* the sum of the Refund rows of each booking's payment
    returned,  \* the money that really went back to the guest
    balance,   \* Wallet.balance of the guest and of the host
    pending,   \* Wallet.pendingBalance of the host
    withdrawn, \* the sum of the host's WALLET_WITHDRAWAL Transaction rows
    req        \* the requests in flight

property == <<listing, blocks, lock, stale>>
money    == <<payment, order, refunded, returned>>
wallets  == <<balance, pending, withdrawn>>
vars     == <<today, property, bookings, history, dispute, money, wallets, req>>

-----------------------------------------------------------------------------
(* Tables.                                                                 *)

BookingStatus == {"PENDING", "CONFIRMED", "CHECKED_IN", "CHECKED_OUT",
                  "CANCELLED", "REJECTED", "DISPUTED"}
PaymentStatus == {"PENDING", "PROCESSING", "COMPLETED", "FAILED",
                  "REFUNDED", "PARTIALLY_REFUNDED"}
DisputeStatus == {"OPEN", "ESCALATED", "RESOLVED_GUEST", "RESOLVED_HOST"}
Providers     == {"STRIPE", "PAYPAL", "MTN_MOMO", "INTERNAL"}
Policies      == {"FLEXIBLE", "MODERATE", "STRICT", "SUPER_STRICT_30", "SUPER_STRICT_60"}
Owners        == {"guest", "host"}

ASSUME NoneAssumption ==
    /\ NONE \notin Reqs \cup Bookings \cup Stays \cup Blocks
    /\ NONE \notin BookingStatus \cup PaymentStatus \cup DisputeStatus \cup Providers
ASSUME ChoiceAssumption == Methods \subseteq Providers /\ Policy \in Policies

BookingRow == [status : BookingStatus \cup {NONE}, stay : Stays \cup {NONE},
               checkedIn : BOOLEAN, checkedOut : BOOLEAN, cancelled : BOOLEAN]
NoBooking  == [status |-> NONE, stay |-> NONE,
               checkedIn |-> FALSE, checkedOut |-> FALSE, cancelled |-> FALSE]

PaymentRow == [status : PaymentStatus \cup {NONE}, provider : Providers \cup {NONE},
               ref : BOOLEAN,        \* providerPaymentId is set
               captured : BOOLEAN]   \* capturedAt is set
NoPayment  == [status |-> NONE, provider |-> NONE, ref |-> FALSE, captured |-> FALSE]

(* The order at the provider: "created" when the provider has it, paid for *)
(* when "captured"; known once initiatePayment has answered the client.    *)
OrderRow == [state : {"none", "created", "approved", "captured", "failed"},
             known : BOOLEAN]
NoOrder  == [state |-> "none", known |-> FALSE]

(* MUTANT of Live: a conflict query that forgets the unconfirmed bookings. *)
LiveConfirmed == {"CONFIRMED", "CHECKED_IN"}

(* The booking statuses that occupy the calendar.                          *)
Live   == {"PENDING", "CONFIRMED", "CHECKED_IN"}
(* The ones that blockDates and remove look for.                           *)
Active == {"CONFIRMED", "CHECKED_IN"}

Exists(b)  == bookings[b].status # NONE
Settled(b) == payment[b].status = "COMPLETED"

(* checkIn < x.checkOut and checkOut > x.checkIn; and the same with <=.    *)
Overlaps(s, t) == s.ci < t.co /\ t.ci < s.co
Touches(s, t)  == s.ci <= t.co /\ t.ci <= s.co

-----------------------------------------------------------------------------
(* Requests.                                                               *)

CreatePoints  == {"create_begin", "create_commit", "create_release"}
RefundPoints  == {"refund_read", "refund_provider", "refund_row", "refund_update"}
PayPoints     == {"pay_insert", "pay_order", "pay_check", "pay_debit", "pay_update",
                  "pay_log", "pay_failed", "complete_read", "complete_update",
                  "complete_commit", "momo_failed"}
BookingPoints == {"confirm_write", "reject_write", "checkin_write", "checkout_commit",
                  "cancel_update", "cancel_commit", "write_history",
                  "dispute_commit", "resolve_update", "resolve_commit"}
OtherPoints   == {"idle", "block_write", "remove_write", "withdraw_debit"}
Points == CreatePoints \cup RefundPoints \cup PayPoints \cup BookingPoints
            \cup OtherPoints

Request ==
    [pc     : Points,
     b      : Bookings \cup {NONE},         \* the booking it is about
     stay   : Stays \cup Blocks \cup {NONE},  \* the dates asked for
     status : BookingStatus \cup {NONE},    \* booking.status as it read it
     paid   : BOOLEAN,                      \* payment.status = COMPLETED, as read
     amt    : Int,                          \* the amount to move
     arg    : BookingStatus \cup {"GUEST", "HOST", NONE} \cup Owners,
     ret    : {"idle", "cancel_commit", "resolve_commit"}]  \* after processRefund

Idle == [pc |-> "idle", b |-> NONE, stay |-> NONE, status |-> NONE, paid |-> FALSE,
         amt |-> 0, arg |-> NONE, ret |-> "idle"]

At(r, p)    == req[r].pc = p
Start(r, q) == At(r, "idle") /\ req' = [req EXCEPT ![r] = q]
Goto(r, p)  == req' = [req EXCEPT ![r].pc = p]
Finish(r)   == req' = [req EXCEPT ![r] = Idle]

(* What a handler keeps of the booking row, its payment included.          *)
Read(b, p) == [Idle EXCEPT !.pc = p, !.b = b, !.status = bookings[b].status,
                           !.paid = Settled(b)]

(* An UPDATE inside an open interactive transaction locks the row until    *)
(* the transaction ends: the other writers of the row wait meanwhile.      *)
(* cancel and resolve keep theirs open across the refund, completePayment  *)
(* its payment row until it has the booking and the wallet rows too.       *)
BookingLocked(b) == \E r \in Reqs : req[r].b = b /\ req[r].ret = "cancel_commit"
DisputeLocked(b) == \E r \in Reqs : req[r].b = b /\ req[r].ret = "resolve_commit"
PaymentLocked(b) == \E r \in Reqs : req[r].b = b /\ At(r, "complete_commit")

SetStatus(b, s) == bookings' = [bookings EXCEPT ![b].status = s]
AddHistory(b, s) == history' = [history EXCEPT ![b] = @ \cup {s}]

(* MUTANT of Overtake: no write is noticed, as under READ COMMITTED.       *)
OvertakeNone(r) == stale' = stale

(* Every write of the property row by another session overtakes the        *)
(* snapshot of the create transactions then open.                          *)
Overtake(r) == stale' = {q \in Reqs \ {r} : At(q, "create_commit")}
=============================================================================
