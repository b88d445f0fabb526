------------------------------ MODULE Bookings ------------------------------
(***************************************************************************)
(* BookingsService: create under the Redis lock and a serializable         *)
(* transaction, then confirm, reject, checkIn, checkOut and cancel, each   *)
(* of which reads the booking, decides, and writes it after an await.      *)
(*                                                                         *)
(* A call whose checks fail throws before it has written anything: it is   *)
(* not a step.                                                             *)
(***************************************************************************)
EXTENDS Platform

(* create, up to the lock.  The lock is named after the exact dates, so    *)
(* two overlapping stays take different locks.  A request that does not    *)
(* get the lock after its retries throws.                                  *)
AcquireLock(r, s) ==
    /\ s.ci > today
    /\ lock[s] = NONE
    /\ lock' = [lock EXCEPT ![s] = r]
    /\ Start(r, [Idle EXCEPT !.pc = "create_begin", !.stay = s])
    /\ UNCHANGED <<today, listing, blocks, stale, bookings, history, dispute, money, wallets>>

(* MUTANT of Available: the property's status is not asked for.            *)
AvailableUnlisted(s) ==
    /\ ~listing.deleted
    /\ \A b \in Bookings : bookings[b].status \in Live => ~Overlaps(bookings[b].stay, s)
    /\ \A k \in blocks : ~Touches(k, s)

(* MUTANT of Available: only bookings that begin inside the new stay.      *)
AvailableByCheckIn(s) ==
    /\ listing.status = "ACTIVE" /\ ~listing.deleted
    /\ \A b \in Bookings : bookings[b].status \in Live =>
            ~(s.ci <= bookings[b].stay.ci /\ bookings[b].stay.ci < s.co)
    /\ \A k \in blocks : ~Touches(k, s)

Available(s) ==
    /\ listing.status = "ACTIVE" /\ ~listing.deleted
    /\ \A b \in Bookings : bookings[b].status \in Live => ~Overlaps(bookings[b].stay, s)
    /\ \A k \in blocks : ~Touches(k, s)

(* The transaction's first query takes its snapshot; every check of the    *)
(* transaction reads that snapshot.                                        *)
CreateSnapshot(r) ==
    /\ At(r, "create_begin")
    /\ Goto(r, IF Available(req[r].stay) THEN "create_commit" ELSE "create_release")
    /\ stale' = stale \ {r}
    /\ UNCHANGED <<today, listing, blocks, lock, bookings, history, dispute, money, wallets>>

(* The inserts and the update of the property row.  PostgreSQL refuses     *)
(* that update when another session has committed one since the snapshot.  *)
CreateCommit(r, b) ==
    LET status == IF InstantBook THEN "CONFIRMED" ELSE "PENDING" IN
    /\ At(r, "create_commit")
    /\ r \notin stale
    /\ ~Exists(b)
    /\ bookings' = [bookings EXCEPT ![b] =
                       [NoBooking EXCEPT !.status = status, !.stay = req[r].stay]]
    /\ history' = [history EXCEPT ![b] = {status}]
    /\ Overtake(r)
    /\ Goto(r, "create_release")
    /\ UNCHANGED <<today, listing, blocks, lock, dispute, money, wallets>>

(* A serialization failure, or any other error inside the transaction.     *)
CreateAbort(r) ==
    /\ req[r].pc \in {"create_begin", "create_commit"}
    /\ stale' = stale \ {r}
    /\ Goto(r, "create_release")
    /\ UNCHANGED <<today, listing, blocks, lock, bookings, history, dispute, money, wallets>>

(* MUTANT of ReleaseLock: DEL without comparing the token.                 *)
ReleaseAnyLock(r) ==
    /\ At(r, "create_release")
    /\ lock' = [lock EXCEPT ![req[r].stay] = NONE]
    /\ Finish(r)
    /\ UNCHANGED <<today, listing, blocks, stale, bookings, history, dispute, money, wallets>>

(* finally: the lock is deleted only if it still holds our own token.      *)
ReleaseLock(r) ==
    LET s == req[r].stay IN
    /\ At(r, "create_release")
    /\ lock' = [lock EXCEPT ![s] = IF @ = r THEN NONE ELSE @]
    /\ Finish(r)
    /\ UNCHANGED <<today, listing, blocks, stale, bookings, history, dispute, money, wallets>>

(* Redis drops the key 30 seconds after SET ... EX, whoever holds it.      *)
LockExpires(s) ==
    /\ lock[s] # NONE
    /\ lock' = [lock EXCEPT ![s] = NONE]
    /\ UNCHANGED <<today, listing, blocks, stale, bookings, history, dispute, money,
                   wallets, req>>

-----------------------------------------------------------------------------
(* What the write half of every status change leaves alone.                *)
OnlyBooking == UNCHANGED <<today, property, dispute, money, wallets>>

ReadOnly == UNCHANGED <<today, property, bookings, history, dispute, money, wallets>>

(* MUTANT of UpdateBookingStatus: the history row is left out.             *)
UpdateStatusOnly(b, s) ==
    /\ ~BookingLocked(b)
    /\ SetStatus(b, s)
    /\ UNCHANGED history
    /\ OnlyBooking

(* updateBookingStatus: status and history row in one transaction.         *)
UpdateBookingStatus(b, s) ==
    /\ ~BookingLocked(b)
    /\ SetStatus(b, s)
    /\ AddHistory(b, s)
    /\ OnlyBooking

ConfirmRead(r, b) ==
    /\ bookings[b].status = "PENDING"
    /\ Start(r, Read(b, "confirm_write"))
    /\ ReadOnly

ConfirmWrite(r) ==
    /\ At(r, "confirm_write")
    /\ UpdateBookingStatus(req[r].b, "CONFIRMED")
    /\ Finish(r)

RejectRead(r, b) ==
    /\ bookings[b].status = "PENDING"
    /\ Start(r, [Read(b, "reject_write") EXCEPT !.amt = Price])
    /\ ReadOnly

(* Refund in full, if the payment was complete when the booking was read.  *)
RejectWrite(r) ==
    /\ At(r, "reject_write")
    /\ UpdateBookingStatus(req[r].b, "REJECTED")
    /\ IF req[r].paid THEN Goto(r, "refund_read") ELSE Finish(r)

CheckInRead(r, b) ==
    /\ bookings[b].status = "CONFIRMED"
    /\ bookings[b].stay.ci <= today + 1
    /\ Start(r, Read(b, "checkin_write"))
    /\ ReadOnly

CheckInWrite(r) ==
    LET b == req[r].b IN
    /\ At(r, "checkin_write")
    /\ ~BookingLocked(b)
    /\ bookings' = [bookings EXCEPT ![b].status = "CHECKED_IN", ![b].checkedIn = TRUE]
    /\ req' = [req EXCEPT ![r].pc = "write_history", ![r].arg = "CHECKED_IN"]
    /\ UNCHANGED history
    /\ OnlyBooking

(* MUTANT of CheckOutRead: a confirmed booking can be checked out too.     *)
CheckOutReadActive(r, b) ==
    /\ bookings[b].status \in Active
    /\ Start(r, Read(b, "checkout_commit"))
    /\ ReadOnly

CheckOutRead(r, b) ==
    /\ bookings[b].status = "CHECKED_IN"
    /\ Start(r, Read(b, "checkout_commit"))
    /\ ReadOnly

(* MUTANT of CheckOutCommit: pendingBalance is not decremented.            *)
CheckOutKeepsPending(r) ==
    LET b == req[r].b
        payout == IF req[r].paid THEN HostPayout ELSE 0 IN
    /\ At(r, "checkout_commit")
    /\ ~BookingLocked(b)
    /\ bookings' = [bookings EXCEPT ![b].status = "CHECKED_OUT", ![b].checkedOut = TRUE]
    /\ balance' = [balance EXCEPT !["host"] = @ + payout]
    /\ req' = [req EXCEPT ![r].pc = "write_history", ![r].arg = "CHECKED_OUT"]
    /\ UNCHANGED <<today, property, history, dispute, money, pending, withdrawn>>

(* One transaction: the status and, if the payment was complete when read, *)
(* the payout from the host's pending balance to the balance.              *)
CheckOutCommit(r) ==
    LET b == req[r].b
        payout == IF req[r].paid THEN HostPayout ELSE 0 IN
    /\ At(r, "checkout_commit")
    /\ ~BookingLocked(b)
    /\ bookings' = [bookings EXCEPT ![b].status = "CHECKED_OUT", ![b].checkedOut = TRUE]
    /\ pending' = pending - payout
    /\ balance' = [balance EXCEPT !["host"] = @ + payout]
    /\ req' = [req EXCEPT ![r].pc = "write_history", ![r].arg = "CHECKED_OUT"]
    /\ UNCHANGED <<today, property, history, dispute, money, withdrawn>>

(* createStatusHistory, after the status itself was committed.             *)
WriteHistory(r) ==
    /\ At(r, "write_history")
    /\ AddHistory(req[r].b, req[r].arg)
    /\ Finish(r)
    /\ UNCHANGED bookings
    /\ OnlyBooking

-----------------------------------------------------------------------------
(* cancel.                                                                 *)

(* The refund percentage of each policy, by full days left to check-in.    *)
RefundPercent(policy, days) ==
    CASE policy = "FLEXIBLE"        -> IF days >= 1 THEN 100 ELSE 0
      [] policy = "MODERATE"        -> IF days >= 5 THEN 100 ELSE IF days >= 1 THEN 50 ELSE 0
      [] policy = "STRICT"          -> IF days >= 14 THEN 100 ELSE IF days >= 7 THEN 50 ELSE 0
      [] policy = "SUPER_STRICT_30" -> IF days >= 30 THEN 50 ELSE 0
      [] policy = "SUPER_STRICT_60" -> IF days >= 60 THEN 50 ELSE 0

(* The day of check-in starts at midnight and today has begun: dayjs'      *)
(* diff in days counts one day less than the dates are apart.              *)
CancellationRefund(s) == (Price * RefundPercent(Policy, s.ci - today - 1)) \div 100

(* canCancel asks whether a constant list includes 'PENDING', which it     *)
(* does: a booking of any status can be cancelled.                         *)
CancelRead(r, b) ==
    /\ Exists(b)
    /\ Start(r, [Read(b, "cancel_update") EXCEPT
                    !.amt = CancellationRefund(bookings[b].stay)])
    /\ ReadOnly

(* The transaction's booking.update: the row is locked, the new status     *)
(* still invisible.  processRefund runs inside, on another connection.     *)
CancelUpdate(r) ==
    /\ At(r, "cancel_update")
    /\ ~BookingLocked(req[r].b)
    /\ req' = [req EXCEPT ![r].ret = "cancel_commit",
                          ![r].pc = IF req[r].paid /\ req[r].amt > 0
                                    THEN "refund_read" ELSE "cancel_commit"]
    /\ ReadOnly

CancelCommit(r) ==
    /\ At(r, "cancel_commit")
    /\ bookings' = [bookings EXCEPT ![req[r].b].status = "CANCELLED",
                                    ![req[r].b].cancelled = TRUE]
    /\ req' = [req EXCEPT ![r].pc = "write_history", ![r].arg = "CANCELLED",
                          ![r].ret = "idle"]
    /\ UNCHANGED history
    /\ OnlyBooking
=============================================================================
