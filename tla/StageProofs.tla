----------------------------- MODULE StageProofs -----------------------------
(***************************************************************************)
(* A booking goes through its stages in order, in every instance, though   *)
(* every handler writes a status it decided on before its await.           *)
(*                                                                         *)
(* What makes the decision still right when it is written: a booking never *)
(* becomes PENDING again, whoever was checked in stays checked in, and     *)
(* what confirmed a booking, a history row or the capturedAt of its        *)
(* payment, is never taken back, whatever becomes of the payment's status  *)
(* (PaymentProofs).                                                        *)
(***************************************************************************)
EXTENDS PaymentProofs

(* The host confirmed the booking, or the completion of a payment did.     *)
Backed(b) ==
    \/ "CONFIRMED" \in history[b]
    \/ payment[b].captured

(* The handlers that write a status because of the one they read.          *)
StagePoints == {"checkin_write", "checkout_commit", "complete_update", "complete_commit"}

Ready(q) ==
    /\ q.pc = "checkin_write" => Backed(q.b)
    /\ q.pc = "checkout_commit" => bookings[q.b].checkedIn
    /\ q.pc \in {"complete_update", "complete_commit"} /\ q.status # "PENDING" =>
            bookings[q.b].status # "PENDING"

Staged(b) ==
    /\ bookings[b].status = "CONFIRMED" => Backed(b)
    /\ bookings[b].status = "CHECKED_IN" => bookings[b].checkedIn
    /\ bookings[b].checkedIn => Backed(b)
    /\ bookings[b].checkedOut => bookings[b].checkedIn
    /\ Settled(b) /\ payment[b].provider # "INTERNAL" => bookings[b].status # "PENDING"

StageInv ==
    /\ \A q \in Reqs : req[q].pc \in StagePoints => Ready(req[q])
    /\ \A b \in Bookings : Staged(b)

(* A booking that exists never goes back to an earlier stage.              *)
Forward(b) ==
    /\ bookings[b].status # "PENDING" => bookings'[b].status # "PENDING"
    /\ bookings[b].checkedIn => bookings'[b].checkedIn
    /\ Backed(b) => Backed(b)'

(* The handler in slot r moves, and every booking stays consistent.        *)
Staging(r) ==
    /\ \A q \in Reqs \ {r} : req'[q] = req[q]
    /\ req'[r].pc \in StagePoints => req'[r].b \in Bookings /\ Ready(req[r])'
    /\ \A b \in Bookings : Exists(b) => Forward(b)
    /\ \A b \in Bookings : Staged(b)'

LEMMA StagingStep ==
    ASSUME CalInv, PayInv, StageInv, NEW r \in Reqs, Staging(r) PROVE StageInv'
  <1>1. ASSUME NEW q \in Reqs \ {r}, req'[q].pc \in StagePoints PROVE Ready(req[q])'
    <2>1. req[q].pc \in StagePoints /\ req'[q] = req[q] BY <1>1 DEF Staging
    <2>2. req[q].b \in Bookings
      BY <2>1, BookedPoints DEF PayInv, StagePoints, Completing
    <2>3. Forward(req[q].b) BY <2>2 DEF Staging, CalInv, Rooted, Grounded
    <2> QED BY <2>1, <2>3 DEF StageInv, Ready, Forward
  <1> QED BY <1>1 DEF StageInv, Staging

(* Payments never take back what confirmed a booking, and complete no      *)
(* payment of a pending booking but through completePayment.               *)
LEMMA PaidKept ==
    ASSUME TypeInv, PayInv, StageInv, CalInv, NEW b \in Bookings,
           bookings'[b] = bookings[b], history'[b] = history[b],
           \/ payment'[b] = payment[b]
           \/ \E r \in Reqs, c \in Bookings : RowStep(r, c) /\ ~CompleteCommit(r)
    PROVE  Forward(b) /\ Staged(b)'
  <1>1. CASE payment'[b] = payment[b]
    BY <1>1 DEF Forward, Backed, StageInv, Staged, Settled
  <1>2. ASSUME NEW r \in Reqs, NEW c \in Bookings, RowStep(r, c), ~CompleteCommit(r),
               payment'[b] # payment[b]
        PROVE  Forward(b) /\ Staged(b)'
    <2>1. b = c /\ Settles(r, b) BY <1>2 DEF RowStep
    <2>2. payment[b].provider = "INTERNAL" => payment'[b].provider = "INTERNAL"
      BY <1>2, <2>1, NoneAssumption DEF RowStep, Providers
    <2>4. Backed(b) => Backed(b)'
      BY <1>2, <2>1 DEF Backed, Settles
    <2>5. Settled(b)' /\ payment'[b].provider # "INTERNAL" =>
            Settled(b) /\ payment[b].provider # "INTERNAL"
      BY <1>2, <2>1, <2>2 DEF Settles, Settled
    <2> QED BY <2>4, <2>5 DEF Forward, StageInv, Staged
  <1> QED BY <1>1, <1>2

(* A step that writes no booking.                                          *)
LEMMA StillStep ==
    ASSUME TypeInv, PayInv, StageInv, CalInv, NEW r \in Reqs,
           UNCHANGED <<bookings, history>>,
           \/ UNCHANGED payment
           \/ \E c \in Bookings : RowStep(r, c) /\ ~CompleteCommit(r),
           \A q \in Reqs \ {r} : req'[q] = req[q],
           req'[r].pc \in StagePoints => req'[r].b \in Bookings /\ Ready(req[r])'
    PROVE  Staging(r)
  <1>1. \A b \in Bookings : Forward(b) /\ Staged(b)' BY PaidKept
  <1> QED BY <1>1 DEF Staging

(* The handler goes on without a booking's stage, or with the one it read. *)
Off(r) == UNCHANGED <<bookings, history>> /\ req'[r].pc \notin StagePoints
On(r)  == UNCHANGED <<bookings, history>> /\ req'[r].b \in Bookings /\ Ready(req[r])'

LEMMA OtherStill ==
    ASSUME TypeInv, NEW r \in Reqs
    PROVE  /\ \A s \in Stays : AcquireLock(r, s) => Off(r)
           /\ \A s \in Blocks : BlockRead(r, s) => Off(r)
           /\ \A o \in Owners, a \in Amounts : WithdrawRead(r, o, a) => Off(r)
           /\ \/ RemoveRead(r) \/ CreateSnapshot(r) \/ CreateAbort(r) \/ ReleaseLock(r)
              \/ BlockWrite(r) \/ RemoveWrite(r) \/ WithdrawDebit(r) \/ End(r)
              => Off(r)
  <1> USE DEF Off, property, money, wallets
  <1>1. ASSUME NEW q, Start(r, q), q.pc \notin StagePoints PROVE req'[r].pc \notin StagePoints
    BY <1>1, Started
  <1>2. ASSUME Finish(r) PROVE req'[r].pc \notin StagePoints
    BY <1>2, Finished DEF StagePoints
  <1>3. ASSUME NEW p, Goto(r, p), p \notin StagePoints PROVE req'[r].pc \notin StagePoints
    BY <1>3, Went
  <1>4. ASSUME NEW s \in Stays, AcquireLock(r, s) PROVE Off(r)
    BY <1>1, <1>4 DEF Off, AcquireLock, Idle, StagePoints
  <1>5. ASSUME NEW s \in Blocks, BlockRead(r, s) PROVE Off(r)
    BY <1>1, <1>5 DEF Off, BlockRead, Idle, StagePoints
  <1>6. ASSUME NEW o \in Owners, NEW a \in Amounts, WithdrawRead(r, o, a) PROVE Off(r)
    BY <1>1, <1>6 DEF Off, WithdrawRead, Idle, StagePoints
  <1>7. CASE RemoveRead(r) BY <1>1, <1>7 DEF Off, RemoveRead, Idle, StagePoints
  <1>8. CASE CreateSnapshot(r) \/ CreateAbort(r)
    BY <1>3, <1>8 DEF Off, CreateSnapshot, CreateAbort, StagePoints
  <1>9. CASE ReleaseLock(r) \/ BlockWrite(r) \/ RemoveWrite(r) \/ WithdrawDebit(r) \/ End(r)
    BY <1>2, <1>9 DEF Off, ReleaseLock, BlockWrite, RemoveWrite, WithdrawDebit, End
  <1> QED BY <1>4, <1>5, <1>6, <1>7, <1>8, <1>9

LEMMA ReadStill ==
    ASSUME TypeInv, StageInv, NEW r \in Reqs, NEW b \in Bookings
    PROVE  /\ \/ ConfirmRead(r, b) \/ RejectRead(r, b) \/ CancelRead(r, b) \/ PayRead(r, b)
              \/ DisputeRead(r, b)
              => Off(r)
           /\ \A o \in Bookings : CapturePaypal(r, o, b) \/ PollMomo(r, o, b) => Off(r)
           /\ \A w \in {"GUEST", "HOST"}, a \in Amounts \cup {0} : ResolveRead(r, b, w, a) => Off(r)
           /\ CheckInRead(r, b) \/ CheckOutRead(r, b) => On(r)
  <1> USE DEF property, money, wallets
  <1>1. ASSUME NEW q, Start(r, q), UNCHANGED <<bookings, history>>, q.pc \notin StagePoints
        PROVE  Off(r)
    BY <1>1, Started DEF Off
  <1>2. ConfirmRead(r, b) => Off(r)
    BY <1>1 DEF ConfirmRead, ReadOnly, Read, Idle, StagePoints
  <1>3. RejectRead(r, b) => Off(r)
    BY <1>1 DEF RejectRead, ReadOnly, Read, Idle, StagePoints
  <1>4. CancelRead(r, b) => Off(r)
    BY <1>1 DEF CancelRead, ReadOnly, Read, Idle, StagePoints
  <1>5. PayRead(r, b) => Off(r)
    BY <1>1 DEF PayRead, Frame, Read, Idle, StagePoints
  <1>6. DisputeRead(r, b) => Off(r)
    BY <1>1 DEF DisputeRead, Unchanged, Read, Idle, StagePoints
  <1>7. ASSUME NEW o \in Bookings, CapturePaypal(r, o, b) \/ PollMomo(r, o, b) PROVE Off(r)
    BY <1>1, <1>7 DEF CapturePaypal, PollMomo, Frame, Idle, StagePoints
  <1>8. ASSUME NEW w \in {"GUEST", "HOST"}, NEW a \in Amounts \cup {0}, ResolveRead(r, b, w, a)
        PROVE  Off(r)
    BY <1>1, <1>8 DEF ResolveRead, Unchanged, Read, Idle, StagePoints
  <1>9. ASSUME CheckInRead(r, b) PROVE On(r)
    <2>1. PICK q : q = Read(b, "checkin_write") OBVIOUS
    <2>2. q.pc = "checkin_write" /\ q.b = b BY <2>1 DEF Read, Idle
    <2>3. /\ UNCHANGED <<bookings, history, payment>> /\ req'[r] = q
          /\ bookings[b].status = "CONFIRMED"
      BY <1>9, <2>1, Started DEF CheckInRead, ReadOnly
    <2>4. Backed(b)' BY <2>3 DEF StageInv, Staged, Backed
    <2> QED BY <2>2, <2>3, <2>4 DEF On, Ready
  <1>10. ASSUME CheckOutRead(r, b) PROVE On(r)
    <2>1. PICK q : q = Read(b, "checkout_commit") OBVIOUS
    <2>2. q.pc = "checkout_commit" /\ q.b = b BY <2>1 DEF Read, Idle
    <2>3. /\ UNCHANGED <<bookings, history, payment>> /\ req'[r] = q
          /\ bookings[b].status = "CHECKED_IN"
      BY <1>10, <2>1, Started DEF CheckOutRead, ReadOnly
    <2>4. bookings'[b].checkedIn BY <2>3 DEF StageInv, Staged
    <2> QED BY <2>2, <2>3, <2>4 DEF On, Ready
  <1> QED BY <1>2, <1>3, <1>4, <1>5, <1>6, <1>7, <1>8, <1>9, <1>10

LEMMA PayStill ==
    ASSUME TypeInv, PayInv, StageInv, NEW r \in Reqs
    PROVE  /\ \/ \E m \in Methods : PayInsert(r, m)
              \/ PayOrder(r) \/ PayCheck(r) \/ PayDebit(r) \/ PayUpdate(r)
              \/ PayLog(r) \/ PayThrow(r) \/ PayFailed(r) \/ MomoFailed(r)
              => Off(r)
           /\ CompleteRead(r) \/ CompleteUpdate(r) => Off(r) \/ On(r)
           /\ RefundRead(r) \/ RefundProvider(r) \/ RefundRow(r) \/ RefundUpdate(r) => Off(r)
           /\ CancelUpdate(r) \/ ResolveUpdate(r) \/ TransactionTimeout(r) => Off(r)
  <1> USE DEF property, money, wallets, Frame
  <1>g. ASSUME NEW p, Goto(r, p), p \notin StagePoints, UNCHANGED <<bookings, history>>
        PROVE  Off(r)
    BY <1>g, Went DEF Off
  <1>f. ASSUME Finish(r), UNCHANGED <<bookings, history>> PROVE Off(r)
    BY <1>f, Finished DEF Off, StagePoints
  <1>r. req \in [Reqs -> Request] /\ req[r] \in Request BY DEF TypeInv, ReqInv
  <1>1. ASSUME NEW m \in Methods, PayInsert(r, m) PROVE Off(r)
    BY <1>1, <1>g DEF PayInsert, StagePoints
  <1>2. PayOrder(r) \/ PayCheck(r) \/ PayDebit(r) \/ PayUpdate(r) \/ PayThrow(r) => Off(r)
    BY <1>g DEF PayOrder, PayCheck, PayDebit, PayUpdate, PayThrow, StagePoints
  <1>3. PayLog(r) \/ PayFailed(r) \/ MomoFailed(r) => Off(r)
    BY <1>f DEF PayLog, PayFailed, MomoFailed
  <1>4. ASSUME CompleteRead(r) PROVE Off(r) \/ On(r)
    <2>1. CASE Finish(r) BY <1>4, <1>f, <2>1 DEF CompleteRead
    <2>2. CASE req' = [req EXCEPT ![r] = Read(req[r].b, "complete_update")]
      <3>1. PICK q : q = Read(req[r].b, "complete_update") OBVIOUS
      <3>2. /\ q.pc = "complete_update" /\ q.b = req[r].b
            /\ q.status = bookings[req[r].b].status
        BY <3>1 DEF Read, Idle
      <3>3. req' = [req EXCEPT ![r] = q] BY <2>2, <3>1
      <3>4. req'[r] = q /\ UNCHANGED <<bookings, history>> BY <1>4, <3>3, SetReq DEF CompleteRead
      <3>5. req[r].b \in Bookings
        BY <1>4, BookedPoints DEF CompleteRead, At, PayInv, Completing
      <3> QED BY <3>2, <3>4, <3>5 DEF On, Ready
    <2> QED BY <1>4, <2>1, <2>2 DEF CompleteRead
  <1>5. ASSUME CompleteUpdate(r) PROVE On(r)
    <2>1. req[r].pc = "complete_update" /\ Ready(req[r])
      BY <1>5 DEF CompleteUpdate, At, StageInv, StagePoints
    <2>2. /\ req'[r].pc = "complete_commit" /\ req'[r].b = req[r].b
          /\ req'[r].status = req[r].status /\ UNCHANGED <<bookings, history>>
      BY <1>5, Went DEF CompleteUpdate
    <2>3. req[r].b \in Bookings BY <2>1, BookedPoints DEF PayInv, Completing
    <2> QED BY <2>1, <2>2, <2>3 DEF On, Ready
  <1>6. RefundRead(r) \/ RefundProvider(r) \/ RefundRow(r) => Off(r)
    BY <1>g DEF RefundRead, RefundProvider, RefundRow, StagePoints
  <1>7. RefundUpdate(r) => Off(r)
    <2>1. req[r].ret \notin StagePoints BY <1>r DEF Request, StagePoints
    <2> QED BY <1>f, <1>g, <2>1 DEF RefundUpdate
  <1>8. ASSUME NEW p, NEW x, req' = [req EXCEPT ![r].ret = x, ![r].pc = p], p \notin StagePoints,
               UNCHANGED <<bookings, history>>
        PROVE  Off(r)
    BY <1>8, <1>r DEF Off, Request
  <1>9. CancelUpdate(r) => Off(r)
    <2> DEFINE p == IF req[r].paid /\ req[r].amt > 0 THEN "refund_read" ELSE "cancel_commit"
    <2>1. p \notin StagePoints BY DEF StagePoints
    <2>2. CancelUpdate(r) => /\ req' = [req EXCEPT ![r].ret = "cancel_commit", ![r].pc = p]
                             /\ UNCHANGED <<bookings, history>>
      BY DEF CancelUpdate, ReadOnly
    <2> HIDE DEF p
    <2> QED BY <1>8, <2>1, <2>2
  <1>10. ResolveUpdate(r) => Off(r)
    <2> DEFINE p == IF req[r].amt # 0 THEN "refund_read" ELSE "resolve_commit"
    <2>1. p \notin StagePoints BY DEF StagePoints
    <2>2. ResolveUpdate(r) => /\ req' = [req EXCEPT ![r].ret = "resolve_commit", ![r].pc = p]
                              /\ UNCHANGED <<bookings, history>>
      BY DEF ResolveUpdate, Unchanged
    <2> HIDE DEF p
    <2> QED BY <1>8, <2>1, <2>2
  <1>11. TransactionTimeout(r) => Off(r)
    <2>1. CASE End(r) BY <2>1, OtherStill
    <2>2. CASE req[r].pc \in RefundPoints /\ req' = [req EXCEPT ![r].ret = "idle"]
                 /\ UNCHANGED <<bookings, history>>
      <3>1. req'[r].pc = req[r].pc BY <1>r, <2>2 DEF Request
      <3> QED BY <2>2, <3>1 DEF Off, RefundPoints, StagePoints
    <2> QED BY <2>1, <2>2 DEF TransactionTimeout
  <1> QED BY <1>1, <1>2, <1>3, <1>4, <1>5, <1>6, <1>7, <1>9, <1>10, <1>11

(* The write of one booking's status, and perhaps its history row.         *)
LEMMA StatusStep ==
    ASSUME TypeInv, PayInv, StageInv, CalInv, NEW c \in Bookings,
           \A b \in Bookings \ {c} : bookings'[b] = bookings[b] /\ history'[b] = history[b],
           payment' = payment, history[c] \subseteq history'[c],
           bookings'[c].status # "PENDING",
           bookings'[c].status = "CONFIRMED" => "CONFIRMED" \in history'[c],
           bookings'[c].status = "CHECKED_IN" => bookings'[c].checkedIn,
           bookings[c].checkedIn => bookings'[c].checkedIn,
           bookings'[c].checkedIn => Backed(c),
           bookings'[c].checkedOut => bookings'[c].checkedIn
    PROVE  \A b \in Bookings : Forward(b) /\ Staged(b)'
  <1>1. \A b \in Bookings \ {c} : Forward(b) /\ Staged(b)' BY PaidKept
  <1>2. Backed(c) => Backed(c)' BY DEF Backed
  <1>3. Forward(c) /\ Staged(c)' BY <1>2 DEF Forward, Staged, Backed
  <1> QED BY <1>1, <1>3

LEMMA WriteStages ==
    ASSUME TypeInv, PayInv, StageInv, CalInv, NEW r \in Reqs
    PROVE  /\ ConfirmWrite(r) \/ RejectWrite(r) \/ CheckInWrite(r) \/ CheckOutCommit(r) => Staging(r)
           /\ CancelCommit(r) \/ DisputeCommit(r) \/ ResolveCommit(r) => Staging(r)
  <1> USE DEF property, money, wallets, OnlyBooking, Unchanged
  <1> DEFINE c == req[r].b
  <1>t. /\ bookings \in [Bookings -> BookingRow] /\ history \in [Bookings -> SUBSET BookingStatus]
        /\ \A b \in Bookings : bookings[b] \in BookingRow
    BY DEF TypeInv, TypeOK
  <1>s. ASSUME NEW x, SetStatus(c, x), c \in Bookings
        PROVE  /\ bookings'[c].status = x
               /\ bookings'[c].checkedIn = bookings[c].checkedIn
               /\ bookings'[c].checkedOut = bookings[c].checkedOut
               /\ \A b \in Bookings \ {c} : bookings'[b] = bookings[b]
    BY <1>s, <1>t DEF SetStatus, BookingRow
  <1>h. ASSUME NEW x, AddHistory(c, x), c \in Bookings
        PROVE  /\ history'[c] = history[c] \cup {x}
               /\ \A b \in Bookings \ {c} : history'[b] = history[b]
    BY <1>h, <1>t DEF AddHistory
  <1>p. /\ \A q \in Reqs : req[q].b \in Bookings => Exists(req[q].b)
        /\ c \in Bookings => Staged(c)
    BY DEF CalInv, Rooted, Grounded, StageInv
  <1>w. ASSUME req[r].pc \in Booked, payment' = payment,
               req'[r].pc \notin StagePoints, \A q \in Reqs \ {r} : req'[q] = req[q],
               \A b \in Bookings : Forward(b) /\ Staged(b)'
        PROVE  Staging(r)
    BY <1>w DEF Staging
  <1>1. ASSUME ConfirmWrite(r) PROVE Staging(r)
    <2>1. req[r].pc \in Booked /\ c \in Bookings BY <1>1, BookedPoints DEF ConfirmWrite, At, PayInv
    <2>2. \A b \in Bookings : Forward(b) /\ Staged(b)'
      BY <1>1, <1>h, <1>p, <1>s, <2>1, StatusStep DEF ConfirmWrite, UpdateBookingStatus, Staged
    <2>3. req'[r].pc \notin StagePoints /\ \A q \in Reqs \ {r} : req'[q] = req[q]
      BY <1>1, Finished DEF ConfirmWrite, StagePoints
    <2> QED BY <1>1, <1>w, <2>1, <2>2, <2>3 DEF ConfirmWrite, UpdateBookingStatus
  <1>2. ASSUME RejectWrite(r) PROVE Staging(r)
    <2>1. req[r].pc \in Booked /\ c \in Bookings BY <1>2, BookedPoints DEF RejectWrite, At, PayInv
    <2>2. \A b \in Bookings : Forward(b) /\ Staged(b)'
      BY <1>2, <1>h, <1>p, <1>s, <2>1, StatusStep DEF RejectWrite, UpdateBookingStatus, Staged
    <2>3. req'[r].pc \notin StagePoints /\ \A q \in Reqs \ {r} : req'[q] = req[q]
      BY <1>2, Finished, Went DEF RejectWrite, StagePoints
    <2> QED BY <1>2, <1>w, <2>1, <2>2, <2>3 DEF RejectWrite, UpdateBookingStatus
  <1>e. ASSUME NEW x, \/ req' = [req EXCEPT ![r].pc = "write_history", ![r].arg = x]
                      \/ req' = [req EXCEPT ![r].pc = "write_history", ![r].arg = x, ![r].ret = "idle"]
        PROVE  req'[r].pc \notin StagePoints /\ \A q \in Reqs \ {r} : req'[q] = req[q]
    <2>1. req \in [Reqs -> Request] /\ req[r] \in Request BY DEF TypeInv, ReqInv
    <2>2. req'[r].pc = "write_history" BY <1>e, <2>1 DEF Request
    <2> QED BY <1>e, <2>1, <2>2 DEF StagePoints
  <1>3. ASSUME CheckInWrite(r) PROVE Staging(r)
    <2>1. /\ req[r].pc \in Booked /\ c \in Bookings /\ Backed(c)
      BY <1>3, BookedPoints DEF CheckInWrite, At, PayInv, StageInv, StagePoints, Ready
    <2>2. /\ bookings'[c].status = "CHECKED_IN" /\ bookings'[c].checkedIn
          /\ \A b \in Bookings \ {c} : bookings'[b] = bookings[b]
      BY <1>3, <1>t, <2>1 DEF CheckInWrite, BookingRow
    <2>3. \A b \in Bookings : Forward(b) /\ Staged(b)'
      BY <1>3, <1>p, <2>1, <2>2, StatusStep DEF CheckInWrite
    <2>4. req'[r].pc \notin StagePoints /\ \A q \in Reqs \ {r} : req'[q] = req[q]
      BY <1>3, <1>e DEF CheckInWrite
    <2> QED BY <1>3, <1>w, <2>1, <2>3, <2>4 DEF CheckInWrite
  <1>4. ASSUME CheckOutCommit(r) PROVE Staging(r)
    <2>1. /\ req[r].pc \in Booked /\ c \in Bookings /\ bookings[c].checkedIn
      BY <1>4, BookedPoints DEF CheckOutCommit, At, PayInv, StageInv, StagePoints, Ready
    <2>2. /\ bookings'[c].status = "CHECKED_OUT" /\ bookings'[c].checkedIn
          /\ \A b \in Bookings \ {c} : bookings'[b] = bookings[b]
      BY <1>4, <1>t, <2>1 DEF CheckOutCommit, BookingRow
    <2>3. \A b \in Bookings : Forward(b) /\ Staged(b)'
      BY <1>4, <1>p, <2>1, <2>2, StatusStep DEF CheckOutCommit, Staged
    <2>4. req'[r].pc \notin StagePoints /\ \A q \in Reqs \ {r} : req'[q] = req[q]
      BY <1>4, <1>e DEF CheckOutCommit
    <2> QED BY <1>4, <1>w, <2>1, <2>3, <2>4 DEF CheckOutCommit
  <1>5. ASSUME CancelCommit(r) PROVE Staging(r)
    <2>1. req[r].pc \in Booked /\ c \in Bookings BY <1>5, BookedPoints DEF CancelCommit, At, PayInv
    <2>2. /\ bookings'[c].status = "CANCELLED" /\ bookings'[c].checkedIn = bookings[c].checkedIn
          /\ bookings'[c].checkedOut = bookings[c].checkedOut
          /\ \A b \in Bookings \ {c} : bookings'[b] = bookings[b]
      BY <1>5, <1>t, <2>1 DEF CancelCommit, BookingRow
    <2>3. \A b \in Bookings : Forward(b) /\ Staged(b)'
      BY <1>5, <1>p, <2>1, <2>2, StatusStep DEF CancelCommit, Staged
    <2>4. req'[r].pc \notin StagePoints /\ \A q \in Reqs \ {r} : req'[q] = req[q]
      BY <1>5, <1>e DEF CancelCommit
    <2> QED BY <1>5, <1>w, <2>1, <2>3, <2>4 DEF CancelCommit
  <1>6. ASSUME DisputeCommit(r) \/ ResolveCommit(r) PROVE Staging(r)
    <2>1. req[r].pc \in Booked /\ c \in Bookings
      BY <1>6, BookedPoints DEF DisputeCommit, ResolveCommit, At, PayInv
    <2>2. \A b \in Bookings : Forward(b) /\ Staged(b)'
      BY <1>6, <1>p, <1>s, <2>1, StatusStep DEF DisputeCommit, ResolveCommit, Staged
    <2>3. req'[r].pc \notin StagePoints /\ \A q \in Reqs \ {r} : req'[q] = req[q]
      BY <1>6, Finished DEF DisputeCommit, ResolveCommit, StagePoints
    <2> QED BY <1>6, <1>w, <2>1, <2>2, <2>3 DEF DisputeCommit, ResolveCommit
  <1> QED BY <1>1, <1>2, <1>3, <1>4, <1>5, <1>6

(* The steps that create a booking, log a status or confirm by payment.    *)
LEMMA OtherStages ==
    ASSUME TypeInv, PayInv, StageInv, CalInv, NEW r \in Reqs
    PROVE  /\ \A b \in Bookings : CreateCommit(r, b) => Staging(r)
           /\ WriteHistory(r) \/ CompleteCommit(r) => Staging(r)
  <1> USE DEF property, money, wallets, OnlyBooking
  <1>t. /\ bookings \in [Bookings -> BookingRow] /\ history \in [Bookings -> SUBSET BookingStatus]
        /\ \A b \in Bookings : bookings[b] \in BookingRow
    BY DEF TypeInv, TypeOK
  <1>1. ASSUME NEW b \in Bookings, CreateCommit(r, b) PROVE Staging(r)
    <2> DEFINE status == IF InstantBook THEN "CONFIRMED" ELSE "PENDING"
    <2>1. /\ ~Exists(b) /\ payment' = payment
          /\ \A c \in Bookings \ {b} : bookings'[c] = bookings[c] /\ history'[c] = history[c]
          /\ bookings'[b].status = status /\ history'[b] = {status}
          /\ ~bookings'[b].checkedIn /\ ~bookings'[b].checkedOut
      BY <1>1, <1>t DEF CreateCommit, NoBooking
    <2>2. ~Settled(b)
      <3>1. payment[b].provider = NONE BY <2>1 DEF CalInv, Rooted
      <3> QED BY <3>1, NoneAssumption DEF PayInv, RowFits, NoPayment, Settled, PaymentStatus
    <2>3. Staged(b)' BY <2>1, <2>2 DEF Staged, Backed, Settled
    <2>4. \A c \in Bookings \ {b} : Forward(c) /\ Staged(c)' BY <2>1, PaidKept
    <2>5. req'[r].pc \notin StagePoints /\ \A q \in Reqs \ {r} : req'[q] = req[q]
      BY <1>1, Went DEF CreateCommit, StagePoints
    <2> QED BY <2>1, <2>3, <2>4, <2>5 DEF Staging
  <1>2. ASSUME WriteHistory(r) PROVE Staging(r)
    <2>1. UNCHANGED <<bookings, payment>> /\ \A b \in Bookings : history[b] \subseteq history'[b]
      BY <1>2, <1>t DEF WriteHistory, AddHistory
    <2>2. \A b \in Bookings : Forward(b) /\ Staged(b)'
      BY <2>1 DEF StageInv, Staged, Forward, Backed, Settled
    <2>3. req'[r].pc \notin StagePoints /\ \A q \in Reqs \ {r} : req'[q] = req[q]
      BY <1>2, Finished DEF WriteHistory, StagePoints
    <2> QED BY <2>2, <2>3 DEF Staging
  <1>3. ASSUME CompleteCommit(r) PROVE Staging(r)
    <2>0. PICK c : c = req[r].b OBVIOUS
    <2>1. c \in Bookings /\ Ready(req[r])
      BY <1>3, <2>0, BookedPoints DEF CompleteCommit, At, PayInv, Completing, StageInv, StagePoints
    <2> DEFINE row == [payment[c] EXCEPT !.status = "COMPLETED", !.captured = TRUE]
    <2>2. /\ \A b \in Bookings \ {c} : payment'[b] = payment[b]
          /\ history' = history /\ payment'[c].captured
      <3>1. payment \in [Bookings -> PaymentRow] /\ payment[c] \in PaymentRow
        BY <2>1 DEF TypeInv, TypeOK
      <3>2. payment' = [payment EXCEPT ![c] = row] BY <1>3, <2>0, <2>1, <3>1 DEF CompleteCommit
      <3>3. row.captured BY <3>1 DEF PaymentRow
      <3> HIDE DEF row
      <3> QED BY <1>3, <2>1, <3>1, <3>2, <3>3 DEF CompleteCommit
    <2>3. Backed(c)' BY <2>2 DEF Backed
    <2>4. /\ \A b \in Bookings \ {c} : bookings'[b] = bookings[b]
          /\ bookings'[c].checkedIn = bookings[c].checkedIn
          /\ bookings'[c].checkedOut = bookings[c].checkedOut
          /\ \/ bookings'[c].status = "CONFIRMED"
             \/ bookings'[c].status = bookings[c].status /\ req[r].status # "PENDING"
      BY <1>3, <1>t, <2>0, <2>1 DEF CompleteCommit, SetStatus, BookingRow
    <2>5. bookings'[c].status # "PENDING"
      BY <1>3, <2>0, <2>1, <2>4 DEF CompleteCommit, At, Ready
    <2>6. Forward(c) /\ Staged(c)'
      BY <2>1, <2>3, <2>4, <2>5 DEF StageInv, Staged, Forward
    <2>7. \A b \in Bookings \ {c} : Forward(b) /\ Staged(b)' BY <2>2, <2>4, PaidKept
    <2>8. req'[r].pc \notin StagePoints /\ \A q \in Reqs \ {r} : req'[q] = req[q]
      BY <1>3, Finished DEF CompleteCommit, StagePoints
    <2> QED BY <2>6, <2>7, <2>8 DEF Staging
  <1> QED BY <1>1, <1>2, <1>3

-----------------------------------------------------------------------------
(* The specification.                                                      *)

LEMMA OffStep ==
    ASSUME TypeInv, PayInv, StageInv, CalInv, NEW r \in Reqs, Off(r) \/ On(r),
           Aloof(r) \/ \E c \in Bookings : RowStep(r, c) /\ ~CompleteCommit(r)
    PROVE  Staging(r)
  <1>1. \A q \in Reqs \ {r} : req'[q] = req[q] BY DEF Aloof, RowStep
  <1> QED BY <1>1, StillStep DEF Aloof, Off, On

LEMMA ResumeStages ==
    ASSUME TypeInv, PayInv, StageInv, CalInv, NEW r \in Reqs,
           Resume(r) \/ CreateAbort(r) \/ End(r) \/ TransactionTimeout(r) \/ PayThrow(r)
    PROVE  Staging(r)
  <1>1. CASE \/ CreateSnapshot(r) \/ CreateAbort(r) \/ ReleaseLock(r) \/ BlockWrite(r)
             \/ RemoveWrite(r) \/ WithdrawDebit(r) \/ End(r)
    BY <1>1, OtherStill, ListingAloof, OffStep
  <1>2. CASE CancelUpdate(r) \/ ResolveUpdate(r) BY <1>2, PayStill, WriteAloof, OffStep
  <1>3. CASE \/ ConfirmWrite(r) \/ RejectWrite(r) \/ CheckInWrite(r) \/ CheckOutCommit(r)
             \/ CancelCommit(r) \/ DisputeCommit(r) \/ ResolveCommit(r)
    BY <1>3, WriteStages
  <1>4. CASE (\E b \in Bookings : CreateCommit(r, b)) \/ WriteHistory(r) \/ CompleteCommit(r)
    BY <1>4, OtherStages
  <1>c. ASSUME req[r].pc \in Booked PROVE req[r].b \in Bookings BY <1>c DEF PayInv
  <1>5. CASE \/ \E m \in Methods : PayInsert(r, m)
             \/ PayOrder(r) \/ PayCheck(r) \/ PayDebit(r) \/ PayUpdate(r)
             \/ PayLog(r) \/ PayThrow(r) \/ PayFailed(r)
    <2>1. req[r].pc \in Booked /\ ~CompleteCommit(r)
      BY <1>5, BookedPoints DEF PayInsert, PayOrder, PayCheck, PayDebit, PayUpdate, PayLog,
                                PayThrow, PayFailed, CompleteCommit, At, Paying
    <2> QED BY <1>5, <1>c, <2>1, InitiateSteps, PayStill, OffStep
  <1>6. CASE MomoFailed(r) \/ CompleteRead(r) \/ CompleteUpdate(r)
    <2>1. req[r].pc \in Booked /\ ~CompleteCommit(r)
      BY <1>6, BookedPoints
      DEF MomoFailed, CompleteRead, CompleteUpdate, CompleteCommit, At, Completing
    <2> QED BY <1>6, <1>c, <2>1, CompleteSteps, PayStill, OffStep
  <1>7. CASE RefundRead(r) \/ RefundProvider(r) \/ RefundRow(r) \/ RefundUpdate(r)
    <2>1. req[r].pc \in Booked /\ ~CompleteCommit(r)
      BY <1>7, BookedPoints
      DEF RefundRead, RefundProvider, RefundRow, RefundUpdate, CompleteCommit, At, Refunding
    <2> QED BY <1>7, <1>c, <2>1, RefundPaySteps, PayStill, OffStep
  <1>8. CASE TransactionTimeout(r)
    <2>1. CASE CompleteCommit(r) BY <2>1, OtherStages
    <2>2. CASE ~CompleteCommit(r)
      <3>1. req[r].pc \in Booked
        BY <1>8 DEF TransactionTimeout, Booked, PayPoints, BookingPoints
      <3> QED BY <1>8, <1>c, <2>2, <3>1, RefundPaySteps, PayStill, OffStep
    <2> QED BY <2>1, <2>2
  <1> QED BY <1>1, <1>2, <1>3, <1>4, <1>5, <1>6, <1>7, <1>8 DEF Resume

LEMMA ArriveStages ==
    ASSUME TypeInv, PayInv, StageInv, CalInv, NEW r \in Reqs, Arrive(r)
    PROVE  Staging(r)
  <1>1. CASE \/ \E s \in Stays : AcquireLock(r, s)
             \/ \E s \in Blocks : BlockRead(r, s)
             \/ RemoveRead(r)
             \/ \E o \in Owners, a \in Amounts : WithdrawRead(r, o, a)
    BY <1>1, OtherStill, ListingAloof, OffStep
  <1>2. ASSUME NEW b \in Bookings,
               \/ ConfirmRead(r, b) \/ RejectRead(r, b) \/ CheckInRead(r, b)
               \/ CheckOutRead(r, b) \/ CancelRead(r, b)
               \/ PayRead(r, b) \/ DisputeRead(r, b)
               \/ \E w \in {"GUEST", "HOST"}, a \in Amounts \cup {0} : ResolveRead(r, b, w, a)
        PROVE  Staging(r)
    BY <1>2, ReadStill, ReadAloof, OffStep
  <1>3. ASSUME NEW o \in Bookings, NEW b \in Bookings, CapturePaypal(r, o, b) \/ PollMomo(r, o, b)
        PROVE  Staging(r)
    <2>1. Off(r) BY <1>3, ReadStill
    <2>2. UNCHANGED payment /\ \A q \in Reqs \ {r} : req'[q] = req[q]
      BY <1>3, Started DEF CapturePaypal, PollMomo, money
    <2> QED BY <2>1, <2>2, StillStep DEF Off
  <1> QED BY <1>1, <1>2, <1>3 DEF Arrive

LEMMA InitStage == ASSUME Init PROVE StageInv
  <1>1. \A q \in Reqs : req[q].pc \notin StagePoints BY DEF Init, Idle, StagePoints
  <1>2. \A b \in Bookings : Staged(b)
    BY NoneAssumption
    DEF Init, Staged, NoBooking, NoPayment, Settled, BookingStatus, PaymentStatus
  <1> QED BY <1>1, <1>2 DEF StageInv

LEMMA NextStage == ASSUME TypeInv, CalInv, PayInv, StageInv, [Next]_vars PROVE StageInv'
  <1> USE DEF property, money, wallets
  <1>1. CASE UNCHANGED <<bookings, history, payment, req>>
    BY <1>1 DEF StageInv, Ready, Staged, Backed, Settled
  <1>2. CASE UNCHANGED vars BY <1>1, <1>2 DEF vars
  <1>3. CASE Tick BY <1>1, <1>3 DEF Tick
  <1>4. CASE Single
    BY <1>1, <1>4 DEF Single, Approve, Suspend, SetListing, TouchProperty, Escalate, Unchanged
  <1>5. CASE Guest
    BY <1>1, <1>5 DEF Guest, GuestApproves, GuestPays, GuestDeclines, SetOrder, Frame
  <1>6. ASSUME NEW s \in Stays, Expire(s) PROVE StageInv' BY <1>1, <1>6 DEF Expire, LockExpires
  <1>7. ASSUME NEW r \in Reqs, Arrive(r) \/ Advance(r) \/ Fault(r) PROVE StageInv'
    <2>1. \/ Arrive(r)
          \/ Resume(r) \/ CreateAbort(r) \/ End(r) \/ TransactionTimeout(r) \/ PayThrow(r)
      BY <1>7 DEF Advance, Fault, Refused, Drop
    <2>2. Staging(r) BY <2>1, ArriveStages, ResumeStages
    <2> QED BY <2>2, StagingStep
  <1> QED BY <1>2, <1>3, <1>4, <1>5, <1>6, <1>7 DEF Next

(* What the handlers that write a booking's status rely on.                *)
THEOREM StagesCorrect == Spec => []StageInv
  <1>1. Init => StageInv BY InitStage
  <1>2. TypeInv /\ CalInv /\ PayInv /\ StageInv /\ [Next]_vars => StageInv' BY NextStage
  <1> QED BY <1>1, <1>2, TypeCorrect, CalendarCorrect, PaymentsCorrect, PTL DEF Spec

(* A guest is checked in only under a booking that the host confirmed or   *)
(* the completion of a payment did, for which some order was really paid;  *)
(* and checked out only after that.                                        *)
THEOREM StagesInOrderHolds == Spec => []StagesInOrder
  <1>1. StageInv /\ PayInv => StagesInOrder
    BY DEF StageInv, PayInv, Staged, Backed, StagesInOrder
  <1> QED BY <1>1, StagesCorrect, PaymentsCorrect, PTL

(* A booking whose provider payment completed does not wait for the host.  *)
THEOREM PaidIsConfirmedHolds == Spec => []PaidIsConfirmed
  <1>1. StageInv => PaidIsConfirmed BY DEF StageInv, Staged, PaidIsConfirmed
  <1> QED BY <1>1, StagesCorrect, PTL
=============================================================================
