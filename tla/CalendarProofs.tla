--------------------------- MODULE CalendarProofs ---------------------------
(***************************************************************************)
(* No double booking, in every instance.                                   *)
(*                                                                         *)
(* The create transaction's checks speak of the snapshot, its commit of    *)
(* the tables.  SnapshotCurrent ties the two: while nobody has overtaken   *)
(* the snapshot, what it showed still holds, because a step that could     *)
(* spoil it either writes the property row, and so overtakes every open    *)
(* snapshot, or only ends reservations.  The snapshot showed no live       *)
(* booking in the way; FreedOnlyWhenEnded makes that no open reservation.  *)
(***************************************************************************)
EXTENDS RentalTypes

(* A handler, a payment and a dispute belong to a booking that exists.     *)
Grounded(q) == q.b \in Bookings => Exists(q.b)

Rooted ==
    /\ \A r \in Reqs : Grounded(req[r])
    /\ \A b \in Bookings : payment[b].provider # NONE => Exists(b)
    /\ \A b \in Bookings : dispute[b] # NONE => Exists(b)

(* A booking that exists has dates.                                        *)
Dated == \A b \in Bookings : Exists(b) => bookings[b].stay \in Stays

CalInv == Rooted /\ Dated /\ FreedOnlyWhenEnded /\ SnapshotCurrent /\ NoDoubleBooking

-----------------------------------------------------------------------------
(* Steps.                                                                  *)

(* The step changes no booking but c, and neither makes c, nor moves it,   *)
(* nor brings it back, nor frees its dates without a mark.                 *)
Aside(b) == bookings'[b] = bookings[b] /\ history'[b] = history[b] /\ dispute'[b] = dispute[b]

Kept(c) ==
    /\ Exists(c)' <=> Exists(c)
    /\ bookings'[c].stay = bookings[c].stay
    /\ Ended(c) => Ended(c)'
    /\ Exists(c)' /\ bookings'[c].status \notin Live => Ended(c)'

Touches1(c) == (\A b \in Bookings \ {c} : Aside(b)) /\ (c \in Bookings => Kept(c))

(* The step opens no snapshot, and one that was overtaken stays so.        *)
Behind(q) ==
    req'[q].pc = "create_commit" =>
        /\ req[q].pc = "create_commit"
        /\ req'[q].stay = req[q].stay
        /\ q \in stale => q \in stale'

(* Every step but those of create and the writes of the property row.      *)
Ordinary ==
    /\ \E c : Touches1(c)
    /\ listing' = listing
    /\ \A q \in Reqs : Behind(q)

LEMMA AsideKept ==
    ASSUME FreedOnlyWhenEnded, NEW b \in Bookings, Aside(b) PROVE Kept(b)
  <1>1. /\ Exists(b)' <=> Exists(b)
        /\ Ended(b)' <=> Ended(b)
    BY DEF Aside, Exists, Ended
  <1> QED BY <1>1 DEF Aside, Kept, FreedOnlyWhenEnded

LEMMA AllKept ==
    ASSUME FreedOnlyWhenEnded, NEW c, Touches1(c) PROVE \A b \in Bookings : Kept(b)
  BY AsideKept DEF Touches1

(* What bookings do not lose by being kept.                                *)
LEMMA KeptSafe ==
    ASSUME CalInv, \A b \in Bookings : Kept(b)
    PROVE  Dated' /\ FreedOnlyWhenEnded' /\ NoDoubleBooking'
  <1>0. Dated' BY DEF CalInv, Dated, Kept
  <1>1. FreedOnlyWhenEnded' BY DEF FreedOnlyWhenEnded, Kept
  <1>2. \A b \in Bookings : Open(b)' => Open(b) /\ bookings'[b].stay = bookings[b].stay
    BY DEF Open, Kept
  <1>3. NoDoubleBooking' BY <1>2 DEF CalInv, NoDoubleBooking
  <1> QED BY <1>0, <1>1, <1>3

LEMMA OrdinaryStep == ASSUME CalInv, Ordinary, Rooted' PROVE CalInv'
  <1>1. \A b \in Bookings : Kept(b) BY AllKept DEF CalInv, Ordinary
  <1>2. \A b \in Bookings : Open(b)' => Open(b) /\ bookings'[b].stay = bookings[b].stay
    BY <1>1 DEF Open, Kept
  <1>3. SnapshotCurrent'
    BY <1>2 DEF CalInv, SnapshotCurrent, Ordinary, Behind, At
  <1> QED BY <1>1, <1>3, KeptSafe DEF CalInv

-----------------------------------------------------------------------------
(* A step of the handler in slot r.                                        *)

(* Only r moves, not to create_commit, and stays with a booking that is.   *)
Moves(r) ==
    /\ \A q \in Reqs \ {r} : req'[q] = req[q]
    /\ req'[r].pc # "create_commit"
    /\ req'[r].b \in Bookings => Exists(req'[r].b)

Fine == Ordinary /\ Rooted'

LEMMA RequestStep ==
    ASSUME CalInv, NEW r \in Reqs, Moves(r), NEW c, c = req[r].b,
           listing' = listing, stale \ {r} \subseteq stale',
           \A b \in Bookings \ {c} : Aside(b) /\ payment'[b] = payment[b],
           c \in Bookings => Kept(c)
    PROVE  Fine
  <1>1. Touches1(c) BY DEF Touches1
  <1>2. \A q \in Reqs : Behind(q) BY DEF Moves, Behind
  <1>3. \A b \in Bookings : Kept(b) BY <1>1, AllKept DEF CalInv
  <1>4. \A b \in Bookings : Exists(b) => Exists(b)' BY <1>3 DEF Kept
  <1>5. \A q \in Reqs : Grounded(req[q])'
    <2>1. \A q \in Reqs \ {r} : Grounded(req[q])'
      BY <1>4 DEF CalInv, Rooted, Grounded, Moves
    <2>2. Grounded(req[r])' BY <1>4 DEF Grounded, Moves
    <2> QED BY <2>1, <2>2
  <1>6. c \in Bookings => Exists(c) BY DEF CalInv, Rooted, Grounded
  <1>7. \A b \in Bookings : (payment[b].provider # NONE)' \/ (dispute[b] # NONE)' => Exists(b)'
    <2>1. ASSUME NEW b \in Bookings \ {c} PROVE
            payment'[b].provider # NONE \/ dispute'[b] # NONE => Exists(b)
      BY DEF CalInv, Rooted, Aside
    <2> QED BY <1>4, <1>6, <2>1
  <1>8. Rooted' BY <1>5, <1>7 DEF Rooted
  <1> QED BY <1>1, <1>2, <1>8 DEF Fine, Ordinary

(* The steps that write no booking, history or dispute.                    *)
LEMMA QuietStep ==
    ASSUME CalInv, NEW r \in Reqs, Moves(r), stale \ {r} \subseteq stale',
           UNCHANGED <<listing, bookings, history, dispute>>,
           \A b \in Bookings \ {req[r].b} : payment'[b] = payment[b]
    PROVE  Fine
  <1>1. \A b \in Bookings : Aside(b) BY DEF Aside
  <1>2. \A b \in Bookings : Kept(b) BY <1>1, AsideKept DEF CalInv
  <1>3. PICK c : c = req[r].b OBVIOUS
  <1> QED BY <1>1, <1>2, <1>3, RequestStep

LEMMA MovesTo ==
    ASSUME TypeInv, NEW r \in Reqs, NEW q, req' = [req EXCEPT ![r] = q],
           q.pc # "create_commit", Grounded(q)
    PROVE  Moves(r)
  BY DEF TypeInv, ReqInv, Moves, Grounded

LEMMA FinishMoves == ASSUME TypeInv, NEW r \in Reqs, Finish(r) PROVE Moves(r)
  <1>1. Idle.pc # "create_commit" /\ Grounded(Idle) BY NoneAssumption DEF Idle, Grounded
  <1> QED BY <1>1, MovesTo DEF Finish

LEMMA GotoMoves ==
    ASSUME TypeInv, CalInv, NEW r \in Reqs, NEW p, p # "create_commit", Goto(r, p)
    PROVE  Moves(r)
  <1> DEFINE q == [req[r] EXCEPT !.pc = p]
  <1>1. req[r] \in Request /\ Grounded(req[r]) BY DEF TypeInv, ReqInv, CalInv, Rooted
  <1>2. q.pc = p /\ q.b = req[r].b BY <1>1 DEF Request
  <1>3. req' = [req EXCEPT ![r] = q] BY DEF Goto
  <1> HIDE DEF q
  <1> QED BY <1>1, <1>2, <1>3, MovesTo DEF Grounded

LEMMA ReadMoves ==
    ASSUME TypeInv, NEW r \in Reqs, NEW b, b \in Bookings => Exists(b), NEW p,
           p # "create_commit", req' = [req EXCEPT ![r] = Read(b, p)]
    PROVE  Moves(r)
  <1>1. Read(b, p).pc = p /\ Read(b, p).b = b BY DEF Read, Idle
  <1> QED BY <1>1, MovesTo DEF Grounded

(* The rewrites of other local variables.                                  *)
LEMMA EditMoves ==
    ASSUME TypeInv, CalInv, NEW r \in Reqs, NEW p, p # "create_commit", NEW x,
           \/ req' = [req EXCEPT ![r].pc = p, ![r].arg = x]
           \/ req' = [req EXCEPT ![r].ret = x, ![r].pc = p]
           \/ \E y : req' = [req EXCEPT ![r].pc = p, ![r].arg = x, ![r].ret = y]
           \/ req[r].pc = p /\ req' = [req EXCEPT ![r].ret = x]
    PROVE  Moves(r)
  <1>1. req[r] \in Request /\ Grounded(req[r]) BY DEF TypeInv, ReqInv, CalInv, Rooted
  <1>2. req \in [Reqs -> Request] BY DEF TypeInv, ReqInv
  <1>3. \A q \in Reqs \ {r} : req'[q] = req[q] BY <1>2
  <1>4. req'[r].pc = p /\ req'[r].b = req[r].b BY <1>1, <1>2 DEF Request
  <1> QED BY <1>1, <1>3, <1>4 DEF Moves, Grounded

-----------------------------------------------------------------------------
(* The handlers' steps that write no booking.                              *)

LEMMA StartSteps ==
    ASSUME TypeInv, CalInv, NEW r \in Reqs
    PROVE  /\ \A s \in Stays : AcquireLock(r, s) => Fine
           /\ \A s \in Blocks : BlockRead(r, s) => Fine
           /\ RemoveRead(r) => Fine
           /\ \A o \in Owners, a \in Amounts : WithdrawRead(r, o, a) => Fine
  <1> USE DEF property, money, wallets
  <1>1. ASSUME NEW q, q.pc # "create_commit", q.b = NONE, Start(r, q) PROVE Moves(r)
    BY <1>1, MovesTo, NoneAssumption DEF Start, Grounded
  <1>2. ASSUME NEW s \in Stays, AcquireLock(r, s) PROVE Fine
    <2>1. Moves(r) BY <1>1, <1>2 DEF AcquireLock, Idle
    <2> QED BY <1>2, <2>1, QuietStep DEF AcquireLock
  <1>3. ASSUME NEW s \in Blocks, BlockRead(r, s) PROVE Fine
    <2>1. Moves(r) BY <1>1, <1>3 DEF BlockRead, Idle
    <2> QED BY <1>3, <2>1, QuietStep DEF BlockRead
  <1>4. CASE RemoveRead(r)
    <2>1. Moves(r) BY <1>1, <1>4 DEF RemoveRead, Idle
    <2> QED BY <1>4, <2>1, QuietStep DEF RemoveRead
  <1>5. ASSUME NEW o \in Owners, NEW a \in Amounts, WithdrawRead(r, o, a) PROVE Fine
    <2>1. Moves(r) BY <1>1, <1>5 DEF WithdrawRead, Idle
    <2> QED BY <1>5, <2>1, QuietStep DEF WithdrawRead
  <1> QED BY <1>2, <1>3, <1>4, <1>5

LEMMA ReadSteps ==
    ASSUME TypeInv, CalInv, NEW r \in Reqs, NEW b \in Bookings
    PROVE  /\ ConfirmRead(r, b) \/ RejectRead(r, b) \/ CheckInRead(r, b)
                \/ CheckOutRead(r, b) \/ CancelRead(r, b) => Fine
           /\ PayRead(r, b) \/ DisputeRead(r, b) => Fine
           /\ \A w \in {"GUEST", "HOST"}, a \in Amounts \cup {0} :
                ResolveRead(r, b, w, a) => Fine
           /\ \A o \in Bookings : CapturePaypal(r, o, b) \/ PollMomo(r, o, b) => Fine
  <1> USE DEF property, money, wallets
  <1>r. ASSUME NEW q, q.pc # "create_commit", q.b = b, Start(r, q), Exists(b),
               UNCHANGED <<listing, stale, bookings, history, dispute, payment>>
        PROVE  Fine
    <2>1. Moves(r) BY <1>r, MovesTo DEF Start, Grounded
    <2> QED BY <1>r, <2>1, QuietStep
  <1>n. NONE \notin BookingStatus BY NoneAssumption
  <1>1. CASE ConfirmRead(r, b)
    BY <1>1, <1>n, <1>r DEF ConfirmRead, ReadOnly, Read, Idle, Exists, BookingStatus
  <1>2. CASE RejectRead(r, b)
    BY <1>2, <1>n, <1>r DEF RejectRead, ReadOnly, Read, Idle, Exists, BookingStatus
  <1>3. CASE CheckInRead(r, b)
    BY <1>3, <1>n, <1>r DEF CheckInRead, ReadOnly, Read, Idle, Exists, BookingStatus
  <1>4. CASE CheckOutRead(r, b)
    BY <1>4, <1>n, <1>r DEF CheckOutRead, ReadOnly, Read, Idle, Exists, BookingStatus
  <1>5. CASE CancelRead(r, b)
    BY <1>5, <1>r DEF CancelRead, ReadOnly, Read, Idle
  <1>6. CASE PayRead(r, b)
    BY <1>6, <1>r DEF PayRead, Frame, Read, Idle
  <1>7. CASE DisputeRead(r, b)
    BY <1>7, <1>n, <1>r DEF DisputeRead, Unchanged, Read, Idle, Exists, BookingStatus
  <1>8. ASSUME NEW w \in {"GUEST", "HOST"}, NEW a \in Amounts \cup {0}, ResolveRead(r, b, w, a)
        PROVE  Fine
    <2>1. Exists(b) BY <1>8 DEF ResolveRead, CalInv, Rooted
    <2> QED BY <1>8, <1>r, <2>1 DEF ResolveRead, Unchanged, Read, Idle
  <1>9. ASSUME NEW o \in Bookings, CapturePaypal(r, o, b) \/ PollMomo(r, o, b) PROVE Fine
    <2>1. payment[b].provider # NONE
      BY <1>9 DEF CapturePaypal, PollMomo, Named
    <2>2. Exists(b) BY <2>1 DEF CalInv, Rooted
    <2> QED BY <1>9, <1>r, <2>2 DEF CapturePaypal, PollMomo, Frame, Idle
  <1> QED BY <1>1, <1>2, <1>3, <1>4, <1>5, <1>6, <1>7, <1>8, <1>9

LEMMA PaySteps ==
    ASSUME TypeInv, CalInv, NEW r \in Reqs
    PROVE  /\ (\E m \in Methods : PayInsert(r, m)) => Fine
           /\ PayOrder(r) \/ PayCheck(r) \/ PayDebit(r) \/ PayUpdate(r) => Fine
           /\ PayLog(r) \/ PayThrow(r) \/ PayFailed(r) \/ MomoFailed(r) => Fine
           /\ CompleteRead(r) \/ CompleteUpdate(r) => Fine
  <1> USE DEF property, money, wallets, Frame
  <1>t. payment \in [Bookings -> PaymentRow] BY DEF TypeInv, TypeOK
  <1>1. ASSUME NEW m \in Methods, PayInsert(r, m) PROVE Fine
    <2>1. Moves(r) BY <1>1, GotoMoves DEF PayInsert
    <2> QED BY <1>1, <1>t, <2>1, QuietStep DEF PayInsert
  <1>2. CASE PayOrder(r) \/ PayCheck(r) \/ PayDebit(r)
    <2>1. Moves(r) BY <1>2, GotoMoves DEF PayOrder, PayCheck, PayDebit
    <2> QED BY <1>2, <2>1, QuietStep DEF PayOrder, PayCheck, PayDebit
  <1>3. CASE PayUpdate(r)
    <2>1. Moves(r) BY <1>3, GotoMoves DEF PayUpdate
    <2> QED BY <1>3, <1>t, <2>1, QuietStep DEF PayUpdate
  <1>4. CASE PayLog(r)
    <2>1. Moves(r) BY <1>4, FinishMoves DEF PayLog
    <2> QED BY <1>4, <2>1, QuietStep DEF PayLog
  <1>5. CASE PayThrow(r)
    <2>1. Moves(r) BY <1>5, GotoMoves DEF PayThrow
    <2> QED BY <1>5, <2>1, QuietStep DEF PayThrow
  <1>6. CASE PayFailed(r) \/ MomoFailed(r)
    <2>1. Moves(r) BY <1>6, FinishMoves DEF PayFailed, MomoFailed
    <2> QED BY <1>6, <1>t, <2>1, QuietStep DEF PayFailed, MomoFailed, SetPayment
  <1>7. CASE CompleteRead(r)
    <2>1. req[r].b \in Bookings => Exists(req[r].b) BY DEF CalInv, Rooted, Grounded
    <2>2. \/ Finish(r)
          \/ req' = [req EXCEPT ![r] = Read(req[r].b, "complete_update")]
      BY <1>7 DEF CompleteRead
    <2>3. Moves(r) BY <2>1, <2>2, FinishMoves, ReadMoves
    <2> QED BY <1>7, <2>3, QuietStep DEF CompleteRead
  <1>8. CASE CompleteUpdate(r)
    <2>1. Moves(r) BY <1>8, GotoMoves DEF CompleteUpdate
    <2> QED BY <1>8, <2>1, QuietStep DEF CompleteUpdate
  <1> QED BY <1>1, <1>2, <1>3, <1>4, <1>5, <1>6, <1>7, <1>8

LEMMA RefundSteps ==
    ASSUME TypeInv, CalInv, NEW r \in Reqs
    PROVE  RefundRead(r) \/ RefundProvider(r) \/ RefundRow(r) \/ RefundUpdate(r) => Fine
  <1> USE DEF property, money, wallets, Frame
  <1>1. CASE RefundRead(r) \/ RefundProvider(r) \/ RefundRow(r)
    <2>1. Moves(r) BY <1>1, GotoMoves DEF RefundRead, RefundProvider, RefundRow
    <2> QED BY <1>1, <2>1, QuietStep DEF RefundRead, RefundProvider, RefundRow
  <1>2. CASE RefundUpdate(r)
    <2>1. payment \in [Bookings -> PaymentRow] BY DEF TypeInv, TypeOK
    <2>2. req[r].ret # "create_commit" BY DEF TypeInv, ReqInv, Request
    <2>3. Moves(r) BY <1>2, <2>2, FinishMoves, GotoMoves DEF RefundUpdate
    <2> QED BY <1>2, <2>1, <2>3, QuietStep DEF RefundUpdate, SetPayment
  <1> QED BY <1>1, <1>2

LEMMA OtherSteps ==
    ASSUME TypeInv, CalInv, NEW r \in Reqs
    PROVE  /\ ReleaseLock(r) \/ CreateAbort(r) \/ BlockWrite(r) \/ WithdrawDebit(r) => Fine
           /\ CancelUpdate(r) \/ ResolveUpdate(r) => Fine
           /\ End(r) \/ TransactionTimeout(r) => Fine
  <1> USE DEF property, money, wallets
  <1>1. CASE ReleaseLock(r) \/ BlockWrite(r) \/ WithdrawDebit(r)
    <2>1. Moves(r) BY <1>1, FinishMoves DEF ReleaseLock, BlockWrite, WithdrawDebit
    <2> QED BY <1>1, <2>1, QuietStep DEF ReleaseLock, BlockWrite, WithdrawDebit
  <1>2. CASE CreateAbort(r)
    <2>1. Moves(r) BY <1>2, GotoMoves DEF CreateAbort
    <2> QED BY <1>2, <2>1, QuietStep DEF CreateAbort
  <1>3. CASE CancelUpdate(r)
    <2>1. Moves(r)
      <3> DEFINE p == IF req[r].paid /\ req[r].amt > 0 THEN "refund_read" ELSE "cancel_commit"
      <3>1. p # "create_commit" OBVIOUS
      <3>2. req' = [req EXCEPT ![r].ret = "cancel_commit", ![r].pc = p]
        BY <1>3 DEF CancelUpdate
      <3> HIDE DEF p
      <3> QED BY <3>1, <3>2, EditMoves
    <2> QED BY <1>3, <2>1, QuietStep DEF CancelUpdate, ReadOnly
  <1>4. CASE ResolveUpdate(r)
    <2>1. Moves(r)
      <3> DEFINE p == IF req[r].amt # 0 THEN "refund_read" ELSE "resolve_commit"
      <3>1. p # "create_commit" OBVIOUS
      <3>2. req' = [req EXCEPT ![r].ret = "resolve_commit", ![r].pc = p]
        BY <1>4 DEF ResolveUpdate
      <3> HIDE DEF p
      <3> QED BY <3>1, <3>2, EditMoves
    <2> QED BY <1>4, <2>1, QuietStep DEF ResolveUpdate, Unchanged
  <1>5. CASE End(r)
    <2>1. Moves(r) BY <1>5, FinishMoves DEF End
    <2> QED BY <1>5, <2>1, QuietStep DEF End
  <1>6. CASE req[r].pc \in RefundPoints /\ req' = [req EXCEPT ![r].ret = "idle"]
             /\ UNCHANGED <<today, property, bookings, history, dispute, money, wallets>>
    <2>1. req[r].pc # "create_commit" BY <1>6 DEF RefundPoints
    <2>2. Moves(r) BY <1>6, <2>1, EditMoves
    <2> QED BY <1>6, <2>2, QuietStep
  <1> QED BY <1>1, <1>2, <1>3, <1>4, <1>5, <1>6 DEF TransactionTimeout

-----------------------------------------------------------------------------
(* The handlers' steps that write a booking.                               *)

LEMMA WriteStep ==
    ASSUME TypeInv, CalInv, NEW r \in Reqs, NEW b, b = req[r].b, Moves(r),
           UNCHANGED <<listing, stale>>,
           \A c \in Bookings \ {b} : Aside(c) /\ payment'[c] = payment[c],
           b \in Bookings =>
               /\ bookings'[b].stay = bookings[b].stay
               /\ bookings'[b].status # NONE
               /\ Ended(b) => Ended(b)'
               /\ bookings'[b].status \notin Live => Ended(b)'
    PROVE  Fine
  <1>1. b \in Bookings => Exists(b) BY DEF CalInv, Rooted, Grounded
  <1>2. b \in Bookings => Kept(b) BY <1>1 DEF Kept, Exists
  <1> QED BY <1>2, RequestStep

LEMMA BookingSteps ==
    ASSUME TypeInv, CalInv, NEW r \in Reqs, NEW b, b = req[r].b
    PROVE  /\ ConfirmWrite(r) \/ RejectWrite(r) \/ CheckInWrite(r) => Fine
           /\ CheckOutCommit(r) \/ WriteHistory(r) \/ CancelCommit(r) => Fine
           /\ CompleteCommit(r) \/ DisputeCommit(r) \/ ResolveCommit(r) => Fine
  <1> USE DEF property, money, wallets, OnlyBooking
  <1>b. bookings \in [Bookings -> BookingRow] BY DEF TypeInv, TypeOK
  <1>h. history \in [Bookings -> SUBSET BookingStatus] BY DEF TypeInv, TypeOK
  <1>d. dispute \in [Bookings -> DisputeStatus \cup {NONE}] BY DEF TypeInv, TypeOK
  <1>p. payment \in [Bookings -> PaymentRow] BY DEF TypeInv, TypeOK
  <1>n. /\ \A s \in BookingStatus : s # NONE
        /\ \A s \in DisputeStatus : s # NONE
    BY NoneAssumption
  <1>e. b \in Bookings => Exists(b) BY DEF CalInv, Rooted, Grounded
  <1>1. CASE ConfirmWrite(r)
    <2>1. Moves(r) BY <1>1, FinishMoves DEF ConfirmWrite
    <2>2. /\ bookings' = [bookings EXCEPT ![b].status = "CONFIRMED"]
          /\ history' = [history EXCEPT ![b] = @ \cup {"CONFIRMED"}]
      BY <1>1 DEF ConfirmWrite, UpdateBookingStatus, SetStatus, AddHistory
    <2>3. UNCHANGED <<listing, stale, payment, dispute>>
      BY <1>1 DEF ConfirmWrite, UpdateBookingStatus
    <2>4. \A c \in Bookings \ {b} : Aside(c) /\ payment'[c] = payment[c]
      BY <1>b, <1>h, <2>2, <2>3 DEF Aside
    <2>5. b \in Bookings => /\ bookings'[b].stay = bookings[b].stay
                            /\ bookings'[b].status = "CONFIRMED"
      BY <1>b, <2>2 DEF BookingRow
    <2>6. b \in Bookings /\ Ended(b) => Ended(b)'
      BY <1>b, <1>h, <2>2, <2>3 DEF Ended, BookingRow
    <2> QED BY <1>n, <2>1, <2>3, <2>4, <2>5, <2>6, WriteStep DEF Live, BookingStatus
  <1>2. CASE RejectWrite(r)
    <2>1. Moves(r) BY <1>2, FinishMoves, GotoMoves DEF RejectWrite
    <2>2. /\ bookings' = [bookings EXCEPT ![b].status = "REJECTED"]
          /\ history' = [history EXCEPT ![b] = @ \cup {"REJECTED"}]
      BY <1>2 DEF RejectWrite, UpdateBookingStatus, SetStatus, AddHistory
    <2>3. UNCHANGED <<listing, stale, payment, dispute>>
      BY <1>2 DEF RejectWrite, UpdateBookingStatus
    <2>4. \A c \in Bookings \ {b} : Aside(c) /\ payment'[c] = payment[c]
      BY <1>b, <1>h, <2>2, <2>3 DEF Aside
    <2>5. b \in Bookings => /\ bookings'[b].stay = bookings[b].stay
                            /\ bookings'[b].status = "REJECTED"
      BY <1>b, <2>2 DEF BookingRow
    <2>6. b \in Bookings => Ended(b)' BY <1>h, <2>2 DEF Ended
    <2> QED BY <1>n, <2>1, <2>3, <2>4, <2>5, <2>6, WriteStep DEF BookingStatus
  <1>3. CASE CheckInWrite(r)
    <2>1. Moves(r) BY <1>3, EditMoves DEF CheckInWrite
    <2>2. bookings' = [bookings EXCEPT ![b].status = "CHECKED_IN", ![b].checkedIn = TRUE]
      BY <1>3 DEF CheckInWrite
    <2>3. UNCHANGED <<listing, stale, payment, dispute, history>> BY <1>3 DEF CheckInWrite
    <2>4. \A c \in Bookings \ {b} : Aside(c) /\ payment'[c] = payment[c]
      BY <1>b, <2>2, <2>3 DEF Aside
    <2>5. b \in Bookings => /\ bookings'[b].stay = bookings[b].stay
                            /\ bookings'[b].status = "CHECKED_IN"
      BY <1>b, <2>2 DEF BookingRow
    <2>6. b \in Bookings /\ Ended(b) => Ended(b)'
      BY <1>b, <2>2, <2>3 DEF Ended, BookingRow
    <2> QED BY <1>n, <2>1, <2>3, <2>4, <2>5, <2>6, WriteStep DEF Live, BookingStatus
  <1>4. CASE CheckOutCommit(r)
    <2>1. Moves(r) BY <1>4, EditMoves DEF CheckOutCommit
    <2>2. bookings' = [bookings EXCEPT ![b].status = "CHECKED_OUT", ![b].checkedOut = TRUE]
      BY <1>4 DEF CheckOutCommit
    <2>3. UNCHANGED <<listing, stale, payment, dispute, history>> BY <1>4 DEF CheckOutCommit
    <2>4. \A c \in Bookings \ {b} : Aside(c) /\ payment'[c] = payment[c]
      BY <1>b, <2>2, <2>3 DEF Aside
    <2>5. b \in Bookings => /\ bookings'[b].stay = bookings[b].stay
                            /\ bookings'[b].status = "CHECKED_OUT"
                            /\ bookings'[b].checkedOut = TRUE
      BY <1>b, <2>2 DEF BookingRow
    <2>6. b \in Bookings => Ended(b)' BY <2>5 DEF Ended
    <2> QED BY <1>n, <2>1, <2>3, <2>4, <2>5, <2>6, WriteStep DEF BookingStatus
  <1>5. CASE WriteHistory(r)
    <2>1. Moves(r) BY <1>5, FinishMoves DEF WriteHistory
    <2>2. history' = [history EXCEPT ![b] = @ \cup {req[r].arg}]
      BY <1>5 DEF WriteHistory, AddHistory
    <2>3. UNCHANGED <<listing, stale, payment, dispute, bookings>> BY <1>5 DEF WriteHistory
    <2>4. \A c \in Bookings \ {b} : Aside(c) /\ payment'[c] = payment[c]
      BY <1>h, <2>2, <2>3 DEF Aside
    <2>5. b \in Bookings /\ Ended(b) => Ended(b)' BY <1>h, <2>2, <2>3 DEF Ended
    <2>6. b \in Bookings /\ bookings[b].status \notin Live => Ended(b)
      BY <1>e DEF CalInv, FreedOnlyWhenEnded
    <2> QED BY <1>e, <2>1, <2>3, <2>4, <2>5, <2>6, WriteStep DEF Exists
  <1>6. CASE CancelCommit(r)
    <2>1. Moves(r) BY <1>6, EditMoves DEF CancelCommit
    <2>2. bookings' = [bookings EXCEPT ![b].status = "CANCELLED", ![b].cancelled = TRUE]
      BY <1>6 DEF CancelCommit
    <2>3. UNCHANGED <<listing, stale, payment, dispute, history>> BY <1>6 DEF CancelCommit
    <2>4. \A c \in Bookings \ {b} : Aside(c) /\ payment'[c] = payment[c]
      BY <1>b, <2>2, <2>3 DEF Aside
    <2>5. b \in Bookings => /\ bookings'[b].stay = bookings[b].stay
                            /\ bookings'[b].status = "CANCELLED"
                            /\ bookings'[b].cancelled = TRUE
      BY <1>b, <2>2 DEF BookingRow
    <2>6. b \in Bookings => Ended(b)' BY <2>5 DEF Ended
    <2> QED BY <1>n, <2>1, <2>3, <2>4, <2>5, <2>6, WriteStep DEF BookingStatus
  <1>7. CASE CompleteCommit(r)
    <2>1. Moves(r) BY <1>7, FinishMoves DEF CompleteCommit
    <2>2. \/ bookings' = [bookings EXCEPT ![b].status = "CONFIRMED"]
          \/ bookings' = bookings
      BY <1>7 DEF CompleteCommit, SetStatus
    <2>3. UNCHANGED <<listing, stale, dispute, history>> BY <1>7 DEF CompleteCommit
    <2>4. \A c \in Bookings \ {b} : Aside(c) /\ payment'[c] = payment[c]
      BY <1>b, <1>p, <1>7, <2>2, <2>3 DEF Aside, CompleteCommit
    <2>5. b \in Bookings => /\ bookings'[b].stay = bookings[b].stay
                            /\ bookings'[b].status \in {"CONFIRMED", bookings[b].status}
      BY <1>b, <2>2 DEF BookingRow
    <2>6. b \in Bookings /\ Ended(b) => Ended(b)'
      BY <1>b, <2>2, <2>3 DEF Ended, BookingRow
    <2>7. b \in Bookings /\ bookings[b].status \notin Live => Ended(b)
      BY <1>e DEF CalInv, FreedOnlyWhenEnded
    <2> QED BY <1>e, <1>n, <2>1, <2>3, <2>4, <2>5, <2>6, <2>7, WriteStep
         DEF Exists, Live, BookingStatus
  <1>8. CASE DisputeCommit(r)
    <2>1. Moves(r) BY <1>8, FinishMoves DEF DisputeCommit
    <2>2. /\ bookings' = [bookings EXCEPT ![b].status = "DISPUTED"]
          /\ dispute' = [dispute EXCEPT ![b] = "OPEN"]
      BY <1>8 DEF DisputeCommit, SetStatus
    <2>3. UNCHANGED <<listing, stale, payment, history>>
      BY <1>8 DEF DisputeCommit, Unchanged
    <2>4. \A c \in Bookings \ {b} : Aside(c) /\ payment'[c] = payment[c]
      BY <1>b, <1>d, <2>2, <2>3 DEF Aside
    <2>5. b \in Bookings => /\ bookings'[b].stay = bookings[b].stay
                            /\ bookings'[b].status = "DISPUTED"
                            /\ dispute'[b] = "OPEN"
      BY <1>b, <1>d, <2>2 DEF BookingRow
    <2>6. b \in Bookings => Ended(b)' BY <1>n, <2>5 DEF Ended, DisputeStatus
    <2> QED BY <1>n, <2>1, <2>3, <2>4, <2>5, <2>6, WriteStep DEF BookingStatus
  <1>9. CASE ResolveCommit(r)
    <2>1. Moves(r) BY <1>9, FinishMoves DEF ResolveCommit
    <2>2. /\ bookings' = [bookings EXCEPT ![b].status = "CHECKED_OUT"]
          /\ \/ dispute' = [dispute EXCEPT ![b] = "RESOLVED_HOST"]
             \/ dispute' = [dispute EXCEPT ![b] = "RESOLVED_GUEST"]
      BY <1>9 DEF ResolveCommit, SetStatus
    <2>3. UNCHANGED <<listing, stale, payment, history>>
      BY <1>9 DEF ResolveCommit, Unchanged
    <2>4. \A c \in Bookings \ {b} : Aside(c) /\ payment'[c] = payment[c]
      BY <1>b, <1>d, <2>2, <2>3 DEF Aside
    <2>5. b \in Bookings => /\ bookings'[b].stay = bookings[b].stay
                            /\ bookings'[b].status = "CHECKED_OUT"
                            /\ dispute'[b] \in {"RESOLVED_HOST", "RESOLVED_GUEST"}
      BY <1>b, <1>d, <2>2 DEF BookingRow
    <2>6. b \in Bookings => Ended(b)' BY <1>n, <2>5 DEF Ended, DisputeStatus
    <2> QED BY <1>n, <2>1, <2>3, <2>4, <2>5, <2>6, WriteStep DEF BookingStatus
  <1> QED BY <1>1, <1>2, <1>3, <1>4, <1>5, <1>6, <1>7, <1>8, <1>9

-----------------------------------------------------------------------------
(* The steps of nobody's handler.                                          *)

LEMMA OutsideStep ==
    ASSUME CalInv, UNCHANGED <<listing, req>>, NEW c,
           \A q \in Reqs : At(q, "create_commit") /\ q \in stale => q \in stale',
           \A b \in Bookings \ {c} : Aside(b),
           c \in Bookings => Kept(c) /\ (dispute'[c] # NONE => Exists(c)),
           \A b \in Bookings : payment'[b] = payment[b]
    PROVE  Fine
  <1>1. Touches1(c) BY DEF Touches1
  <1>2. \A b \in Bookings : Kept(b) BY <1>1, AllKept DEF CalInv
  <1>3. \A b \in Bookings : Exists(b) => Exists(b)' BY <1>2 DEF Kept
  <1>4. Rooted' BY <1>3 DEF CalInv, Rooted, Grounded, Aside
  <1>5. \A q \in Reqs : Behind(q) BY DEF Behind, At
  <1> QED BY <1>1, <1>4, <1>5 DEF Fine, Ordinary

LEMMA OutsideSteps ==
    ASSUME TypeInv, CalInv
    PROVE  /\ Tick \/ Guest \/ TouchProperty => Fine
           /\ \A s \in Stays : LockExpires(s) => Fine
           /\ \A b \in Bookings : Escalate(b) => Fine
  <1> USE DEF property, money, wallets
  <1>q. ASSUME UNCHANGED <<listing, req, bookings, history, dispute, payment>>,
               \A q \in Reqs : At(q, "create_commit") /\ q \in stale => q \in stale'
        PROVE  Fine
    <2>1. \A b \in Bookings : Aside(b) BY <1>q DEF Aside
    <2> QED BY <1>q, <2>1, OutsideStep, NoneAssumption
  <1>1. CASE Tick BY <1>1, <1>q DEF Tick
  <1>2. CASE Guest
    BY <1>2, <1>q DEF Guest, GuestApproves, GuestPays, GuestDeclines, SetOrder, Frame
  <1>3. CASE TouchProperty
    <2>1. \A q \in Reqs : At(q, "create_commit") => q \in stale'
      BY <1>3, NoneAssumption DEF TouchProperty, Overtake
    <2> QED BY <1>3, <1>q, <2>1 DEF TouchProperty
  <1>4. ASSUME NEW s \in Stays, LockExpires(s) PROVE Fine BY <1>4, <1>q DEF LockExpires
  <1>5. ASSUME NEW b \in Bookings, Escalate(b) PROVE Fine
    <2>1. dispute \in [Bookings -> DisputeStatus \cup {NONE}] BY DEF TypeInv, TypeOK
    <2>2. Exists(b) BY <1>5 DEF CalInv, Rooted, Escalate
    <2>3. dispute' = [dispute EXCEPT ![b] = "ESCALATED"] BY <1>5 DEF Escalate
    <2>4. UNCHANGED <<listing, req, bookings, history, payment, stale>>
      BY <1>5 DEF Escalate, Unchanged
    <2>5. \A c \in Bookings \ {b} : Aside(c) BY <2>1, <2>3, <2>4 DEF Aside
    <2>6. Exists(b)' BY <2>2, <2>4 DEF Exists
    <2>7. Ended(b)' /\ bookings'[b] = bookings[b]
      BY <2>1, <2>3, <2>4, NoneAssumption DEF Ended, DisputeStatus
    <2>8. Kept(b) BY <2>2, <2>4, <2>6, <2>7 DEF Kept
    <2> QED BY <2>2, <2>4, <2>5, <2>8, OutsideStep
  <1> QED BY <1>1, <1>2, <1>3, <1>4, <1>5

-----------------------------------------------------------------------------
(* The steps of create and the writes of the property row.                 *)

LEMMA SnapshotStep ==
    ASSUME TypeInv, CalInv, NEW r \in Reqs, CreateSnapshot(r)
    PROVE  CalInv'
  <1> USE DEF property, money, wallets
  <1> DEFINE p == IF Available(req[r].stay) THEN "create_commit" ELSE "create_release"
             q == [req[r] EXCEPT !.pc = p]
  <1>1. UNCHANGED <<listing, bookings, history, dispute, payment>> BY DEF CreateSnapshot
  <1>2. req \in [Reqs -> Request] BY DEF TypeInv, ReqInv
  <1>3. req' = [req EXCEPT ![r] = q] BY DEF CreateSnapshot, Goto
  <1>4. q.pc = p /\ q.stay = req[r].stay /\ q.b = req[r].b BY <1>2 DEF Request
  <1> HIDE DEF q
  <1>5. \A c \in Reqs \ {r} : req'[c] = req[c] BY <1>2, <1>3
  <1>6. req'[r] = q BY <1>2, <1>3
  <1>7. \A b \in Bookings : Kept(b) BY <1>1, AsideKept DEF Aside, CalInv
  <1>8. Rooted'
    <2>1. \A c \in Reqs : req'[c].b = req[c].b BY <1>4, <1>5, <1>6
    <2> QED BY <1>1, <2>1 DEF CalInv, Rooted, Grounded, Exists
  <1>9. SnapshotCurrent'
    <2>1. \A b \in Bookings : Open(b)' <=> Open(b) BY <1>1 DEF Open, Exists, Ended
    <2>2. ASSUME NEW c \in Reqs \ {r}, req'[c].pc = "create_commit", c \notin stale'
          PROVE  /\ listing.status = "ACTIVE" /\ ~listing.deleted
                 /\ \A b \in Bookings : Open(b) => ~Overlaps(bookings[b].stay, req'[c].stay)
      BY <1>5, <2>2 DEF CalInv, SnapshotCurrent, CreateSnapshot, At
    <2>3. ASSUME req'[r].pc = "create_commit"
          PROVE  /\ listing.status = "ACTIVE" /\ ~listing.deleted
                 /\ \A b \in Bookings : Open(b) => ~Overlaps(bookings[b].stay, req'[r].stay)
      <3>1. Available(req[r].stay) BY <1>4, <1>6, <2>3
      <3>2. \A b \in Bookings : Open(b) => bookings[b].status \in Live
        BY DEF CalInv, FreedOnlyWhenEnded, Open
      <3> QED BY <1>4, <1>6, <3>1, <3>2 DEF Available
    <2> QED BY <1>1, <2>1, <2>2, <2>3 DEF SnapshotCurrent, At
  <1> QED BY <1>7, <1>8, <1>9, KeptSafe DEF CalInv

(* What the commit does to the calendar: one reservation that was not      *)
(* there, whose dates no open one overlaps.                                *)
LEMMA CommitStep ==
    ASSUME TypeInv, CalInv, NEW r \in Reqs, NEW b \in Bookings, CreateCommit(r, b),
           NEW s, s = req[r].stay
    PROVE  /\ CalInv'
           /\ s \in Stays
           /\ ~Exists(b) /\ Open(b)' /\ bookings'[b].stay = s
           /\ \A c \in Bookings : Open(c) => ~Overlaps(bookings[c].stay, s)
           /\ \A c \in Bookings \ {b} : Aside(c)
  <1> USE DEF property, money, wallets
  <1> DEFINE status == IF InstantBook THEN "CONFIRMED" ELSE "PENDING"
  <1>1. /\ bookings \in [Bookings -> BookingRow]
        /\ history \in [Bookings -> SUBSET BookingStatus]
        /\ req \in [Reqs -> Request]
    BY DEF TypeInv, TypeOK
  <1>2. status \in Live /\ status # NONE
    BY NoneAssumption DEF Live, BookingStatus
  <1>3. /\ bookings'[b].status = status /\ bookings'[b].stay = s
        /\ ~bookings'[b].cancelled /\ ~bookings'[b].checkedOut
        /\ history'[b] = {status}
    BY <1>1 DEF CreateCommit, NoBooking
  <1>4. \A c \in Bookings \ {b} : Aside(c) BY <1>1 DEF CreateCommit, Aside
  <1>5. UNCHANGED <<listing, dispute, payment>> BY DEF CreateCommit
  <1>6. ~Exists(b) BY DEF CreateCommit
  <1>7. s \in Stays BY DEF CreateCommit, At, TypeInv, ReqInv, Shape, CreatePoints
  <1>8. Exists(b)' BY <1>2, <1>3 DEF Exists
  <1>9. Open(b)'
    <2>1. dispute[b] = NONE BY <1>6 DEF CalInv, Rooted
    <2>2. "REJECTED" \notin history'[b] BY <1>3
    <2> QED BY <1>3, <1>5, <1>8, <2>1, <2>2 DEF Open, Ended
  <1>10. \A c \in Bookings : Open(c) => ~Overlaps(bookings[c].stay, s)
    BY DEF CreateCommit, CalInv, SnapshotCurrent
  <1> HIDE DEF status
  <1>11. \A c \in Bookings \ {b} : Kept(c) BY <1>4, AsideKept DEF CalInv
  <1>12. /\ \A c \in Bookings \ {b} : (Open(c)' <=> Open(c)) /\ bookings'[c].stay = bookings[c].stay
         /\ \A c \in Bookings : Exists(c) => Exists(c)'
    BY <1>4, <1>6 DEF Aside, Open, Exists, Ended
  <1>13. Dated' BY <1>3, <1>7, <1>11 DEF CalInv, Dated, Kept
  <1>14. FreedOnlyWhenEnded' BY <1>2, <1>3, <1>11 DEF CalInv, FreedOnlyWhenEnded, Kept
  <1>15. NoDoubleBooking'
    <2>1. \A c, d \in Bookings \ {b} :
            Open(c)' /\ Open(d)' /\ Overlaps(bookings[c].stay, bookings[d].stay)' => c = d
      BY <1>12 DEF CalInv, NoDoubleBooking, Overlaps
    <2>2. \A c \in Bookings \ {b} : Open(c)' => /\ ~Overlaps(bookings[c].stay, bookings[b].stay)'
                                               /\ ~Overlaps(bookings[b].stay, bookings[c].stay)'
      BY <1>3, <1>10, <1>12 DEF Overlaps
    <2> QED BY <2>1, <2>2 DEF NoDoubleBooking
  <1>16. Rooted'
    <2>1. \A q \in Reqs : req'[q].b = req[q].b
      BY <1>1 DEF CreateCommit, Goto, Request
    <2> QED BY <1>5, <1>12, <2>1 DEF CalInv, Rooted, Grounded
  <1>17. SnapshotCurrent'
    <2>1. \A q \in Reqs : req'[q].pc = "create_commit" => q \in stale'
      BY <1>1 DEF CreateCommit, Overtake, Goto, At, Request
    <2> QED BY <2>1 DEF SnapshotCurrent, At
  <1> QED BY <1>3, <1>4, <1>6, <1>7, <1>9, <1>10, <1>13, <1>14, <1>15, <1>16, <1>17 DEF CalInv

LEMMA PropertySteps ==
    ASSUME TypeInv, CalInv
    PROVE  /\ \A r \in Reqs : RemoveWrite(r) => CalInv'
           /\ Approve \/ Suspend => CalInv'
  <1> USE DEF property, money, wallets
  <1>k. ASSUME UNCHANGED <<bookings, history, dispute, payment>>,
               \A q \in Reqs : req'[q].pc = "create_commit" => q \in stale',
               \A q \in Reqs : req'[q].b \in {NONE, req[q].b}
        PROVE  CalInv'
    <2>1. \A b \in Bookings : Kept(b) BY <1>k, AsideKept DEF Aside, CalInv
    <2>2. Rooted' BY <1>k, NoneAssumption DEF CalInv, Rooted, Grounded, Exists
    <2>3. SnapshotCurrent' BY <1>k DEF SnapshotCurrent, At
    <2> QED BY <2>1, <2>2, <2>3, KeptSafe DEF CalInv
  <1>1. ASSUME NEW r \in Reqs, RemoveWrite(r) PROVE CalInv'
    <2>1. req \in [Reqs -> Request] BY DEF TypeInv, TypeOK
    <2>2. req' = [req EXCEPT ![r] = Idle] /\ Idle.pc = "idle" /\ Idle.b = NONE
      BY <1>1 DEF RemoveWrite, Finish, Idle
    <2>3. \A q \in Reqs : req'[q].pc = "create_commit" => q \in stale'
      BY <1>1, <2>1, <2>2 DEF RemoveWrite, Overtake, At
    <2>4. \A q \in Reqs : req'[q].b \in {NONE, req[q].b} BY <2>1, <2>2
    <2> QED BY <1>1, <1>k, <2>3, <2>4 DEF RemoveWrite
  <1>2. CASE Approve \/ Suspend
    <2>1. \A q \in Reqs : req'[q].pc = "create_commit" => q \in stale'
      BY <1>2, NoneAssumption DEF Approve, Suspend, SetListing, Overtake, At
    <2> QED BY <1>2, <1>k, <2>1 DEF Approve, Suspend, SetListing
  <1> QED BY <1>1, <1>2

-----------------------------------------------------------------------------
(* The specification.                                                      *)

(* Every step is ordinary, or a step of create, or a write of the property *)
(* row.                                                                    *)
LEMMA NextSteps ==
    ASSUME TypeInv, CalInv, Next
    PROVE  \/ Fine
           \/ \E r \in Reqs : CreateSnapshot(r) \/ RemoveWrite(r)
           \/ \E r \in Reqs, b \in Bookings : CreateCommit(r, b)
           \/ Approve \/ Suspend
  <1>1. CASE Tick \/ Guest BY <1>1, OutsideSteps
  <1>2. CASE Single BY <1>2, OutsideSteps DEF Single
  <1>3. ASSUME NEW s \in Stays, Expire(s) PROVE Fine BY <1>3, OutsideSteps DEF Expire
  <1>4. ASSUME NEW r \in Reqs, Arrive(r) PROVE Fine
    <2>1. CASE \/ \E s \in Stays : AcquireLock(r, s)
               \/ \E s \in Blocks : BlockRead(r, s)
               \/ RemoveRead(r)
               \/ \E o \in Owners, a \in Amounts : WithdrawRead(r, o, a)
      BY <2>1, StartSteps
    <2>2. ASSUME NEW b \in Bookings,
                 \/ ConfirmRead(r, b) \/ RejectRead(r, b) \/ CheckInRead(r, b)
                 \/ CheckOutRead(r, b) \/ CancelRead(r, b)
                 \/ PayRead(r, b) \/ DisputeRead(r, b)
                 \/ \E o \in Bookings : CapturePaypal(r, o, b) \/ PollMomo(r, o, b)
                 \/ \E w \in {"GUEST", "HOST"}, a \in Amounts \cup {0} : ResolveRead(r, b, w, a)
          PROVE  Fine
      BY <2>2, ReadSteps
    <2> QED BY <1>4, <2>1, <2>2 DEF Arrive
  <1>5. ASSUME NEW r \in Reqs, Resume(r)
        PROVE  \/ Fine \/ CreateSnapshot(r) \/ RemoveWrite(r)
               \/ \E b \in Bookings : CreateCommit(r, b)
    <2>1. CASE \/ ReleaseLock(r) \/ BlockWrite(r) \/ WithdrawDebit(r)
               \/ CancelUpdate(r) \/ ResolveUpdate(r)
      BY <2>1, OtherSteps
    <2>2. CASE \/ ConfirmWrite(r) \/ RejectWrite(r) \/ CheckInWrite(r) \/ CheckOutCommit(r)
               \/ WriteHistory(r) \/ CancelCommit(r)
               \/ CompleteCommit(r) \/ DisputeCommit(r) \/ ResolveCommit(r)
      BY <2>2, BookingSteps
    <2>3. CASE \/ \E m \in Methods : PayInsert(r, m)
               \/ PayOrder(r) \/ PayCheck(r) \/ PayDebit(r) \/ PayUpdate(r)
               \/ PayLog(r) \/ PayFailed(r) \/ MomoFailed(r)
               \/ CompleteRead(r) \/ CompleteUpdate(r)
      BY <2>3, PaySteps
    <2>4. CASE RefundRead(r) \/ RefundProvider(r) \/ RefundRow(r) \/ RefundUpdate(r)
      BY <2>4, RefundSteps
    <2> QED BY <1>5, <2>1, <2>2, <2>3, <2>4 DEF Resume
  <1>6. ASSUME NEW r \in Reqs, Advance(r) \/ Fault(r)
        PROVE  Fine \/ Resume(r)
    BY <1>6, OtherSteps, PaySteps DEF Advance, Fault, Refused, Drop
  <1> QED BY <1>1, <1>2, <1>3, <1>4, <1>5, <1>6 DEF Next

LEMMA InitCal == ASSUME Init PROVE CalInv
  <1>1. \A b \in Bookings : ~Exists(b) BY DEF Init, NoBooking, Exists
  <1>2. Rooted
    BY NoneAssumption DEF Init, Rooted, Grounded, Idle, NoPayment
  <1>3. SnapshotCurrent BY DEF Init, SnapshotCurrent, At, Idle
  <1> QED BY <1>1, <1>2, <1>3 DEF CalInv, Dated, FreedOnlyWhenEnded, NoDoubleBooking, Open

LEMMA NextCal == ASSUME TypeInv, CalInv, [Next]_vars PROVE CalInv'
  <1>1. CASE UNCHANGED vars
    <2>1. UNCHANGED <<listing, stale, req, bookings, history, dispute, payment>>
      BY <1>1 DEF vars, property, money
    <2>2. \A b \in Bookings : Aside(b) BY <2>1 DEF Aside
    <2>3. Fine BY <2>1, <2>2, OutsideStep, NoneAssumption
    <2> QED BY <2>3, OrdinaryStep DEF Fine
  <1>2. CASE Next
    <2>1. CASE Fine BY <2>1, OrdinaryStep DEF Fine
    <2>2. ASSUME NEW r \in Reqs, CreateSnapshot(r) PROVE CalInv' BY <2>2, SnapshotStep
    <2>3. ASSUME NEW r \in Reqs, NEW b \in Bookings, CreateCommit(r, b) PROVE CalInv'
      BY <2>3, CommitStep
    <2>4. CASE (\E r \in Reqs : RemoveWrite(r)) \/ Approve \/ Suspend BY <2>4, PropertySteps
    <2> QED BY <1>2, <2>1, <2>2, <2>3, <2>4, NextSteps
  <1> QED BY <1>1, <1>2

(* The invariant on which the calendar rests holds in every state: handlers*)
(* and payments belong to bookings, no dates are freed in silence, open    *)
(* snapshots are current, and no two open reservations overlap.            *)
THEOREM CalendarCorrect == Spec => []CalInv
  <1>1. Init => CalInv BY InitCal
  <1>2. TypeInv /\ CalInv /\ [Next]_vars => CalInv' BY NextCal
  <1> QED BY <1>1, <1>2, TypeCorrect, PTL DEF Spec

(* However create and all other handlers interleave, locks expire and      *)
(* processes die, no two open reservations of a property overlap.          *)
THEOREM NoDoubleBookingHolds == Spec => []NoDoubleBooking
  <1>1. CalInv => NoDoubleBooking BY DEF CalInv
  <1> QED BY <1>1, CalendarCorrect, PTL

(* A booking that stops occupying the calendar carries the mark of its end.*)
THEOREM FreedOnlyWhenEndedHolds == Spec => []FreedOnlyWhenEnded
  <1>1. CalInv => FreedOnlyWhenEnded BY DEF CalInv
  <1> QED BY <1>1, CalendarCorrect, PTL

(* A create transaction that can still commit has seen every open          *)
(* reservation, and the property listed.                                   *)
THEOREM SnapshotCurrentHolds == Spec => []SnapshotCurrent
  <1>1. CalInv => SnapshotCurrent BY DEF CalInv
  <1> QED BY <1>1, CalendarCorrect, PTL

(* A booking appears only while the property is listed.                    *)
THEOREM CreatedOnlyWhenListedHolds == Spec => CreatedOnlyWhenListed
  <1> DEFINE A == \A b \in Bookings : ~Exists(b) /\ Exists(b)' =>
                      listing.status = "ACTIVE" /\ ~listing.deleted
  <1>1. ASSUME TypeInv, CalInv, [Next]_vars PROVE [A]_vars
    <2>1. CASE UNCHANGED vars BY <2>1
    <2>2. CASE Next
      <3>1. CASE Fine
        <4>1. PICK c : Touches1(c) BY <3>1 DEF Fine, Ordinary
        <4>2. \A b \in Bookings : Kept(b) BY <1>1, <4>1, AllKept DEF CalInv
        <4> QED BY <4>2 DEF Kept
      <3>2. ASSUME NEW r \in Reqs, CreateSnapshot(r) \/ RemoveWrite(r) PROVE A
        BY <3>2 DEF CreateSnapshot, RemoveWrite, Exists
      <3>3. ASSUME NEW r \in Reqs, NEW b \in Bookings, CreateCommit(r, b) PROVE A
        BY <1>1, <3>3 DEF CreateCommit, CalInv, SnapshotCurrent
      <3>4. CASE Approve \/ Suspend BY <3>4 DEF Approve, Suspend, SetListing, Exists
      <3> QED BY <1>1, <2>2, <3>1, <3>2, <3>3, <3>4, NextSteps
    <2> QED BY <1>1, <2>1, <2>2
  <1> QED BY <1>1, TypeCorrect, CalendarCorrect, PTL DEF Spec, CreatedOnlyWhenListed

(* Who writes the lock keys.                                               *)
LEMMA LockSteps ==
    ASSUME Next
    PROVE  \/ lock' = lock
           \/ \E s \in Stays : LockExpires(s)
           \/ \E r \in Reqs : ReleaseLock(r) \/ \E s \in Stays : AcquireLock(r, s)
  <1> USE DEF property, OnlyBooking, ReadOnly, Frame, Unchanged
  <1>1. CASE Tick \/ Single
    BY <1>1 DEF Tick, Single, Approve, Suspend, SetListing, TouchProperty, Escalate
  <1>2. CASE Guest BY <1>2 DEF Guest, GuestApproves, GuestPays, GuestDeclines, SetOrder
  <1>3. ASSUME NEW r \in Reqs, Arrive(r)
        PROVE  lock' = lock \/ \E s \in Stays : AcquireLock(r, s)
    BY <1>3
    DEF Arrive, BlockRead, RemoveRead, WithdrawRead, ConfirmRead, RejectRead, CheckInRead,
        CheckOutRead, CancelRead, PayRead, CapturePaypal, PollMomo, DisputeRead, ResolveRead
  <1>4. ASSUME NEW r \in Reqs, Resume(r) PROVE lock' = lock \/ ReleaseLock(r)
    <2>1. CASE \/ CreateSnapshot(r) \/ (\E b \in Bookings : CreateCommit(r, b)) \/ ReleaseLock(r)
               \/ BlockWrite(r) \/ RemoveWrite(r) \/ WithdrawDebit(r)
      BY <2>1 DEF CreateSnapshot, CreateCommit, BlockWrite, RemoveWrite, WithdrawDebit
    <2>2. CASE \/ ConfirmWrite(r) \/ RejectWrite(r) \/ CheckInWrite(r) \/ CheckOutCommit(r)
               \/ WriteHistory(r) \/ CancelUpdate(r) \/ CancelCommit(r)
               \/ DisputeCommit(r) \/ ResolveUpdate(r) \/ ResolveCommit(r)
      BY <2>2
      DEF ConfirmWrite, RejectWrite, CheckInWrite, CheckOutCommit, WriteHistory, CancelUpdate,
          CancelCommit, DisputeCommit, ResolveUpdate, ResolveCommit, UpdateBookingStatus
    <2>3. CASE \/ \E m \in Methods : PayInsert(r, m)
               \/ PayOrder(r) \/ PayCheck(r) \/ PayDebit(r) \/ PayUpdate(r) \/ PayLog(r)
               \/ PayFailed(r) \/ MomoFailed(r)
      BY <2>3
      DEF PayInsert, PayOrder, PayCheck, PayDebit, PayUpdate, PayLog, PayFailed, MomoFailed
    <2>4. CASE \/ CompleteRead(r) \/ CompleteUpdate(r) \/ CompleteCommit(r)
               \/ RefundRead(r) \/ RefundProvider(r) \/ RefundRow(r) \/ RefundUpdate(r)
      BY <2>4 DEF CompleteRead, CompleteUpdate, CompleteCommit, RefundRead, RefundProvider,
                  RefundRow, RefundUpdate
    <2> QED BY <1>4, <2>1, <2>2, <2>3, <2>4 DEF Resume
  <1>5. ASSUME NEW r \in Reqs,
               CreateAbort(r) \/ End(r) \/ PayThrow(r) \/ TransactionTimeout(r)
        PROVE  lock' = lock
    BY <1>5 DEF CreateAbort, End, PayThrow, TransactionTimeout
  <1>6. ASSUME NEW r \in Reqs, Advance(r) \/ Fault(r)
        PROVE  Resume(r) \/ CreateAbort(r) \/ End(r) \/ PayThrow(r) \/ TransactionTimeout(r)
    BY <1>6 DEF Advance, Fault, Refused, Drop
  <1> QED BY <1>1, <1>2, <1>3, <1>4, <1>5, <1>6 DEF Next, Expire

(* A lock is taken from its holder only by its own release or by its TTL.  *)
THEOREM ReleaseOnlyOwnHolds == Spec => ReleaseOnlyOwn
  <1> DEFINE A == \A s \in Stays, r \in Reqs : lock[s] = r /\ lock'[s] # r =>
                      LockExpires(s) \/ (At(r, "create_release") /\ req[r].stay = s)
  <1>1. ASSUME TypeInv, [Next]_vars PROVE [A]_vars
    <2>t. lock \in [Stays -> Reqs \cup {NONE}] /\ NONE \notin Reqs
      BY <1>1, NoneAssumption DEF TypeInv, TypeOK
    <2>1. CASE lock' = lock BY <2>1
    <2>2. ASSUME NEW t \in Stays, LockExpires(t) PROVE A BY <2>2, <2>t DEF LockExpires
    <2>3. ASSUME NEW q \in Reqs, NEW t \in Stays, AcquireLock(q, t) PROVE A
      BY <2>3, <2>t DEF AcquireLock
    <2>4. ASSUME NEW q \in Reqs, ReleaseLock(q) PROVE A BY <2>4, <2>t DEF ReleaseLock
    <2> QED BY <1>1, <2>1, <2>2, <2>3, <2>4, LockSteps
  <1> QED BY <1>1, TypeCorrect, PTL DEF Spec, ReleaseOnlyOwn

-----------------------------------------------------------------------------
(* The services implement the calendar.                                    *)

LEMMA InitMaps == ASSUME Init PROVE Cal!Init
  <1>1. \A b \in Bookings : ~Exists(b) BY DEF Init, NoBooking, Exists
  <1> QED BY <1>1 DEF Cal!Init, heldStays, overStays, Open

(* What the calendar shows of a booking does not change.                   *)
Over(b) == Exists(b) /\ Ended(b)

Same(b) ==
    /\ Open(b)' <=> Open(b)
    /\ Over(b)' <=> Over(b)
    /\ bookings'[b].stay = bookings[b].stay

LEMMA AsideSame == ASSUME NEW b, Aside(b) PROVE Same(b)
  BY DEF Aside, Same, Open, Over, Exists, Ended

LEMMA HeldAt ==
    ASSUME NEW c \in Bookings, NEW v, \A b \in Bookings \ {c} : Same(b),
           v = (IF Open(c)' THEN bookings'[c].stay ELSE NONE)
    PROVE  heldStays' = [heldStays EXCEPT ![c] = v]
  <1>1. heldStays' = [b \in Bookings |-> IF Open(b)' THEN bookings'[b].stay ELSE NONE]
    BY DEF heldStays
  <1>2. \A b \in Bookings : heldStays'[b] = [heldStays EXCEPT ![c] = v][b]
    BY <1>1 DEF heldStays, Same
  <1> QED BY <1>1, <1>2 DEF heldStays

(* A step that keeps all bookings and touches one at most ends one         *)
(* reservation, or none.                                                   *)
LEMMA FineMaps ==
    ASSUME CalInv, Fine
    PROVE  Cal!Next \/ UNCHANGED <<heldStays, overStays>>
  <1>1. PICK c : Touches1(c) BY DEF Fine, Ordinary
  <1>2. \A b \in Bookings : Kept(b) BY <1>1, AllKept DEF CalInv
  <1>3. \A b \in Bookings \ {c} : Same(b) BY <1>1, AsideSame DEF Touches1
  <1>o. overStays = {b \in Bookings : Over(b)} /\ overStays' = {b \in Bookings : Over(b)'}
    BY DEF overStays, Over
  <1>4. CASE c \in Bookings /\ Open(c) /\ ~Open(c)'
    <2>1. /\ Exists(c) /\ ~Ended(c)
          /\ Exists(c)' /\ Ended(c)'
      BY <1>2, <1>4 DEF Kept, Open
    <2>2. heldStays[c] # NONE
      BY <1>4, <2>1, NoneAssumption DEF heldStays, CalInv, Dated
    <2>3. heldStays' = [heldStays EXCEPT ![c] = NONE]
      BY <1>3, <1>4, HeldAt
    <2>4. overStays' = overStays \cup {c}
      <3>1. Over(c)' BY <2>1 DEF Over
      <3> QED BY <1>3, <1>4, <1>o, <3>1 DEF Same
    <2> QED BY <1>4, <2>2, <2>3, <2>4 DEF Cal!Next, Cal!End
  <1>5. CASE ~(c \in Bookings /\ Open(c) /\ ~Open(c)')
    <2>1. c \in Bookings => Same(c)
      BY <1>2, <1>5 DEF Kept, Same, Open, Over
    <2>2. \A b \in Bookings : Same(b) BY <1>3, <2>1
    <2>3. heldStays' = heldStays BY <2>2 DEF heldStays, Same
    <2>4. overStays' = overStays BY <1>o, <2>2 DEF Same
    <2> QED BY <2>3, <2>4
  <1> QED BY <1>4, <1>5

LEMMA CommitMaps ==
    ASSUME TypeInv, CalInv, NEW r \in Reqs, NEW b \in Bookings, CreateCommit(r, b)
    PROVE  Cal!Next
  <1>1. PICK s : s = req[r].stay OBVIOUS
  <1>2. /\ s \in Stays
        /\ ~Exists(b) /\ Open(b)' /\ bookings'[b].stay = s
        /\ \A c \in Bookings : Open(c) => ~Overlaps(bookings[c].stay, s)
        /\ \A c \in Bookings \ {b} : Aside(c)
    BY <1>1, CommitStep
  <1>3. \A c \in Bookings \ {b} : Same(c) BY <1>2, AsideSame
  <1>4. heldStays[b] = NONE /\ b \notin overStays
    BY <1>2 DEF heldStays, overStays, Open
  <1>5. \A c \in Bookings : heldStays[c] # NONE => ~Overlaps(heldStays[c], s)
    BY <1>2 DEF heldStays
  <1>6. heldStays' = [heldStays EXCEPT ![b] = s] BY <1>2, <1>3, HeldAt
  <1>7. overStays' = overStays
    <2>1. overStays = {c \in Bookings : Over(c)} /\ overStays' = {c \in Bookings : Over(c)'}
      BY DEF overStays, Over
    <2>2. ~Over(b) /\ ~Over(b)' BY <1>2 DEF Over, Open
    <2> QED BY <1>3, <2>1, <2>2 DEF Same
  <1>8. Cal!Reserve(b, s) BY <1>4, <1>5, <1>6, <1>7 DEF Cal!Reserve
  <1> QED BY <1>2, <1>8 DEF Cal!Next

LEMMA NextMaps ==
    ASSUME TypeInv, CalInv, [Next]_vars
    PROVE  Cal!Next \/ UNCHANGED <<heldStays, overStays>>
  <1>q. ASSUME UNCHANGED <<bookings, history, dispute>>
        PROVE  UNCHANGED <<heldStays, overStays>>
    BY <1>q DEF heldStays, overStays, Open, Exists, Ended
  <1>1. CASE UNCHANGED vars BY <1>1, <1>q DEF vars
  <1>2. CASE Next
    <2>1. CASE Fine BY <2>1, FineMaps
    <2>2. ASSUME NEW r \in Reqs, CreateSnapshot(r) \/ RemoveWrite(r)
          PROVE  UNCHANGED <<heldStays, overStays>>
      BY <1>q, <2>2 DEF CreateSnapshot, RemoveWrite
    <2>3. ASSUME NEW r \in Reqs, NEW b \in Bookings, CreateCommit(r, b) PROVE Cal!Next
      BY <2>3, CommitMaps
    <2>4. CASE Approve \/ Suspend BY <1>q, <2>4 DEF Approve, Suspend, SetListing
    <2> QED BY <1>2, <2>1, <2>2, <2>3, <2>4, NextSteps
  <1> QED BY <1>1, <1>2

(* The services implement the calendar of reservations: a booking holds    *)
(* its dates from the commit of create until it is over, nobody reserves   *)
(* an overlapping stay meanwhile, and no late write brings it back.        *)
THEOREM CalendarImplemented == Spec => CalendarSpec
  <1>1. Init => Cal!Init BY InitMaps
  <1>2. TypeInv /\ CalInv /\ [Next]_vars => [Cal!Next]_<<heldStays, overStays>>
    BY NextMaps
  <1> QED BY <1>1, <1>2, TypeCorrect, CalendarCorrect, PTL DEF Spec, CalendarSpec, Cal!Spec
=============================================================================
