---------------------------- MODULE RentalTypes ----------------------------
(***************************************************************************)
(* Every table keeps its columns' types, in every instance: the proof that *)
(* Spec implies []TypeOK.  The type of the request slots is not inductive  *)
(* by itself: a handler also has to hold, at the points that use them, the *)
(* dates, the booking or the status it goes on with.                       *)
(***************************************************************************)
EXTENDS RentalProperties, TLAPS

(* What a request at the points that write it must have kept.              *)
Shape(q) ==
    /\ q.pc \in CreatePoints => q.stay \in Stays
    /\ q.pc = "block_write" => q.stay \in Blocks
    /\ q.pc = "complete_read" => q.b \in Bookings
    /\ q.pc = "write_history" => q.arg \in {"CHECKED_IN", "CHECKED_OUT", "CANCELLED"}

ReqInv == req \in [Reqs -> Request] /\ \A r \in Reqs : Shape(req[r])

TypeInv == TypeOK /\ ReqInv

(* The points that use none of these.                                      *)
Simple == Points \ (CreatePoints \cup {"block_write", "complete_read", "write_history"})

-----------------------------------------------------------------------------
(* Functions.                                                              *)

LEMMA SetAt ==
    ASSUME NEW S, NEW T, NEW f \in [S -> T], NEW a, NEW x, a \in S => x \in T
    PROVE  [f EXCEPT ![a] = x] \in [S -> T]
  OBVIOUS

LEMMA MoveAt ==
    ASSUME NEW S, NEW f \in [S -> Int], NEW a, NEW n \in Int
    PROVE  /\ [f EXCEPT ![a] = f[a] + n] \in [S -> Int]
           /\ [f EXCEPT ![a] = f[a] - n] \in [S -> Int]
  BY SetAt

-----------------------------------------------------------------------------
(* A refund is an amount of money, whatever the policy and the dates.      *)

LEMMA RefundNat == ASSUME NEW s PROVE CancellationRefund(s) \in Nat
  <1> DEFINE p == RefundPercent(Policy, s.ci - today - 1)
  <1>1. p \in {0, 50, 100}
    BY ChoiceAssumption DEF RefundPercent, Policies
  <1> HIDE DEF p
  <1>2. Price \in Nat BY MoneyAssumption
  <1>3. (Price * p) \div 100 \in Nat BY <1>1, <1>2
  <1> QED BY <1>3 DEF CancellationRefund, p

-----------------------------------------------------------------------------
(* Requests.                                                               *)

LEMMA SimplePoints ==
    {"idle", "confirm_write", "reject_write", "checkin_write", "checkout_commit",
     "cancel_update", "cancel_commit", "dispute_commit", "resolve_update",
     "resolve_commit", "remove_write", "withdraw_debit", "pay_insert", "pay_order",
     "pay_check", "pay_debit", "pay_update", "pay_log", "pay_failed",
     "complete_update", "complete_commit", "momo_failed",
     "refund_read", "refund_provider", "refund_row", "refund_update"} \subseteq Simple
  BY DEF Simple, Points, CreatePoints, RefundPoints, PayPoints, BookingPoints, OtherPoints

LEMMA SimpleShape == ASSUME NEW q \in Request, q.pc \in Simple PROVE Shape(q)
  BY DEF Simple, Shape

LEMMA IdleOK == Idle \in Request /\ Idle.pc \in Simple
  BY SimplePoints DEF Idle, Request, Simple

LEMMA StepReq ==
    ASSUME ReqInv, NEW r \in Reqs, NEW q \in Request, Shape(q), req' = [req EXCEPT ![r] = q]
    PROVE  ReqInv'
  BY DEF ReqInv

LEMMA FinishReq == ASSUME ReqInv, NEW r \in Reqs, Finish(r) PROVE ReqInv'
  BY StepReq, IdleOK, SimpleShape DEF Finish

LEMMA StartReq ==
    ASSUME ReqInv, NEW r \in Reqs, NEW q \in Request, q.pc \in Simple, Start(r, q)
    PROVE  ReqInv'
  BY StepReq, SimpleShape DEF Start

LEMMA GotoReq ==
    ASSUME ReqInv, NEW r \in Reqs, NEW p \in Simple, Goto(r, p)
    PROVE  ReqInv'
  <1> DEFINE q == [req[r] EXCEPT !.pc = p]
  <1>1. req[r] \in Request BY DEF ReqInv
  <1>2. q \in Request /\ q.pc = p BY <1>1 DEF Request, Simple
  <1>3. req' = [req EXCEPT ![r] = q] BY DEF Goto
  <1> HIDE DEF q
  <1> QED BY <1>2, <1>3, StepReq, SimpleShape

LEMMA ReadOK ==
    ASSUME TypeInv, NEW b \in Bookings, NEW p \in Simple
    PROVE  Read(b, p) \in Request /\ Read(b, p).pc = p
  <1>1. bookings[b].status \in BookingStatus \cup {NONE} BY DEF TypeInv, TypeOK, BookingRow
  <1>2. Settled(b) \in BOOLEAN BY DEF Settled
  <1> HIDE DEF Settled
  <1> QED BY <1>1, <1>2, IdleOK DEF Read, Request, Simple

-----------------------------------------------------------------------------
(* Rows.                                                                   *)

LEMMA StatusType ==
    ASSUME bookings \in [Bookings -> BookingRow], NEW b, NEW s \in BookingStatus, SetStatus(b, s)
    PROVE  bookings' \in [Bookings -> BookingRow]
  <1>1. b \in Bookings => [bookings[b] EXCEPT !.status = s] \in BookingRow BY DEF BookingRow
  <1> QED BY <1>1, SetAt DEF SetStatus

LEMMA HistoryType ==
    ASSUME history \in [Bookings -> SUBSET BookingStatus], NEW b, NEW s \in BookingStatus,
           AddHistory(b, s)
    PROVE  history' \in [Bookings -> SUBSET BookingStatus]
  <1>1. b \in Bookings => history[b] \cup {s} \in SUBSET BookingStatus OBVIOUS
  <1> QED BY <1>1, SetAt DEF AddHistory

LEMMA PaymentType ==
    ASSUME payment \in [Bookings -> PaymentRow], NEW b, NEW s \in PaymentStatus, SetPayment(b, s)
    PROVE  payment' \in [Bookings -> PaymentRow]
  <1>1. b \in Bookings => [payment[b] EXCEPT !.status = s] \in PaymentRow BY DEF PaymentRow
  <1> QED BY <1>1, SetAt DEF SetPayment

LEMMA OrderType ==
    ASSUME order \in [Bookings -> OrderRow], NEW b,
           NEW s \in {"created", "approved", "captured", "failed"}
    PROVE  [order EXCEPT ![b].state = s] \in [Bookings -> OrderRow]
  <1>1. b \in Bookings => [order[b] EXCEPT !.state = s] \in OrderRow BY DEF OrderRow
  <1> QED BY <1>1, SetAt

-----------------------------------------------------------------------------
(* PropertiesService.                                                      *)

LEMMA ListingsTypes ==
    ASSUME TypeInv, NEW r \in Reqs
    PROVE  /\ (\E s \in Blocks : BlockRead(r, s)) => TypeInv'
           /\ BlockWrite(r) \/ RemoveRead(r) \/ RemoveWrite(r) => TypeInv'
  <1> USE DEF property, money, wallets
  <1>0. TypeOK /\ ReqInv BY DEF TypeInv
  <1>1. ASSUME NEW s \in Blocks, BlockRead(r, s) PROVE TypeInv'
    <2> DEFINE q == [Idle EXCEPT !.pc = "block_write", !.stay = s]
    <2>1. q \in Request BY IdleOK DEF Request, Points, OtherPoints
    <2>2. Shape(q) BY DEF Shape, Idle, CreatePoints
    <2>3. req' = [req EXCEPT ![r] = q] BY <1>1 DEF BlockRead, Start
    <2> HIDE DEF q
    <2>4. ReqInv' BY <1>0, <2>1, <2>2, <2>3, StepReq
    <2> QED BY <1>0, <1>1, <2>4 DEF TypeInv, TypeOK, ReqInv, BlockRead
  <1>2. CASE BlockWrite(r)
    <2>1. ReqInv' BY <1>0, <1>2, FinishReq DEF BlockWrite
    <2>2. req[r].stay \in Blocks BY <1>0, <1>2 DEF ReqInv, Shape, BlockWrite, At
    <2> QED BY <1>0, <1>2, <2>1, <2>2 DEF TypeInv, TypeOK, ReqInv, BlockWrite
  <1>3. CASE RemoveRead(r)
    <2> DEFINE q == [Idle EXCEPT !.pc = "remove_write"]
    <2>1. q \in Request /\ q.pc \in Simple BY SimplePoints, IdleOK DEF Idle, Request, Simple
    <2>2. Start(r, q) BY <1>3 DEF RemoveRead
    <2> HIDE DEF q
    <2>3. ReqInv' BY <1>0, <2>1, <2>2, StartReq
    <2> QED BY <1>0, <1>3, <2>3 DEF TypeInv, TypeOK, ReqInv, RemoveRead
  <1>4. CASE RemoveWrite(r)
    <2>1. ReqInv' BY <1>0, <1>4, FinishReq DEF RemoveWrite
    <2> QED BY <1>0, <1>4, <2>1 DEF TypeInv, TypeOK, ReqInv, RemoveWrite, Overtake
  <1> QED BY <1>1, <1>2, <1>3, <1>4

LEMMA SingleTypes == ASSUME TypeInv, Single PROVE TypeInv'
  <1> USE DEF property, money, wallets
  <1>0. TypeOK /\ ReqInv BY DEF TypeInv
  <1>1. CASE Approve \/ Suspend \/ TouchProperty
    <2>1. ReqInv' BY <1>0, <1>1 DEF ReqInv, Approve, Suspend, SetListing, TouchProperty
    <2> QED BY <1>0, <1>1, <2>1
         DEF TypeInv, TypeOK, ReqInv, Approve, Suspend, SetListing, TouchProperty, Overtake
  <1>2. ASSUME NEW b \in Bookings, Escalate(b) PROVE TypeInv'
    <2>1. ReqInv' BY <1>0, <1>2 DEF ReqInv, Escalate
    <2> QED BY <1>0, <1>2, <2>1
         DEF TypeInv, TypeOK, ReqInv, Escalate, Unchanged, DisputeStatus
  <1> QED BY <1>1, <1>2 DEF Single

-----------------------------------------------------------------------------
(* BookingsService.                                                        *)

LEMMA CreateTypes ==
    ASSUME TypeInv, NEW r \in Reqs
    PROVE  /\ (\E s \in Stays : AcquireLock(r, s)) => TypeInv'
           /\ (\E b \in Bookings : CreateCommit(r, b)) => TypeInv'
           /\ CreateSnapshot(r) \/ CreateAbort(r) \/ ReleaseLock(r) => TypeInv'
  <1> USE DEF property, money, wallets
  <1>0. TypeOK /\ ReqInv BY DEF TypeInv
  <1>p. ASSUME NEW p \in CreatePoints, req[r].pc \in CreatePoints, Goto(r, p) PROVE ReqInv'
    <2> DEFINE q == [req[r] EXCEPT !.pc = p]
    <2>1. req[r] \in Request /\ req[r].stay \in Stays BY <1>0, <1>p DEF ReqInv, Shape
    <2>2. q \in Request /\ q.pc = p /\ q.stay = req[r].stay
      BY <2>1, <1>p DEF Request, Points
    <2>3. Shape(q) BY <2>1, <2>2, <1>p DEF Shape, CreatePoints
    <2>4. req' = [req EXCEPT ![r] = q] BY <1>p DEF Goto
    <2> HIDE DEF q
    <2> QED BY <1>0, <2>2, <2>3, <2>4, StepReq
  <1>1. ASSUME NEW s \in Stays, AcquireLock(r, s) PROVE TypeInv'
    <2> DEFINE q == [Idle EXCEPT !.pc = "create_begin", !.stay = s]
    <2>1. q \in Request BY IdleOK DEF Request, Points, CreatePoints
    <2>2. Shape(q) BY DEF Shape, Idle, CreatePoints
    <2>3. req' = [req EXCEPT ![r] = q] BY <1>1 DEF AcquireLock, Start
    <2> HIDE DEF q
    <2>4. ReqInv' BY <1>0, <2>1, <2>2, <2>3, StepReq
    <2> QED BY <1>0, <1>1, <2>4 DEF TypeInv, TypeOK, ReqInv, AcquireLock
  <1>2. ASSUME NEW b \in Bookings, CreateCommit(r, b) PROVE TypeInv'
    <2>1. req[r].pc \in CreatePoints BY <1>2 DEF CreateCommit, At, CreatePoints
    <2>2. ReqInv' BY <1>p, <1>2, <2>1 DEF CreateCommit, CreatePoints
    <2>3. req[r].stay \in Stays BY <1>0, <2>1 DEF ReqInv, Shape
    <2>4. bookings' \in [Bookings -> BookingRow]
      BY <1>0, <1>2, <2>3 DEF TypeOK, CreateCommit, BookingRow, NoBooking, BookingStatus
    <2> QED BY <1>0, <1>2, <2>2, <2>4
         DEF TypeInv, TypeOK, ReqInv, CreateCommit, Overtake, BookingStatus
  <1>3. CASE CreateSnapshot(r)
    <2>1. req[r].pc \in CreatePoints BY <1>3 DEF CreateSnapshot, At, CreatePoints
    <2>2. ReqInv' BY <1>p, <1>3, <2>1 DEF CreateSnapshot, CreatePoints
    <2> QED BY <1>0, <1>3, <2>2 DEF TypeInv, TypeOK, ReqInv, CreateSnapshot
  <1>4. CASE CreateAbort(r)
    <2>1. req[r].pc \in CreatePoints BY <1>4 DEF CreateAbort, CreatePoints
    <2>2. ReqInv' BY <1>p, <1>4, <2>1 DEF CreateAbort, CreatePoints
    <2> QED BY <1>0, <1>4, <2>2 DEF TypeInv, TypeOK, ReqInv, CreateAbort
  <1>5. CASE ReleaseLock(r)
    <2>1. ReqInv' BY <1>0, <1>5, FinishReq DEF ReleaseLock
    <2>2. lock' \in [Stays -> Reqs \cup {NONE}] BY <1>0, <1>5 DEF TypeOK, ReleaseLock
    <2> QED BY <1>0, <1>5, <2>1, <2>2 DEF TypeInv, TypeOK, ReqInv, ReleaseLock
  <1> QED BY <1>1, <1>2, <1>3, <1>4, <1>5

(* The handlers that only read, then wait.                                 *)
LEMMA ReadTypes ==
    ASSUME TypeInv, NEW r \in Reqs, NEW b \in Bookings
    PROVE  /\ ConfirmRead(r, b) \/ RejectRead(r, b) \/ CheckInRead(r, b)
                \/ CheckOutRead(r, b) \/ CancelRead(r, b) => TypeInv'
           /\ PayRead(r, b) \/ DisputeRead(r, b) => TypeInv'
           /\ \A w \in {"GUEST", "HOST"}, a \in Amounts \cup {0} :
                ResolveRead(r, b, w, a) => TypeInv'
  <1> USE DEF property, money, wallets
  <1>0. TypeOK /\ ReqInv BY DEF TypeInv
  <1>r. ASSUME NEW q \in Request, q.pc \in Simple, Start(r, q),
               UNCHANGED <<today, property, bookings, history, dispute, money, wallets>>
        PROVE  TypeInv'
    <2>1. ReqInv' BY <1>0, <1>r, StartReq
    <2> QED BY <1>0, <1>r, <2>1 DEF TypeInv, TypeOK, ReqInv
  <1>a. ASSUME NEW p \in Simple, NEW q \in Request, q.pc = p, NEW n \in Int
        PROVE  [q EXCEPT !.amt = n] \in Request /\ [q EXCEPT !.amt = n].pc = p
    BY <1>a DEF Request
  <1>p. Price \in Nat BY MoneyAssumption
  <1>1. CASE ConfirmRead(r, b)
    <2>1. Start(r, Read(b, "confirm_write")) BY <1>1 DEF ConfirmRead
    <2> QED BY <1>1, <1>r, <2>1, ReadOK, SimplePoints DEF ConfirmRead, ReadOnly
  <1>2. CASE RejectRead(r, b)
    <2> DEFINE q == [Read(b, "reject_write") EXCEPT !.amt = Price]
    <2>1. q \in Request /\ q.pc \in Simple BY <1>a, <1>p, ReadOK, SimplePoints
    <2>2. Start(r, q) BY <1>2 DEF RejectRead
    <2> HIDE DEF q
    <2> QED BY <1>2, <1>r, <2>1, <2>2 DEF RejectRead, ReadOnly
  <1>3. CASE CheckInRead(r, b)
    <2>1. Start(r, Read(b, "checkin_write")) BY <1>3 DEF CheckInRead
    <2> QED BY <1>3, <1>r, <2>1, ReadOK, SimplePoints DEF CheckInRead, ReadOnly
  <1>4. CASE CheckOutRead(r, b)
    <2>1. Start(r, Read(b, "checkout_commit")) BY <1>4 DEF CheckOutRead
    <2> QED BY <1>4, <1>r, <2>1, ReadOK, SimplePoints DEF CheckOutRead, ReadOnly
  <1>5. CASE CancelRead(r, b)
    <2> DEFINE n == CancellationRefund(bookings[b].stay)
               q == [Read(b, "cancel_update") EXCEPT !.amt = n]
    <2>1. n \in Nat BY <1>p, RefundNat
    <2>2. Start(r, q) BY <1>5 DEF CancelRead
    <2> HIDE DEF n
    <2>3. q \in Request /\ q.pc \in Simple BY <1>a, <2>1, ReadOK, SimplePoints
    <2> HIDE DEF q
    <2> QED BY <1>5, <1>r, <2>2, <2>3 DEF CancelRead, ReadOnly
  <1>6. CASE PayRead(r, b)
    <2>1. Start(r, Read(b, "pay_insert")) BY <1>6 DEF PayRead
    <2> QED BY <1>6, <1>r, <2>1, ReadOK, SimplePoints DEF PayRead, Frame
  <1>7. CASE DisputeRead(r, b)
    <2>1. Start(r, Read(b, "dispute_commit")) BY <1>7 DEF DisputeRead
    <2> QED BY <1>7, <1>r, <2>1, ReadOK, SimplePoints DEF DisputeRead, Unchanged
  <1>8. ASSUME NEW w \in {"GUEST", "HOST"}, NEW a \in Amounts \cup {0}, ResolveRead(r, b, w, a)
        PROVE  TypeInv'
    <2> DEFINE n == IF w = "HOST" \/ payment[b] = NoPayment THEN 0 ELSE a
               q == [[Read(b, "resolve_update") EXCEPT !.arg = w] EXCEPT !.amt = n]
    <2>1. n \in Int BY MoneyAssumption
    <2>2. Start(r, q) BY <1>8 DEF ResolveRead
    <2> HIDE DEF n
    <2>3. /\ Read(b, "resolve_update") \in Request
          /\ Read(b, "resolve_update").pc \in Simple
      BY ReadOK, SimplePoints
    <2>4. q \in Request /\ q.pc \in Simple BY <2>1, <2>3 DEF Request
    <2> HIDE DEF q
    <2> QED BY <1>8, <1>r, <2>2, <2>4 DEF ResolveRead, Unchanged
  <1> QED BY <1>1, <1>2, <1>3, <1>4, <1>5, <1>6, <1>7, <1>8

LEMMA WriteTypes ==
    ASSUME TypeInv, NEW r \in Reqs
    PROVE  /\ ConfirmWrite(r) \/ RejectWrite(r) \/ CheckInWrite(r) \/ CheckOutCommit(r) => TypeInv'
           /\ WriteHistory(r) \/ CancelUpdate(r) \/ CancelCommit(r) => TypeInv'
  <1> USE DEF property, money, wallets, OnlyBooking, ReadOnly
  <1>0. TypeOK /\ ReqInv BY DEF TypeInv
  <1>q. req[r] \in Request BY <1>0 DEF ReqInv
  <1>b. req[r].b \in Bookings => bookings[req[r].b] \in BookingRow BY <1>0 DEF TypeOK
  <1>h. ASSUME NEW s \in {"CHECKED_IN", "CHECKED_OUT", "CANCELLED"}
        PROVE  LET q == [req[r] EXCEPT !.pc = "write_history", !.arg = s]
                   c == [req[r] EXCEPT !.pc = "write_history", !.arg = s, !.ret = "idle"] IN
               /\ req' = [req EXCEPT ![r] = q] => ReqInv'
               /\ req' = [req EXCEPT ![r] = c] => ReqInv'
    <2> DEFINE q == [req[r] EXCEPT !.pc = "write_history", !.arg = s]
               c == [req[r] EXCEPT !.pc = "write_history", !.arg = s, !.ret = "idle"]
    <2>0. "write_history" \in Points /\ s \in BookingStatus
      BY DEF Points, BookingPoints, BookingStatus
    <2>1. q \in Request /\ c \in Request
      <3>1. q \in Request BY <1>q, <2>0 DEF Request
      <3>2. c \in Request BY <1>q, <2>0 DEF Request
      <3> QED BY <3>1, <3>2
    <2>2. Shape(q) /\ Shape(c) BY <1>q DEF Shape, Request, CreatePoints
    <2> HIDE DEF q, c
    <2>3. req' = [req EXCEPT ![r] = q] \/ req' = [req EXCEPT ![r] = c] => ReqInv'
      BY <1>0, <2>1, <2>2, StepReq
    <2> QED BY <2>3 DEF q, c
  <1>1. CASE ConfirmWrite(r)
    <2>1. ReqInv' BY <1>0, <1>1, FinishReq DEF ConfirmWrite
    <2>2. /\ bookings' \in [Bookings -> BookingRow]
          /\ history' \in [Bookings -> SUBSET BookingStatus]
      BY <1>0, <1>1, StatusType, HistoryType
      DEF TypeOK, ConfirmWrite, UpdateBookingStatus, BookingStatus
    <2> QED BY <1>0, <1>1, <2>1, <2>2 DEF TypeInv, TypeOK, ReqInv, ConfirmWrite, UpdateBookingStatus
  <1>2. CASE RejectWrite(r)
    <2>1. ReqInv' BY <1>0, <1>2, FinishReq, GotoReq, SimplePoints DEF RejectWrite
    <2>2. /\ bookings' \in [Bookings -> BookingRow]
          /\ history' \in [Bookings -> SUBSET BookingStatus]
      BY <1>0, <1>2, StatusType, HistoryType
      DEF TypeOK, RejectWrite, UpdateBookingStatus, BookingStatus
    <2> QED BY <1>0, <1>2, <2>1, <2>2 DEF TypeInv, TypeOK, ReqInv, RejectWrite, UpdateBookingStatus
  <1>3. CASE CheckInWrite(r)
    <2> DEFINE b == req[r].b
               row == [bookings[b] EXCEPT !.status = "CHECKED_IN", !.checkedIn = TRUE]
    <2>1. b \in Bookings => row \in BookingRow BY <1>b DEF BookingRow, BookingStatus
    <2>2. bookings' = [bookings EXCEPT ![b] = row] BY <1>3 DEF CheckInWrite
    <2> HIDE DEF row
    <2>3. bookings' \in [Bookings -> BookingRow] BY <1>0, <2>1, <2>2, SetAt DEF TypeOK
    <2>4. ReqInv'
      <3>1. req' = [req EXCEPT ![r] = [req[r] EXCEPT !.pc = "write_history", !.arg = "CHECKED_IN"]]
        BY <1>3 DEF CheckInWrite
      <3> QED BY <1>h, <3>1
    <2> QED BY <1>0, <1>3, <2>3, <2>4 DEF TypeInv, TypeOK, ReqInv, CheckInWrite
  <1>4. CASE CheckOutCommit(r)
    <2> DEFINE b == req[r].b
               row == [bookings[b] EXCEPT !.status = "CHECKED_OUT", !.checkedOut = TRUE]
               payout == IF req[r].paid THEN HostPayout ELSE 0
    <2>1. b \in Bookings => row \in BookingRow BY <1>b DEF BookingRow, BookingStatus
    <2>2. bookings' = [bookings EXCEPT ![b] = row] BY <1>4 DEF CheckOutCommit
    <2> HIDE DEF row
    <2>3. bookings' \in [Bookings -> BookingRow] BY <1>0, <2>1, <2>2, SetAt DEF TypeOK
    <2>4. ReqInv'
      <3>1. req' = [req EXCEPT ![r] = [req[r] EXCEPT !.pc = "write_history", !.arg = "CHECKED_OUT"]]
        BY <1>4 DEF CheckOutCommit
      <3> QED BY <1>h, <3>1
    <2>5. payout \in Int BY MoneyAssumption
    <2>6. balance' = [balance EXCEPT !["host"] = balance["host"] + payout] /\ pending' = pending - payout
      BY <1>4 DEF CheckOutCommit
    <2> HIDE DEF payout
    <2>7. balance' \in [Owners -> Int] /\ pending' \in Int
      <3>1. balance \in [Owners -> Int] /\ pending \in Int BY <1>0 DEF TypeOK
      <3>2. balance' \in [Owners -> Int] BY <2>5, <2>6, <3>1, MoveAt
      <3>3. pending' \in Int BY <2>5, <2>6, <3>1
      <3> QED BY <3>2, <3>3
    <2> QED BY <1>0, <1>4, <2>3, <2>4, <2>7 DEF TypeInv, TypeOK, ReqInv, CheckOutCommit
  <1>5. CASE WriteHistory(r)
    <2>1. ReqInv' BY <1>0, <1>5, FinishReq DEF WriteHistory
    <2>2. req[r].arg \in BookingStatus BY <1>0, <1>5 DEF ReqInv, Shape, WriteHistory, At, BookingStatus
    <2>3. history' \in [Bookings -> SUBSET BookingStatus]
      BY <1>0, <1>5, <2>2, HistoryType DEF TypeOK, WriteHistory
    <2> QED BY <1>0, <1>5, <2>1, <2>3 DEF TypeInv, TypeOK, ReqInv, WriteHistory
  <1>6. CASE CancelUpdate(r)
    <2> DEFINE p == IF req[r].paid /\ req[r].amt > 0 THEN "refund_read" ELSE "cancel_commit"
               q == [req[r] EXCEPT !.ret = "cancel_commit", !.pc = p]
    <2>1. p \in Simple BY SimplePoints
    <2>2. req' = [req EXCEPT ![r] = q] BY <1>6 DEF CancelUpdate
    <2> HIDE DEF p
    <2>3. q \in Request /\ q.pc \in Simple BY <1>q, <2>1 DEF Request, Simple
    <2> HIDE DEF q
    <2>4. ReqInv' BY <1>0, <2>2, <2>3, StepReq, SimpleShape
    <2> QED BY <1>0, <1>6, <2>4 DEF TypeInv, TypeOK, ReqInv, CancelUpdate
  <1>7. CASE CancelCommit(r)
    <2> DEFINE b == req[r].b
               row == [bookings[b] EXCEPT !.status = "CANCELLED", !.cancelled = TRUE]
    <2>1. b \in Bookings => row \in BookingRow BY <1>b DEF BookingRow, BookingStatus
    <2>2. bookings' = [bookings EXCEPT ![b] = row] BY <1>7 DEF CancelCommit
    <2> HIDE DEF row
    <2>3. bookings' \in [Bookings -> BookingRow] BY <1>0, <2>1, <2>2, SetAt DEF TypeOK
    <2>4. ReqInv'
      <3>1. req' = [req EXCEPT ![r] = [req[r] EXCEPT !.pc = "write_history", !.arg = "CANCELLED", !.ret = "idle"]]
        BY <1>7 DEF CancelCommit
      <3> QED BY <1>h, <3>1
    <2> QED BY <1>0, <1>7, <2>3, <2>4 DEF TypeInv, TypeOK, ReqInv, CancelCommit
  <1> QED BY <1>1, <1>2, <1>3, <1>4, <1>5, <1>6, <1>7

-----------------------------------------------------------------------------
(* PaymentsService.                                                        *)

LEMMA PayTypes ==
    ASSUME TypeInv, NEW r \in Reqs
    PROVE  /\ (\E m \in Methods : PayInsert(r, m)) => TypeInv'
           /\ PayOrder(r) \/ PayCheck(r) \/ PayDebit(r) => TypeInv'
           /\ PayUpdate(r) \/ PayLog(r) \/ PayThrow(r) \/ PayFailed(r) => TypeInv'
  <1> USE DEF property, money, wallets, Frame
  <1>0. TypeOK /\ ReqInv BY DEF TypeInv
  <1>1. ASSUME NEW m \in Methods, PayInsert(r, m) PROVE TypeInv'
    <2> DEFINE row == [NoPayment EXCEPT !.status = "PENDING", !.provider = m]
    <2>1. row \in PaymentRow BY ChoiceAssumption DEF NoPayment, PaymentRow, PaymentStatus
    <2>2. payment' = [payment EXCEPT ![req[r].b] = row] BY <1>1 DEF PayInsert
    <2> HIDE DEF row
    <2>3. payment' \in [Bookings -> PaymentRow] BY <1>0, <2>1, <2>2, SetAt DEF TypeOK
    <2>4. ReqInv' BY <1>0, <1>1, GotoReq, SimplePoints DEF PayInsert
    <2> QED BY <1>0, <1>1, <2>3, <2>4 DEF TypeInv, TypeOK, ReqInv, PayInsert
  <1>2. CASE PayOrder(r)
    <2>1. ReqInv' BY <1>0, <1>2, GotoReq, SimplePoints DEF PayOrder
    <2>2. order' \in [Bookings -> OrderRow] BY <1>0, <1>2, OrderType DEF TypeOK, PayOrder
    <2> QED BY <1>0, <1>2, <2>1, <2>2 DEF TypeInv, TypeOK, ReqInv, PayOrder
  <1>3. CASE PayCheck(r)
    <2>1. ReqInv' BY <1>0, <1>3, GotoReq, SimplePoints DEF PayCheck
    <2> QED BY <1>0, <1>3, <2>1 DEF TypeInv, TypeOK, ReqInv, PayCheck
  <1>4. CASE PayDebit(r)
    <2>1. ReqInv' BY <1>0, <1>4, GotoReq, SimplePoints DEF PayDebit
    <2>2. order' \in [Bookings -> OrderRow] BY <1>0, <1>4, OrderType DEF TypeOK, PayDebit
    <2>3. balance' \in [Owners -> Int]
      <3>1. balance \in [Owners -> Int] /\ balance["guest"] \in Int /\ Price \in Int
        BY <1>0, MoneyAssumption DEF TypeOK, Owners
      <3>2. balance' = [balance EXCEPT !["guest"] = balance["guest"] - Price]
        BY <1>4 DEF PayDebit
      <3> QED BY <3>1, <3>2, MoveAt DEF Owners
    <2> QED BY <1>0, <1>4, <2>1, <2>2, <2>3 DEF TypeInv, TypeOK, ReqInv, PayDebit
  <1>5. CASE PayUpdate(r)
    <2> DEFINE b == req[r].b
               s == IF payment[b].provider = "INTERNAL" THEN "COMPLETED" ELSE "PROCESSING"
               row == [payment[b] EXCEPT !.status = s, !.ref = TRUE,
                                         !.captured = payment[b].captured \/ s = "COMPLETED"]
    <2>1. b \in Bookings => payment[b] \in PaymentRow BY <1>0 DEF TypeOK
    <2>2. payment' = [payment EXCEPT ![b] = row] BY <1>5 DEF PayUpdate
    <2>3. s \in PaymentStatus BY DEF PaymentStatus
    <2> HIDE DEF s
    <2>4. b \in Bookings => row \in PaymentRow BY <2>1, <2>3 DEF PaymentRow
    <2> HIDE DEF row
    <2>5. payment' \in [Bookings -> PaymentRow] BY <1>0, <2>2, <2>4, SetAt DEF TypeOK
    <2>6. ReqInv' BY <1>0, <1>5, GotoReq, SimplePoints DEF PayUpdate
    <2> QED BY <1>0, <1>5, <2>5, <2>6 DEF TypeInv, TypeOK, ReqInv, PayUpdate
  <1>6. CASE PayLog(r)
    <2>1. req[r].b \in Bookings => [order[req[r].b] EXCEPT !.known = TRUE] \in OrderRow
      <3>1. req[r].b \in Bookings => order[req[r].b] \in OrderRow BY <1>0 DEF TypeOK
      <3> QED BY <3>1 DEF OrderRow
    <2>2. order' \in [Bookings -> OrderRow] BY <1>0, <1>6, <2>1, SetAt DEF TypeOK, PayLog
    <2>3. ReqInv' BY <1>0, <1>6, FinishReq DEF PayLog
    <2> QED BY <1>0, <1>6, <2>2, <2>3 DEF TypeInv, TypeOK, ReqInv, PayLog
  <1>7. CASE PayThrow(r)
    <2>1. ReqInv' BY <1>0, <1>7, GotoReq, SimplePoints DEF PayThrow
    <2> QED BY <1>0, <1>7, <2>1 DEF TypeInv, TypeOK, ReqInv, PayThrow
  <1>8. CASE PayFailed(r)
    <2>1. ReqInv' BY <1>0, <1>8, FinishReq DEF PayFailed
    <2>2. payment' \in [Bookings -> PaymentRow]
      BY <1>0, <1>8, PaymentType DEF TypeOK, PayFailed, PaymentStatus
    <2> QED BY <1>0, <1>8, <2>1, <2>2 DEF TypeInv, TypeOK, ReqInv, PayFailed
  <1> QED BY <1>1, <1>2, <1>3, <1>4, <1>5, <1>6, <1>7, <1>8

LEMMA GuestTypes == ASSUME TypeInv, Guest PROVE TypeInv'
  <1> USE DEF property, money, wallets, Frame
  <1>0. TypeOK /\ ReqInv BY DEF TypeInv
  <1>1. ASSUME NEW b \in Bookings, NEW s \in {"created", "approved", "captured", "failed"},
               SetOrder(b, s)
        PROVE  TypeInv'
    <2>1. order' \in [Bookings -> OrderRow] BY <1>0, <1>1, OrderType DEF TypeOK, SetOrder
    <2> QED BY <1>0, <1>1, <2>1 DEF TypeInv, TypeOK, ReqInv, SetOrder
  <1> QED BY <1>1 DEF Guest, GuestApproves, GuestPays, GuestDeclines

LEMMA CompleteTypes ==
    ASSUME TypeInv, NEW r \in Reqs
    PROVE  /\ \A b, o \in Bookings : CapturePaypal(r, o, b) \/ PollMomo(r, o, b) => TypeInv'
           /\ MomoFailed(r) \/ CompleteRead(r) \/ CompleteUpdate(r) \/ CompleteCommit(r)
                => TypeInv'
  <1> USE DEF property, money, wallets, Frame
  <1>0. TypeOK /\ ReqInv BY DEF TypeInv
  <1>s. ASSUME NEW b \in Bookings, NEW p \in {"complete_read", "momo_failed"},
               Start(r, [Idle EXCEPT !.pc = p, !.b = b])
        PROVE  ReqInv'
    <2> DEFINE q == [Idle EXCEPT !.pc = p, !.b = b]
    <2>1. q \in Request BY IdleOK DEF Request, Points, PayPoints
    <2>2. Shape(q) BY DEF Shape, Idle, CreatePoints
    <2>3. req' = [req EXCEPT ![r] = q] BY <1>s DEF Start
    <2> HIDE DEF q
    <2> QED BY <1>0, <2>1, <2>2, <2>3, StepReq
  <1>1. ASSUME NEW b \in Bookings, NEW o \in Bookings, CapturePaypal(r, o, b) PROVE TypeInv'
    <2>1. ReqInv' BY <1>1, <1>s DEF CapturePaypal
    <2>2. order' \in [Bookings -> OrderRow] BY <1>0, <1>1, OrderType DEF TypeOK, CapturePaypal
    <2> QED BY <1>0, <1>1, <2>1, <2>2 DEF TypeInv, TypeOK, ReqInv, CapturePaypal
  <1>2. ASSUME NEW b \in Bookings, NEW o \in Bookings, PollMomo(r, o, b) PROVE TypeInv'
    <2>1. ReqInv' BY <1>2, <1>s DEF PollMomo
    <2> QED BY <1>0, <1>2, <2>1 DEF TypeInv, TypeOK, ReqInv, PollMomo
  <1>3. CASE MomoFailed(r)
    <2>1. ReqInv' BY <1>0, <1>3, FinishReq DEF MomoFailed
    <2>2. payment' \in [Bookings -> PaymentRow]
      BY <1>0, <1>3, PaymentType DEF TypeOK, MomoFailed, PaymentStatus
    <2> QED BY <1>0, <1>3, <2>1, <2>2 DEF TypeInv, TypeOK, ReqInv, MomoFailed
  <1>4. CASE CompleteRead(r)
    <2> DEFINE b == req[r].b
    <2>1. CASE Settled(b)
      <3>1. Finish(r) BY <1>4, <2>1 DEF CompleteRead
      <3>2. ReqInv' BY <1>0, <3>1, FinishReq
      <3> QED BY <1>0, <1>4, <3>2 DEF TypeInv, TypeOK, ReqInv, CompleteRead
    <2>2. CASE ~Settled(b)
      <3>1. req' = [req EXCEPT ![r] = Read(b, "complete_update")]
        BY <1>4, <2>2 DEF CompleteRead
      <3>2. b \in Bookings BY <1>0, <1>4 DEF ReqInv, Shape, CompleteRead, At
      <3>3. Read(b, "complete_update") \in Request /\ Read(b, "complete_update").pc \in Simple
        BY <3>2, ReadOK, SimplePoints
      <3>4. ReqInv' BY <1>0, <3>1, <3>3, StepReq, SimpleShape
      <3> QED BY <1>0, <1>4, <3>4 DEF TypeInv, TypeOK, ReqInv, CompleteRead
    <2> QED BY <2>1, <2>2
  <1>5. CASE CompleteUpdate(r)
    <2>1. ReqInv' BY <1>0, <1>5, GotoReq, SimplePoints DEF CompleteUpdate
    <2> QED BY <1>0, <1>5, <2>1 DEF TypeInv, TypeOK, ReqInv, CompleteUpdate
  <1>6. CASE CompleteCommit(r)
    <2>1. ReqInv' BY <1>0, <1>6, FinishReq DEF CompleteCommit
    <2>2. payment' \in [Bookings -> PaymentRow]
      <3>1. req[r].b \in Bookings => payment[req[r].b] \in PaymentRow BY <1>0 DEF TypeOK
      <3> DEFINE row == [payment[req[r].b] EXCEPT !.status = "COMPLETED", !.captured = TRUE]
      <3>2. req[r].b \in Bookings => row \in PaymentRow
        BY <3>1 DEF PaymentRow, PaymentStatus
      <3>3. payment' = [payment EXCEPT ![req[r].b] = row] BY <1>6 DEF CompleteCommit
      <3> HIDE DEF row
      <3> QED BY <1>0, <3>2, <3>3, SetAt DEF TypeOK
    <2>3. bookings' \in [Bookings -> BookingRow]
      BY <1>0, <1>6, StatusType DEF TypeOK, CompleteCommit, BookingStatus
    <2>4. pending' \in Int BY <1>0, <1>6, MoneyAssumption DEF TypeOK, CompleteCommit
    <2> QED BY <1>0, <1>6, <2>1, <2>2, <2>3, <2>4 DEF TypeInv, TypeOK, ReqInv, CompleteCommit
  <1> QED BY <1>1, <1>2, <1>3, <1>4, <1>5, <1>6

LEMMA RefundTypes ==
    ASSUME TypeInv, NEW r \in Reqs
    PROVE  RefundRead(r) \/ RefundProvider(r) \/ RefundRow(r) \/ RefundUpdate(r) => TypeInv'
  <1> USE DEF property, money, wallets, Frame
  <1>0. TypeOK /\ ReqInv BY DEF TypeInv
  <1>n. req[r].amt \in Int BY <1>0 DEF ReqInv, Request
  <1>1. CASE RefundRead(r)
    <2>1. ReqInv' BY <1>0, <1>1, GotoReq, SimplePoints DEF RefundRead
    <2> QED BY <1>0, <1>1, <2>1 DEF TypeInv, TypeOK, ReqInv, RefundRead
  <1>2. CASE RefundProvider(r)
    <2>1. ReqInv' BY <1>0, <1>2, GotoReq, SimplePoints DEF RefundProvider
    <2>2. returned' \in [Bookings -> Int]
      <3>1. returned \in [Bookings -> Int] BY <1>0 DEF TypeOK
      <3>2. returned' = [returned EXCEPT ![req[r].b] = returned[req[r].b] + req[r].amt]
        BY <1>2 DEF RefundProvider
      <3> QED BY <1>n, <3>1, <3>2, MoveAt
    <2>3. balance' \in [Owners -> Int]
      <3>1. balance \in [Owners -> Int] BY <1>0 DEF TypeOK
      <3>2. \/ balance' = [balance EXCEPT !["guest"] = balance["guest"] + req[r].amt]
            \/ balance' = balance
        BY <1>2 DEF RefundProvider
      <3> QED BY <1>n, <3>1, <3>2, MoveAt
    <2> QED BY <1>0, <1>2, <2>1, <2>2, <2>3 DEF TypeInv, TypeOK, ReqInv, RefundProvider
  <1>3. CASE RefundRow(r)
    <2>1. ReqInv' BY <1>0, <1>3, GotoReq, SimplePoints DEF RefundRow
    <2>2. refunded' \in [Bookings -> Int]
      <3>1. refunded \in [Bookings -> Int] BY <1>0 DEF TypeOK
      <3>2. refunded' = [refunded EXCEPT ![req[r].b] = refunded[req[r].b] + req[r].amt]
        BY <1>3 DEF RefundRow
      <3> QED BY <1>n, <3>1, <3>2, MoveAt
    <2> QED BY <1>0, <1>3, <2>1, <2>2 DEF TypeInv, TypeOK, ReqInv, RefundRow
  <1>4. CASE RefundUpdate(r)
    <2>1. req[r].ret \in {"idle", "cancel_commit", "resolve_commit"}
      BY <1>0 DEF ReqInv, Request
    <2>2. ReqInv'
      <3>1. CASE req[r].ret = "idle"
        <4>1. Finish(r) BY <1>4, <3>1 DEF RefundUpdate
        <4> QED BY <1>0, <4>1, FinishReq
      <3>2. CASE req[r].ret # "idle"
        <4>1. Goto(r, req[r].ret) BY <1>4, <3>2 DEF RefundUpdate
        <4>2. req[r].ret \in Simple BY <2>1, SimplePoints
        <4> QED BY <1>0, <4>1, <4>2, GotoReq
      <3> QED BY <3>1, <3>2
    <2>3. payment' \in [Bookings -> PaymentRow]
      BY <1>0, <1>4, PaymentType DEF TypeOK, RefundUpdate, PaymentStatus
    <2> QED BY <1>0, <1>4, <2>2, <2>3 DEF TypeInv, TypeOK, ReqInv, RefundUpdate
  <1> QED BY <1>1, <1>2, <1>3, <1>4

-----------------------------------------------------------------------------
(* DisputesService and WalletService.                                      *)

LEMMA DisputeTypes ==
    ASSUME TypeInv, NEW r \in Reqs
    PROVE  DisputeCommit(r) \/ ResolveUpdate(r) \/ ResolveCommit(r) => TypeInv'
  <1> USE DEF property, money, wallets, Unchanged
  <1>0. TypeOK /\ ReqInv BY DEF TypeInv
  <1>q. req[r] \in Request BY <1>0 DEF ReqInv
  <1>p. HostPayout \in Int BY MoneyAssumption
  <1>1. CASE DisputeCommit(r)
    <2>1. ReqInv' BY <1>0, <1>1, FinishReq DEF DisputeCommit
    <2>2. bookings' \in [Bookings -> BookingRow]
      BY <1>0, <1>1, StatusType DEF TypeOK, DisputeCommit, BookingStatus
    <2>3. dispute' \in [Bookings -> DisputeStatus \cup {NONE}]
      BY <1>0, <1>1 DEF TypeOK, DisputeCommit, DisputeStatus
    <2>4. pending' \in Int BY <1>0, <1>1, <1>p DEF TypeOK, DisputeCommit
    <2> QED BY <1>0, <1>1, <2>1, <2>2, <2>3, <2>4 DEF TypeInv, TypeOK, ReqInv, DisputeCommit
  <1>2. CASE ResolveUpdate(r)
    <2> DEFINE p == IF req[r].amt # 0 THEN "refund_read" ELSE "resolve_commit"
               q == [req[r] EXCEPT !.ret = "resolve_commit", !.pc = p]
    <2>1. p \in Simple BY SimplePoints
    <2>2. req' = [req EXCEPT ![r] = q] BY <1>2 DEF ResolveUpdate
    <2> HIDE DEF p
    <2>3. q \in Request /\ q.pc \in Simple BY <1>q, <2>1 DEF Request, Simple
    <2> HIDE DEF q
    <2>4. ReqInv' BY <1>0, <2>2, <2>3, StepReq, SimpleShape
    <2> QED BY <1>0, <1>2, <2>4 DEF TypeInv, TypeOK, ReqInv, ResolveUpdate
  <1>3. CASE ResolveCommit(r)
    <2>1. ReqInv' BY <1>0, <1>3, FinishReq DEF ResolveCommit
    <2>2. bookings' \in [Bookings -> BookingRow]
      BY <1>0, <1>3, StatusType DEF TypeOK, ResolveCommit, BookingStatus
    <2>3. dispute' \in [Bookings -> DisputeStatus \cup {NONE}]
      BY <1>0, <1>3 DEF TypeOK, ResolveCommit, DisputeStatus
    <2>4. balance' \in [Owners -> Int]
      <3>1. balance \in [Owners -> Int] BY <1>0 DEF TypeOK
      <3>2. \/ balance' = [balance EXCEPT !["host"] = balance["host"] + HostPayout]
            \/ balance' = balance
        BY <1>3 DEF ResolveCommit
      <3> QED BY <1>p, <3>1, <3>2, MoveAt
    <2> QED BY <1>0, <1>3, <2>1, <2>2, <2>3, <2>4 DEF TypeInv, TypeOK, ReqInv, ResolveCommit
  <1> QED BY <1>1, <1>2, <1>3

LEMMA WithdrawTypes ==
    ASSUME TypeInv, NEW r \in Reqs
    PROVE  /\ \A o \in Owners, a \in Amounts : WithdrawRead(r, o, a) => TypeInv'
           /\ WithdrawDebit(r) => TypeInv'
  <1> USE DEF property, money, wallets
  <1>0. TypeOK /\ ReqInv BY DEF TypeInv
  <1>1. ASSUME NEW o \in Owners, NEW a \in Amounts, WithdrawRead(r, o, a) PROVE TypeInv'
    <2> DEFINE q == [Idle EXCEPT !.pc = "withdraw_debit", !.arg = o, !.amt = a]
    <2>1. a \in Int BY MoneyAssumption
    <2>2. q \in Request /\ q.pc \in Simple BY <2>1, SimplePoints DEF Idle, Request, Simple
    <2>3. Start(r, q) BY <1>1 DEF WithdrawRead
    <2> HIDE DEF q
    <2>4. ReqInv' BY <1>0, <2>2, <2>3, StartReq
    <2> QED BY <1>0, <1>1, <2>4 DEF TypeInv, TypeOK, ReqInv, WithdrawRead
  <1>2. CASE WithdrawDebit(r)
    <2>1. ReqInv' BY <1>0, <1>2, FinishReq DEF WithdrawDebit
    <2>2. req[r].amt \in Int BY <1>0 DEF ReqInv, Request
    <2>3. balance' \in [Owners -> Int]
      <3>1. balance \in [Owners -> Int] BY <1>0 DEF TypeOK
      <3>2. balance' = [balance EXCEPT ![req[r].arg] = balance[req[r].arg] - req[r].amt]
        BY <1>2 DEF WithdrawDebit
      <3> QED BY <2>2, <3>1, <3>2, MoveAt
    <2>4. withdrawn' \in Int
      <3>1. withdrawn \in Int /\ req[r].amt \in Int BY <1>0 DEF TypeOK, ReqInv, Request
      <3> QED BY <1>2, <3>1 DEF WithdrawDebit
    <2> QED BY <1>0, <1>2, <2>1, <2>3, <2>4 DEF TypeInv, TypeOK, ReqInv, WithdrawDebit
  <1> QED BY <1>1, <1>2

-----------------------------------------------------------------------------
(* Faults and the clock.                                                   *)

LEMMA FaultTypes ==
    ASSUME TypeInv, NEW r \in Reqs
    PROVE  End(r) \/ TransactionTimeout(r) => TypeInv'
  <1> USE DEF property, money, wallets
  <1>0. TypeOK /\ ReqInv BY DEF TypeInv
  <1>1. CASE End(r)
    <2>1. ReqInv' BY <1>0, <1>1, FinishReq DEF End
    <2> QED BY <1>0, <1>1, <2>1 DEF TypeInv, TypeOK, ReqInv, End
  <1>2. CASE req[r].pc \in RefundPoints /\ req' = [req EXCEPT ![r].ret = "idle"]
             /\ UNCHANGED <<today, property, bookings, history, dispute, money, wallets>>
    <2> DEFINE q == [req[r] EXCEPT !.ret = "idle"]
    <2>1. req[r] \in Request /\ Shape(req[r]) BY <1>0 DEF ReqInv
    <2>2. q \in Request BY <2>1 DEF Request
    <2>3. q.pc = req[r].pc /\ q.stay = req[r].stay /\ q.b = req[r].b /\ q.arg = req[r].arg
      BY <2>1 DEF Request
    <2>4. req' = [req EXCEPT ![r] = q] BY <1>2
    <2> HIDE DEF q
    <2>5. Shape(q) BY <2>1, <2>3 DEF Shape
    <2>6. ReqInv' BY <1>0, <2>2, <2>4, <2>5, StepReq
    <2> QED BY <1>0, <1>2, <2>6 DEF TypeInv, TypeOK, ReqInv
  <1> QED BY <1>1, <1>2 DEF TransactionTimeout

LEMMA ClockTypes ==
    ASSUME TypeInv, Tick \/ \E s \in Stays : LockExpires(s)
    PROVE  TypeInv'
  <1> USE DEF property, money, wallets
  <1>0. TypeOK /\ ReqInv BY DEF TypeInv
  <1> QED BY <1>0 DEF TypeInv, TypeOK, ReqInv, Tick, LockExpires

-----------------------------------------------------------------------------
(* The specification.                                                      *)

LEMMA InitTypes == ASSUME Init PROVE TypeInv
  <1>1. ReqInv BY IdleOK, SimpleShape DEF Init, ReqInv
  <1>2. 0 \in Days /\ Opening \in Int BY DaysAssumption, MoneyAssumption
  <1>3. bookings \in [Bookings -> BookingRow] BY DEF Init, NoBooking, BookingRow
  <1>4. payment \in [Bookings -> PaymentRow] BY DEF Init, NoPayment, PaymentRow
  <1>5. order \in [Bookings -> OrderRow] BY DEF Init, NoOrder, OrderRow
  <1>6. balance \in [Owners -> Int] BY <1>2 DEF Init, Owners
  <1> QED BY <1>1, <1>2, <1>3, <1>4, <1>5, <1>6 DEF Init, TypeInv, TypeOK, ReqInv

LEMMA NextTypes == ASSUME TypeInv, [Next]_vars PROVE TypeInv'
  <1>1. CASE UNCHANGED vars
    BY <1>1 DEF TypeInv, TypeOK, ReqInv, vars, property, money, wallets
  <1>2. CASE Tick BY <1>2, ClockTypes
  <1>3. CASE Single BY <1>3, SingleTypes
  <1>4. CASE Guest BY <1>4, GuestTypes
  <1>5. ASSUME NEW r \in Reqs, Arrive(r) PROVE TypeInv'
    <2>1. CASE \E s \in Stays : AcquireLock(r, s) BY <2>1, CreateTypes
    <2>2. CASE (\E s \in Blocks : BlockRead(r, s)) \/ RemoveRead(r) BY <2>2, ListingsTypes
    <2>3. CASE \E o \in Owners, a \in Amounts : WithdrawRead(r, o, a) BY <2>3, WithdrawTypes
    <2>4. ASSUME NEW b \in Bookings,
                 \/ ConfirmRead(r, b) \/ RejectRead(r, b) \/ CheckInRead(r, b)
                 \/ CheckOutRead(r, b) \/ CancelRead(r, b)
                 \/ PayRead(r, b) \/ DisputeRead(r, b)
                 \/ \E w \in {"GUEST", "HOST"}, a \in Amounts \cup {0} : ResolveRead(r, b, w, a)
          PROVE  TypeInv'
      BY <2>4, ReadTypes
    <2>5. ASSUME NEW b \in Bookings, NEW o \in Bookings,
                 CapturePaypal(r, o, b) \/ PollMomo(r, o, b)
          PROVE  TypeInv'
      BY <2>5, CompleteTypes
    <2> QED BY <1>5, <2>1, <2>2, <2>3, <2>4, <2>5 DEF Arrive
  <1>6. ASSUME NEW r \in Reqs, Resume(r) PROVE TypeInv'
    BY <1>6, CreateTypes, ListingsTypes, WriteTypes, PayTypes, CompleteTypes, RefundTypes,
       DisputeTypes, WithdrawTypes DEF Resume
  <1>7. ASSUME NEW r \in Reqs, Advance(r) \/ Fault(r) PROVE TypeInv'
    BY <1>6, <1>7, FaultTypes, CreateTypes, PayTypes DEF Advance, Fault, Refused, Drop
  <1>8. ASSUME NEW s \in Stays, Expire(s) PROVE TypeInv'
    BY <1>8, ClockTypes DEF Expire
  <1> QED BY <1>1, <1>2, <1>3, <1>4, <1>5, <1>7, <1>8 DEF Next

(* Every reachable state has the tables' types, whatever amounts users     *)
(* type in: every status is one of its enumeration, balances are whole     *)
(* numbers and every request holds what the next step of its handler uses. *)
THEOREM TypeCorrect == Spec => []TypeInv
  <1>1. Init => TypeInv BY InitTypes
  <1>2. TypeInv /\ [Next]_vars => TypeInv' BY NextTypes
  <1> QED BY <1>1, <1>2, PTL DEF Spec

(* The type invariant the runs check.                                      *)
THEOREM TypesHold == Spec => []TypeOK
  <1>1. TypeInv => TypeOK BY DEF TypeInv
  <1> QED BY <1>1, TypeCorrect, PTL
=============================================================================
