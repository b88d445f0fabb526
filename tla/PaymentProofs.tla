---------------------------- MODULE PaymentProofs ----------------------------
(***************************************************************************)
(* No payment counts without money, in every instance.                     *)
(*                                                                         *)
(* A handler of PaymentsService decides on what it read and writes after   *)
(* an await, and completes whatever payment the client named.  PayInv says *)
(* what still holds when it comes to write: an unfinished initiatePayment  *)
(* has its payment and its order for itself; the payment it or a refund    *)
(* writes exists; and while a completion is in flight some order was       *)
(* captured.  CountInv counts: a capture lets one handler complete one     *)
(* payment, and a refund claims only a payment that was complete.          *)
(***************************************************************************)
EXTENDS CalendarProofs, FiniteSetTheorems

Paying     == {"pay_order", "pay_check", "pay_debit", "pay_update", "pay_log", "pay_failed"}
Completing == {"complete_read", "complete_update", "complete_commit"}
Refunding  == {"refund_provider", "refund_row", "refund_update"}
Acting     == Paying \cup Completing \cup Refunding \cup {"momo_failed"}
Booked     == PayPoints \cup RefundPoints \cup BookingPoints

(* The points that rely on nothing the payment or the order says.          *)
Elsewhere  == Points \ Acting

(* What the handler q relies on, of its payment p and the order o.         *)
Fits(q, p, o) ==
    /\ q.pc \in Acting => p.provider # NONE
    /\ q.pc \in {"pay_order", "pay_check", "pay_debit"} => o.state = "none"
    /\ q.pc = "pay_order" => p.provider # "INTERNAL"
    /\ q.pc \in {"pay_check", "pay_debit"} => p.provider = "INTERNAL"

(* A payment row comes before its order.                                   *)
RowFits(p, o) == p.provider = NONE => p = NoPayment /\ o = NoOrder

(* One initiatePayment goes on per booking.                                *)
Alone(q, s) ==
    req[q].b = req[s].b /\ req[q].pc \in Paying /\ req[s].pc \in Paying => q = s

(* The handler q will complete its payment p on the strength of a capture. *)
Carrier(q, p) == q.pc \in Completing \/ (q.pc = "pay_update" /\ p.provider = "INTERNAL")
Carrying(r)   == Carrier(req[r], payment[req[r].b])

PayInv ==
    /\ \A q \in Reqs : req[q].pc \in Booked => req[q].b \in Bookings
    /\ \A q \in Reqs : req[q].b \in Bookings => Fits(req[q], payment[req[q].b], order[req[q].b])
    /\ \A b \in Bookings : RowFits(payment[b], order[b])
    /\ \A q, s \in Reqs : req[q].b \in Bookings => Alone(q, s)
    /\ \A q \in Reqs : Carrying(q) => MoneyTaken
    /\ \A b \in Bookings : payment[b].captured => MoneyTaken

(* The handlers that will complete a payment, and the payments that are    *)
(* complete or refunded, or will be once a refund in flight is done.       *)
Carriers == {r \in Reqs : Carrying(r)}
Claimed  == {b \in Bookings : \/ payment[b].status \in Paid
                              \/ \E r \in Reqs : req[r].b = b /\ req[r].pc \in Refunding}

(* Nothing is completed; perhaps the guest pays at the provider.           *)
Quiet ==
    /\ Carriers' \subseteq Carriers /\ Claimed' \subseteq Claimed
    /\ Captured \subseteq Captured' /\ \E x : Captured' \subseteq Captured \cup {x}

(* An order is captured, and the handler in slot r will complete a payment.*)
Gains(r) ==
    /\ Carriers' \subseteq Carriers \cup {r} /\ Claimed' \subseteq Claimed
    /\ \E x : x \notin Captured /\ Captured' = Captured \cup {x}

(* The handler in slot r completes a payment.                              *)
Spends(r) ==
    /\ r \in Carriers /\ Carriers' \subseteq Carriers \ {r} /\ Captured' = Captured
    /\ \E x : Claimed' \subseteq Claimed \cup {x}
    /\ CompleteCommit(r) \/ payment[req[r].b].provider = "INTERNAL"

-----------------------------------------------------------------------------
(* Requests and rows after an assignment.                                  *)

LEMMA SetReq ==
    ASSUME TypeInv, NEW r \in Reqs, NEW q, req' = [req EXCEPT ![r] = q]
    PROVE  req'[r] = q /\ \A s \in Reqs \ {r} : req'[s] = req[s]
  BY DEF TypeInv, ReqInv

LEMMA Finished ==
    ASSUME TypeInv, NEW r \in Reqs, Finish(r)
    PROVE  /\ req'[r] = Idle /\ Idle.pc = "idle" /\ Idle.b = NONE
           /\ \A s \in Reqs \ {r} : req'[s] = req[s]
  BY SetReq DEF Finish, Idle

LEMMA Went ==
    ASSUME TypeInv, NEW r \in Reqs, NEW p, Goto(r, p)
    PROVE  /\ req'[r].pc = p /\ req'[r].b = req[r].b /\ req'[r].amt = req[r].amt
           /\ req'[r].arg = req[r].arg /\ req'[r].status = req[r].status
           /\ \A s \in Reqs \ {r} : req'[s] = req[s]
  <1>1. req \in [Reqs -> Request] /\ req[r] \in Request BY DEF TypeInv, ReqInv
  <1> QED BY <1>1 DEF Goto, Request

(* Start leaves the slot with the new handler in it.                       *)
LEMMA Started ==
    ASSUME TypeInv, NEW r \in Reqs, NEW q, Start(r, q)
    PROVE  /\ req'[r] = q /\ req[r].pc = "idle"
           /\ \A s \in Reqs \ {r} : req'[s] = req[s]
  BY SetReq DEF Start, At

LEMMA StatusSet ==
    ASSUME TypeInv, NEW c \in Bookings, NEW x, payment' = [payment EXCEPT ![c].status = x]
    PROVE  /\ payment'[c].status = x /\ payment'[c].provider = payment[c].provider
           /\ payment'[c].captured = payment[c].captured
           /\ \A b \in Bookings \ {c} : payment'[b] = payment[b]
  <1>1. payment \in [Bookings -> PaymentRow] /\ payment[c] \in PaymentRow
    BY DEF TypeInv, TypeOK
  <1> QED BY <1>1 DEF PaymentRow

LEMMA StateSet ==
    ASSUME TypeInv, NEW c \in Bookings, NEW x, order' = [order EXCEPT ![c].state = x]
    PROVE  /\ order'[c].state = x /\ order'[c].known = order[c].known
           /\ \A b \in Bookings \ {c} : order'[b] = order[b]
  <1>1. order \in [Bookings -> OrderRow] /\ order[c] \in OrderRow BY DEF TypeInv, TypeOK
  <1> QED BY <1>1 DEF OrderRow

-----------------------------------------------------------------------------
(* Steps.                                                                  *)

(* The handler in slot r moves, and nobody else; it writes no payment and  *)
(* no order, and relies on none afterwards.                                *)
Aloof(r) ==
    /\ UNCHANGED <<payment, order>>
    /\ \A q \in Reqs \ {r} : req'[q] = req[q]
    /\ req'[r].pc \in Elsewhere
    /\ req'[r].pc \in Booked => req'[r].b \in Bookings

LEMMA AloofStep == ASSUME PayInv, NEW r \in Reqs, Aloof(r) PROVE PayInv' /\ Quiet
  <1>1. Fits(req'[r], payment'[req'[r].b], order'[req'[r].b])
    BY DEF Aloof, Elsewhere, Fits, Acting, Paying
  <1>2. \A q \in Reqs : (req[q].pc \in Booked => req[q].b \in Bookings)'
    BY DEF PayInv, Aloof
  <1>3. \A q \in Reqs : (req[q].b \in Bookings => Fits(req[q], payment[req[q].b], order[req[q].b]))'
    BY <1>1 DEF PayInv, Aloof
  <1>4. \A b \in Bookings : RowFits(payment[b], order[b])' BY DEF PayInv, Aloof
  <1>5. req'[r].pc \notin Paying /\ req'[r].pc \notin Completing /\ req'[r].pc \notin Refunding
    BY DEF Aloof, Elsewhere, Acting
  <1>6. \A q, s \in Reqs : (req[q].b \in Bookings => Alone(q, s))'
    BY <1>5 DEF PayInv, Aloof, Alone
  <1>7. \A q \in Reqs : Carrying(q)' => q # r /\ Carrying(q)
    BY <1>5 DEF Aloof, Carrying, Carrier, Paying
  <1>8. MoneyTaken' = MoneyTaken /\ Captured' = Captured BY DEF Aloof, MoneyTaken, Captured
  <1>9. Claimed' \subseteq Claimed BY <1>5 DEF Aloof, Claimed
  <1>10. \A q \in Reqs : Carrying(q)' => MoneyTaken' BY <1>7, <1>8 DEF PayInv
  <1>11. \A b \in Bookings : payment'[b].captured => MoneyTaken' BY <1>8 DEF PayInv, Aloof
  <1>12. Carriers' \subseteq Carriers BY <1>7 DEF Carriers
  <1>13. Quiet BY <1>8, <1>9, <1>12 DEF Quiet
  <1> QED BY <1>2, <1>3, <1>4, <1>6, <1>10, <1>11, <1>13 DEF PayInv

(* Whether the handler in slot r captures, completes or does neither, at   *)
(* the payment of c.                                                       *)
Tallied(r, c) ==
    \/ /\ Carrying(r)' => Carrying(r)
       /\ c \in Claimed' => c \in Claimed
    \/ /\ order[c].state # "captured" /\ order'[c].state = "captured"
       /\ c \in Claimed' => c \in Claimed
    \/ /\ Carrying(r) /\ ~Carrying(r)' /\ order'[c].state = order[c].state
       /\ CompleteCommit(r) \/ payment[req[r].b].provider = "INTERNAL"

(* What was captured stays so, and only completePayment makes the payment  *)
(* complete of a guest who does not pay from the wallet.                   *)
Settles(r, c) ==
    /\ order[c].state = "captured" => order'[c].state = "captured"
    /\ payment[c].captured => payment'[c].captured
    /\ payment[c].status # "COMPLETED" /\ payment'[c].status = "COMPLETED" =>
            CompleteCommit(r) \/ payment'[c].provider = "INTERNAL"

(* The handler in slot r moves, and writes the payment or the order of c.  *)
RowStep(r, c) ==
    /\ Settles(r, c) /\ Tallied(r, c)
    /\ \A q \in Reqs \ {r} : req'[q] = req[q]
    /\ \A b \in Bookings \ {c} : payment'[b] = payment[b] /\ order'[b] = order[b]
    /\ payment[c].provider \in {payment'[c].provider, NONE}
    /\ req'[r].b \in {c, NONE} /\ (req'[r].pc \in Booked => req'[r].b = c)
    /\ Fits(req'[r], payment'[c], order'[c])
    /\ RowFits(payment'[c], order'[c])
    /\ \A q \in Reqs \ {r} : req[q].b = c =>
            /\ Fits(req[q], payment'[c], order'[c])
            /\ req'[r].pc \in Paying => req[q].pc \notin Paying
    /\ Carrying(r)' \/ payment'[c].captured => MoneyTaken'

LEMMA Carried ==
    ASSUME PayInv, NEW r \in Reqs, NEW c \in Bookings, RowStep(r, c), NEW q \in Reqs \ {r}
    PROVE  Carrying(q)' => Carrying(q)
  <1>1. CASE req[q].pc \in Completing BY <1>1 DEF Carrying, Carrier
  <1>2. CASE req[q].pc = "pay_update"
    <2>1. req[q].b \in Bookings /\ payment[req[q].b].provider # NONE
      BY <1>2 DEF PayInv, Fits, Acting, Paying, Booked, PayPoints
    <2>2. payment'[req[q].b].provider = payment[req[q].b].provider BY <2>1 DEF RowStep
    <2> QED BY <2>2 DEF RowStep, Carrying, Carrier
  <1> QED BY <1>1, <1>2 DEF RowStep, Carrying, Carrier

LEMMA RowStepHolds ==
    ASSUME PayInv, NEW r \in Reqs, NEW c \in Bookings, RowStep(r, c) PROVE PayInv'
  <1>n. NONE \notin Bookings BY NoneAssumption
  <1>2. \A q \in Reqs : (req[q].pc \in Booked => req[q].b \in Bookings)'
    BY DEF PayInv, RowStep
  <1>3. \A q \in Reqs : (req[q].b \in Bookings => Fits(req[q], payment[req[q].b], order[req[q].b]))'
    <2>1. ASSUME NEW q \in Reqs \ {r}, req'[q].b \in Bookings
          PROVE  Fits(req'[q], payment'[req'[q].b], order'[req'[q].b])
      BY <2>1 DEF PayInv, RowStep
    <2>2. req'[r].b \in Bookings => Fits(req'[r], payment'[req'[r].b], order'[req'[r].b])
      BY <1>n DEF RowStep
    <2> QED BY <2>1, <2>2
  <1>4. \A b \in Bookings : RowFits(payment[b], order[b])'
    <2>1. \A b \in Bookings \ {c} : RowFits(payment'[b], order'[b]) BY DEF PayInv, RowStep
    <2> QED BY <2>1 DEF RowStep
  <1>5. ASSUME NEW q \in Reqs, NEW s \in Reqs, req'[q].b \in Bookings PROVE Alone(q, s)'
    <2>1. CASE q = r \/ s = r BY <1>5, <1>n, <2>1 DEF RowStep, Alone
    <2>2. CASE q # r /\ s # r
      <3>1. Alone(q, s) BY <1>5, <2>2 DEF PayInv, RowStep
      <3> QED BY <2>2, <3>1 DEF RowStep, Alone
    <2> QED BY <2>1, <2>2
  <1>6. MoneyTaken => MoneyTaken'
    <2> SUFFICES ASSUME NEW o \in Bookings, order[o].state = "captured" PROVE MoneyTaken'
      BY DEF MoneyTaken
    <2>1. order'[o].state = "captured" BY DEF RowStep, Settles
    <2> QED BY <2>1 DEF MoneyTaken
  <1>7. \A q \in Reqs : Carrying(q)' => MoneyTaken'
    <2>1. \A q \in Reqs \ {r} : Carrying(q)' => MoneyTaken' BY <1>6, Carried DEF PayInv
    <2> QED BY <2>1 DEF RowStep
  <1>8. \A b \in Bookings : payment'[b].captured => MoneyTaken'
    <2>1. \A b \in Bookings \ {c} : payment'[b].captured => MoneyTaken'
      BY <1>6 DEF PayInv, RowStep
    <2> QED BY <2>1 DEF RowStep
  <1> QED BY <1>2, <1>3, <1>4, <1>5, <1>7, <1>8 DEF PayInv

LEMMA RowStepCounts ==
    ASSUME PayInv, NEW r \in Reqs, NEW c \in Bookings, RowStep(r, c)
    PROVE  /\ Quiet \/ Gains(r) \/ Spends(r)
           /\ Claimed' \subseteq Claimed \cup {c}
           /\ ~Carrying(r)' => Carriers' \subseteq Carriers \ {r}
  <1>1. \A q \in Reqs \ {r} : Carrying(q)' => Carrying(q) BY Carried
  <1>2. \A b \in Bookings \ {c} : b \in Claimed' => b \in Claimed
    <2> SUFFICES ASSUME NEW b \in Bookings \ {c}, b \in Claimed' PROVE b \in Claimed OBVIOUS
    <2>1. CASE payment'[b].status \in Paid BY <2>1 DEF RowStep, Claimed
    <2>2. ASSUME NEW q \in Reqs, req'[q].b = b, req'[q].pc \in Refunding PROVE b \in Claimed
      <3>1. q # r
        BY <2>2, NoneAssumption DEF RowStep
      <3> QED BY <2>2, <3>1 DEF RowStep, Claimed
    <2> QED BY <2>1, <2>2 DEF Claimed
  <1>3. /\ Captured \subseteq Captured' /\ Captured' \subseteq Captured \cup {c}
        /\ order'[c].state = order[c].state => Captured' = Captured
    BY DEF RowStep, Settles, Captured
  <1>4. Carriers' \subseteq Carriers \cup {r} /\ Claimed' \subseteq Claimed \cup {c}
    BY <1>1, <1>2 DEF Carriers, Claimed
  <1>8. ~Carrying(r)' => Carriers' \subseteq Carriers \ {r} BY <1>1 DEF Carriers
  <1>5. CASE (Carrying(r)' => Carrying(r)) /\ (c \in Claimed' => c \in Claimed)
    <2>1. Carriers' \subseteq Carriers BY <1>1, <1>5 DEF Carriers
    <2>2. Claimed' \subseteq Claimed BY <1>4, <1>5
    <2> QED BY <1>3, <1>4, <1>8, <2>1, <2>2 DEF Quiet
  <1>6. CASE /\ order[c].state # "captured" /\ order'[c].state = "captured"
             /\ c \in Claimed' => c \in Claimed
    <2>1. c \notin Captured /\ Captured' = Captured \cup {c} BY <1>3, <1>6 DEF Captured
    <2>2. Claimed' \subseteq Claimed BY <1>4, <1>6
    <2> QED BY <1>4, <1>8, <2>1, <2>2 DEF Gains
  <1>7. CASE /\ Carrying(r) /\ ~Carrying(r)' /\ order'[c].state = order[c].state
             /\ CompleteCommit(r) \/ payment[req[r].b].provider = "INTERNAL"
    <2>1. r \in Carriers /\ Carriers' \subseteq Carriers \ {r} BY <1>1, <1>7 DEF Carriers
    <2> QED BY <1>3, <1>4, <1>7, <1>8, <2>1 DEF Spends
  <1> QED BY <1>5, <1>6, <1>7 DEF RowStep, Tallied

-----------------------------------------------------------------------------
(* The handlers of the other services, and those that throw or die.        *)

LEMMA ElsewherePoints ==
    {"idle", "create_begin", "create_commit", "create_release", "block_write", "remove_write",
     "withdraw_debit", "confirm_write", "reject_write", "checkin_write", "checkout_commit",
     "cancel_update", "cancel_commit", "write_history", "dispute_commit", "resolve_update",
     "resolve_commit", "pay_insert", "refund_read"} \subseteq Elsewhere
  BY DEF Elsewhere, Points, CreatePoints, RefundPoints, PayPoints, BookingPoints, OtherPoints,
         Acting, Paying, Completing, Refunding

LEMMA Unbooked ==
    \A p \in CreatePoints \cup OtherPoints : p \notin Booked
  BY DEF Booked, CreatePoints, OtherPoints, PayPoints, RefundPoints, BookingPoints

LEMMA BookedPoints ==
    {"confirm_write", "reject_write", "checkin_write", "checkout_commit", "cancel_update",
     "cancel_commit", "write_history", "dispute_commit", "resolve_update", "resolve_commit",
     "pay_insert", "refund_read", "momo_failed"} \cup Paying \cup Completing \cup Refunding
        \subseteq Booked
  BY DEF Booked, PayPoints, RefundPoints, BookingPoints, Paying, Completing, Refunding

LEMMA FinishAloof ==
    ASSUME TypeInv, NEW r \in Reqs, Finish(r), UNCHANGED <<payment, order>> PROVE Aloof(r)
  <1>1. "idle" \notin Booked BY Unbooked DEF OtherPoints
  <1> QED BY <1>1, Finished, ElsewherePoints DEF Aloof

LEMMA GotoAloof ==
    ASSUME TypeInv, PayInv, NEW r \in Reqs, NEW p \in Elsewhere, Goto(r, p),
           UNCHANGED <<payment, order>>, p \in Booked => req[r].pc \in Booked
    PROVE  Aloof(r)
  BY Went DEF Aloof, PayInv

LEMMA StartAloof ==
    ASSUME TypeInv, NEW r \in Reqs, NEW q, Start(r, q), UNCHANGED <<payment, order>>,
           q.pc \in Elsewhere, q.pc \in Booked => q.b \in Bookings
    PROVE  Aloof(r)
  BY Started DEF Aloof

LEMMA ListingAloof ==
    ASSUME TypeInv, PayInv, NEW r \in Reqs
    PROVE  /\ \A s \in Stays : AcquireLock(r, s) => Aloof(r)
           /\ \A s \in Blocks : BlockRead(r, s) => Aloof(r)
           /\ RemoveRead(r) => Aloof(r)
           /\ \A o \in Owners, a \in Amounts : WithdrawRead(r, o, a) => Aloof(r)
           /\ CreateSnapshot(r) \/ CreateAbort(r) \/ ReleaseLock(r) => Aloof(r)
           /\ \A b \in Bookings : CreateCommit(r, b) => Aloof(r)
           /\ BlockWrite(r) \/ RemoveWrite(r) \/ WithdrawDebit(r) \/ End(r) => Aloof(r)
  <1> USE DEF property, money, wallets
  <1>u. /\ "create_begin" \notin Booked /\ "create_commit" \notin Booked
        /\ "create_release" \notin Booked
        /\ "block_write" \notin Booked /\ "remove_write" \notin Booked
        /\ "withdraw_debit" \notin Booked
    BY Unbooked DEF CreatePoints, OtherPoints
  <1>1. ASSUME NEW s \in Stays, AcquireLock(r, s) PROVE Aloof(r)
    BY <1>1, <1>u, StartAloof, ElsewherePoints DEF AcquireLock, Idle
  <1>2. ASSUME NEW s \in Blocks, BlockRead(r, s) PROVE Aloof(r)
    BY <1>2, <1>u, StartAloof, ElsewherePoints DEF BlockRead, Idle
  <1>3. CASE RemoveRead(r)
    BY <1>3, <1>u, StartAloof, ElsewherePoints DEF RemoveRead, Idle
  <1>4. ASSUME NEW o \in Owners, NEW a \in Amounts, WithdrawRead(r, o, a) PROVE Aloof(r)
    BY <1>4, <1>u, StartAloof, ElsewherePoints DEF WithdrawRead, Idle
  <1>5. CASE CreateSnapshot(r)
    BY <1>5, <1>u, GotoAloof, ElsewherePoints DEF CreateSnapshot
  <1>6. CASE CreateAbort(r)
    BY <1>6, <1>u, GotoAloof, ElsewherePoints DEF CreateAbort
  <1>7. ASSUME NEW b \in Bookings, CreateCommit(r, b) PROVE Aloof(r)
    BY <1>7, <1>u, GotoAloof, ElsewherePoints DEF CreateCommit
  <1>8. CASE ReleaseLock(r) \/ BlockWrite(r) \/ RemoveWrite(r) \/ WithdrawDebit(r) \/ End(r)
    BY <1>8, FinishAloof DEF ReleaseLock, BlockWrite, RemoveWrite, WithdrawDebit, End
  <1> QED BY <1>1, <1>2, <1>3, <1>4, <1>5, <1>6, <1>7, <1>8

LEMMA ReadAloof ==
    ASSUME TypeInv, NEW r \in Reqs, NEW b \in Bookings
    PROVE  /\ ConfirmRead(r, b) \/ RejectRead(r, b) \/ CheckInRead(r, b)
                \/ CheckOutRead(r, b) \/ CancelRead(r, b) => Aloof(r)
           /\ PayRead(r, b) \/ DisputeRead(r, b) => Aloof(r)
           /\ \A w \in {"GUEST", "HOST"}, a \in Amounts \cup {0} :
                ResolveRead(r, b, w, a) => Aloof(r)
  <1> USE DEF property, money, wallets
  <1>r. ASSUME NEW q, Start(r, q), q.pc \in Elsewhere, q.b = b, UNCHANGED <<payment, order>>
        PROVE  Aloof(r)
    BY <1>r, StartAloof
  <1>1. CASE ConfirmRead(r, b)
    BY <1>1, <1>r, ElsewherePoints DEF ConfirmRead, ReadOnly, Read, Idle
  <1>2. CASE RejectRead(r, b)
    BY <1>2, <1>r, ElsewherePoints DEF RejectRead, ReadOnly, Read, Idle
  <1>3. CASE CheckInRead(r, b)
    BY <1>3, <1>r, ElsewherePoints DEF CheckInRead, ReadOnly, Read, Idle
  <1>4. CASE CheckOutRead(r, b)
    BY <1>4, <1>r, ElsewherePoints DEF CheckOutRead, ReadOnly, Read, Idle
  <1>5. CASE CancelRead(r, b)
    BY <1>5, <1>r, ElsewherePoints DEF CancelRead, ReadOnly, Read, Idle
  <1>6. CASE PayRead(r, b)
    BY <1>6, <1>r, ElsewherePoints DEF PayRead, Frame, Read, Idle
  <1>7. CASE DisputeRead(r, b)
    BY <1>7, <1>r, ElsewherePoints DEF DisputeRead, Unchanged, Read, Idle
  <1>8. ASSUME NEW w \in {"GUEST", "HOST"}, NEW a \in Amounts \cup {0}, ResolveRead(r, b, w, a)
        PROVE  Aloof(r)
    BY <1>8, <1>r, ElsewherePoints DEF ResolveRead, Unchanged, Read, Idle
  <1> QED BY <1>1, <1>2, <1>3, <1>4, <1>5, <1>6, <1>7, <1>8

(* The rewrites of local variables that keep the booking.                  *)
LEMMA EditAloof ==
    ASSUME TypeInv, PayInv, NEW r \in Reqs, req[r].pc \in Booked, NEW p \in Elsewhere, NEW x,
           UNCHANGED <<payment, order>>,
           \/ req' = [req EXCEPT ![r].pc = p, ![r].arg = x]
           \/ req' = [req EXCEPT ![r].ret = x, ![r].pc = p]
           \/ \E y : req' = [req EXCEPT ![r].pc = p, ![r].arg = x, ![r].ret = y]
    PROVE  Aloof(r)
  <1>1. req \in [Reqs -> Request] /\ req[r] \in Request BY DEF TypeInv, ReqInv
  <1>2. \A q \in Reqs \ {r} : req'[q] = req[q] BY <1>1
  <1>3. req'[r].pc = p /\ req'[r].b = req[r].b BY <1>1 DEF Request
  <1> QED BY <1>2, <1>3 DEF Aloof, PayInv

LEMMA WriteAloof ==
    ASSUME TypeInv, PayInv, NEW r \in Reqs
    PROVE  /\ ConfirmWrite(r) \/ RejectWrite(r) \/ CheckInWrite(r) \/ CheckOutCommit(r) => Aloof(r)
           /\ WriteHistory(r) \/ CancelUpdate(r) \/ CancelCommit(r) => Aloof(r)
           /\ DisputeCommit(r) \/ ResolveUpdate(r) \/ ResolveCommit(r) => Aloof(r)
  <1> USE DEF property, money, wallets, OnlyBooking, ReadOnly, Unchanged
  <1>1. CASE ConfirmWrite(r) \/ WriteHistory(r) \/ DisputeCommit(r) \/ ResolveCommit(r)
    BY <1>1, FinishAloof
    DEF ConfirmWrite, UpdateBookingStatus, WriteHistory, DisputeCommit, ResolveCommit
  <1>2. CASE RejectWrite(r)
    <2>1. req[r].pc \in Booked BY <1>2, BookedPoints DEF RejectWrite, At
    <2> QED BY <1>2, <2>1, FinishAloof, GotoAloof, ElsewherePoints
         DEF RejectWrite, UpdateBookingStatus
  <1>3. CASE CheckInWrite(r)
    <2>1. req[r].pc \in Booked BY <1>3, BookedPoints DEF CheckInWrite, At
    <2> QED BY <1>3, <2>1, EditAloof, ElsewherePoints DEF CheckInWrite
  <1>4. CASE CheckOutCommit(r)
    <2>1. req[r].pc \in Booked BY <1>4, BookedPoints DEF CheckOutCommit, At
    <2> QED BY <1>4, <2>1, EditAloof, ElsewherePoints DEF CheckOutCommit
  <1>5. CASE CancelUpdate(r)
    <2> DEFINE p == IF req[r].paid /\ req[r].amt > 0 THEN "refund_read" ELSE "cancel_commit"
    <2>1. req[r].pc \in Booked /\ p \in Elsewhere
      BY <1>5, BookedPoints, ElsewherePoints DEF CancelUpdate, At
    <2>2. req' = [req EXCEPT ![r].ret = "cancel_commit", ![r].pc = p] BY <1>5 DEF CancelUpdate
    <2> HIDE DEF p
    <2> QED BY <1>5, <2>1, <2>2, EditAloof DEF CancelUpdate
  <1>6. CASE CancelCommit(r)
    <2>1. req[r].pc \in Booked BY <1>6, BookedPoints DEF CancelCommit, At
    <2> QED BY <1>6, <2>1, EditAloof, ElsewherePoints DEF CancelCommit
  <1>7. CASE ResolveUpdate(r)
    <2> DEFINE p == IF req[r].amt # 0 THEN "refund_read" ELSE "resolve_commit"
    <2>1. req[r].pc \in Booked /\ p \in Elsewhere
      BY <1>7, BookedPoints, ElsewherePoints DEF ResolveUpdate, At
    <2>2. req' = [req EXCEPT ![r].ret = "resolve_commit", ![r].pc = p] BY <1>7 DEF ResolveUpdate
    <2> HIDE DEF p
    <2> QED BY <1>7, <2>1, <2>2, EditAloof DEF ResolveUpdate
  <1> QED BY <1>1, <1>2, <1>3, <1>4, <1>5, <1>6, <1>7

-----------------------------------------------------------------------------
(* PaymentsService.                                                        *)

(* The booking of a handler of it, and the other handlers of that booking. *)
LEMMA OwnBooking ==
    ASSUME TypeInv, PayInv, NEW r \in Reqs, req[r].pc \in Acting
    PROVE  LET c == req[r].b IN
           /\ c \in Bookings /\ Fits(req[r], payment[c], order[c]) /\ RowFits(payment[c], order[c])
           /\ payment[c].provider # NONE
           /\ \A q \in Reqs \ {r} : req[q].b = c =>
                /\ Fits(req[q], payment[c], order[c])
                /\ req[r].pc \in Paying => req[q].pc \notin Paying
  <1>1. req[r].b \in Bookings BY BookedPoints DEF PayInv, Acting
  <1> QED BY <1>1 DEF PayInv, Fits, Alone

(* A refund in flight claims its payment.                                  *)
LEMMA ClaimedOf ==
    ASSUME NEW r \in Reqs, NEW c \in Bookings, req[r].b = c, req[r].pc \in Refunding
    PROVE  c \in Claimed
  BY DEF Claimed

(* A payment that is claimed after a step was so, or is complete now, or   *)
(* the handler that moved is refunding it.                                 *)
LEMMA ClaimedBefore ==
    ASSUME NEW r \in Reqs, NEW c \in Bookings, \A q \in Reqs \ {r} : req'[q] = req[q],
           payment'[c].status \in Paid => c \in Claimed,
           req'[r].b = c /\ req'[r].pc \in Refunding => c \in Claimed
    PROVE  c \in Claimed' => c \in Claimed
  BY DEF Claimed

LEMMA TakenNow == ASSUME NEW c \in Bookings, order'[c].state = "captured" PROVE MoneyTaken'
  BY DEF MoneyTaken

(* A step of the handler in slot r that leaves the tables alone.           *)
LEMMA KeepRow ==
    ASSUME TypeInv, PayInv, NEW r \in Reqs, req[r].pc \in Acting, NEW c, c = req[r].b,
           UNCHANGED <<payment, order>>, req'[r].b = c,
           \A q \in Reqs \ {r} : req'[q] = req[q],
           Fits(req'[r], payment[c], order[c]), Carrying(r)' => Carrying(r),
           req'[r].pc \in Refunding => c \in Claimed,
           req'[r].pc \in Paying => req[r].pc \in Paying
    PROVE  RowStep(r, c)
  <1>1. /\ c \in Bookings /\ RowFits(payment[c], order[c])
        /\ \A q \in Reqs \ {r} : req[q].b = c =>
                /\ Fits(req[q], payment[c], order[c])
                /\ req[r].pc \in Paying => req[q].pc \notin Paying
    BY OwnBooking
  <1>2. c \in Claimed' => c \in Claimed BY <1>1, ClaimedBefore DEF Claimed
  <1>3. Tallied(r, c) BY <1>2 DEF Tallied
  <1>4. Settles(r, c) BY DEF Settles
  <1>5. MoneyTaken => MoneyTaken' BY DEF MoneyTaken
  <1>6. Carrying(r)' \/ payment'[c].captured => MoneyTaken' BY <1>1, <1>5 DEF PayInv
  <1> QED BY <1>1, <1>3, <1>4, <1>6 DEF RowStep

LEMMA IdleFits ==
    /\ Idle.pc = "idle" /\ Idle.b = NONE /\ Idle.pc \notin Booked
    /\ \A p, o : Fits(Idle, p, o) /\ ~Carrier(Idle, p)
    /\ Idle.pc \notin Paying /\ Idle.pc \notin Completing /\ Idle.pc \notin Refunding
  BY Unbooked DEF Idle, OtherPoints, Fits, Acting, Paying, Completing, Refunding, Carrier

LEMMA UnpaidStatuses ==
    /\ NONE \notin Paid /\ "PENDING" \notin Paid /\ "PROCESSING" \notin Paid /\ "FAILED" \notin Paid
    /\ NONE \notin Providers
  BY NoneAssumption DEF Paid, PaymentStatus

(* A handler ends that marks its payment FAILED.                           *)
LEMMA FailRow ==
    ASSUME TypeInv, PayInv, NEW r \in Reqs, req[r].pc \in Acting, NEW c, c = req[r].b,
           payment' = [payment EXCEPT ![c].status = "FAILED"], order' = order,
           req'[r] = Idle, \A q \in Reqs \ {r} : req'[q] = req[q]
    PROVE  RowStep(r, c)
  <1>1. /\ c \in Bookings /\ payment[c].provider # NONE
        /\ \A q \in Reqs \ {r} : req[q].b = c => Fits(req[q], payment[c], order[c])
    BY OwnBooking
  <1>2. /\ payment'[c].status = "FAILED" /\ payment'[c].provider = payment[c].provider
        /\ payment'[c].captured = payment[c].captured
        /\ \A b \in Bookings \ {c} : payment'[b] = payment[b]
    BY <1>1, StatusSet
  <1>3. \A q \in Reqs \ {r} : req[q].b = c => Fits(req[q], payment'[c], order'[c])
    BY <1>1, <1>2 DEF Fits
  <1>4. ~Carrying(r)' /\ (c \in Claimed' => c \in Claimed)
    BY <1>1, <1>2, IdleFits, UnpaidStatuses, ClaimedBefore DEF Carrying
  <1>5. Tallied(r, c) /\ Settles(r, c) BY <1>2, <1>4 DEF Tallied, Settles
  <1>6. MoneyTaken' = MoneyTaken BY DEF MoneyTaken
  <1> QED BY <1>1, <1>2, <1>3, <1>4, <1>5, <1>6, IdleFits DEF RowStep, RowFits, PayInv

LEMMA InitiateSteps ==
    ASSUME TypeInv, PayInv, NEW r \in Reqs
    PROVE  /\ \A m \in Methods : PayInsert(r, m) => RowStep(r, req[r].b)
           /\ PayOrder(r) \/ PayCheck(r) \/ PayDebit(r) => RowStep(r, req[r].b)
           /\ PayUpdate(r) \/ PayLog(r) => RowStep(r, req[r].b)
           /\ PayThrow(r) \/ PayFailed(r) => RowStep(r, req[r].b)
  <1> USE DEF property, money, wallets, Frame
  <1> DEFINE c == req[r].b
  <1>t. /\ payment \in [Bookings -> PaymentRow] /\ order \in [Bookings -> OrderRow]
        /\ \A b \in Bookings : payment[b] \in PaymentRow /\ order[b] \in OrderRow
    BY DEF TypeInv, TypeOK
  <1>p. Paying \subseteq Acting /\ \A x \in Paying : x \notin Completing /\ x \notin Refunding
    BY DEF Acting, Paying, Completing, Refunding
  <1>1. ASSUME NEW m \in Methods, PayInsert(r, m) PROVE RowStep(r, c)
    <2>1. c \in Bookings BY <1>1, BookedPoints DEF PayInsert, At, PayInv
    <2>2. payment[c] = NoPayment /\ order[c] = NoOrder
      BY <1>1, <2>1 DEF PayInsert, PayInv, RowFits, NoPayment
    <2>3. /\ payment'[c].status = "PENDING" /\ payment'[c].provider = m
          /\ ~payment'[c].captured
          /\ \A b \in Bookings \ {c} : payment'[b] = payment[b]
          /\ order' = order
      BY <1>1, <1>t, <2>1 DEF PayInsert, NoPayment
    <2>4. /\ req'[r].pc = (IF m = "INTERNAL" THEN "pay_check" ELSE "pay_order")
          /\ req'[r].b = c /\ \A q \in Reqs \ {r} : req'[q] = req[q]
      BY <1>1, Went DEF PayInsert
    <2>5. m # NONE BY UnpaidStatuses, ChoiceAssumption
    <2>6. \A q \in Reqs : req[q].b = c => req[q].pc \notin Acting
      BY <2>1, <2>2 DEF PayInv, Fits, NoPayment
    <2>7. Fits(req'[r], payment'[c], order'[c])
      BY <2>2, <2>3, <2>4, <2>5 DEF Fits, NoOrder
    <2>8. RowFits(payment'[c], order'[c]) BY <2>3, <2>5 DEF RowFits
    <2>9. \A q \in Reqs \ {r} : req[q].b = c =>
            Fits(req[q], payment'[c], order'[c]) /\ req[q].pc \notin Paying
      BY <1>p, <2>6 DEF Fits, Paying
    <2>10. payment[c].provider = NONE /\ ~payment[c].captured BY <2>2 DEF NoPayment
    <2>11. ~Carrying(r)' /\ req'[r].pc \in Paying
      BY <2>4 DEF Carrying, Carrier, Completing, Paying
    <2>12. c \in Claimed' => c \in Claimed
      BY <1>p, <2>1, <2>3, <2>4, <2>11, ClaimedBefore, UnpaidStatuses
    <2>13. Tallied(r, c) BY <2>11, <2>12 DEF Tallied
    <2>14. Settles(r, c) BY <2>3, <2>10 DEF Settles
    <2> QED BY <2>3, <2>4, <2>7, <2>8, <2>9, <2>10, <2>11, <2>13, <2>14 DEF RowStep
  <1>2. CASE PayOrder(r)
    <2>0. req[r].pc = "pay_order" /\ req[r].pc \in Paying BY <1>2 DEF PayOrder, At, Paying
    <2>1. /\ c \in Bookings /\ Fits(req[r], payment[c], order[c]) /\ payment[c].provider # NONE
          /\ \A q \in Reqs \ {r} : req[q].b = c =>
                Fits(req[q], payment[c], order[c]) /\ req[q].pc \notin Paying
      BY <1>p, <2>0, OwnBooking
    <2>2. /\ payment' = payment /\ order'[c].state = "created"
          /\ \A b \in Bookings \ {c} : order'[b] = order[b]
      BY <1>2, <2>1, StateSet DEF PayOrder
    <2>3. /\ req'[r].pc = "pay_update" /\ req'[r].b = c
          /\ \A q \in Reqs \ {r} : req'[q] = req[q]
      BY <1>2, Went DEF PayOrder
    <2>4. order[c].state = "none" /\ payment[c].provider # "INTERNAL"
      BY <2>0, <2>1 DEF Fits
    <2>5. Fits(req'[r], payment'[c], order'[c]) BY <2>1, <2>2, <2>3 DEF Fits
    <2>6. \A q \in Reqs \ {r} : req[q].b = c => Fits(req[q], payment'[c], order'[c])
      BY <2>1, <2>2 DEF Fits, Paying
    <2>7. ~Carrying(r)' BY <2>2, <2>3, <2>4 DEF Carrying, Carrier, Completing
    <2>8. c \in Claimed' => c \in Claimed
      BY <2>1, <2>2, <2>3, ClaimedBefore DEF Claimed, Refunding
    <2>9. Tallied(r, c) /\ Settles(r, c) BY <2>2, <2>4, <2>7, <2>8 DEF Tallied, Settles
    <2>10. ~payment[c].captured \/ MoneyTaken' 
      <3>1. \A o \in Bookings : order[o].state = "captured" => order'[o].state = "captured"
        BY <2>2, <2>4
      <3> QED BY <2>1, <3>1 DEF PayInv, MoneyTaken
    <2> QED BY <2>1, <2>2, <2>3, <2>5, <2>6, <2>7, <2>9, <2>10 DEF RowStep, RowFits
  <1>3. CASE PayCheck(r)
    <2>0. req[r].pc = "pay_check" /\ req[r].pc \in Paying BY <1>3 DEF PayCheck, At, Paying
    <2>1. /\ req'[r].pc \in {"pay_debit", "pay_failed"} /\ req'[r].b = c
          /\ UNCHANGED <<payment, order>> /\ \A q \in Reqs \ {r} : req'[q] = req[q]
      BY <1>3, Went DEF PayCheck
    <2>2. Fits(req'[r], payment[c], order[c])
      BY <1>p, <2>0, <2>1, OwnBooking DEF Fits
    <2>3. ~Carrying(r)' /\ req'[r].pc \notin Refunding
      BY <2>1 DEF Carrying, Carrier, Completing, Refunding
    <2> QED BY <1>p, <2>0, <2>1, <2>2, <2>3, KeepRow
  <1>4. CASE PayDebit(r)
    <2>0. req[r].pc = "pay_debit" /\ req[r].pc \in Paying BY <1>4 DEF PayDebit, At, Paying
    <2>1. /\ c \in Bookings /\ Fits(req[r], payment[c], order[c]) /\ payment[c].provider # NONE
          /\ \A q \in Reqs \ {r} : req[q].b = c =>
                Fits(req[q], payment[c], order[c]) /\ req[q].pc \notin Paying
      BY <1>p, <2>0, OwnBooking
    <2>2. /\ payment' = payment /\ order'[c].state = "captured"
          /\ \A b \in Bookings \ {c} : order'[b] = order[b]
      BY <1>4, <2>1, StateSet DEF PayDebit
    <2>3. /\ req'[r].pc = "pay_update" /\ req'[r].b = c
          /\ \A q \in Reqs \ {r} : req'[q] = req[q]
      BY <1>4, Went DEF PayDebit
    <2>4. order[c].state = "none" BY <2>0, <2>1 DEF Fits
    <2>5. Fits(req'[r], payment'[c], order'[c]) BY <2>1, <2>2, <2>3 DEF Fits
    <2>6. \A q \in Reqs \ {r} : req[q].b = c => Fits(req[q], payment'[c], order'[c])
      BY <2>1, <2>2 DEF Fits, Paying
    <2>8. c \in Claimed' => c \in Claimed
      BY <2>1, <2>2, <2>3, ClaimedBefore DEF Claimed, Refunding
    <2>9. Tallied(r, c) /\ Settles(r, c) BY <2>2, <2>4, <2>8 DEF Tallied, Settles
    <2>10. MoneyTaken' BY <2>1, <2>2, TakenNow
    <2> QED BY <2>1, <2>2, <2>3, <2>5, <2>6, <2>9, <2>10 DEF RowStep, RowFits
  <1>5. CASE PayUpdate(r)
    <2> DEFINE s == IF payment[c].provider = "INTERNAL" THEN "COMPLETED" ELSE "PROCESSING"
               row == [payment[c] EXCEPT !.status = s, !.ref = TRUE,
                                         !.captured = @ \/ s = "COMPLETED"]
    <2>0. req[r].pc = "pay_update" /\ req[r].pc \in Paying BY <1>5 DEF PayUpdate, At, Paying
    <2>1. /\ c \in Bookings /\ Fits(req[r], payment[c], order[c]) /\ payment[c].provider # NONE
          /\ \A q \in Reqs \ {r} : req[q].b = c =>
                Fits(req[q], payment[c], order[c]) /\ req[q].pc \notin Paying
      BY <1>p, <2>0, OwnBooking
    <2>2. /\ order' = order /\ payment'[c].status = s
          /\ payment'[c].provider = payment[c].provider
          /\ payment'[c].captured = (payment[c].captured \/ s = "COMPLETED")
          /\ \A b \in Bookings \ {c} : payment'[b] = payment[b]
      <3>1. payment' = [payment EXCEPT ![c] = row] BY <1>5, <1>t, <2>1 DEF PayUpdate
      <3>2. payment'[c] = row /\ \A b \in Bookings \ {c} : payment'[b] = payment[b]
        BY <1>t, <2>1, <3>1
      <3>3. /\ row.status = s /\ row.provider = payment[c].provider
            /\ row.captured = (payment[c].captured \/ s = "COMPLETED")
        BY <1>t, <2>1 DEF PaymentRow
      <3>4. order' = order BY <1>5 DEF PayUpdate
      <3> QED BY <3>2, <3>3, <3>4
    <2>s. s = "COMPLETED" <=> payment[c].provider = "INTERNAL" OBVIOUS
    <2>u. s # "COMPLETED" => s \notin Paid BY UnpaidStatuses
    <2> HIDE DEF s, row
    <2>3. /\ req'[r].pc = "pay_log" /\ req'[r].b = c
          /\ \A q \in Reqs \ {r} : req'[q] = req[q]
      BY <1>5, Went DEF PayUpdate
    <2>4. Fits(req'[r], payment'[c], order'[c]) BY <2>1, <2>2, <2>3 DEF Fits
    <2>5. \A q \in Reqs \ {r} : req[q].b = c => Fits(req[q], payment'[c], order'[c])
      BY <2>1, <2>2 DEF Fits
    <2>6. ~Carrying(r)' BY <2>3 DEF Carrying, Carrier, Completing
    <2>7. payment[c].provider = "INTERNAL" => Carrying(r)
      BY <2>0 DEF Carrying, Carrier
    <2>8. payment[c].provider # "INTERNAL" => (c \in Claimed' => c \in Claimed)
      BY <2>1, <2>2, <2>3, <2>s, <2>u, ClaimedBefore DEF Refunding
    <2>9. Tallied(r, c) BY <2>2, <2>6, <2>7, <2>8 DEF Tallied
    <2>10. Settles(r, c) BY <2>2, <2>s DEF Settles
    <2>11. payment'[c].captured => MoneyTaken'
      <3>1. MoneyTaken => MoneyTaken' BY <2>2 DEF MoneyTaken
      <3>2. CASE payment[c].captured BY <2>1, <3>1, <3>2 DEF PayInv
      <3>3. CASE s = "COMPLETED" BY <2>7, <2>s, <3>1, <3>3 DEF PayInv
      <3> QED BY <2>2, <3>2, <3>3
    <2> QED BY <2>1, <2>2, <2>3, <2>4, <2>5, <2>6, <2>9, <2>10, <2>11 DEF RowStep, RowFits
  <1>6. CASE PayLog(r)
    <2>0. req[r].pc = "pay_log" /\ req[r].pc \in Paying BY <1>6 DEF PayLog, At, Paying
    <2>1. /\ c \in Bookings /\ payment[c].provider # NONE
          /\ \A q \in Reqs \ {r} : req[q].b = c => Fits(req[q], payment[c], order[c])
      BY <1>p, <2>0, OwnBooking
    <2>2. /\ payment' = payment /\ \A b \in Bookings : order'[b].state = order[b].state
          /\ \A b \in Bookings \ {c} : order'[b] = order[b]
      BY <1>6, <1>t, <2>1 DEF PayLog, OrderRow
    <2>3. req'[r] = Idle /\ \A q \in Reqs \ {r} : req'[q] = req[q]
      BY <1>6, Finished DEF PayLog
    <2>5. \A q \in Reqs \ {r} : req[q].b = c => Fits(req[q], payment'[c], order'[c])
      BY <2>1, <2>2 DEF Fits
    <2>6. ~Carrying(r)' /\ (c \in Claimed' => c \in Claimed)
      BY <2>1, <2>2, <2>3, IdleFits, ClaimedBefore DEF Claimed, Carrying
    <2>7. Tallied(r, c) /\ Settles(r, c) BY <2>1, <2>2, <2>6 DEF Tallied, Settles
    <2>8. MoneyTaken' = MoneyTaken BY <2>2 DEF MoneyTaken
    <2> QED BY <2>1, <2>2, <2>3, <2>5, <2>6, <2>7, <2>8, IdleFits DEF RowStep, RowFits, PayInv
  <1>7. CASE PayThrow(r)
    <2>0. req[r].pc \in Paying BY <1>7 DEF PayThrow, Paying
    <2>1. /\ req'[r].pc = "pay_failed" /\ req'[r].b = c
          /\ UNCHANGED <<payment, order>> /\ \A q \in Reqs \ {r} : req'[q] = req[q]
      BY <1>7, Went DEF PayThrow
    <2>2. Fits(req'[r], payment[c], order[c]) BY <1>p, <2>0, <2>1, OwnBooking DEF Fits
    <2>3. ~Carrying(r)' /\ req'[r].pc \notin Refunding
      BY <2>1 DEF Carrying, Carrier, Completing, Refunding
    <2> QED BY <1>p, <2>0, <2>1, <2>2, <2>3, KeepRow
  <1>8. CASE PayFailed(r)
    <2>0. req[r].pc = "pay_failed" /\ req[r].pc \in Paying BY <1>8 DEF PayFailed, At, Paying
    <2>1. payment' = [payment EXCEPT ![c].status = "FAILED"] /\ order' = order
      BY <1>8 DEF PayFailed, SetPayment
    <2>2. req'[r] = Idle /\ \A q \in Reqs \ {r} : req'[q] = req[q]
      BY <1>8, Finished DEF PayFailed
    <2> QED BY <1>p, <2>0, <2>1, <2>2, FailRow
  <1> QED BY <1>1, <1>2, <1>3, <1>4, <1>5, <1>6, <1>7, <1>8

(* The client names a reference at the provider and a payment.             *)
LEMMA NamedStep ==
    ASSUME TypeInv, PayInv, NEW r \in Reqs, NEW b \in Bookings, payment[b].provider # NONE,
           NEW q, Start(r, q), q.pc \in {"complete_read", "momo_failed"}, q.b = b,
           payment' = payment, MoneyTaken => MoneyTaken',
           q.pc = "complete_read" => MoneyTaken',
           \A c \in Bookings : order'[c] = order[c] \/ (order[c].state # "none"
                                                        /\ order'[c].state # "none")
    PROVE  PayInv' /\ Carriers' \subseteq Carriers \cup {r} /\ Claimed' \subseteq Claimed
  <1>1. req'[r] = q /\ \A s \in Reqs \ {r} : req'[s] = req[s] BY Started
  <1>2. q.pc \notin Paying /\ q.pc \notin Refunding BY DEF Paying, Refunding
  <1>3. \A s \in Reqs : (req[s].pc \in Booked => req[s].b \in Bookings)'
    BY <1>1 DEF PayInv
  <1>4. \A s \in Reqs : (req[s].b \in Bookings => Fits(req[s], payment[req[s].b], order[req[s].b]))'
    <2>1. ASSUME NEW s \in Reqs \ {r}, req'[s].b \in Bookings
          PROVE  Fits(req'[s], payment'[req'[s].b], order'[req'[s].b])
      BY <1>1, <2>1 DEF PayInv, Fits
    <2>2. Fits(req'[r], payment'[req'[r].b], order'[req'[r].b]) BY <1>1 DEF Fits
    <2> QED BY <2>1, <2>2
  <1>5. \A c \in Bookings : RowFits(payment[c], order[c])' BY DEF PayInv, RowFits, NoOrder
  <1>6. \A s, u \in Reqs : (req[s].b \in Bookings => Alone(s, u))'
    BY <1>1, <1>2 DEF PayInv, Alone
  <1>7. \A s \in Reqs \ {r} : Carrying(s)' = Carrying(s) BY <1>1 DEF Carrying
  <1>8. Carrying(r)' => MoneyTaken' BY <1>1, <1>2 DEF Carrying, Carrier, Completing
  <1>9. \A s \in Reqs : Carrying(s)' => MoneyTaken' BY <1>7, <1>8 DEF PayInv
  <1>10. \A c \in Bookings : payment'[c].captured => MoneyTaken' BY DEF PayInv
  <1>11. Carriers' \subseteq Carriers \cup {r} BY <1>7 DEF Carriers
  <1>12. Claimed' \subseteq Claimed BY <1>1, <1>2 DEF Claimed
  <1> QED BY <1>3, <1>4, <1>5, <1>6, <1>9, <1>10, <1>11, <1>12 DEF PayInv

LEMMA CaptureStep ==
    ASSUME TypeInv, PayInv, NEW r \in Reqs, NEW o \in Bookings, NEW b \in Bookings,
           CapturePaypal(r, o, b)
    PROVE  PayInv' /\ Gains(r)
  <1> USE DEF property, money, wallets, Frame
  <1>1. PICK q : q = [Idle EXCEPT !.pc = "complete_read", !.b = b] OBVIOUS
  <1>2. q.pc = "complete_read" /\ q.b = b BY <1>1 DEF Idle
  <1>3. /\ Start(r, q) /\ payment' = payment /\ payment[b].provider # NONE
        /\ order[o].state = "approved" /\ order'[o].state = "captured"
        /\ \A c \in Bookings \ {o} : order'[c] = order[c]
    BY <1>1, StateSet DEF CapturePaypal, Named
  <1>4. MoneyTaken' BY <1>3, TakenNow
  <1>n. \A c \in Bookings : order'[c] = order[c] \/ (order[c].state # "none"
                                                        /\ order'[c].state # "none")
    BY <1>3
  <1>5. PayInv' /\ Carriers' \subseteq Carriers \cup {r} /\ Claimed' \subseteq Claimed
    <2>1. Start(r, q) /\ payment' = payment /\ payment[b].provider # NONE BY <1>3
    <2>2. q.pc \in {"complete_read", "momo_failed"} BY <1>2
    <2> QED BY <1>2, <1>4, <1>n, <2>1, <2>2, NamedStep
  <1>6. o \notin Captured /\ Captured' = Captured \cup {o} BY <1>3 DEF Captured
  <1> QED BY <1>5, <1>6 DEF Gains

LEMMA PollStep ==
    ASSUME TypeInv, PayInv, NEW r \in Reqs, NEW o \in Bookings, NEW b \in Bookings,
           PollMomo(r, o, b)
    PROVE  PayInv' /\ payment'[o].provider = "MTN_MOMO"
  <1> USE DEF property, money, wallets, Frame
  <1>1. PICK q : /\ Start(r, q)
                 /\ \/ order[o].state = "captured" /\ q = [Idle EXCEPT !.pc = "complete_read", !.b = b]
                    \/ order[o].state = "failed" /\ q = [Idle EXCEPT !.pc = "momo_failed", !.b = b]
    BY DEF PollMomo
  <1>2. /\ \/ order[o].state = "captured" /\ q.pc = "complete_read"
           \/ order[o].state = "failed" /\ q.pc = "momo_failed"
        /\ q.b = b
    BY <1>1 DEF Idle
  <1>3. /\ UNCHANGED <<payment, order>> /\ payment[b].provider # NONE
        /\ payment[o].provider = "MTN_MOMO"
    BY DEF PollMomo, Named
  <1>4. /\ MoneyTaken => MoneyTaken'
        /\ q.pc = "complete_read" => MoneyTaken'
    BY <1>2, <1>3 DEF MoneyTaken
  <1>5. PayInv'
    <2>1. Start(r, q) /\ payment' = payment /\ payment[b].provider # NONE BY <1>1, <1>3
    <2>2. q.pc \in {"complete_read", "momo_failed"} /\ q.b = b BY <1>2
    <2>3. \A c \in Bookings : order'[c] = order[c] BY <1>3
    <2> QED BY <1>4, <2>1, <2>2, <2>3, NamedStep
  <1> QED BY <1>3, <1>5

LEMMA CompleteSteps ==
    ASSUME TypeInv, PayInv, NEW r \in Reqs
    PROVE  /\ MomoFailed(r) \/ CompleteUpdate(r) \/ CompleteCommit(r) => RowStep(r, req[r].b)
           /\ CompleteRead(r) => Aloof(r) \/ RowStep(r, req[r].b)
  <1> USE DEF property, money, wallets, Frame
  <1> DEFINE c == req[r].b
  <1>p. \A x \in Completing : x \in Acting /\ x \notin Paying /\ x \notin Refunding
    BY DEF Acting, Paying, Completing, Refunding
  <1>1. CASE MomoFailed(r)
    <2>1. req[r].pc \in Acting BY <1>1 DEF MomoFailed, At, Acting
    <2>2. payment' = [payment EXCEPT ![c].status = "FAILED"] /\ order' = order
      BY <1>1 DEF MomoFailed, SetPayment
    <2>3. req'[r] = Idle /\ \A q \in Reqs \ {r} : req'[q] = req[q]
      BY <1>1, Finished DEF MomoFailed
    <2> QED BY <2>1, <2>2, <2>3, FailRow
  <1>2. CASE CompleteUpdate(r)
    <2>1. req[r].pc \in Completing BY <1>2 DEF CompleteUpdate, At, Completing
    <2>2. /\ UNCHANGED <<payment, order>> /\ req'[r].pc = "complete_commit" /\ req'[r].b = c
          /\ \A q \in Reqs \ {r} : req'[q] = req[q]
      BY <1>2, Went DEF CompleteUpdate
    <2>3. Carrying(r) /\ req'[r].pc \in Completing
      BY <2>1, <2>2 DEF Carrying, Carrier, Completing
    <2>4. Fits(req'[r], payment[c], order[c]) BY <1>p, <2>1, <2>2, OwnBooking DEF Fits
    <2>5. /\ req[r].pc \in Acting /\ req'[r].pc \notin Refunding /\ req'[r].pc \notin Paying
      BY <1>p, <2>1, <2>3
    <2> QED BY <2>2, <2>3, <2>4, <2>5, KeepRow
  <1>3. ASSUME CompleteRead(r) PROVE Aloof(r) \/ RowStep(r, c)
    <2>0. req[r].pc \in Completing BY <1>3 DEF CompleteRead, At, Completing
    <2>1. CASE Finish(r) BY <1>3, <2>1, FinishAloof DEF CompleteRead
    <2>2. CASE req' = [req EXCEPT ![r] = Read(c, "complete_update")]
      <3>0. PICK q : q = Read(c, "complete_update") OBVIOUS
      <3>1. q.pc = "complete_update" /\ q.b = c BY <3>0 DEF Read, Idle
      <3>2. req' = [req EXCEPT ![r] = q] BY <2>2, <3>0
      <3>3. /\ UNCHANGED <<payment, order>> /\ req'[r].pc = "complete_update" /\ req'[r].b = c
            /\ \A s \in Reqs \ {r} : req'[s] = req[s]
        BY <1>3, <3>1, <3>2, SetReq DEF CompleteRead
      <3>4. Carrying(r) /\ req'[r].pc \in Completing
        BY <2>0, <3>3 DEF Carrying, Carrier, Completing
      <3>5. Fits(req'[r], payment[c], order[c]) BY <1>p, <2>0, <3>3, OwnBooking DEF Fits
      <3> QED BY <1>p, <2>0, <3>3, <3>4, <3>5, KeepRow
    <2> QED BY <1>3, <2>1, <2>2 DEF CompleteRead
  <1>4. CASE CompleteCommit(r)
    <2> DEFINE row == [payment[c] EXCEPT !.status = "COMPLETED", !.captured = TRUE]
    <2>0. req[r].pc \in Completing BY <1>4 DEF CompleteCommit, At, Completing
    <2>1. /\ c \in Bookings /\ payment[c].provider # NONE
          /\ \A q \in Reqs \ {r} : req[q].b = c => Fits(req[q], payment[c], order[c])
      BY <1>p, <2>0, OwnBooking
    <2>t. payment \in [Bookings -> PaymentRow] /\ payment[c] \in PaymentRow
      BY <2>1 DEF TypeInv, TypeOK
    <2>2. /\ order' = order /\ payment'[c].status = "COMPLETED" /\ payment'[c].captured
          /\ payment'[c].provider = payment[c].provider
          /\ \A b \in Bookings \ {c} : payment'[b] = payment[b]
      <3>1. payment' = [payment EXCEPT ![c] = row] BY <1>4, <2>t, <2>1 DEF CompleteCommit
      <3>2. payment'[c] = row /\ \A b \in Bookings \ {c} : payment'[b] = payment[b]
        BY <2>t, <2>1, <3>1
      <3>3. row.status = "COMPLETED" /\ row.captured /\ row.provider = payment[c].provider
        BY <2>t DEF PaymentRow
      <3>4. order' = order BY <1>4 DEF CompleteCommit
      <3> QED BY <3>2, <3>3, <3>4
    <2>3. req'[r] = Idle /\ \A q \in Reqs \ {r} : req'[q] = req[q]
      BY <1>4, Finished DEF CompleteCommit
    <2>4. Carrying(r) /\ ~Carrying(r)'
      BY <2>0, <2>3, IdleFits DEF Carrying, Carrier
    <2>5. Tallied(r, c) /\ Settles(r, c) BY <1>4, <2>2, <2>4 DEF Tallied, Settles
    <2>6. MoneyTaken' BY <2>2, <2>4 DEF PayInv, MoneyTaken
    <2>7. \A q \in Reqs \ {r} : req[q].b = c => Fits(req[q], payment'[c], order'[c])
      BY <2>1, <2>2 DEF Fits
    <2> QED BY <2>1, <2>2, <2>3, <2>5, <2>6, <2>7, IdleFits DEF RowStep, RowFits
  <1> QED BY <1>1, <1>2, <1>3, <1>4

LEMMA RefundPaySteps ==
    ASSUME TypeInv, PayInv, NEW r \in Reqs
    PROVE  /\ RefundRead(r) \/ RefundProvider(r) \/ RefundRow(r) \/ RefundUpdate(r)
                => RowStep(r, req[r].b) \/ Aloof(r)
           /\ TransactionTimeout(r) => Aloof(r) \/ RowStep(r, req[r].b)
  <1> USE DEF property, money, wallets, Frame
  <1> DEFINE c == req[r].b
  <1>p. \A x \in Refunding : x \in Acting /\ x \notin Paying /\ x \notin Completing
    BY DEF Acting, Paying, Completing, Refunding
  <1>k. ASSUME req[r].pc \in Refunding, UNCHANGED <<payment, order>>,
               req'[r].b = c, req'[r].pc \in Refunding,
               \A q \in Reqs \ {r} : req'[q] = req[q]
        PROVE  RowStep(r, c)
    <2>1. Fits(req'[r], payment[c], order[c]) BY <1>k, <1>p, OwnBooking DEF Fits, Refunding
    <2>2. ~Carrying(r)' BY <1>k DEF Carrying, Carrier, Completing, Refunding
    <2>3. c \in Claimed BY <1>k, <1>p, OwnBooking, ClaimedOf
    <2> QED BY <1>k, <1>p, <2>1, <2>2, <2>3, KeepRow
  <1>1. ASSUME RefundRead(r) PROVE RowStep(r, c)
    <2>1. c \in Bookings /\ Settled(c)
      BY <1>1, BookedPoints DEF RefundRead, At, PayInv
    <2>2. c \in Claimed BY <2>1 DEF Claimed, Settled, Paid
    <2>3. /\ UNCHANGED <<payment, order>> /\ req'[r].b = c /\ req'[r].pc = "refund_provider"
          /\ \A q \in Reqs \ {r} : req'[q] = req[q]
      BY <1>1, Went DEF RefundRead
    <2>4. payment[c].provider # NONE
      BY <2>1, NoneAssumption DEF PayInv, RowFits, NoPayment, Settled, PaymentStatus
    <2>5. Fits(req'[r], payment[c], order[c]) BY <2>3, <2>4 DEF Fits
    <2>6. ~Carrying(r)' /\ req'[r].pc \notin Paying
      BY <2>3 DEF Carrying, Carrier, Completing, Paying
    <2>7. c \in Claimed' => c \in Claimed BY <2>2
    <2>8. Tallied(r, c) /\ Settles(r, c) BY <2>3, <2>6, <2>7 DEF Tallied, Settles
    <2>9. MoneyTaken' = MoneyTaken BY <2>3 DEF MoneyTaken
    <2> QED BY <2>1, <2>3, <2>5, <2>6, <2>8, <2>9 DEF RowStep, PayInv
  <1>2. ASSUME RefundProvider(r) PROVE RowStep(r, c)
    BY <1>2, <1>k, Went DEF RefundProvider, At, Refunding
  <1>3. ASSUME RefundRow(r) PROVE RowStep(r, c)
    BY <1>3, <1>k, Went DEF RefundRow, At, Refunding
  <1>4. ASSUME RefundUpdate(r) PROVE RowStep(r, c)
    <2> DEFINE s == IF req[r].amt >= Price THEN "REFUNDED" ELSE "PARTIALLY_REFUNDED"
    <2>0. req[r].pc \in Refunding BY <1>4 DEF RefundUpdate, At, Refunding
    <2>1. /\ c \in Bookings /\ payment[c].provider # NONE
          /\ \A q \in Reqs \ {r} : req[q].b = c => Fits(req[q], payment[c], order[c])
      BY <1>p, <2>0, OwnBooking
    <2>2. /\ order' = order /\ payment'[c].status = s
          /\ payment'[c].provider = payment[c].provider
          /\ payment'[c].captured = payment[c].captured
          /\ \A b \in Bookings \ {c} : payment'[b] = payment[b]
      <3>1. payment' = [payment EXCEPT ![c].status = s] /\ order' = order
        BY <1>4 DEF RefundUpdate, SetPayment
      <3> HIDE DEF s
      <3> QED BY <2>1, <3>1, StatusSet
    <2>3. s # "COMPLETED" OBVIOUS
    <2> HIDE DEF s
    <2>4. c \in Claimed BY <2>0, <2>1, ClaimedOf
    <2>5. \/ req'[r] = Idle
          \/ req'[r].b = c /\ req'[r].pc \in {"cancel_commit", "resolve_commit"}
      <3>1. req[r].ret \in {"idle", "cancel_commit", "resolve_commit"}
        BY DEF TypeInv, ReqInv, Request
      <3> QED BY <1>4, <3>1, Finished, Went DEF RefundUpdate
    <2>6. \A q \in Reqs \ {r} : req'[q] = req[q] BY <1>4, Finished, Went DEF RefundUpdate
    <2>7. /\ Fits(req'[r], payment'[c], order'[c]) /\ req'[r].b \in {c, NONE}
          /\ (req'[r].pc \in Booked => req'[r].b = c)
          /\ req'[r].pc \notin Paying /\ ~Carrying(r)'
      BY <2>5, IdleFits DEF Fits, Acting, Paying, Completing, Refunding, Carrying, Carrier
    <2>8. c \in Claimed' => c \in Claimed BY <2>4
    <2>9. Tallied(r, c) /\ Settles(r, c) BY <2>2, <2>3, <2>7, <2>8 DEF Tallied, Settles
    <2>10. MoneyTaken' = MoneyTaken BY <2>2 DEF MoneyTaken
    <2>11. \A q \in Reqs \ {r} : req[q].b = c => Fits(req[q], payment'[c], order'[c])
      BY <2>1, <2>2 DEF Fits
    <2> QED BY <2>1, <2>2, <2>6, <2>7, <2>9, <2>10, <2>11 DEF RowStep, RowFits, PayInv
  <1>5. ASSUME TransactionTimeout(r) PROVE Aloof(r) \/ RowStep(r, c)
    <2>1. CASE End(r) BY <2>1, ListingAloof
    <2>2. CASE req[r].pc \in RefundPoints /\ req' = [req EXCEPT ![r].ret = "idle"]
                 /\ UNCHANGED <<payment, order>>
      <3>1. req \in [Reqs -> Request] /\ req[r] \in Request BY DEF TypeInv, ReqInv
      <3>2. /\ req'[r].b = c /\ req'[r].pc = req[r].pc
            /\ \A q \in Reqs \ {r} : req'[q] = req[q]
        BY <2>2, <3>1 DEF Request
      <3>3. CASE req[r].pc \in Refunding BY <1>k, <2>2, <3>2, <3>3
      <3>4. CASE req[r].pc = "refund_read"
        BY <2>2, <3>2, <3>4, ElsewherePoints, BookedPoints DEF Aloof, PayInv
      <3> QED BY <2>2, <3>3, <3>4 DEF RefundPoints, Refunding
    <2> QED BY <1>5, <2>1, <2>2 DEF TransactionTimeout
  <1> QED BY <1>1, <1>2, <1>3, <1>4, <1>5

LEMMA GuestSteps == ASSUME TypeInv, PayInv, Guest PROVE PayInv' /\ Quiet
  <1> USE DEF property, money, wallets, Frame
  <1>1. PICK b \in Bookings : GuestApproves(b) \/ GuestPays(b) \/ GuestDeclines(b)
    BY DEF Guest
  <1>2. /\ UNCHANGED <<payment, req>> /\ order[b].state = "created"
        /\ payment[b].provider # NONE
        /\ order'[b].state \in {"approved", "captured", "failed"}
        /\ \A c \in Bookings \ {b} : order'[c] = order[c]
    BY <1>1, StateSet, NoneAssumption DEF GuestApproves, GuestPays, GuestDeclines, SetOrder, Providers
  <1>3. RowFits(payment[b], order[b])' BY <1>2 DEF RowFits
  <1>4. \A q \in Reqs : req[q].b = b => Fits(req[q], payment'[b], order'[b])
    BY <1>2 DEF PayInv, Fits
  <1>5. MoneyTaken => MoneyTaken' BY <1>2 DEF MoneyTaken
  <1>6. Carriers' = Carriers /\ Claimed' = Claimed /\ \A q \in Reqs : Carrying(q)' = Carrying(q)
    BY <1>2 DEF Carriers, Claimed, Carrying
  <1>7. Captured \subseteq Captured' /\ Captured' \subseteq Captured \cup {b}
    BY <1>2 DEF Captured
  <1>8. Quiet BY <1>6, <1>7 DEF Quiet
  <1>9. /\ \A q \in Reqs : (req[q].pc \in Booked => req[q].b \in Bookings)'
        /\ \A q \in Reqs : (req[q].b \in Bookings => Fits(req[q], payment[req[q].b], order[req[q].b]))'
        /\ \A c \in Bookings : RowFits(payment[c], order[c])'
        /\ \A q, s \in Reqs : (req[q].b \in Bookings => Alone(q, s))'
    BY <1>2, <1>3, <1>4 DEF PayInv, Alone
  <1>10. /\ \A q \in Reqs : Carrying(q)' => MoneyTaken'
         /\ \A c \in Bookings : payment'[c].captured => MoneyTaken'
    BY <1>2, <1>5, <1>6 DEF PayInv
  <1> QED BY <1>8, <1>9, <1>10 DEF PayInv

-----------------------------------------------------------------------------
(* The specification.                                                      *)

(* Every step leaves payments and orders alone, or is the guest's, or is   *)
(* one of PaymentsService at the payment it belongs to, or names one.      *)
LEMMA MoneySteps ==
    ASSUME TypeInv, PayInv, Next
    PROVE  \/ UNCHANGED <<payment, order, req>>
           \/ Guest
           \/ \E r \in Reqs : Aloof(r)
           \/ \E r \in Reqs, c \in Bookings : RowStep(r, c)
           \/ \E r \in Reqs, o, b \in Bookings : CapturePaypal(r, o, b) \/ PollMomo(r, o, b)
  <1> USE DEF property, money, wallets
  <1>0. ASSUME NEW r \in Reqs, req[r].pc \in Booked PROVE req[r].b \in Bookings
    BY <1>0 DEF PayInv
  <1>1. CASE Tick BY <1>1 DEF Tick
  <1>2. CASE Single
    BY <1>2 DEF Single, Approve, Suspend, SetListing, TouchProperty, Escalate, Unchanged
  <1>3. ASSUME NEW s \in Stays, Expire(s) PROVE UNCHANGED <<payment, order, req>>
    BY <1>3 DEF Expire, LockExpires
  <1>4. ASSUME NEW r \in Reqs, Arrive(r)
        PROVE  Aloof(r) \/ \E o, b \in Bookings : CapturePaypal(r, o, b) \/ PollMomo(r, o, b)
    <2>1. CASE \/ \E s \in Stays : AcquireLock(r, s)
               \/ \E s \in Blocks : BlockRead(r, s)
               \/ RemoveRead(r)
               \/ \E o \in Owners, a \in Amounts : WithdrawRead(r, o, a)
      BY <2>1, ListingAloof
    <2>2. ASSUME NEW b \in Bookings,
                 \/ ConfirmRead(r, b) \/ RejectRead(r, b) \/ CheckInRead(r, b)
                 \/ CheckOutRead(r, b) \/ CancelRead(r, b)
                 \/ PayRead(r, b) \/ DisputeRead(r, b)
                 \/ \E w \in {"GUEST", "HOST"}, a \in Amounts \cup {0} : ResolveRead(r, b, w, a)
          PROVE  Aloof(r)
      BY <2>2, ReadAloof
    <2> QED BY <1>4, <2>1, <2>2 DEF Arrive
  <1>5. ASSUME NEW r \in Reqs, Resume(r) \/ CreateAbort(r) \/ End(r) \/ TransactionTimeout(r)
                                \/ PayThrow(r)
        PROVE  Aloof(r) \/ \E c \in Bookings : RowStep(r, c)
    <2>1. CASE \/ CreateSnapshot(r) \/ (\E b \in Bookings : CreateCommit(r, b)) \/ CreateAbort(r)
               \/ ReleaseLock(r) \/ BlockWrite(r) \/ RemoveWrite(r) \/ WithdrawDebit(r) \/ End(r)
      BY <2>1, ListingAloof
    <2>2. CASE \/ ConfirmWrite(r) \/ RejectWrite(r) \/ CheckInWrite(r) \/ CheckOutCommit(r)
               \/ WriteHistory(r) \/ CancelUpdate(r) \/ CancelCommit(r)
               \/ DisputeCommit(r) \/ ResolveUpdate(r) \/ ResolveCommit(r)
      BY <2>2, WriteAloof
    <2>3. CASE \/ \E m \in Methods : PayInsert(r, m)
               \/ PayOrder(r) \/ PayCheck(r) \/ PayDebit(r) \/ PayUpdate(r)
               \/ PayLog(r) \/ PayThrow(r) \/ PayFailed(r)
      <3>1. req[r].pc \in Booked
        BY <2>3, BookedPoints DEF PayInsert, PayOrder, PayCheck, PayDebit, PayUpdate, PayLog,
                                  PayThrow, PayFailed, At, Paying
      <3>2. RowStep(r, req[r].b) BY <2>3, InitiateSteps
      <3> QED BY <1>0, <3>1, <3>2
    <2>4. CASE MomoFailed(r) \/ CompleteRead(r) \/ CompleteUpdate(r) \/ CompleteCommit(r)
      <3>1. req[r].pc \in Booked
        BY <2>4, BookedPoints
        DEF MomoFailed, CompleteRead, CompleteUpdate, CompleteCommit, At, Completing
      <3>2. Aloof(r) \/ RowStep(r, req[r].b) BY <2>4, CompleteSteps
      <3> QED BY <1>0, <3>1, <3>2
    <2>5. CASE RefundRead(r) \/ RefundProvider(r) \/ RefundRow(r) \/ RefundUpdate(r)
      <3>1. req[r].pc \in Booked
        BY <2>5, BookedPoints
        DEF RefundRead, RefundProvider, RefundRow, RefundUpdate, At, Refunding
      <3>2. Aloof(r) \/ RowStep(r, req[r].b) BY <2>5, RefundPaySteps
      <3> QED BY <1>0, <3>1, <3>2
    <2>6. CASE TransactionTimeout(r)
      <3>1. req[r].pc \in Booked
        BY <2>6 DEF TransactionTimeout, Booked, PayPoints, BookingPoints
      <3>2. Aloof(r) \/ RowStep(r, req[r].b) BY <2>6, RefundPaySteps
      <3> QED BY <1>0, <3>1, <3>2
    <2> QED BY <1>5, <2>1, <2>2, <2>3, <2>4, <2>5, <2>6 DEF Resume
  <1>6. ASSUME NEW r \in Reqs, Advance(r) \/ Fault(r)
        PROVE  Resume(r) \/ CreateAbort(r) \/ End(r) \/ TransactionTimeout(r) \/ PayThrow(r)
    BY <1>6 DEF Advance, Fault, Refused, Drop
  <1> QED BY <1>1, <1>2, <1>3, <1>4, <1>5, <1>6 DEF Next

LEMMA InitPay == ASSUME Init PROVE PayInv
  <1>1. \A q \in Reqs : req[q].b \notin Bookings /\ req[q].pc \notin Booked
    BY Unbooked, NoneAssumption DEF Init, Idle, OtherPoints
  <1>2. \A b \in Bookings : RowFits(payment[b], order[b])
    BY DEF Init, RowFits
  <1>3. \A q \in Reqs : ~Carrying(q)
    BY DEF Init, Idle, Carrying, Carrier, Completing
  <1>4. \A b \in Bookings : ~payment[b].captured BY DEF Init, NoPayment
  <1> QED BY <1>1, <1>2, <1>3, <1>4 DEF PayInv

LEMMA NextPay == ASSUME TypeInv, PayInv, [Next]_vars PROVE PayInv'
  <1>1. CASE UNCHANGED <<payment, order, req>>
    <2>1. MoneyTaken' = MoneyTaken /\ \A q \in Reqs : Carrying(q)' = Carrying(q)
      BY <1>1 DEF MoneyTaken, Carrying
    <2> QED BY <1>1, <2>1 DEF PayInv, Alone
  <1>2. CASE UNCHANGED vars BY <1>1, <1>2 DEF vars, money
  <1>3. CASE Next
    BY <1>1, <1>3, MoneySteps, GuestSteps, AloofStep, RowStepHolds, CaptureStep, PollStep
  <1> QED BY <1>2, <1>3

(* What every handler of PaymentsService relies on when it writes.         *)
THEOREM PaymentsCorrect == Spec => []PayInv
  <1>1. Init => PayInv BY InitPay
  <1>2. TypeInv /\ PayInv /\ [Next]_vars => PayInv' BY NextPay
  <1> QED BY <1>1, <1>2, TypeCorrect, PTL DEF Spec

-----------------------------------------------------------------------------
(* Captures and completions.                                               *)

NoMomo == \A b \in Bookings : payment[b].provider # "MTN_MOMO"

Counted == IsFiniteSet(Captured) /\ IsFiniteSet(Claimed)

(* A capture pays for one payment, claimed or about to be.                 *)
CountInv ==
    NoMomo => /\ Counted
              /\ Cardinality(Claimed) + Cardinality(Carriers) <= Cardinality(Captured)

(* A provider is never changed.                                            *)
LEMMA ProviderStays ==
    ASSUME TypeInv, PayInv, Next, NEW b \in Bookings
    PROVE  payment[b].provider \in {payment'[b].provider, NONE}
  <1>1. CASE payment' = payment BY <1>1
  <1>2. ASSUME NEW r \in Reqs, NEW c \in Bookings, RowStep(r, c)
        PROVE  payment[b].provider \in {payment'[b].provider, NONE}
    BY <1>2 DEF RowStep
  <1>3. ASSUME Guest PROVE payment' = payment
    BY <1>3 DEF Guest, GuestApproves, GuestPays, GuestDeclines, SetOrder
  <1>4. ASSUME NEW r \in Reqs, NEW o \in Bookings, NEW c \in Bookings,
               CapturePaypal(r, o, c) \/ PollMomo(r, o, c)
        PROVE  payment' = payment
    BY <1>4 DEF CapturePaypal, PollMomo, money
  <1>5. ASSUME NEW r \in Reqs, Aloof(r) PROVE payment' = payment
    BY <1>5 DEF Aloof
  <1> QED BY <1>1, <1>2, <1>3, <1>4, <1>5, MoneySteps

LEMMA AddOne ==
    ASSUME NEW S, IsFiniteSet(S), NEW x
    PROVE  /\ IsFiniteSet(S \cup {x})
           /\ Cardinality(S \cup {x}) \in Nat
           /\ Cardinality(S \cup {x}) <= Cardinality(S) + 1
  <1>1. IsFiniteSet(S \cup {x}) BY FS_AddElement
  <1>2. Cardinality(S \cup {x}) \in Nat /\ Cardinality(S) \in Nat
    BY <1>1, FS_CardinalityType
  <1>3. CASE x \in S
    <2>1. S \cup {x} = S BY <1>3
    <2> QED BY <1>1, <1>2, <2>1
  <1>4. CASE x \notin S
    <2>1. Cardinality(S \cup {x}) = Cardinality(S) + 1 BY <1>4, FS_AddElement
    <2> QED BY <1>1, <1>2, <2>1
  <1> QED BY <1>3, <1>4

LEMMA CountSteps ==
    ASSUME TypeInv, PayInv, Next, NoMomo'
    PROVE  Quiet \/ \E r \in Reqs : Gains(r) \/ Spends(r)
  <1>1. CASE UNCHANGED <<payment, order, req>>
    <2>1. Carriers' = Carriers /\ Claimed' = Claimed /\ Captured' = Captured
      BY <1>1 DEF Carriers, Carrying, Claimed, Captured
    <2> QED BY <2>1 DEF Quiet
  <1>2. ASSUME NEW r \in Reqs, NEW o \in Bookings, NEW b \in Bookings, PollMomo(r, o, b)
        PROVE  FALSE
    BY <1>2, PollStep DEF NoMomo
  <1> QED BY <1>1, <1>2, MoneySteps, GuestSteps, AloofStep, RowStepCounts, CaptureStep

(* How the three numbers change.                                           *)
LEMMA CarriersFinite ==
    IsFiniteSet(Carriers) /\ Cardinality(Carriers) \in Nat
  <1>1. Carriers \subseteq Reqs BY DEF Carriers
  <1> QED BY <1>1, ReqsAssumption, FS_Subset, FS_CardinalityType

LEMMA CarriersFiniteNext ==
    IsFiniteSet(Carriers') /\ Cardinality(Carriers') \in Nat
  <1>1. Carriers' \subseteq Reqs BY DEF Carriers
  <1> QED BY <1>1, ReqsAssumption, FS_Subset, FS_CardinalityType

LEMMA QuietCounts ==
    ASSUME Counted, Quiet
    PROVE  /\ Counted'
           /\ Cardinality(Claimed') <= Cardinality(Claimed)
           /\ Cardinality(Carriers') <= Cardinality(Carriers)
           /\ Cardinality(Captured') >= Cardinality(Captured)
  <1> USE DEF Counted
  <1>1. PICK x : Captured' \subseteq Captured \cup {x} BY DEF Quiet
  <1>2. IsFiniteSet(Captured \cup {x}) BY AddOne
  <1>3. IsFiniteSet(Captured') BY <1>1, <1>2, FS_Subset
  <1>4. Cardinality(Captured) <= Cardinality(Captured') BY <1>3, FS_Subset DEF Quiet
  <1>5. /\ IsFiniteSet(Claimed') /\ Cardinality(Claimed') <= Cardinality(Claimed)
        /\ Cardinality(Carriers') <= Cardinality(Carriers)
    BY CarriersFinite, FS_Subset DEF Quiet
  <1>6. Cardinality(Captured') \in Nat /\ Cardinality(Captured) \in Nat
    BY <1>3, FS_CardinalityType
  <1> QED BY <1>3, <1>4, <1>5, <1>6

LEMMA GainsCounts ==
    ASSUME Counted, NEW r \in Reqs, Gains(r)
    PROVE  /\ Counted'
           /\ Cardinality(Claimed') <= Cardinality(Claimed)
           /\ Cardinality(Carriers') <= Cardinality(Carriers) + 1
           /\ Cardinality(Captured') = Cardinality(Captured) + 1
  <1> USE DEF Counted
  <1>1. PICK x : x \notin Captured /\ Captured' = Captured \cup {x} BY DEF Gains
  <1>2. IsFiniteSet(Captured') /\ Cardinality(Captured') = Cardinality(Captured) + 1
    BY <1>1, FS_AddElement
  <1>3. /\ IsFiniteSet(Carriers \cup {r})
        /\ Cardinality(Carriers \cup {r}) <= Cardinality(Carriers) + 1
        /\ Cardinality(Carriers \cup {r}) \in Nat
    BY CarriersFinite, AddOne
  <1>4. Cardinality(Carriers') <= Cardinality(Carriers \cup {r})
    BY <1>3, FS_Subset DEF Gains
  <1>5. IsFiniteSet(Claimed') /\ Cardinality(Claimed') <= Cardinality(Claimed)
    BY FS_Subset DEF Gains
  <1> QED BY <1>2, <1>3, <1>4, <1>5, CarriersFinite, CarriersFiniteNext

LEMMA SpendsCounts ==
    ASSUME Counted, NEW r \in Reqs, Spends(r)
    PROVE  /\ Counted'
           /\ Cardinality(Claimed') <= Cardinality(Claimed) + 1
           /\ Cardinality(Carriers') <= Cardinality(Carriers) - 1
           /\ Cardinality(Captured') = Cardinality(Captured)
  <1> USE DEF Counted
  <1>1. PICK x : Claimed' \subseteq Claimed \cup {x} BY DEF Spends
  <1>2. /\ IsFiniteSet(Claimed \cup {x})
        /\ Cardinality(Claimed \cup {x}) <= Cardinality(Claimed) + 1
        /\ Cardinality(Claimed \cup {x}) \in Nat
    BY AddOne
  <1>3. IsFiniteSet(Claimed') /\ Cardinality(Claimed') <= Cardinality(Claimed \cup {x})
    BY <1>1, <1>2, FS_Subset
  <1>4. Cardinality(Claimed') \in Nat /\ Cardinality(Claimed) \in Nat
    BY <1>3, FS_CardinalityType
  <1>5. /\ IsFiniteSet(Carriers \ {r})
        /\ Cardinality(Carriers \ {r}) = Cardinality(Carriers) - 1
    BY CarriersFinite, FS_RemoveElement DEF Spends
  <1>6. Cardinality(Carriers') <= Cardinality(Carriers \ {r})
    BY <1>5, FS_Subset DEF Spends
  <1>7. Captured' = Captured BY DEF Spends
  <1> QED BY <1>2, <1>3, <1>4, <1>5, <1>6, <1>7

LEMMA CountsMove ==
    ASSUME TypeInv, PayInv, CountInv, Next, NoMomo'
    PROVE  Counted' /\ Cardinality(Claimed') + Cardinality(Carriers') <= Cardinality(Captured')
  <1>1. NoMomo
    BY ProviderStays, NoneAssumption DEF NoMomo, Providers
  <1>2. Counted /\ Cardinality(Claimed) + Cardinality(Carriers) <= Cardinality(Captured)
    BY <1>1 DEF CountInv
  <1>3. /\ Cardinality(Captured) \in Nat /\ Cardinality(Claimed) \in Nat
        /\ Cardinality(Carriers) \in Nat /\ Cardinality(Carriers') \in Nat
        /\ Counted' => Cardinality(Captured') \in Nat /\ Cardinality(Claimed') \in Nat
    BY <1>2, CarriersFinite, CarriersFiniteNext, FS_CardinalityType DEF Counted
  <1> QED BY <1>2, <1>3, CountSteps, QuietCounts, GainsCounts, SpendsCounts

THEOREM CountsCorrect == Spec => []CountInv
  <1>1. Init => CountInv
    <2> SUFFICES ASSUME Init PROVE CountInv OBVIOUS
    <2>1. Carriers = {} BY DEF Init, Carriers, Carrying, Carrier, Idle, Completing
    <2>2. Claimed = {}
      BY UnpaidStatuses DEF Init, Claimed, NoPayment, Idle, Refunding
    <2>3. Captured = {} BY DEF Init, Captured, NoOrder
    <2> QED BY <2>1, <2>2, <2>3, FS_EmptySet DEF CountInv, Counted
  <1>2. TypeInv /\ PayInv /\ CountInv /\ [Next]_vars => CountInv'
    <2>1. ASSUME CountInv, UNCHANGED vars PROVE CountInv'
      <3>1. /\ Carriers' = Carriers /\ Claimed' = Claimed /\ Captured' = Captured
            /\ NoMomo' = NoMomo
        BY <2>1 DEF vars, money, Carriers, Carrying, Claimed, Captured, NoMomo
      <3> QED BY <2>1, <3>1 DEF CountInv, Counted
    <2>2. TypeInv /\ PayInv /\ CountInv /\ Next => CountInv' BY CountsMove DEF CountInv
    <2> QED BY <2>1, <2>2
  <1> QED BY <1>1, <1>2, TypeCorrect, PaymentsCorrect, PTL DEF Spec

(* As long as nobody pays by MoMo, no more payments are complete or        *)
(* refunded than orders were captured and wallets debited, though nothing  *)
(* ties an order to the payment that its capture completes.                *)
THEOREM PaymentsNeedCapturesHolds == Spec => []PaymentsNeedCaptures
  <1>1. CountInv => PaymentsNeedCaptures
    <2> SUFFICES ASSUME CountInv, NoMomo
                 PROVE  Cardinality(PaidBookings) <= Cardinality(Captured)
      BY DEF PaymentsNeedCaptures, NoMomo
    <2>1. /\ IsFiniteSet(Captured) /\ IsFiniteSet(Claimed)
          /\ Cardinality(Claimed) + Cardinality(Carriers) <= Cardinality(Captured)
      BY DEF CountInv, Counted
    <2>2. Carriers \subseteq Reqs BY DEF Carriers
    <2>3. Cardinality(Carriers) \in Nat
      BY <2>2, ReqsAssumption, FS_Subset, FS_CardinalityType
    <2>4. PaidBookings \subseteq Claimed BY DEF PaidBookings, Claimed
    <2>5. IsFiniteSet(PaidBookings) /\ Cardinality(PaidBookings) <= Cardinality(Claimed)
      BY <2>1, <2>4, FS_Subset
    <2>6. /\ Cardinality(PaidBookings) \in Nat /\ Cardinality(Claimed) \in Nat
          /\ Cardinality(Captured) \in Nat
      BY <2>1, <2>5, FS_CardinalityType
    <2> QED BY <2>1, <2>3, <2>5, <2>6
  <1> QED BY <1>1, CountsCorrect, PTL
=============================================================================
