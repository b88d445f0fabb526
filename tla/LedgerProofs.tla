----------------------------- MODULE LedgerProofs -----------------------------
(***************************************************************************)
(* The sums of money add up, in every instance: what refund rows claim was *)
(* given back, a wallet is overdrawn by no more than what is in flight,    *)
(* and the host gets hostPayout at least once per payment that counts and  *)
(* at most once per capture.                                               *)
(*                                                                         *)
(* Amounts are moved in two steps: a provider pays a refund before its row *)
(* is written, a balance is checked before it is debited.  The invariants  *)
(* therefore count the handlers between the two.  Users and admins type in *)
(* amounts of any sign: SignInv says where a negative one can come from.   *)
(***************************************************************************)
EXTENDS PaymentProofs

(* The points between the two steps.                                       *)
Midway == {"pay_debit", "withdraw_debit", "refund_row"}

(* A booking once disputed stays so.                                       *)
DisputesStay == \A b \in Bookings : dispute'[b] = NONE => dispute[b] = NONE

(* A handler moves a negative amount only for a booking in dispute, or      *)
(* for none.                                                               *)
Signed(q) == q.b \in Bookings /\ q.amt < 0 => dispute[q.b] # NONE
SignInv   == \A q \in Reqs : Signed(req[q])

(* The handler in slot r moves no money and is not midway, or still is     *)
(* where it was; and it has the amount it had, or one of the right sign.   *)
Still(r) ==
    /\ Signed(req[r])' \/ (req'[r].b = req[r].b /\ req'[r].amt = req[r].amt)
    /\ UNCHANGED <<refunded, returned, balance, pending, withdrawn>>
    /\ DisputesStay
    /\ \A q \in Reqs \ {r} : req'[q] = req[q]
    /\ req'[r].pc \in Midway => /\ req'[r].pc = req[r].pc /\ req'[r].b = req[r].b
                                /\ req'[r].amt = req[r].amt /\ req'[r].arg = req[r].arg

(* The handlers that move money, or are about to.                          *)
Moving(r) ==
    \/ PayCheck(r) \/ PayDebit(r) \/ WithdrawDebit(r)
    \/ RefundProvider(r) \/ RefundRow(r)
    \/ CompleteCommit(r) \/ CheckOutCommit(r) \/ DisputeCommit(r) \/ ResolveCommit(r)
    \/ "withdraw" \in Exposed /\ \E o \in Owners, a \in Amounts : WithdrawRead(r, o, a)

-----------------------------------------------------------------------------
(* Every other step leaves the money alone.                                *)

LEMMA LeftMidway ==
    ASSUME NEW r, UNCHANGED <<refunded, returned, balance, pending, withdrawn, dispute>>,
           \A q \in Reqs \ {r} : req'[q] = req[q], req'[r].pc \notin Midway,
           Signed(req[r])' \/ (req'[r].b = req[r].b /\ req'[r].amt = req[r].amt)
    PROVE  Still(r)
  BY DEF Still, DisputesStay

LEMMA StartStill ==
    ASSUME TypeInv, NEW r \in Reqs, NEW q, Start(r, q), q.pc \notin Midway,
           Signed(q), UNCHANGED <<refunded, returned, balance, pending, withdrawn, dispute>>
    PROVE  Still(r)
  <1>1. Signed(req[r])' BY Started DEF Signed
  <1> QED BY <1>1, Started, LeftMidway

LEMMA NatSigned == \A q : q.amt \in Nat => Signed(q)
  BY DEF Signed

LEMMA IdleSigned == Idle.amt \in Nat /\ \A b, p : Read(b, p).amt \in Nat
  BY DEF Idle, Read

LEMMA FinishStill ==
    ASSUME TypeInv, NEW r \in Reqs, Finish(r),
           UNCHANGED <<refunded, returned, balance, pending, withdrawn, dispute>>
    PROVE  Still(r)
  <1>1. Signed(req[r])' BY Finished, NoneAssumption DEF Signed
  <1> QED BY <1>1, Finished, LeftMidway DEF Midway

LEMMA GotoStill ==
    ASSUME TypeInv, NEW r \in Reqs, NEW p, Goto(r, p), p \notin Midway,
           UNCHANGED <<refunded, returned, balance, pending, withdrawn, dispute>>
    PROVE  Still(r)
  BY Went, LeftMidway

LEMMA ArriveStill ==
    ASSUME TypeInv, NEW r \in Reqs, Arrive(r)
    PROVE  Still(r) \/ Moving(r)
  <1> USE DEF property, money, wallets, ReadOnly, Unchanged, Frame, Midway
  <1>p. Price \in Nat BY MoneyAssumption
  <1>s. ASSUME NEW q, Start(r, q), q.pc \notin Midway, q.amt \in Nat,
               UNCHANGED <<refunded, returned, balance, pending, withdrawn, dispute>>
        PROVE  Still(r)
    BY <1>s, StartStill, NatSigned
  <1>1. ASSUME NEW s \in Stays, AcquireLock(r, s) PROVE Still(r)
    BY <1>1, <1>s DEF AcquireLock, Idle
  <1>2. ASSUME NEW s \in Blocks, BlockRead(r, s) PROVE Still(r)
    BY <1>2, <1>s DEF BlockRead, Idle
  <1>3. CASE RemoveRead(r) BY <1>3, <1>s DEF RemoveRead, Idle
  <1>4. ASSUME NEW b \in Bookings,
               ConfirmRead(r, b) \/ RejectRead(r, b) \/ CheckInRead(r, b) \/ CheckOutRead(r, b)
        PROVE  Still(r)
    BY <1>4, <1>p, <1>s DEF ConfirmRead, RejectRead, CheckInRead, CheckOutRead, Read, Idle
  <1>8. ASSUME NEW b \in Bookings, CancelRead(r, b) PROVE Still(r)
    <2>1. PICK n : n = CancellationRefund(bookings[b].stay) OBVIOUS
    <2>2. n \in Nat BY <2>1, RefundNat
    <2>3. PICK q : q = [Read(b, "cancel_update") EXCEPT !.amt = n] OBVIOUS
    <2>4. q.pc = "cancel_update" /\ q.amt = n BY <2>3 DEF Read, Idle
    <2>5. Start(r, q) BY <1>8, <2>1, <2>3 DEF CancelRead
    <2> QED BY <1>8, <1>s, <2>2, <2>4, <2>5 DEF CancelRead
  <1>5. ASSUME NEW b \in Bookings, PayRead(r, b) \/ DisputeRead(r, b) PROVE Still(r)
    BY <1>5, <1>s DEF PayRead, DisputeRead, Read, Idle
  <1>6. ASSUME NEW o \in Bookings, NEW b \in Bookings, CapturePaypal(r, o, b) \/ PollMomo(r, o, b)
        PROVE  Still(r)
    BY <1>6, <1>s DEF CapturePaypal, PollMomo, Idle
  <1>7. ASSUME NEW b \in Bookings, NEW w \in {"GUEST", "HOST"}, NEW a \in Amounts \cup {0},
               ResolveRead(r, b, w, a)
        PROVE  Still(r)
    <2>1. PICK n : n = IF w = "HOST" \/ payment[b] = NoPayment THEN 0 ELSE a OBVIOUS
    <2>2. n \in Int BY <2>1, MoneyAssumption
    <2>3. PICK q : q = [Read(b, "resolve_update") EXCEPT !.arg = w, !.amt = n] OBVIOUS
    <2>4. q.pc = "resolve_update" /\ q.amt = n /\ q.b = b BY <2>3 DEF Read, Idle
    <2>5. Start(r, q) /\ dispute[b] # NONE BY <1>7, <2>1, <2>3 DEF ResolveRead
    <2>6. Signed(q) BY <2>2, <2>4, <2>5 DEF Signed
    <2> QED BY <1>7, <2>4, <2>5, <2>6, StartStill DEF ResolveRead
  <1> QED BY <1>1, <1>2, <1>3, <1>4, <1>5, <1>6, <1>7, <1>8 DEF Arrive, Moving

LEMMA ResumeStill ==
    ASSUME TypeInv, NEW r \in Reqs,
           Resume(r) \/ CreateAbort(r) \/ End(r) \/ PayThrow(r) \/ TransactionTimeout(r)
    PROVE  Still(r) \/ Moving(r)
  <1> USE DEF property, money, wallets, ReadOnly, Unchanged, Frame, Midway, OnlyBooking
  <1>t. req \in [Reqs -> Request] /\ req[r] \in Request BY DEF TypeInv, ReqInv
  <1>1. CASE \/ CreateSnapshot(r) \/ CreateAbort(r) \/ (\E b \in Bookings : CreateCommit(r, b))
    BY <1>1, GotoStill DEF CreateSnapshot, CreateAbort, CreateCommit
  <1>2. CASE ReleaseLock(r) \/ BlockWrite(r) \/ RemoveWrite(r) \/ End(r)
    BY <1>2, FinishStill DEF ReleaseLock, BlockWrite, RemoveWrite, End
  <1>3. CASE ConfirmWrite(r) \/ RejectWrite(r) \/ WriteHistory(r)
    BY <1>3, FinishStill, GotoStill
    DEF ConfirmWrite, RejectWrite, WriteHistory, UpdateBookingStatus
  <1>4. CASE CheckInWrite(r)
    <2>1. req' = [req EXCEPT ![r].pc = "write_history", ![r].arg = "CHECKED_IN"]
      BY <1>4 DEF CheckInWrite
    <2>2. /\ req'[r].pc = "write_history" /\ req'[r].b = req[r].b /\ req'[r].amt = req[r].amt
          /\ \A q \in Reqs \ {r} : req'[q] = req[q]
      BY <1>t, <2>1 DEF Request
    <2> QED BY <1>4, <2>2, LeftMidway DEF CheckInWrite
  <1>13. CASE CancelCommit(r)
    <2>1. req' = [req EXCEPT ![r].pc = "write_history", ![r].arg = "CANCELLED", ![r].ret = "idle"]
      BY <1>13 DEF CancelCommit
    <2>2. /\ req'[r].pc = "write_history" /\ req'[r].b = req[r].b /\ req'[r].amt = req[r].amt
          /\ \A q \in Reqs \ {r} : req'[q] = req[q]
      BY <1>t, <2>1 DEF Request
    <2> QED BY <1>13, <2>2, LeftMidway DEF CancelCommit
  <1>5. CASE CancelUpdate(r)
    <2> DEFINE p == IF req[r].paid /\ req[r].amt > 0 THEN "refund_read" ELSE "cancel_commit"
    <2>1. p \notin Midway OBVIOUS
    <2>2. req' = [req EXCEPT ![r].ret = "cancel_commit", ![r].pc = p] BY <1>5 DEF CancelUpdate
    <2> HIDE DEF p
    <2>3. /\ req'[r].pc = p /\ req'[r].b = req[r].b /\ req'[r].amt = req[r].amt
          /\ \A q \in Reqs \ {r} : req'[q] = req[q]
      BY <1>t, <2>2 DEF Request
    <2> QED BY <1>5, <2>1, <2>3, LeftMidway DEF CancelUpdate
  <1>6. CASE ResolveUpdate(r)
    <2> DEFINE p == IF req[r].amt # 0 THEN "refund_read" ELSE "resolve_commit"
    <2>1. p \notin Midway OBVIOUS
    <2>2. req' = [req EXCEPT ![r].ret = "resolve_commit", ![r].pc = p] BY <1>6 DEF ResolveUpdate
    <2> HIDE DEF p
    <2>3. /\ req'[r].pc = p /\ req'[r].b = req[r].b /\ req'[r].amt = req[r].amt
          /\ \A q \in Reqs \ {r} : req'[q] = req[q]
      BY <1>t, <2>2 DEF Request
    <2> QED BY <1>6, <2>1, <2>3, LeftMidway DEF ResolveUpdate
  <1>7. CASE (\E m \in Methods : PayInsert(r, m)) \/ PayOrder(r) \/ PayUpdate(r)
    <2>1. CASE PayUpdate(r)
      <3>1. /\ Goto(r, "pay_log")
            /\ UNCHANGED <<refunded, returned, balance, pending, withdrawn, dispute>>
        BY <2>1, Zenon DEF PayUpdate
      <3> QED BY <3>1, GotoStill
    <2>2. ASSUME NEW m \in Methods, PayInsert(r, m) PROVE Still(r)
      <3>1. PICK p \in {"pay_check", "pay_order"} : Goto(r, p) BY <2>2 DEF PayInsert
      <3> QED BY <2>2, <3>1, GotoStill DEF PayInsert
    <2>3. CASE PayOrder(r) BY <2>3, GotoStill DEF PayOrder
    <2> QED BY <1>7, <2>1, <2>2, <2>3
  <1>8. CASE PayLog(r) \/ PayFailed(r) \/ PayThrow(r)
    BY <1>8, FinishStill, GotoStill DEF PayLog, PayFailed, PayThrow, SetPayment
  <1>9. CASE CompleteRead(r)
    <2>1. CASE Finish(r) BY <1>9, <2>1, FinishStill DEF CompleteRead
    <2>2. CASE req' = [req EXCEPT ![r] = Read(req[r].b, "complete_update")]
      <3>1. PICK q : q = Read(req[r].b, "complete_update") OBVIOUS
      <3>2. q.pc = "complete_update" /\ q.amt = 0 BY <3>1 DEF Read, Idle
      <3>3. req'[r] = q /\ \A s \in Reqs \ {r} : req'[s] = req[s] BY <2>2, <3>1, SetReq
      <3>4. Signed(req[r])' BY <3>2, <3>3 DEF Signed
      <3> QED BY <1>9, <3>2, <3>3, <3>4, LeftMidway DEF CompleteRead
    <2> QED BY <1>9, <2>1, <2>2 DEF CompleteRead
  <1>10. CASE CompleteUpdate(r) \/ MomoFailed(r) \/ RefundRead(r)
    BY <1>10, FinishStill, GotoStill DEF CompleteUpdate, MomoFailed, RefundRead, SetPayment
  <1>11. CASE RefundUpdate(r)
    <2>1. req[r].ret \notin Midway BY <1>t DEF Request
    <2> QED BY <1>11, <2>1, FinishStill, GotoStill DEF RefundUpdate, SetPayment
  <1>12. CASE TransactionTimeout(r)
    <2>1. CASE req' = [req EXCEPT ![r].ret = "idle"]
                 /\ UNCHANGED <<refunded, returned, balance, pending, withdrawn, dispute>>
      <3>1. /\ \A q \in Reqs \ {r} : req'[q] = req[q]
            /\ req'[r].pc = req[r].pc /\ req'[r].b = req[r].b
            /\ req'[r].amt = req[r].amt /\ req'[r].arg = req[r].arg
        BY <1>t, <2>1 DEF Request
      <3> QED BY <2>1, <3>1 DEF Still, DisputesStay
    <2> QED BY <1>2, <1>12, <2>1 DEF TransactionTimeout
  <1> QED BY <1>1, <1>2, <1>3, <1>4, <1>5, <1>6, <1>7, <1>8, <1>9, <1>10, <1>11, <1>12,
        <1>13
     DEF Resume, Moving

LEMMA LedgerSteps ==
    ASSUME TypeInv, Next
    PROVE  \/ UNCHANGED <<refunded, returned, balance, pending, withdrawn, req>> /\ DisputesStay
           \/ \E r \in Reqs : Still(r) \/ Moving(r)
  <1> USE DEF property, money, wallets, DisputesStay
  <1>1. CASE Tick BY <1>1 DEF Tick
  <1>2. CASE Single
    <2>1. ASSUME NEW b \in Bookings, Escalate(b) PROVE DisputesStay
      BY <2>1, NoneAssumption DEF Escalate, TypeInv, TypeOK, DisputeStatus
    <2> QED BY <1>2, <2>1
        DEF Single, Approve, Suspend, SetListing, TouchProperty, Escalate, Unchanged
  <1>3. CASE Guest
    BY <1>3 DEF Guest, GuestApproves, GuestPays, GuestDeclines, SetOrder, Frame
  <1>4. ASSUME NEW s \in Stays, Expire(s)
        PROVE  UNCHANGED <<refunded, returned, balance, pending, withdrawn, req>> /\ DisputesStay
    BY <1>4 DEF Expire, LockExpires
  <1>5. ASSUME NEW r \in Reqs, Arrive(r) \/ Advance(r) \/ Fault(r)
        PROVE  Still(r) \/ Moving(r)
    BY <1>5, ArriveStill, ResumeStill DEF Advance, Fault, Refused, Drop
  <1> QED BY <1>1, <1>2, <1>3, <1>4, <1>5 DEF Next

-----------------------------------------------------------------------------
(* Where a negative amount comes from.                                     *)

LEMMA SignStep == ASSUME TypeInv, SignInv, Next PROVE SignInv' /\ DisputesStay
  <1> USE DEF property, money, wallets
  <1>s. ASSUME DisputesStay, NEW r \in Reqs, \A q \in Reqs \ {r} : req'[q] = req[q],
               Signed(req[r])' \/ (req'[r].b = req[r].b /\ req'[r].amt = req[r].amt)
        PROVE  SignInv'
    <2>1. ASSUME NEW q \in Reqs, Signed(req[q]), req'[q].b = req[q].b, req'[q].amt = req[q].amt
          PROVE  Signed(req[q])'
      BY <1>s, <2>1 DEF Signed, DisputesStay
    <2>2. \A q \in Reqs \ {r} : Signed(req[q])' BY <1>s, <2>1 DEF SignInv
    <2>3. Signed(req[r])' BY <1>s, <2>1 DEF SignInv
    <2> QED BY <2>2, <2>3 DEF SignInv
  <1>1. ASSUME NEW r \in Reqs, DisputeCommit(r) \/ ResolveCommit(r)
        PROVE  SignInv' /\ DisputesStay
    <2>1. DisputesStay
      BY <1>1, NoneAssumption
      DEF DisputeCommit, ResolveCommit, DisputesStay, TypeInv, TypeOK, DisputeStatus
    <2>2. Signed(req[r])'
      BY <1>1, Finished, NoneAssumption DEF DisputeCommit, ResolveCommit, Signed
    <2> QED BY <1>1, <1>s, <2>1, <2>2, Finished DEF DisputeCommit, ResolveCommit
  <1>2. ASSUME NEW r \in Reqs, Moving(r), ~DisputeCommit(r), ~ResolveCommit(r)
        PROVE  SignInv' /\ DisputesStay
    <2>1. DisputesStay
      <3>1. ASSUME NEW o \in Owners, NEW a \in Amounts, WithdrawRead(r, o, a)
            PROVE  dispute' = dispute
        BY <3>1 DEF WithdrawRead
      <3> QED BY <1>2, <3>1
          DEF DisputesStay, Moving, PayCheck, PayDebit, WithdrawDebit, RefundProvider,
              RefundRow, CompleteCommit, CheckOutCommit, Frame
    <2>2. CASE WithdrawDebit(r) \/ CompleteCommit(r)
      <3>1. Signed(req[r])'
        BY <2>2, Finished, NoneAssumption DEF WithdrawDebit, CompleteCommit, Signed
      <3> QED BY <1>s, <2>1, <2>2, <3>1, Finished DEF WithdrawDebit, CompleteCommit
    <2>3. CASE PayCheck(r) \/ PayDebit(r) \/ RefundProvider(r) \/ RefundRow(r)
      BY <1>s, <2>1, <2>3, Went DEF PayCheck, PayDebit, RefundProvider, RefundRow
    <2>4. CASE CheckOutCommit(r)
      <3>1. req \in [Reqs -> Request] /\ req[r] \in Request BY DEF TypeInv, ReqInv
      <3>2. /\ req'[r].b = req[r].b /\ req'[r].amt = req[r].amt
            /\ \A q \in Reqs \ {r} : req'[q] = req[q]
        BY <2>4, <3>1 DEF CheckOutCommit, Request
      <3> QED BY <1>s, <2>1, <3>2
    <2>5. ASSUME NEW o \in Owners, NEW a \in Amounts, WithdrawRead(r, o, a)
          PROVE  SignInv' /\ DisputesStay
      <3>1. PICK q : q = [Idle EXCEPT !.pc = "withdraw_debit", !.arg = o, !.amt = a] OBVIOUS
      <3>2. q.b = NONE BY <3>1 DEF Idle
      <3>3. Signed(req[r])' BY <2>5, <3>1, <3>2, Started, NoneAssumption DEF WithdrawRead, Signed
      <3> QED BY <1>s, <2>1, <2>5, <3>1, <3>3, Started DEF WithdrawRead
    <2> QED BY <1>2, <2>2, <2>3, <2>4, <2>5 DEF Moving
  <1>3. ASSUME NEW r \in Reqs, Still(r) PROVE SignInv' /\ DisputesStay
    BY <1>3, <1>s DEF Still
  <1>4. ASSUME UNCHANGED req, DisputesStay PROVE SignInv'
    BY <1>4 DEF SignInv, Signed, DisputesStay
  <1> QED BY <1>1, <1>2, <1>3, <1>4, LedgerSteps

(* Only an admin who resolves a dispute moves a negative amount.           *)
THEOREM SignsCorrect == Spec => []SignInv
  <1>1. Init => SignInv
    BY NoneAssumption DEF Init, SignInv, Signed, Idle
  <1>2. TypeInv /\ SignInv /\ [Next]_vars => SignInv'
    <2>1. UNCHANGED vars /\ SignInv => SignInv' BY DEF vars, SignInv, Signed
    <2> QED BY <2>1, SignStep
  <1> QED BY <1>1, <1>2, TypeCorrect, PTL DEF Spec

-----------------------------------------------------------------------------
(* The host's payouts.                                                     *)

(* What HostCreditedOnce supposes.                                         *)
OnlyPaypal ==
    \A b \in Bookings : dispute[b] = NONE /\ payment[b].provider \in {"PAYPAL", NONE}

(* All that the host was ever credited with.                               *)
Credit == pending + balance["host"] + withdrawn

HostInv ==
    OnlyPaypal =>
        /\ HostPayout * Cardinality(Claimed) <= Credit
        /\ Credit + HostPayout * Cardinality(Carriers) <= HostPayout * Cardinality(Captured)

(* Who had a dispute or another provider keeps it.                         *)
LEMMA OnlyPaypalBefore ==
    ASSUME TypeInv, SignInv, PayInv, Next, OnlyPaypal' PROVE OnlyPaypal
  <1>1. DisputesStay BY SignStep
  <1>2. \A b \in Bookings : payment[b].provider \in {payment'[b].provider, NONE}
    BY ProviderStays
  <1> QED BY <1>1, <1>2 DEF OnlyPaypal, DisputesStay

LEMMA OnlyPaypalNoMomo == OnlyPaypal => NoMomo
  BY NoneAssumption DEF OnlyPaypal, NoMomo, Providers

LEMMA OnlyPaypalNoMomoNext == OnlyPaypal' => NoMomo'
  BY NoneAssumption DEF OnlyPaypal, NoMomo, Providers

(* The transaction of completePayment completes a payment.                 *)
LEMMA CompleteSpends ==
    ASSUME TypeInv, PayInv, NEW r \in Reqs, CompleteCommit(r) PROVE Spends(r)
  <1>1. req[r].pc \in Completing BY DEF CompleteCommit, At, Completing
  <1>2. req[r].b \in Bookings BY <1>1, BookedPoints DEF PayInv
  <1>3. RowStep(r, req[r].b) BY CompleteSteps
  <1>4. ~Carrying(r)' BY Finished DEF CompleteCommit, Carrying, Carrier, Completing
  <1>5. r \in Carriers BY <1>1 DEF Carriers, Carrying, Carrier
  <1>6. Captured' = Captured BY DEF CompleteCommit, Captured
  <1> QED BY <1>2, <1>3, <1>4, <1>5, <1>6, RowStepCounts DEF Spends

(* As long as OnlyPaypal holds, nothing else completes one.                *)
LEMMA PaypalSpends ==
    ASSUME PayInv, OnlyPaypal, NEW r \in Reqs, Spends(r) PROVE CompleteCommit(r)
  <1>1. req[r].pc \in Completing \cup Paying
    BY DEF Spends, Carriers, Carrying, Carrier, Paying
  <1>2. req[r].b \in Bookings BY <1>1, BookedPoints DEF PayInv
  <1>3. payment[req[r].b].provider # "INTERNAL"
    BY <1>2, NoneAssumption DEF OnlyPaypal, Providers
  <1> QED BY <1>3 DEF Spends

(* Only the transaction of completePayment adds to the host's funds.       *)
LEMMA CreditSteps ==
    ASSUME TypeInv, PayInv, Next, OnlyPaypal'
    PROVE  IF \E r \in Reqs : CompleteCommit(r) THEN Credit' = Credit + HostPayout
                                                ELSE Credit' = Credit
  <1> USE DEF property, money, wallets
  <1>t. /\ balance \in [Owners -> Int] /\ pending \in Int /\ "host" \in Owners
        /\ balance["host"] \in Int /\ withdrawn \in Int /\ HostPayout \in Int
    BY MoneyAssumption DEF TypeInv, TypeOK, Owners
  <1>1. ASSUME NEW r \in Reqs, CompleteCommit(r) PROVE Credit' = Credit + HostPayout
    BY <1>1, <1>t DEF CompleteCommit, Credit
  <1>2. ASSUME \A r \in Reqs : ~CompleteCommit(r) PROVE Credit' = Credit
    <2>1. ASSUME NEW r \in Reqs, Moving(r) PROVE Credit' = Credit
      <3>1. CASE CheckOutCommit(r)
        <4>1. PICK n : n = IF req[r].paid THEN HostPayout ELSE 0 OBVIOUS
        <4>2. n \in Int BY <1>t, <4>1
        <4>3. /\ pending' = pending - n /\ balance' = [balance EXCEPT !["host"] = @ + n]
              /\ withdrawn' = withdrawn
          BY <3>1, <4>1 DEF CheckOutCommit
        <4> QED BY <1>t, <4>2, <4>3 DEF Credit
      <3>2. CASE DisputeCommit(r) \/ ResolveCommit(r)
        <4>1. req[r].b \in Bookings
          BY <3>2, BookedPoints DEF DisputeCommit, ResolveCommit, At, PayInv
        <4>2. dispute'[req[r].b] # NONE
          BY <3>2, <4>1, NoneAssumption
          DEF DisputeCommit, ResolveCommit, TypeInv, TypeOK, DisputeStatus
        <4> QED BY <4>1, <4>2 DEF OnlyPaypal
      <3>3. CASE PayCheck(r) \/ RefundRow(r) BY <3>3 DEF PayCheck, RefundRow, Credit
      <3>6. ASSUME NEW o \in Owners, NEW a \in Amounts, WithdrawRead(r, o, a)
            PROVE  Credit' = Credit
        BY <3>6 DEF WithdrawRead, Credit
      <3>4. CASE PayDebit(r) \/ RefundProvider(r)
        BY <1>t, <3>4 DEF PayDebit, RefundProvider, Credit
      <3>5. CASE WithdrawDebit(r)
        <4>1. PICK n : n = req[r].amt OBVIOUS
        <4>2. n \in Int BY <4>1 DEF TypeInv, ReqInv, Request
        <4>3. /\ balance' = [balance EXCEPT ![req[r].arg] = @ - n] /\ pending' = pending
              /\ withdrawn' = withdrawn + (IF req[r].arg = "host" THEN n ELSE 0)
          BY <3>5, <4>1 DEF WithdrawDebit
        <4>4. CASE req[r].arg = "host" BY <1>t, <4>2, <4>3, <4>4 DEF Credit
        <4>5. CASE req[r].arg # "host" BY <1>t, <4>3, <4>5 DEF Credit
        <4> QED BY <4>4, <4>5
      <3> QED BY <1>2, <2>1, <3>1, <3>2, <3>3, <3>4, <3>5, <3>6 DEF Moving
    <2> QED BY <2>1, LedgerSteps DEF Still, Credit
  <1> QED BY <1>1, <1>2

LEMMA TimesSteps ==
    ASSUME NEW h \in Nat, NEW m \in Nat, NEW n \in Nat
    PROVE  /\ h * m \in Nat /\ h * (m + 1) = h * m + h
           /\ m <= n => h * m <= h * n
  <1>1. ASSUME m <= n PROVE h * m <= h * n
    <2>1. PICK d \in Nat : n = m + d BY <1>1
    <2>2. h * n = h * m + h * d BY <2>1
    <2>3. h * d \in Nat /\ h * m \in Nat OBVIOUS
    <2> QED BY <2>2, <2>3
  <1> QED BY <1>1

LEMMA HostStep ==
    ASSUME TypeInv, SignInv, PayInv, CountInv, HostInv, Next, OnlyPaypal'
    PROVE  /\ HostPayout * Cardinality(Claimed') <= Credit'
           /\ Credit' + HostPayout * Cardinality(Carriers') <= HostPayout * Cardinality(Captured')
  <1>0. OnlyPaypal BY OnlyPaypalBefore
  <1>1. Counted BY <1>0, OnlyPaypalNoMomo DEF CountInv
  <1> DEFINE h == HostPayout
             m == Cardinality(Claimed)   k == Cardinality(Carriers)   n == Cardinality(Captured)
             M == Cardinality(Claimed')  K == Cardinality(Carriers')  N == Cardinality(Captured')
             f == Credit  F == Credit'
  <1>2. h \in Nat /\ m \in Nat /\ k \in Nat /\ n \in Nat /\ K \in Nat
    BY <1>1, MoneyAssumption, CarriersFinite, CarriersFiniteNext, FS_CardinalityType DEF Counted
  <1>3. Counted' => M \in Nat /\ N \in Nat BY FS_CardinalityType DEF Counted
  <1>4. f \in Int BY DEF Credit, TypeInv, TypeOK, Owners
  <1>5. h * m <= f /\ f + h * k <= h * n BY <1>0 DEF HostInv
  <1>6. CASE \E r \in Reqs : CompleteCommit(r)
    <2>1. Counted' /\ M <= m + 1 /\ K <= k - 1 /\ N = n
      BY <1>1, <1>6, CompleteSpends, SpendsCounts
    <2>2. F = f + h BY <1>6, CreditSteps
    <2>3. M \in Nat /\ N \in Nat BY <1>3, <2>1
    <2> HIDE DEF h, m, k, n, M, K, N, f, F
    <2>4. h * M <= h * m + h
      <3>1. h * M <= h * (m + 1) BY <1>2, <2>1, <2>3, TimesSteps
      <3> QED BY <1>2, <3>1, TimesSteps
    <2>5. h * K + h <= h * k
      <3>1. K + 1 \in Nat /\ K + 1 <= k BY <1>2, <2>1
      <3>2. h * (K + 1) <= h * k BY <1>2, <3>1, TimesSteps
      <3> QED BY <1>2, <3>2, TimesSteps
    <2>6. h * M \in Nat /\ h * m \in Nat /\ h * K \in Nat /\ h * k \in Nat /\ h * n \in Nat
      BY <1>2, <2>3, TimesSteps
    <2>7. h * M <= F /\ F + h * K <= h * N BY <1>2, <1>4, <1>5, <2>1, <2>2, <2>4, <2>5, <2>6
    <2> QED BY <2>7 DEF h, M, K, N, F
  <1>7. CASE ~\E r \in Reqs : CompleteCommit(r)
    <2>1. Quiet \/ \E r \in Reqs : Gains(r)
      BY <1>0, <1>7, CountSteps, PaypalSpends, OnlyPaypalNoMomoNext
    <2>2. Counted' /\ M <= m /\ ((K <= k /\ N >= n) \/ (K <= k + 1 /\ N = n + 1))
      <3>1. ASSUME Quiet PROVE Counted' /\ M <= m /\ K <= k /\ N >= n
        BY <1>1, <3>1, QuietCounts
      <3>2. ASSUME NEW r \in Reqs, Gains(r)
            PROVE  Counted' /\ M <= m /\ K <= k + 1 /\ N = n + 1
        BY <1>1, <3>2, GainsCounts
      <3> QED BY <2>1, <3>1, <3>2
    <2>3. F = f BY <1>7, CreditSteps
    <2>4. M \in Nat /\ N \in Nat BY <1>3, <2>2
    <2> HIDE DEF h, m, k, n, M, K, N, f, F
    <2>5. h * M <= h * m BY <1>2, <2>2, <2>4, TimesSteps
    <2>6. /\ h * M \in Nat /\ h * m \in Nat /\ h * K \in Nat /\ h * k \in Nat
          /\ h * n \in Nat /\ h * N \in Nat
      BY <1>2, <2>4, TimesSteps
    <2>7. CASE K <= k /\ N >= n
      <3>1. h * K <= h * k /\ h * n <= h * N BY <1>2, <2>4, <2>7, TimesSteps
      <3>2. h * M <= F /\ F + h * K <= h * N BY <1>4, <1>5, <2>3, <2>5, <2>6, <3>1
      <3> QED BY <3>2 DEF h, M, K, N, F
    <2>8. CASE K <= k + 1 /\ N = n + 1
      <3>1. h * K <= h * (k + 1) BY <1>2, <2>8, TimesSteps
      <3>2. h * (k + 1) = h * k + h /\ h * N = h * n + h BY <1>2, <2>8, TimesSteps
      <3>3. h * M <= F /\ F + h * K <= h * N
        BY <1>2, <1>4, <1>5, <2>3, <2>5, <2>6, <3>1, <3>2
      <3> QED BY <3>3 DEF h, M, K, N, F
    <2> QED BY <2>2, <2>7, <2>8
  <1> QED BY <1>6, <1>7

(* The host is credited with hostPayout at least once for each payment     *)
(* that counts and at most once for each capture, whatever captures,       *)
(* check-outs, withdrawals, cancellations and refunds race, as long as all *)
(* pay through PayPal and until a dispute is opened.                       *)
THEOREM HostCreditedOnceHolds == Spec => []HostCreditedOnce
  <1>1. Init => HostInv
    <2> SUFFICES ASSUME Init PROVE HostInv OBVIOUS
    <2>1. Carriers = {} BY DEF Init, Carriers, Carrying, Carrier, Idle, Completing
    <2>2. Claimed = {}
      BY UnpaidStatuses DEF Init, Claimed, NoPayment, Idle, Refunding
    <2>3. Captured = {} BY DEF Init, Captured, NoOrder
    <2>4. Credit = 0 BY DEF Init, Credit
    <2>5. HostPayout * 0 = 0 BY MoneyAssumption
    <2> QED BY <2>1, <2>2, <2>3, <2>4, <2>5, FS_EmptySet DEF HostInv
  <1>2. TypeInv /\ SignInv /\ PayInv /\ CountInv /\ HostInv /\ [Next]_vars => HostInv'
    <2>1. ASSUME UNCHANGED vars, HostInv PROVE HostInv'
      <3>1. /\ Carriers' = Carriers /\ Claimed' = Claimed /\ Captured' = Captured
            /\ OnlyPaypal' = OnlyPaypal /\ Credit' = Credit
        BY <2>1
        DEF vars, money, wallets, Carriers, Carrying, Claimed, Captured, OnlyPaypal, Credit
      <3> QED BY <2>1, <3>1 DEF HostInv
    <2>2. TypeInv /\ SignInv /\ PayInv /\ CountInv /\ HostInv /\ Next => HostInv'
      BY HostStep DEF HostInv
    <2> QED BY <2>1, <2>2
  <1>3. TypeInv /\ CountInv /\ HostInv => HostCreditedOnce
    <2> SUFFICES ASSUME TypeInv, CountInv, HostInv, OnlyPaypal
                 PROVE  /\ HostPayout * Cardinality(PaidBookings) <= Credit
                        /\ Credit <= HostPayout * Cardinality(Captured)
      BY DEF HostCreditedOnce, OnlyPaypal, Credit
    <2>1. Counted BY OnlyPaypalNoMomo DEF CountInv
    <2>2. PaidBookings \subseteq Claimed BY DEF PaidBookings, Claimed
    <2>3. /\ IsFiniteSet(PaidBookings)
          /\ Cardinality(PaidBookings) <= Cardinality(Claimed)
      BY <2>1, <2>2, FS_Subset DEF Counted
    <2>4. /\ Cardinality(PaidBookings) \in Nat /\ Cardinality(Claimed) \in Nat
          /\ Cardinality(Captured) \in Nat /\ Cardinality(Carriers) \in Nat
          /\ HostPayout \in Nat
      BY <2>1, <2>3, MoneyAssumption, CarriersFinite, FS_CardinalityType DEF Counted
    <2> DEFINE a == HostPayout * Cardinality(PaidBookings)  c == HostPayout * Cardinality(Claimed)
               d == HostPayout * Cardinality(Carriers)      e == HostPayout * Cardinality(Captured)
    <2>5. a <= c /\ a \in Nat /\ c \in Nat /\ d \in Nat /\ e \in Nat
      BY <2>3, <2>4, TimesSteps
    <2>6. c <= Credit /\ Credit + d <= e BY DEF HostInv
    <2>7. Credit \in Int BY DEF Credit, TypeInv, TypeOK, Owners
    <2> HIDE DEF a, c, d, e
    <2>8. a <= Credit /\ Credit <= e BY <2>5, <2>6, <2>7
    <2> QED BY <2>8 DEF a, e
  <1> QED BY <1>1, <1>2, <1>3, TypeCorrect, SignsCorrect, PaymentsCorrect, CountsCorrect,
             PTL DEF Spec

-----------------------------------------------------------------------------
(* Overdrafts.                                                             *)

(* The requests that will take something from the wallet of o, and how     *)
(* much.                                                                   *)
Debiting(o) == {r \in Reqs : \/ At(r, "pay_debit") /\ o = "guest"
                             \/ At(r, "withdraw_debit") /\ req[r].arg = o /\ req[r].amt > 0}
Due(r) == IF At(r, "pay_debit") THEN Price ELSE req[r].amt

(* How far below zero the wallet may be while k debits are still to come.  *)
Low(k) == (k - (Cardinality(Reqs) - 1)) * MaxDebit

(* Either the wallet can still take every debit to come, or the check of   *)
(* one of them is the reason that it cannot.                               *)
Funded(o) ==
    LET k == Cardinality(Debiting(o)) IN
    \/ balance[o] >= Low(k)
    \/ \E r \in Debiting(o) : balance[o] - Due(r) >= Low(k - 1)

(* Nobody resolves a dispute over a wallet payment: no refund is negative. *)
Undisputed(b) == payment[b].provider = "INTERNAL" => dispute[b] = NONE
Sound(o)      == o = "guest" => \A b \in Bookings : Undisputed(b)

FundInv ==
    /\ \A r \in Reqs : At(r, "withdraw_debit") => req[r].amt <= MaxDebit
    /\ \A o \in Owners : Sound(o) => Funded(o)

LEMMA UndisputedBefore ==
    ASSUME TypeInv, SignInv, PayInv, Next, NEW b \in Bookings, Undisputed(b)'
    PROVE  Undisputed(b)
  <1>1. DisputesStay BY SignStep
  <1>2. payment[b].provider \in {payment'[b].provider, NONE} BY ProviderStays
  <1> QED BY <1>1, <1>2, NoneAssumption DEF Undisputed, DisputesStay, Providers

LEMMA SoundBefore ==
    ASSUME TypeInv, SignInv, PayInv, Next PROVE \A o \in Owners : Sound(o)' => Sound(o)
  BY UndisputedBefore DEF Sound

LEMMA LowSteps ==
    /\ Cardinality(Reqs) \in Nat /\ MaxDebit \in Nat
    /\ \A k \in Int : Low(k) \in Int /\ Low(k) = Low(k - 1) + MaxDebit
    /\ \A k \in Nat : Low(k) >= -((Cardinality(Reqs) - 1) * MaxDebit)
    /\ \A k \in Nat : k < Cardinality(Reqs) => Low(k) <= 0
  <1> DEFINE n == Cardinality(Reqs)
  <1>1. n \in Nat /\ MaxDebit \in Nat
    BY ReqsAssumption, MaxDebitAssumption, FS_CardinalityType
  <1> HIDE DEF n
  <1>2. \A k \in Int : (k - (n - 1)) * MaxDebit \in Int BY <1>1
  <1>3. ASSUME NEW k \in Int
        PROVE  (k - (n - 1)) * MaxDebit = (k - 1 - (n - 1)) * MaxDebit + MaxDebit
    BY <1>1
  <1>4. ASSUME NEW k \in Nat PROVE (k - (n - 1)) * MaxDebit >= -((n - 1) * MaxDebit)
    <2>1. (k - (n - 1)) * MaxDebit = k * MaxDebit - (n - 1) * MaxDebit BY <1>1
    <2>2. k * MaxDebit >= 0 BY <1>1
    <2> QED BY <1>1, <2>1, <2>2
  <1>5. ASSUME NEW k \in Nat, k < n PROVE (k - (n - 1)) * MaxDebit <= 0
    <2>1. PICK d \in Nat : d = n - 1 - k BY <1>1, <1>5
    <2>2. (k - (n - 1)) * MaxDebit = -(d * MaxDebit) BY <1>1, <2>1
    <2>3. d * MaxDebit >= 0 BY <1>1
    <2> QED BY <1>1, <2>1, <2>2, <2>3
  <1> QED BY <1>1, <1>2, <1>3, <1>4, <1>5 DEF Low, n

LEMMA DebitingFinite ==
    ASSUME NEW o
    PROVE  /\ Debiting(o) \subseteq Reqs /\ IsFiniteSet(Debiting(o))
           /\ Cardinality(Debiting(o)) \in Nat
           /\ Cardinality(Debiting(o)) <= Cardinality(Reqs)
  <1>1. Debiting(o) \subseteq Reqs BY DEF Debiting
  <1> QED BY <1>1, ReqsAssumption, FS_Subset, FS_CardinalityType

LEMMA DueSmall ==
    ASSUME TypeInv, FundInv, NEW o, NEW r \in Debiting(o)
    PROVE  Due(r) \in Nat /\ Due(r) <= MaxDebit
  <1>1. req[r].amt \in Int BY DEF TypeInv, ReqInv, Request, Debiting
  <1>2. CASE At(r, "pay_debit") BY <1>2, MoneyAssumption, MaxDebitAssumption DEF Due
  <1>3. CASE ~At(r, "pay_debit") BY <1>1, <1>3 DEF Due, FundInv, Debiting
  <1> QED BY <1>2, <1>3

(* Whatever the handler in slot r does, the other debits are still to come. *)
LEMMA OthersDebiting ==
    ASSUME NEW r \in Reqs, \A q \in Reqs \ {r} : req'[q] = req[q], NEW o
    PROVE  /\ Debiting(o)' \ {r} = Debiting(o) \ {r}
           /\ \A q \in Debiting(o) \ {r} : Due(q)' = Due(q)
  BY DEF Debiting, Due, At

(* No debit is added, and nothing taken.                                   *)
LEMMA FundKept ==
    ASSUME TypeInv, FundInv, TypeInv', NEW r \in Reqs, NEW o \in Owners,
           \A q \in Reqs \ {r} : req'[q] = req[q],
           r \in Debiting(o)' => r \in Debiting(o) /\ Due(r)' = Due(r),
           balance'[o] >= balance[o], Funded(o)
    PROVE  Funded(o)'
  <1> DEFINE D == Debiting(o)  E == Debiting(o)'  k == Cardinality(D)  m == Cardinality(E)
  <1>1. /\ IsFiniteSet(D) /\ k \in Nat BY DebitingFinite
  <1>2. balance[o] \in Int /\ balance'[o] \in Int BY DEF TypeInv, TypeOK
  <1>3. /\ E \ {r} = D \ {r} /\ \A q \in D \ {r} : Due(q)' = Due(q) BY OthersDebiting
  <1>d. \A q \in D : Due(q) \in Nat /\ Due(q) <= MaxDebit BY DueSmall
  <1> HIDE DEF D, E
  <1>4. CASE E = D
    <2>1. CASE balance[o] >= Low(k)
      <3>1. balance'[o] >= Low(m) BY <1>1, <1>2, <1>4, <2>1, LowSteps
      <3> QED BY <3>1 DEF Funded, E
    <2>2. ASSUME NEW q \in D, balance[o] - Due(q) >= Low(k - 1) PROVE Funded(o)'
      <3>1. q \in E /\ Due(q)' = Due(q) BY <1>3, <1>4, <2>2 DEF D, E
      <3>2. balance'[o] - Due(q)' >= Low(m - 1)
        BY <1>1, <1>2, <1>4, <1>d, <2>2, <3>1, LowSteps
      <3> QED BY <3>1, <3>2 DEF Funded, E
    <2> QED BY <2>1, <2>2 DEF Funded, D
  <1>5. CASE E # D
    <2>1. r \in D /\ E = D \ {r} BY <1>3, <1>5 DEF D, E
    <2>2. m = k - 1 BY <1>1, <2>1, FS_RemoveElement
    <2>3. CASE balance[o] >= Low(k)
      <3>1. balance'[o] >= Low(m) BY <1>1, <1>2, <2>2, <2>3, LowSteps
      <3> QED BY <3>1 DEF Funded, E
    <2>4. ASSUME NEW q \in D, balance[o] - Due(q) >= Low(k - 1) PROVE Funded(o)'
      <3>1. balance'[o] >= Low(m) BY <1>1, <1>2, <1>d, <2>2, <2>4, LowSteps
      <3> QED BY <3>1 DEF Funded, E
    <2> QED BY <2>3, <2>4 DEF Funded, D
  <1> QED BY <1>4, <1>5

(* A debit is added that the wallet can take.                              *)
LEMMA FundChecked ==
    ASSUME TypeInv, NEW r \in Reqs, NEW o \in Owners,
           \A q \in Reqs \ {r} : req'[q] = req[q],
           r \in Debiting(o)', Due(r)' \in Nat, balance[o] >= Due(r)', balance' = balance
    PROVE  Funded(o)'
  <1> DEFINE E == Debiting(o)'  m == Cardinality(E)
  <1>1. m \in Nat /\ IsFiniteSet(E) /\ m <= Cardinality(Reqs)
    <2>1. E \subseteq Reqs BY DEF Debiting
    <2> QED BY <2>1, ReqsAssumption, FS_Subset, FS_CardinalityType
  <1>2. balance[o] \in Int BY DEF TypeInv, TypeOK
  <1> HIDE DEF E
  <1>3. r \in E BY DEF E
  <1>4. m # 0 BY <1>1, <1>3, FS_EmptySet
  <1>5. m - 1 \in Nat /\ m - 1 < Cardinality(Reqs) BY <1>1, <1>4, LowSteps
  <1>6. Low(m - 1) <= 0 /\ Low(m - 1) \in Int BY <1>5, LowSteps
  <1>7. balance'[o] - Due(r)' >= Low(m - 1) BY <1>2, <1>6
  <1> QED BY <1>3, <1>7 DEF Funded, E

(* A debit is made.                                                        *)
LEMMA FundDebited ==
    ASSUME TypeInv, FundInv, NEW r \in Reqs, NEW o \in Owners,
           \A q \in Reqs \ {r} : req'[q] = req[q],
           r \in Debiting(o), r \notin Debiting(o)', balance'[o] = balance[o] - Due(r),
           Funded(o)
    PROVE  Funded(o)'
  <1> DEFINE D == Debiting(o)  E == Debiting(o)'  k == Cardinality(D)  m == Cardinality(E)
  <1>1. IsFiniteSet(D) /\ k \in Nat BY DebitingFinite
  <1>2. balance[o] \in Int BY DEF TypeInv, TypeOK
  <1>3. /\ E \ {r} = D \ {r} /\ \A q \in D \ {r} : Due(q)' = Due(q) BY OthersDebiting
  <1>d. \A q \in D : Due(q) \in Nat /\ Due(q) <= MaxDebit BY DueSmall
  <1>4. r \in D /\ E = D \ {r} BY <1>3
  <1> HIDE DEF D, E
  <1>5. m = k - 1 BY <1>1, <1>4, FS_RemoveElement
  <1>6. CASE balance[o] >= Low(k)
    <2>1. balance'[o] >= Low(m) BY <1>1, <1>2, <1>4, <1>5, <1>6, <1>d, LowSteps
    <2> QED BY <2>1 DEF Funded, E
  <1>7. CASE balance[o] - Due(r) >= Low(k - 1)
    <2>1. balance'[o] >= Low(m) BY <1>5, <1>7
    <2> QED BY <2>1 DEF Funded, E
  <1>8. ASSUME NEW q \in D \ {r}, balance[o] - Due(q) >= Low(k - 1) PROVE Funded(o)'
    <2>1. q \in E /\ Due(q)' = Due(q) BY <1>3, <1>4
    <2>2. Low(k - 1) = Low(m - 1) + MaxDebit /\ Low(m - 1) \in Int
      BY <1>1, <1>5, LowSteps
    <2>3. balance'[o] - Due(q)' >= Low(m - 1)
      BY <1>2, <1>4, <1>8, <1>d, <2>1, <2>2, LowSteps
    <2> QED BY <2>1, <2>3 DEF Funded, E
  <1> QED BY <1>6, <1>7, <1>8 DEF Funded, D

(* No wallet is written but credited, and nobody comes to debit one.       *)
LEMMA FundQuiet ==
    ASSUME TypeInv, FundInv, TypeInv', NEW r \in Reqs,
           \A q \in Reqs \ {r} : req'[q] = req[q],
           req'[r].pc \in {"pay_debit", "withdraw_debit"} =>
                /\ req'[r].pc = req[r].pc
                /\ req'[r].amt = req[r].amt /\ req'[r].arg = req[r].arg,
           \A o \in Owners : Sound(o)' => Sound(o) /\ balance'[o] >= balance[o]
    PROVE  FundInv'
  <1>1. \A q \in Reqs : (At(q, "withdraw_debit") => req[q].amt <= MaxDebit)'
    BY DEF FundInv, At
  <1>2. ASSUME NEW o \in Owners, Sound(o)' PROVE Funded(o)'
    <2>1. r \in Debiting(o)' => r \in Debiting(o) /\ Due(r)' = Due(r) BY DEF Debiting, Due, At
    <2> QED BY <1>2, <2>1, FundKept DEF FundInv
  <1> QED BY <1>1, <1>2 DEF FundInv

LEMMA FundMoves ==
    ASSUME TypeInv, SignInv, PayInv, FundInv, TypeInv', NEW r \in Reqs, Moving(r),
           \A o \in Owners : Sound(o)' => Sound(o)
    PROVE  FundInv'
  <1> USE DEF property, money, wallets, Frame, Unchanged
  <1>t. /\ req \in [Reqs -> Request] /\ req[r] \in Request
        /\ balance \in [Owners -> Int] /\ \A o \in Owners : balance[o] \in Int
        /\ Owners = {"guest", "host"} /\ Price \in Nat /\ HostPayout \in Nat
        /\ req[r].amt \in Int
    BY MoneyAssumption DEF TypeInv, TypeOK, ReqInv, Owners, Request
  <1>f. \A o \in Owners : Sound(o)' => Funded(o) BY DEF FundInv
  <1>q. ASSUME \A q \in Reqs \ {r} : req'[q] = req[q],
               req'[r].pc \notin {"pay_debit", "withdraw_debit"},
               \A o \in Owners : Sound(o)' => balance'[o] >= balance[o]
        PROVE  FundInv'
    BY <1>q, FundQuiet
  <1>1. CASE CompleteCommit(r) \/ DisputeCommit(r)
    <2>1. balance' = balance /\ req'[r].pc = "idle" /\ \A q \in Reqs \ {r} : req'[q] = req[q]
      BY <1>1, Finished DEF CompleteCommit, DisputeCommit
    <2> QED BY <1>q, <1>t, <2>1
  <1>2. CASE ResolveCommit(r)
    <2>1. req'[r].pc = "idle" /\ \A q \in Reqs \ {r} : req'[q] = req[q]
      BY <1>2, Finished DEF ResolveCommit
    <2>2. \A o \in Owners : balance'[o] >= balance[o] BY <1>2, <1>t DEF ResolveCommit
    <2> QED BY <1>q, <2>1, <2>2
  <1>3. CASE CheckOutCommit(r)
    <2>1. PICK n : n = IF req[r].paid THEN HostPayout ELSE 0 OBVIOUS
    <2>2. n \in Nat BY <1>t, <2>1
    <2>3. balance' = [balance EXCEPT !["host"] = @ + n] BY <1>3, <2>1 DEF CheckOutCommit
    <2>4. \A o \in Owners : balance'[o] >= balance[o] BY <1>t, <2>2, <2>3
    <2>5. req'[r].pc = "write_history" /\ \A q \in Reqs \ {r} : req'[q] = req[q]
      BY <1>3, <1>t DEF CheckOutCommit, Request
    <2> QED BY <1>q, <2>4, <2>5
  <1>4. CASE RefundProvider(r)
    <2>1. PICK c : c = req[r].b OBVIOUS
    <2>2. c \in Bookings
      BY <1>4, <2>1, BookedPoints DEF RefundProvider, At, Refunding, PayInv
    <2>3. /\ req'[r].pc = "refund_row" /\ dispute' = dispute /\ payment' = payment
          /\ \A q \in Reqs \ {r} : req'[q] = req[q]
      BY <1>4, Went DEF RefundProvider
    <2>4. \/ payment[c].provider = "INTERNAL" /\ balance' = [balance EXCEPT !["guest"] = @ + req[r].amt]
          \/ balance' = balance
      BY <1>4, <2>1 DEF RefundProvider
    <2>5. ASSUME NEW o \in Owners, Sound(o)' PROVE balance'[o] >= balance[o]
      <3>1. CASE balance' = balance BY <1>t, <3>1
      <3>2. CASE o # "guest" BY <1>t, <2>4, <3>2
      <3>3. CASE o = "guest" /\ payment[c].provider = "INTERNAL"
        <4>1. dispute[c] = NONE BY <2>2, <2>3, <2>5, <3>3 DEF Sound, Undisputed
        <4>2. req[r].amt >= 0 BY <1>t, <2>1, <2>2, <4>1 DEF SignInv, Signed
        <4> QED BY <1>t, <2>4, <3>3, <4>2
      <3> QED BY <2>4, <3>1, <3>2, <3>3
    <2> QED BY <1>q, <2>3, <2>5
  <1>9. CASE RefundRow(r)
    <2>1. /\ req'[r].pc = "refund_update" /\ balance' = balance
          /\ \A q \in Reqs \ {r} : req'[q] = req[q]
      BY <1>9, Went DEF RefundRow
    <2> QED BY <1>q, <1>t, <2>1
  <1>5. CASE PayCheck(r)
    <2>1. /\ At(r, "pay_check") /\ balance' = balance /\ req'[r].arg = req[r].arg
          /\ req'[r].pc = (IF balance["guest"] >= Price THEN "pay_debit" ELSE "pay_failed")
          /\ \A q \in Reqs \ {r} : req'[q] = req[q]
      BY <1>5, Went DEF PayCheck
    <2>2. CASE ~(balance["guest"] >= Price) BY <1>q, <1>t, <2>1, <2>2
    <2>3. CASE balance["guest"] >= Price
      <3>1. r \in Debiting("guest")' /\ Due(r)' = Price
        BY <2>1, <2>3 DEF Debiting, Due, At
      <3>2. Funded("guest")' BY <1>t, <2>1, <2>3, <3>1, FundChecked
      <3>3. r \notin Debiting("host")' BY <2>1, <2>3 DEF Debiting, At
      <3>4. Sound("host")' => Funded("host")' BY <1>f, <1>t, <2>1, <3>3, FundKept
      <3>5. \A q \in Reqs : (At(q, "withdraw_debit") => req[q].amt <= MaxDebit)'
        BY <2>1, <2>3 DEF FundInv, At
      <3> QED BY <1>t, <3>2, <3>4, <3>5 DEF FundInv
    <2> QED BY <2>2, <2>3
  <1>6. CASE PayDebit(r)
    <2>1. /\ At(r, "pay_debit") /\ req'[r].pc = "pay_update"
          /\ balance' = [balance EXCEPT !["guest"] = @ - Price]
          /\ \A q \in Reqs \ {r} : req'[q] = req[q]
      BY <1>6, Went DEF PayDebit
    <2>2. /\ r \in Debiting("guest") /\ Due(r) = Price
          /\ r \notin Debiting("guest")' /\ r \notin Debiting("host")'
      BY <2>1 DEF Debiting, Due, At
    <2>3. Sound("guest")' => Funded("guest")' BY <1>f, <1>t, <2>1, <2>2, FundDebited
    <2>4. Sound("host")' => Funded("host")' BY <1>f, <1>t, <2>1, <2>2, FundKept
    <2>5. \A q \in Reqs : (At(q, "withdraw_debit") => req[q].amt <= MaxDebit)'
      BY <2>1 DEF FundInv, At
    <2> QED BY <1>t, <2>3, <2>4, <2>5 DEF FundInv
  <1>7. CASE WithdrawDebit(r)
    <2>1. /\ At(r, "withdraw_debit") /\ req'[r].pc = "idle"
          /\ balance' = [balance EXCEPT ![req[r].arg] = @ - req[r].amt]
          /\ \A q \in Reqs \ {r} : req'[q] = req[q]
      BY <1>7, Finished DEF WithdrawDebit
    <2>2. ASSUME NEW o \in Owners, Sound(o)' PROVE Funded(o)'
      <3>1. r \notin Debiting(o)' BY <2>1 DEF Debiting, At
      <3>2. CASE req[r].arg = o /\ req[r].amt > 0
        <4>1. r \in Debiting(o) /\ Due(r) = req[r].amt BY <2>1, <3>2 DEF Debiting, Due, At
        <4>2. balance'[o] = balance[o] - Due(r) BY <1>t, <2>1, <3>2, <4>1
        <4> QED BY <1>f, <2>1, <2>2, <3>1, <4>1, <4>2, FundDebited
      <3>3. CASE req[r].arg # o \/ ~(req[r].amt > 0)
        <4>1. balance'[o] >= balance[o] BY <1>t, <2>1, <3>3
        <4> QED BY <1>f, <2>1, <2>2, <3>1, <4>1, FundKept
      <3> QED BY <3>2, <3>3
    <2>3. \A q \in Reqs : (At(q, "withdraw_debit") => req[q].amt <= MaxDebit)'
      BY <2>1 DEF FundInv, At
    <2> QED BY <2>2, <2>3 DEF FundInv
  <1>8. ASSUME NEW w \in Owners, NEW a \in Amounts, WithdrawRead(r, w, a) PROVE FundInv'
    <2>1. PICK q : q = [Idle EXCEPT !.pc = "withdraw_debit", !.arg = w, !.amt = a] OBVIOUS
    <2>2. q.pc = "withdraw_debit" /\ q.arg = w /\ q.amt = a BY <2>1 DEF Idle
    <2>3. /\ balance[w] >= a /\ balance' = balance /\ req'[r] = q
          /\ \A s \in Reqs \ {r} : req'[s] = req[s]
      BY <1>8, <2>1, Started DEF WithdrawRead
    <2>4. a \in Int /\ a <= MaxDebit BY MoneyAssumption, MaxDebitAssumption
    <2>5. ASSUME a > 0 PROVE Funded(w)'
      <3>1. r \in Debiting(w)' /\ Due(r)' = a BY <2>2, <2>3, <2>5 DEF Debiting, Due, At
      <3>2. a \in Nat BY <2>4, <2>5
      <3> QED BY <2>3, <3>1, <3>2, FundChecked
    <2>7. ASSUME NEW o \in Owners, Sound(o)', o # w \/ ~(a > 0) PROVE Funded(o)'
      <3>1. r \notin Debiting(o)' BY <2>2, <2>3, <2>7 DEF Debiting, At
      <3> QED BY <1>f, <1>t, <2>3, <2>7, <3>1, FundKept
    <2>8. \A s \in Reqs : (At(s, "withdraw_debit") => req[s].amt <= MaxDebit)'
      BY <2>2, <2>3, <2>4 DEF FundInv, At
    <2> QED BY <2>5, <2>7, <2>8 DEF FundInv
  <1> QED BY <1>1, <1>2, <1>3, <1>4, <1>5, <1>6, <1>7, <1>8, <1>9 DEF Moving

LEMMA FundNext ==
    ASSUME TypeInv, SignInv, PayInv, FundInv, TypeInv', [Next]_vars PROVE FundInv'
  <1>1. CASE UNCHANGED vars
    BY <1>1 DEF vars, wallets, money, FundInv, Sound, Undisputed, Funded, Debiting, Due, At
  <1>2. ASSUME Next, UNCHANGED <<balance, req>> PROVE FundInv'
    <2>1. \A o \in Owners : Funded(o)' = Funded(o) BY <1>2 DEF Funded, Debiting, Due, At
    <2>2. \A r \in Reqs : (At(r, "withdraw_debit") => req[r].amt <= MaxDebit)'
      BY <1>2 DEF FundInv, At
    <2> QED BY <1>2, <2>1, <2>2, SoundBefore DEF FundInv
  <1>3. ASSUME Next, NEW r \in Reqs, Still(r) PROVE FundInv'
    <2>1. \A o \in Owners : balance'[o] >= balance[o]
      BY <1>3 DEF Still, TypeInv, TypeOK
    <2> QED BY <1>3, <2>1, FundQuiet, SoundBefore DEF Still, Midway
  <1> QED BY <1>1, <1>2, <1>3, FundMoves, SoundBefore, LedgerSteps

(* However checks and debits of the two wallets interleave, and whatever   *)
(* amounts are withdrawn: a wallet is never further below zero than the    *)
(* debits of all other requests in flight can take it; the guest's as long *)
(* as no wallet payment is disputed.                                       *)
THEOREM OverdraftBoundedHolds == Spec => []OverdraftBounded
  <1>1. Init => FundInv
    <2> SUFFICES ASSUME Init PROVE FundInv OBVIOUS
    <2>1. \A r \in Reqs : ~At(r, "withdraw_debit") /\ ~At(r, "pay_debit") BY DEF Init, At, Idle
    <2>2. ASSUME NEW o \in Owners PROVE Funded(o)
      <3>1. Debiting(o) = {} BY <2>1 DEF Debiting
      <3>2. balance[o] >= 0 /\ balance[o] \in Int BY MoneyAssumption DEF Init, Owners
      <3>3. Cardinality(Reqs) # 0 BY ReqsAssumption, FS_EmptySet
      <3>4. Low(0) \in Int /\ Low(0) <= 0 BY <3>3, LowSteps
      <3> QED BY <3>1, <3>2, <3>4, FS_EmptySet DEF Funded
    <2> QED BY <2>1, <2>2 DEF FundInv
  <1>2. TypeInv /\ TypeInv' /\ SignInv /\ PayInv /\ FundInv /\ [Next]_vars => FundInv'
    BY FundNext
  <1>3. TypeInv /\ FundInv => OverdraftBounded
    <2> SUFFICES ASSUME TypeInv, FundInv, NEW o \in Owners, Sound(o)
                 PROVE  balance[o] >= -((Cardinality(Reqs) - 1) * MaxDebit)
      BY DEF OverdraftBounded, Sound, Undisputed
    <2> DEFINE k == Cardinality(Debiting(o))  bound == -((Cardinality(Reqs) - 1) * MaxDebit)
    <2>1. k \in Nat /\ IsFiniteSet(Debiting(o)) /\ balance[o] \in Int
      BY DebitingFinite DEF TypeInv, TypeOK
    <2>2. \A j \in Nat : Low(j) >= bound BY LowSteps
    <2>3. bound \in Int BY LowSteps
    <2>4. \A j \in Int : Low(j) \in Int BY LowSteps
    <2> HIDE DEF bound
    <2>5. CASE balance[o] >= Low(k) BY <2>1, <2>2, <2>3, <2>4, <2>5 DEF bound
    <2>6. ASSUME NEW r \in Debiting(o), balance[o] - Due(r) >= Low(k - 1)
          PROVE  balance[o] >= bound
      <3>1. k # 0 BY <2>1, FS_EmptySet
      <3>2. k - 1 \in Nat BY <2>1, <3>1
      <3>3. Due(r) \in Nat BY DueSmall
      <3>4. Low(k - 1) >= bound /\ Low(k - 1) \in Int BY <2>2, <2>4, <3>2
      <3> QED BY <2>1, <2>3, <2>6, <3>3, <3>4
    <2> QED BY <2>5, <2>6 DEF FundInv, Funded, bound
  <1> QED BY <1>1, <1>2, <1>3, TypeCorrect, SignsCorrect, PaymentsCorrect, PTL DEF Spec

-----------------------------------------------------------------------------
(* Refunds.                                                                *)

(* Number the units of money given back to the guest of b.  The refund     *)
(* rows have counted the units of C; the units of g[r] are those that the  *)
(* refund in slot r gave back and has not counted yet.                     *)
Uncounted(b) == {r \in Reqs : At(r, "refund_row") /\ req[r].b = b}

Counts(b, C, g) ==
    /\ Cardinality(C) = refunded[b]
    /\ \A r \in Uncounted(b) : Cardinality(g[r]) = req[r].amt /\ g[r] \cap C = {}
    /\ \A r, q \in Uncounted(b) : r # q => g[r] \cap g[q] = {}

Covered(b) ==
    \E C \in SUBSET (1 .. returned[b]), g \in [Reqs -> SUBSET (1 .. returned[b])] :
        Counts(b, C, g)

(* A disputed wallet payment may be refunded a negative amount.            *)
RefundInv ==
    \A b \in Bookings : Undisputed(b) => returned[b] \in Nat /\ Covered(b)

(* No refund of b is paid or counted.                                      *)
LEMMA CoveredKept ==
    ASSUME NEW b, Covered(b), refunded'[b] = refunded[b], returned'[b] = returned[b],
           \A q \in Uncounted(b)' : q \in Uncounted(b) /\ req'[q].amt = req[q].amt
    PROVE  Covered(b)'
  <1>1. PICK C \in SUBSET (1 .. returned[b]), g \in [Reqs -> SUBSET (1 .. returned[b])] :
             Counts(b, C, g)
    BY DEF Covered
  <1>2. Counts(b, C, g)' BY <1>1 DEF Counts
  <1> QED BY <1>1, <1>2 DEF Covered

(* The provider or the wallet pays, and the row is still to be written.    *)
LEMMA CoveredPaid ==
    ASSUME TypeInv, NEW r \in Reqs, NEW b \in Bookings, b = req[r].b, Covered(b),
           RefundProvider(r), returned[b] \in Nat, req[r].amt \in Nat
    PROVE  returned'[b] \in Nat /\ Covered(b)'
  <1> USE DEF money
  <1>1. PICK C \in SUBSET (1 .. returned[b]), g \in [Reqs -> SUBSET (1 .. returned[b])] :
             Counts(b, C, g)
    BY DEF Covered
  <1>2. PICK n : n = returned[b] OBVIOUS
  <1>3. PICK a : a = req[r].amt OBVIOUS
  <1>4. n \in Nat /\ a \in Nat BY <1>2, <1>3
  <1>5. /\ returned'[b] = n + a /\ refunded' = refunded
        /\ req'[r].pc = "refund_row" /\ req'[r].b = b /\ req'[r].amt = a
        /\ \A q \in Reqs \ {r} : req'[q] = req[q]
        /\ r \notin Uncounted(b)
    <2>1. /\ returned' = [returned EXCEPT ![b] = @ + a] /\ refunded' = refunded
          /\ At(r, "refund_provider")
      BY <1>3 DEF RefundProvider
    <2>2. returned'[b] = n + a BY <1>2, <2>1 DEF TypeInv, TypeOK
    <2>3. r \notin Uncounted(b) BY <2>1 DEF Uncounted, At
    <2> QED BY <1>3, <2>1, <2>2, <2>3, Went DEF RefundProvider
  <1> DEFINE h == [g EXCEPT ![r] = (n + 1) .. (n + a)]
  <1>6. /\ C \in SUBSET (1 .. returned'[b]) /\ h \in [Reqs -> SUBSET (1 .. returned'[b])]
        /\ h[r] = (n + 1) .. (n + a) /\ \A q \in Reqs \ {r} : h[q] = g[q]
    BY <1>1, <1>2, <1>4, <1>5
  <1> HIDE DEF h
  <1>7. Uncounted(b)' = Uncounted(b) \cup {r} BY <1>5 DEF Uncounted, At
  <1>8. Cardinality(h[r]) = a BY <1>4, <1>6, FS_Interval
  <1>9. \A q \in Uncounted(b) : h[q] = g[q] /\ h[r] \cap h[q] = {}
    BY <1>1, <1>2, <1>4, <1>5, <1>6 DEF Uncounted
  <1>10. h[r] \cap C = {} BY <1>1, <1>2, <1>4, <1>6
  <1>11. \A q \in Uncounted(b)' : Cardinality(h[q]) = req'[q].amt /\ h[q] \cap C = {}
    BY <1>1, <1>5, <1>7, <1>8, <1>9, <1>10 DEF Counts, Uncounted
  <1>12. \A q, s \in Uncounted(b)' : q # s => h[q] \cap h[s] = {}
    BY <1>1, <1>7, <1>9 DEF Counts
  <1>13. Counts(b, C, h)' BY <1>1, <1>5, <1>11, <1>12 DEF Counts
  <1> QED BY <1>4, <1>5, <1>6, <1>13 DEF Covered

(* The row of a refund is written.                                         *)
LEMMA CoveredCounted ==
    ASSUME TypeInv, NEW r \in Reqs, NEW b \in Bookings, b = req[r].b, Covered(b),
           RefundRow(r), returned[b] \in Nat
    PROVE  returned'[b] \in Nat /\ Covered(b)'
  <1> USE DEF money
  <1>1. PICK C \in SUBSET (1 .. returned[b]), g \in [Reqs -> SUBSET (1 .. returned[b])] :
             Counts(b, C, g)
    BY DEF Covered
  <1>2. /\ r \in Uncounted(b) /\ returned' = returned
        /\ refunded' = [refunded EXCEPT ![b] = @ + req[r].amt]
        /\ req'[r].pc = "refund_update" /\ \A q \in Reqs \ {r} : req'[q] = req[q]
    BY Went DEF RefundRow, Uncounted
  <1>3. refunded'[b] = refunded[b] + req[r].amt /\ returned[b] \in Nat
    BY <1>2 DEF TypeInv, TypeOK
  <1> DEFINE B == C \cup g[r]
  <1>4. B \in SUBSET (1 .. returned'[b]) BY <1>1, <1>2
  <1>5. Cardinality(B) = refunded'[b]
    <2>1. IsFiniteSet(1 .. returned[b]) BY <1>3, FS_Interval
    <2>2. IsFiniteSet(C) /\ IsFiniteSet(g[r]) BY <1>1, <2>1, FS_Subset
    <2>3. Cardinality(C) = refunded[b] /\ Cardinality(g[r]) = req[r].amt /\ C \cap g[r] = {}
      BY <1>1, <1>2 DEF Counts
    <2>4. Cardinality(C \cap g[r]) = 0 BY <2>3, FS_EmptySet
    <2>5. Cardinality(C) \in Nat /\ Cardinality(g[r]) \in Nat BY <2>2, FS_CardinalityType
    <2>6. Cardinality(B) = Cardinality(C) + Cardinality(g[r]) - Cardinality(C \cap g[r])
      BY <2>2, FS_Union
    <2> HIDE DEF B
    <2> QED BY <1>3, <2>3, <2>4, <2>5, <2>6
  <1>6. Uncounted(b)' = Uncounted(b) \ {r} BY <1>2 DEF Uncounted, At
  <1>7. \A q \in Uncounted(b)' : Cardinality(g[q]) = req'[q].amt /\ g[q] \cap B = {}
    BY <1>1, <1>2, <1>6 DEF Counts, Uncounted
  <1>8. \A q, s \in Uncounted(b)' : q # s => g[q] \cap g[s] = {} BY <1>1, <1>6 DEF Counts
  <1> HIDE DEF B
  <1>9. Counts(b, B, g)' BY <1>5, <1>7, <1>8 DEF Counts
  <1> QED BY <1>1, <1>2, <1>4, <1>9 DEF Covered

LEMMA RefundNext ==
    ASSUME TypeInv, SignInv, PayInv, RefundInv, [Next]_vars PROVE RefundInv'
  <1> USE DEF property, money, wallets, Frame, Unchanged
  <1>u. \A b \in Bookings : Undisputed(b)' => Undisputed(b)
    BY UndisputedBefore DEF vars, Undisputed
  <1>0. ASSUME UNCHANGED <<refunded, returned, req>> PROVE RefundInv'
    <2>1. ASSUME NEW b \in Bookings, Undisputed(b)' PROVE returned'[b] \in Nat /\ Covered(b)'
      BY <1>0, <1>u, <2>1, CoveredKept DEF RefundInv, Uncounted, At
    <2> QED BY <2>1 DEF RefundInv
  <1>1. CASE UNCHANGED vars BY <1>0, <1>1 DEF vars
  <1>q. ASSUME NEW r \in Reqs, UNCHANGED <<refunded, returned>>,
               \A q \in Reqs \ {r} : req'[q] = req[q],
               req'[r].pc = "refund_row" =>
                    /\ req'[r].pc = req[r].pc /\ req'[r].b = req[r].b
                    /\ req'[r].amt = req[r].amt
        PROVE  RefundInv'
    <2>1. ASSUME NEW b \in Bookings, Undisputed(b)' PROVE returned'[b] \in Nat /\ Covered(b)'
      <3>1. \A q \in Uncounted(b)' : q \in Uncounted(b) /\ req'[q].amt = req[q].amt
        BY <1>q DEF Uncounted, At
      <3> QED BY <1>q, <1>u, <2>1, <3>1, CoveredKept DEF RefundInv
    <2> QED BY <2>1 DEF RefundInv
  <1>2. ASSUME NEW r \in Reqs, Still(r) PROVE RefundInv'
    BY <1>2, <1>q DEF Still, Midway
  <1>3. ASSUME NEW r \in Reqs, RefundProvider(r) \/ RefundRow(r) PROVE RefundInv'
    <2>1. PICK c : c = req[r].b OBVIOUS
    <2>2. c \in Bookings
      BY <1>3, <2>1, BookedPoints DEF RefundProvider, RefundRow, At, Refunding, PayInv
    <2>6. ASSUME RefundProvider(r), Undisputed(c) PROVE req[r].amt \in Nat
      <3>1. req[r].amt \in Int BY DEF TypeInv, ReqInv, Request
      <3>2. CASE payment[c].provider = "INTERNAL"
        <4>1. dispute[c] = NONE BY <2>6, <3>2 DEF Undisputed
        <4> QED BY <2>1, <2>2, <3>1, <4>1 DEF SignInv, Signed
      <3>3. CASE payment[c].provider # "INTERNAL"
        BY <2>1, <2>6, <3>1, <3>3 DEF RefundProvider, Refundable
      <3> QED BY <3>2, <3>3
    <2>3. Undisputed(c)' => returned'[c] \in Nat /\ Covered(c)'
      BY <1>3, <1>u, <2>1, <2>2, <2>6, CoveredPaid, CoveredCounted DEF RefundInv
    <2>4. /\ \A b \in Bookings \ {c} : refunded'[b] = refunded[b] /\ returned'[b] = returned[b]
          /\ req'[r].b = c /\ \A q \in Reqs \ {r} : req'[q] = req[q]
      BY <1>3, <2>1, <2>2, Went DEF RefundProvider, RefundRow, TypeInv, TypeOK
    <2>5. ASSUME NEW b \in Bookings \ {c}, Undisputed(b)'
          PROVE  returned'[b] \in Nat /\ Covered(b)'
      <3>1. \A q \in Uncounted(b)' : q \in Uncounted(b) /\ req'[q].amt = req[q].amt
        BY <2>4 DEF Uncounted, At
      <3> QED BY <1>u, <2>4, <2>5, <3>1, CoveredKept DEF RefundInv
    <2> QED BY <2>3, <2>5 DEF RefundInv
  <1>4. ASSUME NEW r \in Reqs, Moving(r), ~RefundProvider(r), ~RefundRow(r) PROVE RefundInv'
    <2>t. req \in [Reqs -> Request] /\ req[r] \in Request BY DEF TypeInv, ReqInv
    <2>1. CASE CompleteCommit(r) \/ DisputeCommit(r) \/ ResolveCommit(r) \/ WithdrawDebit(r)
      BY <1>q, <2>1, Finished DEF CompleteCommit, DisputeCommit, ResolveCommit, WithdrawDebit
    <2>2. CASE PayCheck(r) \/ PayDebit(r) BY <1>q, <2>2, Went DEF PayCheck, PayDebit
    <2>3. CASE CheckOutCommit(r)
      <3>1. req'[r].pc = "write_history" /\ \A q \in Reqs \ {r} : req'[q] = req[q]
        BY <2>t, <2>3 DEF CheckOutCommit, Request
      <3> QED BY <1>q, <2>3, <3>1 DEF CheckOutCommit
    <2>4. ASSUME NEW o \in Owners, NEW a \in Amounts, WithdrawRead(r, o, a) PROVE RefundInv'
      <3>1. PICK q : q = [Idle EXCEPT !.pc = "withdraw_debit", !.arg = o, !.amt = a] OBVIOUS
      <3>2. q.pc = "withdraw_debit" BY <3>1 DEF Idle
      <3> QED BY <1>q, <2>4, <3>1, <3>2, Started DEF WithdrawRead
    <2> QED BY <1>4, <2>1, <2>2, <2>3, <2>4 DEF Moving
  <1> QED BY <1>0, <1>1, <1>2, <1>3, <1>4, LedgerSteps

(* Refund rows never claim more than was given back, whatever refunds of   *)
(* one payment run at once and wherever one of them dies; for a wallet     *)
(* payment, until it is disputed.                                          *)
THEOREM RefundRowsAreRealHolds == Spec => []RefundRowsAreReal
  <1>1. Init => RefundInv
    <2> SUFFICES ASSUME Init, NEW b \in Bookings PROVE returned[b] \in Nat /\ Covered(b)
      BY DEF RefundInv
    <2>5. returned[b] \in Nat BY DEF Init
    <2>1. Uncounted(b) = {} BY DEF Init, Uncounted, At, Idle
    <2>2. PICK g : g = [r \in Reqs |-> {}] OBVIOUS
    <2>3. Counts(b, {}, g) BY <2>1, FS_EmptySet DEF Init, Counts
    <2>4. {} \in SUBSET (1 .. returned[b]) /\ g \in [Reqs -> SUBSET (1 .. returned[b])]
      BY <2>2
    <2> QED BY <2>3, <2>4, <2>5 DEF Covered
  <1>2. TypeInv /\ SignInv /\ PayInv /\ RefundInv /\ [Next]_vars => RefundInv' BY RefundNext
  <1>3. TypeInv /\ RefundInv => RefundRowsAreReal
    <2> SUFFICES ASSUME TypeInv, RefundInv, NEW b \in Bookings, Undisputed(b)
                 PROVE  refunded[b] <= returned[b]
      BY DEF RefundRowsAreReal, Undisputed
    <2>1. PICK C \in SUBSET (1 .. returned[b]) : Cardinality(C) = refunded[b]
      BY DEF RefundInv, Covered, Counts
    <2>2. PICK n \in Nat : n = returned[b] BY DEF RefundInv
    <2>3. C \in SUBSET (1 .. n) BY <2>1, <2>2
    <2>4. 1 \in Int /\ n \in Int BY <2>2
    <2>5. IsFiniteSet(1 .. n) BY ONLY <2>4, FS_Interval
    <2>6. Cardinality(1 .. n) = IF 1 > n THEN 0 ELSE n - 1 + 1 BY ONLY <2>4, FS_Interval
    <2>7. Cardinality(1 .. n) = n BY ONLY <2>6, n \in Nat
    <2>8. Cardinality(C) <= Cardinality(1 .. n) BY ONLY <2>3, <2>5, FS_Subset
    <2> QED BY ONLY <2>1, <2>2, <2>7, <2>8
  <1> QED BY <1>1, <1>2, <1>3, TypeCorrect, SignsCorrect, PaymentsCorrect, PTL DEF Spec
=============================================================================
