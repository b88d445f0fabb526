------------------------------- MODULE Rental -------------------------------
(***************************************************************************)
(* The backend: the services composed over the shared tables.  Handlers of *)
(* all services interleave at their awaits; the process may die, or an     *)
(* await reject, at any of them.                                           *)
(***************************************************************************)
EXTENDS Listings, Bookings, Payments, Disputes, Wallets

CONSTANT Exposed   \* the routes and faults that can occur in this instance

Routes == {"create", "confirm", "reject", "checkIn", "checkOut", "cancel",
           "blockDates", "remove", "approve", "suspend", "touch",
           "pay", "capture", "poll", "dispute", "resolve", "escalate", "withdraw"}
Faults == {"drop", "throw", "timeout", "expiry"}

ASSUME ExposedAssumption == Exposed \subseteq Routes \cup Faults

Init ==
    /\ today = 0
    /\ listing = [status |-> "ACTIVE", deleted |-> FALSE]
    /\ blocks = {}
    /\ lock = [s \in Stays |-> NONE]
    /\ stale = {}
    /\ bookings = [b \in Bookings |-> NoBooking]
    /\ history = [b \in Bookings |-> {}]
    /\ dispute = [b \in Bookings |-> NONE]
    /\ payment = [b \in Bookings |-> NoPayment]
    /\ order = [b \in Bookings |-> NoOrder]
    /\ refunded = [b \in Bookings |-> 0]
    /\ returned = [b \in Bookings |-> 0]
    /\ balance = [guest |-> Opening, host |-> 0]
    /\ pending = 0 /\ withdrawn = 0
    /\ req = [r \in Reqs |-> Idle]

Tick ==
    /\ today' \in {d \in Days : d > today}
    /\ UNCHANGED <<property, bookings, history, dispute, money, wallets, req>>

-----------------------------------------------------------------------------
(* A request arrives.                                                      *)

Arrive(r) ==
    \/ "create" \in Exposed /\ \E s \in Stays : AcquireLock(r, s)
    \/ "blockDates" \in Exposed /\ \E s \in Blocks : BlockRead(r, s)
    \/ "remove" \in Exposed /\ RemoveRead(r)
    \/ "withdraw" \in Exposed /\ \E o \in Owners, a \in Amounts : WithdrawRead(r, o, a)
    \/ \E b \in Bookings :
        \/ "confirm" \in Exposed /\ ConfirmRead(r, b)
        \/ "reject" \in Exposed /\ RejectRead(r, b)
        \/ "checkIn" \in Exposed /\ CheckInRead(r, b)
        \/ "checkOut" \in Exposed /\ CheckOutRead(r, b)
        \/ "cancel" \in Exposed /\ CancelRead(r, b)
        \/ "pay" \in Exposed /\ PayRead(r, b)
        \/ "capture" \in Exposed /\ \E o \in Bookings : CapturePaypal(r, o, b)
        \/ "poll" \in Exposed /\ \E o \in Bookings : PollMomo(r, o, b)
        \/ "dispute" \in Exposed /\ DisputeRead(r, b)
        \/ "resolve" \in Exposed /\ \E w \in {"GUEST", "HOST"}, a \in Amounts \cup {0} :
                                        ResolveRead(r, b, w, a)

(* The handlers that are one statement.                                    *)
Single ==
    \/ "approve" \in Exposed /\ Approve
    \/ "suspend" \in Exposed /\ Suspend
    \/ "touch" \in Exposed /\ TouchProperty
    \/ "escalate" \in Exposed /\ \E b \in Bookings : Escalate(b)

(* A handler in flight goes on.                                            *)
Resume(r) ==
    \/ CreateSnapshot(r)  \/ (\E b \in Bookings : CreateCommit(r, b)) \/ ReleaseLock(r)
    \/ BlockWrite(r)      \/ RemoveWrite(r)
    \/ ConfirmWrite(r)    \/ RejectWrite(r)
    \/ CheckInWrite(r)    \/ CheckOutCommit(r) \/ WriteHistory(r)
    \/ CancelUpdate(r)    \/ CancelCommit(r)
    \/ (\E m \in Methods : PayInsert(r, m))
    \/ PayOrder(r)        \/ PayCheck(r)       \/ PayDebit(r)
    \/ PayUpdate(r)       \/ PayLog(r)         \/ PayFailed(r)
    \/ CompleteRead(r)    \/ CompleteUpdate(r) \/ CompleteCommit(r)
    \/ MomoFailed(r)
    \/ RefundRead(r)      \/ RefundProvider(r) \/ RefundRow(r) \/ RefundUpdate(r)
    \/ DisputeCommit(r)   \/ ResolveUpdate(r)  \/ ResolveCommit(r)
    \/ WithdrawDebit(r)

(* The guest at the provider.                                              *)
Guest == \E b \in Bookings : GuestApproves(b) \/ GuestPays(b) \/ GuestDeclines(b)

-----------------------------------------------------------------------------
(* Faults.                                                                 *)

End(r) ==
    /\ ~At(r, "idle")
    /\ stale' = stale \ {r}
    /\ Finish(r)
    /\ UNCHANGED <<today, listing, blocks, lock, bookings, history, dispute, money, wallets>>

(* The process dies, or an await of a handler that catches nothing         *)
(* rejects: what was committed stays, what was not never happens.  A       *)
(* create that dies leaves its Redis lock behind.                          *)
Drop(r) == End(r)

(* The statement that a unique index, the status check of processRefund or *)
(* the provider refuses: the handler throws.                               *)
Refused(r) ==
    LET b == req[r].b IN
    /\ \/ At(r, "pay_insert") /\ payment[b] # NoPayment
       \/ At(r, "refund_read") /\ ~Settled(b)
       \/ /\ At(r, "refund_provider")
          /\ payment[b].provider # "INTERNAL" /\ ~Refundable(b, req[r].amt)
       \/ At(r, "dispute_commit") /\ dispute[b] # NONE
    /\ End(r)

(* MUTANT of TransactionTimeout: transactions without a time limit.        *)
TransactionStays(r) == FALSE /\ UNCHANGED <<vars, r>>

(* Prisma closes an interactive transaction after 5 seconds: its row locks *)
(* go, and its commit fails.  A refund it awaits goes on regardless.       *)
TransactionTimeout(r) ==
    \/ /\ req[r].pc \in {"cancel_commit", "resolve_commit", "complete_commit"}
       /\ End(r)
    \/ /\ req[r].pc \in RefundPoints /\ req[r].ret # "idle"
       /\ req' = [req EXCEPT ![r].ret = "idle"]
       /\ UNCHANGED <<today, property, bookings, history, dispute, money, wallets>>

Fault(r) ==
    \/ "drop" \in Exposed /\ Drop(r)
    \/ "throw" \in Exposed /\ PayThrow(r)

(* What happens to a request in flight without anybody's doing.            *)
Advance(r) ==
    \/ Resume(r)
    \/ Refused(r)
    \/ CreateAbort(r)
    \/ "timeout" \in Exposed /\ TransactionTimeout(r)

Expire(s) == "expiry" \in Exposed /\ LockExpires(s)

Next ==
    \/ Tick
    \/ Single
    \/ Guest
    \/ \E r \in Reqs : Arrive(r) \/ Advance(r) \/ Fault(r)
    \/ \E s \in Stays : Expire(s)

Spec == Init /\ [][Next]_vars

(* Node resumes a handler whose await is done, a failed statement throws,  *)
(* the timeout of a transaction runs out.  Strong fairness because         *)
(* PostgreSQL queues the handlers that wait for a row: a waiter is not     *)
(* overtaken for ever.  Nothing obliges a user, the clock or a fault to    *)
(* act.                                                                    *)
Fairness == \A r \in Reqs : SF_vars(Advance(r))

FairSpec == Spec /\ Fairness
=============================================================================
