-------------------------------- MODULE Jobs --------------------------------
(***************************************************************************)
(* The Bull queues and their processors: the booking reminder, the host's  *)
(* payout and an e-mail.  One job of each kind: the reminder's id makes it *)
(* unique, the others do not meet.  Bull itself is modelled as the code    *)
(* configures it: three attempts, and one restart of a job whose worker    *)
(* died.  No service adds a job yet: QueuesService is exported, and unused.*)
(***************************************************************************)
EXTENDS Channel

Elsewhere == UNCHANGED <<presence, chat, req>>

First(j) == IF j = "send-email" THEN "send" ELSE "read"

(* scheduleBookingReminder, addPayoutJob, addEmailJob: the job waits for   *)
(* its delay; a reminder that is there already is not added again.         *)
Add(j) ==
    /\ job[j].state = "none"
    /\ left.jobs > 0 /\ left' = [left EXCEPT !.jobs = @ - 1]
    /\ job' = [job EXCEPT ![j].state = "waiting"]
    /\ UNCHANGED <<booking, account, told, payouts, mails>> /\ Elsewhere

Take(j) ==
    /\ job[j].state = "waiting"
    /\ job' = [job EXCEPT ![j].state = "active", ![j].at = First(j)]
    /\ UNCHANGED <<booking, account, told, payouts, mails, left>> /\ Elsewhere

Step(j, p, next) ==
    /\ job[j].state = "active" /\ job[j].at = p
    /\ job' = [job EXCEPT ![j].at = next]
    /\ UNCHANGED left /\ Elsewhere

(* handleReminder: only a confirmed booking; the guest, then the host.     *)
ReminderRead ==
    /\ Step("booking-reminder", "read", IF booking = "CONFIRMED" THEN "guest" ELSE "skip")
    /\ UNCHANGED <<booking, account, told, payouts, mails>>

(* MUTANT of TellGuest: the handler returns after the first notification.  *)
TellGuestOnly ==
    /\ Step("booking-reminder", "guest", "done")
    /\ told' = told \cup {"guest"}
    /\ UNCHANGED <<booking, account, payouts, mails>>

(* sendBookingNotification: the row is what counts; a failure of the       *)
(* e-mail or SMS after it is caught.                                       *)
TellGuest ==
    /\ Step("booking-reminder", "guest", "host")
    /\ told' = told \cup {"guest"}
    /\ UNCHANGED <<booking, account, payouts, mails>>

TellHost ==
    /\ Step("booking-reminder", "host", "done")
    /\ told' = told \cup {"host"}
    /\ UNCHANGED <<booking, account, payouts, mails>>

(* handlePayout: without a verified default account nothing is recorded.   *)
PayoutRead ==
    /\ Step("process-payout", "read", IF account THEN "record" ELSE "skip")
    /\ UNCHANGED <<booking, account, told, payouts, mails>>

(* MUTANT of PayoutRecord: the handler throws after it wrote the row.      *)
PayoutThrows ==
    /\ Step("process-payout", "record", "record")
    /\ payouts' = payouts + 1
    /\ UNCHANGED <<booking, account, told, mails>>

PayoutRecord ==
    /\ Step("process-payout", "record", "done")
    /\ payouts' = payouts + 1
    /\ UNCHANGED <<booking, account, told, mails>>

(* handleSendEmail: sent once the transporter has answered.                *)
SendMail ==
    /\ Step("send-email", "send", "done")
    /\ mails' = mails + 1
    /\ UNCHANGED <<booking, account, told, payouts>>

(* The processor returns, or a statement of it throws and Bull backs off.  *)
Complete(j) ==
    /\ job[j].state = "active" /\ job[j].at \in {"skip", "done"}
    /\ job' = [job EXCEPT ![j].state = "completed"]
    /\ UNCHANGED <<booking, account, told, payouts, mails, left>> /\ Elsewhere

(* MUTANT of Retried: a failed job is tried again without end.             *)
RetriedForEver(t) == [state |-> "waiting", tries |-> t.tries]

Retried(t) == [state |-> IF t.tries + 1 < Attempts THEN "waiting" ELSE "failed",
               tries |-> t.tries + 1]

Throw(j) ==
    /\ job[j].state = "active" /\ job[j].at \notin {"skip", "done"}
    /\ job' = [job EXCEPT ![j].state = Retried(job[j]).state, ![j].tries = Retried(job[j]).tries]
    /\ UNCHANGED <<booking, account, told, payouts, mails, left>> /\ Elsewhere

(* MUTANT of Unstall: the restarts are not limited.                        *)
UnstallForEver(j) ==
    /\ job[j].state = "stalled"
    /\ job' = [job EXCEPT ![j].state = "waiting", ![j].stalls = @ + 1]
    /\ UNCHANGED <<booking, account, told, payouts, mails, left>> /\ Elsewhere

(* Bull finds a job whose worker died.                                     *)
Unstall(j) ==
    /\ job[j].state = "stalled"
    /\ job' = IF job[j].stalls < MaxStalled
              THEN [job EXCEPT ![j].state = "waiting", ![j].stalls = @ + 1]
              ELSE [job EXCEPT ![j].state = "failed"]
    /\ UNCHANGED <<booking, account, told, payouts, mails, left>> /\ Elsewhere

(* While a job waits, the booking is cancelled, or the host makes a new    *)
(* account the default one: nothing in the code verifies an account, that  *)
(* is done by hand.                                                        *)
Cancelled ==
    /\ booking = "CONFIRMED" /\ job["booking-reminder"].state # "none"
    /\ booking' = "CANCELLED"
    /\ UNCHANGED <<job, account, told, payouts, mails, left>> /\ Elsewhere

AddPayoutAccount ==
    /\ account /\ job["process-payout"].state # "none"
    /\ account' = FALSE
    /\ UNCHANGED <<job, booking, told, payouts, mails, left>> /\ Elsewhere

-----------------------------------------------------------------------------
Process(j) ==
    \/ Take(j) \/ Complete(j) \/ Throw(j) \/ Unstall(j)
    \/ j = "booking-reminder" /\ (ReminderRead \/ TellGuest \/ TellHost)
    \/ j = "process-payout" /\ (PayoutRead \/ PayoutRecord)
    \/ j = "send-email" /\ SendMail

JobStep == (\E j \in Jobs : Add(j) \/ Process(j)) \/ Cancelled \/ AddPayoutAccount
=============================================================================
