------------------------------ MODULE Realtime ------------------------------
(***************************************************************************)
(* The gateway, the messages and the jobs in one server process that may   *)
(* crash, and what must hold of them.                                      *)
(***************************************************************************)
EXTENDS Chat, Jobs

Init ==
    /\ socket = [s \in Sockets |-> Unborn]
    /\ online = {} /\ socketMap = [u \in Users |-> NONE]
    /\ messages = {} /\ lastAt = 0 /\ lastRead = [p \in Participants |-> 0]
    /\ talk \in {"none", "open"} /\ clock = 1
    /\ req = [r \in Reqs |-> Idle]
    /\ job = [j \in Jobs |-> [state |-> "none", at |-> "read", tries |-> 0, stalls |-> 0]]
    /\ booking = "CONFIRMED" /\ account = TRUE
    /\ told = {} /\ payouts = 0 /\ mails = 0
    /\ left \in Workloads
    /\ muddled = {} /\ misread = {}
    /\ seen = [p \in Participants |-> {}] /\ passed = [p \in Participants |-> {}]

Next == ChatStep \/ JobStep \/ Crash

(* Bull's workers keep taking jobs, and its stalled check keeps running.   *)
Spec == Init /\ [][Next]_vars /\ \A j \in Jobs : WF_vars(Process(j))

-----------------------------------------------------------------------------
(* Sockets, keys, rows and jobs have their types.                          *)
RealtimeTypeOK ==
    /\ socket \in [Sockets -> Socket]
    /\ online \subseteq Users /\ socketMap \in [Users -> Sockets \cup {NONE}]
    /\ messages \subseteq Message /\ lastAt \in Nat
    /\ lastRead \in [Participants -> Nat]
    /\ talk \in {"none", "open", "archived"} /\ clock \in Nat
    /\ req \in [Reqs -> Request]
    /\ job \in [Jobs -> JobRow]
    /\ booking \in {"CONFIRMED", "CANCELLED"} /\ account \in BOOLEAN
    /\ told \subseteq Participants /\ payouts \in Nat /\ mails \in Nat
    /\ left \in [events : Nat, jobs : Nat, crashes : Nat]
    /\ muddled \subseteq Users /\ misread \subseteq Participants
    /\ seen \in [Participants -> SUBSET messages]
    /\ passed \in [Participants -> SUBSET messages]

(* Presence heals: a crash, a second socket or an early close may leave    *)
(* online-users and socket-map wrong, but after one connection that met    *)
(* nothing else of the user's they say again who is there and where.       *)
PresenceHeals ==
    \A u \in Users \ muddled :
        (\A s \in Of(u) : ~Busy(s)) =>
            /\ u \in online <=> \E s \in Of(u) : socket[s].up
            /\ \A s \in Of(u) : socket[s].up => socketMap[u] = s

(* What a socket hears in the conversation's room was committed, and only  *)
(* sockets of the two participants hear it.                                *)
HeardRightly ==
    \A s \in Sockets :
        socket[s].heard # {} =>
            socket[s].heard \subseteq messages /\ socket[s].owner \in Participants

(* getMessages counts all messages as read and shows one page of them, so  *)
(* not every message is shown or unread; but one that a participant has    *)
(* not been shown was there at their last look, when they asked for        *)
(* another page or marked all as read, or getUnreadCount counts the        *)
(* conversation, or getMessages is about to fetch; except after a look     *)
(* that a slower message or a crash overtook, until the next one.          *)
NewsCounted ==
    \A p \in Participants :
        \/ messages \subseteq seen[p] \cup passed[p]
        \/ Unread(p)
        \/ p \in misread
        \/ \E r \in Reqs : At(r, "read_fetch") /\ req[r].user = p

(* A completed reminder told both guest and host, unless the booking was   *)
(* no longer confirmed; retries and restarts skip nobody.                  *)
ReminderTellsBoth ==
    job["booking-reminder"].state = "completed" =>
        job["booking-reminder"].at = "skip" \/ told = Participants

(* A payout or an e-mail is repeated only by a restart after a crash: a    *)
(* failed attempt has done nothing yet.                                    *)
RepeatedOnlyByRestart ==
    /\ payouts <= 1 + job["process-payout"].stalls
    /\ mails <= 1 + job["send-email"].stalls

(* Every job that was added completes or fails for good.                   *)
JobsEnd ==
    \A j \in Jobs :
        job[j].state = "waiting" ~> job[j].state \in {"completed", "failed"}
=============================================================================
