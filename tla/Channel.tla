------------------------------ MODULE Channel -------------------------------
(***************************************************************************)
(* What the WebSocket gateway, the messaging service and the job queues    *)
(* share: one conversation of a guest and a host, the sockets of anybody,  *)
(* the presence keys in Redis, the Bull jobs, and a server that may crash. *)
(*                                                                         *)
(* The gateway's handlers run beside each other: every event of a socket   *)
(* starts one, and none waits for the one before.  Connecting and closing  *)
(* a socket take a handler each, kept with the socket; the rest are in     *)
(* the request slots.                                                      *)
(***************************************************************************)
EXTENDS Integers, FiniteSets

CONSTANTS
    Reqs,          \* request slots: message handlers in flight at once
    Sockets,       \* ids of sockets, numbers
    NONE,          \* "nobody", "no socket"
    Attempts,      \* defaultJobOptions.attempts
    MaxStalled,    \* how often Bull restarts a job whose worker died
    Workloads      \* bound: how many chat events, jobs and crashes may come

Participants == {"guest", "host"}
Users        == Participants \cup {"stranger"}
Jobs         == {"booking-reminder", "process-payout", "send-email"}

ASSUME ChannelAssumption ==
    /\ Sockets \subseteq Nat
    /\ Attempts \in Nat \ {0}
    /\ MaxStalled \in Nat
    /\ Workloads \subseteq [events : Nat, jobs : Nat, crashes : Nat]
    /\ NONE \notin Sockets /\ NONE \notin Users

VARIABLES
    socket,     \* the sockets: owner, whether it is up, rooms, what it heard
    online,     \* Redis: the set online-users
    socketMap,  \* Redis: the hash socket-map
    messages,   \* the committed messages: each is named by its timestamp and sender
    lastAt,     \* Conversation.lastMessageAt, 0 for null
    lastRead,   \* ConversationParticipant.lastReadAt, 0 for null
    talk,       \* the conversation of the booking: none, open or archived
    clock,      \* the server's clock
    req,        \* the message handlers in flight
    job,        \* the Bull jobs and the point their processor is at
    booking,    \* Booking.status of the reminder's booking
    account,    \* whether the host has a verified default payout account
    told,       \* the participants the reminder has notified
    payouts,    \* the PAYOUT transactions recorded
    mails,      \* the e-mails sent
    left,       \* how many chat events, jobs and crashes may still come
    muddled,    \* history: users whose last connection overlapped something
    seen,       \* history: the messages each participant has been shown
    passed,     \* history: the ones that were there at their last look, and not shown
    misread     \* history: whose lastReadAt a slower message or a crash made wrong

presence == <<socket, online, socketMap, muddled>>
chat     == <<messages, lastAt, lastRead, talk, clock, seen, passed, misread>>
work     == <<job, booking, account, told, payouts, mails>>
vars     == <<presence, chat, req, work, left>>

-----------------------------------------------------------------------------
Links == {"none", "sadd", "hset", "ready"}
Drops == {"none", "srem", "hdel", "gone"}
Message == [at : Nat, from : Participants]

Socket == [owner : Users \cup {NONE}, up : BOOLEAN, link : Links, drop : Drops,
           joined : BOOLEAN, heard : SUBSET Message]
Unborn == [owner |-> NONE, up |-> FALSE, link |-> "none", drop |-> "none",
           joined |-> FALSE, heard |-> {}]

Of(u)   == {s \in Sockets : socket[s].owner = u}
Busy(s) == socket[s].link \in {"sadd", "hset"} \/ socket[s].drop \in {"srem", "hdel"}

Points  == {"idle", "send_insert", "send_commit", "send_emit", "read_stamp", "read_fetch",
            "open_create"}
Request == [pc : Points, user : Users \cup {NONE}, at : Nat, live : BOOLEAN]
Idle    == [pc |-> "idle", user |-> NONE, at |-> 0, live |-> FALSE]

At(r, p)    == req[r].pc = p
Goto(r, p)  == req' = [req EXCEPT ![r].pc = p]
Finish(r)   == req' = [req EXCEPT ![r] = Idle]
Arrive      == left.events > 0 /\ left' = [left EXCEPT !.events = @ - 1]
Start(r, q) == At(r, "idle") /\ Arrive /\ req' = [req EXCEPT ![r] = q]

JobRow == [state : {"none", "waiting", "active", "stalled", "completed", "failed"},
           at : {"read", "guest", "host", "record", "send", "skip", "done"},
           tries : 0..Attempts, stalls : 0..MaxStalled]

(* The server dies with every handler, socket and job it was working on;   *)
(* Redis and the database keep what they have.                             *)
Crash ==
    /\ left.crashes > 0 /\ left' = [left EXCEPT !.crashes = @ - 1]
    /\ socket' = [s \in Sockets |-> [socket[s] EXCEPT !.up = FALSE, !.joined = FALSE,
           !.link = IF @ = "none" THEN "none" ELSE "ready",
           !.drop = IF socket[s].link = "none" THEN "none" ELSE "gone"]]
    /\ muddled' = muddled \cup online \cup {socket[s].owner : s \in {t \in Sockets : Busy(t)}}
    /\ misread' = misread \cup {req[r].user : r \in {q \in Reqs : At(q, "read_fetch")}}
    /\ req' = [r \in Reqs |-> Idle]
    /\ job' = [j \in Jobs |-> IF job[j].state = "active"
                              THEN [job[j] EXCEPT !.state = "stalled"] ELSE job[j]]
    /\ UNCHANGED <<online, socketMap, messages, lastAt, lastRead, talk, clock, seen,
                   passed, booking, account, told, payouts, mails>>
=============================================================================
