-------------------------------- MODULE Chat --------------------------------
(***************************************************************************)
(* app.gateway.ts and messaging.service.ts: who is online, who hears a     *)
(* message when it is sent, and who still has messages to read.            *)
(***************************************************************************)
EXTENDS Channel

-----------------------------------------------------------------------------
(* Presence.  handleConnection and handleDisconnect write two Redis keys   *)
(* each, an await apart, and neither looks at the user's other sockets.    *)

(* Its own connection clears a muddle, unless something of the user's is   *)
(* still going on.                                                         *)
Muddle(u, s) ==
    IF \E t \in Of(u) \ {s} : socket[t].up \/ Busy(t)
    THEN muddled \cup {u} ELSE muddled \ {u}

Connect(s) ==
    /\ socket[s].owner = NONE /\ \A t \in Sockets : t < s => socket[t].owner # NONE
    /\ Arrive
    /\ \E u \in Users :
          /\ socket' = [socket EXCEPT ![s].owner = u, ![s].up = TRUE, ![s].link = "sadd"]
          /\ muddled' = Muddle(u, s)
    /\ UNCHANGED <<online, socketMap, chat, req, work>>

ConnectOnline(s) ==
    /\ socket[s].link = "sadd"
    /\ online' = online \cup {socket[s].owner}
    /\ socket' = [socket EXCEPT ![s].link = "hset"]
    /\ UNCHANGED <<socketMap, muddled, chat, req, work, left>>

ConnectMap(s) ==
    /\ socket[s].link = "hset"
    /\ socketMap' = [socketMap EXCEPT ![socket[s].owner] = s]
    /\ socket' = [socket EXCEPT ![s].link = "ready"]
    /\ UNCHANGED <<online, muddled, chat, req, work, left>>

(* The socket closes, perhaps before its connection was dealt with.        *)
Close(s) ==
    /\ socket[s].up
    /\ socket' = [socket EXCEPT ![s].up = FALSE, ![s].joined = FALSE, ![s].drop = "srem"]
    /\ muddled' = IF socket[s].link # "ready"
                        \/ \E t \in Of(socket[s].owner) \ {s} : socket[t].up \/ Busy(t)
                  THEN muddled \cup {socket[s].owner} ELSE muddled
    /\ UNCHANGED <<online, socketMap, chat, req, work, left>>

(* MUTANT of CloseOnline: the socket's user stays in online-users.         *)
CloseForgets(s) ==
    /\ socket[s].drop = "srem"
    /\ socket' = [socket EXCEPT ![s].drop = "hdel"]
    /\ UNCHANGED <<online, socketMap, muddled, chat, req, work, left>>

CloseOnline(s) ==
    /\ socket[s].drop = "srem"
    /\ online' = online \ {socket[s].owner}
    /\ socket' = [socket EXCEPT ![s].drop = "hdel"]
    /\ UNCHANGED <<socketMap, muddled, chat, req, work, left>>

CloseMap(s) ==
    /\ socket[s].drop = "hdel"
    /\ socketMap' = [socketMap EXCEPT ![socket[s].owner] = NONE]
    /\ socket' = [socket EXCEPT ![s].drop = "gone"]
    /\ UNCHANGED <<online, muddled, chat, req, work, left>>

-----------------------------------------------------------------------------
(* The conversation and its room.                                          *)

(* getOrCreateConversation, for a booking: bookingId is unique.            *)
OpenRead(r) ==
    /\ talk = "none"
    /\ Start(r, [Idle EXCEPT !.pc = "open_create"])
    /\ UNCHANGED <<presence, chat, work>>

OpenCreate(r) ==
    /\ At(r, "open_create")
    /\ talk' = IF talk = "none" THEN "open" ELSE talk
    /\ Finish(r)
    /\ UNCHANGED <<presence, messages, lastAt, lastRead, clock, seen, passed, misread,
                   work, left>>

(* archiveConversation: it leaves the lists; messages still go in.         *)
Archive(r) ==
    /\ talk # "none"
    /\ Start(r, Idle)
    /\ talk' = "archived"
    /\ UNCHANGED <<presence, messages, lastAt, lastRead, clock, seen, passed, misread,
                   work>>

(* MUTANT of Join: anyone may join the conversation's room.                *)
JoinAnyone(s) ==
    /\ talk # "none" /\ socket[s].up /\ ~socket[s].joined
    /\ Arrive
    /\ socket' = [socket EXCEPT ![s].joined = TRUE]
    /\ UNCHANGED <<online, socketMap, muddled, chat, req, work>>

(* join-conversation: participants only.                                   *)
Join(s) ==
    /\ talk # "none" /\ socket[s].up /\ ~socket[s].joined
    /\ socket[s].owner \in Participants
    /\ Arrive
    /\ socket' = [socket EXCEPT ![s].joined = TRUE]
    /\ UNCHANGED <<online, socketMap, muddled, chat, req, work>>

-----------------------------------------------------------------------------
(* Sending: by the gateway or, without the broadcast, by messaging.service.*)
(* The transaction inserts the message, takes the time and commits; the    *)
(* clock may stand still between two timestamps.                           *)

Send(r) ==
    /\ talk # "none"
    /\ \E u \in Participants, live \in BOOLEAN :
          Start(r, [Idle EXCEPT !.pc = "send_insert", !.user = u, !.live = live])
    /\ UNCHANGED <<presence, chat, work>>

SendInsert(r) ==
    /\ At(r, "send_insert")
    /\ clock' \in {clock, clock + 1}
    /\ \A m \in messages : ~(m.at = clock' /\ m.from = req[r].user)
    /\ \A q \in Reqs : ~(At(q, "send_commit") /\ req[q].at = clock' /\ req[q].user = req[r].user)
    /\ req' = [req EXCEPT ![r].pc = "send_commit", ![r].at = clock']
    /\ UNCHANGED <<presence, messages, lastAt, lastRead, talk, seen, passed, misread,
                   work, left>>

Sent(r) == [at |-> req[r].at, from |-> req[r].user]

(* A message that is older than the time its reader last looked at counts  *)
(* as read before it was there.                                            *)
SendCommit(r) ==
    /\ At(r, "send_commit")
    /\ messages' = messages \cup {Sent(r)}
    /\ lastAt' = req[r].at
    /\ seen' = [seen EXCEPT ![req[r].user] = @ \cup {Sent(r)}]
    /\ misread' = misread \cup {p \in Participants : lastRead[p] >= req[r].at}
    /\ IF req[r].live THEN Goto(r, "send_emit") ELSE Finish(r)
    /\ UNCHANGED <<presence, lastRead, talk, clock, passed, work, left>>

(* new-message goes to the room.  The notification after it goes to the    *)
(* personal room of users who are not online, where nobody is.             *)
SendEmit(r) ==
    /\ At(r, "send_emit")
    /\ socket' = [s \in Sockets |-> [socket[s] EXCEPT
                    !.heard = IF socket[s].joined THEN @ \cup {Sent(r)} ELSE @]]
    /\ Finish(r)
    /\ UNCHANGED <<online, socketMap, muddled, chat, work, left>>

-----------------------------------------------------------------------------
(* Reading: getMessages stamps lastReadAt for all messages and then        *)
(* fetches one page of them, of the number and the size the client asks    *)
(* for, newest first.                                                      *)

Pages == {P \in SUBSET messages :
            \A a, b \in P, m \in messages : a.at < m.at /\ m.at < b.at => m \in P}

ReadStart(r) ==
    /\ talk # "none"
    /\ \E u \in Participants : Start(r, [Idle EXCEPT !.pc = "read_stamp", !.user = u])
    /\ UNCHANGED <<presence, chat, work>>

ReadStamp(r) ==
    /\ At(r, "read_stamp")
    /\ clock' \in {clock, clock + 1}
    /\ lastRead' = [lastRead EXCEPT ![req[r].user] = clock']
    /\ Goto(r, "read_fetch")
    /\ UNCHANGED <<presence, messages, lastAt, talk, seen, passed, misread, work, left>>

(* MUTANT of ReadFetch: the page is a cached one, older than the stamp.    *)
ReadOldPage(r) ==
    /\ At(r, "read_fetch")
    /\ misread' = misread \ {req[r].user}
    /\ Finish(r)
    /\ UNCHANGED <<presence, messages, lastAt, lastRead, talk, clock, seen, passed, work,
                   left>>

ReadFetch(r) ==
    /\ At(r, "read_fetch")
    /\ LET u == req[r].user
       IN  \E P \in Pages :
             /\ seen' = [seen EXCEPT ![u] = @ \cup P]
             /\ passed' = [passed EXCEPT ![u] = messages \ (seen[u] \cup P)]
             /\ misread' = misread \ {u}
    /\ Finish(r)
    /\ UNCHANGED <<presence, messages, lastAt, lastRead, talk, clock, work, left>>

(* mark-read stamps without fetching: the client wants none of them.       *)
MarkRead(r) ==
    /\ talk # "none"
    /\ Start(r, Idle)
    /\ clock' \in {clock, clock + 1}
    /\ \E u \in Participants :
          /\ lastRead' = [lastRead EXCEPT ![u] = clock']
          /\ passed' = [passed EXCEPT ![u] = messages \ seen[u]]
          /\ misread' = misread \ {u}
    /\ UNCHANGED <<presence, messages, lastAt, talk, seen, work>>

(* getUnreadCount: whether it counts the conversation for p.               *)
Unread(p) == lastRead[p] = 0 \/ lastAt > lastRead[p]

-----------------------------------------------------------------------------
ChatStep ==
    \/ \E s \in Sockets :
          \/ Connect(s) \/ ConnectOnline(s) \/ ConnectMap(s)
          \/ Close(s) \/ CloseOnline(s) \/ CloseMap(s) \/ Join(s)
    \/ \E r \in Reqs :
          \/ OpenRead(r) \/ OpenCreate(r) \/ Archive(r)
          \/ Send(r) \/ SendInsert(r) \/ SendCommit(r) \/ SendEmit(r)
          \/ ReadStart(r) \/ ReadStamp(r) \/ ReadFetch(r) \/ MarkRead(r)
=============================================================================
