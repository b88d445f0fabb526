---------------------------- MODULE RealtimeProofs ----------------------------
(***************************************************************************)
(* What the gateway, the messages and the jobs keep true in every          *)
(* instance, however many sockets, handlers, crashes and retries there     *)
(* are.                                                                    *)
(***************************************************************************)
EXTENDS Realtime, TLAPS

LEMMA ChannelNumbers ==
    /\ Sockets \subseteq Nat /\ Attempts \in Nat /\ Attempts >= 1 /\ MaxStalled \in Nat
    /\ NONE \notin Sockets /\ NONE \notin Users
    /\ Workloads \subseteq [events : Nat, jobs : Nat, crashes : Nat]
  BY ChannelAssumption

-----------------------------------------------------------------------------
(* Types.  A handler that writes for a user was started for one, a socket  *)
(* at work has an owner, and a job that may run again has attempts left.   *)

Speaking == {"send_insert", "send_commit", "send_emit", "read_stamp", "read_fetch"}
Alive    == {"none", "waiting", "active", "stalled"}

Spoken  == \A r \in Reqs : req[r].pc \in Speaking => req[r].user \in Participants
Owned   == \A s \in Sockets :
               socket[s].up \/ socket[s].link # "none" \/ socket[s].drop # "none" =>
                   socket[s].owner \in Users
Retries == \A j \in Jobs : job[j].state \in Alive => job[j].tries < Attempts

Sound == RealtimeTypeOK /\ Spoken /\ Owned /\ Retries

LEMMA IdleOK ==
    Idle \in Request /\ Idle.pc = "idle" /\ Idle.live = FALSE
  BY DEF Idle, Request, Points

LEMMA Went ==
    ASSUME RealtimeTypeOK, NEW r \in Reqs, NEW p \in Points, Goto(r, p)
    PROVE  /\ req' \in [Reqs -> Request] /\ req'[r].pc = p
           /\ req'[r].user = req[r].user /\ req'[r].at = req[r].at
           /\ req'[r].live = req[r].live
           /\ \A q \in Reqs \ {r} : req'[q] = req[q]
  <1>1. req \in [Reqs -> Request] /\ req[r] \in Request BY DEF RealtimeTypeOK
  <1>2. [req[r] EXCEPT !.pc = p] \in Request BY <1>1 DEF Request
  <1> QED BY <1>1, <1>2 DEF Goto, Request

LEMMA Finished ==
    ASSUME RealtimeTypeOK, NEW r \in Reqs, Finish(r)
    PROVE  /\ req' \in [Reqs -> Request] /\ req'[r] = Idle
           /\ \A q \in Reqs \ {r} : req'[q] = req[q]
  BY IdleOK DEF RealtimeTypeOK, Finish

LEMMA Arrived ==
    ASSUME RealtimeTypeOK, Arrive
    PROVE  left' \in [events : Nat, jobs : Nat, crashes : Nat]
  <1>1. PICK n \in Nat : n = left.events - 1 BY DEF RealtimeTypeOK, Arrive
  <1>2. left' = [left EXCEPT !.events = n] BY <1>1 DEF Arrive
  <1> QED BY <1>2 DEF RealtimeTypeOK

LEMMA Started ==
    ASSUME RealtimeTypeOK, NEW r \in Reqs, NEW q \in Request, Start(r, q)
    PROVE  /\ req' \in [Reqs -> Request] /\ req'[r] = q /\ req[r].pc = "idle"
           /\ \A s \in Reqs \ {r} : req'[s] = req[s]
           /\ left' \in [events : Nat, jobs : Nat, crashes : Nat]
  <1>1. Arrive /\ req' = [req EXCEPT ![r] = q] /\ req[r].pc = "idle" BY DEF Start, At
  <1>2. req' \in [Reqs -> Request] /\ req'[r] = q /\ \A s \in Reqs \ {r} : req'[s] = req[s]
    BY <1>1 DEF RealtimeTypeOK
  <1>3. left' \in [events : Nat, jobs : Nat, crashes : Nat] BY <1>1, Arrived
  <1> QED BY <1>1, <1>2, <1>3

(* The steps on the sockets.                                               *)
LEMMA PresenceTypes ==
    ASSUME Sound, NEW s \in Sockets,
           \/ Connect(s) \/ ConnectOnline(s) \/ ConnectMap(s)
           \/ Close(s) \/ CloseOnline(s) \/ CloseMap(s) \/ Join(s)
    PROVE  Sound'
  <1> USE DEF presence, chat, work
  <1>t. /\ socket \in [Sockets -> Socket] /\ socket[s] \in Socket
        /\ online \subseteq Users /\ socketMap \in [Users -> Sockets \cup {NONE}]
        /\ left \in [events : Nat, jobs : Nat, crashes : Nat]
        /\ muddled \subseteq Users
    BY DEF Sound, RealtimeTypeOK
  <1>1. /\ UNCHANGED <<messages, lastAt, lastRead, talk, clock, seen, passed, misread, req>>
        /\ UNCHANGED <<job, booking, account, told, payouts, mails>>
    BY DEF Connect, ConnectOnline, ConnectMap, Close, CloseOnline, CloseMap, Join
  <1>2. Spoken' /\ Retries' BY <1>1 DEF Sound, Spoken, Retries
  <1>3. left' \in [events : Nat, jobs : Nat, crashes : Nat]
    <2>1. CASE Arrive BY <2>1, Arrived DEF Sound
    <2>2. CASE left' = left BY <2>2, <1>t
    <2> QED BY <2>1, <2>2 DEF Connect, ConnectOnline, ConnectMap, Close, CloseOnline, CloseMap,
            Join
  <1>4. socket[s].up \/ socket[s].link # "none" \/ socket[s].drop # "none" =>
            socket[s].owner \in Users
    BY DEF Sound, Owned
  <1>5. PICK n : /\ socket' = [socket EXCEPT ![s] = n] /\ n \in Socket
                 /\ n.owner \in Users
    <2>1. CASE Connect(s)
      <3>1. PICK u \in Users :
              socket' = [socket EXCEPT ![s].owner = u, ![s].up = TRUE, ![s].link = "sadd"]
        BY <2>1 DEF Connect
      <3>2. PICK n : n = [socket[s] EXCEPT !.owner = u, !.up = TRUE, !.link = "sadd"] OBVIOUS
      <3>3. n \in Socket /\ n.owner = u BY <1>t, <3>2 DEF Socket, Links
      <3>4. socket' = [socket EXCEPT ![s] = n] BY <3>1, <3>2, <1>t DEF Socket
      <3> QED BY <3>3, <3>4
    <2>2. CASE ConnectOnline(s) \/ ConnectMap(s)
      <3>1. PICK l \in {"hset", "ready"} : socket' = [socket EXCEPT ![s].link = l]
        BY <2>2 DEF ConnectOnline, ConnectMap
      <3>2. PICK n : n = [socket[s] EXCEPT !.link = l] OBVIOUS
      <3>3. n \in Socket /\ n.owner = socket[s].owner BY <1>t, <3>2 DEF Socket, Links
      <3>4. socket' = [socket EXCEPT ![s] = n] BY <3>1, <3>2
      <3>5. socket[s].owner \in Users BY <1>4, <2>2 DEF ConnectOnline, ConnectMap
      <3> QED BY <3>3, <3>4, <3>5
    <2>3. CASE Close(s)
      <3>1. socket' = [socket EXCEPT ![s].up = FALSE, ![s].joined = FALSE, ![s].drop = "srem"]
        BY <2>3 DEF Close
      <3>2. PICK n : n = [socket[s] EXCEPT !.up = FALSE, !.joined = FALSE, !.drop = "srem"]
        OBVIOUS
      <3>3. n \in Socket /\ n.owner = socket[s].owner BY <1>t, <3>2 DEF Socket, Drops
      <3>4. socket' = [socket EXCEPT ![s] = n] BY <3>1, <3>2, <1>t DEF Socket
      <3>5. socket[s].owner \in Users BY <1>4, <2>3 DEF Close
      <3> QED BY <3>3, <3>4, <3>5
    <2>4. CASE CloseOnline(s) \/ CloseMap(s)
      <3>1. PICK l \in {"hdel", "gone"} : socket' = [socket EXCEPT ![s].drop = l]
        BY <2>4 DEF CloseOnline, CloseMap
      <3>2. PICK n : n = [socket[s] EXCEPT !.drop = l] OBVIOUS
      <3>3. n \in Socket /\ n.owner = socket[s].owner BY <1>t, <3>2 DEF Socket, Drops
      <3>4. socket' = [socket EXCEPT ![s] = n] BY <3>1, <3>2
      <3>5. socket[s].owner \in Users BY <1>4, <2>4 DEF CloseOnline, CloseMap
      <3> QED BY <3>3, <3>4, <3>5
    <2>5. CASE Join(s)
      <3>1. socket' = [socket EXCEPT ![s].joined = TRUE] /\ socket[s].owner \in Users
        BY <2>5 DEF Join, Users
      <3>2. PICK n : n = [socket[s] EXCEPT !.joined = TRUE] OBVIOUS
      <3>3. n \in Socket /\ n.owner = socket[s].owner BY <1>t, <3>2 DEF Socket
      <3>4. socket' = [socket EXCEPT ![s] = n] BY <3>1, <3>2
      <3> QED BY <3>1, <3>3, <3>4
    <2> QED BY <2>1, <2>2, <2>3, <2>4, <2>5
  <1>6. socket' \in [Sockets -> Socket] BY <1>5, <1>t
  <1>7. Owned' BY <1>5, <1>t DEF Sound, Owned
  <1>8. online' \subseteq Users /\ socketMap' \in [Users -> Sockets \cup {NONE}]
    <2>1. socket[s].link # "none" => socket[s].owner \in Users BY <1>4
    <2> QED BY <1>t, <2>1 DEF Connect, ConnectOnline, ConnectMap, Close, CloseOnline, CloseMap,
            Join
  <1>9. muddled' \subseteq Users
    <2>1. CASE Close(s) BY <1>t, <1>4, <2>1 DEF Close
    <2>2. CASE ~Close(s)
      BY <1>t, <2>2 DEF Connect, Muddle, ConnectOnline, ConnectMap, CloseOnline, CloseMap, Join
    <2> QED BY <2>1, <2>2
  <1>10. RealtimeTypeOK' BY <1>1, <1>3, <1>6, <1>8, <1>9 DEF Sound, RealtimeTypeOK
  <1> QED BY <1>2, <1>7, <1>10 DEF Sound

(* The handlers of the conversation.                                       *)

LEMMA Openings ==
    /\ [Idle EXCEPT !.pc = "open_create"] \in Request
    /\ \A p \in {"send_insert", "read_stamp"}, u \in Participants, live \in BOOLEAN :
          /\ [Idle EXCEPT !.pc = p, !.user = u, !.live = live] \in Request
          /\ [Idle EXCEPT !.pc = p, !.user = u] \in Request
  BY IdleOK DEF Request, Idle, Points, Users

LEMMA SentIsMessage ==
    ASSUME Sound, NEW r \in Reqs, req[r].pc \in Speaking
    PROVE  /\ Sent(r) \in Message /\ req[r].user \in Participants /\ req[r].at \in Nat
           /\ Sent(r).at = req[r].at /\ Sent(r).from = req[r].user
  <1>1. req[r].user \in Participants BY DEF Sound, Spoken
  <1>2. req[r].at \in Nat BY DEF Sound, RealtimeTypeOK, Request
  <1> QED BY <1>1, <1>2 DEF Sent, Message

(* Everything but the rows keeps its type in a step of a handler.          *)
LEMMA HandlerTypes ==
    ASSUME Sound, NEW r \in Reqs,
           \/ OpenRead(r) \/ OpenCreate(r) \/ Archive(r)
           \/ Send(r) \/ SendInsert(r) \/ SendCommit(r)
           \/ ReadStart(r) \/ ReadStamp(r) \/ ReadFetch(r) \/ MarkRead(r) \/ SendEmit(r)
    PROVE  /\ req' \in [Reqs -> Request]
           /\ left' \in [events : Nat, jobs : Nat, crashes : Nat]
           /\ \A q \in Reqs \ {r} : req'[q] = req[q]
           /\ req'[r].pc \in Speaking => req'[r].user \in Participants
           /\ talk' \in {"none", "open", "archived"} /\ clock' \in Nat
  <1> USE DEF presence, chat, work
  <1>t. /\ req \in [Reqs -> Request] /\ req[r] \in Request
        /\ left \in [events : Nat, jobs : Nat, crashes : Nat]
        /\ talk \in {"none", "open", "archived"} /\ clock \in Nat
    BY DEF Sound, RealtimeTypeOK
  <1> DEFINE Goal == /\ req' \in [Reqs -> Request]
                     /\ left' \in [events : Nat, jobs : Nat, crashes : Nat]
                     /\ \A q \in Reqs \ {r} : req'[q] = req[q]
                     /\ req'[r].pc \in Speaking => req'[r].user \in Participants
  <1>1. talk' \in {"none", "open", "archived"} /\ clock' \in Nat
    <2>1. CASE SendInsert(r) \/ ReadStamp(r) \/ MarkRead(r)
      BY <1>t, <2>1 DEF SendInsert, ReadStamp, MarkRead
    <2>2. CASE OpenCreate(r) \/ Archive(r)
      BY <1>t, <2>2 DEF OpenCreate, Archive
    <2>3. CASE OpenRead(r) \/ Send(r) \/ SendCommit(r) \/ SendEmit(r) \/ ReadStart(r)
               \/ ReadFetch(r)
      BY <1>t, <2>3 DEF OpenRead, Send, SendCommit, SendEmit, ReadStart, ReadFetch
    <2> QED BY <2>1, <2>2, <2>3
  <1>2. ASSUME NEW q \in Request, Start(r, q),
               q.pc \in Speaking => q.user \in Participants
        PROVE  Goal
    BY <1>2, Started DEF Sound
  <1>3. CASE Archive(r) \/ MarkRead(r)
    BY <1>1, <1>3, <1>2, IdleOK DEF Archive, MarkRead, Speaking
  <1>4. CASE OpenRead(r)
    <2>1. PICK q \in Request : q = [Idle EXCEPT !.pc = "open_create"] BY Openings
    <2>2. q.pc \notin Speaking BY <2>1 DEF Idle, Speaking
    <2> QED BY <1>1, <1>2, <1>4, <2>1, <2>2 DEF OpenRead
  <1>5. CASE Send(r)
    <2>1. PICK u \in Participants, live \in BOOLEAN :
            Start(r, [Idle EXCEPT !.pc = "send_insert", !.user = u, !.live = live])
      BY <1>5 DEF Send
    <2>2. PICK q \in Request : q = [Idle EXCEPT !.pc = "send_insert", !.user = u, !.live = live]
      BY Openings
    <2>3. q.user = u BY <2>2 DEF Idle
    <2> QED BY <1>1, <1>2, <2>1, <2>2, <2>3
  <1>6. CASE ReadStart(r)
    <2>1. PICK u \in Participants : Start(r, [Idle EXCEPT !.pc = "read_stamp", !.user = u])
      BY <1>6 DEF ReadStart
    <2>2. PICK q \in Request : q = [Idle EXCEPT !.pc = "read_stamp", !.user = u]
      BY Openings
    <2>3. q.user = u BY <2>2 DEF Idle
    <2> QED BY <1>1, <1>2, <2>1, <2>2, <2>3
  <1>7. CASE OpenCreate(r) \/ SendEmit(r) \/ ReadFetch(r)
    BY <1>1, <1>7, <1>t, Finished, IdleOK DEF OpenCreate, SendEmit, ReadFetch, Sound, Speaking
  <1>8. CASE SendCommit(r) \/ ReadStamp(r)
    <2>1. req[r].user \in Participants
      BY <1>8 DEF SendCommit, ReadStamp, At, Sound, Spoken, Speaking
    <2>2. CASE Finish(r)
      BY <1>1, <1>8, <1>t, <2>2, Finished, IdleOK DEF SendCommit, ReadStamp, Sound, Speaking
    <2>3. ASSUME NEW p \in {"send_emit", "read_fetch"}, Goto(r, p) PROVE Goal
      BY <1>8, <1>t, <2>1, <2>3, Went DEF SendCommit, ReadStamp, Sound, Points
    <2> QED BY <1>1, <1>8, <2>2, <2>3 DEF SendCommit, ReadStamp
  <1>9. CASE SendInsert(r)
    <2>1. PICK n \in Request : n = [req[r] EXCEPT !.pc = "send_commit", !.at = clock']
      BY <1>1, <1>t DEF Request, Points
    <2>2. n.user = req[r].user BY <2>1, <1>t DEF Request
    <2>3. req[r].user \in Participants
      BY <1>9 DEF SendInsert, At, Sound, Spoken, Speaking
    <2>4. req' = [req EXCEPT ![r] = n] BY <1>9, <2>1, <1>t DEF SendInsert, Request
    <2> QED BY <1>1, <1>9, <1>t, <2>2, <2>3, <2>4 DEF SendInsert
  <1> QED BY <1>1, <1>3, <1>4, <1>5, <1>6, <1>7, <1>8, <1>9

LEMMA ChatTypes ==
    ASSUME Sound, NEW r \in Reqs,
           \/ OpenRead(r) \/ OpenCreate(r) \/ Archive(r)
           \/ Send(r) \/ SendInsert(r) \/ SendCommit(r)
           \/ ReadStart(r) \/ ReadStamp(r) \/ ReadFetch(r) \/ MarkRead(r)
    PROVE  Sound' /\ UNCHANGED presence
  <1> USE DEF presence, chat, work
  <1>t. /\ messages \subseteq Message /\ lastAt \in Nat /\ lastRead \in [Participants -> Nat]
        /\ misread \subseteq Participants /\ seen \in [Participants -> SUBSET messages]
        /\ passed \in [Participants -> SUBSET messages]
    BY DEF Sound, RealtimeTypeOK
  <1>1. /\ UNCHANGED <<socket, online, socketMap, muddled>>
        /\ UNCHANGED <<job, booking, account, told, payouts, mails>>
    BY DEF OpenRead, OpenCreate, Archive, Send, SendInsert, SendCommit,
           ReadStart, ReadStamp, ReadFetch, MarkRead
  <1>2. /\ req' \in [Reqs -> Request]
        /\ left' \in [events : Nat, jobs : Nat, crashes : Nat]
        /\ \A q \in Reqs \ {r} : req'[q] = req[q]
        /\ req'[r].pc \in Speaking => req'[r].user \in Participants
        /\ talk' \in {"none", "open", "archived"} /\ clock' \in Nat
    BY HandlerTypes
  <1>3. Spoken' BY <1>2 DEF Sound, Spoken
  <1>4. Owned' /\ Retries' BY <1>1 DEF Sound, Owned, Retries
  <1>5. /\ messages' \subseteq Message /\ lastAt' \in Nat /\ lastRead' \in [Participants -> Nat]
        /\ misread' \subseteq Participants /\ seen' \in [Participants -> SUBSET messages']
        /\ passed' \in [Participants -> SUBSET messages']
    <2>1. CASE SendCommit(r)
      <3>1. Sent(r) \in Message /\ req[r].user \in Participants /\ req[r].at \in Nat
        BY <2>1, SentIsMessage DEF SendCommit, At, Speaking
      <3>2. messages' = messages \cup {Sent(r)} BY <2>1 DEF SendCommit
      <3>3. seen[req[r].user] \cup {Sent(r)} \in SUBSET messages' BY <3>1, <3>2, <1>t
      <3>4. seen' \in [Participants -> SUBSET messages']
        BY <2>1, <3>2, <3>3, <1>t DEF SendCommit
      <3>5. passed' \in [Participants -> SUBSET messages'] BY <2>1, <3>2, <1>t DEF SendCommit
      <3> QED BY <2>1, <3>1, <3>2, <3>4, <3>5, <1>t DEF SendCommit
    <2>2. CASE ReadStamp(r)
      BY <2>2, <1>2, <1>t DEF ReadStamp
    <2>4. CASE ReadFetch(r)
      <3>1. PICK P \in Pages :
              /\ seen' = [seen EXCEPT ![req[r].user] = @ \cup P]
              /\ passed' = [passed EXCEPT ![req[r].user] = messages \ (seen[req[r].user] \cup P)]
              /\ misread' = misread \ {req[r].user}
        BY <2>4 DEF ReadFetch
      <3>2. P \subseteq messages BY DEF Pages
      <3>3. UNCHANGED <<messages, lastAt, lastRead>> BY <2>4 DEF ReadFetch
      <3> QED BY <3>1, <3>2, <3>3, <1>t
    <2>5. CASE MarkRead(r)
      <3>1. PICK u \in Participants :
              /\ lastRead' = [lastRead EXCEPT ![u] = clock']
              /\ passed' = [passed EXCEPT ![u] = messages \ seen[u]]
              /\ misread' = misread \ {u}
        BY <2>5 DEF MarkRead
      <3>2. UNCHANGED <<messages, lastAt, seen>> BY <2>5 DEF MarkRead
      <3> QED BY <3>1, <3>2, <1>2, <1>t
    <2>3. CASE OpenRead(r) \/ OpenCreate(r) \/ Archive(r) \/ Send(r) \/ SendInsert(r)
               \/ ReadStart(r)
      BY <2>3, <1>t DEF OpenRead, OpenCreate, Archive, Send, SendInsert, ReadStart
    <2> QED BY <2>1, <2>2, <2>3, <2>4, <2>5
  <1>6. RealtimeTypeOK' BY <1>1, <1>2, <1>5 DEF Sound, RealtimeTypeOK
  <1> QED BY <1>1, <1>3, <1>4, <1>6 DEF Sound

(* A new-message broadcast and a crash write every socket, and nothing of  *)
(* one but what it hears or what is left of its handlers.                  *)
LEMMA EmitTypes ==
    ASSUME Sound, NEW r \in Reqs, SendEmit(r)
    PROVE  /\ Sound'
           /\ \A s \in Sockets :
                /\ socket'[s].owner = socket[s].owner /\ socket'[s].up = socket[s].up
                /\ socket'[s].link = socket[s].link /\ socket'[s].drop = socket[s].drop
                /\ socket'[s].joined = socket[s].joined
                /\ socket'[s].heard =
                       IF socket[s].joined THEN socket[s].heard \cup {Sent(r)} ELSE socket[s].heard
  <1> USE DEF presence, chat, work
  <1>1. Sent(r) \in Message BY SentIsMessage DEF SendEmit, At, Speaking
  <1>2. ASSUME NEW s \in Sockets
        PROVE  /\ socket'[s] \in Socket
               /\ socket'[s].owner = socket[s].owner /\ socket'[s].up = socket[s].up
               /\ socket'[s].link = socket[s].link /\ socket'[s].drop = socket[s].drop
               /\ socket'[s].joined = socket[s].joined
               /\ socket'[s].heard =
                      IF socket[s].joined THEN socket[s].heard \cup {Sent(r)} ELSE socket[s].heard
    <2>1. socket[s] \in Socket BY DEF Sound, RealtimeTypeOK
    <2>2. PICK h : h = IF socket[s].joined THEN socket[s].heard \cup {Sent(r)}
                       ELSE socket[s].heard
      OBVIOUS
    <2>3. h \in SUBSET Message BY <1>1, <2>1, <2>2 DEF Socket
    <2>4. socket'[s] = [socket[s] EXCEPT !.heard = h] BY <2>2 DEF SendEmit
    <2> QED BY <2>1, <2>2, <2>3, <2>4 DEF Socket
  <1>3. socket' \in [Sockets -> Socket] BY <1>2 DEF SendEmit
  <1>4. /\ req' \in [Reqs -> Request]
        /\ left' \in [events : Nat, jobs : Nat, crashes : Nat]
        /\ \A q \in Reqs \ {r} : req'[q] = req[q]
        /\ req'[r].pc \in Speaking => req'[r].user \in Participants
    BY HandlerTypes
  <1>5. /\ UNCHANGED <<messages, lastAt, lastRead, talk, clock, seen, passed, misread,
                    online, socketMap>>
        /\ UNCHANGED <<job, booking, account, told, payouts, mails, muddled>>
    BY DEF SendEmit
  <1>6. RealtimeTypeOK' BY <1>3, <1>4, <1>5 DEF Sound, RealtimeTypeOK
  <1>7. Spoken' /\ Owned' /\ Retries' BY <1>2, <1>4, <1>5 DEF Sound, Spoken, Owned, Retries
  <1> QED BY <1>2, <1>6, <1>7 DEF Sound

LEMMA CrashTypes ==
    ASSUME Sound, Crash
    PROVE  /\ Sound'
           /\ \A s \in Sockets :
                /\ socket'[s].owner = socket[s].owner /\ ~socket'[s].up /\ ~socket'[s].joined
                /\ socket'[s].link \in {"none", "ready"} /\ socket'[s].drop \in {"none", "gone"}
                /\ socket'[s].heard = socket[s].heard
           /\ \A j \in Jobs :
                /\ job'[j].at = job[j].at /\ job'[j].stalls = job[j].stalls
                /\ job'[j].state =
                      IF job[j].state = "active" THEN "stalled" ELSE job[j].state
  <1> USE DEF presence, chat, work
  <1>1. ASSUME NEW s \in Sockets
        PROVE  /\ socket'[s] \in Socket
               /\ socket'[s].owner = socket[s].owner /\ ~socket'[s].up /\ ~socket'[s].joined
               /\ socket'[s].link \in {"none", "ready"} /\ socket'[s].drop \in {"none", "gone"}
               /\ socket'[s].link # "none" => socket[s].link # "none"
               /\ socket'[s].drop # "none" => socket[s].link # "none"
               /\ socket'[s].heard = socket[s].heard
    <2>1. socket[s] \in Socket BY DEF Sound, RealtimeTypeOK
    <2>2. PICK l : l = IF socket[s].link = "none" THEN "none" ELSE "ready" OBVIOUS
    <2>3. PICK d : d = IF socket[s].link = "none" THEN "none" ELSE "gone" OBVIOUS
    <2>4. socket'[s] = [socket[s] EXCEPT !.up = FALSE, !.joined = FALSE, !.link = l, !.drop = d]
      BY <2>1, <2>2, <2>3 DEF Crash, Socket
    <2>5. l \in {"none", "ready"} /\ d \in {"none", "gone"}
          /\ (l # "none" => socket[s].link # "none") /\ (d # "none" => socket[s].link # "none")
      BY <2>2, <2>3
    <2> QED BY <2>1, <2>4, <2>5 DEF Socket, Links, Drops
  <1>2. socket' \in [Sockets -> Socket] BY <1>1 DEF Crash
  <1>3. ASSUME NEW j \in Jobs
        PROVE  /\ job'[j] \in JobRow
               /\ job'[j].at = job[j].at /\ job'[j].stalls = job[j].stalls
               /\ job'[j].tries = job[j].tries
               /\ job'[j].state = IF job[j].state = "active" THEN "stalled" ELSE job[j].state
    <2>1. job[j] \in JobRow BY DEF Sound, RealtimeTypeOK
    <2> QED BY <2>1 DEF Crash, JobRow
  <1>4. job' \in [Jobs -> JobRow] BY <1>3 DEF Crash
  <1>5. req' \in [Reqs -> Request] /\ \A q \in Reqs : req'[q].pc = "idle"
    BY IdleOK DEF Crash
  <1>6. left' \in [events : Nat, jobs : Nat, crashes : Nat]
    <2>1. left.crashes \in Nat /\ left.crashes > 0 BY DEF Sound, RealtimeTypeOK, Crash
    <2>2. PICK n \in Nat : n = left.crashes - 1 BY <2>1
    <2>3. left' = [left EXCEPT !.crashes = n] BY <2>2 DEF Crash
    <2> QED BY <2>3 DEF Sound, RealtimeTypeOK
  <1>7. muddled' \subseteq Users
    <2>1. \A s \in Sockets : Busy(s) => socket[s].owner \in Users
      BY DEF Busy, Sound, Owned
    <2> QED BY <2>1 DEF Crash, Sound, RealtimeTypeOK
  <1>8. misread' \subseteq Participants
    <2>1. \A r \in Reqs : At(r, "read_fetch") => req[r].user \in Participants
      BY DEF Sound, Spoken, Speaking, At
    <2>2. misread \subseteq Participants BY DEF Sound, RealtimeTypeOK
    <2>3. misread' = misread \cup {req[r].user : r \in {q \in Reqs : At(q, "read_fetch")}}
      BY DEF Crash
    <2> QED BY <2>1, <2>2, <2>3
  <1>9. /\ UNCHANGED <<messages, lastAt, lastRead, talk, clock, seen, passed,
                    online, socketMap>>
        /\ UNCHANGED <<booking, account, told, payouts, mails>>
    BY DEF Crash
  <1>10. RealtimeTypeOK' BY <1>2, <1>4, <1>5, <1>6, <1>7, <1>8, <1>9 DEF Sound, RealtimeTypeOK
  <1>11. Spoken' BY <1>5 DEF Spoken, Speaking
  <1>12. Owned' BY <1>1 DEF Sound, Owned
  <1>13. Retries' BY <1>3 DEF Sound, Retries, Alive
  <1> QED BY <1>1, <1>3, <1>10, <1>11, <1>12, <1>13 DEF Sound

-----------------------------------------------------------------------------
(* The jobs.                                                               *)

(* A step of a job: the row becomes n, in a way that keeps its retries.    *)
Moves(j, n) ==
    /\ n \in JobRow
    /\ n.state \in Alive => n.tries < Attempts
    /\ job' = [job EXCEPT ![j] = n]

LEMMA JobMoves ==
    ASSUME Sound, NEW j \in Jobs, Add(j) \/ Process(j)
    PROVE  \E n : Moves(j, n)
  <1>t. job \in [Jobs -> JobRow] /\ job[j] \in JobRow
        /\ (job[j].state \in Alive => job[j].tries < Attempts)
    BY DEF Sound, RealtimeTypeOK, Retries
  <1>1. ASSUME NEW x \in {"waiting", "completed", "failed"}, job' = [job EXCEPT ![j].state = x],
               x = "waiting" => job[j].state \in Alive
        PROVE  \E n : Moves(j, n)
    <2>1. PICK n : n = [job[j] EXCEPT !.state = x] OBVIOUS
    <2>2. n \in JobRow /\ n.state = x /\ n.tries = job[j].tries BY <1>t, <2>1 DEF JobRow
    <2>3. job' = [job EXCEPT ![j] = n] BY <1>1, <2>1
    <2> QED BY <1>1, <1>t, <2>2, <2>3 DEF Moves, Alive
  <1>2. ASSUME NEW x \in {"read", "guest", "host", "record", "send", "skip", "done"},
               job' = [job EXCEPT ![j].at = x], job[j].state = "active"
        PROVE  \E n : Moves(j, n)
    <2>1. PICK n : n = [job[j] EXCEPT !.at = x] OBVIOUS
    <2>2. n \in JobRow /\ n.state = "active" /\ n.tries = job[j].tries
      BY <1>2, <1>t, <2>1 DEF JobRow
    <2>3. job' = [job EXCEPT ![j] = n] BY <1>2, <2>1
    <2> QED BY <1>2, <1>t, <2>2, <2>3 DEF Moves, Alive
  <1>3. CASE Add(j) BY <1>1, <1>3 DEF Add, Alive
  <1>4. CASE Take(j)
    <2>1. PICK n : n = [job[j] EXCEPT !.state = "active", !.at = First(j)] OBVIOUS
    <2>2. n \in JobRow /\ n.tries = job[j].tries BY <1>t, <2>1 DEF JobRow, First
    <2>3. job' = [job EXCEPT ![j] = n] BY <1>4, <1>t, <2>1 DEF Take, JobRow
    <2> QED BY <1>4, <1>t, <2>2, <2>3 DEF Moves, Alive, Take
  <1>5. CASE Complete(j) BY <1>1, <1>5 DEF Complete
  <1>6. CASE Throw(j)
    <2>1. job[j].tries \in Nat /\ job[j].tries < Attempts
      BY <1>6, <1>t, ChannelNumbers DEF Throw, Alive, JobRow
    <2>2. PICK c \in 0..Attempts : c = job[j].tries + 1 BY <2>1, ChannelNumbers
    <2>3. PICK x \in {"waiting", "failed"} :
            x = IF job[j].tries + 1 < Attempts THEN "waiting" ELSE "failed"
      OBVIOUS
    <2>4. Retried(job[j]).state = x /\ Retried(job[j]).tries = c BY <2>2, <2>3 DEF Retried
    <2>5. PICK n : n = [job[j] EXCEPT !.state = x, !.tries = c] OBVIOUS
    <2>6. n \in JobRow /\ n.state = x /\ n.tries = c BY <1>t, <2>5 DEF JobRow
    <2>7. job' = [job EXCEPT ![j] = n] BY <1>6, <1>t, <2>4, <2>5 DEF Throw, JobRow
    <2>8. n.state \in Alive => n.tries < Attempts BY <2>2, <2>3, <2>6 DEF Alive
    <2> QED BY <2>6, <2>7, <2>8 DEF Moves
  <1>7. CASE Unstall(j)
    <2>1. CASE job[j].stalls < MaxStalled
      <3>1. job[j].stalls \in Nat BY <1>t, ChannelNumbers DEF JobRow
      <3>2. PICK c \in 0..MaxStalled : c = job[j].stalls + 1 BY <2>1, <3>1, ChannelNumbers
      <3>3. PICK n : n = [job[j] EXCEPT !.state = "waiting", !.stalls = c] OBVIOUS
      <3>4. n \in JobRow /\ n.tries = job[j].tries BY <1>t, <3>3 DEF JobRow
      <3>5. job' = [job EXCEPT ![j] = n] BY <1>7, <1>t, <2>1, <3>2, <3>3 DEF Unstall, JobRow
      <3> QED BY <1>7, <1>t, <3>4, <3>5 DEF Moves, Alive, Unstall
    <2>2. CASE ~(job[j].stalls < MaxStalled) BY <1>1, <1>7, <2>2 DEF Unstall
    <2> QED BY <2>1, <2>2
  <1>8. CASE \/ j = "booking-reminder" /\ (ReminderRead \/ TellGuest \/ TellHost)
             \/ j = "process-payout" /\ (PayoutRead \/ PayoutRecord)
             \/ j = "send-email" /\ SendMail
    <2>1. PICK p, x \in {"read", "guest", "host", "record", "send", "skip", "done"} :
                 Step(j, p, x)
      BY <1>8 DEF ReminderRead, TellGuest, TellHost, PayoutRead, PayoutRecord, SendMail
    <2> QED BY <1>2, <2>1 DEF Step
  <1> QED BY <1>3, <1>4, <1>5, <1>6, <1>7, <1>8 DEF Process

LEMMA JobTypes ==
    ASSUME Sound, JobStep
    PROVE  Sound' /\ UNCHANGED <<presence, chat, req>>
  <1>t. /\ job \in [Jobs -> JobRow] /\ told \subseteq Participants /\ payouts \in Nat
        /\ mails \in Nat /\ account \in BOOLEAN /\ booking \in {"CONFIRMED", "CANCELLED"}
        /\ left \in [events : Nat, jobs : Nat, crashes : Nat]
    BY DEF Sound, RealtimeTypeOK
  <1>1. UNCHANGED <<presence, chat, req>>
    BY DEF JobStep, Add, Process, Take, Complete, Throw, Unstall, ReminderRead, TellGuest, TellHost,
           PayoutRead, PayoutRecord, SendMail, Step, Cancelled, AddPayoutAccount, Elsewhere
  <1>2. /\ told' \subseteq Participants /\ payouts' \in Nat /\ mails' \in Nat
        /\ account' \in BOOLEAN /\ booking' \in {"CONFIRMED", "CANCELLED"}
    <2>1. /\ told' \in {told, told \cup {"guest"}, told \cup {"host"}}
          /\ payouts' \in {payouts, payouts + 1}
      BY DEF JobStep, Add, Process, Take, Complete, Throw, Unstall, ReminderRead, TellGuest,
           TellHost, PayoutRead, PayoutRecord, SendMail, Cancelled, AddPayoutAccount
    <2>2. /\ mails' \in {mails, mails + 1}
          /\ account' \in {account, FALSE} /\ booking' \in {booking, "CANCELLED"}
      BY DEF JobStep, Add, Process, Take, Complete, Throw, Unstall, ReminderRead, TellGuest,
           TellHost, PayoutRead, PayoutRecord, SendMail, Cancelled, AddPayoutAccount
    <2>3. payouts' \in Nat /\ mails' \in Nat BY <1>t, <2>1, <2>2
    <2>4. account' \in BOOLEAN /\ booking' \in {"CONFIRMED", "CANCELLED"} BY <1>t, <2>2
    <2> QED BY <1>t, <2>1, <2>3, <2>4 DEF Participants
  <1>3. left' \in [events : Nat, jobs : Nat, crashes : Nat]
    <2>1. CASE left' = left BY <2>1, <1>t
    <2>2. CASE \E j \in Jobs : Add(j)
      <3>1. left.jobs \in Nat /\ left.jobs > 0 /\ left' = [left EXCEPT !.jobs = @ - 1]
        BY <2>2, <1>t DEF Add
      <3>2. PICK n \in Nat : n = left.jobs - 1 BY <3>1
      <3>3. left' = [left EXCEPT !.jobs = n] BY <3>1, <3>2
      <3> QED BY <3>3, <1>t
    <2> QED BY <2>1, <2>2 DEF JobStep, Process, Take, Complete, Throw, Unstall, ReminderRead,
           TellGuest, TellHost, PayoutRead, PayoutRecord, SendMail, Step, Cancelled,
           AddPayoutAccount
  <1>4. job' \in [Jobs -> JobRow] /\ Retries'
    <2>1. CASE Cancelled \/ AddPayoutAccount
      BY <2>1 DEF Cancelled, AddPayoutAccount, Sound, RealtimeTypeOK, Retries
    <2>2. ASSUME NEW j \in Jobs, Add(j) \/ Process(j)
          PROVE  job' \in [Jobs -> JobRow] /\ Retries'
      <3>1. PICK n : Moves(j, n) BY <2>2, JobMoves
      <3>2. job' \in [Jobs -> JobRow] BY <3>1, <1>t DEF Moves
      <3>3. \A k \in Jobs : job'[k] = IF k = j THEN n ELSE job[k] BY <3>1, <1>t DEF Moves
      <3>4. Retries' BY <3>1, <3>3 DEF Moves, Sound, Retries
      <3> QED BY <3>2, <3>4
    <2> QED BY <2>1, <2>2 DEF JobStep
  <1>5. UNCHANGED <<socket, online, socketMap, muddled, messages, lastAt, lastRead, talk, clock,
                    seen, passed, misread, req>>
    BY <1>1 DEF presence, chat
  <1>6. RealtimeTypeOK' BY <1>2, <1>3, <1>4, <1>5 DEF Sound, RealtimeTypeOK
  <1>7. Spoken' /\ Owned' BY <1>5 DEF Sound, Spoken, Owned
  <1> QED BY <1>1, <1>4, <1>6, <1>7 DEF Sound

(* Sockets, keys, rows and jobs keep their types.                          *)
LEMMA SoundHolds == Spec => []Sound
  <1>1. Init => Sound
    <2> SUFFICES ASSUME Init PROVE Sound OBVIOUS
    <2>1. Unborn \in Socket BY DEF Unborn, Socket, Links, Drops
    <2>2. \A s \in Sockets : socket[s] = Unborn BY DEF Init
    <2>3. Owned BY <2>2 DEF Owned, Unborn
    <2>4. \A r \in Reqs : req[r] = Idle BY DEF Init
    <2>5. Spoken BY <2>4, IdleOK DEF Spoken, Speaking
    <2>6. [state |-> "none", at |-> "read", tries |-> 0, stalls |-> 0] \in JobRow
      BY ChannelNumbers DEF JobRow
    <2>7. Retries /\ job \in [Jobs -> JobRow] BY <2>6, ChannelNumbers DEF Init, Retries
    <2>8. /\ socket \in [Sockets -> Socket] /\ req \in [Reqs -> Request]
          /\ left \in [events : Nat, jobs : Nat, crashes : Nat]
      BY <2>1, IdleOK, ChannelNumbers DEF Init
    <2>9. RealtimeTypeOK BY <2>7, <2>8 DEF Init, RealtimeTypeOK
    <2> QED BY <2>3, <2>5, <2>7, <2>9 DEF Sound
  <1>2. Sound /\ [Next]_vars => Sound'
    <2> SUFFICES ASSUME Sound, [Next]_vars PROVE Sound' OBVIOUS
    <2>1. CASE UNCHANGED vars
      BY <2>1 DEF vars, presence, chat, work, Sound, RealtimeTypeOK, Spoken, Owned, Retries
    <2>2. CASE ChatStep BY <2>2, PresenceTypes, ChatTypes, EmitTypes DEF ChatStep
    <2> QED BY <2>1, <2>2, JobTypes, CrashTypes DEF Next
  <1> QED BY <1>1, <1>2, PTL DEF Spec

(* The gateway's sockets and presence keys, the rows of the chat and the   *)
(* jobs of the queues keep their types, in every instance.                 *)
THEOREM RealtimeTypesHold == Spec => []RealtimeTypeOK
  <1>1. Sound => RealtimeTypeOK BY DEF Sound
  <1> QED BY <1>1, SoundHolds, PTL

-----------------------------------------------------------------------------
(* What is heard.                                                          *)

(* Only participants are in the room, and a message is broadcast after the *)
(* transaction that inserted it.                                           *)
Heard ==
    /\ HeardRightly
    /\ \A s \in Sockets : socket[s].joined => socket[s].owner \in Participants
    /\ \A r \in Reqs : At(r, "send_emit") => Sent(r) \in messages

LEMMA HeardSockets ==
    ASSUME Sound, Heard, NEW s \in Sockets,
           \/ Connect(s) \/ ConnectOnline(s) \/ ConnectMap(s)
           \/ Close(s) \/ CloseOnline(s) \/ CloseMap(s) \/ Join(s)
    PROVE  Heard'
  <1>t. socket \in [Sockets -> Socket] /\ socket[s] \in Socket
    BY DEF Sound, RealtimeTypeOK
  <1>1. UNCHANGED <<messages, req>>
    BY DEF chat, Connect, ConnectOnline, ConnectMap, Close, CloseOnline, CloseMap, Join
  <1>2. \A t \in Sockets \ {s} : socket'[t] = socket[t]
    BY <1>t DEF Connect, ConnectOnline, ConnectMap, Close, CloseOnline, CloseMap, Join
  <1>3. /\ socket'[s].heard = socket[s].heard
        /\ socket'[s].owner = socket[s].owner \/ socket[s].owner = NONE
        /\ socket'[s].joined => socket[s].joined \/ socket'[s].owner \in Participants
    <2>1. CASE Connect(s)
      <3>1. PICK u \in Users :
              socket' = [socket EXCEPT ![s].owner = u, ![s].up = TRUE, ![s].link = "sadd"]
        BY <2>1 DEF Connect
      <3>2. socket'[s] = [socket[s] EXCEPT !.owner = u, !.up = TRUE, !.link = "sadd"]
        BY <1>t, <3>1 DEF Socket
      <3>3. socket[s].owner = NONE BY <2>1 DEF Connect
      <3> QED BY <1>t, <3>2, <3>3 DEF Socket
    <2>2. CASE ConnectOnline(s) \/ ConnectMap(s)
      BY <1>t, <2>2 DEF ConnectOnline, ConnectMap, Socket
    <2>3. CASE CloseOnline(s) \/ CloseMap(s)
      BY <1>t, <2>3 DEF CloseOnline, CloseMap, Socket
    <2>4. CASE Close(s)
      <3>1. socket'[s] = [socket[s] EXCEPT !.up = FALSE, !.joined = FALSE, !.drop = "srem"]
        BY <1>t, <2>4 DEF Close, Socket
      <3> QED BY <1>t, <3>1 DEF Socket
    <2>5. CASE Join(s)
      <3>1. socket'[s] = [socket[s] EXCEPT !.joined = TRUE] /\ socket[s].owner \in Participants
        BY <1>t, <2>5 DEF Join
      <3> QED BY <1>t, <3>1 DEF Socket
    <2> QED BY <2>1, <2>2, <2>3, <2>4, <2>5
  <1>4. NONE \notin Participants BY ChannelNumbers DEF Users
  <1>5. HeardRightly'
    <2>1. \A t \in Sockets : /\ socket'[t].heard = socket[t].heard
                             /\ socket'[t].owner = socket[t].owner \/ socket[t].owner = NONE
      BY <1>2, <1>3
    <2> QED BY <1>1, <1>4, <2>1 DEF Heard, HeardRightly
  <1>6. \A t \in Sockets : socket'[t].joined => socket'[t].owner \in Participants
    BY <1>2, <1>3, <1>4 DEF Heard
  <1> QED BY <1>1, <1>5, <1>6 DEF Heard, At, Sent

(* Only the two participants hear what is said, and only what was said.    *)
THEOREM HeardRightlyHolds == Spec => []HeardRightly
  <1>1. Init => Heard
    <2> SUFFICES ASSUME Init PROVE Heard OBVIOUS
    <2>1. \A s \in Sockets : socket[s].heard = {} /\ ~socket[s].joined BY DEF Init, Unborn
    <2>2. \A r \in Reqs : ~At(r, "send_emit") BY IdleOK DEF Init, At
    <2> QED BY <2>1, <2>2 DEF Heard, HeardRightly
  <1>2. Sound /\ Heard /\ [Next]_vars => Heard'
    <2> SUFFICES ASSUME Sound, Heard, [Next]_vars PROVE Heard' OBVIOUS
    <2>1. ASSUME socket' = socket, messages' = messages, req' = req PROVE Heard'
      BY <2>1 DEF Heard, HeardRightly, At, Sent
    <2>2. CASE UNCHANGED vars BY <2>1, <2>2 DEF vars, presence, chat
    <2>3. CASE JobStep BY <2>1, <2>3, JobTypes DEF presence, chat
    <2>4. ASSUME NEW r \in Reqs,
                 \/ OpenRead(r) \/ OpenCreate(r) \/ Archive(r)
                 \/ Send(r) \/ SendInsert(r) \/ SendCommit(r)
                 \/ ReadStart(r) \/ ReadStamp(r) \/ ReadFetch(r) \/ MarkRead(r)
          PROVE  Heard'
      <3>1. socket' = socket BY <2>4, ChatTypes DEF presence
      <3>2. messages \subseteq messages'
        BY <2>4 DEF OpenRead, OpenCreate, Archive, Send, SendInsert, SendCommit,
               ReadStart, ReadStamp, ReadFetch, MarkRead, chat
      <3>3. \A q \in Reqs \ {r} : req'[q] = req[q] BY <2>4, HandlerTypes
      <3>4. At(r, "send_emit")' => Sent(r)' \in messages'
        <4>1. CASE SendCommit(r)
          <5>1. CASE Goto(r, "send_emit")
            <6>1. req'[r].at = req[r].at /\ req'[r].user = req[r].user
              BY <5>1, Went DEF Sound, Points
            <6> QED BY <4>1, <6>1 DEF SendCommit, Sent
          <5>2. CASE Finish(r) BY <5>2, Finished, IdleOK DEF Sound, At
          <5> QED BY <4>1, <5>1, <5>2 DEF SendCommit
        <4>2. CASE OpenCreate(r) \/ ReadFetch(r)
          BY <4>2, Finished, IdleOK DEF Sound, At, OpenCreate, ReadFetch
        <4>3. CASE ReadStamp(r) BY <4>3, Went DEF Sound, At, ReadStamp, Points
        <4>4. CASE SendInsert(r)
          <5>1. req'[r].pc = "send_commit"
            BY <4>4 DEF SendInsert, Sound, RealtimeTypeOK, Request
          <5> QED BY <5>1 DEF At
        <4>5. CASE OpenRead(r)
          <5>1. PICK q \in Request : q = [Idle EXCEPT !.pc = "open_create"] BY Openings
          <5>2. q.pc = "open_create" BY <5>1 DEF Idle
          <5> QED BY <4>5, <5>1, <5>2, Started DEF OpenRead, Sound, At
        <4>6. CASE Archive(r) \/ MarkRead(r)
          BY <4>6, Started, IdleOK DEF Archive, MarkRead, Sound, At
        <4>7. CASE Send(r)
          <5>1. PICK u \in Participants, live \in BOOLEAN :
                  Start(r, [Idle EXCEPT !.pc = "send_insert", !.user = u, !.live = live])
            BY <4>7 DEF Send
          <5>2. PICK q \in Request :
                  q = [Idle EXCEPT !.pc = "send_insert", !.user = u, !.live = live]
            BY Openings
          <5>3. q.pc = "send_insert" BY <5>2 DEF Idle
          <5> QED BY <5>1, <5>2, <5>3, Started DEF Sound, At
        <4>8. CASE ReadStart(r)
          <5>1. PICK u \in Participants : Start(r, [Idle EXCEPT !.pc = "read_stamp", !.user = u])
            BY <4>8 DEF ReadStart
          <5>2. PICK q \in Request : q = [Idle EXCEPT !.pc = "read_stamp", !.user = u]
            BY Openings
          <5>3. q.pc = "read_stamp" BY <5>2 DEF Idle
          <5> QED BY <5>1, <5>2, <5>3, Started DEF Sound, At
        <4> QED BY <2>4, <4>1, <4>2, <4>3, <4>4, <4>5, <4>6, <4>7, <4>8
      <3>5. HeardRightly' BY <3>1, <3>2 DEF Heard, HeardRightly
      <3>6. \A q \in Reqs : At(q, "send_emit")' => Sent(q)' \in messages'
        BY <3>2, <3>3, <3>4 DEF Heard, At, Sent
      <3> QED BY <3>1, <3>5, <3>6 DEF Heard
    <2>5. ASSUME NEW r \in Reqs, SendEmit(r) PROVE Heard'
      <3>1. \A s \in Sockets :
              /\ socket'[s].owner = socket[s].owner /\ socket'[s].joined = socket[s].joined
              /\ socket'[s].heard =
                     IF socket[s].joined THEN socket[s].heard \cup {Sent(r)} ELSE socket[s].heard
        BY <2>5, EmitTypes
      <3>2. Sent(r) \in messages /\ messages' = messages BY <2>5 DEF SendEmit, Heard, chat
      <3>3. req'[r].pc = "idle" /\ \A q \in Reqs \ {r} : req'[q] = req[q]
        BY <2>5, Finished, IdleOK DEF SendEmit, Sound
      <3>4. HeardRightly' BY <3>1, <3>2 DEF Heard, HeardRightly
      <3> QED BY <3>1, <3>2, <3>3, <3>4 DEF Heard, At, Sent
    <2>6. CASE Crash
      <3>1. \A s \in Sockets : /\ socket'[s].owner = socket[s].owner /\ ~socket'[s].joined
                               /\ socket'[s].heard = socket[s].heard
        BY <2>6, CrashTypes
      <3>2. messages' = messages /\ \A q \in Reqs : req'[q].pc = "idle"
        BY <2>6, IdleOK DEF Crash
      <3>3. HeardRightly' BY <3>1, <3>2 DEF Heard, HeardRightly
      <3> QED BY <3>1, <3>2, <3>3 DEF Heard, At
    <2> QED BY <2>2, <2>3, <2>4, <2>5, <2>6, HeardSockets DEF Next, ChatStep
  <1>3. Heard => HeardRightly BY DEF Heard
  <1> QED BY <1>1, <1>2, <1>3, SoundHolds, PTL DEF Spec

-----------------------------------------------------------------------------
(* What is read.                                                           *)

(* A message that was not there at its reader's last look counts as        *)
(* unread, or is about to be fetched, unless it or a crash overtook that   *)
(* look; one that was there was shown or passed over.                      *)
THEOREM NewsCountedHolds == Spec => []NewsCounted
  <1> DEFINE Fetching(p) == \E r \in Reqs : At(r, "read_fetch") /\ req[r].user = p
             Told(p)     == \/ messages \subseteq seen[p] \cup passed[p]
                            \/ Unread(p) \/ p \in misread \/ Fetching(p)
  <1>1. Init => NewsCounted BY DEF Init, NewsCounted
  <1>2. Sound /\ NewsCounted /\ [Next]_vars => NewsCounted'
    <2> SUFFICES ASSUME Sound, NewsCounted, [Next]_vars, NEW p \in Participants
                 PROVE  Told(p)'
      BY DEF NewsCounted
    <2>t. Told(p) BY DEF NewsCounted
    <2>y. /\ lastRead \in [Participants -> Nat] /\ seen \in [Participants -> SUBSET messages]
          /\ passed \in [Participants -> SUBSET messages] /\ lastAt \in Nat
      BY DEF Sound, RealtimeTypeOK
    <2>1. ASSUME UNCHANGED <<messages, lastAt, lastRead, seen, passed, misread>>,
                 \A r \in Reqs : req[r].pc = "read_fetch" => req'[r] = req[r]
          PROVE  Told(p)'
      BY <2>t, <2>1 DEF Unread, At
    <2>2. CASE UNCHANGED vars BY <2>1, <2>2 DEF vars, chat
    <2>3. CASE JobStep BY <2>1, <2>3, JobTypes DEF chat
    <2>4. ASSUME NEW s \in Sockets,
                 \/ Connect(s) \/ ConnectOnline(s) \/ ConnectMap(s)
                 \/ Close(s) \/ CloseOnline(s) \/ CloseMap(s) \/ Join(s)
          PROVE  Told(p)'
      BY <2>1, <2>4 DEF Connect, ConnectOnline, ConnectMap, Close, CloseOnline, CloseMap, Join,
             chat
    <2>5. ASSUME NEW r \in Reqs, OpenRead(r) \/ OpenCreate(r) \/ Archive(r) \/ Send(r)
                                 \/ SendInsert(r) \/ ReadStart(r) \/ SendEmit(r)
          PROVE  Told(p)'
      <3>1. UNCHANGED <<messages, lastAt, lastRead, seen, passed, misread>>
        BY <2>5 DEF OpenRead, OpenCreate, Archive, Send, SendInsert, ReadStart, SendEmit, chat
      <3>2. \A q \in Reqs \ {r} : req'[q] = req[q] BY <2>5, HandlerTypes
      <3>3. req[r].pc # "read_fetch"
        BY <2>5 DEF OpenRead, OpenCreate, Archive, Send, SendInsert, ReadStart, SendEmit, Start, At
      <3> QED BY <2>1, <3>1, <3>2, <3>3
    <2>6. ASSUME NEW r \in Reqs, SendCommit(r) PROVE Told(p)'
      <3>1. req[r].user \in Participants /\ req[r].at \in Nat
        BY <2>6, SentIsMessage DEF SendCommit, At, Speaking
      <3>2. CASE lastRead[p] >= req[r].at BY <2>6, <3>2 DEF SendCommit
      <3>3. CASE ~(lastRead[p] >= req[r].at)
        <4>1. lastRead[p] \in Nat BY <2>y
        <4>2. lastAt' > lastRead'[p] BY <2>6, <3>1, <3>3, <4>1 DEF SendCommit
        <4> QED BY <4>2 DEF Unread
      <3> QED BY <3>2, <3>3
    <2>7. ASSUME NEW r \in Reqs, ReadStamp(r) PROVE Told(p)'
      <3>1. /\ req'[r].pc = "read_fetch" /\ req'[r].user = req[r].user
            /\ \A q \in Reqs \ {r} : req'[q] = req[q]
        BY <2>7, Went DEF ReadStamp, Sound, Points
      <3>2. req[r].user \in Participants BY <2>7 DEF ReadStamp, At, Sound, Spoken, Speaking
      <3>3. CASE p = req[r].user BY <3>1, <3>3 DEF At
      <3>4. CASE p # req[r].user
        <4>1. lastRead'[p] = lastRead[p] BY <2>7, <2>y, <3>4 DEF ReadStamp
        <4>2. UNCHANGED <<messages, lastAt, seen, passed, misread>> BY <2>7 DEF ReadStamp
        <4>3. Fetching(p) => Fetching(p)' BY <3>1, <3>4 DEF At
        <4> QED BY <2>t, <4>1, <4>2, <4>3 DEF Unread
      <3> QED BY <3>3, <3>4
    <2>8. ASSUME NEW r \in Reqs, ReadFetch(r) PROVE Told(p)'
      <3>1. req'[r].pc = "idle" /\ \A q \in Reqs \ {r} : req'[q] = req[q]
        BY <2>8, Finished, IdleOK DEF ReadFetch, Sound
      <3>4. PICK P \in Pages :
              /\ seen' = [seen EXCEPT ![req[r].user] = @ \cup P]
              /\ passed' = [passed EXCEPT ![req[r].user] = messages \ (seen[req[r].user] \cup P)]
              /\ misread' = misread \ {req[r].user}
        BY <2>8 DEF ReadFetch
      <3>2. CASE p = req[r].user
        <4>1. messages' = messages BY <2>8 DEF ReadFetch
        <4>2. seen'[p] = seen[p] \cup P /\ passed'[p] = messages \ (seen[p] \cup P)
          BY <2>y, <3>2, <3>4
        <4> QED BY <4>1, <4>2
      <3>3. CASE p # req[r].user
        <4>1. /\ seen'[p] = seen[p] /\ passed'[p] = passed[p]
              /\ p \in misread => p \in misread'
          BY <2>y, <3>3, <3>4
        <4>2. UNCHANGED <<messages, lastAt, lastRead>> BY <2>8 DEF ReadFetch
        <4>3. Fetching(p) => Fetching(p)' BY <3>1, <3>3 DEF At
        <4> QED BY <2>t, <4>1, <4>2, <4>3 DEF Unread
      <3> QED BY <3>2, <3>3
    <2>9. ASSUME NEW r \in Reqs, MarkRead(r) PROVE Told(p)'
      <3>1. \A q \in Reqs \ {r} : req'[q] = req[q] BY <2>9, HandlerTypes
      <3>2. req[r].pc = "idle" BY <2>9 DEF MarkRead, Start, At
      <3>3. Fetching(p) => Fetching(p)' BY <3>1, <3>2 DEF At
      <3>4. PICK u \in Participants :
              /\ lastRead' = [lastRead EXCEPT ![u] = clock']
              /\ passed' = [passed EXCEPT ![u] = messages \ seen[u]] /\ misread' = misread \ {u}
        BY <2>9 DEF MarkRead
      <3>5. UNCHANGED <<messages, lastAt, seen>> BY <2>9 DEF MarkRead
      <3>6. CASE p = u
        <4>1. passed'[p] = messages \ seen[p] BY <2>y, <3>4, <3>6
        <4> QED BY <3>5, <4>1
      <3>7. CASE p # u
        <4>1. /\ passed'[p] = passed[p] /\ lastRead'[p] = lastRead[p]
              /\ p \in misread => p \in misread'
          BY <2>y, <3>4, <3>7
        <4> QED BY <2>t, <3>3, <3>5, <4>1 DEF Unread
      <3> QED BY <3>6, <3>7
    <2>10. CASE Crash
      <3>1. Fetching(p) => p \in misread' BY <2>10 DEF Crash
      <3>2. UNCHANGED <<messages, lastAt, lastRead, seen, passed>> /\ misread \subseteq misread'
        BY <2>10 DEF Crash
      <3> QED BY <2>t, <3>1, <3>2 DEF Unread
    <2> QED BY <2>2, <2>3, <2>4, <2>5, <2>6, <2>7, <2>8, <2>9, <2>10 DEF Next, ChatStep
  <1> QED BY <1>1, <1>2, SoundHolds, PTL DEF Spec

-----------------------------------------------------------------------------
(* What the jobs have done.                                                *)

(* The fields of the job after each step of it.                            *)
LEMMA JobFields ==
    ASSUME Sound, NEW j \in Jobs
    PROVE  /\ Add(j) => job'[j].state = "waiting" /\ job'[j].stalls = job[j].stalls
           /\ Take(j) => /\ job'[j].state = "active" /\ job'[j].at = First(j)
                         /\ job'[j].stalls = job[j].stalls
           /\ \A p, x : Step(j, p, x) => /\ job'[j].state = "active" /\ job'[j].at = x
                                         /\ job'[j].stalls = job[j].stalls
           /\ Complete(j) => /\ job'[j].state = "completed" /\ job'[j].at = job[j].at
                             /\ job'[j].stalls = job[j].stalls
           /\ Throw(j) => /\ job'[j].state \in {"waiting", "failed"}
                          /\ job'[j].stalls = job[j].stalls
           /\ Unstall(j) => \/ /\ job'[j].state = "waiting"
                               /\ job'[j].stalls = job[j].stalls + 1
                            \/ /\ job'[j].state = "failed"
                               /\ job'[j].stalls = job[j].stalls
  <1>t. job \in [Jobs -> JobRow] /\ job[j] \in JobRow BY DEF Sound, RealtimeTypeOK
  <1>1. Add(j) => job'[j].state = "waiting" /\ job'[j].stalls = job[j].stalls
    BY <1>t DEF Add, JobRow
  <1>2. ASSUME Take(j)
        PROVE  /\ job'[j].state = "active" /\ job'[j].at = First(j)
               /\ job'[j].stalls = job[j].stalls
    <2>1. job'[j] = [job[j] EXCEPT !.state = "active", !.at = First(j)]
      BY <1>2, <1>t DEF Take, JobRow
    <2> QED BY <2>1, <1>t DEF JobRow
  <1>3. ASSUME NEW p, NEW x, Step(j, p, x)
        PROVE  /\ job'[j].state = "active" /\ job'[j].at = x
               /\ job'[j].stalls = job[j].stalls
    BY <1>3, <1>t DEF Step, JobRow
  <1>4. Complete(j) => /\ job'[j].state = "completed" /\ job'[j].at = job[j].at
                       /\ job'[j].stalls = job[j].stalls
    BY <1>t DEF Complete, JobRow
  <1>5. ASSUME Throw(j)
        PROVE  /\ job'[j].state \in {"waiting", "failed"} /\ job'[j].stalls = job[j].stalls
    <2>1. PICK x : x = Retried(job[j]).state OBVIOUS
    <2>2. PICK c : c = Retried(job[j]).tries OBVIOUS
    <2>3. x \in {"waiting", "failed"} BY <2>1 DEF Retried
    <2>4. job'[j] = [job[j] EXCEPT !.state = x, !.tries = c]
      BY <1>5, <1>t, <2>1, <2>2 DEF Throw, JobRow
    <2> QED BY <2>3, <2>4, <1>t DEF JobRow
  <1>6. ASSUME Unstall(j)
        PROVE  \/ job'[j].state = "waiting" /\ job'[j].stalls = job[j].stalls + 1
               \/ job'[j].state = "failed" /\ job'[j].stalls = job[j].stalls
    <2>1. CASE job[j].stalls < MaxStalled
      <3>1. PICK c : c = job[j].stalls + 1 OBVIOUS
      <3>2. job'[j] = [job[j] EXCEPT !.state = "waiting", !.stalls = c]
        BY <1>6, <1>t, <2>1, <3>1 DEF Unstall, JobRow
      <3> QED BY <3>1, <3>2, <1>t DEF JobRow
    <2>2. CASE ~(job[j].stalls < MaxStalled) BY <1>6, <1>t, <2>2 DEF Unstall, JobRow
    <2> QED BY <2>1, <2>2
  <1> QED BY <1>1, <1>2, <1>3, <1>4, <1>5, <1>6

LEMMA OtherJobs ==
    ASSUME Sound, NEW j \in Jobs, Add(j) \/ Process(j), NEW k \in Jobs, k # j
    PROVE  job'[k] = job[k]
  <1>1. PICK n : Moves(j, n) BY JobMoves
  <1> QED BY <1>1 DEF Moves, Sound, RealtimeTypeOK

(* How far the reminder that is being processed has got.                   *)
Progress ==
    LET t == job["booking-reminder"] IN
    /\ t.state = "active" /\ t.at = "host" => "guest" \in told
    /\ t.state = "active" /\ t.at = "done" => told = Participants
    /\ t.state = "completed" => t.at = "skip" \/ told = Participants

(* A payout or a mail counts for the run that is over or nearly so, or for *)
(* one that stalled.                                                       *)
Settled(j) == \/ job[j].state = "active" /\ job[j].at = "done"
              \/ job[j].state \in {"stalled", "completed", "failed"}
Runs(j)    == job[j].stalls + (IF Settled(j) THEN 1 ELSE 0)
Repeats    == payouts <= Runs("process-payout") /\ mails <= Runs("send-email")

LEMMA ProgressHolds == Spec => []Progress
  <1> DEFINE k == "booking-reminder"
  <1>1. Init => Progress BY DEF Init, Progress, Jobs
  <1>2. Sound /\ Progress /\ [Next]_vars => Progress'
    <2> SUFFICES ASSUME Sound, Progress, [Next]_vars PROVE Progress' OBVIOUS
    <2>j. k \in Jobs BY DEF Jobs
    <2>1. ASSUME job'[k] = job[k], told \subseteq told', told' \subseteq Participants
          PROVE  Progress'
      BY <2>1 DEF Progress
    <2>t. told \subseteq Participants BY DEF Sound, RealtimeTypeOK
    <2>2. CASE UNCHANGED vars BY <2>1, <2>2, <2>t DEF vars, work
    <2>3. CASE ChatStep
      <3>1. UNCHANGED work
        BY <2>3 DEF ChatStep, Connect, ConnectOnline, ConnectMap, Close, CloseOnline, CloseMap,
               Join, OpenRead, OpenCreate, Archive, Send, SendInsert, SendCommit, SendEmit,
               ReadStart, ReadStamp, ReadFetch, MarkRead
      <3> QED BY <2>1, <2>t, <3>1 DEF work
    <2>4. CASE Cancelled \/ AddPayoutAccount
      BY <2>1, <2>4, <2>t DEF Cancelled, AddPayoutAccount
    <2>5. CASE Crash
      <3>1. /\ job'[k].at = job[k].at
            /\ job'[k].state = IF job[k].state = "active" THEN "stalled" ELSE job[k].state
        BY <2>5, <2>j, CrashTypes
      <3>2. told' = told BY <2>5 DEF Crash
      <3> QED BY <3>1, <3>2 DEF Progress
    <2>6. ASSUME NEW j \in Jobs \ {k}, Add(j) \/ Process(j) PROVE Progress'
      <3>1. told' = told
        BY <2>6 DEF Add, Process, Take, Complete, Throw, Unstall, PayoutRead, PayoutRecord, SendMail
      <3>2. job'[k] = job[k] BY <2>6, <2>j, OtherJobs
      <3> QED BY <2>1, <2>t, <3>1, <3>2
    <2>7. CASE Add(k) \/ Take(k) \/ Complete(k) \/ Throw(k) \/ Unstall(k)
      <3>1. told' = told BY <2>7 DEF Add, Take, Complete, Throw, Unstall
      <3>2. CASE Complete(k)
        <4>1. job[k].state = "active" /\ job[k].at \in {"skip", "done"}
          BY <3>2 DEF Complete
        <4>2. job'[k].state = "completed" /\ job'[k].at = job[k].at
          BY <2>j, <3>2, JobFields
        <4> QED BY <3>1, <4>1, <4>2 DEF Progress
      <3>3. CASE Take(k)
        <4>1. job'[k].state = "active" /\ job'[k].at = "read"
          BY <2>j, <3>3, JobFields DEF First
        <4> QED BY <4>1 DEF Progress
      <3>4. CASE Add(k) \/ Throw(k) \/ Unstall(k)
        <4>1. job'[k].state \in {"waiting", "failed"} BY <2>j, <3>4, JobFields
        <4> QED BY <4>1 DEF Progress
      <3> QED BY <2>7, <3>2, <3>3, <3>4
    <2>8. CASE ReminderRead
      <3>1. PICK x \in {"guest", "skip"} : Step(k, "read", x) BY <2>8 DEF ReminderRead
      <3>2. job'[k].state = "active" /\ job'[k].at = x BY <2>j, <3>1, JobFields
      <3> QED BY <3>2 DEF Progress
    <2>9. CASE TellGuest
      <3>1. job'[k].state = "active" /\ job'[k].at = "host"
        BY <2>j, <2>9, JobFields DEF TellGuest
      <3> QED BY <2>9, <3>1 DEF Progress, TellGuest
    <2>10. CASE TellHost
      <3>1. job'[k].state = "active" /\ job'[k].at = "done"
        BY <2>j, <2>10, JobFields DEF TellHost
      <3>2. "guest" \in told BY <2>10 DEF TellHost, Step, Progress
      <3>3. told' = Participants BY <2>10, <2>t, <3>2 DEF TellHost, Participants
      <3> QED BY <3>1, <3>3 DEF Progress
    <2>11. ASSUME Add(k) \/ Process(k) PROVE Progress'
      BY <2>7, <2>8, <2>9, <2>10, <2>11 DEF Process
    <2> QED BY <2>2, <2>3, <2>4, <2>5, <2>6, <2>11 DEF Next, JobStep
  <1> QED BY <1>1, <1>2, SoundHolds, PTL DEF Spec

(* A reminder that completed has told both sides, whatever was retried or  *)
(* restarted on the way, unless the booking was off.                       *)
THEOREM ReminderTellsBothHolds == Spec => []ReminderTellsBoth
  <1>1. Progress => ReminderTellsBoth BY DEF Progress, ReminderTellsBoth
  <1> QED BY <1>1, ProgressHolds, PTL

LEMMA RunsOf ==
    ASSUME Sound, NEW j \in Jobs \ {"booking-reminder"}, Add(j) \/ Process(j)
    PROVE  \/ Runs(j)' >= Runs(j) /\ payouts' = payouts /\ mails' = mails
           \/ /\ Runs(j)' = Runs(j) + 1
              /\ j = "process-payout" => payouts' = payouts + 1 /\ mails' = mails
              /\ j = "send-email" => payouts' = payouts /\ mails' = mails + 1
  <1>t. job[j] \in JobRow /\ job[j].stalls \in Nat
    BY ChannelNumbers DEF Sound, RealtimeTypeOK, JobRow
  <1>1. CASE Add(j)
    <2>1. job'[j].state = "waiting" /\ job'[j].stalls = job[j].stalls BY <1>1, JobFields
    <2>2. job[j].state = "none" BY <1>1 DEF Add
    <2> QED BY <1>1, <1>t, <2>1, <2>2 DEF Add, Runs, Settled
  <1>2. CASE Take(j)
    <2>1. job'[j].stalls = job[j].stalls BY <1>2, JobFields
    <2>2. job[j].state = "waiting" BY <1>2 DEF Take
    <2> QED BY <1>2, <1>t, <2>1, <2>2 DEF Take, Runs, Settled
  <1>3. CASE Complete(j)
    <2>1. job'[j].state = "completed" /\ job'[j].stalls = job[j].stalls BY <1>3, JobFields
    <2> QED BY <1>3, <1>t, <2>1 DEF Complete, Runs, Settled
  <1>4. CASE Throw(j)
    <2>1. job'[j].stalls = job[j].stalls BY <1>4, JobFields
    <2>2. job[j].state = "active" /\ job[j].at # "done" BY <1>4 DEF Throw
    <2> QED BY <1>4, <1>t, <2>1, <2>2 DEF Throw, Runs, Settled
  <1>5. CASE Unstall(j)
    <2>1. \/ job'[j].state = "waiting" /\ job'[j].stalls = job[j].stalls + 1
          \/ job'[j].state = "failed" /\ job'[j].stalls = job[j].stalls
      BY <1>5, JobFields
    <2>2. job[j].state = "stalled" BY <1>5 DEF Unstall
    <2> QED BY <1>5, <1>t, <2>1, <2>2 DEF Unstall, Runs, Settled
  <1>6. CASE j = "process-payout" /\ PayoutRead
    <2>1. PICK x \in {"record", "skip"} : Step(j, "read", x) BY <1>6 DEF PayoutRead
    <2>2. job'[j].stalls = job[j].stalls /\ job[j].state = "active" /\ job[j].at = "read"
      BY <2>1, JobFields DEF Step
    <2> QED BY <1>6, <1>t, <2>2 DEF PayoutRead, Runs, Settled
  <1>7. CASE (j = "process-payout" /\ PayoutRecord) \/ (j = "send-email" /\ SendMail)
    <2>1. PICK p \in {"record", "send"} : Step(j, p, "done") BY <1>7 DEF PayoutRecord, SendMail
    <2>2. /\ job'[j].stalls = job[j].stalls /\ job'[j].state = "active" /\ job'[j].at = "done"
          /\ job[j].state = "active" /\ job[j].at = p
      BY <2>1, JobFields DEF Step
    <2>3. Runs(j)' = Runs(j) + 1 BY <1>t, <2>2 DEF Runs, Settled
    <2> QED BY <1>7, <2>3 DEF PayoutRecord, SendMail
  <1> QED BY <1>1, <1>2, <1>3, <1>4, <1>5, <1>6, <1>7 DEF Process

(* A payout or an e-mail is repeated only by a restart after a crash.      *)
THEOREM RepeatedOnlyByRestartHolds == Spec => []RepeatedOnlyByRestart
  <1> DEFINE a == "process-payout"
             b == "send-email"
  <1>1. Init => Repeats BY DEF Init, Repeats, Runs, Settled, Jobs
  <1>2. Sound /\ Sound' /\ Repeats /\ [Next]_vars => Repeats'
    <2> SUFFICES ASSUME Sound, Sound', Repeats, [Next]_vars PROVE Repeats' OBVIOUS
    <2>j. a \in Jobs /\ b \in Jobs BY DEF Jobs
    <2>t. /\ payouts \in Nat /\ mails \in Nat
          /\ \A j \in Jobs : Runs(j) \in Nat /\ Runs(j)' \in Nat
      <3>1. \A j \in Jobs : job[j].stalls \in Nat /\ job'[j].stalls \in Nat
        BY ChannelNumbers DEF Sound, RealtimeTypeOK, JobRow
      <3> QED BY <3>1 DEF Sound, RealtimeTypeOK, Runs
    <2>1. ASSUME Runs(a)' >= Runs(a), Runs(b)' >= Runs(b), payouts' = payouts, mails' = mails
          PROVE  Repeats'
      BY <2>1, <2>j, <2>t DEF Repeats
    <2>2. ASSUME UNCHANGED <<job, payouts, mails>> PROVE Repeats'
      BY <2>2 DEF Repeats, Runs, Settled
    <2>3. CASE UNCHANGED vars BY <2>2, <2>3 DEF vars, work
    <2>4. CASE ChatStep
      <3>1. UNCHANGED work
        BY <2>4 DEF ChatStep, Connect, ConnectOnline, ConnectMap, Close, CloseOnline, CloseMap,
               Join, OpenRead, OpenCreate, Archive, Send, SendInsert, SendCommit, SendEmit,
               ReadStart, ReadStamp, ReadFetch, MarkRead
      <3> QED BY <2>2, <3>1 DEF work
    <2>5. CASE Cancelled \/ AddPayoutAccount
      BY <2>2, <2>5 DEF Cancelled, AddPayoutAccount
    <2>6. CASE Crash
      <3>1. ASSUME NEW j \in Jobs PROVE Runs(j)' >= Runs(j)
        <4>1. /\ job'[j].at = job[j].at /\ job'[j].stalls = job[j].stalls
              /\ job'[j].state = IF job[j].state = "active" THEN "stalled" ELSE job[j].state
          BY <2>6, CrashTypes
        <4>2. job[j].stalls \in Nat BY ChannelNumbers DEF Sound, RealtimeTypeOK, JobRow
        <4> QED BY <4>1, <4>2 DEF Runs, Settled
      <3>2. payouts' = payouts /\ mails' = mails BY <2>6 DEF Crash
      <3> QED BY <2>1, <2>j, <3>1, <3>2
    <2>7. ASSUME NEW j \in Jobs, Add(j) \/ Process(j) PROVE Repeats'
      <3>1. \A k \in Jobs \ {j} : Runs(k)' = Runs(k)
        BY <2>7, OtherJobs DEF Runs, Settled
      <3>2. CASE j = "booking-reminder"
        <4>1. payouts' = payouts /\ mails' = mails
          BY <2>7, <3>2 DEF Add, Process, Take, Complete, Throw, Unstall, ReminderRead, TellGuest,
             TellHost
        <4>2. Runs(a)' = Runs(a) /\ Runs(b)' = Runs(b) BY <2>j, <3>1, <3>2
        <4> QED BY <2>1, <2>j, <2>t, <4>1, <4>2
      <3>3. CASE j # "booking-reminder"
        <4>1. \/ Runs(j)' >= Runs(j) /\ payouts' = payouts /\ mails' = mails
              \/ /\ Runs(j)' = Runs(j) + 1
                 /\ j = a => payouts' = payouts + 1 /\ mails' = mails
                 /\ j = b => payouts' = payouts /\ mails' = mails + 1
          BY <2>7, <3>3, RunsOf
        <4>2. CASE j = a
          <5>1. Runs(b)' = Runs(b) BY <2>j, <3>1, <4>2
          <5> QED BY <2>j, <2>t, <4>1, <4>2, <5>1 DEF Repeats
        <4>3. CASE j = b
          <5>1. Runs(a)' = Runs(a) BY <2>j, <3>1, <4>3
          <5> QED BY <2>j, <2>t, <4>1, <4>3, <5>1 DEF Repeats
        <4> QED BY <2>7, <3>3, <4>2, <4>3 DEF Jobs
      <3> QED BY <3>2, <3>3
    <2> QED BY <2>3, <2>4, <2>5, <2>6, <2>7 DEF Next, JobStep
  <1>3. Sound /\ Repeats => RepeatedOnlyByRestart
    <2> SUFFICES ASSUME Sound, Repeats PROVE RepeatedOnlyByRestart OBVIOUS
    <2>1. /\ job[a].stalls \in Nat /\ job[b].stalls \in Nat
      BY ChannelNumbers DEF Sound, RealtimeTypeOK, JobRow, Jobs
    <2>2. payouts \in Nat /\ mails \in Nat BY DEF Sound, RealtimeTypeOK
    <2> QED BY <2>1, <2>2 DEF Repeats, Runs, RepeatedOnlyByRestart
  <1> QED BY <1>1, <1>2, <1>3, SoundHolds, PTL DEF Spec

-----------------------------------------------------------------------------
(* Who is online.                                                          *)

Live(s) == socket[s].up \/ Busy(s)

(* How far the one socket of u that is at work has got, and what the two   *)
(* keys say by then.                                                       *)
Stage(u, s) ==
    /\ socket[s].link \in {"sadd", "hset"} => socket[s].up /\ socket[s].drop = "none"
    /\ socket[s].link = "hset" => u \in online
    /\ socket[s].up /\ socket[s].link = "ready" => u \in online /\ socketMap[u] = s
    /\ socket[s].drop = "hdel" => u \notin online

(* Of a user whose last connection met nothing one socket is at work at    *)
(* most, and the keys follow that one.                                     *)
Clear(u) ==
    /\ \A s, t \in Of(u) : Live(s) /\ Live(t) => s = t
    /\ (\A s \in Of(u) : ~Live(s)) => u \notin online
    /\ \A s \in Of(u) : Stage(u, s)

Present ==
    /\ \A s \in Sockets : socket[s].up => socket[s].link # "none" /\ socket[s].drop = "none"
    /\ \A u \in Users \ muddled : Clear(u)

(* A user of whom nothing changes stays clear.                             *)
LEMMA ClearStays ==
    ASSUME NEW u, Clear(u),
           \A t \in Sockets : socket'[t].owner = u <=> socket[t].owner = u,
           \A t \in Of(u) : /\ socket'[t].up = socket[t].up /\ socket'[t].link = socket[t].link
                            /\ socket'[t].drop = socket[t].drop,
           u \in online' <=> u \in online, socketMap'[u] = socketMap[u]
    PROVE  Clear(u)'
  <1>1. Of(u)' = Of(u) BY DEF Of
  <1>2. \A t \in Of(u) : Live(t)' <=> Live(t) BY DEF Live, Busy
  <1>3. \A t \in Of(u) : Stage(u, t)' BY DEF Clear, Stage
  <1> QED BY <1>1, <1>2, <1>3 DEF Clear

(* The user of the one socket that a step moves: what to show of it.       *)
LEMMA ClearMoves ==
    ASSUME Sound, NEW u \in Users, NEW s \in Sockets, socket'[s].owner = u,
           \A t \in Sockets \ {s} : socket'[t] = socket[t],
           \A t \in Of(u) \ {s} : ~Live(t) /\ Stage(u, t), Stage(u, s)',
           Live(s)' \/ u \notin online',
           \A t \in Of(u) \ {s} : socket[t].link # "hset" /\ ~socket[t].up
                                  /\ socket[t].drop # "hdel"
    PROVE  Clear(u)'
  <1>1. s \in Of(u)' /\ \A t \in Of(u)' \ {s} : t \in Of(u) /\ socket'[t] = socket[t]
    BY DEF Of
  <1>2. \A t \in Of(u)' \ {s} : ~Live(t)' /\ Stage(u, t)'
    BY <1>1 DEF Live, Busy, Stage
  <1>3. \A t \in Of(u)' : Stage(u, t)' BY <1>1, <1>2
  <1>4. \A t \in Of(u)' : Live(t)' => t = s BY <1>2
  <1>5. (\A t \in Of(u)' : ~Live(t)') => u \notin online' BY <1>1
  <1> QED BY <1>3, <1>4, <1>5 DEF Clear

LEMMA SocketFields ==
    ASSUME Sound, NEW s \in Sockets
    PROVE  /\ \A u \in Users :
                socket' = [socket EXCEPT ![s].owner = u, ![s].up = TRUE, ![s].link = "sadd"] =>
                    /\ socket'[s].owner = u /\ socket'[s].up /\ socket'[s].link = "sadd"
                    /\ socket'[s].drop = socket[s].drop
           /\ \A l : socket' = [socket EXCEPT ![s].link = l] =>
                /\ socket'[s].owner = socket[s].owner /\ socket'[s].up = socket[s].up
                /\ socket'[s].link = l /\ socket'[s].drop = socket[s].drop
           /\ Close(s) =>
                /\ socket'[s].owner = socket[s].owner /\ ~socket'[s].up
                /\ socket'[s].link = socket[s].link /\ socket'[s].drop = "srem"
           /\ \A d : socket' = [socket EXCEPT ![s].drop = d] =>
                /\ socket'[s].owner = socket[s].owner /\ socket'[s].up = socket[s].up
                /\ socket'[s].link = socket[s].link /\ socket'[s].drop = d
           /\ Join(s) =>
                /\ socket'[s].owner = socket[s].owner /\ socket'[s].up = socket[s].up
                /\ socket'[s].link = socket[s].link /\ socket'[s].drop = socket[s].drop
  <1>t. socket \in [Sockets -> Socket] /\ socket[s] \in Socket
    BY DEF Sound, RealtimeTypeOK
  <1>1. ASSUME NEW u,
               socket' = [socket EXCEPT ![s].owner = u, ![s].up = TRUE, ![s].link = "sadd"]
        PROVE  /\ socket'[s].owner = u /\ socket'[s].up /\ socket'[s].link = "sadd"
               /\ socket'[s].drop = socket[s].drop
    <2>1. socket'[s] = [socket[s] EXCEPT !.owner = u, !.up = TRUE, !.link = "sadd"]
      BY <1>t, <1>1 DEF Socket
    <2> QED BY <1>t, <2>1 DEF Socket
  <1>2. ASSUME NEW l, socket' = [socket EXCEPT ![s].link = l]
        PROVE  /\ socket'[s].owner = socket[s].owner /\ socket'[s].up = socket[s].up
               /\ socket'[s].link = l /\ socket'[s].drop = socket[s].drop
    BY <1>t, <1>2 DEF Socket
  <1>3. ASSUME Close(s)
        PROVE  /\ socket'[s].owner = socket[s].owner /\ ~socket'[s].up
               /\ socket'[s].link = socket[s].link /\ socket'[s].drop = "srem"
    <2>1. socket'[s] = [socket[s] EXCEPT !.up = FALSE, !.joined = FALSE, !.drop = "srem"]
      BY <1>t, <1>3 DEF Close, Socket
    <2> QED BY <1>t, <2>1 DEF Socket
  <1>4. ASSUME NEW d, socket' = [socket EXCEPT ![s].drop = d]
        PROVE  /\ socket'[s].owner = socket[s].owner /\ socket'[s].up = socket[s].up
               /\ socket'[s].link = socket[s].link /\ socket'[s].drop = d
    BY <1>t, <1>4 DEF Socket
  <1>5. ASSUME Join(s)
        PROVE  /\ socket'[s].owner = socket[s].owner /\ socket'[s].up = socket[s].up
               /\ socket'[s].link = socket[s].link /\ socket'[s].drop = socket[s].drop
    BY <1>t, <1>5 DEF Join, Socket
  <1> QED BY <1>1, <1>2, <1>3, <1>4, <1>5

(* One step of one socket.                                                 *)
LEMMA PresentSteps ==
    ASSUME Sound, Present, NEW s \in Sockets,
           \/ Connect(s) \/ ConnectOnline(s) \/ ConnectMap(s)
           \/ Close(s) \/ CloseOnline(s) \/ CloseMap(s)
    PROVE  Present'
  <1>t. /\ socket \in [Sockets -> Socket] /\ online \subseteq Users
        /\ socketMap \in [Users -> Sockets \cup {NONE}] /\ muddled \subseteq Users
    BY DEF Sound, RealtimeTypeOK
  <1>1. \A t \in Sockets \ {s} : socket'[t] = socket[t]
    BY <1>t DEF Connect, ConnectOnline, ConnectMap, Close, CloseOnline, CloseMap
  <1>2. socket'[s].owner \in Users /\ (~Connect(s) => socket'[s].owner = socket[s].owner)
    <2>1. socket[s].up \/ socket[s].link # "none" \/ socket[s].drop # "none" =>
            socket[s].owner \in Users
      BY DEF Sound, Owned
    <2>2. CASE Connect(s) BY <2>2, SocketFields DEF Connect
    <2>3. CASE ~Connect(s)
      BY <2>1, <2>3, SocketFields DEF ConnectOnline, ConnectMap, Close, CloseOnline, CloseMap
    <2> QED BY <2>2, <2>3
  <1>3. PICK u \in Users : u = socket'[s].owner BY <1>2
  <1>4. Connect(s) => socket[s].owner = NONE /\ socket[s].drop = "none"
    BY ChannelNumbers DEF Connect, Sound, Owned
  <1>c. socket[s].up \/ socket[s].link # "none" \/ socket[s].drop # "none" => ~Connect(s)
    <2>1. socket[s].up \/ socket[s].link # "none" \/ socket[s].drop # "none" =>
            socket[s].owner \in Users
      BY DEF Sound, Owned
    <2> QED BY <1>4, <2>1, ChannelNumbers
  <1>5. \A v \in Users \ {u} : Of(v)' = Of(v) /\ s \notin Of(v)
    BY <1>1, <1>2, <1>3, <1>4, ChannelNumbers DEF Of
  <1>6. \A v \in Users \ {u} : /\ v \in online' <=> v \in online
                               /\ socketMap'[v] = socketMap[v]
                               /\ v \in muddled' <=> v \in muddled
    <2>1. CASE Connect(s)
      BY <1>3, <2>1, SocketFields DEF Connect, Muddle
    <2>2. CASE ~Connect(s)
      <3>1. socket[s].owner = u BY <1>2, <1>3, <2>2
      <3> QED BY <1>t, <2>2, <3>1 DEF ConnectOnline, ConnectMap, Close, CloseOnline, CloseMap
    <2> QED BY <2>1, <2>2
  <1>7. ASSUME NEW v \in Users \ {u}, v \notin muddled' PROVE Clear(v)'
    <2>1. Clear(v) BY <1>6, <1>7 DEF Present
    <2>2. \A t \in Of(v) : socket'[t] = socket[t] BY <1>1, <1>5 DEF Of
    <2>3. \A t \in Sockets : socket'[t].owner = v <=> socket[t].owner = v
      BY <1>5 DEF Of
    <2> QED BY <1>6, <2>1, <2>2, <2>3, ClearStays
  <1>8. ASSUME u \notin muddled' PROVE Clear(u)'
    <2>0. ~Connect(s) => socket[s].owner = u /\ s \in Of(u) BY <1>2, <1>3 DEF Of
    <2>1. CASE Connect(s)
      <3>1. /\ socket'[s].up /\ socket'[s].link = "sadd" /\ socket'[s].drop = "none"
            /\ muddled' = Muddle(u, s)
        BY <1>3, <1>4, <2>1, SocketFields DEF Connect
      <3>2. \A t \in Of(u) \ {s} : ~socket[t].up /\ ~Busy(t)
        BY <1>8, <3>1 DEF Muddle
      <3>3. Stage(u, s)' /\ Live(s)' BY <3>1 DEF Stage, Live
      <3>4. \A t \in Of(u) \ {s} : /\ ~Live(t) /\ Stage(u, t) /\ socket[t].link # "hset"
                                   /\ ~socket[t].up /\ socket[t].drop # "hdel"
        BY <3>2 DEF Live, Busy, Stage
      <3> QED BY <1>1, <1>3, <3>3, <3>4, ClearMoves
    <2>2. ASSUME ~Connect(s), u \notin muddled, Live(s), Stage(u, s)', Live(s)' \/ u \notin online'
          PROVE  Clear(u)'
      <3>1. Clear(u) /\ s \in Of(u) BY <2>0, <2>2 DEF Present
      <3>2. \A t \in Of(u) \ {s} : /\ ~Live(t) /\ Stage(u, t) /\ socket[t].link # "hset"
                                   /\ ~socket[t].up /\ socket[t].drop # "hdel"
        BY <2>2, <3>1 DEF Clear, Live, Busy
      <3> QED BY <1>1, <1>3, <2>2, <3>2, ClearMoves
    <2>3. ~Connect(s) => u \notin muddled
      BY <1>8 DEF ConnectOnline, ConnectMap, Close, CloseOnline, CloseMap
    <2>4. ~Connect(s) => Stage(u, s) BY <2>0, <2>3 DEF Present, Clear
    <2>5. socket[s].up => socket[s].link # "none" /\ socket[s].drop = "none" BY DEF Present
    <2>6. CASE ConnectOnline(s)
      <3>0. ~Connect(s) BY <1>c, <2>6 DEF ConnectOnline
      <3>1. /\ socket[s].link = "sadd" /\ socket'[s].link = "hset"
            /\ socket'[s].drop = socket[s].drop /\ socket'[s].up = socket[s].up
            /\ u \in online'
        BY <2>0, <2>6, <3>0, SocketFields DEF ConnectOnline
      <3>2. socket[s].up /\ socket[s].drop = "none" BY <2>4, <3>0, <3>1 DEF Stage
      <3> QED BY <2>2, <2>3, <3>0, <3>1, <3>2 DEF Live, Busy, Stage
    <2>7. CASE ConnectMap(s)
      <3>0. ~Connect(s) BY <1>c, <2>7 DEF ConnectMap
      <3>1. /\ socket[s].link = "hset" /\ socket'[s].link = "ready"
            /\ socket'[s].drop = socket[s].drop /\ socket'[s].up = socket[s].up
            /\ socketMap' = [socketMap EXCEPT ![u] = s] /\ online' = online
        BY <2>0, <2>7, <3>0, SocketFields DEF ConnectMap
      <3>2. socket[s].up /\ socket[s].drop = "none" /\ u \in online
        BY <2>4, <3>0, <3>1 DEF Stage
      <3>3. Stage(u, s)' BY <1>t, <3>1, <3>2 DEF Stage
      <3>4. Live(s)' BY <3>1, <3>2 DEF Live
      <3> QED BY <2>2, <2>3, <3>0, <3>1, <3>3, <3>4 DEF Live, Busy
    <2>8. CASE Close(s)
      <3>0. ~Connect(s) BY <1>c, <2>8 DEF Close
      <3>1. /\ socket[s].up /\ socket[s].link = "ready" /\ socket'[s].link = "ready"
            /\ socket'[s].drop = "srem" /\ ~socket'[s].up
        BY <1>8, <2>0, <2>8, <3>0, SocketFields DEF Close
      <3> QED BY <2>2, <2>3, <3>0, <3>1 DEF Live, Busy, Stage
    <2>9. CASE CloseOnline(s)
      <3>0. ~Connect(s) BY <1>c, <2>9 DEF CloseOnline
      <3>1. /\ socket[s].drop = "srem" /\ socket'[s].drop = "hdel"
            /\ socket'[s].link = socket[s].link /\ socket'[s].up = socket[s].up
            /\ u \notin online'
        BY <2>0, <2>9, <3>0, SocketFields DEF CloseOnline
      <3>2. socket[s].link \notin {"sadd", "hset"} /\ ~socket[s].up
        BY <2>4, <2>5, <3>0, <3>1 DEF Stage
      <3> QED BY <2>2, <2>3, <3>0, <3>1, <3>2 DEF Live, Busy, Stage
    <2>10. CASE CloseMap(s)
      <3>0. ~Connect(s) BY <1>c, <2>10 DEF CloseMap
      <3>1. /\ socket[s].drop = "hdel" /\ socket'[s].drop = "gone"
            /\ socket'[s].link = socket[s].link /\ socket'[s].up = socket[s].up
            /\ online' = online
        <4>1. online' = online /\ socket[s].drop = "hdel" BY <2>10 DEF CloseMap
        <4>2. PICK d \in {"gone"} : socket' = [socket EXCEPT ![s].drop = d]
          BY <2>10 DEF CloseMap
        <4>3. socket'[s].drop = d BY <4>2, SocketFields
        <4>4. socket'[s].link = socket[s].link BY <4>2, SocketFields
        <4>5. socket'[s].up = socket[s].up BY <4>2, SocketFields
        <4> QED BY <4>1, <4>3, <4>4, <4>5
      <3>2. socket[s].link \notin {"sadd", "hset"} /\ ~socket[s].up /\ u \notin online
        BY <2>4, <2>5, <3>0, <3>1 DEF Stage
      <3> QED BY <2>2, <2>3, <3>0, <3>1, <3>2 DEF Live, Busy, Stage
    <2> QED BY <2>1, <2>6, <2>7, <2>8, <2>9, <2>10
  <1>9. \A t \in Sockets : socket'[t].up => socket'[t].link # "none" /\ socket'[t].drop = "none"
    <2>1. socket'[s].up => socket'[s].link # "none" /\ socket'[s].drop = "none"
      <3>1. socket[s].up => socket[s].link # "none" /\ socket[s].drop = "none" BY DEF Present
      <3>2. CASE Connect(s)
        <4>1. socket'[s].link = "sadd" /\ socket'[s].drop = "none"
          BY <1>4, <3>2, SocketFields DEF Connect
        <4> QED BY <4>1
      <3>3. CASE ConnectOnline(s) \/ ConnectMap(s)
        <4>1. PICK l \in {"hset", "ready"} : socket' = [socket EXCEPT ![s].link = l]
          BY <3>3 DEF ConnectOnline, ConnectMap
        <4>2. socket'[s].up = socket[s].up BY <4>1, SocketFields
        <4>3. socket'[s].link = l BY <4>1, SocketFields
        <4>4. socket'[s].drop = socket[s].drop BY <4>1, SocketFields
        <4> QED BY <3>1, <4>2, <4>3, <4>4
      <3>4. CASE Close(s) BY <3>4, SocketFields
      <3>5. CASE CloseOnline(s) \/ CloseMap(s)
        <4>1. PICK d \in {"hdel", "gone"} : socket' = [socket EXCEPT ![s].drop = d]
          BY <3>5 DEF CloseOnline, CloseMap
        <4>2. socket[s].drop # "none" BY <3>5 DEF CloseOnline, CloseMap
        <4>3. socket'[s].up = socket[s].up BY <4>1, SocketFields
        <4> QED BY <3>1, <4>2, <4>3
      <3> QED BY <3>2, <3>3, <3>4, <3>5
    <2> QED BY <1>1, <2>1 DEF Present
  <1> QED BY <1>7, <1>8, <1>9 DEF Present

LEMMA PresentHolds == Spec => []Present
  <1>1. Init => Present
    <2> SUFFICES ASSUME Init PROVE Present OBVIOUS
    <2>1. \A s \in Sockets : socket[s] = Unborn BY DEF Init
    <2>2. \A u \in Users : Of(u) = {}
      <3>1. \A s \in Sockets : socket[s].owner = NONE BY <2>1 DEF Unborn
      <3> QED BY <3>1, ChannelNumbers DEF Of
    <2>3. \A u \in Users : Clear(u) BY <2>2 DEF Clear, Init
    <2> QED BY <2>1, <2>3 DEF Present, Unborn
  <1>2. Sound /\ Present /\ [Next]_vars => Present'
    <2> SUFFICES ASSUME Sound, Present, [Next]_vars PROVE Present' OBVIOUS
    <2>1. ASSUME \A t \in Sockets :
                    /\ socket'[t].owner = socket[t].owner /\ socket'[t].up = socket[t].up
                    /\ socket'[t].link = socket[t].link /\ socket'[t].drop = socket[t].drop,
                 UNCHANGED <<online, socketMap, muddled>>
          PROVE  Present'
      <3>1. ASSUME NEW u \in Users \ muddled' PROVE Clear(u)'
        <4>1. Clear(u) BY <2>1, <3>1 DEF Present
        <4> QED BY <2>1, <4>1, ClearStays DEF Of
      <3> QED BY <2>1, <3>1 DEF Present
    <2>2. ASSUME UNCHANGED presence PROVE Present'
      BY <2>1, <2>2 DEF presence
    <2>3. CASE UNCHANGED vars BY <2>2, <2>3 DEF vars
    <2>4. CASE JobStep BY <2>2, <2>4, JobTypes
    <2>5. ASSUME NEW r \in Reqs,
                 \/ OpenRead(r) \/ OpenCreate(r) \/ Archive(r)
                 \/ Send(r) \/ SendInsert(r) \/ SendCommit(r)
                 \/ ReadStart(r) \/ ReadStamp(r) \/ ReadFetch(r) \/ MarkRead(r)
          PROVE  Present'
      BY <2>2, <2>5, ChatTypes
    <2>6. ASSUME NEW r \in Reqs, SendEmit(r) PROVE Present'
      <3>1. UNCHANGED <<online, socketMap, muddled>> BY <2>6 DEF SendEmit
      <3> QED BY <2>1, <2>6, <3>1, EmitTypes
    <2>7. ASSUME NEW s \in Sockets, Join(s) PROVE Present'
      <3>1. UNCHANGED <<online, socketMap, muddled>> BY <2>7 DEF Join
      <3>2. \A t \in Sockets \ {s} : socket'[t] = socket[t]
        BY <2>7 DEF Join, Sound, RealtimeTypeOK
      <3> QED BY <2>1, <2>7, <3>1, <3>2, SocketFields
    <2>8. CASE Crash
      <3>1. \A s \in Sockets :
              /\ socket'[s].owner = socket[s].owner /\ ~socket'[s].up
              /\ socket'[s].link \in {"none", "ready"} /\ socket'[s].drop \in {"none", "gone"}
        BY <2>8, CrashTypes
      <3>2. online' = online /\ online \subseteq muddled' BY <2>8 DEF Crash
      <3>3. \A s \in Sockets : ~Live(s)' BY <3>1 DEF Live, Busy
      <3>4. \A u \in Users \ muddled' : Clear(u)'
        BY <3>1, <3>2, <3>3 DEF Clear, Of, Stage
      <3> QED BY <3>1, <3>4 DEF Present
    <2> QED BY <2>3, <2>4, <2>5, <2>6, <2>7, <2>8, PresentSteps DEF Next, ChatStep
  <1> QED BY <1>1, <1>2, SoundHolds, PTL DEF Spec

(* After one connection that met nothing else of its user's, the presence  *)
(* keys are right again, whatever crashes and races there were before.     *)
THEOREM PresenceHealsHolds == Spec => []PresenceHeals
  <1>1. Sound /\ Present => PresenceHeals
    <2> SUFFICES ASSUME Sound, Present, NEW u \in Users \ muddled, \A s \in Of(u) : ~Busy(s)
                 PROVE  /\ u \in online <=> \E s \in Of(u) : socket[s].up
                        /\ \A s \in Of(u) : socket[s].up => socketMap[u] = s
      BY DEF PresenceHeals
    <2>1. Clear(u) BY DEF Present
    <2>2. ASSUME NEW s \in Of(u), socket[s].up PROVE u \in online /\ socketMap[u] = s
      <3>1. s \in Sockets /\ ~Busy(s) BY DEF Of
      <3>2. socket[s].link \in Links BY <3>1 DEF Sound, RealtimeTypeOK, Socket
      <3>3. socket[s].link = "ready" BY <2>2, <3>1, <3>2 DEF Present, Busy, Links
      <3> QED BY <2>1, <2>2, <3>3 DEF Clear, Stage
    <2>3. (\A s \in Of(u) : ~socket[s].up) => u \notin online
      BY <2>1 DEF Clear, Live
    <2> QED BY <2>2, <2>3
  <1> QED BY <1>1, PresentHolds, SoundHolds, PTL
=============================================================================
