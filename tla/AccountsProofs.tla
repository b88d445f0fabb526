---------------------------- MODULE AccountsProofs ----------------------------
(***************************************************************************)
(* What an account keeps true, in every instance, while the handlers that  *)
(* touch it interleave and die.                                            *)
(*                                                                         *)
(* A handler never reads the row again, so the invariants say what of its  *)
(* reading still holds when it writes: a session it is about to write was  *)
(* opened, a login in flight finds room for its row, nobody works on an    *)
(* account that does not exist.                                            *)
(***************************************************************************)
EXTENDS Accounts, TLAPS, FiniteSetTheorems, WellFoundedInduction

LEMMA Numbers ==
    /\ MaxLoginAttempts \in Nat /\ MaxLoginAttempts >= 1 /\ MaxRequests \in Nat
    /\ Sessions \subseteq Nat /\ IsFiniteSet(Sessions) /\ IsFiniteSet(Reqs)
  BY CountsAssumption

-----------------------------------------------------------------------------
(* Requests after an assignment.                                           *)

LEMMA IdleOK ==
    /\ Idle \in Request /\ Idle.pc = "idle" /\ Idle.session = NONE
    /\ Idle.token = NONE /\ Idle.failed = 0
  BY DEF Idle, Request, Points

LEMMA Went ==
    ASSUME AccountsTypeOK, NEW r \in Reqs, NEW p \in Points, Goto(r, p)
    PROVE  /\ req' \in [Reqs -> Request]
           /\ req'[r].pc = p /\ req'[r].session = req[r].session
           /\ req'[r].failed = req[r].failed /\ req'[r].password = req[r].password
           /\ \A q \in Reqs \ {r} : req'[q] = req[q]
  <1>1. req \in [Reqs -> Request] /\ req[r] \in Request BY DEF AccountsTypeOK
  <1>2. [req[r] EXCEPT !.pc = p] \in Request BY <1>1 DEF Request
  <1> QED BY <1>1, <1>2 DEF Goto, Request

LEMMA Finished ==
    ASSUME AccountsTypeOK, NEW r \in Reqs, Finish(r)
    PROVE  /\ req' \in [Reqs -> Request] /\ req'[r] = Idle
           /\ \A q \in Reqs \ {r} : req'[q] = req[q]
  BY IdleOK DEF AccountsTypeOK, Finish

LEMMA Started ==
    ASSUME AccountsTypeOK, NEW r \in Reqs, NEW q \in Request, Start(r, q)
    PROVE  /\ req' \in [Reqs -> Request] /\ req'[r] = q /\ req[r].pc = "idle"
           /\ \A s \in Reqs \ {r} : req'[s] = req[s]
           /\ served' \in 0..MaxRequests
  BY Numbers DEF AccountsTypeOK, Start, Arrive, At

LEMMA Served ==
    ASSUME AccountsTypeOK, NEW r \in Reqs, AtOnce(r)
    PROVE  served' \in 0..MaxRequests /\ req' = req
  BY Numbers DEF AccountsTypeOK, AtOnce, Arrive

(* What the handlers start with.                                           *)
LEMMA Arrivals ==
    /\ \A p \in Points : [Idle EXCEPT !.pc = p] \in Request
    /\ \A p \in Points, s \in Sessions : [Idle EXCEPT !.pc = p, !.session = s] \in Request
    /\ \A p \in Points, t \in ResetTokens : [Idle EXCEPT !.pc = p, !.token = t] \in Request
    /\ \A p \in Points, n \in Nat, two \in BOOLEAN :
            [Idle EXCEPT !.pc = p, !.password = n, !.twoFactor = two] \in Request
  BY IdleOK DEF Request, Idle

LEMMA NamedPoints ==
    {"idle", "register_commit", "fail_read", "fail_write", "login_reset",
     "login_open", "refresh_user", "refresh_rotate", "logout_one",
     "reset_write", "reset_end", "reset_del", "verify_write", "verify_del",
     "enable_write", "enable_del", "change_write", "change_end",
     "host_write", "revoke_write", "delete_write", "suspend_write",
     "suspend_end"} \subseteq Points
  BY DEF Points

-----------------------------------------------------------------------------
(* Types.                                                                  *)

LEMMA SessionTypes ==
    ASSUME session \in [Sessions -> SessionRow]
    PROVE  /\ EndAll => session' \in [Sessions -> SessionRow]
           /\ \A s, x : x \in {"none", "active", "ended"} =>
                [session EXCEPT ![s].state = x] \in [Sessions -> SessionRow]
           /\ \A s : \A x \in BOOLEAN :
                [session EXCEPT ![s].live = x] \in [Sessions -> SessionRow]
  <1>1. ASSUME EndAll PROVE session' \in [Sessions -> SessionRow]
    <2>1. \A s \in Sessions : [session[s] EXCEPT !.state = "ended"] \in SessionRow
      BY DEF SessionRow
    <2> QED BY <1>1, <2>1 DEF EndAll
  <1>2. ASSUME NEW s, NEW x \in {"none", "active", "ended"}
        PROVE  [session EXCEPT ![s].state = x] \in [Sessions -> SessionRow]
    <2>1. s \in Sessions => [session[s] EXCEPT !.state = x] \in SessionRow BY DEF SessionRow
    <2> QED BY <2>1
  <1>3. ASSUME NEW s, NEW x \in BOOLEAN
        PROVE  [session EXCEPT ![s].live = x] \in [Sessions -> SessionRow]
    <2>1. s \in Sessions => [session[s] EXCEPT !.live = x] \in SessionRow BY DEF SessionRow
    <2> QED BY <2>1
  <1> QED BY <1>1, <1>2, <1>3

LEMMA ReadTypes ==
    ASSUME AccountsTypeOK, NEW r \in Reqs,
           \/ RegisterRead(r) \/ LoginRead(r) \/ RefreshRead(r) \/ LogoutRead(r)
           \/ VerifyRead(r) \/ ResetRead(r) \/ EnableRead(r) \/ ChangeRead(r)
           \/ HostRead(r) \/ RevokeRead(r) \/ DeleteRead(r) \/ SuspendRead(r)
    PROVE  AccountsTypeOK' /\ UNCHANGED <<user, session, redis, ghosts>>
  <1> USE DEF rows, redis, ghosts
  <1>1. UNCHANGED <<user, session, keys, resets, guesses, cutShort>>
    BY DEF RegisterRead, LoginRead, RefreshRead, LogoutRead, VerifyRead, ResetRead, EnableRead,
           ChangeRead, HostRead, RevokeRead, DeleteRead, SuspendRead
  <1>2. req' \in [Reqs -> Request] /\ served' \in 0..MaxRequests
    <2>1. ASSUME NEW q \in Request, Start(r, q)
          PROVE  req' \in [Reqs -> Request] /\ served' \in 0..MaxRequests
      BY <2>1, Started
    <2>2. user.password \in Nat /\ user.twoFactor \in BOOLEAN BY DEF AccountsTypeOK, UserRow
    <2>3. resets \subseteq ResetTokens BY DEF AccountsTypeOK
    <2>4. CASE RegisterRead(r) \/ VerifyRead(r) \/ SuspendRead(r)
      BY <2>1, <2>4, Arrivals, NamedPoints DEF RegisterRead, VerifyRead, SuspendRead
    <2>5. CASE EnableRead(r) \/ ChangeRead(r) \/ HostRead(r) \/ DeleteRead(r)
      BY <2>1, <2>5, Arrivals, NamedPoints
      DEF EnableRead, ChangeRead, HostRead, DeleteRead, Guarded
    <2>6. CASE LoginRead(r)
      BY <2>1, <2>2, <2>6, Arrivals, NamedPoints DEF LoginRead
    <2>7. CASE RefreshRead(r) \/ LogoutRead(r) \/ RevokeRead(r)
      BY <2>1, <2>7, Arrivals, NamedPoints DEF RefreshRead, LogoutRead, RevokeRead, Guarded
    <2>8. CASE ResetRead(r) BY <2>1, <2>3, <2>8, Arrivals, NamedPoints DEF ResetRead
    <2> QED BY <2>4, <2>5, <2>6, <2>7, <2>8
  <1> QED BY <1>1, <1>2 DEF AccountsTypeOK

(* The handlers that write the user row, and those that write sessions.    *)
LEMMA UserTypes ==
    ASSUME AccountsTypeOK, NEW r \in Reqs,
           \/ RegisterCommit(r) \/ FailRead(r) \/ FailWrite(r) \/ LoginReset(r)
           \/ VerifyWrite(r) \/ ResetWrite(r) \/ ChangeWrite(r) \/ EnableWrite(r)
           \/ HostWrite(r) \/ DeleteWrite(r) \/ SuspendWrite(r) \/ ActivateUser(r)
    PROVE  AccountsTypeOK'
  <1> USE DEF rows, redis, ghosts
  <1>t. /\ user \in UserRow /\ session \in [Sessions -> SessionRow]
        /\ keys \subseteq {"email-verify", "2fa-setup"} /\ resets \subseteq ResetTokens
        /\ req \in [Reqs -> Request] /\ req[r] \in Request
        /\ served \in 0..MaxRequests /\ guesses \in Nat /\ cutShort \subseteq Causes
        /\ req[r].failed \in Nat /\ user.password \in Nat
    BY DEF AccountsTypeOK, Request, UserRow
  <1>g. ASSUME NEW p \in Points, Goto(r, p) PROVE req' \in [Reqs -> Request]
    BY <1>g, Went
  <1>f. ASSUME Finish(r) PROVE req' \in [Reqs -> Request] BY <1>f, Finished
  <1>1. CASE RegisterCommit(r)
    <2>1. \A h \in BOOLEAN : NewUser(h) \in UserRow BY DEF NewUser, UserRow, UserStatus
    <2> QED BY <1>1, <1>f, <1>t, <2>1 DEF RegisterCommit, AccountsTypeOK
  <1>2. CASE FailRead(r)
    <2>1. user.failed \in Nat BY <1>t DEF UserRow
    <2>2. [req[r] EXCEPT !.pc = "fail_write", !.failed = user.failed] \in Request
      BY <1>t, <2>1, NamedPoints DEF Request
    <2>3. req' \in [Reqs -> Request] BY <1>2, <1>t, <2>2 DEF FailRead
    <2> QED BY <1>2, <1>t, <2>3 DEF FailRead, AccountsTypeOK
  <1>3. CASE FailWrite(r)
    <2>1. PICK n \in Nat : n = req[r].failed + 1 BY <1>t
    <2>2. PICK l \in {"null", "future", "past"} :
              user' = [user EXCEPT !.failed = n, !.locked = l]
      BY <1>3, <1>t, <2>1 DEF FailWrite, UserRow
    <2>3. user' \in UserRow BY <1>t, <2>2 DEF UserRow
    <2>4. guesses' \in Nat BY <1>3, <1>t DEF FailWrite
    <2> QED BY <1>3, <1>f, <1>t, <2>3, <2>4 DEF FailWrite, AccountsTypeOK
  <1>4. CASE LoginReset(r)
    <2>1. user' \in UserRow BY <1>4, <1>t DEF LoginReset, UserRow
    <2>2. req' \in [Reqs -> Request] BY <1>4, <1>f, <1>g, NamedPoints DEF LoginReset
    <2> QED BY <1>4, <1>t, <2>1, <2>2 DEF LoginReset, AccountsTypeOK
  <1>5. CASE ResetWrite(r) \/ ChangeWrite(r)
    <2>1. user' \in UserRow
      BY <1>5, <1>t DEF ResetWrite, ChangeWrite, NewPassword, UserRow
    <2>2. req' \in [Reqs -> Request]
      BY <1>5, <1>g, NamedPoints DEF ResetWrite, ChangeWrite, NewPassword
    <2> QED BY <1>5, <1>t, <2>1, <2>2 DEF ResetWrite, ChangeWrite, NewPassword, AccountsTypeOK
  <1>6. CASE VerifyWrite(r) \/ EnableWrite(r) \/ SuspendWrite(r)
    <2>1. user' \in UserRow
      BY <1>6, <1>t DEF VerifyWrite, EnableWrite, SuspendWrite, UserRow, UserStatus
    <2>2. req' \in [Reqs -> Request]
      BY <1>6, <1>g, NamedPoints DEF VerifyWrite, EnableWrite, SuspendWrite
    <2> QED BY <1>6, <1>t, <2>1, <2>2 DEF VerifyWrite, EnableWrite, SuspendWrite, AccountsTypeOK
  <1>7. CASE HostWrite(r) \/ DeleteWrite(r)
    <2>1. user' \in UserRow BY <1>7, <1>t DEF HostWrite, DeleteWrite, UserRow, UserStatus
    <2> QED BY <1>7, <1>f, <1>t, <2>1 DEF HostWrite, DeleteWrite, AccountsTypeOK
  <1>8. CASE ActivateUser(r)
    <2>1. user' \in UserRow BY <1>8, <1>t DEF ActivateUser, UserRow, UserStatus
    <2> QED BY <1>8, <1>t, <2>1, Served DEF ActivateUser, AccountsTypeOK
  <1> QED BY <1>1, <1>2, <1>3, <1>4, <1>5, <1>6, <1>7, <1>8

LEMMA OtherTypes ==
    ASSUME AccountsTypeOK, NEW r \in Reqs,
           \/ LoginOpen(r) \/ RefreshUser(r) \/ RefreshRotate(r) \/ LogoutOne(r)
           \/ LogoutAll(r) \/ RevokeWrite(r) \/ ResetEnd(r) \/ ChangeEnd(r) \/ SuspendEnd(r)
           \/ VerifyDrop(r) \/ EnableDrop(r) \/ ResetDrop(r) \/ RequestReset(r)
           \/ Setup2FA(r) \/ Die(r)
    PROVE  AccountsTypeOK'
  <1> USE DEF rows, redis, ghosts
  <1>t. /\ user \in UserRow /\ session \in [Sessions -> SessionRow]
        /\ keys \subseteq {"email-verify", "2fa-setup"} /\ resets \subseteq ResetTokens
        /\ req \in [Reqs -> Request] /\ req[r] \in Request
        /\ served \in 0..MaxRequests /\ guesses \in Nat /\ cutShort \subseteq Causes
        /\ req[r].password \in Nat
    BY DEF AccountsTypeOK, Request
  <1>g. ASSUME NEW p \in Points, Goto(r, p) PROVE req' \in [Reqs -> Request]
    BY <1>g, Went
  <1>f. ASSUME Finish(r) PROVE req' \in [Reqs -> Request] BY <1>f, Finished
  <1>1. CASE LoginOpen(r)
    <2>1. PICK s, x : /\ session' = [session EXCEPT ![s] = x]
                      /\ x = [state |-> "active", live |-> TRUE, password |-> req[r].password,
                              late |-> {c \in {"password"} : req[r].password # user.password}
                                  \cup {c \in {"suspension"} : user.status = "SUSPENDED"}]
      BY <1>1 DEF LoginOpen
    <2>2. x \in SessionRow BY <1>t, <2>1 DEF SessionRow, Causes
    <2>3. session' \in [Sessions -> SessionRow] BY <1>t, <2>1, <2>2
    <2> QED BY <1>1, <1>f, <1>t, <2>3 DEF LoginOpen, AccountsTypeOK
  <1>2. CASE RefreshUser(r)
    BY <1>2, <1>f, <1>g, <1>t, NamedPoints DEF RefreshUser, AccountsTypeOK
  <1>3. CASE RefreshRotate(r)
    BY <1>3, <1>f, <1>t, SessionTypes DEF RefreshRotate, AccountsTypeOK
  <1>4. CASE LogoutOne(r) \/ RevokeWrite(r)
    <2>1. PICK p : EndOne(r, p) BY <1>4 DEF LogoutOne, RevokeWrite
    <2>2. session' \in [Sessions -> SessionRow] BY <1>t, <2>1, SessionTypes DEF EndOne
    <2> QED BY <1>f, <1>t, <2>1, <2>2 DEF EndOne, AccountsTypeOK
  <1>5. CASE LogoutAll(r)
    BY <1>5, <1>t, SessionTypes, Served DEF LogoutAll, AccountsTypeOK
  <1>6. CASE ResetEnd(r) \/ ChangeEnd(r) \/ SuspendEnd(r)
    <2>1. req' \in [Reqs -> Request]
      BY <1>6, <1>f, <1>g, NamedPoints DEF ResetEnd, ChangeEnd, SuspendEnd
    <2>2. session' \in [Sessions -> SessionRow]
      BY <1>6, <1>t, SessionTypes DEF ResetEnd, ChangeEnd, SuspendEnd, EndThem
    <2> QED BY <1>6, <1>t, <2>1, <2>2
        DEF ResetEnd, ChangeEnd, SuspendEnd, EndThem, AccountsTypeOK
  <1>7. CASE VerifyDrop(r) \/ EnableDrop(r) \/ ResetDrop(r)
    BY <1>7, <1>f, <1>t DEF VerifyDrop, EnableDrop, DropKey, ResetDrop, AccountsTypeOK
  <1>8. CASE RequestReset(r) \/ Setup2FA(r)
    BY <1>8, <1>t, Served DEF RequestReset, Setup2FA, AccountsTypeOK
  <1>9. CASE Die(r)
    BY <1>9, <1>f, <1>t DEF Die, AccountsTypeOK, Causes
  <1> QED BY <1>1, <1>2, <1>3, <1>4, <1>5, <1>6, <1>7, <1>8, <1>9

(* The rows, keys and requests of an account keep their types.             *)
THEOREM AccountsTypesHold == Spec => []AccountsTypeOK
  <1> USE DEF rows, redis, ghosts
  <1>1. Init => AccountsTypeOK
    <2> SUFFICES ASSUME Init PROVE AccountsTypeOK OBVIOUS
    <2>1. user \in UserRow
      <3>1. \A h \in BOOLEAN : NewUser(h) \in UserRow BY DEF NewUser, UserRow, UserStatus
      <3> QED BY <3>1 DEF Init, UserRow, UserStatus
    <2>2. session \in [Sessions -> SessionRow]
      <3>1. /\ NoSession \in SessionRow
            /\ [state |-> "active", live |-> TRUE, password |-> 1, late |-> {}] \in SessionRow
        BY DEF SessionRow, NoSession
      <3> QED BY <3>1 DEF Init
    <2> QED BY <2>1, <2>2, IdleOK, Numbers DEF Init, AccountsTypeOK
  <1>2. AccountsTypeOK /\ [Next]_vars => AccountsTypeOK'
    <2> SUFFICES ASSUME AccountsTypeOK, [Next]_vars PROVE AccountsTypeOK' OBVIOUS
    <2>1. CASE UNCHANGED vars BY <2>1 DEF vars, AccountsTypeOK
    <2>2. ASSUME NEW r \in Reqs, AuthStep(r) \/ UsersStep(r) \/ Die(r)
          PROVE  AccountsTypeOK'
      BY <2>2, ReadTypes, UserTypes, OtherTypes DEF AuthStep, UsersStep
    <2>3. ASSUME NEW s \in Sessions, SessionExpires(s) PROVE AccountsTypeOK'
      BY <2>3, SessionTypes DEF SessionExpires, AccountsTypeOK
    <2>4. CASE LockPasses BY <2>4 DEF LockPasses, AccountsTypeOK, UserRow
    <2>5. CASE KeyExpires BY <2>5 DEF KeyExpires, AccountsTypeOK
    <2> QED BY <2>1, <2>2, <2>3, <2>4, <2>5 DEF Next
  <1> QED BY <1>1, <1>2, PTL DEF Spec

-----------------------------------------------------------------------------
(* What a handler still relies on when it writes.                          *)

Holding     == {"refresh_user", "refresh_rotate", "logout_one", "revoke_write"}
LoginPoints == {"login_reset", "login_open"}
Changing    == {"reset_end", "change_end"}

Free      == {s \in Sessions : session[s].state = "none"}
LoggingIn == {r \in Reqs : req[r].pc \in LoginPoints}
Unopened  == \A s \in Sessions : session[s].state = "none"
Closed    == \A s \in Sessions : session[s].state # "active"

(* Before the registration there is nothing to work on.                    *)
Blank == ~Exists =>
    /\ user = [NewUser(FALSE) EXCEPT !.status = NONE]
    /\ Unopened /\ keys = {} /\ resets = {} /\ guesses = 0
    /\ \A r \in Reqs : req[r].pc \in {"idle", "register_commit"}

(* A session that a handler has found is there for good.                   *)
Found == \A r \in Reqs : req[r].pc \in Holding =>
             req[r].session \in Sessions /\ session[req[r].session].state # "none"

(* Every login in flight will find an unused row.                          *)
Room == Cardinality(LoggingIn) <= Cardinality(Free)

AccountInv == Blank /\ Found /\ Room

(* No session is opened or opened again, and none is forgotten.            *)
Lasting == \A s \in Sessions :
    /\ session'[s].state = "none" <=> session[s].state = "none"
    /\ session[s].state = "ended" => session'[s].state = "ended"
    /\ session'[s].password = session[s].password /\ session'[s].late = session[s].late

(* A step of the handler in slot r that opens no session: what it leaves   *)
(* to those who come after it.                                             *)
Minor(r) ==
    /\ \A q \in Reqs \ {r} : req'[q] = req[q]
    /\ Lasting
    /\ cutShort \subseteq cutShort'
    /\ req[r].pc \in Changing => "password" \in cutShort' \/ Closed'
    /\ req[r].pc = "suspend_end" => "suspension" \in cutShort' \/ Closed'
    /\ user'.password = user.password \/ req'[r].pc \in Changing \/ Unopened
    /\ user'.status = "SUSPENDED" => user.status = "SUSPENDED" \/ req'[r].pc = "suspend_end"
    /\ req'[r].pc \in Holding =>
            req'[r].session \in Sessions /\ session[req'[r].session].state # "none"
    /\ req'[r].pc \in LoginPoints =>
            r \in LoggingIn \/ Cardinality(LoggingIn) < Cardinality(Free)

-----------------------------------------------------------------------------
(* Sessions.                                                               *)

LEMMA SessionsLast ==
    ASSUME AccountsTypeOK
    PROVE  /\ session' = session => Lasting
           /\ EndAll => Lasting /\ Closed'
           /\ \A s, x : session' = [session EXCEPT ![s].live = x] => Lasting
           /\ \A s \in Sessions : session' = [session EXCEPT ![s].state = "ended"]
                    /\ session[s].state # "none" => Lasting
  <1>t. session \in [Sessions -> SessionRow] BY DEF AccountsTypeOK
  <1>1. session' = session => Lasting BY DEF Lasting
  <1>2. ASSUME EndAll PROVE Lasting /\ Closed'
    <2>1. \A s \in Sessions : session[s] \in SessionRow BY <1>t
    <2>2. \A s \in Sessions : session'[s] = IF session[s].state = "active"
                 THEN [session[s] EXCEPT !.state = "ended"] ELSE session[s]
      BY <1>2 DEF EndAll
    <2>3. ASSUME NEW s \in Sessions
          PROVE  /\ session'[s].state = "none" <=> session[s].state = "none"
                 /\ session[s].state = "ended" => session'[s].state = "ended"
                 /\ session'[s].password = session[s].password
                 /\ session'[s].late = session[s].late
                 /\ session'[s].state # "active"
      BY <2>1, <2>2 DEF SessionRow
    <2> QED BY <2>3 DEF Lasting, Closed
  <1>3. ASSUME NEW s, NEW x, session' = [session EXCEPT ![s].live = x] PROVE Lasting
    BY <1>3, <1>t DEF Lasting, SessionRow
  <1>4. ASSUME NEW s \in Sessions, session' = [session EXCEPT ![s].state = "ended"],
               session[s].state # "none"
        PROVE  Lasting
    BY <1>4, <1>t DEF Lasting, SessionRow
  <1> QED BY <1>1, <1>2, <1>3, <1>4

(* The first unused row exists.                                            *)
LEMMA LeastNumber ==
    ASSUME NEW T \in SUBSET Nat, IsFiniteSet(T), T # {}
    PROVE  \E x \in T : \A y \in T : x <= y
  <1> DEFINE Below(x) == {y \in T : y < x}
             B == {Below(x) : x \in T}
  <1>1. B \subseteq FiniteSubsetsOf(T) /\ B # {}
    <2>1. FiniteSubsetsOf(T) = SUBSET T BY FS_FiniteSubsetsOfFinite
    <2>2. \A x \in T : Below(x) \in SUBSET T OBVIOUS
    <2>3. PICK x \in T : TRUE OBVIOUS
    <2>4. Below(x) \in B OBVIOUS
    <2>5. B \subseteq SUBSET T BY <2>2
    <2> HIDE DEF B
    <2> QED BY <2>1, <2>4, <2>5
  <1>2. PICK b \in B : \A c \in B : ~ (<<c, b>> \in StrictSubsetOrdering(T))
    BY <1>1, FS_StrictSubsetOrderingWellFounded, WFMin
  <1>3. PICK x \in T : b = Below(x) OBVIOUS
  <1>4. ASSUME NEW y \in T, y < x PROVE FALSE
    <2>1. y \in Nat /\ x \in Nat OBVIOUS
    <2>2. y \in Below(x) /\ y \notin Below(y) BY <1>4, <2>1
    <2>3. Below(y) \subseteq Below(x)
      <3>1. ASSUME NEW z \in T, z < y PROVE z < x
        <4>1. z \in Nat OBVIOUS
        <4> QED BY <1>4, <2>1, <3>1, <4>1
      <3> QED BY <3>1
    <2>4. Below(x) \in SUBSET T /\ Below(y) \in SUBSET T OBVIOUS
    <2>5. Below(y) \in B OBVIOUS
    <2> HIDE DEF Below, B
    <2>6. <<Below(y), Below(x)>> \in StrictSubsetOrdering(T)
      BY <2>2, <2>3, <2>4 DEF StrictSubsetOrdering
    <2> QED BY <1>2, <1>3, <2>5, <2>6
  <1>5. \A y \in T : ~(y < x) BY <1>4
  <1>6. \A y \in T : y \in Nat /\ x \in Nat OBVIOUS
  <1> QED BY <1>5, <1>6

LEMMA Finite ==
    /\ IsFiniteSet(Free) /\ Cardinality(Free) \in Nat
    /\ IsFiniteSet(LoggingIn) /\ Cardinality(LoggingIn) \in Nat
  <1>1. Free \subseteq Sessions /\ LoggingIn \subseteq Reqs BY DEF Free, LoggingIn
  <1> QED BY <1>1, Numbers, FS_Subset, FS_CardinalityType

(* A login opens a row that was unused.                                    *)
LEMMA LoginOpens ==
    ASSUME AccountsTypeOK, Room, NEW r \in Reqs, LoginOpen(r)
    PROVE  \E s \in Free :
              /\ \A t \in Sessions \ {s} : session'[t] = session[t]
              /\ session'[s].state = "active" /\ session'[s].password = req[r].password
              /\ req[r].password # user.password => "password" \in session'[s].late
              /\ user.status = "SUSPENDED" => "suspension" \in session'[s].late
  <1>1. r \in LoggingIn BY DEF LoginOpen, At, LoggingIn, LoginPoints
  <1>2. Cardinality(LoggingIn) # 0 BY <1>1, Finite, FS_EmptySet
  <1>3. Free # {}
    <2>1. Cardinality(Free) # 0 BY <1>2, Finite DEF Room
    <2> QED BY <2>1, FS_EmptySet
  <1>4. Free \subseteq Nat BY Numbers DEF Free
  <1>5. PICK x \in Free : \A y \in Free : x <= y BY <1>3, <1>4, Finite, LeastNumber
  <1> DEFINE First(s) == /\ session[s].state = "none"
                         /\ \A t \in Sessions : t < s => session[t].state # "none"
             c == CHOOSE s \in Sessions : First(s)
  <1>6. x \in Sessions /\ First(x)
    <2>1. x \in Sessions /\ session[x].state = "none" /\ x \in Nat BY <1>4 DEF Free
    <2>2. ASSUME NEW t \in Sessions, t < x, session[t].state = "none" PROVE FALSE
      <3>1. t \in Free /\ t \in Nat BY <2>2, Numbers DEF Free
      <3> QED BY <1>5, <2>1, <2>2, <3>1
    <2> QED BY <2>1, <2>2
  <1>7. c \in Sessions /\ First(c) BY <1>6
  <1>8. PICK n : /\ n = [state |-> "active", live |-> TRUE, password |-> req[r].password,
                        late |-> {k \in {"password"} : req[r].password # user.password}
                            \cup {k \in {"suspension"} : user.status = "SUSPENDED"}]
                 /\ session' = [session EXCEPT ![c] = n]
    BY DEF LoginOpen
  <1> HIDE DEF c
  <1>9. c \in Free BY <1>7 DEF Free
  <1>10. session'[c] = n /\ \A t \in Sessions \ {c} : session'[t] = session[t]
    BY <1>7, <1>8 DEF AccountsTypeOK
  <1> QED BY <1>8, <1>9, <1>10

-----------------------------------------------------------------------------
(* Every step of a handler is LoginOpen, or leaves Minor.                  *)

AccountStep(r) == AuthStep(r) \/ UsersStep(r) \/ Die(r)
ClockStep      == (\E s \in Sessions : SessionExpires(s)) \/ LockPasses \/ KeyExpires

LEMMA NextSteps == Next <=> (\E r \in Reqs : AccountStep(r)) \/ ClockStep
  BY DEF Next, AccountStep, ClockStep

LEMMA ReadMinor ==
    ASSUME AccountsTypeOK, NEW r \in Reqs, NEW q \in Request, Start(r, q),
           UNCHANGED <<user, session, cutShort>>,
           q.pc \in Holding => q.session \in Sessions /\ session[q.session].state # "none",
           q.pc \in LoginPoints => Cardinality(LoggingIn) < Cardinality(Free)
    PROVE  Minor(r)
  <1>1. /\ req'[r] = q /\ req[r].pc = "idle"
        /\ \A s \in Reqs \ {r} : req'[s] = req[s]
    BY Started
  <1>2. Lasting BY SessionsLast
  <1> QED BY <1>1, <1>2 DEF Minor, Changing

LEMMA ReadsAreMinor ==
    ASSUME AccountsTypeOK, NEW r \in Reqs,
           \/ RegisterRead(r) \/ LoginRead(r) \/ RefreshRead(r) \/ LogoutRead(r)
           \/ VerifyRead(r) \/ ResetRead(r) \/ EnableRead(r) \/ ChangeRead(r)
           \/ HostRead(r) \/ RevokeRead(r) \/ DeleteRead(r) \/ SuspendRead(r)
    PROVE  Minor(r)
  <1>1. UNCHANGED <<user, session, cutShort>> BY ReadTypes DEF ghosts
  <1>2. ASSUME NEW p \in Points, p \notin Holding \cup LoginPoints,
               Start(r, [Idle EXCEPT !.pc = p])
        PROVE  Minor(r)
    <2>1. PICK q \in Request : q = [Idle EXCEPT !.pc = p] BY Arrivals
    <2>2. q.pc = p BY <2>1 DEF Idle
    <2> QED BY <1>1, <1>2, <2>1, <2>2, ReadMinor
  <1>3. ASSUME NEW p \in Points, NEW s \in Sessions, session[s].state # "none",
               p \notin LoginPoints, Start(r, [Idle EXCEPT !.pc = p, !.session = s])
        PROVE  Minor(r)
    <2>1. PICK q \in Request : q = [Idle EXCEPT !.pc = p, !.session = s] BY Arrivals
    <2>2. q.pc = p /\ q.session = s BY <2>1 DEF Idle
    <2> QED BY <1>1, <1>3, <2>1, <2>2, ReadMinor
  <1>4. CASE RegisterRead(r) \/ VerifyRead(r) \/ SuspendRead(r)
    BY <1>2, <1>4, NamedPoints DEF RegisterRead, VerifyRead, SuspendRead, Holding, LoginPoints
  <1>5. CASE EnableRead(r) \/ ChangeRead(r) \/ HostRead(r) \/ DeleteRead(r)
    BY <1>2, <1>5, NamedPoints
    DEF EnableRead, ChangeRead, HostRead, DeleteRead, Guarded, Holding, LoginPoints
  <1>6. CASE RefreshRead(r) \/ LogoutRead(r) \/ RevokeRead(r)
    BY <1>3, <1>6, NamedPoints
    DEF RefreshRead, LogoutRead, RevokeRead, Guarded, Usable, LoginPoints
  <1>7. CASE ResetRead(r)
    <2>1. PICK t \in resets : Start(r, [Idle EXCEPT !.pc = "reset_write", !.token = t])
      BY <1>7 DEF ResetRead
    <2>2. t \in ResetTokens BY DEF AccountsTypeOK
    <2>3. PICK q \in Request : q = [Idle EXCEPT !.pc = "reset_write", !.token = t]
      BY <2>2, Arrivals, NamedPoints
    <2>4. q.pc = "reset_write" BY <2>3 DEF Idle
    <2> QED BY <1>1, <2>1, <2>3, <2>4, ReadMinor DEF Holding, LoginPoints
  <1>8. CASE LoginRead(r)
    <2>1. Cardinality(LoggingIn) < Cardinality(Free)
      <3>1. Cardinality(Free) > Cardinality(LoggingIn)
        BY <1>8 DEF LoginRead, Free, LoggingIn, LoginPoints
      <3> QED BY <3>1, Finite
    <2>2. CASE Start(r, [Idle EXCEPT !.pc = "fail_read"])
      BY <1>2, <2>2, NamedPoints DEF Holding, LoginPoints
    <2>3. CASE Start(r, [Idle EXCEPT !.pc = "login_reset", !.password = user.password,
                                     !.twoFactor = user.twoFactor])
      <3>1. user.password \in Nat /\ user.twoFactor \in BOOLEAN BY DEF AccountsTypeOK, UserRow
      <3>2. PICK q \in Request : q = [Idle EXCEPT !.pc = "login_reset",
                       !.password = user.password, !.twoFactor = user.twoFactor]
        BY <3>1, Arrivals, NamedPoints
      <3>3. q.pc = "login_reset" BY <3>2 DEF Idle
      <3> QED BY <1>1, <2>1, <2>3, <3>2, <3>3, ReadMinor DEF Holding
    <2> QED BY <1>8, <2>2, <2>3 DEF LoginRead
  <1> QED BY <1>4, <1>5, <1>6, <1>7, <1>8

LEMMA UserWritesAreMinor ==
    ASSUME AccountsTypeOK, AccountInv, NEW r \in Reqs,
           \/ RegisterCommit(r) \/ FailRead(r) \/ FailWrite(r) \/ LoginReset(r)
           \/ VerifyWrite(r) \/ ResetWrite(r) \/ ChangeWrite(r) \/ EnableWrite(r)
           \/ HostWrite(r) \/ DeleteWrite(r) \/ SuspendWrite(r) \/ ActivateUser(r)
    PROVE  Minor(r)
  <1> USE DEF rows, redis, ghosts, At
  <1>t. user \in UserRow /\ req \in [Reqs -> Request] /\ req[r] \in Request
    BY DEF AccountsTypeOK
  <1>s. UNCHANGED <<session, cutShort>>
    BY DEF RegisterCommit, FailRead, FailWrite, LoginReset, VerifyWrite, ResetWrite, ChangeWrite,
           NewPassword, EnableWrite, HostWrite, DeleteWrite, SuspendWrite, ActivateUser
  <1>l. Lasting BY <1>s, SessionsLast
  <1>p. req[r].pc \notin Changing \cup {"suspend_end"}
    BY DEF RegisterCommit, FailRead, FailWrite, LoginReset, VerifyWrite, ResetWrite, ChangeWrite,
           NewPassword, EnableWrite, HostWrite, DeleteWrite, SuspendWrite, ActivateUser,
           AtOnce, Arrive, Changing
  <1>g. ASSUME NEW p \in Points, Goto(r, p)
        PROVE  req'[r].pc = p /\ \A q \in Reqs \ {r} : req'[q] = req[q]
    BY <1>g, Went
  <1>f. ASSUME Finish(r)
        PROVE  req'[r].pc = "idle" /\ \A q \in Reqs \ {r} : req'[q] = req[q]
    BY <1>f, Finished, IdleOK
  <1>m. ASSUME \A q \in Reqs \ {r} : req'[q] = req[q], req'[r].pc \notin Holding,
               req'[r].pc \in LoginPoints => r \in LoggingIn,
               user'.password = user.password \/ req'[r].pc \in Changing \/ Unopened,
               user'.status = "SUSPENDED" =>
                    user.status = "SUSPENDED" \/ req'[r].pc = "suspend_end"
        PROVE  Minor(r)
    BY <1>l, <1>m, <1>p, <1>s DEF Minor
  <1>1. CASE RegisterCommit(r)
    <2>1. CASE Exists
      BY <1>1, <1>f, <1>m, <2>1 DEF RegisterCommit, Holding, LoginPoints
    <2>2. CASE ~Exists
      <3>1. Unopened BY <2>2 DEF AccountInv, Blank
      <3>2. user'.status # "SUSPENDED" BY <1>1, <2>2 DEF RegisterCommit, NewUser
      <3> QED BY <1>1, <1>f, <1>m, <3>1, <3>2 DEF RegisterCommit, Holding, LoginPoints
    <2> QED BY <2>1, <2>2
  <1>2. CASE FailRead(r)
    <2>1. req'[r].pc = "fail_write" /\ \A q \in Reqs \ {r} : req'[q] = req[q]
      BY <1>2, <1>t DEF FailRead, Request
    <2> QED BY <1>2, <1>m, <2>1 DEF FailRead, Holding, LoginPoints
  <1>3. CASE FailWrite(r)
    <2>1. user'.password = user.password /\ user'.status = user.status
      BY <1>3, <1>t DEF FailWrite, UserRow
    <2> QED BY <1>3, <1>f, <1>m, <2>1 DEF FailWrite, Holding, LoginPoints
  <1>4. CASE LoginReset(r)
    <2>1. user'.password = user.password /\ user'.status = user.status
      BY <1>4, <1>t DEF LoginReset, UserRow
    <2>2. r \in LoggingIn BY <1>4 DEF LoginReset, LoggingIn, LoginPoints
    <2>3. req'[r].pc \in {"login_open", "idle"} /\ \A q \in Reqs \ {r} : req'[q] = req[q]
      BY <1>4, <1>f, <1>g, NamedPoints DEF LoginReset
    <2> QED BY <1>m, <2>1, <2>2, <2>3 DEF Holding
  <1>5. CASE ResetWrite(r) \/ ChangeWrite(r)
    <2>1. user'.status = user.status
      BY <1>5, <1>t DEF ResetWrite, ChangeWrite, NewPassword, UserRow
    <2>2. req'[r].pc \in Changing /\ \A q \in Reqs \ {r} : req'[q] = req[q]
      BY <1>5, <1>g, NamedPoints DEF ResetWrite, ChangeWrite, NewPassword, Changing
    <2> QED BY <1>m, <2>1, <2>2 DEF Changing, Holding, LoginPoints
  <1>6. CASE VerifyWrite(r) \/ EnableWrite(r)
    <2>1. user'.password = user.password
          /\ (user'.status = "SUSPENDED" => user.status = "SUSPENDED")
      BY <1>6, <1>t DEF VerifyWrite, EnableWrite, UserRow
    <2>2. req'[r].pc \in {"verify_del", "enable_del"} /\ \A q \in Reqs \ {r} : req'[q] = req[q]
      BY <1>6, <1>g, NamedPoints DEF VerifyWrite, EnableWrite
    <2> QED BY <1>m, <2>1, <2>2 DEF Holding, LoginPoints
  <1>7. CASE SuspendWrite(r)
    <2>1. user'.password = user.password BY <1>7, <1>t DEF SuspendWrite, UserRow
    <2>2. req'[r].pc = "suspend_end" /\ \A q \in Reqs \ {r} : req'[q] = req[q]
      BY <1>7, <1>g, NamedPoints DEF SuspendWrite
    <2> QED BY <1>m, <2>1, <2>2 DEF Holding, LoginPoints
  <1>8. CASE HostWrite(r) \/ DeleteWrite(r)
    <2>1. user'.password = user.password
          /\ (user'.status = "SUSPENDED" => user.status = "SUSPENDED")
      BY <1>8, <1>t DEF HostWrite, DeleteWrite, UserRow
    <2> QED BY <1>8, <1>f, <1>m, <2>1 DEF HostWrite, DeleteWrite, Holding, LoginPoints
  <1>9. CASE ActivateUser(r)
    <2>1. user'.password = user.password /\ user'.status = "ACTIVE"
      BY <1>9, <1>t DEF ActivateUser, UserRow
    <2>2. req' = req /\ req[r].pc = "idle" BY <1>9 DEF ActivateUser, AtOnce, Arrive
    <2> QED BY <1>m, <2>1, <2>2 DEF Holding, LoginPoints
  <1> QED BY <1>1, <1>2, <1>3, <1>4, <1>5, <1>6, <1>7, <1>8, <1>9

LEMMA OthersAreMinor ==
    ASSUME AccountsTypeOK, AccountInv, NEW r \in Reqs,
           \/ RefreshUser(r) \/ RefreshRotate(r) \/ LogoutOne(r)
           \/ LogoutAll(r) \/ RevokeWrite(r) \/ ResetEnd(r) \/ ChangeEnd(r) \/ SuspendEnd(r)
           \/ VerifyDrop(r) \/ EnableDrop(r) \/ ResetDrop(r) \/ RequestReset(r)
           \/ Setup2FA(r) \/ Die(r)
    PROVE  Minor(r)
  <1> USE DEF rows, redis, ghosts, At
  <1>u. user' = user
    BY DEF RefreshUser, RefreshRotate, LogoutOne, RevokeWrite, EndOne, LogoutAll, ResetEnd,
           ChangeEnd, SuspendEnd, EndThem, VerifyDrop, EnableDrop, DropKey, ResetDrop,
           RequestReset, Setup2FA, Die
  <1>i. req[r].pc \in Holding => req[r].session \in Sessions
                                 /\ session[req[r].session].state # "none"
    BY DEF AccountInv, Found
  <1>g. ASSUME NEW p \in Points, Goto(r, p)
        PROVE  /\ req'[r].pc = p /\ req'[r].session = req[r].session
               /\ \A q \in Reqs \ {r} : req'[q] = req[q]
    BY <1>g, Went
  <1>f. ASSUME Finish(r)
        PROVE  req'[r].pc = "idle" /\ \A q \in Reqs \ {r} : req'[q] = req[q]
    BY <1>f, Finished, IdleOK
  <1>m. ASSUME \A q \in Reqs \ {r} : req'[q] = req[q], Lasting, cutShort' = cutShort,
               req'[r].pc \notin Holding \cup LoginPoints,
               req[r].pc \in Changing \cup {"suspend_end"} => Closed'
        PROVE  Minor(r)
    BY <1>m, <1>u DEF Minor
  <1>1. CASE RefreshUser(r)
    <2>1. Lasting BY <1>1, SessionsLast DEF RefreshUser
    <2>2. CASE Finish(r)
      BY <1>1, <1>f, <1>m, <2>1, <2>2 DEF RefreshUser, Holding, LoginPoints, Changing
    <2>3. CASE Goto(r, "refresh_rotate")
      <3>1. /\ req'[r].pc = "refresh_rotate" /\ req'[r].session = req[r].session
            /\ \A q \in Reqs \ {r} : req'[q] = req[q]
        BY <1>g, <2>3, NamedPoints
      <3>2. req[r].pc = "refresh_user" /\ cutShort' = cutShort BY <1>1 DEF RefreshUser
      <3>3. req[r].session \in Sessions /\ session[req[r].session].state # "none"
        BY <1>i, <3>2 DEF Holding
      <3> QED BY <1>u, <2>1, <3>1, <3>2, <3>3 DEF Minor, LoginPoints, Changing
    <2> QED BY <1>1, <2>2, <2>3 DEF RefreshUser
  <1>2. CASE RefreshRotate(r)
    <2>1. Lasting BY <1>2, SessionsLast DEF RefreshRotate
    <2> QED BY <1>2, <1>f, <1>m, <2>1 DEF RefreshRotate, Holding, LoginPoints, Changing
  <1>3. CASE LogoutOne(r) \/ RevokeWrite(r)
    <2>1. PICK p \in {"logout_one", "revoke_write"} : EndOne(r, p)
      BY <1>3 DEF LogoutOne, RevokeWrite
    <2>2. req[r].pc \in Holding BY <2>1 DEF EndOne, Holding
    <2>3. Lasting BY <1>i, <2>1, <2>2, SessionsLast DEF EndOne
    <2> QED BY <1>f, <1>m, <2>1, <2>3 DEF EndOne, Holding, LoginPoints, Changing
  <1>4. CASE LogoutAll(r)
    <2>1. Lasting /\ Closed' BY <1>4, SessionsLast DEF LogoutAll
    <2>2. req' = req /\ req[r].pc = "idle" BY <1>4 DEF LogoutAll, AtOnce, Arrive
    <2> QED BY <1>4, <1>m, <2>1, <2>2 DEF LogoutAll, Holding, LoginPoints
  <1>5. CASE ResetEnd(r) \/ ChangeEnd(r) \/ SuspendEnd(r)
    <2>1. PICK p : EndThem(r, p) BY <1>5 DEF ResetEnd, ChangeEnd, SuspendEnd
    <2>2. Lasting /\ Closed' BY <2>1, SessionsLast DEF EndThem
    <2>3. req'[r].pc \in {"reset_del", "idle"} /\ \A q \in Reqs \ {r} : req'[q] = req[q]
      BY <1>5, <1>f, <1>g, NamedPoints DEF ResetEnd, ChangeEnd, SuspendEnd
    <2> QED BY <1>m, <2>1, <2>2, <2>3 DEF EndThem, Holding, LoginPoints
  <1>6. CASE VerifyDrop(r) \/ EnableDrop(r) \/ ResetDrop(r)
    <2>1. Lasting
      BY <1>6, SessionsLast DEF VerifyDrop, EnableDrop, DropKey, ResetDrop
    <2> QED BY <1>6, <1>f, <1>m, <2>1
        DEF VerifyDrop, EnableDrop, DropKey, ResetDrop, Holding, LoginPoints, Changing
  <1>7. CASE RequestReset(r) \/ Setup2FA(r)
    <2>1. Lasting BY <1>7, SessionsLast DEF RequestReset, Setup2FA
    <2>2. req' = req /\ req[r].pc = "idle" BY <1>7 DEF RequestReset, Setup2FA, AtOnce, Arrive
    <2> QED BY <1>7, <1>m, <2>1, <2>2
        DEF RequestReset, Setup2FA, Holding, LoginPoints, Changing
  <1>8. CASE Die(r)
    <2>1. Lasting BY <1>8, SessionsLast DEF Die
    <2>2. /\ cutShort \subseteq cutShort'
          /\ req[r].pc \in Changing => "password" \in cutShort'
          /\ req[r].pc = "suspend_end" => "suspension" \in cutShort'
      BY <1>8 DEF Die, Changing
    <2>3. req'[r].pc = "idle" /\ \A q \in Reqs \ {r} : req'[q] = req[q]
      BY <1>8, <1>f DEF Die
    <2> QED BY <1>u, <2>1, <2>2, <2>3 DEF Minor, Holding, LoginPoints
  <1> QED BY <1>1, <1>2, <1>3, <1>4, <1>5, <1>6, <1>7, <1>8

LEMMA HandlerSteps ==
    ASSUME AccountsTypeOK, AccountInv, NEW r \in Reqs, AccountStep(r)
    PROVE  Minor(r) \/ LoginOpen(r)
  BY ReadsAreMinor, UserWritesAreMinor, OthersAreMinor DEF AccountStep, AuthStep, UsersStep

LEMMA ClockSteps ==
    ASSUME AccountsTypeOK, ClockStep
    PROVE  /\ Lasting /\ UNCHANGED <<req, cutShort, guesses>>
           /\ user'.password = user.password /\ user'.status = user.status
           /\ user'.failed = user.failed
  <1> USE DEF rows, redis, ghosts
  <1>1. CASE \E s \in Sessions : SessionExpires(s)
    BY <1>1, SessionsLast DEF SessionExpires
  <1>2. CASE LockPasses
    <2>1. Lasting BY <1>2, SessionsLast DEF LockPasses
    <2> QED BY <1>2, <2>1 DEF LockPasses, AccountsTypeOK, UserRow
  <1>3. CASE KeyExpires BY <1>3, SessionsLast DEF KeyExpires
  <1> QED BY <1>1, <1>2, <1>3 DEF ClockStep

-----------------------------------------------------------------------------
(* The three parts of the invariant.                                       *)

LEMMA BlankSteps ==
    ASSUME AccountsTypeOK, AccountInv, ~Exists, NEW r \in Reqs, AccountStep(r)
    PROVE  RegisterRead(r) \/ RegisterCommit(r) \/ Die(r)
  <1>1. req[r].pc \in {"idle", "register_commit"} /\ keys = {} /\ resets = {}
    BY DEF AccountInv, Blank
  <1>2. Unopened /\ ~Authorized BY DEF AccountInv, Blank, Authorized
  <1>3. ~Setup2FA(r) /\ ~LogoutAll(r) /\ ~ActivateUser(r) /\ ~RequestReset(r)
    BY <1>2 DEF Setup2FA, LogoutAll, ActivateUser, RequestReset
  <1>4. /\ ~LoginRead(r) /\ ~RefreshRead(r) /\ ~LogoutRead(r) /\ ~VerifyRead(r)
        /\ ~ResetRead(r) /\ ~EnableRead(r) /\ ~ChangeRead(r) /\ ~HostRead(r)
        /\ ~RevokeRead(r) /\ ~DeleteRead(r) /\ ~SuspendRead(r)
    BY <1>1, <1>2 DEF LoginRead, RefreshRead, LogoutRead, VerifyRead, ResetRead, EnableRead,
       ChangeRead, HostRead, RevokeRead, DeleteRead, SuspendRead, Guarded, Usable, Unopened
  <1>5. /\ ~FailRead(r) /\ ~FailWrite(r) /\ ~LoginReset(r) /\ ~LoginOpen(r)
        /\ ~RefreshUser(r) /\ ~RefreshRotate(r) /\ ~LogoutOne(r) /\ ~VerifyWrite(r)
        /\ ~VerifyDrop(r) /\ ~ResetWrite(r) /\ ~ResetEnd(r) /\ ~ResetDrop(r)
        /\ ~EnableWrite(r) /\ ~EnableDrop(r) /\ ~ChangeWrite(r) /\ ~ChangeEnd(r)
        /\ ~HostWrite(r) /\ ~RevokeWrite(r) /\ ~DeleteWrite(r) /\ ~SuspendWrite(r)
        /\ ~SuspendEnd(r)
    BY <1>1 DEF FailRead, FailWrite, LoginReset, LoginOpen, RefreshUser, RefreshRotate, LogoutOne,
       EndOne, VerifyWrite, VerifyDrop, DropKey, ResetWrite, NewPassword, ResetEnd, EndThem,
       ResetDrop, EnableWrite, EnableDrop, ChangeWrite, ChangeEnd, HostWrite, RevokeWrite,
       DeleteWrite, SuspendWrite, SuspendEnd, At
  <1> QED BY <1>3, <1>4, <1>5 DEF AccountStep, AuthStep, UsersStep

(* An account that exists exists for good.                                 *)
LEMMA ExistsForGood ==
    ASSUME AccountsTypeOK, Exists, NEW r \in Reqs, AccountStep(r)
    PROVE  Exists'
  <1> USE DEF rows, redis, ghosts
  <1>t. user \in UserRow /\ user.status # NONE BY DEF AccountsTypeOK, Exists
  <1>1. CASE \/ RegisterCommit(r) \/ FailRead(r) \/ FailWrite(r) \/ LoginReset(r)
             \/ VerifyWrite(r) \/ ResetWrite(r) \/ ChangeWrite(r) \/ EnableWrite(r)
             \/ HostWrite(r) \/ DeleteWrite(r) \/ SuspendWrite(r) \/ ActivateUser(r)
    <2>1. user'.status \in {user.status, "ACTIVE", "INACTIVE", "SUSPENDED"}
      BY <1>1, <1>t DEF RegisterCommit, FailRead, FailWrite, LoginReset, VerifyWrite, ResetWrite,
         ChangeWrite, NewPassword, EnableWrite, HostWrite, DeleteWrite, SuspendWrite,
         ActivateUser, Exists, UserRow
    <2> QED BY <1>t, <2>1, NoSessionAssumption DEF Exists
  <1>2. CASE user' = user BY <1>2 DEF Exists
  <1>3. CASE \/ RegisterRead(r) \/ LoginRead(r) \/ RefreshRead(r) \/ LogoutRead(r)
             \/ VerifyRead(r) \/ ResetRead(r) \/ EnableRead(r) \/ ChangeRead(r)
             \/ HostRead(r) \/ RevokeRead(r) \/ DeleteRead(r) \/ SuspendRead(r)
    BY <1>2, <1>3, ReadTypes
  <1>4. CASE \/ LoginOpen(r) \/ RefreshUser(r) \/ RefreshRotate(r) \/ LogoutOne(r)
             \/ LogoutAll(r) \/ RevokeWrite(r) \/ ResetEnd(r) \/ ChangeEnd(r) \/ SuspendEnd(r)
             \/ VerifyDrop(r) \/ EnableDrop(r) \/ ResetDrop(r) \/ RequestReset(r)
             \/ Setup2FA(r) \/ Die(r)
    <2>1. user' = user
      BY <1>4 DEF LoginOpen, RefreshUser, RefreshRotate, LogoutOne, RevokeWrite, EndOne,
         LogoutAll, ResetEnd, ChangeEnd, SuspendEnd, EndThem, VerifyDrop, EnableDrop, DropKey,
         ResetDrop, RequestReset, Setup2FA, Die
    <2> QED BY <1>2, <2>1
  <1> QED BY <1>1, <1>3, <1>4 DEF AccountStep, AuthStep, UsersStep

LEMMA BlankHolds ==
    ASSUME AccountsTypeOK, AccountInv, NEW r \in Reqs, AccountStep(r)
    PROVE  Blank'
  <1> USE DEF rows, redis, ghosts
  <1>1. SUFFICES ASSUME ~Exists' PROVE Blank'
    BY DEF Blank
  <1>2. ~Exists BY <1>1, ExistsForGood
  <1>3. /\ user = [NewUser(FALSE) EXCEPT !.status = NONE]
        /\ Unopened /\ keys = {} /\ resets = {} /\ guesses = 0
        /\ \A q \in Reqs : req[q].pc \in {"idle", "register_commit"}
    BY <1>2 DEF AccountInv, Blank
  <1>4. ~RegisterCommit(r)
    <2>1. \A h \in BOOLEAN : NewUser(h).status # NONE BY NoSessionAssumption DEF NewUser
    <2> QED BY <1>1, <1>2, <2>1 DEF RegisterCommit, Exists
  <1>5. RegisterRead(r) \/ Die(r) BY <1>2, <1>4, BlankSteps
  <1>6. UNCHANGED <<user, session, keys, resets, guesses>>
    BY <1>5 DEF RegisterRead, Die
  <1>7. /\ req'[r].pc \in {"idle", "register_commit"}
        /\ \A q \in Reqs \ {r} : req'[q] = req[q]
    <2>1. CASE Die(r) BY <2>1, Finished, IdleOK DEF Die
    <2>2. CASE RegisterRead(r)
      <3>1. PICK x \in Request : x = [Idle EXCEPT !.pc = "register_commit"]
        BY Arrivals, NamedPoints
      <3>2. x.pc = "register_commit" BY <3>1 DEF Idle
      <3> QED BY <2>2, <3>1, <3>2, Started DEF RegisterRead
    <2> QED BY <1>5, <2>1, <2>2
  <1> QED BY <1>3, <1>6, <1>7 DEF Blank, Unopened, Exists

LEMMA FoundHolds ==
    ASSUME AccountsTypeOK, AccountInv, NEW r \in Reqs, AccountStep(r)
    PROVE  Found'
  <1>1. ASSUME NEW q \in Reqs, req[q].pc \in Holding
        PROVE  req[q].session \in Sessions /\ session[req[q].session].state # "none"
    BY <1>1 DEF AccountInv, Found
  <1>2. CASE Minor(r)
    <2>1. ASSUME NEW q \in Reqs, req'[q].pc \in Holding
          PROVE  req'[q].session \in Sessions /\ session[req'[q].session].state # "none"
      BY <1>1, <1>2, <2>1 DEF Minor
    <2> QED BY <1>2, <2>1 DEF Minor, Lasting, Found
  <1>3. CASE LoginOpen(r)
    <2>1. PICK s \in Free :
             /\ \A t \in Sessions \ {s} : session'[t] = session[t]
             /\ session'[s].state = "active"
      BY <1>3, LoginOpens DEF AccountInv
    <2>2. req'[r].pc = "idle" /\ \A q \in Reqs \ {r} : req'[q] = req[q]
      BY <1>3, Finished, IdleOK DEF LoginOpen
    <2>3. ASSUME NEW q \in Reqs, req'[q].pc \in Holding
          PROVE  req'[q].session \in Sessions /\ session'[req'[q].session].state # "none"
      <3>1. q # r BY <2>2, <2>3 DEF Holding
      <3> QED BY <1>1, <2>1, <2>2, <2>3, <3>1
    <2> QED BY <2>3 DEF Found
  <1> QED BY <1>2, <1>3, HandlerSteps

LEMMA RoomHolds ==
    ASSUME AccountsTypeOK, AccountInv, NEW r \in Reqs, AccountStep(r)
    PROVE  Room'
  <1>1. Cardinality(LoggingIn) <= Cardinality(Free) BY DEF AccountInv, Room
  <1>2. CASE Minor(r)
    <2>1. Free' = Free BY <1>2 DEF Minor, Lasting, Free
    <2>2. LoggingIn' \subseteq LoggingIn \cup {r} BY <1>2 DEF Minor, LoggingIn
    <2>3. CASE LoggingIn' \subseteq LoggingIn
      <3>1. Cardinality(LoggingIn') <= Cardinality(LoggingIn) /\ Cardinality(LoggingIn') \in Nat
        BY <2>3, Finite, FS_Subset, FS_CardinalityType
      <3> QED BY <1>1, <2>1, <3>1, Finite DEF Room
    <2>4. CASE ~(LoggingIn' \subseteq LoggingIn)
      <3>1. r \notin LoggingIn /\ r \in LoggingIn' BY <2>2, <2>4
      <3>2. req'[r].pc \in LoginPoints BY <3>1 DEF LoggingIn
      <3>3. Cardinality(LoggingIn) < Cardinality(Free) BY <1>2, <3>1, <3>2 DEF Minor
      <3>4. LoggingIn' = LoggingIn \cup {r}
        <4>1. \A q \in LoggingIn : q \in LoggingIn'
          BY <1>2, <3>1 DEF Minor, LoggingIn
        <4> QED BY <2>2, <3>1, <4>1
      <3>5. Cardinality(LoggingIn') = Cardinality(LoggingIn) + 1
        BY <3>1, <3>4, Finite, FS_AddElement
      <3> QED BY <2>1, <3>3, <3>5, Finite DEF Room
    <2> QED BY <2>3, <2>4
  <1>3. CASE LoginOpen(r)
    <2>1. PICK s \in Free :
             /\ \A t \in Sessions \ {s} : session'[t] = session[t]
             /\ session'[s].state = "active"
      BY <1>3, LoginOpens DEF AccountInv
    <2>2. req'[r].pc = "idle" /\ \A q \in Reqs \ {r} : req'[q] = req[q]
      BY <1>3, Finished, IdleOK DEF LoginOpen
    <2>3. Free' = Free \ {s} BY <2>1 DEF Free
    <2>4. LoggingIn' = LoggingIn \ {r} BY <2>2 DEF LoggingIn, LoginPoints
    <2>5. r \in LoggingIn BY <1>3 DEF LoginOpen, At, LoggingIn, LoginPoints
    <2>6. /\ Cardinality(Free') = Cardinality(Free) - 1
          /\ Cardinality(LoggingIn') = Cardinality(LoggingIn) - 1
      BY <2>3, <2>4, <2>5, Finite, FS_RemoveElement
    <2> QED BY <1>1, <2>6, Finite DEF Room
  <1> QED BY <1>2, <1>3, HandlerSteps

LEMMA AccountInvClock ==
    ASSUME AccountsTypeOK, AccountInv, ClockStep
    PROVE  AccountInv'
  <1> USE DEF rows, redis, ghosts
  <1>1. /\ Lasting /\ UNCHANGED <<req, guesses>> /\ user'.status = user.status
    BY ClockSteps
  <1>2. Blank'
    <2>1. SUFFICES ASSUME ~Exists' PROVE Blank' BY DEF Blank
    <2>2. ~Exists BY <1>1, <2>1 DEF Exists
    <2>3. /\ user = [NewUser(FALSE) EXCEPT !.status = NONE]
          /\ Unopened /\ keys = {} /\ resets = {}
      BY <2>2 DEF AccountInv, Blank
    <2>4. user.locked = "null" BY <2>3 DEF NewUser
    <2> QED BY <2>3, <2>4 DEF ClockStep, SessionExpires, Usable, LockPasses, KeyExpires, Unopened
  <1>3. Found' BY <1>1 DEF AccountInv, Found, Lasting
  <1>4. Room'
    <2>1. Free' = Free /\ LoggingIn' = LoggingIn BY <1>1 DEF Lasting, Free, LoggingIn
    <2> QED BY <2>1 DEF AccountInv, Room
  <1> QED BY <1>2, <1>3, <1>4 DEF AccountInv

LEMMA AccountInvHolds == Spec => []AccountInv
  <1> USE DEF rows, redis, ghosts
  <1>1. Init => AccountInv
    <2> SUFFICES ASSUME Init PROVE AccountInv OBVIOUS
    <2>1. \A q \in Reqs : req[q].pc = "idle" BY IdleOK DEF Init
    <2>2. Blank
      <3>1. ~Exists => /\ user = [NewUser(FALSE) EXCEPT !.status = NONE]
                       /\ session = [s \in Sessions |-> NoSession]
        BY NoSessionAssumption DEF Init, Exists, NewUser
      <3>2. NoSession.state = "none" BY DEF NoSession
      <3> QED BY <2>1, <3>1, <3>2 DEF Init, Blank, Unopened
    <2>3. Found BY <2>1 DEF Found, Holding
    <2>4. LoggingIn = {} BY <2>1 DEF LoggingIn, LoginPoints
    <2>5. Cardinality(LoggingIn) = 0 BY <2>4, FS_EmptySet
    <2> QED BY <2>2, <2>3, <2>5, Finite DEF AccountInv, Room
  <1>2. AccountsTypeOK /\ AccountInv /\ [Next]_vars => AccountInv'
    <2> SUFFICES ASSUME AccountsTypeOK, AccountInv, [Next]_vars PROVE AccountInv' OBVIOUS
    <2>1. CASE UNCHANGED vars
      <3>1. UNCHANGED <<user, session, keys, resets, req, guesses>> BY <2>1 DEF vars
      <3>2. Free' = Free /\ LoggingIn' = LoggingIn BY <3>1 DEF Free, LoggingIn
      <3>3. Room' BY <3>2 DEF AccountInv, Room
      <3>4. Found' BY <3>1 DEF AccountInv, Found
      <3>5. Blank' BY <3>1 DEF AccountInv, Blank, Exists, Unopened
      <3> QED BY <3>3, <3>4, <3>5 DEF AccountInv
    <2>2. ASSUME NEW r \in Reqs, AccountStep(r) PROVE AccountInv'
      BY <2>2, BlankHolds, FoundHolds, RoomHolds DEF AccountInv
    <2> QED BY <2>1, <2>2, AccountInvClock, NextSteps
  <1> QED BY <1>1, <1>2, AccountsTypesHold, PTL DEF Spec

-----------------------------------------------------------------------------
(* Sessions that should be over.                                           *)

(* Logout, revocation, password change and suspension are final, whatever  *)
(* refresh or login was in flight: a refresh writes only the token of a    *)
(* session it found, and a login finds an unused row.                      *)
THEOREM EndedStaysEndedHolds == Spec => EndedStaysEnded
  <1>1. AccountsTypeOK /\ AccountInv /\ [Next]_vars =>
            [\A s \in Sessions : session[s].state = "ended" => session'[s].state = "ended"]_vars
    <2> SUFFICES ASSUME AccountsTypeOK, AccountInv, Next
                 PROVE  \A s \in Sessions :
                            session[s].state = "ended" => session'[s].state = "ended"
      OBVIOUS
    <2>1. CASE ClockStep BY <2>1, ClockSteps DEF Lasting
    <2>2. ASSUME NEW r \in Reqs, AccountStep(r)
          PROVE  \A s \in Sessions : session[s].state = "ended" => session'[s].state = "ended"
      <3>1. CASE Minor(r) BY <3>1 DEF Minor, Lasting
      <3>2. CASE LoginOpen(r)
        <4>1. PICK s \in Free : \A t \in Sessions \ {s} : session'[t] = session[t]
          BY <3>2, LoginOpens DEF AccountInv
        <4> QED BY <4>1 DEF Free
      <3> QED BY <2>2, <3>1, <3>2, HandlerSteps
    <2> QED BY <2>1, <2>2, NextSteps
  <1> QED BY <1>1, AccountsTypesHold, AccountInvHolds, PTL DEF Spec, EndedStaysEnded

LEMMA ActiveBefore ==
    ASSUME AccountsTypeOK, AccountsTypeOK', Lasting, NEW s \in Sessions,
           session'[s].state = "active"
    PROVE  session[s].state = "active" /\ ~Closed' /\ ~Unopened
           /\ session'[s].password = session[s].password /\ session'[s].late = session[s].late
  <1>1. session[s] \in SessionRow BY DEF AccountsTypeOK
  <1>2. session[s].state \in {"none", "active", "ended"} BY <1>1 DEF SessionRow
  <1> QED BY <1>2 DEF Lasting, Closed, Unopened

(* Unless a crash cut it short or a login had passed its check before, no  *)
(* session opened with an old password outlives the change of password.    *)
(* The step that stores the new password leads straight to the one that    *)
(* ends the sessions, and nothing between them opens one unmarked.         *)
THEOREM SessionsEndWithPasswordHolds == Spec => []SessionsEndWithPassword
  <1> DEFINE Overtaken(s) == \/ AtAny({"reset_end", "change_end"})
                             \/ "password" \in cutShort
                             \/ "password" \in session[s].late
  <1>1. Init => SessionsEndWithPassword
    <2> SUFFICES ASSUME Init, NEW s \in Sessions, session[s].state = "active"
                 PROVE  session[s].password = user.password
      BY DEF SessionsEndWithPassword
    <2>1. user.password = 1 BY DEF Init, NewUser
    <2>2. NoSession.state # "active" BY DEF NoSession
    <2>3. PICK open : session = [t \in Sessions |->
                IF t \in open THEN [state |-> "active", live |-> TRUE,
                                    password |-> 1, late |-> {}]
                ELSE NoSession]
      <3>1. CASE session = [t \in Sessions |-> NoSession]
        BY <2>2, <3>1
      <3>2. CASE session # [t \in Sessions |-> NoSession] BY <3>2 DEF Init
      <3> QED BY <3>1, <3>2
    <2>4. session[s].password = 1 BY <2>2, <2>3
    <2> QED BY <2>1, <2>4
  <1>2. AccountsTypeOK /\ AccountsTypeOK' /\ AccountInv /\ SessionsEndWithPassword
            /\ [Next]_vars => SessionsEndWithPassword'
    <2> SUFFICES ASSUME AccountsTypeOK, AccountsTypeOK', AccountInv, SessionsEndWithPassword,
                        [Next]_vars, NEW s \in Sessions, session'[s].state = "active",
                        session'[s].password # user'.password
                 PROVE  Overtaken(s)'
      BY DEF SessionsEndWithPassword
    <2>1. ASSUME Lasting, user'.password = user.password,
                 AtAny(Changing) => AtAny(Changing)' \/ "password" \in cutShort' \/ Closed',
                 cutShort \subseteq cutShort'
          PROVE  Overtaken(s)'
      <3>1. Overtaken(s) BY <2>1, ActiveBefore DEF SessionsEndWithPassword
      <3> QED BY <2>1, <3>1, ActiveBefore DEF AtAny, Changing
    <2>2. CASE UNCHANGED vars
      BY <2>1, <2>2, SessionsLast DEF vars, rows, ghosts, AtAny
    <2>3. CASE ClockStep BY <2>1, <2>3, ClockSteps DEF AtAny
    <2>4. ASSUME NEW r \in Reqs, AccountStep(r) PROVE Overtaken(s)'
      <3>1. CASE Minor(r)
        <4>1. CASE req'[r].pc \in Changing BY <4>1 DEF AtAny, Changing
        <4>2. CASE req'[r].pc \notin Changing
          <5>1. user'.password = user.password BY <3>1, <4>2, ActiveBefore DEF Minor
          <5>2. ASSUME AtAny(Changing)
                PROVE  AtAny(Changing)' \/ "password" \in cutShort' \/ Closed'
            <6>1. PICK q \in Reqs : req[q].pc \in Changing BY <5>2 DEF AtAny
            <6>2. CASE q = r BY <3>1, <6>1, <6>2 DEF Minor
            <6>3. CASE q # r BY <3>1, <6>1, <6>3 DEF Minor, AtAny
            <6> QED BY <6>2, <6>3
          <5> QED BY <2>1, <3>1, <5>1, <5>2 DEF Minor
        <4> QED BY <4>1, <4>2
      <3>2. CASE LoginOpen(r)
        <4>1. PICK x \in Free :
                 /\ \A t \in Sessions \ {x} : session'[t] = session[t]
                 /\ session'[x].password = req[r].password
                 /\ req[r].password # user.password => "password" \in session'[x].late
          BY <3>2, LoginOpens DEF AccountInv
        <4>2. user' = user /\ cutShort' = cutShort /\ req[r].pc = "login_open"
          BY <3>2 DEF LoginOpen, ghosts, At
        <4>3. \A q \in Reqs \ {r} : req'[q] = req[q] BY <3>2, Finished DEF LoginOpen
        <4>4. CASE s = x BY <4>1, <4>2, <4>4
        <4>5. CASE s # x
          <5>1. session'[s] = session[s] BY <4>1, <4>5
          <5>2. Overtaken(s) BY <4>2, <5>1 DEF SessionsEndWithPassword
          <5>3. AtAny({"reset_end", "change_end"}) => AtAny({"reset_end", "change_end"})'
            BY <4>2, <4>3 DEF AtAny
          <5> QED BY <4>2, <5>1, <5>2, <5>3
        <4> QED BY <4>4, <4>5
      <3> QED BY <2>4, <3>1, <3>2, HandlerSteps
    <2> QED BY <2>2, <2>3, <2>4, NextSteps
  <1> QED BY <1>1, <1>2, AccountsTypesHold, AccountInvHolds, PTL DEF Spec

(* The same of a suspension, which ends the sessions after it has written  *)
(* the status and the audit row.                                           *)
THEOREM SessionsEndWithSuspensionHolds == Spec => []SessionsEndWithSuspension
  <1> DEFINE Overtaken(s) == \/ AtAny({"suspend_end"})
                             \/ "suspension" \in cutShort
                             \/ "suspension" \in session[s].late
  <1>1. Init => SessionsEndWithSuspension
    BY NoSessionAssumption DEF Init, SessionsEndWithSuspension, NewUser
  <1>2. AccountsTypeOK /\ AccountsTypeOK' /\ AccountInv /\ SessionsEndWithSuspension
            /\ [Next]_vars => SessionsEndWithSuspension'
    <2> SUFFICES ASSUME AccountsTypeOK, AccountsTypeOK', AccountInv, SessionsEndWithSuspension,
                        [Next]_vars, NEW s \in Sessions, session'[s].state = "active",
                        user'.status = "SUSPENDED"
                 PROVE  Overtaken(s)'
      BY DEF SessionsEndWithSuspension
    <2>1. ASSUME Lasting, user.status = "SUSPENDED",
                 AtAny({"suspend_end"}) =>
                    AtAny({"suspend_end"})' \/ "suspension" \in cutShort' \/ Closed',
                 cutShort \subseteq cutShort'
          PROVE  Overtaken(s)'
      <3>1. Overtaken(s) BY <2>1, ActiveBefore DEF SessionsEndWithSuspension
      <3> QED BY <2>1, <3>1, ActiveBefore DEF AtAny
    <2>2. CASE UNCHANGED vars
      BY <2>1, <2>2, SessionsLast DEF vars, rows, ghosts, AtAny
    <2>3. CASE ClockStep BY <2>1, <2>3, ClockSteps DEF AtAny
    <2>4. ASSUME NEW r \in Reqs, AccountStep(r) PROVE Overtaken(s)'
      <3>1. CASE Minor(r)
        <4>1. CASE req'[r].pc = "suspend_end" BY <4>1 DEF AtAny
        <4>2. CASE req'[r].pc # "suspend_end"
          <5>1. user.status = "SUSPENDED" BY <3>1, <4>2 DEF Minor
          <5>2. ASSUME AtAny({"suspend_end"})
                PROVE  AtAny({"suspend_end"})' \/ "suspension" \in cutShort' \/ Closed'
            <6>1. PICK q \in Reqs : req[q].pc = "suspend_end" BY <5>2 DEF AtAny
            <6>2. CASE q = r BY <3>1, <6>1, <6>2 DEF Minor
            <6>3. CASE q # r BY <3>1, <6>1, <6>3 DEF Minor, AtAny
            <6> QED BY <6>2, <6>3
          <5> QED BY <2>1, <3>1, <5>1, <5>2 DEF Minor
        <4> QED BY <4>1, <4>2
      <3>2. CASE LoginOpen(r)
        <4>1. PICK x \in Free :
                 /\ \A t \in Sessions \ {x} : session'[t] = session[t]
                 /\ user.status = "SUSPENDED" => "suspension" \in session'[x].late
          BY <3>2, LoginOpens DEF AccountInv
        <4>2. user' = user /\ cutShort' = cutShort /\ req[r].pc = "login_open"
          BY <3>2 DEF LoginOpen, ghosts, At
        <4>3. \A q \in Reqs \ {r} : req'[q] = req[q] BY <3>2, Finished DEF LoginOpen
        <4>4. CASE s = x BY <4>1, <4>2, <4>4
        <4>5. CASE s # x
          <5>1. session'[s] = session[s] BY <4>1, <4>5
          <5>2. Overtaken(s) BY <4>2, <5>1 DEF SessionsEndWithSuspension
          <5>3. AtAny({"suspend_end"}) => AtAny({"suspend_end"})'
            BY <4>2, <4>3 DEF AtAny
          <5> QED BY <4>2, <5>1, <5>2, <5>3
        <4> QED BY <4>4, <4>5
      <3> QED BY <2>4, <3>1, <3>2, HandlerSteps
    <2> QED BY <2>2, <2>3, <2>4, NextSteps
  <1> QED BY <1>1, <1>2, AccountsTypesHold, AccountInvHolds, PTL DEF Spec

-----------------------------------------------------------------------------
(* Wrong passwords.                                                        *)

(* The least count that a handler may still write one higher, and how many *)
(* times it can be done before the account locks.                          *)
Least(r) == IF At(r, "fail_write") /\ req[r].failed < user.failed
            THEN req[r].failed ELSE user.failed
Left(r)  == IF Least(r) + 1 < MaxLoginAttempts THEN MaxLoginAttempts - Least(r) - 1 ELSE 0

(* Of two handlers one repeats what the other has counted once for each    *)
(* count it can still reach; the sum of those is what they have left.      *)
Spent == \A p, q \in Reqs : p # q =>
    2 * guesses + 2 * Left(p) + Left(q) * (Left(q) + 1)
        <= MaxLoginAttempts * (MaxLoginAttempts + 1) - 2

(* A step that counts no guess and raises nobody's chances.                *)
Quiet(r) ==
    /\ \A q \in Reqs \ {r} : req'[q] = req[q]
    /\ guesses' = guesses /\ user'.failed = user.failed
    /\ req'[r].pc = "fail_write" => req'[r].failed = user.failed

LEMMA Squares ==
    /\ \A m, n \in Nat : m <= n => m * (m + 1) <= n * (n + 1)
    /\ \A n \in Nat : n >= 1 => (n - 1) * ((n - 1) + 1) + 2 * n = n * (n + 1)
    /\ \A n \in Nat : n * (n + 1) \in Nat
  <1>1. ASSUME NEW m \in Nat, NEW n \in Nat, m <= n PROVE m * (m + 1) <= n * (n + 1)
    <2>1. m * m <= n * n
      <3>1. m * m <= m * n /\ m * n <= n * n BY <1>1
      <3> QED BY <3>1
    <2> QED BY <1>1, <2>1
  <1> QED BY <1>1

LEMMA LeftTypes ==
    /\ AccountsTypeOK =>
          \A r \in Reqs : /\ Least(r) \in Nat /\ Left(r) \in 0..(MaxLoginAttempts - 1)
                          /\ req[r].failed \in Nat /\ user.failed \in Nat
    /\ AccountsTypeOK' =>
          \A r \in Reqs : Least(r)' \in Nat /\ Left(r)' \in 0..(MaxLoginAttempts - 1)
  <1>1. ASSUME AccountsTypeOK, NEW r \in Reqs
        PROVE  /\ Least(r) \in Nat /\ Left(r) \in 0..(MaxLoginAttempts - 1)
               /\ req[r].failed \in Nat /\ user.failed \in Nat
    <2>1. req[r].failed \in Nat /\ user.failed \in Nat
      BY <1>1 DEF AccountsTypeOK, Request, UserRow
    <2>2. Least(r) \in Nat BY <2>1 DEF Least
    <2> QED BY <2>1, <2>2, Numbers DEF Left
  <1>2. ASSUME AccountsTypeOK', NEW r \in Reqs
        PROVE  Least(r)' \in Nat /\ Left(r)' \in 0..(MaxLoginAttempts - 1)
    <2>1. req'[r].failed \in Nat /\ user'.failed \in Nat
      BY <1>2 DEF AccountsTypeOK, Request, UserRow
    <2>2. Least(r)' \in Nat BY <2>1 DEF Least
    <2> QED BY <2>2, Numbers DEF Left
  <1> QED BY <1>1, <1>2

(* With no guess the two have all of it left.                              *)
LEMMA NoGuesses ==
    \A p, q \in 0..(MaxLoginAttempts - 1) :
        2 * p + q * (q + 1) <= MaxLoginAttempts * (MaxLoginAttempts + 1) - 2
  <1> SUFFICES ASSUME NEW p \in 0..(MaxLoginAttempts - 1), NEW q \in 0..(MaxLoginAttempts - 1)
               PROVE  2 * p + q * (q + 1) <= MaxLoginAttempts * (MaxLoginAttempts + 1) - 2
    OBVIOUS
  <1>1. PICK m \in Nat : m = MaxLoginAttempts - 1 BY Numbers
  <1>2. p \in Nat /\ q \in Nat /\ p <= m /\ q <= m
    BY <1>1, Numbers
  <1>3. q * (q + 1) <= m * (m + 1) /\ q * (q + 1) \in Nat /\ m * (m + 1) \in Nat
    BY <1>2, Squares
  <1>4. m * (m + 1) + 2 * (m + 1) = (m + 1) * ((m + 1) + 1)
    OBVIOUS
  <1>5. MaxLoginAttempts = m + 1 BY <1>1, Numbers
  <1> QED BY <1>2, <1>3, <1>4, <1>5

LEMMA ReadsAreQuiet ==
    ASSUME AccountsTypeOK, NEW r \in Reqs,
           \/ RegisterRead(r) \/ LoginRead(r) \/ RefreshRead(r) \/ LogoutRead(r)
           \/ VerifyRead(r) \/ ResetRead(r) \/ EnableRead(r) \/ ChangeRead(r)
           \/ HostRead(r) \/ RevokeRead(r) \/ DeleteRead(r) \/ SuspendRead(r)
    PROVE  Quiet(r)
  <1>1. guesses' = guesses /\ user' = user BY ReadTypes DEF ghosts
  <1>2. PICK q : Start(r, q) /\ q.pc # "fail_write" /\ q \in Request
    <2>1. user.password \in Nat /\ user.twoFactor \in BOOLEAN /\ resets \subseteq ResetTokens
      BY DEF AccountsTypeOK, UserRow
    <2>2. CASE RegisterRead(r) \/ VerifyRead(r) \/ SuspendRead(r)
      <3>1. PICK p \in {"register_commit", "verify_write", "suspend_write"} :
                   Start(r, [Idle EXCEPT !.pc = p])
        BY <2>2 DEF RegisterRead, VerifyRead, SuspendRead
      <3> QED BY <3>1, Arrivals, NamedPoints DEF Idle
    <2>3. CASE EnableRead(r) \/ ChangeRead(r) \/ HostRead(r) \/ DeleteRead(r)
      <3>1. PICK p \in {"enable_write", "change_write", "host_write", "delete_write"} :
                   Start(r, [Idle EXCEPT !.pc = p])
        BY <2>3 DEF EnableRead, ChangeRead, HostRead, DeleteRead, Guarded
      <3> QED BY <3>1, Arrivals, NamedPoints DEF Idle
    <2>4. CASE RefreshRead(r) \/ LogoutRead(r) \/ RevokeRead(r)
      <3>1. PICK p \in {"refresh_user", "logout_one", "revoke_write"}, s \in Sessions :
                   Start(r, [Idle EXCEPT !.pc = p, !.session = s])
        BY <2>4 DEF RefreshRead, LogoutRead, RevokeRead, Guarded
      <3> QED BY <3>1, Arrivals, NamedPoints DEF Idle
    <2>5. CASE ResetRead(r)
      <3>1. PICK t \in ResetTokens : Start(r, [Idle EXCEPT !.pc = "reset_write", !.token = t])
        BY <2>1, <2>5 DEF ResetRead
      <3> QED BY <3>1, Arrivals, NamedPoints DEF Idle
    <2>6. CASE LoginRead(r)
      <3>1. CASE Start(r, [Idle EXCEPT !.pc = "fail_read"])
        BY <3>1, Arrivals, NamedPoints DEF Idle
      <3>2. CASE Start(r, [Idle EXCEPT !.pc = "login_reset", !.password = user.password,
                                       !.twoFactor = user.twoFactor])
        BY <2>1, <3>2, Arrivals, NamedPoints DEF Idle
      <3> QED BY <2>6, <3>1, <3>2 DEF LoginRead
    <2> QED BY <2>2, <2>3, <2>4, <2>5, <2>6
  <1>3. req'[r] = q /\ \A s \in Reqs \ {r} : req'[s] = req[s] BY <1>2, Started
  <1> QED BY <1>1, <1>2, <1>3 DEF Quiet

LEMMA OthersAreQuiet ==
    ASSUME AccountsTypeOK, AccountInv, NEW r \in Reqs,
           \/ LoginOpen(r) \/ RefreshUser(r) \/ RefreshRotate(r) \/ LogoutOne(r)
           \/ LogoutAll(r) \/ RevokeWrite(r) \/ ResetEnd(r) \/ ChangeEnd(r) \/ SuspendEnd(r)
           \/ VerifyDrop(r) \/ EnableDrop(r) \/ ResetDrop(r) \/ RequestReset(r)
           \/ Setup2FA(r) \/ Die(r) \/ ActivateUser(r)
    PROVE  Quiet(r)
  <1> USE DEF rows, redis, ghosts, At
  <1>1. guesses' = guesses
    BY DEF LoginOpen, RefreshUser, RefreshRotate, LogoutOne, RevokeWrite, EndOne, LogoutAll,
           ResetEnd, ChangeEnd, SuspendEnd, EndThem, VerifyDrop, EnableDrop, DropKey, ResetDrop,
           RequestReset, Setup2FA, Die, ActivateUser
  <1>2. user'.failed = user.failed
    <2>1. CASE ActivateUser(r) BY <2>1 DEF ActivateUser, AccountsTypeOK, UserRow
    <2>2. CASE ~ActivateUser(r)
      BY <2>2 DEF LoginOpen, RefreshUser, RefreshRotate, LogoutOne, RevokeWrite, EndOne, LogoutAll,
           ResetEnd, ChangeEnd, SuspendEnd, EndThem, VerifyDrop, EnableDrop, DropKey, ResetDrop,
           RequestReset, Setup2FA, Die
    <2> QED BY <2>1, <2>2
  <1>g. ASSUME NEW p \in {"refresh_rotate", "reset_del"}, Goto(r, p)
        PROVE  Quiet(r)
    BY <1>g, <1>1, <1>2, Went, NamedPoints DEF Quiet
  <1>f. ASSUME Finish(r) PROVE Quiet(r)
    BY <1>f, <1>1, <1>2, Finished, IdleOK DEF Quiet
  <1>a. ASSUME AtOnce(r) PROVE Quiet(r)
    BY <1>a, <1>1, <1>2 DEF AtOnce, Arrive, Quiet
  <1> QED BY <1>a, <1>f, <1>g
      DEF LoginOpen, RefreshUser, RefreshRotate, LogoutOne, RevokeWrite, EndOne, LogoutAll,
          ResetEnd, ChangeEnd, SuspendEnd, VerifyDrop, EnableDrop, DropKey, ResetDrop,
          RequestReset, Setup2FA, Die, ActivateUser

LEMMA UserWritesAreQuiet ==
    ASSUME AccountsTypeOK, AccountInv, NEW r \in Reqs,
           \/ RegisterCommit(r) \/ FailRead(r)
           \/ VerifyWrite(r) \/ ResetWrite(r) \/ ChangeWrite(r) \/ EnableWrite(r)
           \/ HostWrite(r) \/ DeleteWrite(r) \/ SuspendWrite(r)
    PROVE  Quiet(r)
  <1> USE DEF rows, redis, ghosts, At
  <1>t. user \in UserRow /\ req \in [Reqs -> Request] /\ req[r] \in Request
    BY DEF AccountsTypeOK
  <1>1. guesses' = guesses
    BY DEF RegisterCommit, FailRead, VerifyWrite, ResetWrite, ChangeWrite, NewPassword,
           EnableWrite, HostWrite, DeleteWrite, SuspendWrite
  <1>2. user'.failed = user.failed
    <2>1. CASE RegisterCommit(r)
      <3>1. CASE Exists BY <2>1, <3>1 DEF RegisterCommit
      <3>2. CASE ~Exists
        <4>1. user.failed = 0 BY <3>2 DEF AccountInv, Blank, NewUser
        <4> QED BY <2>1, <3>2, <4>1 DEF RegisterCommit, NewUser
      <3> QED BY <3>1, <3>2
    <2>2. CASE ~RegisterCommit(r)
      BY <1>t, <2>2 DEF FailRead, VerifyWrite, ResetWrite, ChangeWrite, NewPassword,
           EnableWrite, HostWrite, DeleteWrite, SuspendWrite, UserRow
    <2> QED BY <2>1, <2>2
  <1>g. ASSUME NEW p \in {"verify_del", "reset_end", "change_end", "enable_del", "suspend_end"},
               Goto(r, p)
        PROVE  Quiet(r)
    BY <1>g, <1>1, <1>2, Went, NamedPoints DEF Quiet
  <1>f. ASSUME Finish(r) PROVE Quiet(r)
    BY <1>f, <1>1, <1>2, Finished, IdleOK DEF Quiet
  <1>3. CASE FailRead(r)
    <2>1. /\ req'[r].failed = user.failed /\ \A q \in Reqs \ {r} : req'[q] = req[q]
      BY <1>3, <1>t DEF FailRead, Request
    <2> QED BY <1>1, <1>2, <2>1 DEF Quiet
  <1> QED BY <1>f, <1>g, <1>3
      DEF RegisterCommit, VerifyWrite, ResetWrite, ChangeWrite, NewPassword,
          EnableWrite, HostWrite, DeleteWrite, SuspendWrite

LEMMA GuessSteps ==
    ASSUME AccountsTypeOK, AccountInv, NEW r \in Reqs, AccountStep(r)
    PROVE  Quiet(r) \/ FailWrite(r) \/ LoginReset(r)
  BY ReadsAreQuiet, OthersAreQuiet, UserWritesAreQuiet DEF AccountStep, AuthStep, UsersStep

(* A wrong password counted below the limit, by p; q is the other handler. *)
LEMMA Counted ==
    ASSUME AccountsTypeOK, AccountsTypeOK', NEW p \in Reqs, NEW q \in Reqs, p # q,
           FailWrite(p), req[p].failed + 1 < MaxLoginAttempts
    PROVE  \E k \in Nat :
              /\ k >= 1 /\ k <= Left(p) /\ Left(p)' = k - 1
              /\ Left(q)' <= Left(q) \/ Left(q)' <= k - 1
              /\ guesses' = guesses + 1
  <1>1. /\ req[p].failed \in Nat /\ req[q].failed \in Nat /\ user.failed \in Nat
        /\ req[p].pc = "fail_write"
    BY LeftTypes DEF FailWrite, At
  <1>2. guesses' = guesses + 1 /\ user'.failed = req[p].failed + 1
    <2>1. req[p].failed + 1 \in Nat /\ ~(req[p].failed + 1 >= MaxLoginAttempts)
      BY <1>1, Numbers
    <2>2. PICK n : n = req[p].failed + 1 OBVIOUS
    <2>3. PICK l : user' = [user EXCEPT !.failed = n, !.locked = l]
      BY <2>1, <2>2 DEF FailWrite
    <2>4. user'.failed = n BY <2>3 DEF AccountsTypeOK, UserRow
    <2> QED BY <2>1, <2>2, <2>4 DEF FailWrite
  <1>3. req'[p].pc = "idle" /\ req'[q] = req[q] BY Finished, IdleOK DEF FailWrite
  <1>4. PICK k \in Nat : k = MaxLoginAttempts - req[p].failed - 1 BY <1>1, Numbers
  <1>5. k >= 1 BY <1>1, <1>4, Numbers
  <1>6. k <= Left(p)
    BY <1>1, <1>4, Numbers DEF Left, Least, At
  <1>7. Left(p)' = k - 1
    BY <1>1, <1>2, <1>3, <1>4, <1>5, Numbers DEF Left, Least, At
  <1>8. Left(q)' <= Left(q) \/ Left(q)' <= k - 1
    <2>1. CASE req[q].pc = "fail_write" /\ req[q].failed < user'.failed
      <3>1. Least(q)' = req[q].failed BY <1>3, <2>1 DEF Least, At
      <3>2. Least(q) <= req[q].failed BY <1>1, <2>1 DEF Least, At
      <3> QED BY <1>1, <3>1, <3>2, LeftTypes, Numbers DEF Left
    <2>2. CASE ~(req[q].pc = "fail_write" /\ req[q].failed < user'.failed)
      <3>1. Least(q)' = req[p].failed + 1 BY <1>2, <1>3, <2>2 DEF Least, At
      <3> QED BY <1>1, <1>4, <1>5, <3>1, Numbers DEF Left
    <2> QED BY <2>1, <2>2
  <1> QED BY <1>2, <1>5, <1>6, <1>7, <1>8

(* The same, as numbers: what the pair has left goes down with each guess. *)
LEMMA Sums ==
    ASSUME NEW g \in Nat, NEW p \in Nat, NEW q \in Nat, NEW p2 \in Nat, NEW q2 \in Nat,
           NEW k \in Nat, NEW B \in Int,
           2 * g + 2 * p + q * (q + 1) <= B, 2 * g + 2 * q + p * (p + 1) <= B,
           k >= 1, k <= p, p2 = k - 1, q2 <= q \/ q2 <= k - 1
    PROVE  /\ 2 * (g + 1) + 2 * p2 + q2 * (q2 + 1) <= B
           /\ 2 * (g + 1) + 2 * q2 + p2 * (p2 + 1) <= B
  <1>1. /\ k * (k + 1) <= p * (p + 1) /\ p2 * (p2 + 1) + 2 * k = k * (k + 1)
        /\ k * (k + 1) \in Nat /\ p2 * (p2 + 1) \in Nat /\ q2 * (q2 + 1) \in Nat
        /\ q * (q + 1) \in Nat /\ p * (p + 1) \in Nat
    BY Squares
  <1>2. CASE q2 <= q
    <2>1. q2 * (q2 + 1) <= q * (q + 1) BY <1>2, Squares
    <2> QED BY <1>1, <1>2, <2>1
  <1>3. CASE q2 <= k - 1
    <2>1. q2 * (q2 + 1) <= p2 * (p2 + 1) BY <1>3, Squares
    <2> QED BY <1>1, <1>3, <2>1
  <1> QED BY <1>2, <1>3

LEMMA SpentHolds ==
    ASSUME Cardinality(Reqs) = 2
    PROVE  Spec => []Spent
  <1>1. Init => Spent
    <2> SUFFICES ASSUME Init PROVE Spent OBVIOUS
    <2>1. \A h \in BOOLEAN : NewUser(h) \in UserRow BY DEF NewUser, UserRow, UserStatus
    <2>2. user.failed = 0 /\ guesses = 0 BY DEF Init, NewUser
    <2>3. \A r \in Reqs : ~At(r, "fail_write") BY IdleOK DEF Init, At
    <2>4. \A r \in Reqs : Left(r) = MaxLoginAttempts - 1
      BY <2>2, <2>3, Numbers DEF Left, Least
    <2>5. PICK m \in Nat : m = MaxLoginAttempts - 1 BY Numbers
    <2>6. m * (m + 1) + 2 * (m + 1) = (m + 1) * ((m + 1) + 1) /\ m * (m + 1) \in Nat
      BY Squares
    <2>7. MaxLoginAttempts = m + 1 BY <2>5, Numbers
    <2> QED BY <2>2, <2>4, <2>6, <2>7 DEF Spent
  <1>2. AccountsTypeOK /\ AccountsTypeOK' /\ AccountInv /\ Spent /\ [Next]_vars => Spent'
    <2> SUFFICES ASSUME AccountsTypeOK, AccountsTypeOK', AccountInv, Spent, [Next]_vars
                 PROVE  Spent'
      OBVIOUS
    <2>t. /\ guesses \in Nat /\ guesses' \in Nat
          /\ \A r \in Reqs : Left(r) \in Nat /\ Left(r)' \in Nat
      BY LeftTypes, Numbers DEF AccountsTypeOK
    <2>n. ASSUME guesses' = 0 PROVE Spent'
      BY <2>n, NoGuesses, LeftTypes, Numbers DEF Spent
    <2>1. ASSUME guesses' = guesses, \A r \in Reqs : Left(r)' <= Left(r) PROVE Spent'
      <3> SUFFICES ASSUME NEW p \in Reqs, NEW q \in Reqs, p # q
                   PROVE  2 * guesses' + 2 * Left(p)' + Left(q)' * (Left(q)' + 1)
                              <= MaxLoginAttempts * (MaxLoginAttempts + 1) - 2
        BY DEF Spent
      <3>1. 2 * guesses + 2 * Left(p) + Left(q) * (Left(q) + 1)
                <= MaxLoginAttempts * (MaxLoginAttempts + 1) - 2
        BY DEF Spent
      <3>2. /\ Left(q)' * (Left(q)' + 1) <= Left(q) * (Left(q) + 1)
            /\ Left(q)' * (Left(q)' + 1) \in Nat /\ Left(q) * (Left(q) + 1) \in Nat
        BY <2>t, <2>1, Squares
      <3>3. MaxLoginAttempts * (MaxLoginAttempts + 1) \in Nat BY Numbers
      <3> QED BY <2>t, <2>1, <3>1, <3>2, <3>3
    <2>2. CASE UNCHANGED vars
      <3>1. UNCHANGED <<guesses, user, req>> BY <2>2 DEF vars, rows, ghosts
      <3>2. \A r \in Reqs : Left(r)' <= Left(r) BY <2>t, <3>1 DEF Left, Least, At
      <3> QED BY <2>1, <3>1, <3>2
    <2>3. CASE ClockStep
      <3>1. guesses' = guesses /\ user'.failed = user.failed /\ req' = req
        BY <2>3, ClockSteps
      <3>2. \A r \in Reqs : Left(r)' <= Left(r) BY <2>t, <3>1 DEF Left, Least, At
      <3> QED BY <2>1, <3>1, <3>2
    <2>4. ASSUME NEW r \in Reqs, AccountStep(r) PROVE Spent'
      <3>1. CASE Quiet(r)
        <4>1. ASSUME NEW q \in Reqs PROVE Left(q)' <= Left(q)
          <5>1. Least(q)' >= Least(q)
            BY <3>1, LeftTypes DEF Quiet, Least, At
          <5> QED BY <5>1, LeftTypes, Numbers DEF Left
        <4> QED BY <2>1, <3>1, <4>1 DEF Quiet
      <3>2. CASE LoginReset(r) BY <3>2, <2>n DEF LoginReset
      <3>3. CASE FailWrite(r)
        <4>1. CASE req[r].failed + 1 < MaxLoginAttempts
          <5>1. ASSUME NEW q \in Reqs, q # r
                PROVE  /\ 2 * guesses' + 2 * Left(r)' + Left(q)' * (Left(q)' + 1)
                              <= MaxLoginAttempts * (MaxLoginAttempts + 1) - 2
                       /\ 2 * guesses' + 2 * Left(q)' + Left(r)' * (Left(r)' + 1)
                              <= MaxLoginAttempts * (MaxLoginAttempts + 1) - 2
            <6>1. PICK k \in Nat :
                    /\ k >= 1 /\ k <= Left(r) /\ Left(r)' = k - 1
                    /\ Left(q)' <= Left(q) \/ Left(q)' <= k - 1
                    /\ guesses' = guesses + 1
              BY <3>3, <4>1, <5>1, Counted
            <6>2. PICK B \in Int : B = MaxLoginAttempts * (MaxLoginAttempts + 1) - 2
              BY Numbers
            <6>3. /\ 2 * guesses + 2 * Left(r) + Left(q) * (Left(q) + 1) <= B
                  /\ 2 * guesses + 2 * Left(q) + Left(r) * (Left(r) + 1) <= B
              BY <5>1, <6>2 DEF Spent
            <6> QED BY <2>t, <6>1, <6>2, <6>3, Sums
          <5>2. ASSUME NEW p \in Reqs, NEW q \in Reqs, p # q PROVE p = r \/ q = r
            <6>1. Cardinality(Reqs \ {r}) = 1
              <7>1. Cardinality(Reqs \ {r}) = Cardinality(Reqs) - 1
                BY Numbers, FS_RemoveElement
              <7> QED BY <7>1
            <6>2. IsFiniteSet(Reqs \ {r}) BY Numbers, FS_Subset
            <6>3. PICK x : Reqs \ {r} = {x} BY <6>1, <6>2, FS_Singleton
            <6> QED BY <5>2, <6>3
          <5> QED BY <5>1, <5>2 DEF Spent
        <4>2. CASE ~(req[r].failed + 1 < MaxLoginAttempts)
          <5>1. req[r].failed + 1 >= MaxLoginAttempts BY <4>2, LeftTypes, Numbers
          <5>2. guesses' = 0 BY <3>3, <5>1 DEF FailWrite
          <5> QED BY <5>2, <2>n
        <4> QED BY <4>1, <4>2
      <3> QED BY <2>4, <3>1, <3>2, <3>3, GuessSteps
    <2> QED BY <2>2, <2>3, <2>4, NextSteps
  <1> QED BY <1>1, <1>2, AccountsTypesHold, AccountInvHolds, PTL DEF Spec

(* Two handlers at once never try more wrong passwords before the lock     *)
(* than the sum of the counts, whatever they lose of each other's writes.  *)
THEOREM GuessesBoundedHolds == Spec => []GuessesBounded
  <1>1. ASSUME Cardinality(Reqs) = 2, AccountsTypeOK, Spent PROVE GuessesBounded
    <2>1. PICK p \in Reqs : TRUE
      <3>1. Reqs # {} BY <1>1, FS_EmptySet
      <3> QED BY <3>1
    <2>2. Cardinality(Reqs \ {p}) = 1
      <3>1. Cardinality(Reqs \ {p}) = Cardinality(Reqs) - 1
        BY Numbers, FS_RemoveElement
      <3> QED BY <1>1, <3>1
    <2>3. PICK q \in Reqs : q # p
      <3>1. Reqs \ {p} # {} BY <2>2, FS_EmptySet
      <3> QED BY <3>1
    <2>4. Left(p) \in Nat /\ Left(q) \in Nat /\ guesses \in Nat
      BY <1>1, LeftTypes, Numbers DEF AccountsTypeOK
    <2>5. PICK B \in Nat : B = MaxLoginAttempts * (MaxLoginAttempts + 1) BY Numbers
    <2>6. 2 * guesses + 2 * Left(p) + Left(q) * (Left(q) + 1) <= B - 2
      BY <1>1, <2>3, <2>5 DEF Spent
    <2>7. Left(q) * (Left(q) + 1) \in Nat BY <2>4, Squares
    <2>8. 2 * guesses + 2 <= B BY <2>4, <2>6, <2>7
    <2>9. guesses < B \div 2 BY <2>4, <2>8
    <2> QED BY <2>5, <2>9 DEF GuessesBounded
  <1>2. CASE Cardinality(Reqs) = 2
    <2>1. AccountsTypeOK /\ Spent => GuessesBounded BY <1>1, <1>2
    <2>2. Spec => []Spent BY <1>2, SpentHolds
    <2> QED BY <2>1, <2>2, AccountsTypesHold, PTL
  <1>3. CASE Cardinality(Reqs) # 2
    <2>1. AccountsTypeOK => GuessesBounded BY <1>3 DEF GuessesBounded
    <2> QED BY <2>1, AccountsTypesHold, PTL
  <1> QED BY <1>2, <1>3
=============================================================================
