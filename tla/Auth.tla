-------------------------------- MODULE Auth --------------------------------
(***************************************************************************)
(* auth.service.ts: registration, login and its lockout, refresh, logout,  *)
(* e-mail verification, password reset and two-factor enrolment.           *)
(***************************************************************************)
EXTENDS Identity

-----------------------------------------------------------------------------
(* register: the e-mail is looked up, then a transaction inserts the user; *)
(* the unique index on the e-mail refuses the second of two.  RedisService *)
(* swallows a failed SET, so the account may be left with no token.        *)

RegisterRead(r) ==
    /\ ~Exists
    /\ Start(r, [Idle EXCEPT !.pc = "register_commit"])
    /\ UNCHANGED <<rows, redis, ghosts>>

RegisterCommit(r) ==
    /\ At(r, "register_commit")
    /\ Finish(r)
    /\ \/ Exists /\ UNCHANGED <<rows, redis>>
       \/ /\ ~Exists
          /\ \E host \in BOOLEAN : user' = NewUser(host)
          /\ keys' \in {keys, keys \cup {"email-verify"}}
          /\ UNCHANGED <<session, resets>>
    /\ UNCHANGED <<served, ghosts>>

-----------------------------------------------------------------------------
(* login: the lock and the password are judged on the row as first read.   *)

LoginRead(r) ==
    /\ Exists /\ ~user.deleted /\ ~Locked
    /\ Cardinality({s \in Sessions : session[s].state = "none"})
         > Cardinality({q \in Reqs : req[q].pc \in {"login_reset", "login_open"}})
    /\ \/ Start(r, [Idle EXCEPT !.pc = "fail_read"])
       \/ /\ user.status \notin {"SUSPENDED", "INACTIVE"}
          /\ Start(r, [Idle EXCEPT !.pc = "login_reset", !.password = user.password,
                                   !.twoFactor = user.twoFactor])
    /\ UNCHANGED <<rows, redis, ghosts>>

(* handleFailedLogin: the count is read again, and written one higher.     *)
FailRead(r) ==
    /\ At(r, "fail_read")
    /\ req' = [req EXCEPT ![r].pc = "fail_write", ![r].failed = user.failed]
    /\ UNCHANGED <<rows, redis, served, ghosts>>

(* MUTANT of FailWrite: the lock comes one failure too late.               *)
FailWriteLate(r) ==
    LET count == req[r].failed + 1
        lock  == count > MaxLoginAttempts
    IN  /\ At(r, "fail_write")
        /\ user' = [user EXCEPT !.failed = count, !.locked = IF lock THEN "future" ELSE @]
        /\ guesses' = IF lock THEN 0 ELSE guesses + 1
        /\ Finish(r)
        /\ UNCHANGED <<session, redis, served, cutShort>>

FailWrite(r) ==
    LET count == req[r].failed + 1
        lock  == count >= MaxLoginAttempts
    IN  /\ At(r, "fail_write")
        /\ user' = [user EXCEPT !.failed = count, !.locked = IF lock THEN "future" ELSE @]
        /\ guesses' = IF lock THEN 0 ELSE guesses + 1
        /\ Finish(r)
        /\ UNCHANGED <<session, redis, served, cutShort>>

(* The count is reset before the second factor: without a valid code the   *)
(* login ends here.                                                        *)
LoginReset(r) ==
    /\ At(r, "login_reset")
    /\ user' = [user EXCEPT !.failed = 0, !.locked = "null"]
    /\ guesses' = 0
    /\ \/ Goto(r, "login_open")
       \/ req[r].twoFactor /\ Finish(r)
    /\ UNCHANGED <<session, redis, served, cutShort>>

(* The session row is inserted without another look at the user.           *)
LoginOpen(r) ==
    LET s == CHOOSE s \in Sessions : /\ session[s].state = "none"
                                     /\ \A t \in Sessions : t < s => session[t].state # "none"
    IN  /\ At(r, "login_open")
        /\ session' = [session EXCEPT ![s] =
             [state |-> "active", live |-> TRUE, password |-> req[r].password,
              late |-> {c \in {"password"} : req[r].password # user.password}
                  \cup {c \in {"suspension"} : user.status = "SUSPENDED"}]]
        /\ Finish(r)
        /\ UNCHANGED <<user, redis, served, ghosts>>

-----------------------------------------------------------------------------
(* refreshToken and logout.  bcrypt looks at the first 72 bytes, which the *)
(* refresh tokens of one user share (JWT header and part of the subject),  *)
(* so a token of the user matches any of the user's active sessions.       *)

RefreshRead(r) ==
    /\ \E s \in Sessions :
          /\ Usable(s)
          /\ Start(r, [Idle EXCEPT !.pc = "refresh_user", !.session = s])
    /\ UNCHANGED <<rows, redis, ghosts>>

RefreshUser(r) ==
    /\ At(r, "refresh_user")
    /\ IF user.status = "ACTIVE" THEN Goto(r, "refresh_rotate") ELSE Finish(r)
    /\ UNCHANGED <<rows, redis, served, ghosts>>

(* MUTANT of RefreshRotate: the rotated session is written back as active. *)
RefreshRevives(r) ==
    /\ At(r, "refresh_rotate")
    /\ session' = [session EXCEPT ![req[r].session].live = TRUE,
                                  ![req[r].session].state = "active"]
    /\ Finish(r)
    /\ UNCHANGED <<user, redis, served, ghosts>>

RefreshRotate(r) ==
    /\ At(r, "refresh_rotate")
    /\ session' = [session EXCEPT ![req[r].session].live = TRUE]
    /\ Finish(r)
    /\ UNCHANGED <<user, redis, served, ghosts>>

(* With a token one session is ended, expired or not; without, all are.    *)
LogoutRead(r) ==
    /\ \E s \in Sessions :
          /\ session[s].state = "active"
          /\ Guarded(r, [Idle EXCEPT !.pc = "logout_one", !.session = s])
    /\ UNCHANGED <<rows, redis, ghosts>>

EndOne(r, p) ==
    /\ At(r, p)
    /\ session' = [session EXCEPT ![req[r].session].state = "ended"]
    /\ Finish(r)
    /\ UNCHANGED <<user, redis, served, ghosts>>

LogoutOne(r) == EndOne(r, "logout_one")

LogoutAll(r) ==
    /\ Authorized /\ AtOnce(r)
    /\ EndAll
    /\ UNCHANGED <<user, redis, ghosts>>

-----------------------------------------------------------------------------
(* verifyEmail: any status becomes ACTIVE, whatever it was.                *)

VerifyRead(r) ==
    /\ "email-verify" \in keys
    /\ Start(r, [Idle EXCEPT !.pc = "verify_write"])
    /\ UNCHANGED <<rows, redis, ghosts>>

VerifyWrite(r) ==
    /\ At(r, "verify_write")
    /\ user' = [user EXCEPT !.verified = TRUE, !.status = "ACTIVE"]
    /\ Goto(r, "verify_del")
    /\ UNCHANGED <<session, redis, served, ghosts>>

(* Redis drops a used key; a failed DEL is logged and forgotten.           *)
DropKey(r, p, k) ==
    /\ At(r, p)
    /\ keys' \in {keys \ {k}, keys}
    /\ Finish(r)
    /\ UNCHANGED <<rows, resets, served, ghosts>>

VerifyDrop(r) == DropKey(r, "verify_del", "email-verify")

-----------------------------------------------------------------------------
(* requestPasswordReset, which asks only for a row with the e-mail, and    *)
(* resetPassword.                                                          *)

RequestReset(r) ==
    /\ Exists
    /\ AtOnce(r)
    /\ \E t \in ResetTokens \ resets :
          /\ \A q \in Reqs : req[q].token # t
          /\ resets' = resets \cup {t}
    /\ UNCHANGED <<rows, keys, ghosts>>

ResetRead(r) ==
    /\ \E t \in resets : Start(r, [Idle EXCEPT !.pc = "reset_write", !.token = t])
    /\ UNCHANGED <<rows, redis, ghosts>>

(* The new password is stored, by resetPassword and by changePassword.     *)
NewPassword(r, p, next) ==
    /\ At(r, p)
    /\ user' = [user EXCEPT !.password = @ + 1]
    /\ Goto(r, next)
    /\ UNCHANGED <<session, redis, served, ghosts>>

EndThem(r, p) ==
    /\ At(r, p)
    /\ EndAll
    /\ UNCHANGED <<user, redis, served, ghosts>>

ResetWrite(r) == NewPassword(r, "reset_write", "reset_end")
ResetEnd(r)   == EndThem(r, "reset_end") /\ Goto(r, "reset_del")
ResetDrop(r)  ==
    /\ At(r, "reset_del")
    /\ resets' \in {resets \ {req[r].token}, resets}
    /\ Finish(r)
    /\ UNCHANGED <<rows, keys, served, ghosts>>

-----------------------------------------------------------------------------
(* setup2FA and enable2FA.                                                 *)

Setup2FA(r) ==
    /\ Authorized /\ AtOnce(r)
    /\ keys' = keys \cup {"2fa-setup"}
    /\ UNCHANGED <<rows, resets, ghosts>>

EnableRead(r) ==
    /\ "2fa-setup" \in keys
    /\ Guarded(r, [Idle EXCEPT !.pc = "enable_write"])
    /\ UNCHANGED <<rows, redis, ghosts>>

EnableWrite(r) ==
    /\ At(r, "enable_write")
    /\ user' = [user EXCEPT !.twoFactor = TRUE]
    /\ Goto(r, "enable_del")
    /\ UNCHANGED <<session, redis, served, ghosts>>

EnableDrop(r) == DropKey(r, "enable_del", "2fa-setup")

-----------------------------------------------------------------------------
AuthStep(r) ==
    \/ RegisterRead(r) \/ RegisterCommit(r)
    \/ LoginRead(r) \/ FailRead(r) \/ FailWrite(r) \/ LoginReset(r) \/ LoginOpen(r)
    \/ RefreshRead(r) \/ RefreshUser(r) \/ RefreshRotate(r)
    \/ LogoutRead(r) \/ LogoutOne(r) \/ LogoutAll(r)
    \/ VerifyRead(r) \/ VerifyWrite(r) \/ VerifyDrop(r)
    \/ RequestReset(r) \/ ResetRead(r) \/ ResetWrite(r) \/ ResetEnd(r) \/ ResetDrop(r)
    \/ Setup2FA(r) \/ EnableRead(r) \/ EnableWrite(r) \/ EnableDrop(r)
=============================================================================
