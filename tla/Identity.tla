------------------------------ MODULE Identity ------------------------------
(***************************************************************************)
(* What the auth, users and admin services share: the row of one user, the *)
(* UserSession rows, the one-time keys in Redis and the requests in        *)
(* flight.  A request in flight holds what it read of the row and never    *)
(* reads again.                                                            *)
(*                                                                         *)
(* A password is the number of the write that stored it, so a session that *)
(* carries the number of its login shows which password opened it.  The    *)
(* clock is two bits: a lock and a session lie in the future or not.       *)
(***************************************************************************)
EXTENDS Integers, FiniteSets

CONSTANTS
    Reqs,              \* request slots: how many handlers can be in flight at once
    Sessions,          \* ids of session rows, numbers
    ResetTokens,       \* bound: password-reset tokens outstanding at once
    NONE,              \* "no row", "no session"
    MaxLoginAttempts,  \* MAX_LOGIN_ATTEMPTS
    MaxRequests        \* bound: how many requests are served

ASSUME CountsAssumption ==
    /\ MaxLoginAttempts \in Nat \ {0}
    /\ MaxRequests \in Nat
    /\ Sessions \subseteq Nat
    /\ IsFiniteSet(Sessions) /\ IsFiniteSet(Reqs)
ASSUME NoSessionAssumption ==
    /\ NONE \notin Sessions
    /\ NONE \notin ResetTokens
    /\ NONE \notin {"PENDING_VERIFICATION", "ACTIVE", "SUSPENDED", "INACTIVE"}

VARIABLES
    user,      \* the User row
    session,   \* the UserSession rows of the user
    keys,      \* Redis: the one-time keys "email-verify" and "2fa-setup"
    resets,    \* Redis: the pwd-reset tokens
    req,       \* the requests in flight
    served,    \* how many requests have started
    guesses,   \* wrong passwords tried since the last reset or lock
    cutShort   \* what a crash left half done: ending the sessions after ...

rows == <<user, session>>
redis == <<keys, resets>>
ghosts == <<guesses, cutShort>>
vars == <<rows, redis, req, served, ghosts>>

-----------------------------------------------------------------------------
(* Rows.                                                                   *)

UserStatus == {"PENDING_VERIFICATION", "ACTIVE", "SUSPENDED", "INACTIVE"}
Causes     == {"password", "suspension"}

UserRow ==
    [status : UserStatus \cup {NONE}, verified : BOOLEAN, host : BOOLEAN,
     deleted : BOOLEAN, password : Nat, failed : Nat,
     locked : {"null", "future", "past"}, twoFactor : BOOLEAN]

NewUser(host) ==
    [status |-> "PENDING_VERIFICATION", verified |-> FALSE, host |-> host,
     deleted |-> FALSE, password |-> 1, failed |-> 0, locked |-> "null",
     twoFactor |-> FALSE]

(* password and late are history: the password the login checked, and what *)
(* had already overtaken that login when it opened the session.            *)
SessionRow == [state : {"none", "active", "ended"}, live : BOOLEAN,
               password : Nat, late : SUBSET Causes]
NoSession  == [state |-> "none", live |-> FALSE, password |-> 0, late |-> {}]

Locked     == user.locked = "future"
Exists     == user.status # NONE
Usable(s)  == session[s].state = "active" /\ session[s].live
EndAll     == session' = [s \in Sessions |->
                 IF session[s].state = "active"
                 THEN [session[s] EXCEPT !.state = "ended"] ELSE session[s]]

(* What JwtStrategy.validate asks of the user on every guarded request.    *)
Authorized == Exists /\ ~user.deleted /\ user.status # "SUSPENDED"

-----------------------------------------------------------------------------
(* Requests.                                                               *)

Points == {"idle", "register_commit", "fail_read", "fail_write", "login_reset",
           "login_open", "refresh_user", "refresh_rotate", "logout_one",
           "reset_write", "reset_end", "reset_del", "verify_write", "verify_del",
           "enable_write", "enable_del", "change_write", "change_end",
           "host_write", "revoke_write", "delete_write", "suspend_write",
           "suspend_end"}

Request == [pc : Points, session : Sessions \cup {NONE}, token : ResetTokens \cup {NONE},
            password : Nat, failed : Nat, twoFactor : BOOLEAN]

Idle == [pc |-> "idle", session |-> NONE, token |-> NONE,
         password |-> 0, failed |-> 0, twoFactor |-> FALSE]

At(r, p)   == req[r].pc = p
AtAny(P)   == \E r \in Reqs : req[r].pc \in P
Goto(r, p) == req' = [req EXCEPT ![r].pc = p]
Finish(r)  == req' = [req EXCEPT ![r] = Idle]

(* A request arrives: its first step moves it to q.                        *)
Arrive(r)  == At(r, "idle") /\ served < MaxRequests /\ served' = served + 1
Start(r, q) == Arrive(r) /\ req' = [req EXCEPT ![r] = q]
AtOnce(r)  == Arrive(r) /\ UNCHANGED req

(* The guards let a request of the signed-in user through.                 *)
Guarded(r, q) == Authorized /\ Start(r, q)

(* The server dies under the request, between two of its statements.       *)
Die(r) ==
    /\ ~At(r, "idle")
    /\ Finish(r)
    /\ cutShort' = cutShort
         \cup {c \in {"password"} : req[r].pc \in {"reset_end", "change_end"}}
         \cup {c \in {"suspension"} : At(r, "suspend_end")}
    /\ UNCHANGED <<rows, redis, served, guesses>>

(* Time passes: a lock, a session or a one-time key runs out.              *)
LockPasses ==
    /\ user.locked = "future"
    /\ user' = [user EXCEPT !.locked = "past"]
    /\ UNCHANGED <<session, redis, req, served, ghosts>>

SessionExpires(s) ==
    /\ Usable(s)
    /\ session' = [session EXCEPT ![s].live = FALSE]
    /\ UNCHANGED <<user, redis, req, served, ghosts>>

KeyExpires ==
    /\ \/ \E k \in keys : keys' = keys \ {k} /\ UNCHANGED resets
       \/ \E t \in resets : resets' = resets \ {t} /\ UNCHANGED keys
    /\ UNCHANGED <<rows, req, served, ghosts>>
=============================================================================
