------------------------------ MODULE Accounts ------------------------------
(***************************************************************************)
(* One user's account with every handler that touches it, and what the     *)
(* account must keep true while those handlers interleave and die.         *)
(***************************************************************************)
EXTENDS Users

(* The account is new, or an active one with at most one session.          *)
Init ==
    /\ \/ /\ user = [NewUser(FALSE) EXCEPT !.status = NONE]
          /\ session = [s \in Sessions |-> NoSession]
       \/ /\ user = [NewUser(FALSE) EXCEPT !.status = "ACTIVE", !.verified = TRUE]
          /\ \E open \in SUBSET {s \in Sessions : s = 1} :
                session = [s \in Sessions |->
                   IF s \in open THEN [state |-> "active", live |-> TRUE,
                                       password |-> 1, late |-> {}]
                   ELSE NoSession]
    /\ keys = {} /\ resets = {}
    /\ req = [r \in Reqs |-> Idle]
    /\ served = 0 /\ guesses = 0 /\ cutShort = {}

Next ==
    \/ \E r \in Reqs : AuthStep(r) \/ UsersStep(r) \/ Die(r)
    \/ \E s \in Sessions : SessionExpires(s)
    \/ LockPasses
    \/ KeyExpires

(* Nothing is said to happen in the end: no handler is sure to go on.      *)
Spec == Init /\ [][Next]_vars

-----------------------------------------------------------------------------
(* The rows, keys and requests have their types.                           *)
AccountsTypeOK ==
    /\ user \in UserRow
    /\ session \in [Sessions -> SessionRow]
    /\ keys \subseteq {"email-verify", "2fa-setup"}
    /\ resets \subseteq ResetTokens
    /\ req \in [Reqs -> Request]
    /\ served \in 0..MaxRequests
    /\ guesses \in Nat
    /\ cutShort \subseteq Causes

(* changePassword and resetPassword: an active session was opened with the *)
(* present password, unless the handler that stored the new one has yet to *)
(* end the sessions, died before it could, or the session was opened by a  *)
(* login that had already checked the old password.                        *)
SessionsEndWithPassword ==
    \A s \in Sessions :
        session[s].state = "active" /\ session[s].password # user.password =>
            \/ AtAny({"reset_end", "change_end"})
            \/ "password" \in cutShort
            \/ "password" \in session[s].late

(* suspendUser: a suspended user has no active session, with the same      *)
(* three exceptions: under way, cut short, a login let in before.          *)
SessionsEndWithSuspension ==
    \A s \in Sessions :
        session[s].state = "active" /\ user.status = "SUSPENDED" =>
            \/ AtAny({"suspend_end"})
            \/ "suspension" \in cutShort
            \/ "suspension" \in session[s].late

(* Logout, revocation, password change and suspension are final: a session *)
(* that was ended stays so, though a refresh or a login in flight still    *)
(* writes session rows afterwards.                                         *)
EndedStaysEnded ==
    [][\A s \in Sessions : session[s].state = "ended" => session'[s].state = "ended"]_vars

(* handleFailedLogin counts with a read and a write, so parallel failures  *)
(* are lost; even so, with C handlers at once at most Choose(M+C-1, C) - 1 *)
(* wrong passwords pass before the account locks, M = MaxLoginAttempts.    *)
(* Stated for the two handlers of the run: M * (M + 1) / 2 - 1.            *)
GuessesBounded ==
    Cardinality(Reqs) = 2 =>
        guesses < (MaxLoginAttempts * (MaxLoginAttempts + 1)) \div 2
=============================================================================
