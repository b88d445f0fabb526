------------------------------- MODULE Users --------------------------------
(***************************************************************************)
(* users.service.ts, the operations that change the account, and the       *)
(* administrator's suspendUser and activateUser of admin.service.ts.       *)
(***************************************************************************)
EXTENDS Auth

(* changePassword: the current password is checked, then the new one is    *)
(* stored, then the sessions end: three statements.                        *)

ChangeRead(r) ==
    /\ Guarded(r, [Idle EXCEPT !.pc = "change_write"])
    /\ UNCHANGED <<rows, redis, ghosts>>

(* MUTANT of ChangeEnd: the sessions of a changed password live on.        *)
ChangeForgets(r) ==
    At(r, "change_end") /\ Finish(r) /\ UNCHANGED <<rows, redis, served, ghosts>>

ChangeWrite(r) == NewPassword(r, "change_write", "change_end")
ChangeEnd(r)   == EndThem(r, "change_end") /\ Finish(r)

(* becomeHost: the role and the e-mail are judged as read.                 *)
HostRead(r) ==
    /\ ~user.host /\ user.verified
    /\ Guarded(r, [Idle EXCEPT !.pc = "host_write"])
    /\ UNCHANGED <<rows, redis, ghosts>>

HostWrite(r) ==
    /\ At(r, "host_write")
    /\ user' = [user EXCEPT !.host = TRUE]
    /\ Finish(r)
    /\ UNCHANGED <<session, redis, served, ghosts>>

(* revokeSession: any session of the user, found and then ended by id.     *)
RevokeRead(r) ==
    /\ \E s \in Sessions :
          /\ session[s].state # "none"
          /\ Guarded(r, [Idle EXCEPT !.pc = "revoke_write", !.session = s])
    /\ UNCHANGED <<rows, redis, ghosts>>

RevokeWrite(r) == EndOne(r, "revoke_write")

(* deleteAccount: the row stays, without its e-mail; the sessions and the  *)
(* keys are left as they are.                                              *)
DeleteRead(r) ==
    /\ Guarded(r, [Idle EXCEPT !.pc = "delete_write"])
    /\ UNCHANGED <<rows, redis, ghosts>>

(* MUTANT of DeleteWrite: the row gets a status the schema does not have.  *)
DeleteAsDeleted(r) ==
    /\ At(r, "delete_write")
    /\ user' = [user EXCEPT !.deleted = TRUE, !.status = "DELETED"]
    /\ Finish(r)
    /\ UNCHANGED <<session, redis, served, ghosts>>

DeleteWrite(r) ==
    /\ At(r, "delete_write")
    /\ user' = [user EXCEPT !.deleted = TRUE, !.status = "INACTIVE"]
    /\ Finish(r)
    /\ UNCHANGED <<session, redis, served, ghosts>>

-----------------------------------------------------------------------------
(* suspendUser: the status, the audit row, then the sessions.              *)

SuspendRead(r) ==
    /\ Exists
    /\ Start(r, [Idle EXCEPT !.pc = "suspend_write"])
    /\ UNCHANGED <<rows, redis, ghosts>>

SuspendWrite(r) ==
    /\ At(r, "suspend_write")
    /\ user' = [user EXCEPT !.status = "SUSPENDED"]
    /\ Goto(r, "suspend_end")
    /\ UNCHANGED <<session, redis, served, ghosts>>

(* MUTANT of SuspendEnd: the sessions of the suspended user are forgotten. *)
SuspendForgets(r) ==
    At(r, "suspend_end") /\ Finish(r) /\ UNCHANGED <<rows, redis, served, ghosts>>

SuspendEnd(r) == EndThem(r, "suspend_end") /\ Finish(r)

(* activateUser: whatever the status was, a deleted account's included.    *)
ActivateUser(r) ==
    /\ Exists /\ AtOnce(r)
    /\ user' = [user EXCEPT !.status = "ACTIVE"]
    /\ UNCHANGED <<session, redis, ghosts>>

-----------------------------------------------------------------------------
UsersStep(r) ==
    \/ ChangeRead(r) \/ ChangeWrite(r) \/ ChangeEnd(r)
    \/ HostRead(r) \/ HostWrite(r) \/ RevokeRead(r) \/ RevokeWrite(r)
    \/ DeleteRead(r) \/ DeleteWrite(r)
    \/ SuspendRead(r) \/ SuspendWrite(r) \/ SuspendEnd(r) \/ ActivateUser(r)
=============================================================================
