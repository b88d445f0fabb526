------------------------------ MODULE Listings ------------------------------
(***************************************************************************)
(* PropertiesService: the calendar blocks of the property, its removal,    *)
(* its approval and suspension, and the writes of the property row that    *)
(* matter here only because a create transaction writes that row too.      *)
(***************************************************************************)
EXTENDS Platform

(* blockDates: refuse if a confirmed stay touches the range, then insert.  *)
BlockRead(r, s) ==
    /\ \A b \in Bookings : bookings[b].status \in Active => ~Touches(bookings[b].stay, s)
    /\ Start(r, [Idle EXCEPT !.pc = "block_write", !.stay = s])
    /\ UNCHANGED <<today, property, bookings, history, dispute, money, wallets>>

BlockWrite(r) ==
    /\ At(r, "block_write")
    /\ blocks' = blocks \cup {req[r].stay}
    /\ Finish(r)
    /\ UNCHANGED <<today, listing, lock, stale, bookings, history, dispute, money, wallets>>

(* remove: refuse if a booking is confirmed or checked in, then archive.   *)
RemoveRead(r) ==
    /\ ~listing.deleted
    /\ \A b \in Bookings : bookings[b].status \notin Active
    /\ Start(r, [Idle EXCEPT !.pc = "remove_write"])
    /\ UNCHANGED <<today, property, bookings, history, dispute, money, wallets>>

RemoveWrite(r) ==
    /\ At(r, "remove_write")
    /\ listing' = [status |-> "ARCHIVED", deleted |-> TRUE]
    /\ Overtake(r)
    /\ Finish(r)
    /\ UNCHANGED <<today, blocks, lock, bookings, history, dispute, money, wallets>>

(* approve and suspend: one UPDATE each, whatever the status was.          *)
SetListing(s) ==
    /\ listing' = [listing EXCEPT !.status = s]
    /\ Overtake(NONE)
    /\ UNCHANGED <<today, blocks, lock, bookings, history, dispute, money, wallets, req>>

Approve == SetListing("ACTIVE")
Suspend == SetListing("SUSPENDED")

(* The UPDATEs that change columns outside the model: a viewed page's      *)
(* viewCount, favorites, an edit by the host, the rating of a new review.  *)
TouchProperty ==
    /\ Overtake(NONE)
    /\ UNCHANGED <<today, listing, blocks, lock, bookings, history, dispute, money,
                   wallets, req>>
=============================================================================
