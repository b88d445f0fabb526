------------------------------ MODULE Feedback ------------------------------
(***************************************************************************)
(* reviews.service.ts, and toggleFavorite of properties.service.ts: the    *)
(* rows people hang on a listing, and the counts kept in its row.          *)
(***************************************************************************)
EXTENDS Shop

Aside == UNCHANGED <<copies, gallery, past, excused, owed, unset, crossed>>

-----------------------------------------------------------------------------
(* toggleFavorite: the row is looked up, created or deleted, and counted,  *)
(* in three statements.  A second create or delete of it is refused.       *)

FavRead(r) ==
    /\ Exists
    /\ \E u \in Users :
          Start(r, [Idle EXCEPT !.user = u,
                    !.pc = IF u \in favorites THEN "fav_delete" ELSE "fav_create"])
    /\ UNCHANGED <<row, social>> /\ Aside

(* MUTANT of FavCreate: nothing refuses the second of two favorites.       *)
FavCreateTwice(r) ==
    /\ At(r, "fav_create")
    /\ favorites' = favorites \cup {req[r].user}
    /\ Goto(r, "fav_inc")
    /\ UNCHANGED <<row, review, answered, served>> /\ Aside

FavCreate(r) ==
    /\ At(r, "fav_create")
    /\ \/ /\ req[r].user \notin favorites
          /\ favorites' = favorites \cup {req[r].user}
          /\ Goto(r, "fav_inc")
       \/ req[r].user \in favorites /\ Finish(r) /\ UNCHANGED favorites
    /\ UNCHANGED <<row, review, answered, served>> /\ Aside

FavDelete(r) ==
    /\ At(r, "fav_delete")
    /\ \/ /\ req[r].user \in favorites
          /\ favorites' = favorites \ {req[r].user}
          /\ Goto(r, "fav_dec")
       \/ req[r].user \notin favorites /\ Finish(r) /\ UNCHANGED favorites
    /\ UNCHANGED <<row, review, answered, served>> /\ Aside

FavCount(r) ==
    /\ \/ At(r, "fav_inc") /\ row' = [row EXCEPT !.favs = @ + 1]
       \/ At(r, "fav_dec") /\ row' = [row EXCEPT !.favs = @ - 1]
    /\ Finish(r)
    /\ UNCHANGED <<social, served>> /\ Aside

-----------------------------------------------------------------------------
(* reviews.create: one review of each kind is looked for, but the unique   *)
(* index is on the booking alone.  The transaction inserts the review and  *)
(* reads the average of the committed reviews and its own; at the default  *)
(* isolation another one may commit before it writes that average.         *)

GuestReviews == {s \in Stays : review[s] = "guest"}

ReviewRead(r) ==
    /\ Exists
    /\ \E s \in Stays, by \in {"guest", "host"} :
          /\ review[s] # by
          /\ Start(r, [Idle EXCEPT !.pc = "review_insert", !.stay = s, !.by = by])
    /\ UNCHANGED <<row, social>> /\ Aside

(* MUTANT of Counted: the average is read before the review is inserted.   *)
CountedBefore(r) == GuestReviews

Counted(r) == GuestReviews \cup (IF req[r].by = "guest" THEN {req[r].stay} ELSE {})

(* The insert waits while another transaction holds the same booking.      *)
ReviewInsert(r) ==
    /\ At(r, "review_insert")
    /\ \A q \in Reqs : At(q, "review_commit") => req[q].stay # req[r].stay
    /\ IF review[req[r].stay] = NONE
       THEN req' = [req EXCEPT ![r].pc = "review_commit", ![r].counted = Counted(r)]
       ELSE Finish(r)
    /\ UNCHANGED <<row, social, served>> /\ Aside

ReviewCommit(r) ==
    /\ At(r, "review_commit")
    /\ review' = [review EXCEPT ![req[r].stay] = req[r].by]
    /\ IF req[r].by = "guest" THEN Commit([row EXCEPT !.rated = req[r].counted])
                              ELSE UNCHANGED <<row, past>>
    /\ crossed' = crossed \cup {s \in {req[r].stay} :
                                 \E q \in Reqs \ {r} : At(q, "review_commit") /\ req[q].by = "guest"}
    /\ Goto(r, "del")
    /\ UNCHANGED <<copies, favorites, answered, gallery, served, excused, owed, unset>>

(* respondToReview: one response, if none was seen.                        *)
RespondRead(r) ==
    /\ \E s \in Stays \ answered :
          /\ review[s] # NONE
          /\ Start(r, [Idle EXCEPT !.pc = "respond_write", !.stay = s])
    /\ UNCHANGED <<row, social>> /\ Aside

RespondWrite(r) ==
    /\ At(r, "respond_write")
    /\ answered' = answered \cup {req[r].stay}
    /\ Finish(r)
    /\ UNCHANGED <<row, favorites, review, served>> /\ Aside

-----------------------------------------------------------------------------
FeedbackStep(r) ==
    \/ FavRead(r) \/ FavCreate(r) \/ FavDelete(r) \/ FavCount(r)
    \/ ReviewRead(r) \/ ReviewInsert(r) \/ ReviewCommit(r)
    \/ RespondRead(r) \/ RespondWrite(r)
=============================================================================
