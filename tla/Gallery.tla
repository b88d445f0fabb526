------------------------------ MODULE Gallery -------------------------------
(***************************************************************************)
(* files.service.ts: the photos of a listing.  The bucket is read under a  *)
(* name that no configuration has, so uploadToS3 and deleteFile skip every *)
(* call to S3, and a photo is its row alone.  Nothing here touches the     *)
(* cached page.                                                            *)
(***************************************************************************)
EXTENDS Shop

Apart == UNCHANGED <<row, copies, social, past, excused, owed, crossed>>

Free == Images \ (images \cup UNION {req[q].ids : q \in Reqs})

Reordering == \E q \in Reqs : At(q, "reorder")

-----------------------------------------------------------------------------
(* addPropertyImages: the rows are counted, the files resized, and the     *)
(* rows inserted by the count read first.  The new files take the lowest   *)
(* free ids.                                                               *)

(* MUTANT of AddRead: the limit forgets the files of the request.          *)
AddReadLoose(r) ==
    /\ Exists
    /\ Cardinality(images) <= MaxImages
    /\ \E F \in SUBSET Free :
          /\ F # {} /\ Cardinality(F) <= MaxFiles
          /\ \A i \in F : \A j \in Free : j < i => j \in F
          /\ Start(r, [Idle EXCEPT !.pc = "insert", !.ids = F, !.first = images = {}])
    /\ UNCHANGED <<gallery, unset>> /\ Apart

AddRead(r) ==
    /\ Exists
    /\ \E F \in SUBSET Free :
          /\ F # {} /\ Cardinality(F) <= MaxFiles
          /\ Cardinality(images) + Cardinality(F) <= MaxImages
          /\ \A i \in F : \A j \in Free : j < i => j \in F
          /\ Start(r, [Idle EXCEPT !.pc = "insert", !.ids = F, !.first = images = {}])
    /\ UNCHANGED <<gallery, unset>> /\ Apart

(* MUTANT of Insert: the second file is made the primary one.              *)
InsertSecond(r) ==
    /\ At(r, "insert")
    /\ images' = images \cup req[r].ids
    /\ primary' = primary \cup
         (IF req[r].first THEN {i \in req[r].ids : \E j \in req[r].ids : j < i} ELSE {})
    /\ unset' = (unset /\ ~req[r].first)
    /\ Finish(r)
    /\ UNCHANGED served /\ Apart

Insert(r) ==
    /\ At(r, "insert")
    /\ images' = images \cup req[r].ids
    /\ primary' = primary \cup
         (IF req[r].first THEN {i \in req[r].ids : \A j \in req[r].ids : i <= j} ELSE {})
    /\ unset' = (unset /\ ~req[r].first)
    /\ Finish(r)
    /\ UNCHANGED served /\ Apart

-----------------------------------------------------------------------------
(* reorderImages: one statement for each id, in any order; the first id of *)
(* the list becomes the primary one.  A missing row fails its own alone.   *)

ReorderStart(r) ==
    /\ \E L \in SUBSET images : \E i \in L :
          Start(r, [Idle EXCEPT !.pc = "reorder", !.ids = L, !.main = i])
    /\ unset' = Reordering
    /\ UNCHANGED gallery /\ Apart

ReorderOne(r) ==
    /\ At(r, "reorder")
    /\ \E i \in req[r].ids :
          /\ primary' = IF i = req[r].main /\ i \in images THEN primary \cup {i}
                        ELSE primary \ {i}
          /\ IF req[r].ids = {i} THEN Finish(r)
             ELSE req' = [req EXCEPT ![r].ids = @ \ {i}]
    /\ UNCHANGED <<images, served, unset>> /\ Apart

(* setPrimaryImage, in one transaction.                                    *)
SetPrimary(r) ==
    /\ \E i \in images : primary' = {i}
    /\ unset' = Reordering
    /\ Start(r, Idle)
    /\ UNCHANGED images /\ Apart

-----------------------------------------------------------------------------
(* deletePropertyImage: the row is looked up, and deleted.                 *)

DeleteRead(r) ==
    /\ \E i \in images : Start(r, [Idle EXCEPT !.pc = "delete_row", !.ids = {i}])
    /\ UNCHANGED <<gallery, unset>> /\ Apart

(* The photo that is gone was the primary one, or about to be.             *)
DeleteRow(r) ==
    /\ At(r, "delete_row")
    /\ images' = images \ req[r].ids
    /\ primary' = primary \ req[r].ids
    /\ unset' = (unset \/ \E i \in req[r].ids :
                    i \in primary \/ \E q \in Reqs : At(q, "reorder") /\ req[q].main = i)
    /\ Finish(r)
    /\ UNCHANGED served /\ Apart

-----------------------------------------------------------------------------
GalleryStep(r) ==
    \/ AddRead(r) \/ Insert(r)
    \/ ReorderStart(r) \/ ReorderOne(r) \/ SetPrimary(r)
    \/ DeleteRead(r) \/ DeleteRow(r)
=============================================================================
