------------------------------ MODULE Catalog -------------------------------
(***************************************************************************)
(* properties.service.ts and search.service.ts: the listing's row, the     *)
(* Redis caches filled from it and the Elasticsearch document.             *)
(***************************************************************************)
EXTENDS Shop

Still == UNCHANGED <<social, gallery, owed, unset, crossed>>

-----------------------------------------------------------------------------
(* indexProperty sends the whole document it is given; its errors are      *)
(* caught by every caller.                                                 *)
IndexThem(r) == doc' \in req[r].snap \cup {doc}

IndexAt(r, p) ==
    /\ At(r, p)
    /\ IndexThem(r)
    /\ Finish(r)
    /\ UNCHANGED <<row, cache, served, past, excused>> /\ Still

(* create: a draft, indexed at once.                                       *)
Create(r) ==
    /\ ~Exists
    /\ \E t \in Terms : Commit([row EXCEPT !.status = "DRAFT", !.terms = t])
    /\ Start(r, [Idle EXCEPT !.pc = "create_index", !.snap = {Copy(row')}])
    /\ UNCHANGED <<copies, excused>> /\ Still

CreateIndex(r) == IndexAt(r, "create_index")

(* update: read, write by id, forget the page, index what was written.     *)
UpdateRead(r) ==
    /\ Found
    /\ Start(r, [Idle EXCEPT !.pc = "update_write"])
    /\ UNCHANGED <<row, copies, past, excused>> /\ Still

(* MUTANT of UpdateWrite: the new document is indexed before the row is    *)
(* written.                                                                *)
UpdateIndexFirst(r) ==
    /\ At(r, "update_write")
    /\ doc' = [status |-> row.status, ver |-> row.ver + 1]
    /\ Finish(r)
    /\ UNCHANGED <<row, cache, served, past, excused>> /\ Still

UpdateWrite(r) ==
    /\ At(r, "update_write")
    /\ \E t \in Terms : Commit([row EXCEPT !.terms = t])
    /\ req' = [req EXCEPT ![r].pc = "update_del", ![r].snap = {Copy(row')}]
    /\ UNCHANGED <<copies, served, excused>> /\ Still

(* The key properties:list:* is deleted literally: no list goes.           *)
DelThen(r, p, next) ==
    /\ At(r, p)
    /\ DropPage
    /\ IF next = "idle" THEN Finish(r) ELSE Goto(r, next)
    /\ UNCHANGED <<row, doc, served, past>> /\ Still

UpdateDel(r)   == DelThen(r, "update_del", "update_index")
UpdateIndex(r) == IndexAt(r, "update_index")
PageDel(r)     == DelThen(r, "del", "idle")

(* setAmenities, by the host of the row, deleted or not.                   *)
AmenitiesRead(r) ==
    /\ Exists
    /\ Start(r, [Idle EXCEPT !.pc = "amenities_write"])
    /\ UNCHANGED <<row, copies, past, excused>> /\ Still

AmenitiesWrite(r) ==
    /\ At(r, "amenities_write")
    /\ Commit(row)
    /\ Goto(r, "del")
    /\ UNCHANGED <<copies, served, excused>> /\ Still

(* remove: refused while a booking is active, which here is the caller's   *)
(* choice; the row is archived, then the copies go.                        *)
RemoveRead(r) ==
    /\ Found
    /\ Start(r, [Idle EXCEPT !.pc = "remove_write"])
    /\ UNCHANGED <<row, copies, past, excused>> /\ Still

(* MUTANT of RemoveWrite: the row gets a status the schema does not have.  *)
RemoveAsDeleted(r) ==
    /\ At(r, "remove_write")
    /\ Commit([row EXCEPT !.status = "DELETED", !.deleted = TRUE])
    /\ Goto(r, "remove_del")
    /\ UNCHANGED <<copies, served, excused>> /\ Still

RemoveWrite(r) ==
    /\ At(r, "remove_write")
    /\ Commit([row EXCEPT !.status = "ARCHIVED", !.deleted = TRUE])
    /\ Goto(r, "remove_del")
    /\ UNCHANGED <<copies, served, excused>> /\ Still

RemoveDel(r) == DelThen(r, "remove_del", "remove_doc")

RemoveDoc(r) ==
    /\ At(r, "remove_doc")
    /\ doc' \in {NONE, doc}
    /\ Finish(r)
    /\ UNCHANGED <<row, cache, served, past, excused>> /\ Still

-----------------------------------------------------------------------------
(* approve and suspend, by id: deleted or not, and the document stays.     *)

(* MUTANT of Suspend: the page is not deleted from the cache.              *)
SuspendQuietly(r) ==
    /\ Exists
    /\ Commit([row EXCEPT !.status = "SUSPENDED"])
    /\ Start(r, Idle)
    /\ UNCHANGED <<copies, excused>> /\ Still

Approve(r) ==
    /\ Exists
    /\ Commit([row EXCEPT !.status = "ACTIVE", !.approved = TRUE])
    /\ Start(r, [Idle EXCEPT !.pc = "del"])
    /\ UNCHANGED <<copies, excused>> /\ Still

Suspend(r) ==
    /\ Exists
    /\ Commit([row EXCEPT !.status = "SUSPENDED"])
    /\ Start(r, [Idle EXCEPT !.pc = "del"])
    /\ UNCHANGED <<copies, excused>> /\ Still

-----------------------------------------------------------------------------
(* The readers, and at most what each of them shows: criteria, paging and  *)
(* the viewer's own taste leave out more.  findOne shows the row in any    *)
(* status, autocomplete the document whatever it says; the dashboard       *)
(* counts, and the host's analytics rank, an active row deleted or not.    *)

Document   == {doc} \ {NONE}
Active(S)  == {s \in S : s.status = "ACTIVE"}
Rows       == IF Exists THEN {Copy(row)} ELSE {}

FindOne == Live
FindAll == Active(Live)
GetPublicProfile  == Active(Live)
GetDashboardStats == Active(Rows)
GetHostAnalytics  == Active(Rows)

(* MUTANT of SearchProperties: the query has no status filter.             *)
SearchUnfiltered == Document

SearchProperties   == Active(Document)
SearchNearby       == Active(Document)
GetRecommendations == Active(Document)
Autocomplete       == Document

Source(c) == CASE c = "page"            -> FindOne
               [] c = "list"            -> FindAll
               [] c = "recommendations" -> GetRecommendations
               [] c = "autocomplete"    -> Autocomplete
               [] c = "dashboard"       -> GetDashboardStats
               [] c = "analytics"       -> GetHostAnalytics

(* A reader misses its cache, reads the source, then fills the cache.      *)
Miss(r) ==
    /\ \E c \in Caches :
          /\ cache[c] = NONE
          /\ Start(r, [Idle EXCEPT !.pc = "cache_read", !.cache = c])
    /\ UNCHANGED <<row, copies, past, excused>> /\ Still

Read(r) ==
    /\ At(r, "cache_read")
    /\ \/ \E shown \in SUBSET Source(req[r].cache) :
             /\ req[r].cache = "page" => shown # {}
             /\ req' = [req EXCEPT ![r].pc = "cache_fill", ![r].snap = shown]
       \/ req[r].cache = "page" /\ Live = {} /\ Finish(r)
    /\ UNCHANGED <<row, copies, served, past, excused>> /\ Still

Fresh(shown) == shown = Live

(* MUTANT of Filled: the time to live is forgotten.                        *)
FilledForGood(shown) == [shown |-> shown, ttl |-> FALSE]

Filled(shown) == [shown |-> shown, ttl |-> TRUE]

(* RedisService.set logs a failure and goes on.                            *)
Fill(r) ==
    /\ At(r, "cache_fill")
    /\ \/ /\ cache' = [cache EXCEPT ![req[r].cache] = Filled(req[r].snap)]
          /\ excused' = IF req[r].cache = "page" THEN ~Fresh(req[r].snap) ELSE excused
       \/ UNCHANGED <<cache, excused>>
    /\ Finish(r)
    /\ UNCHANGED <<row, doc, served, past>> /\ Still

(* reindexAll: the active rows are read first and indexed one by one.      *)
ReindexRead(r) ==
    /\ FindAll # {}
    /\ Start(r, [Idle EXCEPT !.pc = "reindex", !.snap = FindAll])
    /\ UNCHANGED <<row, copies, past, excused>> /\ Still

ReindexOne(r) == IndexAt(r, "reindex")

-----------------------------------------------------------------------------
CatalogStep(r) ==
    \/ Create(r) \/ CreateIndex(r)
    \/ UpdateRead(r) \/ UpdateWrite(r) \/ UpdateDel(r) \/ UpdateIndex(r)
    \/ AmenitiesRead(r) \/ AmenitiesWrite(r) \/ PageDel(r)
    \/ RemoveRead(r) \/ RemoveWrite(r) \/ RemoveDel(r) \/ RemoveDoc(r)
    \/ Approve(r) \/ Suspend(r)
    \/ Miss(r) \/ Read(r) \/ Fill(r) \/ ReindexRead(r) \/ ReindexOne(r)
=============================================================================
