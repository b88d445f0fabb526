-------------------------------- MODULE Shop --------------------------------
(***************************************************************************)
(* What the services behind one listing's public face share: its row, the  *)
(* Redis caches and the Elasticsearch document copied from it, the rows    *)
(* that hang on it, and the requests in flight.                            *)
(*                                                                         *)
(* A copy is a snapshot: the status of the row and the number of the       *)
(* write that made it.  Title, price, amenities and rating are in that     *)
(* number; what a copy shows of photos, responses and counters is not:     *)
(* the services that write them never delete a copy.                       *)
(***************************************************************************)
EXTENDS Integers, FiniteSets

CONSTANTS
    Reqs,         \* request slots: how many handlers can be in flight at once
    Users,        \* who marks the listing as a favorite
    Stays,        \* ids of the checked-out bookings, which may be reviewed
    Images,       \* ids of images, numbers
    Terms,        \* the pricing columns a host may set
    MaxImages,    \* the 30 of addPropertyImages
    MaxFiles,     \* the 20 of uploadImages
    NONE,         \* "nothing there"
    MaxRequests   \* bound: how many requests are served

ASSUME ShopAssumption ==
    /\ MaxImages \in Nat \ {0} /\ MaxFiles \in Nat /\ MaxRequests \in Nat
    /\ Images \subseteq Nat /\ IsFiniteSet(Images)
    /\ IsFiniteSet(Reqs) /\ Reqs # {} /\ Terms # {}
    /\ NONE \notin Users \cup Stays \cup Images
    /\ NONE \notin {"DRAFT", "ACTIVE", "SUSPENDED", "ARCHIVED", "guest", "host"}

VARIABLES
    row,        \* the Property row
    cache,      \* Redis: the listing's page, and the lists it appears in
    doc,        \* Elasticsearch: the document of the listing
    favorites,  \* the Favorite rows: who has one
    review,     \* the Review row of each booking: who wrote it, or NONE
    answered,   \* the reviews that have a response
    images,     \* the PropertyImage rows
    primary,    \* the ones with isPrimary
    req,        \* the requests in flight
    served,     \* how many requests have started
    past,       \* history: the snapshots of every committed row
    excused,    \* history: the page is stale by a late fill or a lost DEL
    owed,       \* history: favoritesCount updates lost in crashes
    unset,      \* history: the primary photo was deleted, or reorderings crossed or died
    crossed     \* history: reviews that committed while another was being counted

copies  == <<cache, doc>>
social  == <<favorites, review, answered>>
gallery == <<images, primary>>
ghosts  == <<past, excused, owed, unset, crossed>>
vars    == <<row, copies, social, gallery, req, served, ghosts>>

-----------------------------------------------------------------------------
(* Rows and copies.                                                        *)

Statuses == {"DRAFT", "ACTIVE", "SUSPENDED", "ARCHIVED"}
Row      == [status : Statuses \cup {NONE}, deleted : BOOLEAN, approved : BOOLEAN,
             terms : Terms, favs : Int, rated : SUBSET Stays, ver : Nat]
Snapshot == [status : Statuses, ver : Nat]
Caches   == {"page", "list", "recommendations", "autocomplete", "dashboard", "analytics"}
Cached   == [shown : SUBSET Snapshot, ttl : BOOLEAN]

Exists  == row.status # NONE
Found   == Exists /\ ~row.deleted
Copy(p) == [status |-> p.status, ver |-> p.ver]
Live    == IF Found THEN {Copy(row)} ELSE {}

(* A statement that changes what the listing shows commits.                *)
Commit(p) ==
    /\ row' = [p EXCEPT !.ver = @ + 1]
    /\ past' = past \cup {Copy([p EXCEPT !.ver = @ + 1])}

-----------------------------------------------------------------------------
(* Requests.                                                               *)

DelPoints == {"del", "update_del", "remove_del"}
Points == DelPoints \cup
    {"idle", "cache_read", "cache_fill", "create_index", "update_write",
     "update_index", "amenities_write", "remove_write", "remove_doc",
     "reindex", "fav_create", "fav_delete", "fav_inc", "fav_dec",
     "review_insert", "review_commit", "respond_write", "insert", "reorder",
     "delete_row"}

Request == [pc : Points, cache : Caches \cup {NONE}, snap : SUBSET Snapshot,
            user : Users \cup {NONE}, stay : Stays \cup {NONE},
            by : {"guest", "host", NONE}, counted : SUBSET Stays,
            ids : SUBSET Images, first : BOOLEAN, main : Images \cup {NONE}]

Idle == [pc |-> "idle", cache |-> NONE, snap |-> {}, user |-> NONE, stay |-> NONE,
         by |-> NONE, counted |-> {}, ids |-> {}, first |-> FALSE, main |-> NONE]

At(r, p)    == req[r].pc = p
Goto(r, p)  == req' = [req EXCEPT ![r].pc = p]
Finish(r)   == req' = [req EXCEPT ![r] = Idle]
Start(r, q) == /\ At(r, "idle") /\ served < MaxRequests
               /\ served' = served + 1
               /\ req' = [req EXCEPT ![r] = q]

(* The server dies under the request, between two of its statements.       *)
Die(r) ==
    /\ ~At(r, "idle")
    /\ Finish(r)
    /\ excused' = (excused \/ req[r].pc \in DelPoints)
    /\ owed' = CASE At(r, "fav_inc") -> owed + 1
                 [] At(r, "fav_dec") -> owed - 1
                 [] OTHER -> owed
    /\ unset' = (unset \/ At(r, "reorder"))
    /\ UNCHANGED <<row, copies, social, gallery, served, past, crossed>>

(* RedisService.del logs a failure and goes on.                            *)
DropPage ==
    \/ cache' = [cache EXCEPT !["page"] = NONE] /\ UNCHANGED excused
    \/ excused' = TRUE /\ UNCHANGED cache

(* A key with a time to live runs out.                                     *)
Expire(c) ==
    /\ cache[c] # NONE /\ cache[c].ttl
    /\ cache' = [cache EXCEPT ![c] = NONE]
    /\ UNCHANGED <<row, doc, social, gallery, req, served, ghosts>>
=============================================================================
