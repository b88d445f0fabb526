--------------------------- MODULE StorefrontProofs ---------------------------
(***************************************************************************)
(* What the storefront keeps true in every instance, however many handlers *)
(* are in flight, wherever they die, and whatever Redis and Elasticsearch  *)
(* refuse.                                                                 *)
(***************************************************************************)
EXTENDS Storefront, FiniteSetTheorems, WellFoundedInduction, TLAPS

LEMMA ShopFacts ==
    /\ MaxImages \in Nat /\ MaxImages > 0 /\ MaxFiles \in Nat /\ MaxRequests \in Nat
    /\ Images \subseteq Nat /\ IsFiniteSet(Images)
    /\ IsFiniteSet(Reqs) /\ Reqs # {} /\ Terms # {}
    /\ NONE \notin Users /\ NONE \notin Stays /\ NONE \notin Images
    /\ NONE \notin Statuses /\ NONE # "guest" /\ NONE # "host" /\ NONE # "ACTIVE"
  BY ShopAssumption DEF Statuses

-----------------------------------------------------------------------------
(* Types.  A handler that will write to the row has found it, and one that *)
(* writes for a user, a stay or a cache was started for one.               *)

Writers == {"update_write", "amenities_write", "remove_write", "review_insert",
            "review_commit"}

Right(q) ==
    /\ q.pc \in Writers => Exists
    /\ q.pc \in {"fav_create", "fav_delete"} => q.user \in Users
    /\ q.pc \in {"review_insert", "review_commit"} =>
           q.stay \in Stays /\ q.by \in {"guest", "host"}
    /\ q.pc = "respond_write" => q.stay \in Stays
    /\ q.pc \in {"cache_read", "cache_fill"} => q.cache \in Caches

Underway == \A r \in Reqs : Right(req[r])

Sound == StorefrontTypeOK /\ Underway

(* The types of the requests, of what they hang on, and of the rest.       *)
SocialOK  == /\ favorites \subseteq Users /\ answered \subseteq Stays
             /\ review \in [Stays -> {"guest", "host", NONE}]
GalleryOK == images \subseteq Images /\ primary \subseteq images
CopiesOK  == cache \in [Caches -> Cached \cup {NONE}] /\ doc \in Snapshot \cup {NONE}
RowOK     == row \in Row /\ past \subseteq Snapshot
ReqOK     == req \in [Reqs -> Request] /\ served \in 0..MaxRequests
OtherOK   == /\ excused \in BOOLEAN /\ owed \in Int
             /\ unset \in BOOLEAN /\ crossed \subseteq Stays

LEMMA TypeParts ==
    StorefrontTypeOK <=>
        SocialOK /\ GalleryOK /\ CopiesOK /\ RowOK /\ ReqOK /\ OtherOK
  BY DEF StorefrontTypeOK, SocialOK, GalleryOK, CopiesOK, RowOK, ReqOK, OtherOK

LEMMA IdleOK ==
    /\ Idle \in Request /\ Right(Idle) /\ Idle.pc = "idle" /\ Idle.snap = {}
    /\ Idle.ids = {} /\ Idle.cache = NONE /\ Idle.counted = {} /\ Idle.stay = NONE
  BY DEF Idle, Request, Points, Right, Writers

(* What Goto, Finish and Start do to the requests.                         *)
Only(r) == \A q \in Reqs \ {r} : req'[q] = req[q]

LEMMA Went ==
    ASSUME ReqOK, NEW r \in Reqs, NEW p \in Points, Goto(r, p)
    PROVE  /\ req' \in [Reqs -> Request] /\ Only(r)
           /\ req'[r] = [req[r] EXCEPT !.pc = p] /\ req'[r].pc = p
           /\ req'[r].cache = req[r].cache /\ req'[r].snap = req[r].snap
           /\ req'[r].user = req[r].user /\ req'[r].stay = req[r].stay
           /\ req'[r].by = req[r].by /\ req'[r].counted = req[r].counted
           /\ req'[r].ids = req[r].ids /\ req'[r].first = req[r].first
           /\ req'[r].main = req[r].main
  <1>1. req \in [Reqs -> Request] /\ req[r] \in Request BY DEF ReqOK
  <1>2. req'[r] = [req[r] EXCEPT !.pc = p] /\ Only(r) BY <1>1 DEF Goto, Only
  <1>3. [req[r] EXCEPT !.pc = p] \in Request BY <1>1 DEF Request
  <1>4. req' \in [Reqs -> Request] BY <1>1, <1>3 DEF Goto
  <1> QED BY <1>1, <1>2, <1>3, <1>4 DEF Request

LEMMA Finished ==
    ASSUME ReqOK, NEW r \in Reqs, Finish(r)
    PROVE  req' \in [Reqs -> Request] /\ Only(r) /\ req'[r] = Idle
  BY IdleOK DEF ReqOK, Finish, Only

LEMMA Started ==
    ASSUME ReqOK, NEW r \in Reqs, NEW q \in Request, Start(r, q)
    PROVE  /\ req' \in [Reqs -> Request] /\ Only(r) /\ req'[r] = q
           /\ served' \in 0..MaxRequests /\ served' = served + 1 /\ served < MaxRequests
           /\ req[r].pc = "idle" /\ ReqOK'
  BY ShopFacts DEF ReqOK, Start, At, Only

(* A snapshot of a row that exists, and what a commit writes.              *)
LEMMA Copied ==
    ASSUME RowOK, Exists
    PROVE  Copy(row) \in Snapshot /\ row.status \in Statuses /\ row.ver \in Nat
  BY DEF RowOK, Row, Exists, Copy, Snapshot

LEMMA Committed ==
    ASSUME RowOK, NEW p \in Row, p.status \in Statuses, Commit(p)
    PROVE  /\ RowOK' /\ Exists' /\ Copy(row') \in Snapshot
           /\ row'.status = p.status /\ row'.deleted = p.deleted
           /\ row'.approved = p.approved /\ row'.terms = p.terms /\ row'.favs = p.favs
           /\ row'.rated = p.rated /\ row'.ver = p.ver + 1
           /\ past' = past \cup {Copy(row')}
  <1>1. p.ver \in Nat /\ p.ver + 1 \in Nat BY DEF Row
  <1>2. PICK n \in Nat : n = p.ver + 1 BY <1>1
  <1>3. row' = [p EXCEPT !.ver = n] BY <1>2 DEF Commit
  <1>4. row' \in Row BY <1>3 DEF Row
  <1>5. row'.status = p.status /\ row'.ver = n BY <1>3 DEF Row
  <1>6. Copy(row') = [status |-> p.status, ver |-> n] BY <1>5 DEF Copy
  <1>7. Copy(row') \in Snapshot BY <1>6 DEF Snapshot
  <1>8. past' = past \cup {Copy(row')} BY <1>2, <1>3 DEF Commit
  <1>9. Exists' BY <1>5, ShopFacts DEF Exists
  <1>10. RowOK' BY <1>4, <1>7, <1>8 DEF RowOK
  <1> QED BY <1>2, <1>3, <1>4, <1>5, <1>7, <1>8, <1>9, <1>10 DEF Row

LEMMA UnderwayKept ==
    ASSUME Underway, NEW r \in Reqs, Only(r), Exists => Exists', Right(req[r])'
    PROVE  Underway'
  <1> SUFFICES ASSUME NEW q \in Reqs PROVE Right(req[q])'
    BY DEF Underway
  <1>1. CASE q = r BY <1>1
  <1>2. CASE q # r
    <2>1. req'[q] = req[q] /\ Right(req[q]) BY <1>2 DEF Only, Underway
    <2> QED BY <2>1 DEF Right
  <1> QED BY <1>1, <1>2

LEMMA StillSound ==
    ASSUME Sound, NEW r \in Reqs, Only(r), Right(req[r])', RowOK', CopiesOK', ReqOK',
           excused' \in BOOLEAN, Exists => Exists', Still
    PROVE  Sound'
  <1>1. SocialOK' /\ GalleryOK' /\ OtherOK'
    BY TypeParts DEF Sound, Still, social, gallery, SocialOK, GalleryOK, OtherOK
  <1> QED BY <1>1, UnderwayKept, TypeParts DEF Sound, SocialOK, GalleryOK, CopiesOK,
             RowOK, ReqOK, OtherOK, StorefrontTypeOK

(* What the readers show are snapshots.                                    *)
LEMMA Sources ==
    ASSUME RowOK, CopiesOK
    PROVE  /\ Live \subseteq Snapshot /\ FindAll \subseteq Snapshot
           /\ \A c \in Caches : Source(c) \subseteq Snapshot
  <1>1. Live \subseteq Snapshot /\ Rows \subseteq Snapshot
    BY Copied DEF Live, Rows, Found
  <1>2. Document \subseteq Snapshot BY DEF Document, CopiesOK
  <1>3. \A S : Active(S) \subseteq S BY DEF Active
  <1> QED BY <1>1, <1>2, <1>3 DEF Source, Caches, FindOne, FindAll, GetRecommendations,
             Autocomplete, GetDashboardStats, GetHostAnalytics

LEMMA RowKept == ASSUME RowOK, UNCHANGED <<row, past>> PROVE RowOK' /\ (Exists => Exists')
  BY DEF RowOK, Exists

LEMMA CopiesKept == ASSUME CopiesOK, UNCHANGED copies PROVE CopiesOK'
  BY DEF CopiesOK, copies

LEMMA DropOK ==
    ASSUME CopiesOK, excused \in BOOLEAN, DropPage, UNCHANGED doc
    PROVE  CopiesOK' /\ excused' \in BOOLEAN
  BY DEF CopiesOK, DropPage

(* The requests that start in the catalog.                                 *)
LEMMA CatalogOpens ==
    /\ \A s \in Snapshot :
           LET q == [Idle EXCEPT !.pc = "create_index", !.snap = {s}]
           IN  q \in Request /\ q.pc = "create_index" /\ q.snap = {s}
                 /\ q.ids = {} /\ q.cache = NONE
    /\ \A p \in {"update_write", "amenities_write", "remove_write", "del"} :
           LET q == [Idle EXCEPT !.pc = p]
           IN  q \in Request /\ q.pc = p /\ q.snap = {} /\ q.ids = {} /\ q.cache = NONE
    /\ \A c \in Caches :
           LET q == [Idle EXCEPT !.pc = "cache_read", !.cache = c]
           IN  q \in Request /\ q.pc = "cache_read" /\ q.snap = {} /\ q.ids = {}
                 /\ q.cache = c
    /\ \A S \in SUBSET Snapshot :
           LET q == [Idle EXCEPT !.pc = "reindex", !.snap = S]
           IN  q \in Request /\ q.pc = "reindex" /\ q.snap = S /\ q.ids = {} /\ q.cache = NONE
  <1> QED BY DEF Idle, Request, Points, DelPoints

-----------------------------------------------------------------------------
(* The catalog keeps the types, and touches neither the counts nor what    *)
(* hangs on the row.                                                       *)

CatalogPoints == DelPoints \cup
    {"idle", "cache_read", "cache_fill", "create_index", "update_write",
     "update_index", "amenities_write", "remove_write", "remove_doc", "reindex"}

Among(r, P) == req[r].pc \in P /\ req'[r].pc \in P

Catalogued(r) ==
    /\ Only(r) /\ Among(r, CatalogPoints) /\ Still
    /\ req'[r].ids \subseteq req[r].ids
    /\ row'.favs = row.favs /\ row'.rated = row.rated

LEMMA CatalogSound ==
    ASSUME Sound, NEW r \in Reqs, CatalogStep(r)
    PROVE  Sound' /\ Catalogued(r)
  <1> USE DEF Catalogued, Among
  <1>0. /\ RowOK /\ CopiesOK /\ ReqOK /\ OtherOK /\ Right(req[r])
        /\ req \in [Reqs -> Request] /\ req[r] \in Request
    BY TypeParts DEF Sound, Underway, ReqOK
  <1>f. ASSUME Finish(r), At(r, "idle") \/ req[r].pc \in CatalogPoints,
               served' = served, RowOK', CopiesOK', excused' \in BOOLEAN,
               Exists => Exists', Still, row'.favs = row.favs, row'.rated = row.rated
        PROVE  Sound' /\ Catalogued(r)
    <2>1. req' \in [Reqs -> Request] /\ Only(r) /\ req'[r] = Idle BY <1>0, <1>f, Finished
    <2>2. Right(req[r])' BY <2>1, IdleOK DEF Right, Idle, Writers
    <2>3. ReqOK' BY <1>0, <1>f, <2>1 DEF ReqOK
    <2>4. Sound' BY <1>0, <1>f, <2>1, <2>2, <2>3, StillSound
    <2> QED BY <1>f, <2>1, <2>4, IdleOK DEF At, CatalogPoints
  <1>s. ASSUME NEW q \in Request, Start(r, q), q.pc \in CatalogPoints, q.ids = {},
               q.pc \in Writers => Exists', q.pc \in {"cache_read", "cache_fill"} => q.cache \in Caches,
               RowOK', CopiesOK', excused' \in BOOLEAN,
               Exists => Exists', Still, row'.favs = row.favs, row'.rated = row.rated
        PROVE  Sound' /\ Catalogued(r)
    <2>1. ReqOK' /\ Only(r) /\ req'[r] = q /\ req[r].pc = "idle" BY <1>0, <1>s, Started
    <2>2. Right(req[r])' BY <1>s, <2>1 DEF Right, Writers, CatalogPoints, DelPoints
    <2>3. Sound' BY <1>0, <1>s, <2>1, <2>2, StillSound
    <2> QED BY <1>s, <2>1, <2>3 DEF CatalogPoints
  <1>g. ASSUME NEW p \in CatalogPoints, Goto(r, p), req[r].pc \in CatalogPoints,
               p \notin Writers \cup {"cache_read", "cache_fill"},
               served' = served, RowOK', CopiesOK', excused' \in BOOLEAN,
               Exists => Exists', Still, row'.favs = row.favs, row'.rated = row.rated
        PROVE  Sound' /\ Catalogued(r)
    <2>0. p \in Points BY DEF CatalogPoints, Points
    <2>1. /\ req' \in [Reqs -> Request] /\ Only(r) /\ req'[r].pc = p
          /\ req'[r].ids = req[r].ids
      BY <1>0, <1>g, <2>0, Went
    <2>2. Right(req[r])' BY <1>g, <2>1 DEF Right, Writers, CatalogPoints, DelPoints
    <2>3. ReqOK' BY <1>0, <1>g, <2>1 DEF ReqOK
    <2>4. Sound' BY <1>0, <1>g, <2>1, <2>2, <2>3, StillSound
    <2> QED BY <1>g, <2>1, <2>4
  <1>k. ASSUME UNCHANGED <<row, past>> PROVE RowOK' /\ (Exists => Exists')
    BY <1>0, <1>k, RowKept
  <1>b. excused \in BOOLEAN BY <1>0 DEF OtherOK
  <1>1. ASSUME Create(r) PROVE Sound' /\ Catalogued(r)
    <2>1. PICK t \in Terms : Commit([row EXCEPT !.status = "DRAFT", !.terms = t])
      BY <1>1 DEF Create
    <2> DEFINE p == [row EXCEPT !.status = "DRAFT", !.terms = t]
    <2>2. p \in Row /\ p.status = "DRAFT" /\ p.favs = row.favs /\ p.rated = row.rated
      BY <1>0 DEF RowOK, Row, Statuses
    <2> HIDE DEF p
    <2>3. Commit(p) BY <2>1 DEF p
    <2>4. RowOK' /\ Exists' /\ Copy(row') \in Snapshot /\ row'.favs = row.favs
          /\ row'.rated = row.rated
      BY <1>0, <2>2, <2>3, Committed DEF Statuses
    <2>5. PICK q \in Request : q = [Idle EXCEPT !.pc = "create_index", !.snap = {Copy(row')}]
              /\ q.pc = "create_index" /\ q.ids = {}
      BY <2>4, CatalogOpens
    <2>6. Start(r, q) BY <1>1, <2>5 DEF Create
    <2> QED BY <1>0, <1>1, <1>b, <1>s, <2>4, <2>5, <2>6, CopiesKept
            DEF Create, CatalogPoints, Writers, copies
  <1>2. ASSUME NEW p \in CatalogPoints, IndexAt(r, p) PROVE Sound' /\ Catalogued(r)
    <2>1. req[r].snap \subseteq Snapshot BY <1>0 DEF Request
    <2>2. CopiesOK' BY <1>0, <1>2, <2>1 DEF IndexAt, IndexThem, CopiesOK
    <2> QED BY <1>2, <1>b, <1>f, <1>k, <2>2 DEF IndexAt, At
  <1>3. ASSUME NEW p \in {"update_write", "amenities_write", "remove_write", "del"},
               Start(r, [Idle EXCEPT !.pc = p]), p # "del" => Exists,
               UNCHANGED <<row, copies, past, excused>>, Still
        PROVE  Sound' /\ Catalogued(r)
    <2>1. PICK q \in Request : q = [Idle EXCEPT !.pc = p] /\ q.pc = p /\ q.ids = {}
      BY CatalogOpens
    <2>2. Start(r, q) BY <1>3, <2>1
    <2> QED BY <1>0, <1>3, <1>b, <1>k, <1>s, <2>1, <2>2, CopiesKept
            DEF CatalogPoints, DelPoints, Writers
  <1>4. ASSUME UpdateWrite(r) PROVE Sound' /\ Catalogued(r)
    <2>0. Exists BY <1>0, <1>4 DEF UpdateWrite, At, Right, Writers
    <2>1. PICK t \in Terms : Commit([row EXCEPT !.terms = t]) BY <1>4 DEF UpdateWrite
    <2> DEFINE p == [row EXCEPT !.terms = t]
    <2>2. /\ p \in Row /\ p.status = row.status /\ p.favs = row.favs
          /\ p.rated = row.rated
      BY <1>0 DEF RowOK, Row
    <2> HIDE DEF p
    <2>3. Commit(p) BY <2>1 DEF p
    <2>4. RowOK' /\ Exists' /\ Copy(row') \in Snapshot /\ row'.favs = row.favs
          /\ row'.rated = row.rated
      BY <1>0, <2>0, <2>2, <2>3, Committed, Copied
    <2>5. req' = [req EXCEPT ![r] = [req[r] EXCEPT !.pc = "update_del", !.snap = {Copy(row')}]]
      BY <1>0, <1>4 DEF UpdateWrite
    <2>6. [req[r] EXCEPT !.pc = "update_del", !.snap = {Copy(row')}] \in Request
      BY <1>0, <2>4 DEF Request, Points, DelPoints
    <2>7. req' \in [Reqs -> Request] /\ Only(r) BY <1>0, <2>5, <2>6 DEF Only
    <2>8. req'[r].pc = "update_del" /\ req'[r].ids = req[r].ids
      BY <1>0, <2>5, <2>6 DEF Request
    <2>9. Right(req[r])' BY <2>8 DEF Right, Writers
    <2>10. ReqOK' BY <1>0, <1>4, <2>7 DEF ReqOK, UpdateWrite
    <2>11. Sound'
      BY <1>0, <1>4, <1>b, <2>4, <2>7, <2>9, <2>10, CopiesKept, StillSound DEF UpdateWrite
    <2> QED BY <1>4, <2>4, <2>7, <2>8, <2>11 DEF UpdateWrite, At, CatalogPoints, DelPoints
  <1>5. ASSUME NEW p \in CatalogPoints, NEW n \in {"idle", "update_index", "remove_doc"},
               DelThen(r, p, n)
        PROVE  Sound' /\ Catalogued(r)
    <2>1. CopiesOK' /\ excused' \in BOOLEAN BY <1>0, <1>5, <1>b, DropOK DEF DelThen
    <2>2. CASE n = "idle" BY <1>5, <1>f, <1>k, <2>1, <2>2 DEF DelThen, At
    <2>3. CASE n # "idle"
      BY <1>5, <1>g, <1>k, <2>1, <2>3 DEF DelThen, At, CatalogPoints, Writers
    <2> QED BY <2>2, <2>3
  <1>6. ASSUME NEW p \in CatalogPoints, NEW n \in {"del", "remove_del"},
               NEW w \in Row, w.status \in Statuses, w.favs = row.favs, w.rated = row.rated,
               At(r, p), Commit(w), Goto(r, n), UNCHANGED <<copies, served, excused>>, Still
        PROVE  Sound' /\ Catalogued(r)
    <2>1. RowOK' /\ Exists' /\ row'.favs = row.favs /\ row'.rated = row.rated
      BY <1>0, <1>6, Committed
    <2> QED BY <1>0, <1>6, <1>b, <1>g, <2>1, CopiesKept
            DEF At, CatalogPoints, DelPoints, Writers
  <1>7. ASSUME AmenitiesWrite(r) PROVE Sound' /\ Catalogued(r)
    <2>1. row \in Row /\ row.status \in Statuses
      BY <1>0, <1>7, Copied DEF AmenitiesWrite, At, Right, Writers, RowOK
    <2> QED BY <1>6, <1>7, <2>1 DEF AmenitiesWrite, CatalogPoints
  <1>8. ASSUME RemoveWrite(r) PROVE Sound' /\ Catalogued(r)
    <2> DEFINE w == [row EXCEPT !.status = "ARCHIVED", !.deleted = TRUE]
    <2>1. /\ w \in Row /\ w.status \in Statuses /\ w.favs = row.favs
          /\ w.rated = row.rated
      BY <1>0 DEF RowOK, Row, Statuses
    <2>2. Commit(w) BY <1>8 DEF RemoveWrite
    <2> QED BY <1>6, <1>8, <2>1, <2>2 DEF RemoveWrite, CatalogPoints
  <1>9. ASSUME RemoveDoc(r) PROVE Sound' /\ Catalogued(r)
    <2>1. CopiesOK' BY <1>0, <1>9 DEF RemoveDoc, CopiesOK
    <2> QED BY <1>9, <1>b, <1>f, <1>k, <2>1 DEF RemoveDoc, At, CatalogPoints
  <1>10. ASSUME NEW w \in Row, w.status \in Statuses, w.favs = row.favs,
                w.rated = row.rated, Commit(w), Start(r, [Idle EXCEPT !.pc = "del"]),
                UNCHANGED <<copies, excused>>, Still
         PROVE  Sound' /\ Catalogued(r)
    <2>1. RowOK' /\ Exists' /\ row'.favs = row.favs /\ row'.rated = row.rated
      BY <1>0, <1>10, Committed
    <2>2. PICK q \in Request : q = [Idle EXCEPT !.pc = "del"] /\ q.pc = "del" /\ q.ids = {}
      BY CatalogOpens
    <2>3. Start(r, q) BY <1>10, <2>2
    <2> QED BY <1>0, <1>10, <1>b, <1>s, <2>1, <2>2, <2>3, CopiesKept
            DEF CatalogPoints, DelPoints, Writers
  <1>11. ASSUME Approve(r) PROVE Sound' /\ Catalogued(r)
    <2> DEFINE w == [row EXCEPT !.status = "ACTIVE", !.approved = TRUE]
    <2>1. /\ w \in Row /\ w.status \in Statuses /\ w.favs = row.favs
          /\ w.rated = row.rated
      BY <1>0 DEF RowOK, Row, Statuses
    <2>2. Commit(w) BY <1>11 DEF Approve
    <2> QED BY <1>10, <1>11, <2>1, <2>2 DEF Approve
  <1>12. ASSUME Suspend(r) PROVE Sound' /\ Catalogued(r)
    <2> DEFINE w == [row EXCEPT !.status = "SUSPENDED"]
    <2>1. /\ w \in Row /\ w.status \in Statuses /\ w.favs = row.favs
          /\ w.rated = row.rated
      BY <1>0 DEF RowOK, Row, Statuses
    <2>2. Commit(w) BY <1>12 DEF Suspend
    <2> QED BY <1>10, <1>12, <2>1, <2>2 DEF Suspend
  <1>13. ASSUME Miss(r) PROVE Sound' /\ Catalogued(r)
    <2>1. PICK c \in Caches : Start(r, [Idle EXCEPT !.pc = "cache_read", !.cache = c])
      BY <1>13 DEF Miss
    <2> DEFINE q == [Idle EXCEPT !.pc = "cache_read", !.cache = c]
    <2>2. q \in Request /\ q.pc = "cache_read" /\ q.ids = {} /\ q.cache = c
      BY CatalogOpens
    <2> HIDE DEF q
    <2>3. Start(r, q) BY <2>1 DEF q
    <2> QED BY <1>0, <1>13, <1>b, <1>k, <1>s, <2>2, <2>3, CopiesKept
            DEF Miss, CatalogPoints, Writers
  <1>14. ASSUME Read(r) PROVE Sound' /\ Catalogued(r)
    <2>0. CopiesOK' BY <1>0, <1>14, CopiesKept DEF Read
    <2>1. CASE Finish(r)
      BY <1>14, <1>b, <1>f, <1>k, <2>0, <2>1 DEF Read, At, CatalogPoints
    <2>2. CASE ~Finish(r)
      <3>1. PICK S \in SUBSET Source(req[r].cache) :
                req' = [req EXCEPT ![r].pc = "cache_fill", ![r].snap = S]
        BY <1>14, <2>2 DEF Read
      <3>2. req[r].cache \in Caches BY <1>0, <1>14 DEF Read, At, Right
      <3>3. S \subseteq Snapshot BY <1>0, <3>2, Sources
      <3>4. req' = [req EXCEPT ![r] = [req[r] EXCEPT !.pc = "cache_fill", !.snap = S]]
        BY <1>0, <3>1
      <3>5. [req[r] EXCEPT !.pc = "cache_fill", !.snap = S] \in Request
        BY <1>0, <3>3 DEF Request, Points
      <3>6. req' \in [Reqs -> Request] /\ Only(r) BY <1>0, <3>4, <3>5 DEF Only
      <3>7. req'[r].pc = "cache_fill" /\ req'[r].ids = req[r].ids
            /\ req'[r].cache = req[r].cache
        BY <1>0, <3>4, <3>5 DEF Request
      <3>8. Right(req[r])' BY <3>2, <3>7 DEF Right, Writers
      <3>9. ReqOK' BY <1>0, <1>14, <3>6 DEF ReqOK, Read
      <3>10. Sound'
        BY <1>0, <1>14, <1>b, <1>k, <2>0, <3>6, <3>8, <3>9, StillSound DEF Read
      <3> QED BY <1>14, <3>6, <3>7, <3>10 DEF Read, At, CatalogPoints
    <2> QED BY <2>1, <2>2
  <1>15. ASSUME Fill(r) PROVE Sound' /\ Catalogued(r)
    <2>1. Filled(req[r].snap) \in Cached BY <1>0 DEF Filled, Cached, Request
    <2>2. CopiesOK' BY <1>0, <1>15, <2>1 DEF Fill, CopiesOK
    <2>3. excused' \in BOOLEAN BY <1>15, <1>b DEF Fill, Fresh
    <2> QED BY <1>15, <1>f, <1>k, <2>2, <2>3 DEF Fill, At, CatalogPoints
  <1>16. ASSUME ReindexRead(r) PROVE Sound' /\ Catalogued(r)
    <2>1. PICK q \in Request : q = [Idle EXCEPT !.pc = "reindex", !.snap = FindAll]
              /\ q.pc = "reindex" /\ q.ids = {}
      BY <1>0, CatalogOpens, Sources
    <2>2. Start(r, q) BY <1>16, <2>1 DEF ReindexRead
    <2> QED BY <1>0, <1>16, <1>b, <1>k, <1>s, <2>1, <2>2, CopiesKept
            DEF ReindexRead, CatalogPoints, Writers
  <1>17. ASSUME CreateIndex(r) \/ UpdateIndex(r) \/ ReindexOne(r) PROVE Sound' /\ Catalogued(r)
    BY <1>2, <1>17 DEF CreateIndex, UpdateIndex, ReindexOne, CatalogPoints
  <1>18. ASSUME UpdateDel(r) \/ PageDel(r) \/ RemoveDel(r) PROVE Sound' /\ Catalogued(r)
    BY <1>5, <1>18 DEF UpdateDel, PageDel, RemoveDel, CatalogPoints, DelPoints
  <1>19. ASSUME UpdateRead(r) \/ AmenitiesRead(r) \/ RemoveRead(r) PROVE Sound' /\ Catalogued(r)
    BY <1>3, <1>19 DEF UpdateRead, AmenitiesRead, RemoveRead, Found
  <1> QED BY <1>1, <1>4, <1>7, <1>8, <1>9, <1>11, <1>12, <1>13, <1>14, <1>15, <1>16, <1>17,
             <1>18, <1>19 DEF CatalogStep

-----------------------------------------------------------------------------
(* Favorites and reviews leave the copies and the photos alone.            *)

FeedbackPoints == {"idle", "fav_create", "fav_delete", "fav_inc", "fav_dec",
                   "review_insert", "review_commit", "respond_write"}

Responded(r) ==
    /\ Only(r) /\ req[r].pc \in FeedbackPoints
    /\ req'[r].pc \in FeedbackPoints \cup {"del"}
    /\ UNCHANGED <<copies, gallery, excused, owed, unset>>
    /\ req'[r].ids \subseteq req[r].ids /\ req'[r].snap \subseteq req[r].snap

(* The requests that start here.                                           *)
Toggle(u, p) == [Idle EXCEPT !.user = u, !.pc = p]
Rate(s, by)  == [Idle EXCEPT !.pc = "review_insert", !.stay = s, !.by = by]
Respond(s)   == [Idle EXCEPT !.pc = "respond_write", !.stay = s]

LEMMA ToggleOpens ==
    ASSUME NEW u \in Users, NEW p \in {"fav_create", "fav_delete"}
    PROVE  /\ Toggle(u, p) \in Request /\ Toggle(u, p).pc = p
           /\ Toggle(u, p).user = u /\ Toggle(u, p).ids = {} /\ Toggle(u, p).snap = {}
  BY DEF Toggle, Idle, Request, Points

LEMMA RateOpens ==
    ASSUME NEW s \in Stays, NEW by \in {"guest", "host"}
    PROVE  /\ Rate(s, by) \in Request /\ Rate(s, by).pc = "review_insert"
           /\ Rate(s, by).stay = s /\ Rate(s, by).by = by
           /\ Rate(s, by).ids = {} /\ Rate(s, by).snap = {}
  BY DEF Rate, Idle, Request, Points

LEMMA RespondOpens ==
    ASSUME NEW s \in Stays
    PROVE  /\ Respond(s) \in Request /\ Respond(s).pc = "respond_write"
           /\ Respond(s).stay = s /\ Respond(s).ids = {} /\ Respond(s).snap = {}
  BY DEF Respond, Idle, Request, Points

LEMMA CountedStays ==
    ASSUME SocialOK, NEW r \in Reqs, req[r].stay \in Stays
    PROVE  Counted(r) \subseteq Stays
  BY DEF Counted, GuestReviews

LEMMA FeedbackSound ==
    ASSUME Sound, NEW r \in Reqs, FeedbackStep(r)
    PROVE  Sound' /\ Responded(r)
  <1> USE DEF Responded
  <1>0. /\ SocialOK /\ RowOK /\ CopiesOK /\ ReqOK /\ OtherOK /\ GalleryOK /\ Right(req[r])
        /\ req \in [Reqs -> Request] /\ req[r] \in Request /\ row \in Row
    BY TypeParts DEF Sound, Underway, ReqOK, RowOK
  <1>c. ASSUME UNCHANGED <<copies, gallery, excused, owed, unset>>, crossed' \subseteq Stays,
               SocialOK', RowOK', ReqOK', Exists => Exists', Only(r), Right(req[r])',
               req[r].pc \in FeedbackPoints, req'[r].pc \in FeedbackPoints \cup {"del"},
               req'[r].ids \subseteq req[r].ids, req'[r].snap \subseteq req[r].snap
        PROVE  Sound' /\ Responded(r)
    <2>1. GalleryOK' /\ CopiesOK' BY <1>0, <1>c, CopiesKept DEF GalleryOK, gallery
    <2>2. OtherOK' BY <1>0, <1>c DEF OtherOK
    <2>3. Underway' BY <1>0, <1>c, UnderwayKept DEF Sound
    <2>4. StorefrontTypeOK'
      BY <1>c, <2>1, <2>2 DEF StorefrontTypeOK, SocialOK, GalleryOK, CopiesOK, RowOK,
         ReqOK, OtherOK
    <2> QED BY <1>c, <2>3, <2>4 DEF Sound
  <1>f. ASSUME Finish(r), served' = served, req[r].pc \in FeedbackPoints,
               UNCHANGED <<copies, gallery, excused, owed, unset, crossed>>,
               SocialOK', RowOK', Exists => Exists'
        PROVE  Sound' /\ Responded(r)
    <2>1. req' \in [Reqs -> Request] /\ Only(r) /\ req'[r] = Idle BY <1>0, <1>f, Finished
    <2>2. Right(req[r])' BY <2>1, IdleOK DEF Right, Idle, Writers
    <2>3. ReqOK' BY <1>0, <1>f, <2>1 DEF ReqOK
    <2>4. crossed' \subseteq Stays BY <1>0, <1>f DEF OtherOK
    <2>5. req'[r].pc = "idle" /\ req'[r].ids = {} /\ req'[r].snap = {} BY <2>1, IdleOK
    <2> QED BY <1>c, <1>f, <2>1, <2>2, <2>3, <2>4, <2>5 DEF FeedbackPoints
  <1>s. ASSUME NEW q \in Request, Start(r, q), q.ids = {}, q.snap = {},
               q.pc \in FeedbackPoints, q.pc \in Writers => Exists,
               q.pc \in {"fav_create", "fav_delete"} => q.user \in Users,
               q.pc \in {"review_insert", "review_commit"} =>
                   q.stay \in Stays /\ q.by \in {"guest", "host"},
               q.pc = "respond_write" => q.stay \in Stays,
               UNCHANGED <<row, social>>, Aside
        PROVE  Sound' /\ Responded(r)
    <2>1. ReqOK' /\ Only(r) /\ req'[r] = q /\ req[r].pc = "idle" BY <1>0, <1>s, Started
    <2>2. Exists => Exists' BY <1>s DEF Exists
    <2>3. Right(req[r])' BY <1>s, <2>1, <2>2 DEF Right, FeedbackPoints
    <2>4. SocialOK' BY <1>0, <1>s DEF SocialOK, social
    <2>5. RowOK' BY <1>0, <1>s, RowKept DEF Aside
    <2>6. crossed' \subseteq Stays BY <1>0, <1>s DEF OtherOK, Aside
    <2> QED BY <1>c, <1>s, <2>1, <2>2, <2>3, <2>4, <2>5, <2>6 DEF Aside, FeedbackPoints
  <1>g. ASSUME NEW p \in {"fav_inc", "fav_dec"}, Goto(r, p), served' = served,
               req[r].pc \in FeedbackPoints, SocialOK', UNCHANGED row, Aside
        PROVE  Sound' /\ Responded(r)
    <2>0. p \in Points BY DEF Points
    <2>1. /\ req' \in [Reqs -> Request] /\ Only(r) /\ req'[r].pc = p
          /\ req'[r].ids = req[r].ids /\ req'[r].snap = req[r].snap
      BY <1>0, <1>g, <2>0, Went
    <2>2. Right(req[r])' BY <1>g, <2>1 DEF Right, Writers
    <2>3. ReqOK' BY <1>0, <1>g, <2>1 DEF ReqOK
    <2>4. RowOK' /\ (Exists => Exists') BY <1>0, <1>g, RowKept DEF Aside
    <2>5. crossed' \subseteq Stays BY <1>0, <1>g DEF OtherOK, Aside
    <2> QED BY <1>c, <1>g, <2>1, <2>2, <2>3, <2>4, <2>5 DEF Aside, FeedbackPoints
  <1>1. ASSUME FavRead(r) PROVE Sound' /\ Responded(r)
    <2>1. PICK u \in Users, p \in {"fav_create", "fav_delete"} : Start(r, Toggle(u, p))
      BY <1>1 DEF FavRead, Toggle
    <2> QED BY <1>1, <1>s, <2>1, ToggleOpens DEF FavRead, FeedbackPoints, Writers
  <1>2. ASSUME FavCreate(r) PROVE Sound' /\ Responded(r)
    <2>1. req[r].user \in Users /\ req[r].pc \in FeedbackPoints
      BY <1>0, <1>2 DEF FavCreate, At, Right, FeedbackPoints
    <2>2. SocialOK' BY <1>0, <1>2, <2>1 DEF FavCreate, SocialOK
    <2>3. RowOK' /\ (Exists => Exists') BY <1>0, <1>2, RowKept DEF FavCreate, Aside
    <2>4. CASE Finish(r) BY <1>2, <1>f, <2>1, <2>2, <2>3, <2>4 DEF FavCreate, Aside
    <2>5. CASE Goto(r, "fav_inc") BY <1>2, <1>g, <2>1, <2>2, <2>5 DEF FavCreate
    <2> QED BY <1>2, <2>4, <2>5 DEF FavCreate
  <1>3. ASSUME FavDelete(r) PROVE Sound' /\ Responded(r)
    <2>1. req[r].pc \in FeedbackPoints BY <1>3 DEF FavDelete, At, FeedbackPoints
    <2>2. SocialOK' BY <1>0, <1>3 DEF FavDelete, SocialOK
    <2>3. RowOK' /\ (Exists => Exists') BY <1>0, <1>3, RowKept DEF FavDelete, Aside
    <2>4. CASE Finish(r) BY <1>3, <1>f, <2>1, <2>2, <2>3, <2>4 DEF FavDelete, Aside
    <2>5. CASE Goto(r, "fav_dec") BY <1>3, <1>g, <2>1, <2>2, <2>5 DEF FavDelete
    <2> QED BY <1>3, <2>4, <2>5 DEF FavDelete
  <1>4. ASSUME FavCount(r) PROVE Sound' /\ Responded(r)
    <2>1. PICK n \in Int : row' = [row EXCEPT !.favs = n]
      <3>1. row.favs + 1 \in Int /\ row.favs - 1 \in Int BY <1>0 DEF Row
      <3>2. CASE At(r, "fav_inc") /\ row' = [row EXCEPT !.favs = row.favs + 1] BY <3>1, <3>2
      <3>3. CASE At(r, "fav_dec") /\ row' = [row EXCEPT !.favs = row.favs - 1] BY <3>1, <3>3
      <3> QED BY <1>4, <3>2, <3>3 DEF FavCount
    <2>2. row' \in Row /\ row'.status = row.status BY <1>0, <2>1 DEF Row
    <2>3. RowOK' /\ (Exists => Exists')
      BY <1>0, <1>4, <2>2 DEF FavCount, Aside, RowOK, Exists
    <2>4. SocialOK' BY <1>0, <1>4 DEF FavCount, SocialOK, social
    <2>5. req[r].pc \in FeedbackPoints BY <1>4 DEF FavCount, At, FeedbackPoints
    <2> QED BY <1>4, <1>f, <2>3, <2>4, <2>5 DEF FavCount, Aside
  <1>5. ASSUME ReviewRead(r) PROVE Sound' /\ Responded(r)
    <2>1. PICK s \in Stays, by \in {"guest", "host"} : Start(r, Rate(s, by))
      BY <1>5 DEF ReviewRead, Rate
    <2> QED BY <1>5, <1>s, <2>1, RateOpens DEF ReviewRead, FeedbackPoints, Writers
  <1>6. ASSUME ReviewInsert(r) PROVE Sound' /\ Responded(r)
    <2>1. /\ req[r].pc = "review_insert" /\ req[r].stay \in Stays
          /\ req[r].by \in {"guest", "host"} /\ Exists
      BY <1>0, <1>6 DEF ReviewInsert, At, Right, Writers
    <2>2. SocialOK' BY <1>0, <1>6 DEF ReviewInsert, SocialOK, social
    <2>3. RowOK' /\ (Exists => Exists') BY <1>0, <1>6, RowKept DEF ReviewInsert, Aside
    <2>4. CASE Finish(r)
      BY <1>6, <1>f, <2>1, <2>2, <2>3, <2>4 DEF ReviewInsert, Aside, FeedbackPoints
    <2>5. CASE ~Finish(r)
      <3>1. req' = [req EXCEPT ![r] =
                       [req[r] EXCEPT !.pc = "review_commit", !.counted = Counted(r)]]
        BY <1>0, <1>6, <2>5 DEF ReviewInsert
      <3>2. [req[r] EXCEPT !.pc = "review_commit", !.counted = Counted(r)] \in Request
        BY <1>0, <2>1, CountedStays DEF Request, Points
      <3>3. req' \in [Reqs -> Request] /\ Only(r) BY <1>0, <3>1, <3>2 DEF Only
      <3>4. /\ req'[r].pc = "review_commit" /\ req'[r].stay = req[r].stay
            /\ req'[r].by = req[r].by /\ req'[r].ids = req[r].ids
            /\ req'[r].snap = req[r].snap
        BY <1>0, <3>1, <3>2 DEF Request
      <3>5. Right(req[r])' BY <2>1, <2>3, <3>4 DEF Right
      <3>6. ReqOK' BY <1>0, <1>6, <3>3 DEF ReqOK, ReviewInsert
      <3>7. crossed' \subseteq Stays BY <1>0, <1>6 DEF OtherOK, Aside, ReviewInsert
      <3> QED BY <1>6, <1>c, <2>1, <2>2, <2>3, <3>3, <3>4, <3>5, <3>6, <3>7
              DEF ReviewInsert, Aside, FeedbackPoints
    <2> QED BY <2>4, <2>5
  <1>7. ASSUME ReviewCommit(r) PROVE Sound' /\ Responded(r)
    <2>1. /\ req[r].pc = "review_commit" /\ req[r].stay \in Stays
          /\ req[r].by \in {"guest", "host"} /\ Exists
      BY <1>0, <1>7 DEF ReviewCommit, At, Right, Writers
    <2>2. SocialOK' BY <1>0, <1>7, <2>1 DEF ReviewCommit, SocialOK
    <2>3. RowOK' /\ Exists'
      <3>1. CASE req[r].by = "guest"
        <4> DEFINE p == [row EXCEPT !.rated = req[r].counted]
        <4>1. p \in Row /\ p.status = row.status BY <1>0 DEF Row, Request
        <4>2. Commit(p) BY <1>7, <3>1 DEF ReviewCommit
        <4> QED BY <1>0, <2>1, <4>1, <4>2, Committed, Copied
      <3>2. CASE req[r].by # "guest"
        BY <1>0, <1>7, <2>1, <3>2, RowKept DEF ReviewCommit
      <3> QED BY <3>1, <3>2
    <2>4. "del" \in Points BY DEF Points, DelPoints
    <2>5. /\ req' \in [Reqs -> Request] /\ Only(r) /\ req'[r].pc = "del"
          /\ req'[r].ids = req[r].ids /\ req'[r].snap = req[r].snap
      BY <1>0, <1>7, <2>4, Went DEF ReviewCommit
    <2>6. Right(req[r])' BY <2>5 DEF Right, Writers
    <2>7. ReqOK' BY <1>0, <1>7, <2>5 DEF ReqOK, ReviewCommit
    <2>8. crossed' \subseteq Stays BY <1>0, <1>7, <2>1 DEF OtherOK, ReviewCommit
    <2>9. UNCHANGED <<copies, gallery, excused, owed, unset>>
      BY <1>7 DEF ReviewCommit
    <2> QED BY <1>c, <2>1, <2>2, <2>3, <2>5, <2>6, <2>7, <2>8, <2>9 DEF FeedbackPoints
  <1>8. ASSUME RespondRead(r) PROVE Sound' /\ Responded(r)
    <2>1. PICK s \in Stays : Start(r, Respond(s)) BY <1>8 DEF RespondRead, Respond
    <2> QED BY <1>8, <1>s, <2>1, RespondOpens DEF RespondRead, FeedbackPoints, Writers
  <1>9. ASSUME RespondWrite(r) PROVE Sound' /\ Responded(r)
    <2>1. req[r].stay \in Stays /\ req[r].pc \in FeedbackPoints
      BY <1>0, <1>9 DEF RespondWrite, At, Right, FeedbackPoints
    <2>2. SocialOK' BY <1>0, <1>9, <2>1 DEF RespondWrite, SocialOK
    <2>3. RowOK' /\ (Exists => Exists') BY <1>0, <1>9, RowKept DEF RespondWrite, Aside
    <2> QED BY <1>9, <1>f, <2>1, <2>2, <2>3 DEF RespondWrite, Aside
  <1> QED BY <1>1, <1>2, <1>3, <1>4, <1>5, <1>6, <1>7, <1>8, <1>9 DEF FeedbackStep

-----------------------------------------------------------------------------
(* The photos leave everything else alone.                                 *)

GalleryPoints == {"idle", "insert", "reorder", "delete_row"}

Pictured(r) ==
    /\ Only(r) /\ Among(r, GalleryPoints) /\ Apart
    /\ req'[r].snap \subseteq req[r].snap

(* The requests that start here.                                           *)
Adding(F)     == [Idle EXCEPT !.pc = "insert", !.ids = F, !.first = images = {}]
Sorting(L, i) == [Idle EXCEPT !.pc = "reorder", !.ids = L, !.main = i]
Dropping(i)   == [Idle EXCEPT !.pc = "delete_row", !.ids = {i}]

LEMMA AddingOpens ==
    ASSUME NEW F \in SUBSET Images
    PROVE  /\ Adding(F) \in Request /\ Adding(F).pc = "insert"
           /\ Adding(F).ids = F /\ Adding(F).snap = {}
  <1>1. PICK b \in BOOLEAN : b = (images = {}) OBVIOUS
  <1>2. Adding(F) = [Idle EXCEPT !.pc = "insert", !.ids = F, !.first = b] BY <1>1 DEF Adding
  <1> QED BY <1>2 DEF Idle, Request, Points

LEMMA SortingOpens ==
    ASSUME NEW L \in SUBSET Images, NEW i \in Images
    PROVE  /\ Sorting(L, i) \in Request /\ Sorting(L, i).pc = "reorder"
           /\ Sorting(L, i).ids = L /\ Sorting(L, i).snap = {}
  BY DEF Sorting, Idle, Request, Points

LEMMA DroppingOpens ==
    ASSUME NEW i \in Images
    PROVE  /\ Dropping(i) \in Request /\ Dropping(i).pc = "delete_row"
           /\ Dropping(i).ids = {i} /\ Dropping(i).snap = {}
  BY DEF Dropping, Idle, Request, Points

LEMMA GallerySound ==
    ASSUME Sound, NEW r \in Reqs, GalleryStep(r)
    PROVE  Sound' /\ Pictured(r)
  <1> USE DEF Pictured, Among
  <1>0. /\ SocialOK /\ RowOK /\ CopiesOK /\ ReqOK /\ OtherOK /\ GalleryOK
        /\ req \in [Reqs -> Request] /\ req[r] \in Request /\ req[r].ids \subseteq Images
    BY TypeParts DEF Sound, ReqOK, Request
  <1>c. ASSUME Apart, GalleryOK', ReqOK', Only(r), req[r].pc \in GalleryPoints,
               req'[r].pc \in GalleryPoints, req'[r].snap \subseteq req[r].snap,
               unset' \in BOOLEAN
        PROVE  Sound' /\ Pictured(r)
    <2>1. RowOK' /\ CopiesOK' /\ (Exists => Exists')
      BY <1>0, <1>c, RowKept, CopiesKept DEF Apart
    <2>2. SocialOK' BY <1>0, <1>c DEF SocialOK, social, Apart
    <2>3. OtherOK' BY <1>0, <1>c DEF OtherOK, Apart
    <2>4. Right(req[r])' BY <1>c DEF Right, Writers, GalleryPoints
    <2>5. Underway' BY <1>0, <1>c, <2>1, <2>4, UnderwayKept DEF Sound
    <2>6. StorefrontTypeOK'
      BY <1>c, <2>1, <2>2, <2>3 DEF StorefrontTypeOK, SocialOK, GalleryOK, CopiesOK,
         RowOK, ReqOK, OtherOK
    <2> QED BY <1>c, <2>5, <2>6 DEF Sound
  <1>f. ASSUME Finish(r), served' = served, req[r].pc \in GalleryPoints, Apart, GalleryOK',
               unset' \in BOOLEAN
        PROVE  Sound' /\ Pictured(r)
    <2>1. req' \in [Reqs -> Request] /\ Only(r) /\ req'[r] = Idle BY <1>0, <1>f, Finished
    <2>2. ReqOK' BY <1>0, <1>f, <2>1 DEF ReqOK
    <2>3. req'[r].pc = "idle" /\ req'[r].snap = {} BY <2>1, IdleOK
    <2> QED BY <1>c, <1>f, <2>1, <2>2, <2>3 DEF GalleryPoints
  <1>s. ASSUME NEW q \in Request, Start(r, q), q.pc \in GalleryPoints, q.snap = {}, Apart,
               GalleryOK', unset' \in BOOLEAN
        PROVE  Sound' /\ Pictured(r)
    <2>1. ReqOK' /\ Only(r) /\ req'[r] = q /\ req[r].pc = "idle" BY <1>0, <1>s, Started
    <2> QED BY <1>c, <1>s, <2>1 DEF GalleryPoints
  <1>u. unset' \in BOOLEAN
    BY <1>0 DEF OtherOK, GalleryStep, AddRead, Insert, ReorderStart, ReorderOne, SetPrimary,
       DeleteRead, DeleteRow, Reordering
  <1>k. ASSUME UNCHANGED gallery PROVE GalleryOK' BY <1>0, <1>k DEF GalleryOK, gallery
  <1>1. ASSUME AddRead(r) PROVE Sound' /\ Pictured(r)
    <2>1. PICK F \in SUBSET Free : Start(r, Adding(F)) BY <1>1 DEF AddRead, Adding
    <2>2. F \in SUBSET Images BY DEF Free
    <2> QED BY <1>1, <1>k, <1>s, <1>u, <2>1, <2>2, AddingOpens DEF AddRead, GalleryPoints
  <1>3. ASSUME Insert(r) PROVE Sound' /\ Pictured(r)
    <2>1. GalleryOK' BY <1>0, <1>3 DEF Insert, GalleryOK
    <2> QED BY <1>3, <1>f, <1>u, <2>1 DEF Insert, At, GalleryPoints
  <1>4. ASSUME ReorderStart(r) PROVE Sound' /\ Pictured(r)
    <2>1. PICK L \in SUBSET images, i \in images : Start(r, Sorting(L, i))
      BY <1>4 DEF ReorderStart, Sorting
    <2>2. L \in SUBSET Images /\ i \in Images BY <1>0 DEF GalleryOK
    <2> DEFINE q == Sorting(L, i)
    <2>3. q \in Request /\ q.pc = "reorder" /\ q.snap = {} BY <2>2, SortingOpens
    <2>4. Start(r, q) BY <2>1
    <2> HIDE DEF q
    <2> QED BY <1>4, <1>k, <1>s, <1>u, <2>3, <2>4 DEF ReorderStart, GalleryPoints
  <1>5. ASSUME ReorderOne(r) PROVE Sound' /\ Pictured(r)
    <2>1. PICK i \in req[r].ids :
              /\ primary' = IF i = req[r].main /\ i \in images THEN primary \cup {i}
                            ELSE primary \ {i}
              /\ Finish(r) \/ req' = [req EXCEPT ![r].ids = @ \ {i}]
      BY <1>5 DEF ReorderOne
    <2>2. GalleryOK' BY <1>0, <1>5, <2>1 DEF ReorderOne, GalleryOK
    <2>3. CASE Finish(r) BY <1>5, <1>f, <1>u, <2>2, <2>3 DEF ReorderOne, At, GalleryPoints
    <2>4. CASE req' = [req EXCEPT ![r].ids = @ \ {i}]
      <3>1. req' = [req EXCEPT ![r] = [req[r] EXCEPT !.ids = req[r].ids \ {i}]]
        BY <1>0, <2>4
      <3>2. [req[r] EXCEPT !.ids = req[r].ids \ {i}] \in Request BY <1>0 DEF Request
      <3>3. req' \in [Reqs -> Request] /\ Only(r) BY <1>0, <3>1, <3>2 DEF Only
      <3>4. req'[r].pc = req[r].pc /\ req'[r].snap = req[r].snap
        BY <1>0, <3>1, <3>2 DEF Request
      <3>5. ReqOK' BY <1>0, <1>5, <3>3 DEF ReqOK, ReorderOne
      <3> QED BY <1>5, <1>c, <1>u, <2>2, <3>3, <3>4, <3>5 DEF ReorderOne, At, GalleryPoints
    <2> QED BY <2>1, <2>3, <2>4
  <1>6. ASSUME SetPrimary(r) PROVE Sound' /\ Pictured(r)
    <2>1. GalleryOK' BY <1>0, <1>6 DEF SetPrimary, GalleryOK
    <2>2. Start(r, Idle) /\ Apart BY <1>6 DEF SetPrimary
    <2>3. Idle.pc \in GalleryPoints BY IdleOK DEF GalleryPoints
    <2> QED BY <1>s, <1>u, <2>1, <2>2, <2>3, IdleOK
  <1>7. ASSUME DeleteRead(r) PROVE Sound' /\ Pictured(r)
    <2>1. PICK i \in images : Start(r, Dropping(i)) BY <1>7 DEF DeleteRead, Dropping
    <2>2. i \in Images BY <1>0 DEF GalleryOK
    <2> QED BY <1>7, <1>k, <1>s, <1>u, <2>1, <2>2, DroppingOpens DEF DeleteRead, GalleryPoints
  <1>9. ASSUME DeleteRow(r) PROVE Sound' /\ Pictured(r)
    <2>1. GalleryOK' BY <1>0, <1>9 DEF DeleteRow, GalleryOK
    <2> QED BY <1>9, <1>f, <1>u, <2>1 DEF DeleteRow, At, GalleryPoints
  <1> QED BY <1>1, <1>3, <1>4, <1>5, <1>6, <1>7, <1>9 DEF GalleryStep

-----------------------------------------------------------------------------
(* A death of the server and the end of a key.                             *)

LEMMA DieSound ==
    ASSUME Sound, NEW r \in Reqs, Die(r)
    PROVE  /\ Sound' /\ Only(r) /\ req'[r] = Idle /\ req[r].pc # "idle"
           /\ UNCHANGED <<row, copies, social, gallery, past, crossed>>
  <1>0. /\ SocialOK /\ RowOK /\ CopiesOK /\ ReqOK /\ OtherOK /\ GalleryOK
        /\ req[r] \in Request
    BY TypeParts DEF Sound, ReqOK
  <1>1. req' \in [Reqs -> Request] /\ Only(r) /\ req'[r] = Idle
    BY <1>0, Finished DEF Die
  <1>2. ReqOK' BY <1>0, <1>1 DEF ReqOK, Die
  <1>3. RowOK' /\ CopiesOK' /\ (Exists => Exists')
    BY <1>0, RowKept, CopiesKept DEF Die
  <1>4. SocialOK' /\ GalleryOK' BY <1>0 DEF SocialOK, GalleryOK, social, gallery, Die
  <1>5. OtherOK'
    <2>1. excused' \in BOOLEAN BY <1>0 DEF OtherOK, Die
    <2>2. owed' \in Int BY <1>0 DEF OtherOK, Die
    <2>3. unset' \in BOOLEAN BY <1>0 DEF OtherOK, Die
    <2>4. crossed' \subseteq Stays BY <1>0 DEF OtherOK, Die
    <2> QED BY <2>1, <2>2, <2>3, <2>4 DEF OtherOK
  <1>6. Right(req[r])' BY <1>1, IdleOK DEF Right, Writers
  <1>7. Underway' BY <1>1, <1>3, <1>6, UnderwayKept DEF Sound
  <1>8. StorefrontTypeOK'
    BY <1>2, <1>3, <1>4, <1>5 DEF StorefrontTypeOK, SocialOK, GalleryOK, CopiesOK, RowOK,
       ReqOK, OtherOK
  <1> QED BY <1>1, <1>7, <1>8 DEF Sound, Die, At

LEMMA ExpireSound ==
    ASSUME Sound, NEW c \in Caches, Expire(c) PROVE Sound'
  <1>0. CopiesOK BY TypeParts DEF Sound
  <1>1. CopiesOK' BY <1>0 DEF CopiesOK, Expire
  <1> QED BY <1>1 DEF Sound, StorefrontTypeOK, CopiesOK, Underway, Right, Exists, Expire,
             social, gallery, ghosts

LEMMA StutterSound == ASSUME Sound, UNCHANGED vars PROVE Sound'
  BY DEF Sound, StorefrontTypeOK, Underway, Right, Exists, vars, copies, social, gallery,
     ghosts

LEMMA InitSound == ASSUME Init PROVE Sound
  <1>1. Unlisted.terms \in Terms /\ 0 \in Int BY ShopFacts DEF Unlisted
  <1>2. Unlisted \in Row BY <1>1 DEF Unlisted, Row
  <1>3. [Unlisted EXCEPT !.status = "ACTIVE", !.approved = TRUE] \in Row
    BY <1>2 DEF Row, Statuses
  <1>4. row \in Row BY <1>2, <1>3 DEF Init
  <1>5. doc \in Snapshot \cup {NONE} /\ past \subseteq Snapshot
    <2>1. CASE doc = NONE /\ past = {} BY <2>1
    <2>2. CASE /\ row = [Unlisted EXCEPT !.status = "ACTIVE", !.approved = TRUE]
               /\ doc = Copy(row) /\ past = {doc}
      <3>1. Exists BY <2>2, ShopFacts DEF Exists, Unlisted
      <3>2. Copy(row) \in Snapshot
        BY <1>4, <3>1 DEF Copy, Exists, Row, Snapshot
      <3> QED BY <2>2, <3>2
    <2> QED BY <2>1, <2>2 DEF Init
  <1>6. images \subseteq Images BY DEF Init
  <1>7. req \in [Reqs -> Request] /\ \A r \in Reqs : req[r] = Idle BY IdleOK DEF Init
  <1>8. Underway BY <1>7, IdleOK DEF Underway
  <1>9. served \in 0..MaxRequests BY ShopFacts DEF Init
  <1>10. GalleryOK /\ RowOK /\ ReqOK
    BY <1>4, <1>5, <1>6, <1>7, <1>9 DEF GalleryOK, RowOK, ReqOK, Init
  <1>11. SocialOK BY DEF SocialOK, Init
  <1>12. CopiesOK /\ OtherOK BY <1>1, <1>5 DEF CopiesOK, OtherOK, Init
  <1> QED BY <1>8, <1>10, <1>11, <1>12, TypeParts DEF Sound

LEMMA NextSound == ASSUME Sound, [Next]_vars PROVE Sound'
  BY CatalogSound, FeedbackSound, GallerySound, DieSound, ExpireSound, StutterSound DEF Next

(* Rows, copies, requests and what hangs on the listing have their types,  *)
(* the primary photo is among the photos, and a handler that is to write   *)
(* has found the row it writes to.                                         *)
LEMMA SoundHolds == Spec => []Sound
  <1> QED BY InitSound, NextSound, PTL DEF Spec

(* properties, search, reviews and files: rows, copies and requests have   *)
(* their types, in every instance.                                         *)
THEOREM StorefrontTypesHold == Spec => []StorefrontTypeOK
  BY SoundHolds, PTL DEF Sound

-----------------------------------------------------------------------------
(* Photos.  The files of an upload are nobody else's until their rows are  *)
(* inserted.  As long as nothing that unset says has happened, a listing   *)
(* with photos has a safe one, a primary photo no reordering will demote,  *)
(* or a sole reordering that has yet to promote its own; and one without   *)
(* photos gets its primary one from any upload under way.                  *)

New(r) == req[r].pc = "insert"

OwnFiles == \A r \in Reqs : New(r) =>
                /\ req[r].ids # {} /\ req[r].ids \cap images = {}
                /\ \A q \in Reqs \ {r} : req[r].ids \cap req[q].ids = {}

Safe(i) == i \in primary /\ \A q \in Reqs :
               At(q, "reorder") => i \notin req[q].ids \/ i = req[q].main
Sole(r) == /\ At(r, "reorder") /\ req[r].main \in req[r].ids \cap images
           /\ \A q \in Reqs \ {r} : ~At(q, "reorder")

Empty   == images = {} /\ \A r \in Reqs : New(r) => req[r].first
SomeOne == \E i \in primary : Safe(i)
OneSoon == \E r \in Reqs : Sole(r)
Named   == unset \/ Empty \/ SomeOne \/ OneSoon

(* Steps that bring no photo, nor start an upload.                         *)
LEMMA OwnAside ==
    ASSUME OwnFiles, NEW r \in Reqs, Only(r), images' \subseteq images,
           req'[r].ids \subseteq req[r].ids \cup images, ~New(r)'
    PROVE  OwnFiles'
  <1> SUFFICES ASSUME NEW p \in Reqs, New(p)'
               PROVE  /\ req'[p].ids # {} /\ req'[p].ids \cap images' = {}
                      /\ \A q \in Reqs \ {p} : req'[p].ids \cap req'[q].ids = {}
    BY DEF OwnFiles
  <1>1. p # r OBVIOUS
  <1>2. req'[p] = req[p] /\ New(p) BY <1>1 DEF Only, New, At
  <1>3. req[p].ids # {} /\ req[p].ids \cap images = {} BY <1>2 DEF OwnFiles
  <1>4. ASSUME NEW q \in Reqs \ {p} PROVE req'[p].ids \cap req'[q].ids = {}
    <2>1. req[p].ids \cap req[q].ids = {} BY <1>2 DEF OwnFiles
    <2>2. req'[q].ids \subseteq req[q].ids \cup images BY DEF Only
    <2> QED BY <1>2, <1>3, <2>1, <2>2
  <1> QED BY <1>2, <1>3, <1>4

(* Steps that no reordering and no photo notices.                          *)
LEMMA NamedAside ==
    ASSUME Named, NEW r \in Reqs, Only(r), UNCHANGED <<images, primary>>,
           unset => unset', ~At(r, "reorder"), ~At(r, "reorder")',
           New(r)' => images # {} \/ req'[r].first
    PROVE  Named'
  <1>1. \A q \in Reqs : At(q, "reorder")' => At(q, "reorder") /\ q # r /\ req'[q] = req[q]
    BY DEF At, Only
  <1>2. CASE unset BY <1>2 DEF Named
  <1>3. CASE Empty
    <2>1. \A q \in Reqs \ {r} : New(q)' => req'[q].first BY <1>3 DEF Empty, New, At, Only
    <2>2. New(r)' => req'[r].first BY <1>3 DEF Empty
    <2> QED BY <1>3, <2>1, <2>2 DEF Empty, Named
  <1>4. ASSUME SomeOne PROVE Named'
    <2>1. PICK i \in primary : Safe(i) BY <1>4 DEF SomeOne
    <2>2. i \in primary' /\ Safe(i)' BY <1>1, <2>1 DEF Safe
    <2> QED BY <2>2 DEF SomeOne, Named
  <1>5. ASSUME OneSoon PROVE Named'
    <2>1. PICK p \in Reqs : Sole(p) BY <1>5 DEF OneSoon
    <2>2. p # r BY <2>1 DEF Sole
    <2>3. Sole(p)' BY <1>1, <2>1, <2>2 DEF Sole, Only, At
    <2> QED BY <2>3 DEF OneSoon, Named
  <1> QED BY <1>2, <1>3, <1>4, <1>5 DEF Named

(* The files of a new upload are its own.                                  *)
LEMMA OwnAdded ==
    ASSUME Sound, OwnFiles, NEW r \in Reqs, AddRead(r)
    PROVE  OwnFiles' /\ Only(r) /\ req'[r].first = (images = {}) /\ req[r].pc = "idle"
  <1>0. ReqOK BY TypeParts DEF Sound
  <1>1. PICK F \in SUBSET Free : F # {} /\ Start(r, Adding(F)) BY DEF AddRead, Adding
  <1>2. F \in SUBSET Images BY DEF Free
  <1> DEFINE s == Adding(F)
  <1>3. s \in Request /\ s.ids = F BY <1>2, AddingOpens
  <1>4. s.first = (images = {}) BY DEF Adding, Idle
  <1>5. Start(r, s) BY <1>1
  <1> HIDE DEF s
  <1>6. req'[r] = s /\ Only(r) /\ req[r].pc = "idle" BY <1>0, <1>3, <1>5, Started
  <1>7. images' = images BY DEF AddRead, gallery
  <1>8. F \cap images = {} /\ \A q \in Reqs : F \cap req[q].ids = {} BY DEF Free
  <1>9. OwnFiles'
    <2> SUFFICES ASSUME NEW p \in Reqs, New(p)'
                 PROVE  /\ req'[p].ids # {} /\ req'[p].ids \cap images' = {}
                        /\ \A q \in Reqs \ {p} : req'[p].ids \cap req'[q].ids = {}
      BY DEF OwnFiles
    <2>1. CASE p = r BY <1>1, <1>3, <1>6, <1>7, <1>8, <2>1 DEF Only
    <2>2. CASE p # r
      <3>1. req'[p] = req[p] /\ New(p) BY <1>6, <2>2 DEF Only, New, At
      <3> QED BY <1>3, <1>6, <1>7, <1>8, <2>2, <3>1 DEF OwnFiles, Only
    <2> QED BY <2>1, <2>2
  <1> QED BY <1>4, <1>6, <1>9

(* An upload is done: the photos are in nobody's hands.                    *)
LEMMA OwnInserted ==
    ASSUME Sound, OwnFiles, NEW r \in Reqs, Insert(r)
    PROVE  OwnFiles'
  <1>0. ReqOK BY TypeParts DEF Sound
  <1>1. req'[r] = Idle /\ Only(r) /\ New(r) BY <1>0, Finished DEF Insert, New, At
  <1>2. images' = images \cup req[r].ids BY DEF Insert
  <1> SUFFICES ASSUME NEW p \in Reqs, New(p)'
               PROVE  /\ req'[p].ids # {} /\ req'[p].ids \cap images' = {}
                      /\ \A q \in Reqs \ {p} : req'[p].ids \cap req'[q].ids = {}
    BY DEF OwnFiles
  <1>3. p # r BY <1>1, IdleOK DEF New, At
  <1>4. req'[p] = req[p] /\ New(p) BY <1>1, <1>3 DEF Only, New, At
  <1>5. /\ req[p].ids # {} /\ req[p].ids \cap images = {}
        /\ req[p].ids \cap req[r].ids = {}
    BY <1>1, <1>3, <1>4 DEF OwnFiles
  <1>6. ASSUME NEW q \in Reqs \ {p} PROVE req'[p].ids \cap req'[q].ids = {}
    <2>1. req'[q].ids \subseteq req[q].ids BY <1>1, IdleOK DEF Only
    <2> QED BY <1>4, <2>1 DEF OwnFiles
  <1> QED BY <1>2, <1>4, <1>5, <1>6

(* Among photos there is a first.                                          *)
LEMMA LeastPhoto ==
    ASSUME NEW F \in SUBSET Images, F # {}
    PROVE  \E i \in F : \A j \in F : i <= j
  <1> DEFINE Below(i) == {j \in F : j < i}
             T        == {Below(i) : i \in F}
  <1>1. IsFiniteSet(F) /\ F \subseteq Nat BY ShopFacts, FS_Subset
  <1>2. T # {} /\ T \subseteq FiniteSubsetsOf(F)
    <2>1. \A i \in F : Below(i) \in SUBSET F OBVIOUS
    <2>2. \A X \in SUBSET F : X \in FiniteSubsetsOf(F) BY <1>1, FS_FiniteSubsetsOfFinite
    <2> QED BY <2>1, <2>2
  <1>3. PICK X \in T : \A Y \in T : ~(<<Y, X>> \in StrictSubsetOrdering(F))
    <2> HIDE DEF T
    <2> QED BY <1>1, <1>2, FS_StrictSubsetOrderingWellFounded, WFMin
  <1>4. PICK i \in F : X = Below(i) BY <1>3
  <1>5. ASSUME NEW j \in F, j < i PROVE FALSE
    <2>1. /\ Below(j) \in T /\ Below(j) \in SUBSET F /\ Below(i) \in SUBSET F
          /\ j \in Below(i) /\ j \notin Below(j)
      BY <1>1, <1>5
    <2>2. Below(j) \subseteq Below(i)
      <3> SUFFICES ASSUME NEW k \in F, k < j PROVE k < i OBVIOUS
      <3>1. i \in Nat /\ j \in Nat /\ k \in Nat BY <1>1
      <3> QED BY <1>5, <3>1
    <2>3. <<Below(j), Below(i)>> \in StrictSubsetOrdering(F)
      BY <2>1, <2>2 DEF StrictSubsetOrdering
    <2> QED BY <1>3, <1>4, <2>1, <2>3
  <1>6. \A j \in F : i <= j
    <2> TAKE j \in F
    <2>1. i \in Nat /\ j \in Nat /\ ~(j < i) BY <1>1, <1>5
    <2> QED BY <2>1
  <1> QED BY <1>6

(* The first photo of the first upload is the primary one.                 *)
LEMMA InsertNames ==
    ASSUME Sound, OwnFiles, Named, NEW r \in Reqs, Insert(r)
    PROVE  Named'
  <1>0. /\ ReqOK /\ GalleryOK /\ req[r].ids \subseteq Images
    BY TypeParts DEF Sound, ReqOK, Request
  <1>1. req'[r] = Idle /\ Only(r) /\ New(r) BY <1>0, Finished DEF Insert, New, At
  <1>2. /\ images' = images \cup req[r].ids /\ unset' = (unset /\ ~req[r].first)
        /\ primary \subseteq primary'
    BY DEF Insert
  <1>3. \A q \in Reqs : At(q, "reorder")' => At(q, "reorder") /\ q # r /\ req'[q] = req[q]
    BY <1>1, IdleOK DEF At, Only
  <1>4. ASSUME req[r].first PROVE Named'
    <2>1. req[r].ids # {} /\ req[r].ids \in SUBSET Images BY <1>0, <1>1 DEF OwnFiles
    <2>2. PICK i \in req[r].ids : \A j \in req[r].ids : i <= j BY <2>1, LeastPhoto
    <2>3. i \in primary' BY <1>4, <2>2 DEF Insert
    <2>4. \A q \in Reqs \ {r} : i \notin req[q].ids BY <1>1 DEF OwnFiles
    <2>5. Safe(i)' BY <1>3, <2>3, <2>4 DEF Safe
    <2> QED BY <2>3, <2>5 DEF SomeOne, Named
  <1>5. ASSUME ~req[r].first PROVE Named'
    <2>1. (unset => unset') /\ ~Empty BY <1>1, <1>2, <1>5 DEF Empty
    <2>2. CASE unset BY <2>1, <2>2 DEF Named
    <2>3. ASSUME SomeOne PROVE Named'
      <3>1. PICK i \in primary : Safe(i) BY <2>3 DEF SomeOne
      <3>2. i \in primary' /\ Safe(i)' BY <1>2, <1>3, <3>1 DEF Safe
      <3> QED BY <3>2 DEF SomeOne, Named
    <2>4. ASSUME OneSoon PROVE Named'
      <3>1. PICK p \in Reqs : Sole(p) BY <2>4 DEF OneSoon
      <3>2. p # r BY <1>1, <3>1 DEF Sole, New, At
      <3>3. Sole(p)' BY <1>1, <1>2, <1>3, <3>1, <3>2 DEF Sole, Only, At
      <3> QED BY <3>3 DEF OneSoon, Named
    <2> QED BY <2>1, <2>2, <2>3, <2>4 DEF Named
  <1> QED BY <1>4, <1>5

(* A reordering that meets no other one is the sole one.                   *)
LEMMA ReorderNames ==
    ASSUME Sound, OwnFiles, Named, NEW r \in Reqs, ReorderStart(r)
    PROVE  OwnFiles' /\ Named'
  <1>0. ReqOK /\ GalleryOK BY TypeParts DEF Sound
  <1>1. PICK L \in SUBSET images, i \in images : i \in L /\ Start(r, Sorting(L, i))
    BY DEF ReorderStart, Sorting
  <1>2. L \in SUBSET Images /\ i \in Images BY <1>0 DEF GalleryOK
  <1> DEFINE s == Sorting(L, i)
  <1>3. s \in Request /\ s.pc = "reorder" /\ s.ids = L BY <1>2, SortingOpens
  <1>4. s.main = i BY DEF Sorting, Idle
  <1>5. Start(r, s) BY <1>1
  <1> HIDE DEF s
  <1>6. req'[r] = s /\ Only(r) BY <1>0, <1>3, <1>5, Started
  <1>7. UNCHANGED <<images, primary>> /\ unset' = Reordering BY DEF ReorderStart, gallery
  <1>8. OwnFiles' BY <1>3, <1>6, <1>7, OwnAside DEF New, At
  <1>9. ASSUME Reordering PROVE Named' BY <1>7, <1>9 DEF Named
  <1>10. ASSUME ~Reordering PROVE Named'
    <2>1. \A q \in Reqs \ {r} : ~At(q, "reorder")'
      BY <1>6, <1>10 DEF Reordering, At, Only
    <2>2. Sole(r)' BY <1>1, <1>3, <1>4, <1>6, <1>7, <2>1 DEF Sole, At
    <2> QED BY <2>2 DEF OneSoon, Named
  <1> QED BY <1>8, <1>9, <1>10

(* One photo of a list is promoted or demoted.                             *)
LEMMA SortNames ==
    ASSUME Sound, OwnFiles, Named, NEW r \in Reqs, ReorderOne(r)
    PROVE  OwnFiles' /\ Named'
  <1>0. /\ ReqOK /\ GalleryOK /\ req[r] \in Request /\ req \in [Reqs -> Request]
        /\ primary \subseteq images
    BY TypeParts DEF Sound, ReqOK, GalleryOK
  <1>1. PICK i \in req[r].ids :
            /\ primary' = IF i = req[r].main /\ i \in images THEN primary \cup {i}
                          ELSE primary \ {i}
            /\ IF req[r].ids = {i} THEN Finish(r) ELSE req' = [req EXCEPT ![r].ids = @ \ {i}]
    BY DEF ReorderOne
  <1>2. At(r, "reorder") /\ images' = images /\ unset' = unset BY DEF ReorderOne
  <1>3. /\ Only(r) /\ req'[r].ids = req[r].ids \ {i} /\ ~New(r)'
        /\ At(r, "reorder")' => req'[r].main = req[r].main
        /\ req[r].ids # {i} => At(r, "reorder")'
    <2>1. CASE req[r].ids = {i}
      <3>1. Finish(r) BY <1>1, <2>1
      <3> QED BY <1>0, <2>1, <3>1, Finished, IdleOK DEF At, New
    <2>2. CASE req[r].ids # {i}
      <3>1. req' = [req EXCEPT ![r].ids = @ \ {i}] BY <1>1, <2>2
      <3>2. req'[r] = [req[r] EXCEPT !.ids = req[r].ids \ {i}] BY <1>0, <3>1
      <3>3. Only(r) BY <1>0, <3>1 DEF Only
      <3> QED BY <1>0, <1>2, <2>2, <3>2, <3>3 DEF At, New, Request
    <2> QED BY <2>1, <2>2
  <1>4. OwnFiles' BY <1>2, <1>3, OwnAside
  <1>5. \A q \in Reqs \ {r} : req'[q] = req[q] BY <1>3 DEF Only
  <1>6. ASSUME unset PROVE Named' BY <1>2, <1>6 DEF Named
  <1>7. ASSUME Empty PROVE Named'
    <2>1. \A q \in Reqs : New(q)' => req'[q].first
      BY <1>3, <1>5, <1>7 DEF Empty, New, At
    <2> QED BY <1>2, <1>7, <2>1 DEF Empty, Named
  <1>8. ASSUME SomeOne PROVE Named'
    <2>1. PICK j \in primary : Safe(j) BY <1>8 DEF SomeOne
    <2>2. j \in primary'
      <3>1. CASE i = j
        <4>1. i = req[r].main /\ i \in images BY <1>0, <1>2, <2>1, <3>1 DEF Safe
        <4> QED BY <1>1, <3>1, <4>1
      <3>2. CASE i # j BY <1>1, <3>2
      <3> QED BY <3>1, <3>2
    <2>3. Safe(j)'
      <3> SUFFICES ASSUME NEW q \in Reqs, At(q, "reorder")'
                   PROVE  j \notin req'[q].ids \/ j = req'[q].main
        BY <2>2 DEF Safe
      <3>1. CASE q = r BY <1>2, <1>3, <2>1, <3>1 DEF Safe
      <3>2. CASE q # r BY <1>5, <2>1, <3>2 DEF Safe, At
      <3> QED BY <3>1, <3>2
    <2> QED BY <2>2, <2>3 DEF SomeOne, Named
  <1>9. ASSUME OneSoon PROVE Named'
    <2>1. PICK p \in Reqs : Sole(p) BY <1>9 DEF OneSoon
    <2>2. p = r BY <1>2, <2>1 DEF Sole
    <2>3. \A q \in Reqs \ {r} : ~At(q, "reorder")' BY <1>5, <2>1, <2>2 DEF Sole, At
    <2>4. CASE i = req[r].main
      <3>1. i \in primary' BY <1>1, <2>1, <2>2, <2>4 DEF Sole
      <3>2. Safe(i)' BY <1>3, <2>3, <3>1 DEF Safe
      <3> QED BY <3>1, <3>2 DEF SomeOne, Named
    <2>5. CASE i # req[r].main
      <3>1. req[r].ids # {i} /\ req[r].main \in req'[r].ids \cap images'
        BY <1>2, <1>3, <2>1, <2>2, <2>5 DEF Sole
      <3>2. Sole(r)' BY <1>3, <2>3, <3>1 DEF Sole
      <3> QED BY <3>2 DEF OneSoon, Named
    <2> QED BY <2>4, <2>5
  <1> QED BY <1>4, <1>6, <1>7, <1>8, <1>9 DEF Named

(* A photo is deleted; that of a primary one, or of one about to be, shows *)
(* in unset.                                                               *)
LEMMA DropNames ==
    ASSUME Sound, OwnFiles, Named, NEW r \in Reqs, DeleteRow(r)
    PROVE  OwnFiles' /\ Named'
  <1>0. ReqOK /\ GalleryOK BY TypeParts DEF Sound
  <1>1. /\ req'[r] = Idle /\ Only(r) /\ At(r, "delete_row")
        /\ images' = images \ req[r].ids /\ primary' = primary \ req[r].ids
    BY <1>0, Finished DEF DeleteRow
  <1>2. OwnFiles' BY <1>1, IdleOK, OwnAside DEF New, At
  <1>3. \A q \in Reqs : /\ At(q, "reorder")' => At(q, "reorder") /\ q # r /\ req'[q] = req[q]
                        /\ New(q)' => New(q) /\ req'[q] = req[q]
    BY <1>1, IdleOK DEF At, New, Only
  <1>4. ASSUME unset' PROVE Named' BY <1>4 DEF Named
  <1>5. ASSUME ~unset' PROVE Named'
    <2>1. /\ ~unset
          /\ \A i \in req[r].ids : /\ i \notin primary
                                   /\ \A q \in Reqs : At(q, "reorder") => req[q].main # i
      BY <1>5 DEF DeleteRow
    <2>2. CASE Empty BY <1>1, <1>3, <2>2 DEF Empty, Named
    <2>3. ASSUME SomeOne PROVE Named'
      <3>1. PICK i \in primary : Safe(i) BY <2>3 DEF SomeOne
      <3>2. i \in primary' /\ Safe(i)' BY <1>1, <1>3, <2>1, <3>1 DEF Safe
      <3> QED BY <3>2 DEF SomeOne, Named
    <2>4. ASSUME OneSoon PROVE Named'
      <3>1. PICK p \in Reqs : Sole(p) BY <2>4 DEF OneSoon
      <3>2. p # r BY <1>1, <3>1 DEF Sole, At
      <3>3. Sole(p)' BY <1>1, <1>3, <2>1, <3>1, <3>2 DEF Sole, Only, At
      <3> QED BY <3>3 DEF OneSoon, Named
    <2> QED BY <2>1, <2>2, <2>3, <2>4 DEF Named
  <1> QED BY <1>2, <1>4, <1>5

Photos == OwnFiles /\ Named

LEMMA PhotosGallery ==
    ASSUME Sound, Photos, NEW r \in Reqs, GalleryStep(r)
    PROVE  Photos'
  <1> USE DEF Photos
  <1>0. ReqOK /\ GalleryOK BY TypeParts DEF Sound
  <1>1. ASSUME AddRead(r) PROVE Photos'
    <2>1. OwnFiles' /\ Only(r) /\ req'[r].first = (images = {}) /\ req[r].pc = "idle"
      BY <1>1, OwnAdded
    <2>2. UNCHANGED <<images, primary, unset>> BY <1>1 DEF AddRead, gallery
    <2>3. ~At(r, "reorder")'
      <3>1. PICK F \in SUBSET Free : Start(r, Adding(F)) BY <1>1 DEF AddRead, Adding
      <3>2. F \in SUBSET Images BY DEF Free
      <3> QED BY <1>0, <3>1, <3>2, AddingOpens, Started DEF At
    <2>4. Named' BY <2>1, <2>2, <2>3, NamedAside DEF At
    <2> QED BY <2>1, <2>4
  <1>2. ASSUME Insert(r) PROVE Photos' BY <1>2, OwnInserted, InsertNames
  <1>3. ASSUME ReorderStart(r) PROVE Photos' BY <1>3, ReorderNames
  <1>4. ASSUME ReorderOne(r) PROVE Photos' BY <1>4, SortNames
  <1>5. ASSUME SetPrimary(r) PROVE Photos'
    <2>1. PICK i \in images : primary' = {i} BY <1>5 DEF SetPrimary
    <2>2. req'[r] = Idle /\ Only(r) /\ images' = images /\ unset' = Reordering
      BY <1>0, <1>5, Started, IdleOK DEF SetPrimary
    <2>3. OwnFiles' BY <2>2, IdleOK, OwnAside DEF New, At
    <2>4. CASE Reordering BY <2>2, <2>3, <2>4 DEF Named
    <2>5. CASE ~Reordering
      <3>1. Safe(i)' BY <2>1, <2>2, <2>5, IdleOK DEF Safe, Reordering, At, Only
      <3> QED BY <2>1, <2>3, <3>1 DEF SomeOne, Named
    <2> QED BY <2>4, <2>5
  <1>6. ASSUME DeleteRead(r) PROVE Photos'
    <2>1. PICK i \in images : Start(r, Dropping(i)) BY <1>6 DEF DeleteRead, Dropping
    <2>2. i \in Images BY <1>0 DEF GalleryOK
    <2> DEFINE s == Dropping(i)
    <2>3. s \in Request /\ s.pc = "delete_row" /\ s.ids = {i} BY <2>2, DroppingOpens
    <2>4. Start(r, s) BY <2>1
    <2> HIDE DEF s
    <2>5. req'[r] = s /\ req[r].pc = "idle" /\ Only(r) BY <1>0, <2>3, <2>4, Started
    <2>6. UNCHANGED <<images, primary, unset>> BY <1>6 DEF DeleteRead, gallery
    <2>7. OwnFiles' BY <2>3, <2>5, <2>6, OwnAside DEF New, At
    <2>8. Named' BY <2>3, <2>5, <2>6, NamedAside DEF New, At
    <2> QED BY <2>7, <2>8
  <1>7. ASSUME DeleteRow(r) PROVE Photos' BY <1>7, DropNames
  <1> QED BY <1>1, <1>2, <1>3, <1>4, <1>5, <1>6, <1>7 DEF GalleryStep

(* Uploads, reorderings, deletions and setPrimaryImage in any order: a     *)
(* listing with photos lacks a primary one only while reorderImages is at  *)
(* work, or for one of the reasons that unset records.                     *)
THEOREM MainPhotoKeptHolds == Spec => []MainPhotoKept
  <1>1. ASSUME Init PROVE Photos
    <2>1. \A r \in Reqs : req[r] = Idle BY <1>1 DEF Init
    <2>2. \A r \in Reqs : ~New(r) /\ ~At(r, "reorder") BY <2>1, IdleOK DEF New, At
    <2>3. OwnFiles BY <2>2 DEF OwnFiles
    <2>4. CASE images = {} BY <2>2, <2>3, <2>4 DEF Photos, Named, Empty
    <2>5. ASSUME images # {} PROVE Photos
      <3>1. PICK i \in primary : TRUE BY <1>1, <2>5 DEF Init
      <3>2. Safe(i) BY <2>2, <3>1 DEF Safe
      <3> QED BY <2>3, <3>2 DEF Photos, Named, SomeOne
    <2> QED BY <2>4, <2>5
  <1>2. ASSUME Sound, Photos, [Next]_vars PROVE Photos'
    <2>0. OwnFiles /\ Named BY <1>2 DEF Photos
    <2>1. ASSUME NEW r \in Reqs, CatalogStep(r) PROVE Photos'
      <3>1. Catalogued(r) BY <1>2, <2>1, CatalogSound
      <3>2. UNCHANGED <<images, primary, unset>> BY <3>1 DEF Catalogued, Still, gallery
      <3>3. /\ Only(r) /\ req'[r].ids \subseteq req[r].ids \cup images
            /\ ~At(r, "reorder") /\ ~At(r, "reorder")' /\ ~New(r)'
        BY <3>1 DEF Catalogued, Among, CatalogPoints, DelPoints, At, New
      <3>4. OwnFiles' BY <2>0, <3>2, <3>3, OwnAside
      <3>5. Named' BY <2>0, <3>2, <3>3, NamedAside
      <3> QED BY <3>4, <3>5 DEF Photos
    <2>2. ASSUME NEW r \in Reqs, FeedbackStep(r) PROVE Photos'
      <3>1. Responded(r) BY <1>2, <2>2, FeedbackSound
      <3>2. UNCHANGED <<images, primary, unset>> BY <3>1 DEF Responded, gallery
      <3>3. /\ Only(r) /\ req'[r].ids \subseteq req[r].ids \cup images
            /\ ~At(r, "reorder") /\ ~At(r, "reorder")' /\ ~New(r)'
        BY <3>1 DEF Responded, FeedbackPoints, At, New
      <3>4. OwnFiles' BY <2>0, <3>2, <3>3, OwnAside
      <3>5. Named' BY <2>0, <3>2, <3>3, NamedAside
      <3> QED BY <3>4, <3>5 DEF Photos
    <2>3. ASSUME NEW r \in Reqs, GalleryStep(r) PROVE Photos'
      BY <1>2, <2>3, PhotosGallery
    <2>4. ASSUME NEW r \in Reqs, Die(r) PROVE Photos'
      <3>1. Only(r) /\ req'[r] = Idle /\ UNCHANGED <<images, primary>>
        BY <1>2, <2>4, DieSound DEF gallery
      <3>2. unset' = (unset \/ At(r, "reorder")) BY <2>4 DEF Die
      <3>3. ~New(r)' /\ ~At(r, "reorder")' /\ req'[r].ids = {} BY <3>1, IdleOK DEF New, At
      <3>4. OwnFiles' BY <2>0, <3>1, <3>3, OwnAside
      <3>5. CASE At(r, "reorder") BY <3>2, <3>4, <3>5 DEF Photos, Named
      <3>6. CASE ~At(r, "reorder")
        <4>1. Named' BY <2>0, <3>1, <3>2, <3>3, <3>6, NamedAside
        <4> QED BY <3>4, <4>1 DEF Photos
      <3> QED BY <3>5, <3>6
    <2>5. ASSUME UNCHANGED <<images, primary, unset, req>> PROVE Photos'
      BY <2>0, <2>5 DEF Photos, OwnFiles, Named, Empty, SomeOne, OneSoon, Safe, Sole, New, At
    <2>6. ASSUME NEW c \in Caches, Expire(c) PROVE Photos'
      BY <2>5, <2>6 DEF Expire, gallery, ghosts
    <2>7. CASE UNCHANGED vars BY <2>5, <2>7 DEF vars, gallery, ghosts
    <2> QED BY <1>2, <2>1, <2>2, <2>3, <2>4, <2>6, <2>7 DEF Next
  <1>3. ASSUME Sound, Photos PROVE MainPhotoKept
    BY <1>3 DEF Photos, Named, Empty, SomeOne, OneSoon, Safe, Sole, MainPhotoKept
  <1> QED BY <1>1, <1>2, <1>3, SoundHolds, PTL DEF Spec

-----------------------------------------------------------------------------
(* A union of n sets of at most m elements has at most n * m of them.      *)

LEMMA UnionBound ==
    ASSUME NEW S, IsFiniteSet(S), NEW m \in Nat, NEW f,
           \A x \in S : IsFiniteSet(f[x]) /\ Cardinality(f[x]) <= m
    PROVE  LET U == UNION {f[x] : x \in S}
           IN  IsFiniteSet(U) /\ Cardinality(U) <= Cardinality(S) * m
  <1> DEFINE U(T)    == UNION {f[x] : x \in T}
             Good(T) == IsFiniteSet(U(T)) /\ Cardinality(U(T)) <= Cardinality(T) * m
             Bad     == {T \in SUBSET S : ~Good(T)}
  <1> HIDE DEF Good
  <1>1. SUFFICES ASSUME ~Good(S) PROVE FALSE BY DEF Good
  <1>2. S \in Bad /\ Bad \subseteq FiniteSubsetsOf(S)
    BY <1>1, FS_FiniteSubsetsOfFinite
  <1>3. PICK T \in Bad : \A R \in Bad : ~ (<<R, T>> \in StrictSubsetOrdering(S))
    <2> HIDE DEF Bad
    <2> QED BY <1>2, FS_StrictSubsetOrderingWellFounded, WFMin
  <1>4. IsFiniteSet(T) /\ T \subseteq S /\ Cardinality(T) \in Nat
    BY FS_Subset, FS_CardinalityType
  <1>5. T # {}
    <2>1. SUFFICES ASSUME T = {} PROVE FALSE OBVIOUS
    <2>2. U(T) = {} BY <2>1
    <2>3. Cardinality(U(T)) = 0 /\ Cardinality(T) = 0 /\ IsFiniteSet(U(T))
      BY <2>1, <2>2, FS_EmptySet
    <2> HIDE DEF U
    <2>4. Good(T) BY <2>3 DEF Good
    <2> QED BY <2>4
  <1>6. PICK x \in T : TRUE BY <1>5
  <1> DEFINE R == T \ {x}
  <1>7. Cardinality(R) = Cardinality(T) - 1 BY <1>4, FS_RemoveElement
  <1>8. Good(R)
    <2>1. <<R, T>> \in StrictSubsetOrdering(S) BY <1>4 DEF StrictSubsetOrdering
    <2>2. R \in SUBSET S BY <1>4
    <2> QED BY <1>3, <2>1, <2>2
  <1>9. U(T) = U(R) \cup f[x] OBVIOUS
  <1>10. IsFiniteSet(U(R)) /\ Cardinality(U(R)) <= Cardinality(R) * m
    BY <1>8 DEF Good
  <1>11. IsFiniteSet(f[x]) /\ Cardinality(f[x]) <= m BY <1>4
  <1>12. /\ IsFiniteSet(U(R) \cup f[x])
         /\ Cardinality(U(R) \cup f[x]) <= Cardinality(U(R)) + Cardinality(f[x])
    <2> HIDE DEF U
    <2>1. IsFiniteSet(U(R) \cap f[x]) BY <1>10, FS_Subset
    <2>2. Cardinality(U(R) \cap f[x]) \in Nat BY <2>1, FS_CardinalityType
    <2>3. Cardinality(U(R)) \in Nat /\ Cardinality(f[x]) \in Nat
      BY <1>10, <1>11, FS_CardinalityType
    <2> DEFINE A == U(R)
               C == f[x]
    <2> HIDE DEF R
    <2>4. IsFiniteSet(A) /\ IsFiniteSet(C) BY <1>10, <1>11
    <2> HIDE DEF A, C
    <2>5. /\ IsFiniteSet(A \cup C)
          /\ Cardinality(A \cup C) =
               Cardinality(A) + Cardinality(C) - Cardinality(A \cap C)
      BY <2>4, FS_Union
    <2>6. /\ Cardinality(A) \in Nat /\ Cardinality(C) \in Nat
          /\ Cardinality(A \cap C) \in Nat
      BY <2>2, <2>3 DEF A, C
    <2>7. Cardinality(A \cup C) <= Cardinality(A) + Cardinality(C) BY <2>5, <2>6
    <2> QED BY <2>5, <2>7 DEF A, C
  <1>13. Cardinality(U(T)) <= Cardinality(T) * m
    <2>1. PICK n \in Nat : n = Cardinality(T) BY <1>4
    <2>2. PICK k \in Int : k = n - 1 BY <2>1
    <2>3. k * m + m = n * m BY <2>2
    <2>4. Cardinality(U(R)) <= k * m BY <1>7, <1>10, <2>1, <2>2
    <2>5. Cardinality(U(R)) \in Nat /\ Cardinality(f[x]) \in Nat
      BY <1>10, <1>11, FS_CardinalityType
    <2>6. k * m \in Int BY <2>2
    <2> HIDE DEF U, R
    <2>7. Cardinality(U(T)) <= Cardinality(U(R)) + Cardinality(f[x]) BY <1>9, <1>12
    <2>8. Cardinality(U(R) \cup f[x]) \in Nat BY <1>12, FS_CardinalityType
    <2> QED BY <1>9, <1>11, <2>1, <2>3, <2>4, <2>5, <2>6, <2>7, <2>8
  <1> HIDE DEF U
  <1>14. Good(T) BY <1>9, <1>12, <1>13 DEF Good
  <1> QED BY <1>14

-----------------------------------------------------------------------------
(* The limit of photos.  A request whose rows are not inserted yet counted *)
(* them with its own files and found them within the limit: together with  *)
(* what the others still have to insert, there are never more rows than    *)
(* the limit and the files of all handlers but one.                        *)

Pending == UNION {req[r].ids : r \in {q \in Reqs : New(q)}}
Limit   == MaxImages + (Cardinality(Reqs) - 1) * MaxFiles

Bounds ==
    /\ \A r \in Reqs : New(r) => Cardinality(req[r].ids) <= MaxFiles
    /\ Cardinality(images \cup Pending) <= Limit

LEMMA LimitNumber == Limit \in Nat /\ Limit >= MaxImages /\ Cardinality(Reqs) - 1 \in Nat
  <1>1. Cardinality(Reqs) \in Nat /\ Cardinality(Reqs) # 0
    BY ShopFacts, FS_CardinalityType, FS_EmptySet
  <1>2. PICK n \in Nat : n = Cardinality(Reqs) - 1 BY <1>1
  <1>3. n * MaxFiles \in Nat BY <1>2, ShopFacts
  <1> QED BY <1>2, <1>3, ShopFacts DEF Limit

LEMMA PendingFinite ==
    ASSUME Sound
    PROVE  IsFiniteSet(images \cup Pending) /\ Cardinality(images \cup Pending) \in Nat
  <1>1. \A r \in Reqs : req[r].ids \subseteq Images
    BY TypeParts DEF Sound, ReqOK, Request
  <1>2. images \cup Pending \subseteq Images
    BY <1>1, TypeParts DEF Sound, GalleryOK, Pending
  <1> QED BY <1>2, ShopFacts, FS_Subset, FS_CardinalityType

LEMMA BoundsKept ==
    ASSUME Sound, Sound', Bounds, images' \subseteq images \cup Pending,
           \A q \in Reqs : New(q)' => New(q) /\ req'[q].ids \subseteq req[q].ids
    PROVE  Bounds'
  <1>1. Pending' \subseteq Pending
    <2> SUFFICES ASSUME NEW q \in Reqs, New(q)', NEW i \in req'[q].ids PROVE i \in Pending
      BY DEF Pending
    <2> QED BY DEF Pending
  <1>2. images' \cup Pending' \subseteq images \cup Pending BY <1>1
  <1> DEFINE A == images' \cup Pending'
             B == images \cup Pending
  <1>3. IsFiniteSet(B) /\ Cardinality(B) \in Nat /\ Cardinality(B) <= Limit
    BY PendingFinite DEF Bounds
  <1>4. A \in SUBSET B BY <1>2
  <1> HIDE DEF A, B
  <1>5. IsFiniteSet(A) /\ Cardinality(A) <= Cardinality(B) BY <1>3, <1>4, FS_Subset
  <1>6. Cardinality(A) <= Limit BY <1>3, <1>5, FS_CardinalityType, LimitNumber
  <1>7. ASSUME NEW r \in Reqs, New(r)' PROVE Cardinality(req'[r].ids) <= MaxFiles
    <2> DEFINE I == req'[r].ids
               J == req[r].ids
    <2>1. New(r) /\ I \in SUBSET J BY <1>7
    <2>2. J \subseteq Images BY TypeParts DEF Sound, ReqOK, Request
    <2>3. IsFiniteSet(J) /\ Cardinality(J) <= MaxFiles
      BY <2>1, <2>2, ShopFacts, FS_Subset DEF Bounds
    <2> HIDE DEF I, J
    <2>4. IsFiniteSet(I) /\ Cardinality(I) <= Cardinality(J) BY <2>1, <2>3, FS_Subset
    <2>5. Cardinality(I) <= MaxFiles BY <2>3, <2>4, ShopFacts, FS_CardinalityType
    <2> QED BY <2>5 DEF I
  <1> QED BY <1>6, <1>7 DEF Bounds, A, Limit

LEMMA AddBounds ==
    ASSUME Sound, Sound', Bounds, NEW r \in Reqs, AddRead(r)
    PROVE  Bounds'
  <1>0. ReqOK /\ GalleryOK BY TypeParts DEF Sound
  <1>1. PICK F \in SUBSET Free :
            /\ Start(r, Adding(F)) /\ Cardinality(F) <= MaxFiles
            /\ Cardinality(images) + Cardinality(F) <= MaxImages
    BY DEF AddRead, Adding
  <1>2. F \in SUBSET Images BY DEF Free
  <1>3. req'[r] = Adding(F) /\ req'[r].ids = F /\ req'[r].pc = "insert" /\ Only(r)
    BY <1>0, <1>1, <1>2, AddingOpens, Started
  <1>4. images' = images BY DEF AddRead, gallery
  <1> DEFINE Q == {q \in Reqs \ {r} : New(q)}
             f == [q \in Q |-> req[q].ids]
             U == UNION {f[q] : q \in Q}
             n == Cardinality(Reqs) - 1
  <1>5. IsFiniteSet(Q) /\ Cardinality(Q) <= n /\ Cardinality(Q) \in Nat /\ n \in Nat
    <2>1. IsFiniteSet(Reqs \ {r}) /\ Cardinality(Reqs \ {r}) = Cardinality(Reqs) - 1
      BY ShopFacts, FS_RemoveElement
    <2>2. Q \in SUBSET (Reqs \ {r}) OBVIOUS
    <2> HIDE DEF Q
    <2> QED BY <2>1, <2>2, LimitNumber, FS_Subset, FS_CardinalityType
  <1>6. \A q \in Q : IsFiniteSet(f[q]) /\ Cardinality(f[q]) <= MaxFiles
    <2> SUFFICES ASSUME NEW q \in Q
                 PROVE  IsFiniteSet(req[q].ids) /\ Cardinality(req[q].ids) <= MaxFiles
      OBVIOUS
    <2>1. req[q].ids \in SUBSET Images BY <1>0 DEF ReqOK, Request
    <2> QED BY <2>1, ShopFacts, FS_Subset DEF Bounds
  <1>7. IsFiniteSet(U) /\ Cardinality(U) <= Cardinality(Q) * MaxFiles
    <2> HIDE DEF Q, f
    <2> QED BY <1>5, <1>6, ShopFacts, UnionBound
  <1>8. Cardinality(Q) * MaxFiles <= n * MaxFiles
    <2>1. \A a, b, c \in Nat : a <= b => a * c <= b * c OBVIOUS
    <2> HIDE DEF Q, n
    <2> QED BY <1>5, <2>1, ShopFacts
  <1>9. images' \cup Pending' = (images \cup F) \cup U
    <2>1. \A q \in Reqs : New(q)' <=> q = r \/ q \in Q BY <1>3 DEF Only, New
    <2>2. \A q \in Q : req'[q].ids = f[q] BY <1>3 DEF Only
    <2>3. Pending' = F \cup U
      <3>1. Pending' \subseteq F \cup U
        <4> SUFFICES ASSUME NEW q \in Reqs, New(q)', NEW i \in req'[q].ids
                     PROVE  i \in F \cup U
          BY DEF Pending
        <4>1. CASE q = r BY <1>3, <4>1
        <4>2. CASE q \in Q BY <2>2, <4>2
        <4> QED BY <2>1, <4>1, <4>2
      <3>2. F \subseteq Pending' BY <1>3, <2>1 DEF Pending
      <3>3. U \subseteq Pending' BY <2>1, <2>2 DEF Pending
      <3> QED BY <3>1, <3>2, <3>3
    <2> QED BY <1>4, <2>3
  <1>10. IsFiniteSet(images \cup F) /\ Cardinality(images \cup F) <= MaxImages
    <2>1. IsFiniteSet(images) /\ IsFiniteSet(F) /\ IsFiniteSet(images \cap F)
      <3>1. images \in SUBSET Images /\ images \cap F \in SUBSET Images BY <1>0 DEF GalleryOK
      <3> QED BY <1>2, <3>1, ShopFacts, FS_Subset
    <2>2. /\ Cardinality(images) \in Nat /\ Cardinality(F) \in Nat
          /\ Cardinality(images \cap F) \in Nat
      BY <2>1, FS_CardinalityType
    <2>3. /\ IsFiniteSet(images \cup F)
          /\ Cardinality(images \cup F) =
               Cardinality(images) + Cardinality(F) - Cardinality(images \cap F)
      BY <2>1, FS_Union
    <2> QED BY <1>1, <2>2, <2>3, ShopFacts
  <1> DEFINE V == images \cup F
  <1> HIDE DEF U, V
  <1>11. IsFiniteSet(V) /\ Cardinality(V) <= MaxImages BY <1>10 DEF V
  <1>12. Cardinality(V \cup U) <= Cardinality(V) + Cardinality(U)
    <2>1. IsFiniteSet(V \cap U) BY <1>11, FS_Subset
    <2>2. Cardinality(V \cap U) \in Nat /\ Cardinality(V) \in Nat /\ Cardinality(U) \in Nat
      BY <1>7, <1>11, <2>1, FS_CardinalityType
    <2>3. Cardinality(V \cup U) = Cardinality(V) + Cardinality(U) - Cardinality(V \cap U)
      BY <1>7, <1>11, FS_Union
    <2> QED BY <2>2, <2>3
  <1>13. Cardinality(V \cup U) <= Limit
    <2>1. Cardinality(V) \in Nat /\ Cardinality(U) \in Nat
      BY <1>7, <1>11, FS_CardinalityType
    <2>2. IsFiniteSet(V \cup U) BY <1>7, <1>11, FS_Union
    <2>3. Cardinality(V \cup U) \in Nat BY <2>2, FS_CardinalityType
    <2>4. n * MaxFiles \in Nat /\ Cardinality(Q) * MaxFiles \in Nat
      <3> HIDE DEF Q, n
      <3> QED BY <1>5, ShopFacts
    <2>5. Limit = MaxImages + n * MaxFiles BY DEF Limit
    <2> HIDE DEF Q, n
    <2> QED BY <1>7, <1>8, <1>11, <1>12, <2>1, <2>3, <2>4, <2>5, ShopFacts
  <1>14. ASSUME NEW q \in Reqs, New(q)' PROVE Cardinality(req'[q].ids) <= MaxFiles
    <2>1. CASE q = r BY <1>1, <1>3, <2>1
    <2>2. CASE q # r BY <1>3, <1>14, <2>2 DEF Only, New, Bounds
    <2> QED BY <2>1, <2>2
  <1> QED BY <1>9, <1>13, <1>14 DEF Bounds, V, Limit

(* addPropertyImages counts the rows long before it inserts: uploads in    *)
(* parallel pass the limit of 30, by at most 20 files for each of them but *)
(* one.                                                                    *)
THEOREM ImagesBoundedHolds == Spec => []ImagesBounded
  <1>1. ASSUME Init, Sound PROVE Bounds
    <2>1. \A r \in Reqs : req[r] = Idle BY <1>1 DEF Init
    <2>2. \A r \in Reqs : ~New(r) BY <2>1, IdleOK DEF New
    <2>3. Pending = {} BY <2>2 DEF Pending
    <2>4. images \cup Pending \in SUBSET {1} BY <1>1, <2>3 DEF Init
    <2>5. Cardinality(images \cup Pending) <= 1
      <3>1. IsFiniteSet({1}) /\ Cardinality({1}) = 1 BY FS_Singleton
      <3> QED BY <2>4, <3>1, FS_Subset
    <2> QED BY <1>1, <2>2, <2>5, LimitNumber, PendingFinite, ShopFacts DEF Bounds
  <1>2. ASSUME Sound, Bounds, [Next]_vars PROVE Bounds'
    <2>0. Sound' BY <1>2, NextSound
    <2> DEFINE Less == /\ images' \subseteq images \cup Pending
                       /\ \A q \in Reqs :
                              New(q)' => New(q) /\ req'[q].ids \subseteq req[q].ids
    <2>1. ASSUME NEW r \in Reqs, CatalogStep(r) PROVE Less
      <3>1. Catalogued(r) BY <1>2, <2>1, CatalogSound
      <3> QED BY <3>1 DEF Catalogued, Still, gallery, Among, CatalogPoints, DelPoints, Only, New
    <2>2. ASSUME NEW r \in Reqs, FeedbackStep(r) PROVE Less
      <3>1. Responded(r) BY <1>2, <2>2, FeedbackSound
      <3> QED BY <3>1 DEF Responded, gallery, FeedbackPoints, Only, New
    <2>3. ASSUME NEW r \in Reqs, GalleryStep(r), ~AddRead(r) PROVE Less
      <3>0. /\ ReqOK /\ GalleryOK /\ req[r] \in Request /\ req \in [Reqs -> Request]
            /\ Only(r)
        BY <1>2, <2>3, TypeParts, GallerySound DEF Sound, ReqOK, Pictured
      <3>2. ASSUME Insert(r) PROVE Less
        <4>1. req'[r] = Idle /\ New(r) /\ images' = images \cup req[r].ids
          BY <3>0, <3>2, Finished DEF Insert, At, New
        <4>2. req[r].ids \subseteq Pending BY <4>1 DEF Pending
        <4> QED BY <3>0, <4>1, <4>2, IdleOK DEF Only, New
      <3>3. ASSUME ReorderStart(r) PROVE Less
        <4>1. PICK L \in SUBSET images, i \in images : Start(r, Sorting(L, i))
          BY <3>3 DEF ReorderStart, Sorting
        <4>2. L \in SUBSET Images /\ i \in Images BY <3>0 DEF GalleryOK
        <4> DEFINE s == Sorting(L, i)
        <4>3. s \in Request /\ s.pc = "reorder" BY <4>2, SortingOpens
        <4>4. Start(r, s) BY <4>1
        <4> HIDE DEF s
        <4>5. req'[r] = s BY <3>0, <4>3, <4>4, Started
        <4> QED BY <3>0, <3>3, <4>3, <4>5 DEF ReorderStart, gallery, Only, New
      <3>4. ASSUME ReorderOne(r) PROVE Less
        <4>1. PICK i \in req[r].ids : Finish(r) \/ req' = [req EXCEPT ![r].ids = @ \ {i}]
          BY <3>4 DEF ReorderOne
        <4>2. images' = images /\ req[r].pc = "reorder" BY <3>4 DEF ReorderOne, At
        <4>3. req'[r].pc \in {"idle", "reorder"}
          <5>1. CASE Finish(r) BY <3>0, <5>1, Finished, IdleOK
          <5>2. CASE req' = [req EXCEPT ![r].ids = @ \ {i}]
            <6>1. req'[r] = [req[r] EXCEPT !.ids = req[r].ids \ {i}] BY <3>0, <5>2
            <6> QED BY <3>0, <4>2, <6>1 DEF Request
          <5> QED BY <4>1, <5>1, <5>2
        <4> QED BY <3>0, <4>2, <4>3 DEF Only, New
      <3>5. ASSUME SetPrimary(r) PROVE Less
        <4>1. req'[r] = Idle /\ images' = images
          BY <3>0, <3>5, Started, IdleOK DEF SetPrimary
        <4> QED BY <3>0, <4>1, IdleOK DEF Only, New
      <3>6. ASSUME DeleteRead(r) PROVE Less
        <4>1. PICK i \in images : Start(r, Dropping(i)) BY <3>6 DEF DeleteRead, Dropping
        <4>2. i \in Images BY <3>0 DEF GalleryOK
        <4> DEFINE s == Dropping(i)
        <4>3. s \in Request /\ s.pc = "delete_row" BY <4>2, DroppingOpens
        <4>4. Start(r, s) BY <4>1
        <4> HIDE DEF s
        <4>5. req'[r] = s BY <3>0, <4>3, <4>4, Started
        <4> QED BY <3>0, <3>6, <4>3, <4>5 DEF DeleteRead, gallery, Only, New
      <3>8. ASSUME DeleteRow(r) PROVE Less
        <4>1. req'[r] = Idle /\ images' \subseteq images
          BY <3>0, <3>8, Finished DEF DeleteRow
        <4> QED BY <3>0, <4>1, IdleOK DEF Only, New
      <3> QED BY <2>3, <3>2, <3>3, <3>4, <3>5, <3>6, <3>8 DEF GalleryStep
    <2>4. ASSUME NEW r \in Reqs, Die(r) PROVE Less
      <3>1. Only(r) /\ req'[r] = Idle /\ images' = images
        BY <1>2, <2>4, DieSound DEF gallery
      <3> QED BY <3>1, IdleOK DEF Only, New
    <2>5. ASSUME NEW c \in Caches, Expire(c) PROVE Less
      BY <2>5 DEF Expire, gallery, New
    <2>6. ASSUME UNCHANGED vars PROVE Less
      BY <2>6 DEF vars, gallery, New
    <2>7. Less => Bounds' BY <1>2, <2>0, BoundsKept
    <2>8. ASSUME NEW r \in Reqs, AddRead(r) PROVE Bounds' BY <1>2, <2>0, <2>8, AddBounds
    <2> HIDE DEF Less
    <2> QED BY <1>2, <2>1, <2>2, <2>3, <2>4, <2>5, <2>6, <2>7, <2>8 DEF Next
  <1>3. ASSUME Sound, Bounds PROVE ImagesBounded
    <2> DEFINE B == images \cup Pending
    <2>1. IsFiniteSet(B) /\ Cardinality(B) \in Nat /\ Cardinality(B) <= Limit
      BY <1>3, PendingFinite DEF Bounds
    <2>2. images \in SUBSET B OBVIOUS
    <2> HIDE DEF B
    <2>3. IsFiniteSet(images) /\ Cardinality(images) <= Cardinality(B)
      BY <2>1, <2>2, FS_Subset
    <2>4. Cardinality(images) \in Nat BY <2>3, FS_CardinalityType
    <2>5. Cardinality(images) <= Limit BY <2>1, <2>3, <2>4, LimitNumber
    <2> QED BY <2>5 DEF ImagesBounded, Limit
  <1> QED BY <1>1, <1>2, <1>3, InitSound, SoundHolds, PTL DEF Spec

-----------------------------------------------------------------------------
(* How many handlers are at some point, before and after one of them moves.*)

AtAny(P) == {q \in Reqs : req[q].pc \in P}

LEMMA Moved ==
    ASSUME NEW P, NEW r \in Reqs, Only(r)
    PROVE  /\ Cardinality(AtAny(P)) \in Nat /\ Cardinality(AtAny(P)') \in Nat
           /\ req[r].pc \in P <=> req'[r].pc \in P =>
                  Cardinality(AtAny(P)') = Cardinality(AtAny(P))
           /\ req[r].pc \notin P /\ req'[r].pc \in P =>
                  Cardinality(AtAny(P)') = Cardinality(AtAny(P)) + 1
           /\ req[r].pc \in P /\ req'[r].pc \notin P =>
                  /\ Cardinality(AtAny(P)') = Cardinality(AtAny(P)) - 1
                  /\ Cardinality(AtAny(P)) > 0
  <1> DEFINE A == AtAny(P)
             B == {q \in Reqs : req'[q].pc \in P}
  <1>1. AtAny(P)' = B BY DEF AtAny
  <1>2. IsFiniteSet(A) /\ IsFiniteSet(B)
    <2>1. A \in SUBSET Reqs /\ B \in SUBSET Reqs BY DEF AtAny
    <2> QED BY <2>1, ShopFacts, FS_Subset
  <1>3. Cardinality(A) \in Nat /\ Cardinality(B) \in Nat BY <1>2, FS_CardinalityType
  <1>4. ASSUME req[r].pc \in P <=> req'[r].pc \in P PROVE Cardinality(B) = Cardinality(A)
    <2>1. A = B BY <1>4 DEF Only, AtAny
    <2> QED BY <2>1
  <1>5. ASSUME req[r].pc \notin P, req'[r].pc \in P PROVE Cardinality(B) = Cardinality(A) + 1
    <2>1. B = A \cup {r} /\ r \notin A BY <1>5 DEF Only, AtAny
    <2> HIDE DEF A, B
    <2> QED BY <1>2, <2>1, FS_AddElement
  <1>6. ASSUME req[r].pc \in P, req'[r].pc \notin P
        PROVE  Cardinality(B) = Cardinality(A) - 1 /\ Cardinality(A) > 0
    <2>1. B = A \ {r} /\ r \in A BY <1>6 DEF Only, AtAny
    <2> HIDE DEF A, B
    <2>2. Cardinality(B) = Cardinality(A) - 1 BY <1>2, <2>1, FS_RemoveElement
    <2> QED BY <1>3, <2>2
  <1> QED BY <1>1, <1>3, <1>4, <1>5, <1>6

(* Favorites.  A row created or deleted is owed to the count until the     *)
(* handler counts it, or dies.                                             *)

Favorites ==
    /\ IsFiniteSet(favorites)
    /\ row.favs + Cardinality(AtAny({"fav_inc"})) - Cardinality(AtAny({"fav_dec"})) + owed
         = Cardinality(favorites)

LEMMA FavoritesAside ==
    ASSUME Favorites, NEW r \in Reqs, Only(r), UNCHANGED <<favorites, owed>>,
           row'.favs = row.favs, req[r].pc \notin {"fav_inc", "fav_dec"},
           req'[r].pc \notin {"fav_inc", "fav_dec"}
    PROVE  Favorites'
  <1>1. Cardinality(AtAny({"fav_inc"})') = Cardinality(AtAny({"fav_inc"}))
    BY Moved
  <1>2. Cardinality(AtAny({"fav_dec"})') = Cardinality(AtAny({"fav_dec"}))
    BY Moved
  <1> QED BY <1>1, <1>2 DEF Favorites

LEMMA FavoritesFeedback ==
    ASSUME Sound, Favorites, NEW r \in Reqs, FeedbackStep(r)
    PROVE  Favorites'
  <1> DEFINE I == Cardinality(AtAny({"fav_inc"}))
             D == Cardinality(AtAny({"fav_dec"}))
  <1>0. /\ ReqOK /\ RowOK /\ Right(req[r]) /\ Only(r) /\ row \in Row /\ row.favs \in Int
        /\ owed \in Int /\ owed' = owed /\ req[r] \in Request
        /\ req \in [Reqs -> Request]
    BY TypeParts, FeedbackSound DEF Sound, Underway, RowOK, ReqOK, Row, OtherOK, Responded
  <1>1. I \in Nat /\ D \in Nat /\ I' \in Nat /\ D' \in Nat BY <1>0, Moved
  <1>2. Cardinality(favorites) \in Nat BY FS_CardinalityType DEF Favorites
  <1>3. ASSUME FavCreate(r) PROVE Favorites'
    <2>0. req[r].pc = "fav_create" /\ row'.favs = row.favs BY <1>3 DEF FavCreate, At
    <2>1. CASE Finish(r) /\ UNCHANGED favorites
      <3>1. req'[r].pc = "idle" BY <1>0, <2>1, Finished, IdleOK
      <3> QED BY <1>0, <2>0, <2>1, <3>1, FavoritesAside
    <2>2. CASE /\ Goto(r, "fav_inc") /\ req[r].user \notin favorites
               /\ favorites' = favorites \cup {req[r].user}
      <3>1. "fav_inc" \in Points BY DEF Points
      <3>2. req'[r].pc = "fav_inc" BY <1>0, <2>2, <3>1, Went
      <3>3. I' = I + 1 /\ D' = D BY <1>0, <2>0, <3>2, Moved
      <3>4. IsFiniteSet(favorites') /\ Cardinality(favorites') = Cardinality(favorites) + 1
        BY <2>2, FS_AddElement DEF Favorites
      <3> QED BY <1>0, <1>1, <1>2, <2>0, <3>3, <3>4 DEF Favorites
    <2> QED BY <1>3, <2>1, <2>2 DEF FavCreate
  <1>4. ASSUME FavDelete(r) PROVE Favorites'
    <2>0. req[r].pc = "fav_delete" /\ row'.favs = row.favs BY <1>4 DEF FavDelete, At
    <2>1. CASE Finish(r) /\ UNCHANGED favorites
      <3>1. req'[r].pc = "idle" BY <1>0, <2>1, Finished, IdleOK
      <3> QED BY <1>0, <2>0, <2>1, <3>1, FavoritesAside
    <2>2. CASE /\ Goto(r, "fav_dec") /\ req[r].user \in favorites
               /\ favorites' = favorites \ {req[r].user}
      <3>1. "fav_dec" \in Points BY DEF Points
      <3>2. req'[r].pc = "fav_dec" BY <1>0, <2>2, <3>1, Went
      <3>3. I' = I /\ D' = D + 1 BY <1>0, <2>0, <3>2, Moved
      <3>4. IsFiniteSet(favorites') /\ Cardinality(favorites') = Cardinality(favorites) - 1
        BY <2>2, FS_RemoveElement DEF Favorites
      <3> QED BY <1>0, <1>1, <1>2, <2>0, <3>3, <3>4 DEF Favorites
    <2> QED BY <1>4, <2>1, <2>2 DEF FavDelete
  <1>5. ASSUME FavCount(r) PROVE Favorites'
    <2>1. req'[r].pc = "idle" /\ favorites' = favorites
      BY <1>0, <1>5, Finished, IdleOK DEF FavCount, social
    <2>2. CASE req[r].pc = "fav_inc" /\ row' = [row EXCEPT !.favs = row.favs + 1]
      <3>1. I' = I - 1 /\ D' = D BY <1>0, <2>1, <2>2, Moved
      <3>2. row'.favs = row.favs + 1 BY <1>0, <2>2 DEF Row
      <3> QED BY <1>0, <1>1, <1>2, <2>1, <3>1, <3>2 DEF Favorites
    <2>3. CASE req[r].pc = "fav_dec" /\ row' = [row EXCEPT !.favs = row.favs - 1]
      <3>1. I' = I /\ D' = D - 1 BY <1>0, <2>1, <2>3, Moved
      <3>2. row'.favs = row.favs - 1 BY <1>0, <2>3 DEF Row
      <3> QED BY <1>0, <1>1, <1>2, <2>1, <3>1, <3>2 DEF Favorites
    <2> QED BY <1>5, <2>2, <2>3 DEF FavCount, At
  <1>6. ASSUME FavRead(r) PROVE Favorites'
    <2>1. PICK u \in Users, p \in {"fav_create", "fav_delete"} : Start(r, Toggle(u, p))
      BY <1>6 DEF FavRead, Toggle
    <2>2. req'[r].pc = p /\ req[r].pc = "idle" BY <1>0, <2>1, ToggleOpens, Started
    <2> QED BY <1>0, <1>6, <2>2, FavoritesAside DEF FavRead, social
  <1>7. ASSUME ReviewRead(r) PROVE Favorites'
    <2>1. PICK s \in Stays, by \in {"guest", "host"} : Start(r, Rate(s, by))
      BY <1>7 DEF ReviewRead, Rate
    <2>2. req'[r].pc = "review_insert" /\ req[r].pc = "idle"
      BY <1>0, <2>1, RateOpens, Started
    <2> QED BY <1>0, <1>7, <2>2, FavoritesAside DEF ReviewRead, social
  <1>8. ASSUME ReviewInsert(r) PROVE Favorites'
    <2>1. req[r].pc = "review_insert" BY <1>8 DEF ReviewInsert, At
    <2>2. req'[r].pc \in {"idle", "review_commit"}
      <3>1. CASE Finish(r) BY <1>0, <3>1, Finished, IdleOK
      <3>2. CASE ~Finish(r)
        <4>1. req'[r] = [req[r] EXCEPT !.pc = "review_commit", !.counted = Counted(r)]
          BY <1>0, <1>8, <3>2 DEF ReviewInsert
        <4> QED BY <1>0, <4>1 DEF Request
      <3> QED BY <3>1, <3>2
    <2> QED BY <1>0, <1>8, <2>1, <2>2, FavoritesAside DEF ReviewInsert, social
  <1>9. ASSUME ReviewCommit(r) PROVE Favorites'
    <2>1. "del" \in Points BY DEF Points, DelPoints
    <2>2. req[r].pc = "review_commit" /\ req'[r].pc = "del"
      BY <1>0, <1>9, <2>1, Went DEF ReviewCommit, At
    <2>3. row'.favs = row.favs
      <3>1. CASE req[r].by = "guest"
        <4> DEFINE p == [row EXCEPT !.rated = req[r].counted]
        <4>1. p \in Row /\ p.status = row.status /\ p.favs = row.favs
          BY <1>0 DEF Row, Request
        <4>2. row.status \in Statuses BY <1>0, <2>2, Copied DEF Right, Writers
        <4>3. Commit(p) BY <1>9, <3>1 DEF ReviewCommit
        <4> QED BY <1>0, <4>1, <4>2, <4>3, Committed
      <3>2. CASE req[r].by # "guest" BY <1>9, <3>2 DEF ReviewCommit
      <3> QED BY <3>1, <3>2
    <2> QED BY <1>0, <1>9, <2>2, <2>3, FavoritesAside DEF ReviewCommit
  <1>10. ASSUME RespondRead(r) PROVE Favorites'
    <2>1. PICK s \in Stays : Start(r, Respond(s)) BY <1>10 DEF RespondRead, Respond
    <2>2. req'[r].pc = "respond_write" /\ req[r].pc = "idle"
      BY <1>0, <2>1, RespondOpens, Started
    <2> QED BY <1>0, <1>10, <2>2, FavoritesAside DEF RespondRead, social
  <1>11. ASSUME RespondWrite(r) PROVE Favorites'
    <2>1. req[r].pc = "respond_write" /\ req'[r].pc = "idle"
      BY <1>0, <1>11, Finished, IdleOK DEF RespondWrite, At
    <2> QED BY <1>0, <1>11, <2>1, FavoritesAside DEF RespondWrite
  <1> QED BY <1>3, <1>4, <1>5, <1>6, <1>7, <1>8, <1>9, <1>10, <1>11 DEF FeedbackStep

(* toggleFavorite creates or deletes the row in one statement and counts   *)
(* it in another: favoritesCount is the number of rows but for the updates *)
(* on their way, and those a crash lost.                                   *)
THEOREM FavoritesCountedHolds == Spec => []FavoritesCounted
  <1>1. ASSUME Init PROVE Favorites
    <2>1. \A r \in Reqs : req[r].pc = "idle" BY <1>1, IdleOK DEF Init
    <2>2. AtAny({"fav_inc"}) = {} /\ AtAny({"fav_dec"}) = {} BY <2>1 DEF AtAny
    <2>3. row.favs = 0
      <3>1. Unlisted.favs = 0 BY DEF Unlisted
      <3>2. [Unlisted EXCEPT !.status = "ACTIVE", !.approved = TRUE].favs = 0
        BY DEF Unlisted
      <3> QED BY <1>1, <3>1, <3>2 DEF Init
    <2> QED BY <1>1, <2>2, <2>3, FS_EmptySet DEF Init, Favorites
  <1>2. ASSUME Sound, Favorites, [Next]_vars PROVE Favorites'
    <2>1. ASSUME NEW r \in Reqs, CatalogStep(r) PROVE Favorites'
      <3>1. Catalogued(r) BY <1>2, <2>1, CatalogSound
      <3>2. UNCHANGED <<favorites, owed>> BY <3>1 DEF Catalogued, Still, social
      <3> QED BY <1>2, <3>1, <3>2, FavoritesAside
          DEF Catalogued, Among, CatalogPoints, DelPoints
    <2>2. ASSUME NEW r \in Reqs, FeedbackStep(r) PROVE Favorites'
      BY <1>2, <2>2, FavoritesFeedback
    <2>3. ASSUME NEW r \in Reqs, GalleryStep(r) PROVE Favorites'
      <3>1. Pictured(r) BY <1>2, <2>3, GallerySound
      <3>2. UNCHANGED <<favorites, owed, row>> BY <3>1 DEF Pictured, Apart, social
      <3> QED BY <1>2, <3>1, <3>2, FavoritesAside DEF Pictured, Among, GalleryPoints
    <2>4. ASSUME NEW r \in Reqs, Die(r) PROVE Favorites'
      <3> DEFINE I == Cardinality(AtAny({"fav_inc"}))
                 D == Cardinality(AtAny({"fav_dec"}))
      <3>1. /\ Only(r) /\ req'[r].pc = "idle" /\ UNCHANGED <<row, favorites>>
        BY <1>2, <2>4, DieSound, IdleOK DEF social
      <3>2. I \in Nat /\ D \in Nat BY <3>1, Moved
      <3>3. row.favs \in Int /\ owed \in Int /\ Cardinality(favorites) \in Nat
        BY <1>2, TypeParts, FS_CardinalityType DEF Sound, RowOK, Row, OtherOK, Favorites
      <3>4. CASE req[r].pc = "fav_inc"
        <4>1. owed' = owed + 1 BY <2>4, <3>4 DEF Die, At
        <4>2. I' = I - 1 /\ D' = D BY <3>1, <3>4, Moved
        <4> QED BY <1>2, <3>1, <3>2, <3>3, <4>1, <4>2 DEF Favorites
      <3>5. CASE req[r].pc = "fav_dec"
        <4>1. owed' = owed - 1 BY <2>4, <3>5 DEF Die, At
        <4>2. I' = I /\ D' = D - 1 BY <3>1, <3>5, Moved
        <4> QED BY <1>2, <3>1, <3>2, <3>3, <4>1, <4>2 DEF Favorites
      <3>6. CASE req[r].pc \notin {"fav_inc", "fav_dec"}
        <4>1. owed' = owed BY <2>4, <3>6 DEF Die, At
        <4> QED BY <1>2, <3>1, <3>6, <4>1, FavoritesAside
      <3> QED BY <3>4, <3>5, <3>6
    <2>5. ASSUME NEW c \in Caches, Expire(c) PROVE Favorites'
      BY <1>2, <2>5 DEF Expire, social, ghosts, Favorites, AtAny
    <2>6. ASSUME UNCHANGED vars PROVE Favorites'
      BY <1>2, <2>6 DEF vars, social, ghosts, Favorites, AtAny
    <2> QED BY <1>2, <2>1, <2>2, <2>3, <2>4, <2>5, <2>6 DEF Next
  <1>3. Favorites => FavoritesCounted
    <2>1. /\ AtAny({"fav_inc"}) = {r \in Reqs : At(r, "fav_inc")}
          /\ AtAny({"fav_dec"}) = {r \in Reqs : At(r, "fav_dec")}
      BY DEF AtAny, At
    <2> QED BY <2>1 DEF Favorites, FavoritesCounted
  <1> QED BY <1>1, <1>2, <1>3, SoundHolds, PTL DEF Spec

-----------------------------------------------------------------------------
(* Reviews.  Transactions in flight are about different bookings, none of  *)
(* which has a review yet, and the average of each counts its own review   *)
(* and every committed one but those that crossed another.                 *)

Writing(q) == At(q, "review_commit")
Averaged(q) ==
    /\ req[q].counted \subseteq GuestReviews \cup {req[q].stay}
    /\ req[q].stay \in req[q].counted
    /\ GuestReviews \ req[q].counted \subseteq crossed

Apiece == /\ \A q \in Reqs : Writing(q) => review[req[q].stay] = NONE
          /\ \A p, q \in Reqs : p # q /\ Writing(p) /\ Writing(q) =>
                 req[p].stay # req[q].stay
Averages == \A q \in Reqs : Writing(q) /\ req[q].by = "guest" => Averaged(q)

Ratings == Apiece /\ Averages /\ RatingCounts

LEMMA RatingsAside ==
    ASSUME Ratings, NEW r \in Reqs, Only(r), UNCHANGED <<review, crossed>>,
           row'.rated = row.rated, req'[r].pc # "review_commit"
    PROVE  Ratings'
  <1>1. GuestReviews' = GuestReviews BY DEF GuestReviews
  <1>2. \A q \in Reqs : Writing(q)' => Writing(q) /\ req'[q] = req[q]
    BY DEF Writing, At, Only
  <1>3. Apiece' BY <1>2 DEF Ratings, Apiece
  <1>4. Averages' BY <1>1, <1>2 DEF Ratings, Averages, Averaged
  <1>5. RatingCounts' BY <1>1 DEF Ratings, RatingCounts
  <1> QED BY <1>3, <1>4, <1>5 DEF Ratings

LEMMA RatingsFeedback ==
    ASSUME Sound, Ratings, NEW r \in Reqs, FeedbackStep(r)
    PROVE  Ratings'
  <1>0. /\ ReqOK /\ RowOK /\ SocialOK /\ Right(req[r]) /\ Only(r) /\ row \in Row
        /\ req[r] \in Request /\ req \in [Reqs -> Request]
    BY TypeParts, FeedbackSound DEF Sound, Underway, RowOK, ReqOK, Responded
  <1>1. ASSUME FavRead(r) PROVE Ratings'
    <2>1. PICK u \in Users, p \in {"fav_create", "fav_delete"} : Start(r, Toggle(u, p))
      BY <1>1 DEF FavRead, Toggle
    <2>2. req'[r].pc = p BY <1>0, <2>1, ToggleOpens, Started
    <2> QED BY <1>0, <1>1, <2>2, RatingsAside DEF FavRead, social, Aside
  <1>2. ASSUME FavCreate(r) \/ FavDelete(r) PROVE Ratings'
    <2>1. Finish(r) \/ Goto(r, "fav_inc") \/ Goto(r, "fav_dec")
      BY <1>2 DEF FavCreate, FavDelete
    <2>2. "fav_inc" \in Points /\ "fav_dec" \in Points BY DEF Points
    <2>3. req'[r].pc \in {"idle", "fav_inc", "fav_dec"}
      BY <1>0, <2>1, <2>2, Finished, IdleOK, Went
    <2>4. UNCHANGED <<row, review, crossed>> BY <1>2 DEF FavCreate, FavDelete, Aside
    <2> QED BY <1>0, <2>3, <2>4, RatingsAside
  <1>3. ASSUME FavCount(r) PROVE Ratings'
    <2>1. req'[r].pc = "idle" /\ UNCHANGED <<review, crossed>>
      BY <1>0, <1>3, Finished, IdleOK DEF FavCount, social, Aside
    <2>2. row'.rated = row.rated BY <1>0, <1>3 DEF FavCount, Row
    <2> QED BY <1>0, <2>1, <2>2, RatingsAside
  <1>4. ASSUME ReviewRead(r) PROVE Ratings'
    <2>1. PICK s \in Stays, by \in {"guest", "host"} : Start(r, Rate(s, by))
      BY <1>4 DEF ReviewRead, Rate
    <2>2. req'[r].pc = "review_insert" BY <1>0, <2>1, RateOpens, Started
    <2> QED BY <1>0, <1>4, <2>2, RatingsAside DEF ReviewRead, social, Aside
  <1>5. ASSUME ReviewInsert(r) PROVE Ratings'
    <2>0. UNCHANGED <<row, review, crossed>> BY <1>5 DEF ReviewInsert, social, Aside
    <2>1. CASE Finish(r)
      <3>1. req'[r].pc = "idle" BY <1>0, <2>1, Finished, IdleOK
      <3> QED BY <1>0, <2>0, <3>1, RatingsAside
    <2>2. CASE ~Finish(r)
      <3>1. /\ review[req[r].stay] = NONE
            /\ req'[r] = [req[r] EXCEPT !.pc = "review_commit", !.counted = Counted(r)]
        BY <1>0, <1>5, <2>2 DEF ReviewInsert
      <3>2. /\ req'[r].stay = req[r].stay /\ req'[r].by = req[r].by
            /\ req'[r].counted = Counted(r) /\ req'[r].pc = "review_commit"
        BY <1>0, <3>1 DEF Request
      <3>3. \A q \in Reqs : Writing(q) => req[q].stay # req[r].stay
        BY <1>5 DEF ReviewInsert, Writing
      <3>4. \A q \in Reqs \ {r} : (Writing(q)' => Writing(q)) /\ req'[q] = req[q]
        BY <1>0 DEF Writing, At, Only
      <3>5. GuestReviews' = GuestReviews BY <2>0 DEF GuestReviews
      <3>6. Apiece'
        <4>1. ASSUME NEW q \in Reqs, Writing(q)' PROVE review'[req'[q].stay] = NONE
          <5>1. CASE q = r BY <2>0, <3>1, <3>2, <5>1
          <5>2. CASE q # r BY <2>0, <3>4, <4>1, <5>2 DEF Ratings, Apiece
          <5> QED BY <5>1, <5>2
        <4>2. ASSUME NEW p \in Reqs, NEW q \in Reqs, p # q, Writing(p)', Writing(q)'
              PROVE  req'[p].stay # req'[q].stay
          <5>1. CASE p = r BY <3>2, <3>3, <3>4, <4>2, <5>1
          <5>2. CASE q = r BY <3>2, <3>3, <3>4, <4>2, <5>2
          <5>3. CASE p # r /\ q # r BY <3>4, <4>2, <5>3 DEF Ratings, Apiece
          <5> QED BY <5>1, <5>2, <5>3
        <4> QED BY <4>1, <4>2 DEF Apiece
      <3>7. Averages'
        <4> SUFFICES ASSUME NEW q \in Reqs, Writing(q)', req'[q].by = "guest"
                     PROVE  Averaged(q)'
          BY DEF Averages
        <4>1. CASE q = r
          <5>1. req'[r].counted = GuestReviews \cup {req[r].stay}
            BY <3>2, <4>1 DEF Counted
          <5> QED BY <3>2, <3>5, <4>1, <5>1 DEF Averaged
        <4>2. CASE q # r BY <2>0, <3>4, <3>5, <4>2 DEF Ratings, Averages, Averaged
        <4> QED BY <4>1, <4>2
      <3>8. RatingCounts' BY <2>0, <3>5 DEF Ratings, RatingCounts
      <3> QED BY <3>6, <3>7, <3>8 DEF Ratings
    <2> QED BY <2>1, <2>2
  <1>6. ASSUME ReviewCommit(r) PROVE Ratings'
    <2> DEFINE s == req[r].stay
               w == req[r].by
    <2>1. "del" \in Points BY DEF Points, DelPoints
    <2>2. /\ Writing(r) /\ req'[r].pc = "del" /\ s \in Stays /\ w \in {"guest", "host"}
          /\ review' = [review EXCEPT ![s] = w]
      BY <1>0, <1>6, <2>1, Went DEF ReviewCommit, At, Writing, Right
    <2>3. review[s] = NONE BY <2>2 DEF Ratings, Apiece
    <2>4. \A q \in Reqs : Writing(q)' => q # r /\ Writing(q) /\ req'[q] = req[q]
      BY <1>0, <2>2 DEF Writing, At, Only
    <2>5. \A q \in Reqs : Writing(q)' => req[q].stay # s
      BY <2>2, <2>4 DEF Ratings, Apiece
    <2>6. \A q \in Reqs : Writing(q) => req[q].stay \in Stays
      BY <1>0 DEF Sound, Underway, Right, Writing, At
    <2>7. Apiece' BY <1>0, <2>2, <2>4, <2>5, <2>6 DEF Ratings, Apiece, SocialOK
    <2>8. crossed \subseteq crossed' BY <1>6 DEF ReviewCommit
    <2>9. CASE w = "guest"
      <3>1. GuestReviews' = GuestReviews \cup {s}
        BY <1>0, <2>2, <2>9 DEF GuestReviews, SocialOK
      <3>2. row'.rated = req[r].counted
        <4> DEFINE p == [row EXCEPT !.rated = req[r].counted]
        <4>1. p \in Row /\ p.status = row.status /\ p.rated = req[r].counted
          BY <1>0 DEF Row, Request
        <4>2. row.status \in Statuses
          BY <1>0, <2>2, Copied DEF Right, Writers, Writing, At
        <4>3. Commit(p) BY <1>6, <2>9 DEF ReviewCommit
        <4> QED BY <1>0, <4>1, <4>2, <4>3, Committed
      <3>3. Averaged(r) BY <2>2, <2>9 DEF Ratings, Averages
      <3>4. RatingCounts' BY <2>8, <3>1, <3>2, <3>3 DEF Averaged, RatingCounts
      <3>5. Averages'
        <4> SUFFICES ASSUME NEW q \in Reqs, Writing(q)', req'[q].by = "guest"
                     PROVE  Averaged(q)'
          BY DEF Averages
        <4>1. q # r /\ Writing(q) /\ req'[q] = req[q] /\ Averaged(q)
          BY <2>4 DEF Ratings, Averages
        <4>2. s \in crossed' BY <1>6, <4>1 DEF ReviewCommit, Writing
        <4> QED BY <2>8, <3>1, <4>1, <4>2 DEF Averaged
      <3> QED BY <2>7, <3>4, <3>5 DEF Ratings
    <2>10. CASE w = "host"
      <3>1. GuestReviews' = GuestReviews
        BY <1>0, <2>2, <2>3, <2>10, ShopFacts DEF GuestReviews, SocialOK
      <3>2. row' = row BY <1>6, <2>10 DEF ReviewCommit
      <3>3. RatingCounts' BY <2>8, <3>1, <3>2 DEF Ratings, RatingCounts
      <3>4. Averages' BY <2>4, <2>8, <3>1 DEF Ratings, Averages, Averaged
      <3> QED BY <2>7, <3>3, <3>4 DEF Ratings
    <2> QED BY <2>2, <2>9, <2>10
  <1>7. ASSUME RespondRead(r) PROVE Ratings'
    <2>1. PICK s \in Stays : Start(r, Respond(s)) BY <1>7 DEF RespondRead, Respond
    <2>2. req'[r].pc = "respond_write" BY <1>0, <2>1, RespondOpens, Started
    <2> QED BY <1>0, <1>7, <2>2, RatingsAside DEF RespondRead, social, Aside
  <1>8. ASSUME RespondWrite(r) PROVE Ratings'
    <2>1. req'[r].pc = "idle" BY <1>0, <1>8, Finished, IdleOK DEF RespondWrite
    <2> QED BY <1>0, <1>8, <2>1, RatingsAside DEF RespondWrite, Aside
  <1> QED BY <1>1, <1>2, <1>3, <1>4, <1>5, <1>6, <1>7, <1>8 DEF FeedbackStep

(* reviews.create reads the average before another transaction commits and *)
(* writes it after: totalReviews never counts a review that is not there,  *)
(* and misses only those that committed between another one's average and  *)
(* its commit.                                                             *)
THEOREM RatingCountsHolds == Spec => []RatingCounts
  <1>1. ASSUME Init PROVE Ratings
    <2>1. \A r \in Reqs : req[r].pc = "idle" BY <1>1, IdleOK DEF Init
    <2>2. GuestReviews = {} BY <1>1, ShopFacts DEF Init, GuestReviews
    <2>3. row.rated = {}
      <3>1. Unlisted.rated = {} BY DEF Unlisted
      <3>2. [Unlisted EXCEPT !.status = "ACTIVE", !.approved = TRUE].rated = {}
        BY DEF Unlisted
      <3> QED BY <1>1, <3>1, <3>2 DEF Init
    <2>4. Apiece /\ Averages BY <2>1 DEF Apiece, Averages, Writing, At
    <2> QED BY <2>2, <2>3, <2>4 DEF Ratings, RatingCounts
  <1>2. ASSUME Sound, Ratings, [Next]_vars PROVE Ratings'
    <2>1. ASSUME NEW r \in Reqs, CatalogStep(r) PROVE Ratings'
      <3>1. Catalogued(r) BY <1>2, <2>1, CatalogSound
      <3>2. UNCHANGED <<review, crossed>> BY <3>1 DEF Catalogued, Still, social
      <3> QED BY <1>2, <3>1, <3>2, RatingsAside DEF Catalogued, Among, CatalogPoints, DelPoints
    <2>2. ASSUME NEW r \in Reqs, FeedbackStep(r) PROVE Ratings'
      BY <1>2, <2>2, RatingsFeedback
    <2>3. ASSUME NEW r \in Reqs, GalleryStep(r) PROVE Ratings'
      <3>1. Pictured(r) BY <1>2, <2>3, GallerySound
      <3>2. UNCHANGED <<review, crossed, row>> BY <3>1 DEF Pictured, Apart, social
      <3> QED BY <1>2, <3>1, <3>2, RatingsAside DEF Pictured, Among, GalleryPoints
    <2>4. ASSUME NEW r \in Reqs, Die(r) PROVE Ratings'
      <3>1. Only(r) /\ req'[r].pc = "idle" /\ UNCHANGED <<row, review, crossed>>
        BY <1>2, <2>4, DieSound, IdleOK DEF social
      <3> QED BY <1>2, <3>1, RatingsAside
    <2>5. ASSUME UNCHANGED <<row, req, review, crossed>> PROVE Ratings'
      BY <1>2, <2>5 DEF Ratings, Apiece, Averages, Averaged, RatingCounts, GuestReviews,
         Writing, At
    <2>6. ASSUME NEW c \in Caches, Expire(c) PROVE Ratings'
      BY <2>5, <2>6 DEF Expire, social, ghosts
    <2>7. ASSUME UNCHANGED vars PROVE Ratings'
      BY <2>5, <2>7 DEF vars, social, ghosts
    <2> QED BY <1>2, <2>1, <2>2, <2>3, <2>4, <2>6, <2>7 DEF Next
  <1>3. Ratings => RatingCounts BY DEF Ratings
  <1> QED BY <1>1, <1>2, <1>3, SoundHolds, PTL DEF Spec

-----------------------------------------------------------------------------
(* What a step may do to the row and its copies: nothing, a commit, an     *)
(* index, the loss of the cached page, a read or a fill.                   *)

Lists == {"list", "recommendations", "dashboard", "analytics"}

(* The row as its copies show it.                                          *)
SameShown == /\ row'.status = row.status /\ row'.deleted = row.deleted
             /\ row'.approved = row.approved /\ row'.ver = row.ver

Counts(r) == \/ served' = served + 1
             \/ served' = served /\ (req'[r].pc \in Writers => req[r].pc \in Writers)

Keeps(r) ==
    /\ UNCHANGED <<copies, past, excused>> /\ SameShown /\ Counts(r)
    /\ req'[r].snap \subseteq req[r].snap \cup FindAll
    /\ req'[r].pc # "cache_fill" /\ req[r].pc \notin DelPoints

Commits(r) ==
    /\ UNCHANGED <<copies, excused>>
    /\ Exists' /\ row'.ver = row.ver + 1 /\ past' = past \cup {Copy(row')}
    /\ \/ req'[r].pc \in DelPoints
       \/ req'[r].pc = "create_index" /\ ~Exists
    /\ served' = served + 1 \/ (served' = served /\ req[r].pc \in Writers)
    /\ req'[r].snap \subseteq req[r].snap \cup {Copy(row')}
    /\ row'.approved \/ (row'.approved = row.approved
                           /\ (row'.status = "ACTIVE" => row.status = "ACTIVE"))

Indexes(r) ==
    /\ UNCHANGED <<cache, row, past, excused, served>>
    /\ doc' \in req[r].snap \cup {doc, NONE}
    /\ req'[r] = Idle /\ req[r].pc \notin DelPoints

Drops(r) ==
    /\ DropPage /\ UNCHANGED <<row, doc, past, served>>
    /\ req'[r].snap \subseteq req[r].snap
    /\ req'[r].pc \notin Writers \cup {"cache_fill"}

Reads(r) ==
    /\ UNCHANGED <<copies, row, past, excused, served>>
    /\ req[r].pc = "cache_read" /\ req'[r].pc = "cache_fill"
    /\ req'[r].cache = req[r].cache /\ req[r].cache \in Caches
    /\ req'[r].snap \subseteq Source(req[r].cache)
    /\ req[r].cache = "page" => req'[r].snap # {}

Moves(r) == Keeps(r) \/ Commits(r) \/ Indexes(r) \/ Drops(r) \/ Reads(r)

LEMMA CatalogMoves ==
    ASSUME Sound, NEW r \in Reqs, CatalogStep(r)
    PROVE  Moves(r) \/ Fill(r)
  <1>0. /\ RowOK /\ CopiesOK /\ ReqOK /\ OtherOK /\ Right(req[r]) /\ row \in Row
        /\ req \in [Reqs -> Request] /\ req[r] \in Request
    BY TypeParts DEF Sound, Underway, ReqOK, RowOK
  <1>f. ASSUME Finish(r) PROVE req'[r] = Idle /\ req'[r].pc = "idle" /\ req'[r].snap = {}
    BY <1>0, <1>f, Finished, IdleOK
  <1>1. ASSUME Create(r) PROVE Commits(r)
    <2>1. PICK t \in Terms : Commit([row EXCEPT !.status = "DRAFT", !.terms = t])
      BY <1>1 DEF Create
    <2> DEFINE p == [row EXCEPT !.status = "DRAFT", !.terms = t]
    <2>2. p \in Row /\ p.status = "DRAFT" /\ p.approved = row.approved /\ p.ver = row.ver
      BY <1>0 DEF RowOK, Row, Statuses
    <2> HIDE DEF p
    <2>3. Commit(p) BY <2>1 DEF p
    <2>4. /\ Exists' /\ Copy(row') \in Snapshot /\ row'.approved = row.approved
          /\ row'.status = "DRAFT" /\ row'.ver = row.ver + 1
          /\ past' = past \cup {Copy(row')}
      BY <1>0, <2>2, <2>3, Committed DEF Statuses
    <2> DEFINE q == [Idle EXCEPT !.pc = "create_index", !.snap = {Copy(row')}]
    <2>5. q \in Request /\ q.pc = "create_index" /\ q.snap = {Copy(row')}
      BY <2>4, CatalogOpens
    <2>6. Start(r, q) BY <1>1 DEF Create
    <2> HIDE DEF q
    <2>7. req'[r] = q /\ served' = served + 1 BY <1>0, <2>5, <2>6, Started
    <2> QED BY <1>1, <2>4, <2>5, <2>7 DEF Commits, Create
  <1>2. ASSUME CreateIndex(r) \/ UpdateIndex(r) \/ ReindexOne(r) \/ RemoveDoc(r)
        PROVE  Indexes(r)
    <2>1. Finish(r) /\ UNCHANGED <<cache, row, past, excused, served>>
      BY <1>2 DEF CreateIndex, UpdateIndex, ReindexOne, IndexAt, RemoveDoc
    <2>2. doc' \in req[r].snap \cup {doc, NONE}
      BY <1>2 DEF CreateIndex, UpdateIndex, ReindexOne, IndexAt, IndexThem, RemoveDoc
    <2>3. req[r].pc \in {"create_index", "update_index", "reindex", "remove_doc"}
      BY <1>2 DEF CreateIndex, UpdateIndex, ReindexOne, IndexAt, RemoveDoc, At
    <2> QED BY <1>f, <2>1, <2>2, <2>3 DEF Indexes, DelPoints
  <1>3. ASSUME UpdateRead(r) \/ AmenitiesRead(r) \/ RemoveRead(r) PROVE Keeps(r)
    <2>1. PICK p \in {"update_write", "amenities_write", "remove_write", "del"} :
              Start(r, [Idle EXCEPT !.pc = p])
      BY <1>3 DEF UpdateRead, AmenitiesRead, RemoveRead
    <2>2. PICK q \in Request : q = [Idle EXCEPT !.pc = p] /\ q.pc = p /\ q.snap = {}
      BY CatalogOpens
    <2>3. Start(r, q) BY <2>1, <2>2
    <2>4. req'[r] = q /\ served' = served + 1 /\ req[r].pc = "idle" BY <1>0, <2>3, Started
    <2>5. UNCHANGED <<row, copies, past, excused>>
      BY <1>3 DEF UpdateRead, AmenitiesRead, RemoveRead
    <2> QED BY <2>2, <2>4, <2>5 DEF Keeps, SameShown, Counts, DelPoints
  <1>4. ASSUME UpdateWrite(r) PROVE Commits(r)
    <2>0. Exists /\ req[r].pc = "update_write" BY <1>0, <1>4 DEF UpdateWrite, At, Right, Writers
    <2>1. PICK t \in Terms : Commit([row EXCEPT !.terms = t]) BY <1>4 DEF UpdateWrite
    <2> DEFINE p == [row EXCEPT !.terms = t]
    <2>2. /\ p \in Row /\ p.status = row.status /\ p.approved = row.approved
          /\ p.ver = row.ver
      BY <1>0 DEF RowOK, Row
    <2> HIDE DEF p
    <2>3. Commit(p) BY <2>1 DEF p
    <2>4. /\ Exists' /\ Copy(row') \in Snapshot /\ row'.approved = row.approved
          /\ row'.status = row.status /\ row'.ver = row.ver + 1
          /\ past' = past \cup {Copy(row')}
      BY <1>0, <2>0, <2>2, <2>3, Committed, Copied
    <2>5. req'[r] = [req[r] EXCEPT !.pc = "update_del", !.snap = {Copy(row')}]
      BY <1>0, <1>4 DEF UpdateWrite
    <2>6. req'[r].pc = "update_del" /\ req'[r].snap = {Copy(row')}
      BY <1>0, <2>5 DEF Request
    <2> QED BY <1>4, <2>0, <2>4, <2>6 DEF Commits, UpdateWrite, DelPoints, Writers
  <1>5. ASSUME NEW p \in DelPoints, NEW n \in {"idle", "update_index", "remove_doc"},
               DelThen(r, p, n)
        PROVE  Drops(r)
    <2>1. req'[r].pc = n /\ req'[r].snap \subseteq req[r].snap
      <3>1. CASE n = "idle" BY <1>5, <1>f, <3>1 DEF DelThen
      <3>2. CASE n # "idle"
        <4>1. n \in Points BY DEF Points
        <4> QED BY <1>0, <1>5, <3>2, <4>1, Went DEF DelThen
      <3> QED BY <3>1, <3>2
    <2> QED BY <1>5, <2>1 DEF DelThen, Drops, Writers
  <1>6. ASSUME UpdateDel(r) \/ PageDel(r) \/ RemoveDel(r) PROVE Drops(r)
    BY <1>5, <1>6 DEF UpdateDel, PageDel, RemoveDel, DelPoints
  <1>7. ASSUME NEW n \in {"del", "remove_del"}, NEW w \in Row, w.status \in Statuses,
               w.ver = row.ver, w.approved = row.approved,
               w.status = "ACTIVE" => row.status = "ACTIVE",
               req[r].pc \in Writers, Commit(w), Goto(r, n), UNCHANGED <<copies, served, excused>>
        PROVE  Commits(r)
    <2>1. n \in Points BY DEF Points, DelPoints
    <2>2. req'[r].pc = n /\ req'[r].snap = req[r].snap BY <1>0, <1>7, <2>1, Went
    <2>3. /\ Exists' /\ row'.approved = row.approved /\ row'.status = w.status
          /\ row'.ver = row.ver + 1 /\ past' = past \cup {Copy(row')}
      BY <1>0, <1>7, Committed
    <2> QED BY <1>7, <2>2, <2>3 DEF Commits, DelPoints
  <1>8. ASSUME AmenitiesWrite(r) PROVE Commits(r)
    <2>1. row \in Row /\ row.status \in Statuses
      BY <1>0, <1>8, Copied DEF AmenitiesWrite, At, Right, Writers
    <2> QED BY <1>7, <1>8, <2>1 DEF AmenitiesWrite, At, Writers
  <1>9. ASSUME RemoveWrite(r) PROVE Commits(r)
    <2> DEFINE w == [row EXCEPT !.status = "ARCHIVED", !.deleted = TRUE]
    <2>1. /\ w \in Row /\ w.status = "ARCHIVED" /\ w.ver = row.ver
          /\ w.approved = row.approved
      BY <1>0 DEF RowOK, Row, Statuses
    <2>2. Commit(w) BY <1>9 DEF RemoveWrite
    <2> HIDE DEF w
    <2> QED BY <1>7, <1>9, <2>1, <2>2 DEF RemoveWrite, At, Writers, Statuses
  <1>10. ASSUME NEW w \in Row, w.status \in Statuses, w.ver = row.ver,
                w.approved \/ (w.approved = row.approved /\ w.status # "ACTIVE"),
                Commit(w), Start(r, [Idle EXCEPT !.pc = "del"]), UNCHANGED <<copies, excused>>
         PROVE  Commits(r)
    <2>1. /\ Exists' /\ row'.approved = w.approved /\ row'.status = w.status
          /\ row'.ver = row.ver + 1 /\ past' = past \cup {Copy(row')}
      BY <1>0, <1>10, Committed
    <2>2. PICK q \in Request : q = [Idle EXCEPT !.pc = "del"] /\ q.pc = "del" /\ q.snap = {}
      BY CatalogOpens
    <2>3. Start(r, q) BY <1>10, <2>2
    <2>4. req'[r] = q /\ served' = served + 1 BY <1>0, <2>3, Started
    <2> QED BY <1>10, <2>1, <2>2, <2>4 DEF Commits, DelPoints
  <1>11. ASSUME Approve(r) PROVE Commits(r)
    <2> DEFINE w == [row EXCEPT !.status = "ACTIVE", !.approved = TRUE]
    <2>1. w \in Row /\ w.status \in Statuses /\ w.ver = row.ver /\ w.approved
      BY <1>0 DEF RowOK, Row, Statuses
    <2>2. Commit(w) BY <1>11 DEF Approve
    <2> HIDE DEF w
    <2> QED BY <1>10, <1>11, <2>1, <2>2 DEF Approve
  <1>12. ASSUME Suspend(r) PROVE Commits(r)
    <2> DEFINE w == [row EXCEPT !.status = "SUSPENDED"]
    <2>1. /\ w \in Row /\ w.status = "SUSPENDED" /\ w.ver = row.ver
          /\ w.approved = row.approved
      BY <1>0 DEF RowOK, Row, Statuses
    <2>2. Commit(w) BY <1>12 DEF Suspend
    <2> HIDE DEF w
    <2> QED BY <1>10, <1>12, <2>1, <2>2 DEF Suspend, Statuses
  <1>13. ASSUME Miss(r) PROVE Keeps(r)
    <2>1. PICK c \in Caches : Start(r, [Idle EXCEPT !.pc = "cache_read", !.cache = c])
      BY <1>13 DEF Miss
    <2> DEFINE q == [Idle EXCEPT !.pc = "cache_read", !.cache = c]
    <2>2. q \in Request /\ q.pc = "cache_read" /\ q.snap = {} BY CatalogOpens
    <2> HIDE DEF q
    <2>3. Start(r, q) BY <2>1 DEF q
    <2>4. req'[r] = q /\ served' = served + 1 /\ req[r].pc = "idle"
      BY <1>0, <2>2, <2>3, Started
    <2> QED BY <1>13, <2>2, <2>4 DEF Miss, Keeps, SameShown, Counts, DelPoints
  <1>14. ASSUME Read(r) PROVE Keeps(r) \/ Reads(r)
    <2>0. /\ UNCHANGED <<row, copies, served, past, excused>> /\ req[r].pc = "cache_read"
          /\ req[r].cache \in Caches
      BY <1>0, <1>14 DEF Read, At, Right
    <2>1. CASE Finish(r)
      BY <1>f, <2>0, <2>1 DEF Keeps, SameShown, Counts, DelPoints, Writers
    <2>2. CASE ~Finish(r)
      <3>1. PICK S \in SUBSET Source(req[r].cache) :
                /\ req[r].cache = "page" => S # {}
                /\ req' = [req EXCEPT ![r].pc = "cache_fill", ![r].snap = S]
        BY <1>14, <2>2 DEF Read
      <3>2. req'[r] = [req[r] EXCEPT !.pc = "cache_fill", !.snap = S]
        BY <1>0, <3>1
      <3>3. /\ req'[r].pc = "cache_fill" /\ req'[r].cache = req[r].cache
            /\ req'[r].snap = S
        BY <1>0, <3>2 DEF Request
      <3> QED BY <2>0, <3>1, <3>3 DEF Reads
    <2> QED BY <2>1, <2>2
  <1>15. ASSUME ReindexRead(r) PROVE Keeps(r)
    <2>1. PICK q \in Request : q = [Idle EXCEPT !.pc = "reindex", !.snap = FindAll]
              /\ q.pc = "reindex" /\ q.snap = FindAll
      BY <1>0, CatalogOpens, Sources
    <2>2. Start(r, q) BY <1>15, <2>1 DEF ReindexRead
    <2>3. req'[r] = q /\ served' = served + 1 /\ req[r].pc = "idle" BY <1>0, <2>2, Started
    <2> QED BY <1>15, <2>1, <2>3 DEF ReindexRead, Keeps, SameShown, Counts, DelPoints
  <1> QED BY <1>1, <1>2, <1>3, <1>4, <1>6, <1>8, <1>9, <1>11, <1>12, <1>13, <1>14, <1>15
          DEF CatalogStep, Moves

LEMMA GalleryMoves ==
    ASSUME Sound, NEW r \in Reqs, GalleryStep(r)
    PROVE  Keeps(r)
  <1>1. Pictured(r) BY GallerySound
  <1>2. served' = served \/ served' = served + 1
    BY DEF GalleryStep, AddRead, Insert, ReorderStart, ReorderOne, SetPrimary, DeleteRead,
       DeleteRow, Start
  <1> QED BY <1>1, <1>2 DEF Pictured, Apart, Among, GalleryPoints, Keeps, SameShown, Counts,
             DelPoints, Writers

LEMMA FeedbackMoves ==
    ASSUME Sound, NEW r \in Reqs, FeedbackStep(r)
    PROVE  Keeps(r) \/ Commits(r)
  <1>0. /\ RowOK /\ ReqOK /\ Right(req[r]) /\ row \in Row /\ req \in [Reqs -> Request]
        /\ req[r] \in Request /\ Responded(r)
    BY TypeParts, FeedbackSound DEF Sound, Underway, ReqOK, RowOK
  <1>1. ASSUME SameShown, past' = past, Counts(r) PROVE Keeps(r)
    BY <1>0, <1>1 DEF Responded, FeedbackPoints, Keeps, DelPoints
  <1>2. ASSUME FavRead(r) \/ ReviewRead(r) \/ RespondRead(r) PROVE Keeps(r)
    BY <1>1, <1>2 DEF FavRead, ReviewRead, RespondRead, Start, Aside, SameShown, Counts
  <1>3. ASSUME FavCreate(r) \/ FavDelete(r) \/ RespondWrite(r) PROVE Keeps(r)
    <2>1. Finish(r) \/ Goto(r, "fav_inc") \/ Goto(r, "fav_dec")
      BY <1>3 DEF FavCreate, FavDelete, RespondWrite
    <2>2. "fav_inc" \in Points /\ "fav_dec" \in Points BY DEF Points
    <2>3. req'[r].pc \in {"idle", "fav_inc", "fav_dec"}
      BY <1>0, <2>1, <2>2, Finished, IdleOK, Went
    <2>4. UNCHANGED <<row, past, served>> BY <1>3 DEF FavCreate, FavDelete, RespondWrite, Aside
    <2> QED BY <1>1, <2>3, <2>4 DEF SameShown, Counts, Writers
  <1>4. ASSUME FavCount(r) PROVE Keeps(r)
    <2>1. req'[r].pc = "idle" /\ UNCHANGED <<past, served>>
      BY <1>0, <1>4, Finished, IdleOK DEF FavCount, Aside
    <2>2. SameShown BY <1>0, <1>4 DEF FavCount, SameShown, Row
    <2> QED BY <1>1, <2>1, <2>2 DEF Counts, Writers
  <1>5. ASSUME ReviewInsert(r) PROVE Keeps(r)
    BY <1>1, <1>5 DEF ReviewInsert, Aside, At, SameShown, Counts, Writers
  <1>6. ASSUME ReviewCommit(r) PROVE Keeps(r) \/ Commits(r)
    <2>1. "del" \in Points BY DEF Points, DelPoints
    <2>2. /\ req[r].pc = "review_commit" /\ req'[r].pc = "del"
          /\ req'[r].snap = req[r].snap /\ served' = served
      BY <1>0, <1>6, <2>1, Went DEF ReviewCommit, At
    <2>3. CASE req[r].by = "guest"
      <3> DEFINE p == [row EXCEPT !.rated = req[r].counted]
      <3>1. /\ p \in Row /\ p.status = row.status /\ p.approved = row.approved
            /\ p.ver = row.ver
        BY <1>0 DEF Row, Request
      <3>2. row.status \in Statuses BY <1>0, <2>2, Copied DEF Right, Writers
      <3>3. Commit(p) BY <1>6, <2>3 DEF ReviewCommit
      <3> HIDE DEF p
      <3>4. /\ Exists' /\ row'.approved = row.approved /\ row'.status = row.status
            /\ row'.ver = row.ver + 1 /\ past' = past \cup {Copy(row')}
        BY <1>0, <3>1, <3>2, <3>3, Committed
      <3> QED BY <1>6, <2>2, <3>4 DEF ReviewCommit, Commits, DelPoints, Writers
    <2>4. CASE req[r].by # "guest"
      BY <1>1, <1>6, <2>2, <2>4 DEF ReviewCommit, SameShown, Counts, Writers
    <2> QED BY <2>3, <2>4
  <1> QED BY <1>2, <1>3, <1>4, <1>5, <1>6 DEF FeedbackStep

LEMMA NextMoves ==
    ASSUME Sound, [Next]_vars
    PROVE  \/ \E r \in Reqs : Only(r) /\ (Moves(r) \/ Fill(r) \/ Die(r))
           \/ \E c \in Caches : Expire(c)
           \/ UNCHANGED vars
  <1>1. ASSUME NEW r \in Reqs, CatalogStep(r) PROVE Only(r) /\ (Moves(r) \/ Fill(r))
    BY <1>1, CatalogSound, CatalogMoves DEF Catalogued
  <1>2. ASSUME NEW r \in Reqs, FeedbackStep(r) PROVE Only(r) /\ Moves(r)
    BY <1>2, FeedbackSound, FeedbackMoves DEF Responded, Moves
  <1>3. ASSUME NEW r \in Reqs, GalleryStep(r) PROVE Only(r) /\ Moves(r)
    BY <1>3, GallerySound, GalleryMoves DEF Pictured, Moves
  <1>4. ASSUME NEW r \in Reqs, Die(r) PROVE Only(r) BY <1>4, DieSound
  <1> QED BY <1>1, <1>2, <1>3, <1>4 DEF Next

LEMMA LiveKept == ASSUME SameShown PROVE Live' = Live /\ Exists' = Exists
  BY DEF SameShown, Live, Found, Exists, Copy

-----------------------------------------------------------------------------
(* The cached page.  A listing that does not exist is not in the cache nor *)
(* on its way to it.                                                       *)

Paged ==
    /\ cache["page"] # NONE => Exists
    /\ \A r \in Reqs : At(r, "cache_fill") /\ req[r].cache = "page" => Exists
    /\ PageStaleForAReason

LEMMA PagedStep ==
    ASSUME Sound, Paged, NEW r \in Reqs, Only(r), Moves(r) \/ Fill(r) \/ Die(r)
    PROVE  Paged'
  <1> USE DEF Paged
  <1>0. cache \in [Caches -> Cached \cup {NONE}] /\ "page" \in Caches
    BY TypeParts DEF Sound, CopiesOK, Caches
  <1>a. ASSUME UNCHANGED <<cache, excused>>, Live' = Live, Exists' = Exists,
               req[r].pc \notin DelPoints, req'[r].pc # "cache_fill"
        PROVE  Paged'
    <2>1. \A q \in Reqs : req[q].pc \in DelPoints => req'[q].pc \in DelPoints
      BY <1>a DEF Only
    <2>2. PageStaleForAReason' BY <1>a, <2>1 DEF PageStaleForAReason
    <2>3. \A q \in Reqs : At(q, "cache_fill")' => At(q, "cache_fill") /\ req'[q] = req[q]
      BY <1>a DEF At, Only
    <2> QED BY <1>a, <2>2, <2>3
  <1>1. CASE Keeps(r)
    <2>1. Live' = Live /\ Exists' = Exists BY <1>1, LiveKept DEF Keeps
    <2> QED BY <1>1, <1>a, <2>1 DEF Keeps, copies
  <1>2. CASE Commits(r)
    <2>1. cache' = cache /\ Exists' BY <1>2 DEF Commits, copies
    <2>2. CASE req'[r].pc \in DelPoints BY <2>1, <2>2 DEF PageStaleForAReason
    <2>3. CASE ~Exists
      <3>1. cache'["page"] = NONE BY <2>1, <2>3
      <3> QED BY <2>1, <3>1 DEF PageStaleForAReason
    <2> QED BY <1>2, <2>2, <2>3 DEF Commits
  <1>3. CASE Indexes(r)
    <2>1. Live' = Live /\ Exists' = Exists
      BY <1>3, LiveKept DEF Indexes, SameShown
    <2> QED BY <1>3, <1>a, <2>1, IdleOK DEF Indexes
  <1>4. CASE Drops(r)
    <2>1. cache'["page"] = NONE \/ (cache' = cache /\ excused')
      BY <1>0, <1>4 DEF Drops, DropPage
    <2>2. Exists' = Exists BY <1>4 DEF Drops, Exists
    <2>3. PageStaleForAReason' BY <2>1 DEF PageStaleForAReason
    <2>4. \A q \in Reqs : At(q, "cache_fill")' => At(q, "cache_fill") /\ req'[q] = req[q]
      BY <1>4 DEF At, Only, Drops
    <2> QED BY <2>1, <2>2, <2>3, <2>4
  <1>5. CASE Reads(r)
    <2>1. UNCHANGED <<cache, row, excused>> /\ req[r].pc \notin DelPoints
      BY <1>5 DEF Reads, copies, DelPoints
    <2>2. Live' = Live /\ Exists' = Exists BY <2>1 DEF Live, Found, Exists, Copy
    <2>3. \A q \in Reqs : req[q].pc \in DelPoints => req'[q].pc \in DelPoints
      BY <2>1 DEF Only
    <2>4. PageStaleForAReason' BY <2>1, <2>2, <2>3 DEF PageStaleForAReason
    <2>5. ASSUME NEW q \in Reqs, At(q, "cache_fill")', req'[q].cache = "page"
          PROVE  Exists
      <3>1. CASE q = r
        <4>1. req[r].cache = "page" /\ req'[r].snap # {} /\ req'[r].snap \subseteq Live
          BY <1>5, <2>5, <3>1 DEF Reads, Source, FindOne
        <4> QED BY <4>1 DEF Live, Found
      <3>2. CASE q # r BY <2>5, <3>2 DEF Only, At
      <3> QED BY <3>1, <3>2
    <2> QED BY <2>1, <2>2, <2>4, <2>5
  <1>6. CASE Fill(r)
    <2>0. /\ row' = row /\ Finish(r) /\ req[r].pc = "cache_fill" /\ req'[r].pc = "idle"
          /\ req[r].cache \in Caches
      BY <1>6, TypeParts, Finished, IdleOK DEF Fill, At, Sound, Underway, Right
    <2>1. Live' = Live /\ Exists' = Exists BY <2>0 DEF Live, Found, Exists, Copy
    <2>2. CASE UNCHANGED <<cache, excused>>
      BY <1>a, <2>0, <2>1, <2>2 DEF DelPoints
    <2>3. CASE /\ cache' = [cache EXCEPT ![req[r].cache] = Filled(req[r].snap)]
               /\ excused' = IF req[r].cache = "page" THEN ~Fresh(req[r].snap) ELSE excused
      <3>1. CASE req[r].cache = "page"
        <4>1. cache'["page"] = Filled(req[r].snap) BY <1>0, <2>3, <3>1
        <4>2. cache'["page"].shown = req[r].snap BY <4>1 DEF Filled
        <4>3. excused' \/ cache'["page"].shown = Live'
          BY <2>1, <2>3, <3>1, <4>2 DEF Fresh
        <4>4. Exists BY <2>0, <3>1 DEF At
        <4> QED BY <2>1, <4>3, <4>4 DEF PageStaleForAReason
      <3>2. CASE req[r].cache # "page"
        <4>1. cache'["page"] = cache["page"] /\ excused' = excused
          BY <1>0, <2>0, <2>3, <3>2
        <4>2. \A q \in Reqs : req[q].pc \in DelPoints => req'[q].pc \in DelPoints
          BY <2>0 DEF Only, DelPoints
        <4>3. PageStaleForAReason' BY <2>1, <4>1, <4>2 DEF PageStaleForAReason
        <4>4. \A q \in Reqs : At(q, "cache_fill")' => At(q, "cache_fill") /\ req'[q] = req[q]
          BY <2>0 DEF At, Only
        <4> QED BY <2>1, <4>1, <4>3, <4>4
      <3> QED BY <3>1, <3>2
    <2> QED BY <1>6, <2>2, <2>3 DEF Fill
  <1>7. CASE Die(r)
    <2>1. UNCHANGED <<row, cache>> /\ req'[r] = Idle BY <1>7, DieSound DEF copies
    <2>2. Live' = Live /\ Exists' = Exists BY <2>1 DEF Live, Found, Exists, Copy
    <2>3. excused' = (excused \/ req[r].pc \in DelPoints) BY <1>7 DEF Die
    <2>4. \A q \in Reqs \ {r} : req'[q] = req[q] BY DEF Only
    <2>5. PageStaleForAReason' BY <2>1, <2>2, <2>3, <2>4 DEF PageStaleForAReason
    <2>6. \A q \in Reqs : At(q, "cache_fill")' => At(q, "cache_fill") /\ req'[q] = req[q]
      BY <2>1, <2>4, IdleOK DEF At
    <2> QED BY <2>1, <2>2, <2>5, <2>6
  <1> QED BY <1>1, <1>2, <1>3, <1>4, <1>5, <1>6, <1>7 DEF Moves

(* properties.service.ts: the cached page is the present row, but while    *)
(* the handler that changed the row has yet to delete it, after a reader   *)
(* that the change overtook filled it, or when the DEL was lost.           *)
THEOREM PageStaleForAReasonHolds == Spec => []PageStaleForAReason
  <1>1. ASSUME Init PROVE Paged
    <2>1. cache["page"] = NONE /\ \A r \in Reqs : req[r].pc = "idle"
      BY <1>1, IdleOK DEF Init, Caches
    <2> QED BY <2>1 DEF Paged, PageStaleForAReason, At
  <1>2. ASSUME Sound, Paged, [Next]_vars PROVE Paged'
    <2>1. ASSUME NEW c \in Caches, Expire(c) PROVE Paged'
      <3>1. cache \in [Caches -> Cached \cup {NONE}] /\ "page" \in Caches
        BY <1>2, TypeParts DEF Sound, CopiesOK, Caches
      <3>2. /\ UNCHANGED <<row, req, excused>>
            /\ cache'["page"] = NONE \/ cache'["page"] = cache["page"]
        BY <2>1, <3>1 DEF Expire, ghosts
      <3> QED BY <1>2, <3>2 DEF Paged, PageStaleForAReason, Live, Found, Exists, Copy, At
    <2>2. ASSUME UNCHANGED vars PROVE Paged'
      BY <1>2, <2>2 DEF vars, copies, ghosts, Paged, PageStaleForAReason, Live, Found,
         Exists, Copy, At
    <2> QED BY <1>2, <2>1, <2>2, NextMoves, PagedStep
  <1>3. Paged => PageStaleForAReason BY DEF Paged
  <1> QED BY <1>1, <1>2, <1>3, SoundHolds, PTL DEF Spec

-----------------------------------------------------------------------------
(* The approval.  Until the administrator's, the row is not active, nor is *)
(* any snapshot of it: in the index, in a cache or in a handler's hands.   *)

Passive(S) == \A s \in S : s.status # "ACTIVE"

Unapproved ==
    /\ row.status # "ACTIVE" /\ Passive(Document)
    /\ \A c \in Lists : cache[c] = NONE \/ cache[c].shown = {}
    /\ \A r \in Reqs : Passive(req[r].snap)
    /\ \A r \in Reqs : At(r, "cache_fill") /\ req[r].cache \in Lists => req[r].snap = {}

Reviewed == row.approved \/ Unapproved

LEMMA PassiveSources ==
    ASSUME Unapproved
    PROVE  /\ Active(Document) = {} /\ Active(Live) = {} /\ Active(Rows) = {}
           /\ \A c \in Lists : Source(c) = {}
           /\ \A c \in Caches : Passive(Source(c))
  <1>1. Active(Document) = {} BY DEF Unapproved, Active, Passive
  <1>2. Passive(Live) /\ Passive(Rows) BY DEF Unapproved, Passive, Live, Rows, Copy
  <1>3. Active(Live) = {} /\ Active(Rows) = {} BY <1>2 DEF Active, Passive
  <1>4. \A c \in Lists : Source(c) = {}
    BY <1>1, <1>3 DEF Lists, Source, FindAll, GetRecommendations, GetDashboardStats,
       GetHostAnalytics
  <1>5. Source("page") = Live /\ Source("autocomplete") = Document
    BY DEF Source, FindOne, Autocomplete
  <1>6. \A c \in Caches : c \in Lists \/ c = "page" \/ c = "autocomplete"
    BY DEF Caches, Lists
  <1>7. Passive({}) BY DEF Passive
  <1>8. Passive(Document) BY DEF Unapproved
  <1>9. ASSUME NEW c \in Caches PROVE Passive(Source(c))
    <2>1. CASE c \in Lists BY <1>4, <1>7, <2>1
    <2>2. CASE c = "page" BY <1>2, <1>5, <2>2
    <2>3. CASE c = "autocomplete" BY <1>5, <1>8, <2>3
    <2> QED BY <1>6, <2>1, <2>2, <2>3
  <1> QED BY <1>1, <1>3, <1>4, <1>9

LEMMA ReviewedStep ==
    ASSUME Sound, Reviewed, NEW r \in Reqs, Only(r), Moves(r) \/ Fill(r) \/ Die(r)
    PROVE  Reviewed'
  <1>0. /\ cache \in [Caches -> Cached \cup {NONE}] /\ Lists \subseteq Caches
        /\ ReqOK /\ "page" \notin Lists
    BY TypeParts DEF Sound, CopiesOK, Caches, Lists
  <1>1. ASSUME row.approved PROVE row'.approved
    <2>1. CASE Moves(r)
      BY <1>1, <2>1 DEF Moves, Keeps, SameShown, Commits, Indexes, Drops, Reads
    <2>2. CASE Fill(r) BY <1>1, <2>2 DEF Fill
    <2>3. CASE Die(r) BY <1>1, <2>3, DieSound
    <2> QED BY <2>1, <2>2, <2>3
  <1> SUFFICES ASSUME Unapproved, ~row'.approved PROVE Unapproved'
    BY <1>1 DEF Reviewed
  <1>e. Passive({}) BY DEF Passive
  <1>p. ASSUME NEW S, NEW T, S \subseteq T, Passive(T) PROVE Passive(S)
    BY <1>p DEF Passive
  <1>q. Passive(req[r].snap) /\ Passive(Document) BY DEF Unapproved
  <1>a. ASSUME row'.status # "ACTIVE", Passive(Document)', UNCHANGED cache,
               Passive(req'[r].snap), req'[r].pc # "cache_fill"
        PROVE  Unapproved'
    <2>1. \A q \in Reqs : Passive(req'[q].snap)
      <3> TAKE q \in Reqs
      <3>1. CASE q = r BY <1>a, <3>1
      <3>2. CASE q # r BY <3>2 DEF Only, Unapproved
      <3> QED BY <3>1, <3>2
    <2>2. \A q \in Reqs : At(q, "cache_fill")' => At(q, "cache_fill") /\ req'[q] = req[q]
      BY <1>a DEF At, Only
    <2> QED BY <1>a, <2>1, <2>2 DEF Unapproved, Passive
  <1>2. CASE Keeps(r)
    <2>1. Passive(FindAll)
      <3>1. FindAll = {} BY PassiveSources DEF FindAll
      <3> QED BY <1>e, <3>1
    <2>2. Passive(req'[r].snap) BY <1>2, <1>q, <2>1 DEF Keeps, Passive
    <2>3. row'.status # "ACTIVE" BY <1>2 DEF Keeps, SameShown, Unapproved
    <2>4. Passive(Document)' BY <1>2, <1>q DEF Keeps, copies, Document, Passive
    <2> QED BY <1>2, <1>a, <2>2, <2>3, <2>4 DEF Keeps, copies
  <1>3. CASE Commits(r)
    <2>1. row'.status # "ACTIVE" BY <1>3 DEF Commits, Unapproved
    <2>2. Passive({Copy(row')}) BY <2>1 DEF Passive, Copy
    <2>3. Passive(req'[r].snap) BY <1>3, <1>q, <2>2 DEF Commits, Passive
    <2>4. Passive(Document)' BY <1>3, <1>q DEF Commits, copies, Document, Passive
    <2>5. req'[r].pc # "cache_fill" BY <1>3 DEF Commits, DelPoints
    <2> QED BY <1>3, <1>a, <2>1, <2>3, <2>4, <2>5 DEF Commits, copies
  <1>4. CASE Indexes(r)
    <2>1. Passive(Document)' BY <1>4, <1>q DEF Indexes, Document, Passive
    <2> QED BY <1>4, <1>a, <1>e, <2>1, IdleOK DEF Indexes, Unapproved
  <1>5. CASE Drops(r)
    <2>1. Passive(req'[r].snap) BY <1>5, <1>p, <1>q DEF Drops
    <2>2. \A c \in Lists : cache'[c] = cache[c]
      BY <1>0, <1>5 DEF Drops, DropPage
    <2>3. \A q \in Reqs : Passive(req'[q].snap)
      <3> TAKE q \in Reqs
      <3>1. CASE q = r BY <2>1, <3>1
      <3>2. CASE q # r BY <3>2 DEF Only, Unapproved
      <3> QED BY <3>1, <3>2
    <2>4. \A q \in Reqs : At(q, "cache_fill")' => At(q, "cache_fill") /\ req'[q] = req[q]
      BY <1>5 DEF At, Only, Drops
    <2>5. UNCHANGED <<row, doc>> BY <1>5 DEF Drops
    <2>6. Passive(Document)' BY <1>q, <2>5 DEF Document, Passive
    <2> QED BY <2>2, <2>3, <2>4, <2>5, <2>6 DEF Unapproved
  <1>6. CASE Reads(r)
    <2>0. UNCHANGED <<cache, doc, row>> BY <1>6 DEF Reads, copies
    <2>1. Passive(req'[r].snap)
      <3>1. Passive(Source(req[r].cache)) BY <1>6, PassiveSources DEF Reads
      <3> QED BY <1>6, <1>p, <3>1 DEF Reads
    <2>2. req'[r].cache \in Lists => req'[r].snap = {}
      BY <1>6, PassiveSources DEF Reads
    <2>3. \A q \in Reqs : Passive(req'[q].snap)
      <3> TAKE q \in Reqs
      <3>1. CASE q = r BY <2>1, <3>1
      <3>2. CASE q # r BY <3>2 DEF Only, Unapproved
      <3> QED BY <3>1, <3>2
    <2>4. \A q \in Reqs : At(q, "cache_fill")' /\ req'[q].cache \in Lists => req'[q].snap = {}
      <3> TAKE q \in Reqs
      <3>1. CASE q = r BY <2>2, <3>1
      <3>2. CASE q # r BY <3>2 DEF Only, Unapproved, At
      <3> QED BY <3>1, <3>2
    <2>5. Passive(Document)' BY <1>q, <2>0 DEF Document, Passive
    <2> QED BY <2>0, <2>3, <2>4, <2>5 DEF Unapproved
  <1>7. CASE Fill(r)
    <2>0. /\ UNCHANGED <<row, doc>> /\ req'[r] = Idle /\ req[r].cache \in Caches
      BY <1>0, <1>7, Finished DEF Fill, At, Sound, Underway, Right
    <2>1. \A q \in Reqs : Passive(req'[q].snap)
      <3> TAKE q \in Reqs
      <3>1. CASE q = r BY <1>e, <2>0, <3>1, IdleOK
      <3>2. CASE q # r BY <3>2 DEF Only, Unapproved
      <3> QED BY <3>1, <3>2
    <2>2. \A q \in Reqs : At(q, "cache_fill")' => At(q, "cache_fill") /\ req'[q] = req[q]
      BY <2>0, IdleOK DEF At, Only
    <2>3. Passive(Document)' BY <1>q, <2>0 DEF Document, Passive
    <2>4. ASSUME NEW c \in Lists PROVE cache'[c] = NONE \/ cache'[c].shown = {}
      <3>1. CASE UNCHANGED cache BY <3>1 DEF Unapproved
      <3>2. CASE cache' = [cache EXCEPT ![req[r].cache] = Filled(req[r].snap)]
        <4>1. CASE c = req[r].cache
          <5>1. req[r].snap = {} BY <1>7, <4>1 DEF Unapproved, Fill
          <5>2. cache'[c] = Filled(req[r].snap) BY <1>0, <3>2, <4>1
          <5> QED BY <5>1, <5>2 DEF Filled
        <4>2. CASE c # req[r].cache BY <1>0, <3>2, <4>2 DEF Unapproved
        <4> QED BY <4>1, <4>2
      <3> QED BY <1>7, <3>1, <3>2 DEF Fill
    <2> QED BY <2>0, <2>1, <2>2, <2>3, <2>4 DEF Unapproved
  <1>8. CASE Die(r)
    <2>1. UNCHANGED <<row, cache, doc>> /\ req'[r] = Idle BY <1>8, DieSound DEF copies
    <2>2. Passive(Document)' BY <1>q, <2>1 DEF Document, Passive
    <2> QED BY <1>a, <1>e, <2>1, <2>2, IdleOK DEF Unapproved
  <1> QED BY <1>2, <1>3, <1>4, <1>5, <1>6, <1>7, <1>8 DEF Moves

(* approve of properties.service.ts: lists, searches, recommendations, the *)
(* host's profile and the statistics show the listing only once an         *)
(* administrator has approved it.                                          *)
THEOREM ApprovedBeforeShownHolds == Spec => []ApprovedBeforeShown
  <1>1. ASSUME Init PROVE Reviewed
    <2>1. CASE row = [Unlisted EXCEPT !.status = "ACTIVE", !.approved = TRUE]
      BY <2>1 DEF Unlisted, Reviewed
    <2>2. CASE row = Unlisted /\ doc = NONE
      <3>1. row.status # "ACTIVE" BY <2>2, ShopFacts DEF Unlisted
      <3>2. Document = {} BY <2>2 DEF Document
      <3>3. \A c \in Lists : cache[c] = NONE BY <1>1 DEF Init, Lists, Caches
      <3>4. \A r \in Reqs : req[r].snap = {} /\ req[r].pc = "idle"
        BY <1>1, IdleOK DEF Init
      <3> QED BY <3>1, <3>2, <3>3, <3>4 DEF Reviewed, Unapproved, Passive
    <2> QED BY <1>1, <2>1, <2>2 DEF Init
  <1>2. ASSUME Sound, Reviewed, [Next]_vars PROVE Reviewed'
    <2>1. ASSUME NEW c \in Caches, Expire(c) PROVE Reviewed'
      <3>1. cache \in [Caches -> Cached \cup {NONE}] /\ Lists \subseteq Caches
        BY <1>2, TypeParts DEF Sound, CopiesOK, Caches, Lists
      <3>2. UNCHANGED <<row, req, doc>> BY <2>1 DEF Expire
      <3>3. \A b \in Lists : cache'[b] = NONE \/ cache'[b] = cache[b]
        BY <2>1, <3>1 DEF Expire
      <3> QED BY <1>2, <3>2, <3>3 DEF Reviewed, Unapproved, Passive, Document, At
    <2>2. ASSUME UNCHANGED vars PROVE Reviewed'
      BY <1>2, <2>2 DEF vars, copies, Reviewed, Unapproved, Passive, Document, At
    <2> QED BY <1>2, <2>1, <2>2, NextMoves, ReviewedStep
  <1>3. ASSUME Reviewed PROVE ApprovedBeforeShown
    <2>1. CASE row.approved BY <2>1 DEF ApprovedBeforeShown
    <2>2. CASE Unapproved
      BY <2>2, PassiveSources DEF ApprovedBeforeShown, SearchProperties, SearchNearby,
         GetPublicProfile, Unapproved, Lists
    <2> QED BY <1>3, <2>1, <2>2 DEF Reviewed
  <1> QED BY <1>1, <1>2, <1>3, SoundHolds, PTL DEF Spec

-----------------------------------------------------------------------------
(* The copies are mirrors.  Whatever a copy shows, and whatever a handler  *)
(* is going to show, was committed; and a request that will commit has yet *)
(* to use the version that its start allows for.                           *)

Versions == [status : Statuses, ver : 0..MaxRequests]
Shown    == Document \cup UNION {cache[c].shown : c \in {k \in Caches : cache[k] # NONE}}

Mirrored ==
    /\ row.ver + Cardinality(AtAny(Writers)) <= served
    /\ Exists => Copy(row) \in past
    /\ Document \subseteq past
    /\ \A c \in Caches : cache[c] # NONE => cache[c].shown \subseteq past
    /\ \A r \in Reqs : req[r].snap \subseteq past
    /\ past \subseteq Versions

(* How the versions in use and the requests served move together.          *)
LEMMA VersionsMove ==
    ASSUME Sound, Sound', Mirrored, NEW r \in Reqs, Only(r), Moves(r) \/ Fill(r) \/ Die(r)
    PROVE  (row.ver + Cardinality(AtAny(Writers)) <= served)'
  <1> DEFINE W == Cardinality(AtAny(Writers))
  <1>0. /\ row.ver \in Nat /\ served \in Nat /\ W \in Nat /\ W' \in Nat
        /\ row'.ver \in Nat /\ served' \in Nat
        /\ row.ver + W <= served
    <2>1. row.ver \in Nat /\ row'.ver \in Nat
      BY DEF Sound, StorefrontTypeOK, Row
    <2>2. served \in Nat /\ served' \in Nat
      BY ShopFacts DEF Sound, StorefrontTypeOK
    <2>3. W \in Nat /\ W' \in Nat BY Moved
    <2>4. row.ver + W <= served BY DEF Mirrored
    <2> QED BY <2>1, <2>2, <2>3, <2>4
  <1>1. ASSUME row'.ver = row.ver, served' = served, req'[r].pc \notin Writers
        PROVE  row'.ver + W' <= served'
    <2>1. W' <= W BY <1>0, <1>1, Moved
    <2> QED BY <1>0, <1>1, <2>1
  <1>2. CASE Keeps(r)
    <2>1. row'.ver = row.ver BY <1>2 DEF Keeps, SameShown
    <2>2. CASE served' = served + 1
      <3>1. W' <= W + 1
        <4>1. CASE req[r].pc \in Writers <=> req'[r].pc \in Writers
          <5>1. W' = W BY <4>1, Moved
          <5> QED BY <1>0, <5>1
        <4>2. CASE req[r].pc \notin Writers /\ req'[r].pc \in Writers
          <5>1. W' = W + 1 BY <4>2, Moved
          <5> QED BY <1>0, <5>1
        <4>3. CASE req[r].pc \in Writers /\ req'[r].pc \notin Writers
          <5>1. W' = W - 1 BY <4>3, Moved
          <5> QED BY <1>0, <5>1
        <4> QED BY <4>1, <4>2, <4>3
      <3> QED BY <1>0, <2>1, <2>2, <3>1
    <2>3. CASE served' = served /\ (req'[r].pc \in Writers => req[r].pc \in Writers)
      <3>1. W' <= W BY <1>0, <2>3, Moved
      <3> QED BY <1>0, <2>1, <2>3, <3>1
    <2> QED BY <1>2, <2>2, <2>3 DEF Keeps, Counts
  <1>3. CASE Commits(r)
    <2>1. row'.ver = row.ver + 1 BY <1>3 DEF Commits
    <2>2. req'[r].pc \notin Writers BY <1>3 DEF Commits, DelPoints, Writers
    <2>3. W' <= W BY <1>0, <2>2, Moved
    <2>4. CASE served' = served + 1 BY <1>0, <2>1, <2>3, <2>4
    <2>5. CASE served' = served /\ req[r].pc \in Writers
      <3>1. W' = W - 1 BY <2>2, <2>5, Moved
      <3> QED BY <1>0, <2>1, <2>5, <3>1
    <2> QED BY <1>3, <2>4, <2>5 DEF Commits
  <1>4. CASE Indexes(r) BY <1>1, <1>4, IdleOK DEF Indexes, Writers
  <1>5. CASE Drops(r) BY <1>1, <1>5 DEF Drops
  <1>6. CASE Reads(r) BY <1>1, <1>6 DEF Reads, Writers
  <1>7. CASE Fill(r)
    <2>1. UNCHANGED <<row, served>> /\ req'[r].pc = "idle"
      BY <1>7, TypeParts, Finished, IdleOK DEF Fill, Sound
    <2> QED BY <1>1, <2>1 DEF Writers
  <1>8. CASE Die(r)
    <2>1. UNCHANGED <<row, served>> /\ req'[r].pc = "idle"
      BY <1>8, DieSound, IdleOK DEF Die
    <2> QED BY <1>1, <2>1 DEF Writers
  <1> QED BY <1>2, <1>3, <1>4, <1>5, <1>6, <1>7, <1>8 DEF Moves

LEMMA MirroredStep ==
    ASSUME Sound, Sound', Mirrored, NEW r \in Reqs, Only(r), Moves(r) \/ Fill(r) \/ Die(r)
    PROVE  /\ Mirrored'
           /\ \/ past' = past
              \/ UNCHANGED copies /\ past' = past \cup {Copy(row')} /\ Copy(row') \in Versions
  <1>0. /\ cache \in [Caches -> Cached \cup {NONE}] /\ ReqOK /\ CopiesOK /\ RowOK
        /\ row' \in Row /\ served' \in 0..MaxRequests
    BY TypeParts DEF Sound, CopiesOK, StorefrontTypeOK
  <1>1. (row.ver + Cardinality(AtAny(Writers)) <= served)' BY VersionsMove
  <1>s. Live \subseteq past /\ FindAll \subseteq past /\ \A c \in Caches : Source(c) \subseteq past
    <2>1. Live \subseteq past /\ Rows \subseteq past BY DEF Mirrored, Live, Rows, Found
    <2>2. Document \subseteq past BY DEF Mirrored
    <2>3. \A S : Active(S) \subseteq S BY DEF Active
    <2> QED BY <2>1, <2>2, <2>3 DEF Source, Caches, FindOne, FindAll, GetRecommendations,
               Autocomplete, GetDashboardStats, GetHostAnalytics
  <1>a. ASSUME past' = past, Exists' => Exists /\ Copy(row') = Copy(row),
               doc' \in req[r].snap \cup {doc, NONE}, req'[r].snap \subseteq past,
               \A c \in Caches : cache'[c] # NONE => cache'[c].shown \subseteq past
        PROVE  Mirrored'
    <2>1. (Document \subseteq past)' BY <1>a DEF Mirrored, Document
    <2>2. \A q \in Reqs : req'[q].snap \subseteq past
      <3> TAKE q \in Reqs
      <3>1. CASE q = r BY <1>a, <3>1
      <3>2. CASE q # r BY <3>2 DEF Only, Mirrored
      <3> QED BY <3>1, <3>2
    <2>3. (Exists => Copy(row) \in past)' BY <1>a DEF Mirrored
    <2>4. (past \subseteq Versions)' BY <1>a DEF Mirrored, Versions
    <2> QED BY <1>1, <1>a, <2>1, <2>2, <2>3, <2>4 DEF Mirrored
  <1>b. ASSUME UNCHANGED cache
        PROVE  \A c \in Caches : cache'[c] # NONE => cache'[c].shown \subseteq past
    BY <1>b DEF Mirrored
  <1>2. CASE Keeps(r)
    <2>1. req'[r].snap \subseteq past BY <1>2, <1>s DEF Keeps, Mirrored
    <2>2. Exists' = Exists /\ Copy(row') = Copy(row)
      BY <1>2 DEF Keeps, SameShown, Exists, Copy
    <2> QED BY <1>2, <1>a, <1>b, <2>1, <2>2 DEF Keeps, copies
  <1>3. CASE Commits(r)
    <2>0. /\ past' = past \cup {Copy(row')} /\ Exists' /\ UNCHANGED <<cache, doc>>
          /\ req'[r].snap \subseteq req[r].snap \cup {Copy(row')}
      BY <1>3 DEF Commits, copies
    <2>1. Copy(row') \in Versions
      <3>1. row'.status \in Statuses /\ row'.ver \in Nat
        BY <1>0, <2>0 DEF Row, Exists
      <3>2. row'.ver <= served'
        <4>1. Cardinality(AtAny(Writers)') \in Nat BY Moved
        <4> QED BY <1>0, <1>1, <3>1, <4>1, ShopFacts
      <3>3. row'.ver \in 0..MaxRequests BY <1>0, <3>1, <3>2, ShopFacts
      <3> QED BY <3>1, <3>3 DEF Copy, Versions
    <2>2. (past \subseteq Versions)' BY <2>0, <2>1 DEF Mirrored, Versions
    <2>3. (Document \subseteq past)' BY <2>0 DEF Mirrored, Document
    <2>4. \A q \in Reqs : req'[q].snap \subseteq past'
      <3> TAKE q \in Reqs
      <3>1. CASE q = r BY <2>0, <3>1 DEF Mirrored
      <3>2. CASE q # r BY <2>0, <3>2 DEF Only, Mirrored
      <3> QED BY <3>1, <3>2
    <2>5. \A c \in Caches : cache'[c] # NONE => cache'[c].shown \subseteq past'
      BY <2>0 DEF Mirrored
    <2>6. Mirrored' BY <1>1, <2>0, <2>2, <2>3, <2>4, <2>5 DEF Mirrored
    <2> QED BY <2>0, <2>1, <2>6 DEF copies
  <1>4. CASE Indexes(r)
    <2>1. Exists' = Exists /\ Copy(row') = Copy(row) BY <1>4 DEF Indexes, Exists, Copy
    <2> QED BY <1>4, <1>a, <1>b, <2>1, IdleOK DEF Indexes
  <1>5. CASE Drops(r)
    <2>1. Exists' = Exists /\ Copy(row') = Copy(row) BY <1>5 DEF Drops, Exists, Copy
    <2>2. \A c \in Caches : cache'[c] # NONE => cache'[c].shown \subseteq past
      BY <1>0, <1>5 DEF Drops, DropPage, Mirrored
    <2>3. req'[r].snap \subseteq past BY <1>5 DEF Drops, Mirrored
    <2> QED BY <1>5, <1>a, <2>1, <2>2, <2>3 DEF Drops
  <1>6. CASE Reads(r)
    <2>1. Exists' = Exists /\ Copy(row') = Copy(row) BY <1>6 DEF Reads, Exists, Copy
    <2>2. req'[r].snap \subseteq past BY <1>6, <1>s DEF Reads
    <2> QED BY <1>6, <1>a, <1>b, <2>1, <2>2 DEF Reads, copies
  <1>7. CASE Fill(r)
    <2>0. UNCHANGED <<row, doc, past>> /\ req'[r] = Idle
      BY <1>0, <1>7, Finished DEF Fill
    <2>1. Exists' = Exists /\ Copy(row') = Copy(row) BY <2>0 DEF Exists, Copy
    <2>2. ASSUME NEW c \in Caches, cache'[c] # NONE PROVE cache'[c].shown \subseteq past
      <3>1. CASE UNCHANGED cache BY <2>2, <3>1 DEF Mirrored
      <3>2. CASE cache' = [cache EXCEPT ![req[r].cache] = Filled(req[r].snap)]
        <4>1. CASE c = req[r].cache
          <5>1. cache'[c] = Filled(req[r].snap) BY <1>0, <3>2, <4>1
          <5> QED BY <5>1 DEF Filled, Mirrored
        <4>2. CASE c # req[r].cache BY <1>0, <2>2, <3>2, <4>2 DEF Mirrored
        <4> QED BY <4>1, <4>2
      <3> QED BY <1>7, <3>1, <3>2 DEF Fill
    <2> QED BY <1>a, <2>0, <2>1, <2>2, IdleOK
  <1>8. CASE Die(r)
    <2>0. UNCHANGED <<row, doc, cache, past>> /\ req'[r] = Idle
      BY <1>8, DieSound DEF copies
    <2>1. Exists' = Exists /\ Copy(row') = Copy(row) BY <2>0 DEF Exists, Copy
    <2> QED BY <1>a, <1>b, <2>0, <2>1, IdleOK
  <1> QED BY <1>2, <1>3, <1>4, <1>5, <1>6, <1>7, <1>8 DEF Moves

LEMMA MirroredNext ==
    ASSUME Sound, Mirrored, [Next]_vars
    PROVE  /\ Mirrored'
           /\ \/ past' = past
              \/ UNCHANGED copies /\ past' = past \cup {Copy(row')} /\ Copy(row') \in Versions
  <1>0. Sound' /\ cache \in [Caches -> Cached \cup {NONE}]
    BY NextSound, TypeParts DEF Sound, CopiesOK
  <1>1. ASSUME NEW c \in Caches, Expire(c) PROVE Mirrored' /\ past' = past
    <2>1. UNCHANGED <<row, doc, req, served, past>> BY <1>1 DEF Expire, ghosts
    <2>2. \A b \in Caches : cache'[b] = NONE \/ cache'[b] = cache[b]
      BY <1>0, <1>1 DEF Expire
    <2>3. AtAny(Writers)' = AtAny(Writers) BY <2>1 DEF AtAny, Writers
    <2> QED BY <2>1, <2>2, <2>3 DEF Mirrored, Exists, Copy, Document, Versions
  <1>2. ASSUME UNCHANGED vars PROVE Mirrored' /\ past' = past
    <2>1. UNCHANGED <<row, doc, cache, req, served, past>> BY <1>2 DEF vars, copies, ghosts
    <2>2. AtAny(Writers)' = AtAny(Writers) BY <2>1 DEF AtAny, Writers
    <2> QED BY <2>1, <2>2 DEF Mirrored, Exists, Copy, Document, Versions
  <1>3. ASSUME NEW r \in Reqs, Only(r), Moves(r) \/ Fill(r) \/ Die(r)
        PROVE  /\ Mirrored'
               /\ \/ past' = past
                  \/ /\ UNCHANGED copies /\ past' = past \cup {Copy(row')}
                     /\ Copy(row') \in Versions
    BY <1>0, <1>3, MirroredStep
  <1> QED BY <1>1, <1>2, <1>3, NextMoves

LEMMA InitMirrored == ASSUME Init PROVE Mirrored
  <1>0. Sound BY InitSound
  <1>1. \A r \in Reqs : req[r].pc = "idle" /\ req[r].snap = {} BY IdleOK DEF Init
  <1>2. AtAny(Writers) = {} BY <1>1 DEF AtAny, Writers
  <1>3. Cardinality(AtAny(Writers)) = 0 BY <1>2, FS_EmptySet
  <1>4. row.ver = 0
    <2>1. Unlisted.ver = 0 BY DEF Unlisted
    <2>2. [Unlisted EXCEPT !.status = "ACTIVE", !.approved = TRUE].ver = 0 BY DEF Unlisted
    <2> QED BY <2>1, <2>2 DEF Init
  <1>5. \A c \in Caches : cache[c] = NONE BY DEF Init
  <1>6. /\ Exists => Copy(row) \in past
        /\ Document \subseteq past /\ past \subseteq Versions
    <2>1. CASE row = Unlisted /\ doc = NONE /\ past = {}
      BY <2>1 DEF Exists, Unlisted, Document
    <2>2. CASE /\ row = [Unlisted EXCEPT !.status = "ACTIVE", !.approved = TRUE]
               /\ doc = Copy(row) /\ past = {doc}
      <3>1. row.status = "ACTIVE" BY <2>2 DEF Unlisted
      <3>2. Copy(row) \in Versions
        BY <1>4, <3>1, ShopFacts DEF Copy, Versions, Statuses
      <3> QED BY <2>2, <3>2 DEF Document
    <2> QED BY <2>1, <2>2 DEF Init
  <1>7. served = 0 BY DEF Init
  <1> QED BY <1>1, <1>3, <1>4, <1>5, <1>6, <1>7 DEF Mirrored

LEMMA ShownMirrored == ASSUME Mirrored PROVE Shown \subseteq past
  BY DEF Mirrored, Shown

(* Redis and Elasticsearch implement Mirror: they lag, go back to older    *)
(* versions, and never show what was not committed before.                 *)
THEOREM CopiesMirror == Spec => CopiesAreMirrors
  <1>1. ASSUME Init PROVE StoreMirror!Init
    BY <1>1, InitMirrored, ShownMirrored DEF StoreMirror!Init, Mirrored, Shown, Versions
  <1>2. ASSUME Sound, Mirrored, [Next]_vars
        PROVE  [StoreMirror!Commit \/ StoreMirror!Show]_<<past, Shown>>
    <2>1. Mirrored' BY <1>2, MirroredNext
    <2>2. CASE past' = past
      <3>1. Shown' \subseteq past' BY <2>1 DEF Mirrored, Shown
      <3> QED BY <2>2, <3>1 DEF StoreMirror!Show, Shown
    <2>3. CASE UNCHANGED copies /\ past' = past \cup {Copy(row')} /\ Copy(row') \in Versions
      <3>1. Shown' = Shown BY <2>3 DEF copies, Shown, Document
      <3> QED BY <2>3, <3>1 DEF StoreMirror!Commit, Shown, Versions
    <2> QED BY <1>2, <2>2, <2>3, MirroredNext
  <1>3. Mirrored /\ Sound /\ [Next]_vars => Mirrored' BY MirroredNext
  <1> QED BY <1>1, <1>2, <1>3, InitMirrored, SoundHolds, PTL
          DEF Spec, CopiesAreMirrors, StoreMirror!Spec, Shown

-----------------------------------------------------------------------------
(* Prices.  With whole amounts every percentage of a price is exact, so    *)
(* each amount is a multiple of a fixed number of hundred-thousandths and  *)
(* the equations between the three services are linear.                     *)

LEMMA PercentExact == ASSUME NEW p \in Nat, NEW a \in Nat PROVE Percent(p, 100 * a) = p * a
  <1> DEFINE m == p * a
  <1>1. m \in Nat /\ p * (100 * a) = 100 * m OBVIOUS
  <1> HIDE DEF m
  <1>2. (100 * m) \div 100 = m BY <1>1
  <1> QED BY <1>1, <1>2 DEF m, Percent

LEMMA TermsFacts ==
    ASSUME NEW t \in Terms
    PROVE  /\ t.weekly \in 0..100 /\ t.monthly \in 0..100 /\ t.fee \in Nat
           /\ \E P \in Nat : t.price = 100000 * P
           /\ \E C \in Nat : t.cleaning = 100000 * C
  <1>1. /\ t.price \in Nat /\ t.cleaning \in Nat /\ t.fee \in 0..100
        /\ t.weekly \in 0..100 /\ t.monthly \in 0..100
    BY TermsAssumption DEF PricingColumns
  <1>2. t.price % 100000 = 0 /\ t.cleaning % 100000 = 0 BY TermsAssumption
  <1>3. \A a \in Nat : a % 100000 = 0 => a = 100000 * (a \div 100000) /\ a \div 100000 \in Nat
    OBVIOUS
  <1> QED BY <1>1, <1>2, <1>3

(* The percentage taken off for n nights, and the price of the nights less *)
(* that, in thousands.                                                     *)
OffPercent(t, n) == IF n >= 28 /\ t.monthly > 0 THEN t.monthly
                    ELSE IF n >= 7 /\ t.weekly > 0 THEN t.weekly ELSE 0
Base(t, n)  == (t.price \div 100000) * n
Units(t, n) == 100 * Base(t, n) - OffPercent(t, n) * Base(t, n)

LEMMA BaseIsPrice ==
    ASSUME NEW t \in Terms, NEW n \in Nat
    PROVE  /\ Base(t, n) \in Nat /\ t.price \div 100000 \in Nat
           /\ t.price * n = 100 * (1000 * Base(t, n))
  <1>1. PICK P \in Nat : t.price = 100000 * P BY TermsFacts
  <1>2. t.price \div 100000 = P BY <1>1
  <1>3. Base(t, n) = P * n /\ P * n \in Nat BY <1>2 DEF Base
  <1>4. t.price * n = 100000 * (P * n) BY <1>1
  <1> DEFINE Q == P * n
  <1>5. Base(t, n) = Q /\ Q \in Nat /\ t.price * n = 100000 * Q BY <1>3, <1>4
  <1> HIDE DEF Q
  <1> QED BY <1>1, <1>2, <1>5

LEMMA DiscountIsPercent ==
    ASSUME NEW t \in Terms, NEW n \in Nat
    PROVE  /\ OffPercent(t, n) \in 0..100
           /\ Discount(t, n) = Percent(OffPercent(t, n), t.price * n)
  <1>1. t.weekly \in 0..100 /\ t.monthly \in 0..100 BY TermsFacts
  <1>2. CASE n >= 28 /\ t.monthly > 0
    <2>1. Discount(t, n) = Percent(t.monthly, t.price * n) BY <1>2 DEF Discount
    <2>2. OffPercent(t, n) = t.monthly BY <1>2 DEF OffPercent
    <2> QED BY <1>1, <2>1, <2>2
  <1>3. CASE ~(n >= 28 /\ t.monthly > 0) /\ n >= 7 /\ t.weekly > 0
    <2>1. Discount(t, n) = Percent(t.weekly, t.price * n) BY <1>3 DEF Discount
    <2>2. OffPercent(t, n) = t.weekly BY <1>3 DEF OffPercent
    <2> QED BY <1>1, <2>1, <2>2
  <1>4. CASE ~(n >= 28 /\ t.monthly > 0) /\ ~(n >= 7 /\ t.weekly > 0)
    <2>1. Discount(t, n) = 0 BY <1>4 DEF Discount
    <2>2. OffPercent(t, n) = 0 BY <1>4 DEF OffPercent
    <2> DEFINE a == 1000 * Base(t, n)
    <2>3. a \in Nat /\ t.price * n = 100 * a BY BaseIsPrice
    <2> HIDE DEF a
    <2>4. Percent(0, 100 * a) = 0 * a BY <2>3, PercentExact
    <2> QED BY <2>1, <2>2, <2>3, <2>4
  <1> QED BY <1>2, <1>3, <1>4

(* The shape of every amount of a stay.                                    *)
LEMMA Amounts ==
    ASSUME NEW t \in Terms, NEW n \in Nat
    PROVE  /\ Units(t, n) \in Nat /\ Subtotal(t, n) = 1000 * Units(t, n)
           /\ t.fee * Units(t, n) \in Nat
           /\ ServiceFee(t, n) = 10 * (t.fee * Units(t, n))
           /\ \E C \in Nat : t.cleaning = 100000 * C
           /\ Discount(t, n) \in Nat
  <1>2. PICK C \in Nat : t.cleaning = 100000 * C BY TermsFacts
  <1> DEFINE m == OffPercent(t, n)
             Q == Base(t, n)
             R == m * Q
             K == 100 * Q - R
             J == t.fee * K
  <1>3. m \in 0..100 /\ Discount(t, n) = Percent(m, t.price * n) BY DiscountIsPercent
  <1>4. Q \in Nat /\ t.price * n = 100 * (1000 * Q) BY BaseIsPrice
  <1>0. Units(t, n) = K BY DEF Units
  <1> HIDE DEF m, Q
  <1>5. R \in Nat /\ R <= 100 * Q BY <1>3, <1>4
  <1>6. Discount(t, n) = 1000 * R
    <2>1. Percent(m, 100 * (1000 * Q)) = m * (1000 * Q)
      <3>1. 1000 * Q \in Nat /\ m \in Nat BY <1>3, <1>4
      <3> QED BY <3>1, PercentExact
    <2>2. m * (1000 * Q) = 1000 * R BY <1>3, <1>4
    <2> HIDE DEF R
    <2> QED BY <1>3, <1>4, <2>1, <2>2
  <1>7. K \in Nat /\ Subtotal(t, n) = 1000 * K
    <2> HIDE DEF R
    <2>1. Subtotal(t, n) = 100000 * Q - 1000 * R BY <1>4, <1>6 DEF Subtotal
    <2> QED BY <1>4, <1>5, <2>1
  <1>8. J \in Nat /\ ServiceFee(t, n) = 10 * J
    <2> HIDE DEF K
    <2>1. t.fee \in Nat BY TermsFacts
    <2>2. Percent(t.fee, 100 * (10 * K)) = t.fee * (10 * K)
      <3> DEFINE a == 10 * K
      <3>1. a \in Nat BY <1>7
      <3> HIDE DEF a, J
      <3>2. Percent(t.fee, 100 * a) = t.fee * a BY <2>1, <3>1, PercentExact
      <3> QED BY <3>2 DEF a
    <2>3. 100 * (10 * K) = 1000 * K /\ t.fee * (10 * K) = 10 * J BY <1>7, <2>1
    <2>4. J \in Nat BY <1>7, <2>1
    <2> HIDE DEF J
    <2> QED BY <1>7, <2>2, <2>3, <2>4 DEF ServiceFee
  <1>9. Discount(t, n) \in Nat
    <2> HIDE DEF R
    <2> QED BY <1>5, <1>6
  <1> HIDE DEF K, R
  <1> QED BY <1>0, <1>2, <1>7, <1>8, <1>9

(* The two totals, for their own number of nights.                         *)
LEMMA Totals ==
  ASSUME NEW t \in Terms, NEW n \in Nat, NEW C \in Nat, t.cleaning = 100000 * C
  PROVE  /\ BookingTotal(t, n) =
              1100 * Units(t, n) + 110000 * C + 10 * (t.fee * Units(t, n))
         /\ QuoteTotal(t, n) =
              1100 * Units(t, n) + 110000 * C + 11 * (t.fee * Units(t, n))
         /\ BookingTaxes(t, n) = 100 * Units(t, n) + 10000 * C
         /\ Percent(10, ServiceFee(t, n)) = t.fee * Units(t, n)
  <1> DEFINE K == Units(t, n)
             J == t.fee * Units(t, n)
  <1>1. /\ K \in Nat /\ J \in Nat
        /\ Subtotal(t, n) = 1000 * K /\ ServiceFee(t, n) = 10 * J
    BY Amounts
  <1> HIDE DEF K, J
  <1>2. Percent(10, ServiceFee(t, n)) = J BY <1>1 DEF Percent
  <1>4. BookingTaxes(t, n) = 100 * K + 10000 * C BY <1>1 DEF BookingTaxes, Percent
  <1>5. QuoteTaxes(t, n) = 100 * K + 10000 * C + J BY <1>1 DEF QuoteTaxes, Percent
  <1>6. BookingTotal(t, n) = 1100 * K + 110000 * C + 10 * J
    BY <1>1, <1>4 DEF BookingTotal
  <1>7. QuoteTotal(t, n) = 1100 * K + 110000 * C + 11 * J BY <1>1, <1>5 DEF QuoteTotal
  <1> QED BY <1>2, <1>4, <1>6, <1>7 DEF K, J

(* What a stay is made up of, for any number of nights.                    *)
LEMMA SumsAddUp ==
  ASSUME NEW t \in Terms, NEW n \in Nat
  PROVE  /\ BookingTotal(t, n) = HostPayout(t, n) + ServiceFee(t, n)
                                   + BookingTaxes(t, n) + Percent(3, Subtotal(t, n))
         /\ InvoiceLines(t, n) = BookingTotal(t, n) - Discount(t, n)
  <1>c. PICK C \in Nat : t.cleaning = 100000 * C BY Amounts
  <1> DEFINE K == Units(t, n)
             J == t.fee * Units(t, n)
  <1>1. /\ K \in Nat /\ J \in Nat /\ Discount(t, n) \in Nat
        /\ Subtotal(t, n) = 1000 * K /\ ServiceFee(t, n) = 10 * J
    BY Amounts
  <1>2. /\ BookingTaxes(t, n) = 100 * K + 10000 * C
        /\ BookingTotal(t, n) = 1100 * K + 110000 * C + 10 * J
    BY <1>c, Totals
  <1> HIDE DEF K, J
  <1>3. Percent(3, Subtotal(t, n)) = 30 * K BY <1>1 DEF Percent
  <1>4. HostPayout(t, n) = 970 * K + 100000 * C BY <1>c, <1>1, <1>3 DEF HostPayout
  <1>5. InvoiceLines(t, n) = BookingTotal(t, n) - Discount(t, n)
    BY <1>c, <1>1, <1>2 DEF InvoiceLines
  <1> QED BY <1>c, <1>1, <1>2, <1>3, <1>4, <1>5

(* calculateBookingPrice, getInvoice: what the guest pays is what the host *)
(* gets, the fees and the taxes, and the invoice subtracts the discount    *)
(* twice, for all terms.                                                   *)
THEOREM PricesAddUpHolds == Spec => []PricesAddUp
  <1>1. Terms \subseteq AddingUp BY SumsAddUp DEF AddingUp, Nights
  <1>2. ASSUME StorefrontTypeOK PROVE PricesAddUp
    BY <1>1, <1>2 DEF StorefrontTypeOK, Row, PricesAddUp
  <1> QED BY <1>2, StorefrontTypesHold, PTL

-----------------------------------------------------------------------------
(* Nights.  A quote rounds the days up and a booking cuts them off, so the *)
(* quote is for as many nights or for one more; one night more costs more, *)
(* unless a discount begins with it.                                       *)

LEMMA NightsOf ==
  ASSUME NEW h \in Nat
  PROVE  /\ BookingNights(h) \in Nat
         /\ h % 24 = 0 => QuoteNights(h) = BookingNights(h)
         /\ h % 24 # 0 => QuoteNights(h) = BookingNights(h) + 1
  BY DEF BookingNights, QuoteNights

LEMMA NightMore ==
  ASSUME NEW t \in Terms, NEW n \in Nat, n \notin {6, 27}
  PROVE  Units(t, n) <= Units(t, n + 1)
  <1> DEFINE P == t.price \div 100000
             m == OffPercent(t, n)
  <1>1. P \in Nat /\ m \in 0..100 BY BaseIsPrice, DiscountIsPercent
  <1>2. OffPercent(t, n + 1) = m BY DEF OffPercent
  <1>3. /\ Units(t, n) = 100 * (P * n) - m * (P * n)
        /\ Units(t, n + 1) = 100 * (P * (n + 1)) - m * (P * (n + 1))
    BY <1>2 DEF Units, Base
  <1> HIDE DEF P, m
  <1> DEFINE Q == P * n
             d == m * P
  <1>4. Q \in Nat /\ P * (n + 1) = Q + P BY <1>1
  <1>5. d \in Nat /\ d <= 100 * P BY <1>1
  <1>6. m * (Q + P) = m * Q + d /\ m * Q \in Nat
    <2> HIDE DEF Q
    <2> QED BY <1>1, <1>4
  <1> DEFINE e == m * Q
  <1>7. Units(t, n) = 100 * Q - e /\ Units(t, n + 1) = 100 * (Q + P) - (e + d)
    BY <1>3, <1>4, <1>6
  <1>8. e \in Nat BY <1>6
  <1> HIDE DEF Q, d, e
  <1> QED BY <1>1, <1>4, <1>5, <1>7, <1>8

LEMMA QuoteEnough ==
  ASSUME NEW t \in Terms, NEW h \in Nat, Bookable(t, h)
  PROVE  LET n == BookingNights(h)
         IN  /\ Quotable(t, h)
             /\ h % 24 = 0 => Quote(t, h) - Charge(t, h) = Percent(10, ServiceFee(t, n))
             /\ Quote(t, h) < Charge(t, h) => h % 24 # 0 /\ n \in {6, 27}
  <1> DEFINE n == BookingNights(h)
             q == QuoteNights(h)
             K == Units(t, n)
             L == Units(t, q)
             J == t.fee * K
             M == t.fee * L
  <1>c. PICK C \in Nat : t.cleaning = 100000 * C BY Amounts
  <1>1. /\ n \in Nat /\ q \in Nat
        /\ h % 24 = 0 => q = n
        /\ h % 24 # 0 => q = n + 1
    BY NightsOf
  <1>2. t.min \in Nat /\ t.fee \in Nat BY TermsAssumption DEF PricingColumns
  <1>3. Quotable(t, h) BY <1>1, <1>2 DEF Quotable, Bookable
  <1> HIDE DEF n, q
  <1>4. /\ K \in Nat /\ L \in Nat /\ J \in Nat /\ M \in Nat BY <1>1, Amounts
  <1>5. /\ Charge(t, h) = 1100 * K + 110000 * C + 10 * J
        /\ Percent(10, ServiceFee(t, n)) = J
    BY <1>c, <1>1, Totals DEF Charge, n
  <1>6. Quote(t, h) = 1100 * L + 110000 * C + 11 * M
    BY <1>c, <1>1, Totals DEF Quote, q
  <1>7. h % 24 = 0 => L = K /\ M = J BY <1>1
  <1>8. h % 24 # 0 /\ n \notin {6, 27} => K <= L BY <1>1, NightMore
  <1>9. K <= L => J <= M
    <2> HIDE DEF K, L
    <2> QED BY <1>2, <1>4
  <1> HIDE DEF K, L, J, M
  <1>10. h % 24 = 0 => Quote(t, h) - Charge(t, h) = J BY <1>4, <1>5, <1>6, <1>7
  <1>11. K <= L => Charge(t, h) <= Quote(t, h) BY <1>4, <1>5, <1>6, <1>9
  <1>12. Quote(t, h) \in Nat /\ Charge(t, h) \in Nat BY <1>4, <1>5, <1>6
  <1>13. Quote(t, h) < Charge(t, h) => h % 24 # 0 /\ n \in {6, 27}
    BY <1>4, <1>7, <1>8, <1>11, <1>12
  <1> QED BY <1>3, <1>5, <1>10, <1>13 DEF n

(* calculatePrice and create: what can be booked is quoted, and charged    *)
(* more than its quote only for part of a day after the sixth or the 27th  *)
(* night, for all terms.                                                   *)
THEOREM QuoteCoversChargeHolds == Spec => []QuoteCoversCharge
  <1>1. Hours \subseteq Nat BY DEF Hours, Nights
  <1>2. Terms \subseteq QuotedEnough BY <1>1, QuoteEnough DEF QuotedEnough
  <1>3. ASSUME StorefrontTypeOK PROVE QuoteCoversCharge
    BY <1>2, <1>3 DEF StorefrontTypeOK, Row, QuoteCoversCharge
  <1> QED BY <1>3, StorefrontTypesHold, PTL

LEMMA TotalIsNat ==
  ASSUME NEW t \in Terms, NEW n \in Nat
  PROVE  BookingTotal(t, n) \in Nat
  <1>1. PICK C \in Nat : t.cleaning = 100000 * C BY Amounts
  <1> DEFINE K == Units(t, n)
             J == t.fee * Units(t, n)
  <1>2. K \in Nat /\ J \in Nat BY Amounts
  <1>3. BookingTotal(t, n) = 1100 * K + 110000 * C + 10 * J BY <1>1, Totals
  <1> HIDE DEF K, J
  <1> QED BY <1>1, <1>2, <1>3

LEMMA PercentOfNat ==
  ASSUME NEW b \in Nat
  PROVE  /\ Percent(0, b) = 0 /\ Percent(100, b) = b
         /\ Percent(50, b) >= 0 /\ Percent(50, b) <= b
  BY DEF Percent

(* Every policy refunds the same share or more for a longer notice.        *)
LEMMA PercentGrows ==
  ASSUME NEW p \in Policies, NEW d \in Nat, NEW e \in Nat, d <= e
  PROVE  /\ RefundPercent(p, d) \in {0, 50, 100} /\ RefundPercent(p, e) \in {0, 50, 100}
         /\ RefundPercent(p, d) <= RefundPercent(p, e)
  <1>1. CASE p = "FLEXIBLE" BY <1>1 DEF RefundPercent
  <1>2. CASE p = "MODERATE" BY <1>2 DEF RefundPercent
  <1>3. CASE p = "STRICT" BY <1>3 DEF RefundPercent
  <1>4. CASE p = "SUPER_STRICT_30" BY <1>4 DEF RefundPercent
  <1>5. CASE p = "SUPER_STRICT_60" BY <1>5 DEF RefundPercent
  <1> QED BY <1>1, <1>2, <1>3, <1>4, <1>5 DEF Policies

(* Neither a refund shrinks with the notice nor does it exceed the total.  *)
LEMMA RefundGrows ==
  ASSUME NEW t \in Terms, NEW n \in Nat, NEW p \in Policies,
         NEW d \in Nat, NEW e \in Nat, d <= e
  PROVE  /\ Refund(t, n, p, d) <= Refund(t, n, p, e)
         /\ Refund(t, n, p, e) <= BookingTotal(t, n)
  <1> DEFINE b == BookingTotal(t, n)
             x == RefundPercent(p, d)
             y == RefundPercent(p, e)
  <1>1. x \in {0, 50, 100} /\ y \in {0, 50, 100} /\ x <= y
    BY PercentGrows
  <1>2. b \in Nat BY TotalIsNat
  <1> HIDE DEF b, x, y
  <1>3. /\ Percent(0, b) = 0 /\ Percent(100, b) = b
        /\ Percent(50, b) >= 0 /\ Percent(50, b) <= b
    BY PercentOfNat, <1>2
  <1>4. Percent(x, b) <= Percent(y, b) /\ Percent(y, b) <= b
    <2>1. CASE x = 0 /\ y = 0 BY <1>2, <1>3, <2>1
    <2>2. CASE x = 0 /\ y = 50 BY <1>2, <1>3, <2>2
    <2>3. CASE x = 0 /\ y = 100 BY <1>2, <1>3, <2>3
    <2>4. CASE x = 50 /\ y = 50 BY <1>2, <1>3, <2>4 DEF Percent
    <2>5. CASE x = 50 /\ y = 100 BY <1>2, <1>3, <2>5
    <2>6. CASE x = 100 /\ y = 100 BY <1>2, <1>3, <2>6
    <2> QED BY <1>1, <2>1, <2>2, <2>3, <2>4, <2>5, <2>6
  <1> QED BY <1>4 DEF Refund, b, x, y

(* calculateCancellationRefund: the guest who cancels earlier gets as much *)
(* or more, and never more than was paid.                                  *)
THEOREM RefundGrowsHolds == Spec => []RefundGrowsWithNotice
  <1>1. Terms \subseteq RefundedFairly BY RefundGrows DEF RefundedFairly, Nights, Notices
  <1>2. ASSUME StorefrontTypeOK PROVE RefundGrowsWithNotice
    BY <1>1, <1>2 DEF StorefrontTypeOK, Row, RefundGrowsWithNotice
  <1> QED BY <1>2, StorefrontTypesHold, PTL
=============================================================================
