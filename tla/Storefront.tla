----------------------------- MODULE Storefront -----------------------------
(***************************************************************************)
(* One listing as the public sees it: its row with everything that is      *)
(* copied from it or counted into it, every handler that writes them, and  *)
(* the prices its terms lead to.                                           *)
(***************************************************************************)
EXTENDS Catalog, Feedback, Gallery, Pricing

(* Amounts are whole, so that every percentage of them is exact.           *)
ASSUME TermsAssumption ==
    /\ Terms \subseteq PricingColumns
    /\ \A t \in Terms : t.price % 100000 = 0 /\ t.cleaning % 100000 = 0

(* No listing yet, or an approved one in the index, with one photo or none.*)
Unlisted == [status |-> NONE, deleted |-> FALSE, approved |-> FALSE,
             terms |-> CHOOSE t \in Terms : TRUE, favs |-> 0, rated |-> {}, ver |-> 0]

Init ==
    /\ \/ row = Unlisted /\ doc = NONE /\ past = {} /\ images = {}
       \/ /\ row = [Unlisted EXCEPT !.status = "ACTIVE", !.approved = TRUE]
          /\ doc = Copy(row) /\ past = {doc}
          /\ images \in {{}, Images \cap {1}}
    /\ primary = images
    /\ cache = [c \in Caches |-> NONE]
    /\ favorites = {} /\ answered = {}
    /\ review = [s \in Stays |-> NONE]
    /\ req = [r \in Reqs |-> Idle]
    /\ served = 0 /\ excused = FALSE /\ owed = 0 /\ unset = FALSE /\ crossed = {}

Next ==
    \/ \E r \in Reqs : CatalogStep(r) \/ FeedbackStep(r) \/ GalleryStep(r) \/ Die(r)
    \/ \E c \in Caches : Expire(c)

(* Redis keeps its promise: a key with a time to live does run out.        *)
Spec == Init /\ [][Next]_vars /\ \A c \in Caches : WF_vars(Expire(c))

-----------------------------------------------------------------------------
(* Rows, copies and requests have their types.                             *)
StorefrontTypeOK ==
    /\ row \in Row
    /\ cache \in [Caches -> Cached \cup {NONE}]
    /\ doc \in Snapshot \cup {NONE}
    /\ favorites \subseteq Users /\ answered \subseteq Stays
    /\ review \in [Stays -> {"guest", "host", NONE}]
    /\ images \subseteq Images /\ primary \subseteq images
    /\ req \in [Reqs -> Request]
    /\ served \in 0..MaxRequests
    /\ past \subseteq Snapshot /\ excused \in BOOLEAN /\ owed \in Int
    /\ unset \in BOOLEAN /\ crossed \subseteq Stays

(* The cached page is the row's present version, unless the handler that   *)
(* changed the row has yet to delete it, the page was filled by a reader   *)
(* the change overtook, or the DEL was lost.                               *)
PageStaleForAReason ==
    cache["page"] # NONE /\ cache["page"].shown # Live =>
        excused \/ \E r \in Reqs : req[r].pc \in DelPoints

(* Whatever Redis or Elasticsearch shows of the listing was committed to   *)
(* the database before: the copies implement the abstract Mirror.          *)
StoreMirror == INSTANCE Mirror WITH
    Versions <- [status : Statuses, ver : 0..MaxRequests],
    past     <- past,
    shown    <- Document \cup UNION {cache[c].shown : c \in {k \in Caches : cache[k] # NONE}}
CopiesAreMirrors == StoreMirror!Spec

(* Nothing deletes the cached lists when the listing changes, and a DEL    *)
(* may be lost; still, no cache shows an outdated listing for ever.        *)
StaleCachesClear ==
    \A c \in Caches :
        []<>(cache[c] = NONE \/ cache[c].shown \subseteq Live)

(* A listing is found in lists, searches and recommendations, on its       *)
(* host's profile and among the active ones of the statistics only once an *)
(* administrator has approved it.                                          *)
ApprovedBeforeShown ==
    \/ row.approved
    \/ /\ SearchProperties \cup SearchNearby \cup GetPublicProfile = {}
       /\ \A c \in {"list", "recommendations", "dashboard", "analytics"} :
             cache[c] = NONE \/ cache[c].shown = {}

(* favoritesCount is the number of Favorite rows, but for the updates that *)
(* toggleFavorite has yet to make or lost in a crash.                      *)
FavoritesCounted ==
    row.favs + Cardinality({r \in Reqs : At(r, "fav_inc")})
             - Cardinality({r \in Reqs : At(r, "fav_dec")}) + owed
      = Cardinality(favorites)

(* reviews.create: totalReviews never counts a review that is not there,   *)
(* counts one at least once there are some, and misses none but those that *)
(* committed between another one's average and its commit.                 *)
RatingCounts ==
    /\ row.rated \subseteq GuestReviews
    /\ GuestReviews # {} => row.rated # {}
    /\ GuestReviews \ row.rated \subseteq crossed

(* addPropertyImages counts the rows long before it inserts the new ones,  *)
(* so uploads in parallel pass the limit, by what all but one of them add. *)
ImagesBounded ==
    Cardinality(images) <= MaxImages + (Cardinality(Reqs) - 1) * MaxFiles

(* A listing with photos has a primary one, which its page and its cards   *)
(* show; it is without while reorderImages is at work, and after it died   *)
(* or met a second one or a setPrimaryImage, or after the primary photo    *)
(* was deleted, until one of the three handlers names another.             *)
MainPhotoKept ==
    images # {} /\ primary = {} => unset \/ \E r \in Reqs : At(r, "reorder")

-----------------------------------------------------------------------------
(* Prices of the listing's terms, for the stays on both sides of each      *)
(* discount, of whole days and with some hours more, and the notices on    *)
(* both sides of each policy's bounds.                                     *)

Nights   == {1, 6, 7, 27, 28}
Hours    == {24 * n : n \in Nights} \cup {24 * n + 6 : n \in Nights} \cup {6}
Policies == {"FLEXIBLE", "MODERATE", "STRICT", "SUPER_STRICT_30", "SUPER_STRICT_60"}
Notices  == {0, 1, 4, 5, 6, 7, 13, 14, 29, 30, 59, 60}

(* The terms whose prices are right in the sense of each property below.   *)
AddingUp == {t \in Terms : \A n \in Nights :
    /\ BookingTotal(t, n) = HostPayout(t, n) + ServiceFee(t, n) + BookingTaxes(t, n)
                              + Percent(3, Subtotal(t, n))
    /\ InvoiceLines(t, n) = BookingTotal(t, n) - Discount(t, n)}
RefundedFairly == {t \in Terms :
    \A p \in Policies, n \in Nights, d, e \in Notices :
        d <= e => /\ Refund(t, n, p, d) <= Refund(t, n, p, e)
                  /\ Refund(t, n, p, e) <= BookingTotal(t, n)}
QuotedEnough == {t \in Terms : \A h \in Hours :
    LET n == BookingNights(h)
    IN  Bookable(t, h) =>
          /\ Quotable(t, h)
          /\ h % 24 = 0 => Quote(t, h) - Charge(t, h) = Percent(10, ServiceFee(t, n))
          /\ Quote(t, h) < Charge(t, h) => h % 24 # 0 /\ n \in {6, 27}}

(* What the guest pays is what the host gets, the service fee, the taxes   *)
(* and the host fee of three percent of the nights; the invoice's lines    *)
(* fall short of its total by the discount, which they subtract a second   *)
(* time.                                                                   *)
PricesAddUp == row.terms \in AddingUp

(* Under every policy earlier notice never gives back less, and no policy  *)
(* gives back more than was paid.                                          *)
RefundGrowsWithNotice == row.terms \in RefundedFairly

(* calculatePrice and create count nights in two ways and tax two sums.    *)
(* Still, whatever can be booked is quoted; a stay of whole days is quoted *)
(* its charge and the tax on the service fee; and a stay is charged more   *)
(* than its quote only with part of a day after the sixth or the 27th      *)
(* night, when the quote alone has reached the next discount.              *)
QuoteCoversCharge == row.terms \in QuotedEnough
=============================================================================
