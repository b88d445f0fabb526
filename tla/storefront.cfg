SPECIFICATION Spec
CONSTANTS
    Reqs = {1, 2}
    Users = {u1}
    Stays = {1, 2}
    Images = {1, 2, 3, 4}
    Terms <- TwoTerms
    MaxImages = 2
    MaxFiles = 1
    NONE = NONE
    MaxRequests = 3
CHECK_DEADLOCK FALSE
INVARIANTS
    StorefrontTypeOK
    PageStaleForAReason
    ApprovedBeforeShown
    FavoritesCounted
    RatingCounts
    ImagesBounded
    
    PricesAddUp
    QuoteCoversCharge
    RefundGrowsWithNotice
PROPERTIES
    CopiesAreMirrors
    StaleCachesClear
