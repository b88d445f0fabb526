SPECIFICATION Spec
CONSTANTS
    Reqs = {r1, r2}
    Bookings = {b1, b2}
    Stays <- Crossing
    Blocks = {}
    Days = {0}
    NONE = NONE
    InstantBook = FALSE
    Policy = "FLEXIBLE"
    Methods = {}
    Price = 2
    HostPayout = 2
    Opening = 0
    Amounts = {}
    MaxFunds = 0
    MaxDebit = 2
    Exposed = {"create", "confirm", "cancel"}
SYMMETRY Sym
INVARIANTS
    NoLiveOverlap
