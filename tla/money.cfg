SPECIFICATION Spec
CONSTANTS
    Reqs = {r1, r2}
    Bookings = {b1}
    Stays <- OneStay
    Blocks = {}
    Days = {0, 1}
    NONE = NONE
    InstantBook = FALSE
    Policy = "FLEXIBLE"
    Methods = {"INTERNAL", "PAYPAL"}
    Price = 2
    HostPayout = 2
    Opening = 2
    Amounts <- OneEachWay
    MaxFunds = 2
    MaxDebit = 2
    Exposed = {"create", "confirm", "cancel", "pay", "capture", "dispute", "resolve", "timeout"}
SYMMETRY Sym
INVARIANTS
    TypeOK
    RefundRowsAreReal
