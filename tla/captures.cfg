SPECIFICATION Spec
CONSTANTS
    Reqs = {r1, r2}
    Bookings = {b1, b2}
    Stays <- TwoStays
    Blocks = {}
    Days = {0, 1}
    NONE = NONE
    InstantBook = FALSE
    Policy = "FLEXIBLE"
    Methods = {"PAYPAL", "INTERNAL", "MTN_MOMO"}
    Price = 2
    HostPayout = 2
    Opening = 2
    Amounts = {}
    MaxFunds = 2
    MaxDebit = 2
    Exposed = {"create", "pay", "capture", "poll", "reject"}
SYMMETRY Sym
INVARIANTS
    PaidIsConfirmed
    PaymentsNeedCaptures
    HostCreditedOnce
