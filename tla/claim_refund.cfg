SPECIFICATION Spec
CONSTANTS
    Reqs = {r1, r2}
    Bookings = {b1}
    Stays <- OneStay
    Blocks = {}
    Days = {0}
    NONE = NONE
    InstantBook = FALSE
    Policy = "FLEXIBLE"
    Methods = {"INTERNAL"}
    Price = 2
    HostPayout = 2
    Opening = 2
    Amounts = {}
    MaxFunds = 0
    MaxDebit = 2
    Exposed = {"create", "reject", "cancel", "pay"}
SYMMETRY Sym
INVARIANTS
    RefundedOnce
