SPECIFICATION Spec
CONSTANTS
    Reqs = {r1, r2, r3}
    Bookings = {b1}
    Stays <- OneStay
    Blocks = {}
    Days = {0, 1}
    NONE = NONE
    InstantBook = FALSE
    Policy = "FLEXIBLE"
    Methods = {"INTERNAL", "PAYPAL"}
    Price = 2
    HostPayout = 2
    Opening = 2
    Amounts <- TwoEachWay
    MaxFunds = 2
    MaxDebit = 2
    Exposed = {"create", "reject", "checkIn", "checkOut", "pay", "throw", "capture", "withdraw"}
SYMMETRY Sym
INVARIANTS
    OverdraftBounded
    StagesInOrder
    HostCreditedOnce
