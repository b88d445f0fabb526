SPECIFICATION Spec
CONSTANTS
    Reqs = {r1, r2}
    Bookings = {b1}
    Stays <- OneStay
    Blocks <- OneBlock
    Days = {0, 1}
    NONE = NONE
    InstantBook = FALSE
    Policy = "FLEXIBLE"
    Methods = {}
    Price = 2
    HostPayout = 2
    Opening = 0
    Amounts = {}
    MaxFunds = 0
    MaxDebit = 2
    Exposed = {"create", "confirm", "reject", "cancel", "checkIn", "checkOut", "dispute", "escalate", "blockDates", "remove", "touch", "drop", "expiry"}
SYMMETRY Sym
INVARIANTS
    FreedOnlyWhenEnded
    StagesInOrder
