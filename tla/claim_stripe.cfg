SPECIFICATION FairSpec
CONSTANTS
    Reqs = {r1, r2}
    Bookings = {b1}
    Stays <- OneStay
    Blocks = {}
    Days = {0}
    NONE = NONE
    InstantBook = FALSE
    Policy = "FLEXIBLE"
    Methods = {"STRIPE"}
    Price = 2
    HostPayout = 2
    Opening = 0
    Amounts = {}
    MaxFunds = 0
    MaxDebit = 2
    Exposed = {"create", "pay", "timeout", "expiry"}
PROPERTIES
    StripeConfirmed
