SPECIFICATION FairSpec
CONSTANTS
    Unit = 100
    Users = {u1}
    Runs = {r1}
    OnSale = {r1}
    Codes = {}
    NoCode = "none"
    PriceWith <- MCPriceWith
    RedemptionType <- MCRedemptionType
    MaxRedemptions <- MCMaxRedemptions
    Gateways = {"stripe", "cybersource"}
    Outcomes = {"paid", "expired", "declined"}
    Staff = {"force", "force_skip", "refund_command", "resolve", "resolve_skip"}
    MultipleCartItems = FALSE
    Procs = {p1, p2}
    MaxOrders = 1
    MaxAttempts = 2
    MaxRefunds = 1
    MaxCrashes = 0
    Enrolling = {}
    MaxEnrolling = 1
INVARIANTS PaymentOnRecord
PROPERTIES PaidLeadsToSettled
