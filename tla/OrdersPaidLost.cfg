SPECIFICATION FairSpec
CONSTANTS
    Unit = 100
    Users = {u1}
    Runs = {r1}
    OnSale = {r1}
    Codes = {}
    NoCode = "none"
    PriceWith <- MCPriceWith
    RedemptionType <- MCRedemptionType
    MaxRedemptions <- MCMaxRedemptions
    Gateways = {"stripe"}
    Outcomes = {"paid", "expired"}
    Staff = {}
    MultipleCartItems = FALSE
    Procs = {p1, p2}
    MaxOrders = 1
    MaxAttempts = 2
    MaxRefunds = 1
    MaxCrashes = 0
    Enrolling = {}
    MaxEnrolling = 1
PROPERTIES PaidLeadsToFulfilled
