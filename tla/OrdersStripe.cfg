SPECIFICATION Spec
CONSTANTS
    Unit = 100
    Users = {u1}
    Runs = {r1}
    OnSale = {r1}
    Codes = {"free"}
    NoCode = "none"
    PriceWith <- MCPriceWith
    RedemptionType <- MCRedemptionType
    MaxRedemptions <- MCMaxRedemptions
    Gateways = {"stripe"}
    Outcomes = {"paid", "expired", "processing", "voided"}
    Staff = {"refund"}
    MultipleCartItems = FALSE
    Procs = {p1, p2}
    MaxOrders = 2
    MaxAttempts = 1
    MaxRefunds = 4
    MaxCrashes = 1
    Enrolling = {"unenroll", "audit", "sync"}
    MaxEnrolling = 1
INVARIANTS TypeOK RefundsBounded FulfilledIsDelivered
PROPERTIES SettledIsFinal RefundedNotFulfilledAgain
SYMMETRY ProcSymmetry
