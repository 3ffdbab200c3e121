SPECIFICATION Spec
CONSTANTS
    Unit = 100
    Users = {u1}
    Runs = {r1, r2}
    OnSale = {r1}
    Codes = {}
    NoCode = "none"
    PriceWith <- MCPriceWith
    RedemptionType <- MCRedemptionType
    MaxRedemptions <- MCMaxRedemptions
    Gateways = {"cybersource"}
    Outcomes = {"paid", "declined", "error", "canceled"}
    Staff = {"refund"}
    MultipleCartItems = FALSE
    Procs = {p1, p2}
    MaxOrders = 2
    MaxAttempts = 2
    MaxRefunds = 1
    MaxCrashes = 0
    Enrolling = {"defer"}
    MaxEnrolling = 1
INVARIANTS FulfilledIsDelivered
SYMMETRY ProcSymmetry
PROPERTIES FlowRespected
