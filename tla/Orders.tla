------------------------------- MODULE Orders -------------------------------
(***************************************************************************)
(* The life of an order: basket, checkout, payment, fulfilment, refund     *)
(* (ecommerce/models.py, ecommerce/api.py and the views that call them).   *)
(*                                                                         *)
(* The tables are the shared state.  A request, webhook, celery task or    *)
(* management command is a process p \in Procs.  The project does not set  *)
(* ATOMIC_REQUESTS, so a handler outside transaction.atomic() is several   *)
(* committed steps with an Order instance in memory between them:          *)
(* proc[p].total is the column of that instance that a later order.save()  *)
(* writes back with the new state.  A handler that runs inside             *)
(* transaction.atomic() with the row locked is one action.                 *)
(*                                                                         *)
(* One product sells one course run and all products have the same price,  *)
(* so a code's effect is the price PriceWith[code] of a line.  HubSpot     *)
(* syncs, mails and the Stripe event log do not feed back into this state  *)
(* and are left out.                                                       *)
(***************************************************************************)
EXTENDS Naturals, FiniteSets, Sequences

CONSTANTS
    Users,              \* purchasers
    Runs,               \* course runs
    OnSale,             \* those with a product, one each
    Codes,              \* discount codes
    NoCode,             \* no discount applied
    PriceWith,          \* price of one line under a code (or NoCode)
    RedemptionType,     \* Discount.redemption_type of each code
    MaxRedemptions,     \* Discount.max_redemptions of each code, 0 for none
    Gateways,           \* the gateways checkouts may be sent to
    Outcomes,           \* what the gateways may report about a payment page
    Staff,              \* the staff operations in use
    Enrolling,          \* the ways enrollments change beside the orders
    MultipleCartItems,  \* settings.ENABLE_MULTIPLE_CART_ITEMS
    Procs,              \* web and celery processes
    MaxOrders,          \* bound on rows of the order table
    MaxAttempts,        \* bound on payment pages opened
    MaxRefunds,         \* bound on refund calls per order
    MaxEnrolling,       \* bound on enrollment requests at work
    MaxCrashes          \* bound on requests that die half way

OrderIds == 1 .. MaxOrders
Attempts == 1 .. MaxAttempts

OrderStatus == {"pending", "fulfilled", "canceled", "declined", "errored",
                "refunded"}

StripeOutcomes == {"processing", "paid", "voided", "expired"}
CybersourceOutcomes == {"paid", "declined", "error", "canceled"}
AttemptStatus == {"unused", "open"} \cup StripeOutcomes \cup CybersourceOutcomes

StaffOperations == {"resolve", "resolve_skip", "force", "force_skip",
                    "refund", "refund_command"}

EnrollOperations == {"unenroll", "audit", "defer", "sync"}

RedemptionTypes == {"one-time", "one-time-per-user", "unlimited"}

ASSUME UsersAssumption == Users # {}
ASSUME RunsAssumption == IsFiniteSet(Runs) /\ OnSale \subseteq Runs
ASSUME ProcsAssumption == IsFiniteSet(Procs)
ASSUME CodesAssumption == NoCode \notin Codes
ASSUME PriceAssumption == PriceWith \in [Codes \cup {NoCode} -> Nat]
ASSUME RedemptionAssumption ==
    /\ RedemptionType \in [Codes -> RedemptionTypes]
    /\ MaxRedemptions \in [Codes -> Nat]
ASSUME GatewaysAssumption ==
    Gateways # {} /\ Gateways \subseteq {"stripe", "cybersource"}
ASSUME EnvironmentAssumption ==
    /\ Outcomes \subseteq StripeOutcomes \cup CybersourceOutcomes
    /\ Staff \subseteq StaffOperations
    /\ Enrolling \subseteq EnrollOperations
    /\ MultipleCartItems \in BOOLEAN
ASSUME BoundsAssumption ==
    /\ MaxOrders \in Nat
    /\ MaxAttempts \in Nat
    /\ MaxRefunds \in Nat
    /\ MaxEnrolling \in Nat
    /\ MaxCrashes \in Nat

VARIABLES
    basket,     \* user -> [items, code]
    order,      \* the order table with its lines and its discount redemption
    trans,      \* order -> ids of its Transaction rows
    paidRun,    \* PaidCourseRun rows, as <<order, run>>
    mode,       \* user -> run -> mode of the active enrollment, or "none"
    attempt,    \* payment pages at the gateways: [order, status]
    refunds,    \* order -> refunds the gateway has carried out
    downgrades, \* queued perform_downgrade_from_order tasks
    proc,       \* process -> the handler it is running
    crashes,    \* requests that died half way so far
    enrolling,  \* unenrolments and deferrals at work, with what is left to do
    cleared,    \* history: PaidCourseRun rows deleted or moved so far
    lowered     \* history: lines whose verified enrollment was taken away

vars == <<basket, order, trans, paidRun, mode, attempt, refunds, downgrades,
          proc, crashes, enrolling, cleared, lowered>>

-----------------------------------------------------------------------------
(* Transaction ids.  get_or_create by a unique id makes a set of them.     *)

Kinds == {"session", "event", "expired", "callback", "generated", "refund"}
Ids == [kind : Kinds, attempt : 0 .. MaxAttempts]
Id(k, a) == [kind |-> k, attempt |-> a]
Generated == Id("generated", 0)

(* The id create_transaction gives a payload: an order whose price in      *)
(* memory is zero gets a fresh uuid whatever the payload says.             *)
TransactionId(total, id) == IF total = 0 THEN Generated ELSE id

ProcStates == {"idle", "zero", "pay", "log", "record", "record_only",
               "lines", "paid", "save", "basket", "cancel", "save_cancel",
               "refund", "refunded", "save_refund", "manual_audit",
               "manual_unenroll", "audit", "unenroll"}

Idle == [pc |-> "idle", order |-> 0, total |-> 0, id |-> Generated,
         todo |-> {}, line |-> {}]

EmptyBasket == [items |-> {}, code |-> NoCode]

AbsentOrder == [state |-> "absent", user |-> CHOOSE u \in Users : TRUE,
                gateway |-> CHOOSE g \in Gateways : TRUE,
                lines |-> {}, total |-> 0, code |-> NoCode]

Init ==
    /\ basket = [u \in Users |-> EmptyBasket]
    /\ order = [o \in OrderIds |-> AbsentOrder]
    /\ trans = [o \in OrderIds |-> {}]
    /\ paidRun = {}
    /\ mode = [u \in Users |-> [r \in Runs |-> "none"]]
    /\ attempt = [a \in Attempts |-> [order |-> 0, status |-> "unused"]]
    /\ refunds = [o \in OrderIds |-> 0]
    /\ downgrades = {}
    /\ proc = [p \in Procs |-> Idle]
    /\ crashes = 0
    /\ enrolling = {}
    /\ cleared = {}
    /\ lowered = {}

(* Process p reads row o into memory and goes on at pc.                    *)
Load(p, pc, o, id) ==
    /\ proc[p] = Idle
    /\ proc' = [proc EXCEPT ![p] = [pc |-> pc, order |-> o,
                    total |-> order[o].total, id |-> id,
                    todo |-> {}, line |-> {}]]
    /\ UNCHANGED <<basket, order, trans, paidRun, mode, attempt, refunds,
                   downgrades, crashes, enrolling, cleared, lowered>>

(* order.save(): every column of the instance in memory is written.        *)
Save(p, state) ==
    order' = [order EXCEPT ![proc[p].order] =
                  [@ EXCEPT !.state = state, !.total = proc[p].total]]

-----------------------------------------------------------------------------
(* Basket and discount codes                                               *)

(* Orders that count as redemptions of code d.                             *)
Redeemed(d) == {o \in OrderIds : /\ order[o].code = d
                                 /\ order[o].state = "fulfilled"}

(* Discount.check_validity (activation dates are not modelled).            *)
CheckValidity(u, d) ==
    /\ RedemptionType[d] = "one-time" => Redeemed(d) = {}
    /\ RedemptionType[d] = "one-time-per-user" =>
           \A o \in Redeemed(d) : order[o].user # u
    /\ MaxRedemptions[d] > 0 => Cardinality(Redeemed(d)) < MaxRedemptions[d]

(* CheckoutApiViewSet.add_to_cart: the discounts always go, the items only *)
(* without the multiple-items setting.                                     *)
AddToCart(u, r) ==
    /\ basket' = [basket EXCEPT ![u] =
            [items |-> IF MultipleCartItems THEN @.items \cup {r} ELSE {r},
             code |-> NoCode]]
    /\ UNCHANGED <<order, trans, paidRun, mode, attempt, refunds, downgrades,
                   proc, crashes, enrolling, cleared, lowered>>

(* clear_basket *)
ClearBasket(u) ==
    /\ basket[u] # EmptyBasket
    /\ basket' = [basket EXCEPT ![u] = EmptyBasket]
    /\ UNCHANGED <<order, trans, paidRun, mode, attempt, refunds, downgrades,
                   proc, crashes, enrolling, cleared, lowered>>

(* CheckoutApiViewSet.redeem_discount: the codes already applied go, then  *)
(* BasketItem.objects.get() fails unless there is exactly one item.        *)
RedeemDiscount(u, d) ==
    /\ CheckValidity(u, d)
    /\ basket' = [basket EXCEPT ![u].code =
            IF \E r \in Runs : basket[u].items = {r} THEN d ELSE NoCode]
    /\ UNCHANGED <<order, trans, paidRun, mode, attempt, refunds, downgrades,
                   proc, crashes, enrolling, cleared, lowered>>

-----------------------------------------------------------------------------
(* Checkout: generate_checkout_payload                                     *)

(* Basket.has_user_purchased_same_courserun *)
PurchasedSameCourserun(u) ==
    \E o \in OrderIds, r \in basket[u].items :
        /\ <<o, r>> \in paidRun
        /\ order[o].user = u
        /\ order[o].state = "fulfilled"

BasketCodeValid(u) ==
    basket[u].code # NoCode => CheckValidity(u, basket[u].code)

(* Mutation: any order of the purchaser is reused, whatever its state.     *)
ReusableAnyState(u, g) ==
    {o \in OrderIds : /\ order[o].state # "absent"
                      /\ order[o].user = u
                      /\ order[o].gateway = g
                      /\ order[o].lines \cap basket[u].items # {}}

(* The pending orders PendingOrder._get_or_create may reuse: same          *)
(* purchaser and gateway, some line for one of the products.               *)
Reusable(u, g) ==
    {o \in OrderIds : /\ order[o].state = "pending"
                      /\ order[o].user = u
                      /\ order[o].gateway = g
                      /\ order[o].lines \cap basket[u].items # {}}

(* The row _get_or_create settles on: the first match, or a new one.       *)
PendingRow(u, g) ==
    IF Reusable(u, g) # {} THEN Reusable(u, g)
    ELSE {o \in OrderIds : order[o].state = "absent"}

(* A discount that is no longer valid is dropped from the basket.          *)
CheckoutDropsDiscount(u) ==
    /\ ~PurchasedSameCourserun(u)
    /\ ~BasketCodeValid(u)
    /\ basket' = [basket EXCEPT ![u].code = NoCode]
    /\ UNCHANGED <<order, trans, paidRun, mode, attempt, refunds, downgrades,
                   proc, crashes, enrolling, cleared, lowered>>

(* Bound: a page of the gateway is left for every checkout that needs one. *)
AttemptsLeft ==
    Cardinality({a \in Attempts : attempt[a].status = "unused"}) >
        Cardinality({p \in Procs : proc[p].pc = "pay"})

(* The checks, then _get_or_create in its transaction: an old redemption   *)
(* is replaced, missing lines are added, and the total is the price of     *)
(* the products of this basket.                                            *)
Checkout(p, u, g) ==
    /\ proc[p] = Idle
    /\ basket[u].items # {}
    /\ ~PurchasedSameCourserun(u)
    /\ BasketCodeValid(u)
    /\ PriceWith[basket[u].code] = 0 \/ AttemptsLeft
    /\ \E o \in PendingRow(u, g) :
        /\ \A x \in PendingRow(u, g) : o <= x
        /\ LET price == PriceWith[basket[u].code]
               total == Cardinality(basket[u].items) * price
           IN  /\ order' = [order EXCEPT ![o] =
                       [state |-> "pending", user |-> u, gateway |-> g,
                        lines |-> @.lines \cup basket[u].items,
                        total |-> total, code |-> basket[u].code]]
               /\ proc' = [proc EXCEPT ![p] =
                       [Idle EXCEPT !.pc = IF price = 0 THEN "zero" ELSE "pay",
                                    !.order = o, !.total = total]]
    /\ UNCHANGED <<basket, trans, paidRun, mode, attempt, refunds, downgrades,
                   crashes, enrolling, cleared, lowered>>

(* Basket.compare_to_order: equal counts, and every pair equal.            *)
CompareToOrder(u, o) ==
    /\ Cardinality(basket[u].items) = Cardinality(order[o].lines)
    /\ \A i \in basket[u].items, l \in order[o].lines : i = l
    /\ basket[u].code = order[o].code

(* Mutation: an enrollment the learner already has keeps its mode.         *)
FulfillAtomicallyKeepsMode(o, total, id) ==
    LET u == order[o].user
        lines == order[o].lines
    IN  /\ \A r \in lines : <<o, r>> \notin paidRun
        /\ trans' = [trans EXCEPT ![o] = @ \cup {TransactionId(total, id)}]
        /\ mode' = [mode EXCEPT ![u] =
                [r \in Runs |-> IF r \in lines /\ @[r] = "none" THEN "verified"
                                ELSE @[r]]]
        /\ paidRun' = paidRun \cup ({o} \X lines)
        /\ order' = [order EXCEPT ![o] =
                [@ EXCEPT !.state = "fulfilled", !.total = total]]
        /\ basket' = IF CompareToOrder(u, o)
                     THEN [basket EXCEPT ![u] = EmptyBasket]
                     ELSE basket

(* fulfill_completed_order inside a transaction: a PaidCourseRun that      *)
(* already exists violates its unique key and rolls everything back.       *)
FulfillAtomically(o, total, id) ==
    LET u == order[o].user
        lines == order[o].lines
    IN  /\ \A r \in lines : <<o, r>> \notin paidRun
        /\ trans' = [trans EXCEPT ![o] = @ \cup {TransactionId(total, id)}]
        /\ mode' = [mode EXCEPT ![u] =
                [r \in Runs |-> IF r \in lines THEN "verified" ELSE @[r]]]
        /\ paidRun' = paidRun \cup ({o} \X lines)
        /\ order' = [order EXCEPT ![o] =
                [@ EXCEPT !.state = "fulfilled", !.total = total]]
        /\ basket' = IF CompareToOrder(u, o)
                     THEN [basket EXCEPT ![u] = EmptyBasket]
                     ELSE basket

(* Nothing to pay: fulfilled at once, from the instance in memory.         *)
CheckoutZero(p) ==
    /\ proc[p].pc = "zero"
    /\ FulfillAtomically(proc[p].order, proc[p].total, Generated)
    /\ proc' = [proc EXCEPT ![p] = Idle]
    /\ UNCHANGED <<attempt, refunds, downgrades, crashes, enrolling, cleared,
                   lowered>>

CheckoutZeroFails(p) ==
    /\ proc[p].pc = "zero"
    /\ \E r \in order[proc[p].order].lines : <<proc[p].order, r>> \in paidRun
    /\ proc' = [proc EXCEPT ![p] = Idle]
    /\ UNCHANGED <<basket, order, trans, paidRun, mode, attempt, refunds,
                   downgrades, crashes, enrolling, cleared, lowered>>

(* PaymentGateway.start_payment: the gateway opens a page for the order.   *)
StartPayment(p, a) ==
    /\ proc[p].pc = "pay"
    /\ attempt[a].status = "unused"
    /\ \A b \in Attempts : b < a => attempt[b].status # "unused"
    /\ attempt' = [attempt EXCEPT ![a] =
                       [order |-> proc[p].order, status |-> "open"]]
    /\ proc' = [proc EXCEPT ![p] =
            IF order[proc[p].order].gateway = "stripe"
            THEN [@ EXCEPT !.pc = "log", !.id = Id("session", a)]
            ELSE Idle]
    /\ UNCHANGED <<basket, order, trans, paidRun, mode, refunds, downgrades,
                   crashes, enrolling, cleared, lowered>>

(* A Stripe session is logged as a transaction of the order.               *)
LogSession(p) ==
    /\ proc[p].pc = "log"
    /\ trans' = [trans EXCEPT ![proc[p].order] =
                     @ \cup {TransactionId(proc[p].total, proc[p].id)}]
    /\ proc' = [proc EXCEPT ![p] = Idle]
    /\ UNCHANGED <<basket, order, paidRun, mode, attempt, refunds, downgrades,
                   crashes, enrolling, cleared, lowered>>

-----------------------------------------------------------------------------
(* The gateways                                                            *)

GatewayOf(a) == order[attempt[a].order].gateway

NextOutcomes(a) ==
    IF GatewayOf(a) = "stripe"
    THEN CASE attempt[a].status = "open" -> {"processing", "paid", "expired"}
           [] attempt[a].status = "processing" -> {"paid", "voided"}
           [] OTHER -> {}
    ELSE IF attempt[a].status = "open" THEN CybersourceOutcomes ELSE {}

(* The learner pays, fails to pay, or walks away.                          *)
PaymentOutcome(a) ==
    /\ attempt[a].status # "unused"
    /\ \E s \in NextOutcomes(a) \cap Outcomes :
           attempt' = [attempt EXCEPT ![a].status = s]
    /\ UNCHANGED <<basket, order, trans, paidRun, mode, refunds, downgrades,
                   proc, crashes, enrolling, cleared, lowered>>

(* Mutation: any answer of the gateway but an expiry counts as payment.    *)
OverallStatusAnyAnswer(a) ==
    CASE attempt[a].status \in {"unused", "open"} -> "pending"
      [] attempt[a].status = "expired" -> "cancelled"
      [] OTHER -> "paid"

(* process_stripe_checkout_session_status for a Stripe session; the        *)
(* reason-code test of _retrieve_pending_cybersource_orders for the other. *)
OverallStatus(a) ==
    CASE attempt[a].status = "paid" -> "paid"
      [] attempt[a].status \in {"unused", "open", "processing"} -> "pending"
      [] OTHER -> "cancelled"

-----------------------------------------------------------------------------
(* Stripe webhooks.  Stripe delivers an event at least once, late and in   *)
(* any order; the handler takes no lock and opens no transaction.          *)

(* process_stripe_checkout_completed up to the order it loads.  With       *)
(* status pending nothing is done; fulfil raises TransitionNotAllowed when *)
(* the order it loaded is not pending.                                     *)
ProcessStripeCheckoutCompleted(p, a) ==
    /\ attempt[a].status \in {"paid", "voided"}
    /\ GatewayOf(a) = "stripe"
    /\ \/ /\ OverallStatus(a) = "paid"
          /\ order[attempt[a].order].state = "pending"
          /\ Load(p, "record", attempt[a].order, Id("event", a))
       \/ /\ OverallStatus(a) = "cancelled"
          /\ Load(p, "cancel", attempt[a].order, Id("event", a))

(* process_stripe_checkout_expired *)
ProcessStripeCheckoutExpired(p, a) ==
    /\ attempt[a].status = "expired"
    /\ GatewayOf(a) = "stripe"
    /\ Load(p, "cancel", attempt[a].order, Id("expired", a))

(* OrderFlow.cancel, from any state of the instance in memory: the          *)
(* transaction is committed before on_success saves the order.             *)
RecordCancellation(p) ==
    /\ proc[p].pc = "cancel"
    /\ trans' = [trans EXCEPT ![proc[p].order] =
                     @ \cup {TransactionId(proc[p].total, proc[p].id)}]
    /\ proc' = [proc EXCEPT ![p].pc = "save_cancel"]
    /\ UNCHANGED <<basket, order, paidRun, mode, attempt, refunds, downgrades,
                   crashes, enrolling, cleared, lowered>>

CancelOrder(p) ==
    /\ proc[p].pc = "save_cancel"
    /\ Save(p, "canceled")
    /\ proc' = [proc EXCEPT ![p] = Idle]
    /\ UNCHANGED <<basket, trans, paidRun, mode, attempt, refunds, downgrades,
                   crashes, enrolling, cleared, lowered>>

-----------------------------------------------------------------------------
(* OrderFlow.fulfill outside a transaction, step by step                   *)

(* create_transaction, then the lines are read.                            *)
CreateTransaction(p) ==
    /\ proc[p].pc \in {"record", "record_only"}
    /\ trans' = [trans EXCEPT ![proc[p].order] =
                     @ \cup {TransactionId(proc[p].total, proc[p].id)}]
    /\ proc' = [proc EXCEPT ![p] =
            IF proc[p].pc = "record"
            THEN [@ EXCEPT !.pc = "lines",
                           !.todo = order[proc[p].order].lines]
            ELSE [@ EXCEPT !.pc = "save"]]
    /\ UNCHANGED <<basket, order, paidRun, mode, attempt, refunds, downgrades,
                   crashes, enrolling, cleared, lowered>>

(* create_run_enrollments for a line.  The lines query has no ORDER BY.    *)
EnrollLine(p, r) ==
    /\ proc[p].pc = "lines"
    /\ r \in proc[p].todo
    /\ mode' = [mode EXCEPT ![order[proc[p].order].user][r] = "verified"]
    /\ proc' = [proc EXCEPT ![p] =
            [@ EXCEPT !.pc = "paid", !.todo = proc[p].todo \ {r},
                      !.line = {r}]]
    /\ UNCHANGED <<basket, order, trans, paidRun, attempt, refunds, downgrades,
                   crashes, enrolling, cleared, lowered>>

(* Mutation: get_or_create instead of create.                              *)
CreatePaidCourseRunIfMissing(p) ==
    /\ proc[p].pc = "paid"
    /\ paidRun' = paidRun \cup ({proc[p].order} \X proc[p].line)
    /\ proc' = [proc EXCEPT ![p] = [@ EXCEPT !.pc = "lines", !.line = {}]]
    /\ UNCHANGED <<basket, order, trans, mode, attempt, refunds, downgrades,
                   crashes, enrolling, cleared, lowered>>

(* PaidCourseRun.objects.create *)
CreatePaidCourseRun(p) ==
    /\ proc[p].pc = "paid"
    /\ \A r \in proc[p].line : <<proc[p].order, r>> \notin paidRun
    /\ paidRun' = paidRun \cup ({proc[p].order} \X proc[p].line)
    /\ proc' = [proc EXCEPT ![p] = [@ EXCEPT !.pc = "lines", !.line = {}]]
    /\ UNCHANGED <<basket, order, trans, mode, attempt, refunds, downgrades,
                   crashes, enrolling, cleared, lowered>>

(* The row exists: IntegrityError ends the request before order.save().    *)
PaidCourseRunExists(p) ==
    /\ proc[p].pc = "paid"
    /\ \E r \in proc[p].line : <<proc[p].order, r>> \in paidRun
    /\ proc' = [proc EXCEPT ![p] = Idle]
    /\ UNCHANGED <<basket, order, trans, paidRun, mode, attempt, refunds,
                   downgrades, crashes, enrolling, cleared, lowered>>

(* Mutation: the order is saved before all lines are processed.            *)
SaveFulfilledEarly(p) ==
    /\ proc[p].pc \in {"save", "lines"}
    /\ Save(p, "fulfilled")
    /\ proc' = [proc EXCEPT ![p] = Idle]
    /\ UNCHANGED <<basket, trans, paidRun, mode, attempt, refunds, downgrades,
                   crashes, enrolling, cleared, lowered>>

(* Mutation: on_success does not save.                                     *)
SaveFulfilledForgotten(p) ==
    /\ \/ proc[p].pc = "save"
       \/ proc[p].pc = "lines" /\ proc[p].todo = {}
    /\ proc' = [proc EXCEPT ![p] = Idle]
    /\ UNCHANGED <<basket, order, trans, paidRun, mode, attempt, refunds,
                   downgrades, crashes, enrolling, cleared, lowered>>

(* The transition's on_success saves the order; only the webhook then goes *)
(* on to compare the basket.                                               *)
SaveFulfilled(p) ==
    /\ \/ proc[p].pc = "save"
       \/ proc[p].pc = "lines" /\ proc[p].todo = {}
    /\ Save(p, "fulfilled")
    /\ proc' = [proc EXCEPT ![p] =
            IF proc[p].id.kind = "event" THEN [@ EXCEPT !.pc = "basket"]
            ELSE Idle]
    /\ UNCHANGED <<basket, trans, paidRun, mode, attempt, refunds, downgrades,
                   crashes, enrolling, cleared, lowered>>

(* The end of fulfill_completed_order.                                     *)
DeleteBasket(p) ==
    /\ proc[p].pc = "basket"
    /\ LET o == proc[p].order
           u == order[o].user
       IN  basket' = IF CompareToOrder(u, o)
                     THEN [basket EXCEPT ![u] = EmptyBasket]
                     ELSE basket
    /\ proc' = [proc EXCEPT ![p] = Idle]
    /\ UNCHANGED <<order, trans, paidRun, mode, attempt, refunds, downgrades,
                   crashes, enrolling, cleared, lowered>>

-----------------------------------------------------------------------------
(* CyberSource callbacks: one transaction, the row locked, and only a      *)
(* pending order is touched.                                               *)

(* Mutation: the state of the order is not looked at.                      *)
CallbackAnyState(a) ==
    /\ attempt[a].status # "unused"
    /\ GatewayOf(a) = "cybersource"

CallbackPending(a) ==
    /\ attempt[a].status # "unused"
    /\ GatewayOf(a) = "cybersource"
    /\ order[attempt[a].order].state = "pending"

CallbackAccepted(a) ==
    /\ CallbackPending(a)
    /\ attempt[a].status = "paid"
    /\ FulfillAtomically(attempt[a].order, order[attempt[a].order].total,
                         Id("callback", a))
    /\ UNCHANGED <<attempt, refunds, downgrades, proc, crashes, enrolling,
                   cleared, lowered>>

(* OrderFlow.decline also deletes the redemption so the code can be reused.*)
CallbackDeclined(a) ==
    /\ CallbackPending(a)
    /\ attempt[a].status = "declined"
    /\ order' = [order EXCEPT ![attempt[a].order] =
                      [@ EXCEPT !.state = "declined", !.code = NoCode]]
    /\ UNCHANGED <<basket, trans, paidRun, mode, attempt, refunds, downgrades,
                   proc, crashes, enrolling, cleared, lowered>>

CallbackFailed(a) ==
    /\ CallbackPending(a)
    /\ \E s \in {"error", "canceled"} :
        /\ attempt[a].status = s
        /\ order' = [order EXCEPT ![attempt[a].order].state =
                         IF s = "error" THEN "errored" ELSE "canceled"]
    /\ UNCHANGED <<basket, trans, paidRun, mode, attempt, refunds, downgrades,
                   proc, crashes, enrolling, cleared, lowered>>

-----------------------------------------------------------------------------
(* resolve_pending_order: check_and_process_pending_orders_for_resolution; *)
(* with --no-fulfillment ("_skip") the transaction is recorded and the      *)
(* lines are not processed.                                                *)

(* The payment pages the lookup reports for order o: a logged Stripe       *)
(* session (the first row; inserts of two checkouts come in any order), or *)
(* what CyberSource has on record for the reference.                       *)
Found(o) ==
    IF order[o].gateway = "stripe"
    THEN {a \in Attempts : Id("session", a) \in trans[o]}
    ELSE {a \in Attempts : /\ attempt[a].status \notin {"unused", "open"}
                           /\ attempt[a].order = o}

Payload(o, a) ==
    IF order[o].gateway = "stripe" THEN Id("session", a)
    ELSE Id("callback", a)

ResolvePendingOrder(p, o) ==
    /\ {"resolve", "resolve_skip"} \cap Staff # {}
    /\ order[o].state = "pending"
    /\ \E a \in Found(o) :
        \/ /\ "resolve" \in Staff
           /\ OverallStatus(a) = "paid"
           /\ Load(p, "record", o, Payload(o, a))
        \/ /\ "resolve_skip" \in Staff
           /\ OverallStatus(a) = "paid"
           /\ Load(p, "record_only", o, Payload(o, a))
        \/ /\ OverallStatus(a) = "cancelled"
           /\ Load(p, "cancel", o, Payload(o, a))

(* --no-check, without and with --no-fulfillment *)
ForceFulfill(p, o) ==
    /\ order[o].state = "pending"
    /\ \/ "force" \in Staff /\ Load(p, "record", o, Generated)
       \/ "force_skip" \in Staff /\ Load(p, "record_only", o, Generated)

-----------------------------------------------------------------------------
(* Enrollments that change beside the orders (courses/api.py).             *)

(* PaidCourseRun rows of a learner for a run, and the lines that sold it.  *)
RowsOf(u, r) == {pr \in paidRun : order[pr[1]].user = u /\ pr[2] = r}
LinesOf(u, r) ==
    {pr \in OrderIds \X {r} : order[pr[1]].user = u /\ r \in order[pr[1]].lines}

SetMode(u, r, m) ==
    /\ mode' = [mode EXCEPT ![u][r] = m]
    /\ lowered' = IF mode[u][r] = "verified" /\ m # "verified"
                  THEN lowered \cup LinesOf(u, r) ELSE lowered

ClearRows(u, r) ==
    /\ paidRun' = paidRun \ RowsOf(u, r)
    /\ cleared' = cleared \cup RowsOf(u, r)

EnrollSteps == {"deactivate", "clear", "enroll", "downgrade", "move"}
EnrollRequests ==
    [user : Users, from : Runs, to : Runs, todo : Seq(EnrollSteps)]

StartEnrolling(u, from, to, todo) ==
    /\ Cardinality(enrolling) < MaxEnrolling
    /\ enrolling' = enrolling \cup
           {[user |-> u, from |-> from, to |-> to, todo |-> todo]}
    /\ UNCHANGED <<basket, order, trans, paidRun, mode, attempt, refunds,
                   downgrades, proc, crashes, cleared, lowered>>

(* The unenroll endpoints and unenroll_learner_from_run: the active        *)
(* enrollment is read, edX is told, and deactivate_run_enrollment goes on. *)
Unenroll(u, r) ==
    /\ "unenroll" \in Enrolling
    /\ mode[u][r] # "none"
    /\ StartEnrolling(u, r, r, <<"deactivate", "clear">>)

(* defer_enrollment without force: what it will do follows from the two    *)
(* enrollments it reads.  An enrollment deferred before is in audit mode,  *)
(* is not downgraded again, and is left alone when "to" is verified.       *)
DeferEnrollment(u, from, to) ==
    /\ "defer" \in Enrolling
    /\ from # to
    /\ mode[u][from] # "none"
    /\ \E alreadyDeferredFrom \in BOOLEAN :
        /\ alreadyDeferredFrom =>
               mode[u][from] = "audit" /\ mode[u][to] # "verified"
        /\ StartEnrolling(u, from, to,
               (IF mode[u][to] = "audit" THEN <<"deactivate", "clear">>
                ELSE <<>>)
               \o <<"enroll">>
               \o (IF alreadyDeferredFrom THEN <<>> ELSE <<"downgrade">>)
               \o <<"move">>)

(* A request goes on to its next step, or ends after the last.             *)
Advance(e) ==
    enrolling' = (enrolling \ {e}) \cup
        (IF Tail(e.todo) = <<>> THEN {} ELSE {[e EXCEPT !.todo = Tail(@)]})

Deactivate(e) ==
    /\ Head(e.todo) = "deactivate"
    /\ SetMode(e.user, e.to, "none")
    /\ Advance(e)
    /\ UNCHANGED <<basket, order, trans, paidRun, attempt, refunds,
                   downgrades, proc, crashes, cleared>>

ClearPayments(e) ==
    /\ Head(e.todo) = "clear"
    /\ ClearRows(e.user, e.to)
    /\ Advance(e)
    /\ UNCHANGED <<basket, order, trans, mode, attempt, refunds, downgrades,
                   proc, crashes, lowered>>

(* create_run_enrollments of a deferral: verified in the new run, audit in *)
(* the old one.                                                            *)
EnrollDeferred(e) ==
    /\ \/ Head(e.todo) = "enroll" /\ SetMode(e.user, e.to, "verified")
       \/ Head(e.todo) = "downgrade" /\ SetMode(e.user, e.from, "audit")
    /\ Advance(e)
    /\ UNCHANGED <<basket, order, trans, paidRun, attempt, refunds,
                   downgrades, proc, crashes, cleared>>

(* change_payment_to_run: the first row for the old run whose order is     *)
(* fulfilled gets the new run; its unique key may forbid it.               *)
ChangePaymentToRun(e) ==
    /\ Head(e.todo) = "move"
    /\ LET rows == {pr \in RowsOf(e.user, e.from) :
                        order[pr[1]].state = "fulfilled"}
       IN  \/ \E pr \in rows :
                 /\ <<pr[1], e.to>> \notin paidRun
                 /\ paidRun' = (paidRun \ {pr}) \cup {<<pr[1], e.to>>}
                 /\ cleared' = cleared \cup {pr}
           \/ /\ rows = {} \/ \E pr \in rows : <<pr[1], e.to>> \in paidRun
              /\ UNCHANGED <<paidRun, cleared>>
    /\ Advance(e)
    /\ UNCHANGED <<basket, order, trans, mode, attempt, refunds, downgrades,
                   proc, crashes, lowered>>

(* edX refuses or does not answer, or the process dies: nothing undoes the *)
(* steps already committed.                                                *)
EnrollRequestFails(e) ==
    /\ enrolling' = enrolling \ {e}
    /\ UNCHANGED <<basket, order, trans, paidRun, mode, attempt, refunds,
                   downgrades, proc, crashes, cleared, lowered>>

EnrollStep(e) ==
    \/ Deactivate(e)
    \/ ClearPayments(e)
    \/ EnrollDeferred(e)
    \/ ChangePaymentToRun(e)
    \/ EnrollRequestFails(e)

(* The enrollment serializers enroll in the default mode without looking   *)
(* for a purchase: a verified enrollment that is posted again is audit.    *)
EnrollAgain(u, r) ==
    /\ "audit" \in Enrolling
    /\ SetMode(u, r, "audit")
    /\ UNCHANGED <<basket, order, trans, paidRun, attempt, refunds,
                   downgrades, proc, crashes, enrolling, cleared>>

(* sync_enrollments_with_edx: a deactivation in edX is followed, and a     *)
(* reactivation, in the mode the local row has (not kept here).            *)
SyncEnrollment(u, r) ==
    /\ "sync" \in Enrolling
    /\ IF mode[u][r] # "none" THEN SetMode(u, r, "none")
       ELSE \E m \in {"audit", "verified"} : SetMode(u, r, m)
    /\ UNCHANGED <<basket, order, trans, paidRun, attempt, refunds,
                   downgrades, proc, crashes, enrolling, cleared>>

EnrollmentChange(u) ==
    \E r \in Runs :
        \/ Unenroll(u, r)
        \/ \E to \in Runs : DeferEnrollment(u, r, to)
        \/ EnrollAgain(u, r)
        \/ SyncEnrollment(u, r)

-----------------------------------------------------------------------------
(* Refunds                                                                 *)

(* Mutation: the state of the order is not looked at.                      *)
RefundOrderAnyState(p, o) ==
    /\ "refund" \in Staff
    /\ \E t \in trans[o] : t.kind \in {"session", "event", "callback"}
    /\ Load(p, "refund", o, Generated)

(* refund_order: the row is read without a lock; an order with no gateway  *)
(* payment has nothing create_refund_request can use.                      *)
RefundOrder(p, o) ==
    /\ "refund" \in Staff
    /\ order[o].state = "fulfilled"
    /\ \E t \in trans[o] : t.kind \in {"session", "event", "callback"}
    /\ Load(p, "refund", o, Generated)

(* PaymentGateway.start_refund: the gateway returns money it has received, *)
(* or its response is an error.                                            *)
StartRefund(p) ==
    /\ proc[p].pc = "refund"
    /\ \/ /\ refunds[proc[p].order] < MaxRefunds
          /\ \E a \in Attempts : /\ attempt[a].order = proc[p].order
                                 /\ attempt[a].status = "paid"
          /\ refunds' = [refunds EXCEPT ![proc[p].order] = @ + 1]
          /\ proc' = [proc EXCEPT ![p].pc = "refunded"]
       \/ /\ proc' = [proc EXCEPT ![p] = Idle]
          /\ UNCHANGED refunds
    /\ UNCHANGED <<basket, order, trans, paidRun, mode, attempt, downgrades,
                   crashes, enrolling, cleared, lowered>>

(* OrderFlow.refund: the transaction is committed before the order.        *)
RecordRefund(p) ==
    /\ proc[p].pc = "refunded"
    /\ trans' = [trans EXCEPT ![proc[p].order] = @ \cup {Id("refund", 0)}]
    /\ proc' = [proc EXCEPT ![p].pc = "save_refund"]
    /\ UNCHANGED <<basket, order, paidRun, mode, attempt, refunds, downgrades,
                   crashes, enrolling, cleared, lowered>>

(* Mutation: the refund is saved under a status nothing else handles.      *)
SaveRefundPartially(p) ==
    /\ proc[p].pc = "save_refund"
    /\ Save(p, "partially_refunded")
    /\ proc' = [proc EXCEPT ![p] = Idle]
    /\ UNCHANGED <<basket, trans, paidRun, mode, attempt, refunds, downgrades,
                   crashes, enrolling, cleared, lowered>>

(* on_success saves the order, then the downgrade task is queued when      *)
(* unenrolment was asked for.                                              *)
SaveRefund(p) ==
    /\ proc[p].pc = "save_refund"
    /\ Save(p, "refunded")
    /\ \/ downgrades' = downgrades \cup {proc[p].order}
       \/ UNCHANGED downgrades
    /\ proc' = [proc EXCEPT ![p] = Idle]
    /\ UNCHANGED <<basket, trans, paidRun, mode, attempt, refunds, crashes,
                   enrolling, cleared, lowered>>

(* perform_downgrade_from_order -> downgrade_learner_from_order *)
DowngradeLearnerFromOrder(o) ==
    /\ o \in downgrades
    /\ mode' = [mode EXCEPT ![order[o].user] =
            [r \in Runs |-> IF r \in order[o].lines THEN "audit" ELSE @[r]]]
    /\ downgrades' = downgrades \ {o}
    /\ UNCHANGED <<basket, order, trans, paidRun, attempt, refunds, proc,
                   crashes, enrolling, cleared, lowered>>

(* The refund_fulfilled_order command: the money was returned by hand.     *)
RefundFulfilledOrder(p, o) ==
    /\ "refund_command" \in Staff
    /\ order[o].state = "fulfilled"
    /\ \E pc \in {"manual_audit", "manual_unenroll"} : Load(p, pc, o, Generated)

(* The state is set directly, then the active enrollments are looked up.   *)
SaveRefunded(p) ==
    /\ proc[p].pc \in {"manual_audit", "manual_unenroll"}
    /\ Save(p, "refunded")
    /\ LET o == proc[p].order
       IN  proc' = [proc EXCEPT ![p] =
               [@ EXCEPT !.pc = IF proc[p].pc = "manual_audit" THEN "audit"
                                ELSE "unenroll",
                         !.todo = {r \in order[o].lines :
                                       mode[order[o].user][r] # "none"}]]
    /\ UNCHANGED <<basket, trans, paidRun, mode, attempt, refunds, downgrades,
                   crashes, enrolling, cleared, lowered>>

(* --audit changes the mode; --unenroll deactivates the enrollment.        *)
AdjustEnrollment(p, r) ==
    /\ r \in proc[p].todo
    /\ proc[p].line = {}
    /\ LET u == order[proc[p].order].user
       IN  \/ /\ proc[p].pc = "audit"
              /\ SetMode(u, r, "audit")
              /\ proc' = [proc EXCEPT ![p] =
                      [@ EXCEPT !.todo = proc[p].todo \ {r}]]
           \/ /\ proc[p].pc = "unenroll"
              /\ SetMode(u, r, "none")
              /\ proc' = [proc EXCEPT ![p] =
                      [@ EXCEPT !.todo = proc[p].todo \ {r}, !.line = {r}]]
    /\ UNCHANGED <<basket, order, trans, paidRun, attempt, refunds,
                   downgrades, crashes, enrolling, cleared>>

(* The end of its deactivate_run_enrollment.                               *)
DeletePaidCourseRuns(p) ==
    /\ proc[p].pc = "unenroll"
    /\ \E r \in proc[p].line :
           ClearRows(order[proc[p].order].user, r)
    /\ proc' = [proc EXCEPT ![p].line = {}]
    /\ UNCHANGED <<basket, order, trans, mode, attempt, refunds, downgrades,
                   crashes, enrolling, lowered>>

RefundCommandDone(p) ==
    /\ proc[p].pc \in {"audit", "unenroll"}
    /\ proc[p].todo = {}
    /\ proc[p].line = {}
    /\ proc' = [proc EXCEPT ![p] = Idle]
    /\ UNCHANGED <<basket, order, trans, paidRun, mode, attempt, refunds,
                   downgrades, crashes, enrolling, cleared, lowered>>

-----------------------------------------------------------------------------
(* A worker is killed, or a call it makes raises, between two commits.     *)
Crash(p) ==
    /\ proc[p] # Idle
    /\ crashes < MaxCrashes
    /\ crashes' = crashes + 1
    /\ proc' = [proc EXCEPT ![p] = Idle]
    /\ UNCHANGED <<basket, order, trans, paidRun, mode, attempt, refunds,
                   downgrades, enrolling, cleared, lowered>>

(* What a running request does next.                                       *)
Step(p) ==
    \/ CheckoutZero(p)
    \/ CheckoutZeroFails(p)
    \/ \E a \in Attempts : StartPayment(p, a)
    \/ LogSession(p)
    \/ RecordCancellation(p)
    \/ CancelOrder(p)
    \/ CreateTransaction(p)
    \/ \E r \in Runs : EnrollLine(p, r)
    \/ CreatePaidCourseRun(p)
    \/ PaidCourseRunExists(p)
    \/ SaveFulfilled(p)
    \/ DeleteBasket(p)
    \/ StartRefund(p)
    \/ RecordRefund(p)
    \/ SaveRefund(p)
    \/ SaveRefunded(p)
    \/ \E r \in Runs : AdjustEnrollment(p, r)
    \/ DeletePaidCourseRuns(p)
    \/ RefundCommandDone(p)

Callback(a) == CallbackAccepted(a) \/ CallbackDeclined(a) \/ CallbackFailed(a)

Webhook(p, a) ==
    \/ ProcessStripeCheckoutCompleted(p, a)
    \/ ProcessStripeCheckoutExpired(p, a)

Learner(u) ==
    \/ \E r \in OnSale : AddToCart(u, r)
    \/ ClearBasket(u)
    \/ \E d \in Codes : RedeemDiscount(u, d)
    \/ CheckoutDropsDiscount(u)
    \/ \E p \in Procs, g \in Gateways : Checkout(p, u, g)

StaffMember(o) ==
    \/ \E p \in Procs : ResolvePendingOrder(p, o)
    \/ \E p \in Procs : ForceFulfill(p, o)
    \/ \E p \in Procs : RefundOrder(p, o)
    \/ \E p \in Procs : RefundFulfilledOrder(p, o)

Next ==
    \/ \E u \in Users : Learner(u) \/ EnrollmentChange(u)
    \/ \E e \in enrolling : EnrollStep(e)
    \/ \E a \in Attempts : PaymentOutcome(a) \/ Callback(a)
    \/ \E p \in Procs, a \in Attempts : Webhook(p, a)
    \/ \E p \in Procs : Step(p) \/ Crash(p)
    \/ \E o \in OrderIds : StaffMember(o) \/ DowngradeLearnerFromOrder(o)

Spec == Init /\ [][Next]_vars

(* A request that runs goes on to its next statement.  Stripe redelivers   *)
(* an event until it is answered with 200 and CyberSource posts its answer *)
(* to the back office, so a delivery that stays possible, or becomes       *)
(* possible again and again as processes come free, happens.               *)
Fairness ==
    /\ \A p \in Procs : WF_vars(Step(p))
    /\ \A a \in Attempts :
           /\ SF_vars(\E p \in Procs : ProcessStripeCheckoutCompleted(p, a))
           /\ SF_vars(\E p \in Procs : ProcessStripeCheckoutExpired(p, a))
           /\ WF_vars(Callback(a))

FairSpec == Spec /\ Fairness

-----------------------------------------------------------------------------
(* Properties                                                              *)

Flow == INSTANCE OrderFlow WITH state <- [o \in OrderIds |-> order[o].state]

Baskets == [items : SUBSET Runs, code : Codes \cup {NoCode}]

OrderRows == [state : OrderStatus \cup {"absent"}, user : Users,
              gateway : Gateways, lines : SUBSET Runs, total : Nat,
              code : Codes \cup {NoCode}]

Handlers == [pc : ProcStates, order : 0 .. MaxOrders, total : Nat, id : Ids,
             todo : SUBSET Runs, line : SUBSET Runs]

(* Every row, queue and request in progress has the shape the tables and   *)
(* handlers give it.                                                       *)
TypeOK ==
    /\ basket \in [Users -> Baskets]
    /\ order \in [OrderIds -> OrderRows]
    /\ trans \in [OrderIds -> SUBSET Ids]
    /\ paidRun \subseteq OrderIds \X Runs
    /\ mode \in [Users -> [Runs -> {"none", "audit", "verified"}]]
    /\ attempt \in [Attempts -> [order : 0 .. MaxOrders, status : AttemptStatus]]
    /\ \A a \in Attempts : attempt[a].status # "unused" =>
                               attempt[a].order \in OrderIds
    /\ refunds \in [OrderIds -> 0 .. MaxRefunds]
    /\ downgrades \subseteq OrderIds
    /\ proc \in [Procs -> Handlers]
    /\ \A p \in Procs : proc[p].pc # "idle" => proc[p].order \in OrderIds
    /\ crashes \in 0 .. MaxCrashes
    /\ enrolling \subseteq EnrollRequests
    /\ \A e \in enrolling : e.todo # <<>>
    /\ cleared \subseteq OrderIds \X Runs
    /\ lowered \subseteq OrderIds \X Runs

(* The evidence create_transaction leaves: a transaction of a page of this *)
(* order that the gateway reports paid, or a generated one (nothing to     *)
(* pay, or fulfilled by staff).                                            *)
OnRecord(o) ==
    \/ Generated \in trans[o]
    \/ \E a \in Attempts :
          /\ attempt[a].status = "paid"
          /\ attempt[a].order = o
          /\ \E k \in {"session", "event", "callback"} : Id(k, a) \in trans[o]

(* No order is fulfilled or refunded without the record of a payment that  *)
(* the gateway reports as received for that very order, however events     *)
(* are delayed, repeated and interleaved with checkouts that reuse it.     *)
PaymentOnRecord ==
    \A o \in OrderIds :
        order[o].state \in {"fulfilled", "refunded"} => OnRecord(o)

(* The page a transaction id names was opened for order o.                 *)
Owned(id, o) ==
    id.kind \in {"session", "event", "expired", "callback"} =>
        /\ id.attempt \in Attempts
        /\ attempt[id.attempt].order = o
        /\ attempt[id.attempt].status # "unused"

Paid(id) ==
    \/ id = Generated
    \/ /\ id.kind \in {"session", "event", "callback"}
       /\ attempt[id.attempt].status = "paid"

(* What a handler must know about the order it holds.                      *)
HandlerEvidence(p) ==
    LET h == proc[p]
    IN  /\ h.pc \in {"log", "record", "record_only", "cancel"} =>
               Owned(h.id, h.order)
        /\ h.pc \in {"record", "record_only"} => Paid(h.id)
        /\ h.pc \in {"lines", "paid", "save", "refund", "refunded",
                     "save_refund", "manual_audit", "manual_unenroll"} =>
               OnRecord(h.order)

(* Every transaction belongs to its order, every handler on its way to     *)
(* fulfil or refund holds a payment of that order, and every fulfilled or  *)
(* refunded order has one on record: PaymentOnRecord made inductive.       *)
PaymentEvidence ==
    /\ \A o \in OrderIds : \A t \in trans[o] : Owned(t, o)
    /\ \A p \in Procs : HandlerEvidence(p)
    /\ PaymentOnRecord

(* An order that has left the pending state never returns to it, and the   *)
(* checkouts that look for a pending order to reuse never change its       *)
(* lines, redemption, purchaser or gateway.                                *)
KeepsSettledRows ==
    \A o \in OrderIds :
        order[o].state \notin {"absent", "pending"} =>
            /\ order'[o].state \notin {"absent", "pending"}
            /\ order'[o].lines = order[o].lines
            /\ order'[o].code \in {order[o].code, NoCode}
            /\ order'[o].user = order[o].user
            /\ order'[o].gateway = order[o].gateway

SettledIsFinal == [][KeepsSettledRows]_vars

(* An order that was refunded is fulfilled again only when the             *)
(* PaidCourseRun of a line was deleted or moved: of two handlers that      *)
(* loaded the order while it was pending, its unique key lets only one     *)
(* reach order.save(), and an unenrolment or a deferral takes it away.     *)
RefundedNotFulfilledAgain ==
    [][\A o \in OrderIds :
          order[o].state = "refunded" /\ order'[o].state = "fulfilled" =>
              \E r \in order[o].lines : <<o, r>> \in cleared]_vars

(* A fulfilled order has delivered every line.  Its PaidCourseRun is gone  *)
(* only where an unenrolment deleted it or a deferral moved it; the        *)
(* learner is verified in the run unless another order of theirs for it    *)
(* was refunded, or an enrollment request of theirs or of staff, or edX,   *)
(* took the verified enrollment away.                                      *)
FulfilledIsDelivered ==
    \A o \in OrderIds : order[o].state = "fulfilled" =>
        \A r \in order[o].lines :
            /\ <<o, r>> \in paidRun \cup cleared
            /\ \/ mode[order[o].user][r] = "verified"
               \/ <<o, r>> \in lowered
               \/ \E x \in OrderIds : /\ Id("refund", 0) \in trans[x]
                                      /\ order[x].user = order[o].user
                                      /\ r \in order[x].lines

(* The states in the table move only as the transitions of OrderFlow       *)
(* declare, although those are checked against the instance in memory.     *)
FlowRespected == Flow!Spec

(* The gateway refunds an order twice only when two requests overlap or    *)
(* one died before it recorded the refund: sequential requests never do,   *)
(* as long as the order keeps the PaidCourseRun of its lines.              *)
RefundsBounded ==
    \A o \in OrderIds :
        (\A r \in order[o].lines : <<o, r>> \notin cleared) =>
            refunds[o] <= Cardinality(Procs) + crashes

(* An order whose payment was received ends up fulfilled.                  *)
PaidLeadsToFulfilled ==
    \A a \in Attempts :
        attempt[a].status = "paid" ~>
            \E o \in OrderIds : /\ attempt[a].order = o
                                /\ order[o].state \in {"fulfilled", "refunded"}

(* A payment the gateway reports is acted on: the order does not stay      *)
(* pending for ever.                                                       *)
PaidLeadsToSettled ==
    \A a \in Attempts :
        attempt[a].status = "paid" ~>
            \E o \in OrderIds : attempt[a].order = o /\ order[o].state # "pending"
=============================================================================
