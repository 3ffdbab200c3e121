---------------------------- MODULE OrdersProofs ----------------------------
(***************************************************************************)
(* Theorems about Orders, for any number of learners, runs, codes,         *)
(* processes, orders and payment pages, and about the prices of Discounts, *)
(* for any set of discounts.                                               *)
(***************************************************************************)
EXTENDS Orders, Discounts, TLAPS, FiniteSetTheorems, WellFoundedInduction

-----------------------------------------------------------------------------
(* Types                                                                   *)

LEMMA IdleType == Idle \in Handlers
  BY BoundsAssumption DEF Idle, Handlers, Ids, Kinds, Generated, Id, ProcStates

LEMMA AbsentOrderType == AbsentOrder \in OrderRows
  <1>1. (CHOOSE u \in Users : TRUE) \in Users
    BY UsersAssumption
  <1>2. (CHOOSE g \in Gateways : TRUE) \in Gateways
    BY GatewaysAssumption
  <1> QED  BY <1>1, <1>2 DEF AbsentOrder, OrderRows, OrderStatus

LEMMA IdType ==
  /\ Generated \in Ids
  /\ \A k \in Kinds, a \in Attempts : Id(k, a) \in Ids
  /\ Id("refund", 0) \in Ids
  BY BoundsAssumption DEF Generated, Id, Ids, Kinds, Attempts

LEMMA TransactionIdType ==
  ASSUME NEW total, NEW id \in Ids
  PROVE  TransactionId(total, id) \in Ids
  BY IdType DEF TransactionId

(* A row stays a row under the updates the handlers make.                  *)
LEMMA RowType ==
  ASSUME NEW r \in OrderRows, NEW s \in OrderStatus, NEW t \in Nat
  PROVE  /\ [r EXCEPT !.state = s] \in OrderRows
         /\ [r EXCEPT !.state = s, !.total = t] \in OrderRows
         /\ [r EXCEPT !.state = s, !.code = NoCode] \in OrderRows
  BY DEF OrderRows

LEMMA HandlerType ==
  ASSUME NEW h \in Handlers, NEW pc \in ProcStates, NEW id \in Ids,
         NEW todo \in SUBSET Runs, NEW line \in SUBSET Runs
  PROVE  /\ [h EXCEPT !.pc = pc] \in Handlers
         /\ [h EXCEPT !.pc = pc, !.id = id] \in Handlers
         /\ [h EXCEPT !.pc = pc, !.todo = todo] \in Handlers
         /\ [h EXCEPT !.pc = pc, !.line = line] \in Handlers
         /\ [h EXCEPT !.pc = pc, !.todo = todo, !.line = line] \in Handlers
  BY DEF Handlers

(* Loading a row leaves every table as it is.                              *)
LEMMA LoadType ==
  ASSUME TypeOK, NEW p \in Procs, NEW pc \in ProcStates, NEW o \in OrderIds,
         NEW id \in Ids, Load(p, pc, o, id)
  PROVE  TypeOK'
  <1>1. order[o].total \in Nat
    BY DEF TypeOK, OrderRows
  <1>2. o \in 0 .. MaxOrders
    BY BoundsAssumption DEF OrderIds
  <1>3. [pc |-> pc, order |-> o, total |-> order[o].total, id |-> id,
         todo |-> {}, line |-> {}] \in Handlers
    BY <1>1, <1>2 DEF Handlers
  <1> QED  BY <1>3 DEF TypeOK, Load

(* A handler returns.                                                      *)
LEMMA ReturnType ==
  ASSUME TypeOK, NEW p \in Procs, proc' = [proc EXCEPT ![p] = Idle]
  PROVE  /\ proc' \in [Procs -> Handlers]
         /\ \A q \in Procs : proc'[q].pc # "idle" => proc'[q].order \in OrderIds
  BY IdleType DEF TypeOK, Idle

(* A handler goes on with the order it has.                                *)
LEMMA GoOnType ==
  ASSUME TypeOK, NEW p \in Procs, proc[p].pc # "idle", NEW h \in Handlers,
         h.order = proc[p].order, proc' = [proc EXCEPT ![p] = h]
  PROVE  /\ proc' \in [Procs -> Handlers]
         /\ \A q \in Procs : proc'[q].pc # "idle" => proc'[q].order \in OrderIds
  BY DEF TypeOK

(* order.save() of a running handler.                                      *)
LEMMA SaveType ==
  ASSUME TypeOK, NEW p \in Procs, proc[p].pc # "idle",
         NEW s \in OrderStatus, Save(p, s)
  PROVE  order' \in [OrderIds -> OrderRows]
  <1>1. /\ proc[p].order \in OrderIds
        /\ proc[p].total \in Nat
        /\ order[proc[p].order] \in OrderRows
    BY DEF TypeOK, Handlers
  <1>2. [order[proc[p].order] EXCEPT !.state = s, !.total = proc[p].total]
            \in OrderRows
    BY <1>1, RowType
  <1> QED  BY <1>1, <1>2 DEF TypeOK, Save

LEMMA FulfillAtomicallyType ==
  ASSUME TypeOK, NEW o \in OrderIds, NEW total \in Nat, NEW id \in Ids,
         FulfillAtomically(o, total, id)
  PROVE  /\ basket' \in [Users -> Baskets]
         /\ order' \in [OrderIds -> OrderRows]
         /\ trans' \in [OrderIds -> SUBSET Ids]
         /\ paidRun' \subseteq OrderIds \X Runs
         /\ mode' \in [Users -> [Runs -> {"none", "audit", "verified"}]]
  <1>1. /\ order[o] \in OrderRows
        /\ order[o].user \in Users
        /\ order[o].lines \in SUBSET Runs
    BY DEF TypeOK, OrderRows
  <1>2. EmptyBasket \in Baskets
    BY DEF EmptyBasket, Baskets
  <1>3. basket' \in [Users -> Baskets]
    BY <1>2 DEF TypeOK, FulfillAtomically
  <1>4. order' \in [OrderIds -> OrderRows]
    <2>1. [order[o] EXCEPT !.state = "fulfilled", !.total = total] \in OrderRows
      BY <1>1, RowType DEF OrderStatus
    <2> QED  BY <2>1 DEF TypeOK, FulfillAtomically
  <1>5. trans' \in [OrderIds -> SUBSET Ids]
    BY TransactionIdType DEF TypeOK, FulfillAtomically
  <1>6. paidRun' \subseteq OrderIds \X Runs
    BY <1>1 DEF TypeOK, FulfillAtomically
  <1>7. mode' \in [Users -> [Runs -> {"none", "audit", "verified"}]]
    BY <1>1 DEF TypeOK, FulfillAtomically
  <1> QED  BY <1>3, <1>4, <1>5, <1>6, <1>7

LEMMA TransType ==
  ASSUME TypeOK, NEW p \in Procs, proc[p].pc # "idle",
         trans' = [trans EXCEPT ![proc[p].order] =
                      @ \cup {TransactionId(proc[p].total, proc[p].id)}]
  PROVE  trans' \in [OrderIds -> SUBSET Ids]
  <1>1. proc[p].id \in Ids /\ proc[p].order \in OrderIds
    BY DEF TypeOK, Handlers
  <1>2. TransactionId(proc[p].total, proc[p].id) \in Ids
    BY <1>1, TransactionIdType
  <1> QED  BY <1>1, <1>2 DEF TypeOK

(* The row a checkout writes and the handler that goes on with it.         *)
LEMMA CheckoutType ==
  ASSUME TypeOK, NEW p \in Procs, NEW u \in Users, NEW g \in Gateways,
         Checkout(p, u, g)
  PROVE  TypeOK'
  <1> DEFINE price == PriceWith[basket[u].code]
             total == Cardinality(basket[u].items) * price
  <1>1. PICK o \in PendingRow(u, g) :
          /\ order' = [order EXCEPT ![o] =
                 [state |-> "pending", user |-> u, gateway |-> g,
                  lines |-> @.lines \cup basket[u].items,
                  total |-> total, code |-> basket[u].code]]
          /\ proc' = [proc EXCEPT ![p] =
                 [Idle EXCEPT !.pc = IF price = 0 THEN "zero" ELSE "pay",
                              !.order = o, !.total = total]]
    BY DEF Checkout
  <1>2. o \in OrderIds
    BY DEF PendingRow, Reusable
  <1>3. basket[u].items \in SUBSET Runs /\ basket[u].code \in Codes \cup {NoCode}
    BY DEF TypeOK, Baskets
  <1>4. price \in Nat
    BY <1>3, PriceAssumption
  <1>5. Cardinality(basket[u].items) \in Nat
    BY <1>3, RunsAssumption, FS_Subset, FS_CardinalityType
  <1>6. total \in Nat
    BY <1>4, <1>5
  <1> HIDE DEF total, price
  <1>7. [state |-> "pending", user |-> u, gateway |-> g,
         lines |-> order[o].lines \cup basket[u].items,
         total |-> total, code |-> basket[u].code] \in OrderRows
    BY <1>2, <1>3, <1>6 DEF TypeOK, OrderRows, OrderStatus
  <1>8. order' \in [OrderIds -> OrderRows]
    BY <1>1, <1>2, <1>7 DEF TypeOK
  <1>9. o \in 0 .. MaxOrders
    BY <1>2, BoundsAssumption DEF OrderIds
  <1> DEFINE h == [Idle EXCEPT !.pc = IF price = 0 THEN "zero" ELSE "pay",
                               !.order = o, !.total = total]
  <1>10. h \in Handlers /\ h.order = o
    BY <1>6, <1>9, IdleType DEF Handlers, ProcStates
  <1> HIDE DEF h
  <1>11. proc' = [proc EXCEPT ![p] = h]
    BY <1>1 DEF h
  <1>12. /\ proc' \in [Procs -> Handlers]
         /\ \A q \in Procs : proc'[q].pc # "idle" => proc'[q].order \in OrderIds
    BY <1>2, <1>10, <1>11 DEF TypeOK
  <1> QED  BY <1>8, <1>12 DEF TypeOK, Checkout

LEMMA SetModeType ==
  ASSUME TypeOK, NEW u \in Users, NEW r \in Runs,
         NEW m \in {"none", "audit", "verified"}, SetMode(u, r, m)
  PROVE  /\ mode' \in [Users -> [Runs -> {"none", "audit", "verified"}]]
         /\ lowered' \subseteq OrderIds \X Runs
         /\ lowered \subseteq lowered'
  BY DEF SetMode, LinesOf, TypeOK

LEMMA ClearRowsType ==
  ASSUME TypeOK, NEW u, NEW r, ClearRows(u, r)
  PROVE  /\ paidRun' \subseteq OrderIds \X Runs
         /\ cleared' \subseteq OrderIds \X Runs
         /\ cleared \subseteq cleared' /\ paidRun \subseteq paidRun' \cup cleared'
         /\ paidRun' \subseteq paidRun
  BY DEF ClearRows, RowsOf, TypeOK

(* What a running request does keeps the types.                            *)
LEMMA StepType ==
  ASSUME TypeOK, NEW p \in Procs, Step(p)
  PROVE  TypeOK'
  <1> DEFINE h == proc[p]
             o == proc[p].order
  <1>0. h \in Handlers /\ (h.pc # "idle" => o \in OrderIds)
    BY DEF TypeOK
  <1>h. h.total \in Nat /\ h.id \in Ids /\ h.todo \in SUBSET Runs
        /\ h.line \in SUBSET Runs
    BY <1>0 DEF Handlers
  <1>1. CASE CheckoutZero(p)
    <2>1. FulfillAtomically(o, h.total, Generated) /\ o \in OrderIds
      BY <1>0, <1>1 DEF CheckoutZero
    <2> QED  BY <1>1, <1>h, <2>1, IdType, FulfillAtomicallyType, ReturnType
             DEF CheckoutZero, TypeOK
  <1>2. CASE CheckoutZeroFails(p)
    BY <1>2, ReturnType DEF CheckoutZeroFails, TypeOK
  <1>3. ASSUME NEW a \in Attempts, StartPayment(p, a)  PROVE TypeOK'
    <2>1. h.pc # "idle" /\ o \in OrderIds
      BY <1>0, <1>3 DEF StartPayment
    <2>2. [order |-> o, status |-> "open"]
              \in [order : 0 .. MaxOrders, status : AttemptStatus]
      BY <2>1, BoundsAssumption DEF OrderIds, AttemptStatus
    <2>3. attempt' = [attempt EXCEPT ![a] = [order |-> o, status |-> "open"]]
      BY <1>3 DEF StartPayment
    <2>4. /\ attempt' \in [Attempts -> [order : 0 .. MaxOrders,
                                        status : AttemptStatus]]
          /\ \A b \in Attempts : attempt'[b].status # "unused" =>
                                    attempt'[b].order \in OrderIds
      BY <2>1, <2>2, <2>3 DEF TypeOK
    <2>5. CASE order[o].gateway = "stripe"
      <3>1. [h EXCEPT !.pc = "log", !.id = Id("session", a)] \in Handlers
        BY <1>0, HandlerType, IdType DEF ProcStates, Kinds
      <3>2. proc' = [proc EXCEPT ![p] =
                        [h EXCEPT !.pc = "log", !.id = Id("session", a)]]
        BY <1>3, <2>5 DEF StartPayment
      <3>3. [h EXCEPT !.pc = "log", !.id = Id("session", a)].order = o
        BY <1>0 DEF Handlers
      <3>4. /\ proc' \in [Procs -> Handlers]
            /\ \A q \in Procs : proc'[q].pc # "idle" =>
                                   proc'[q].order \in OrderIds
        BY <2>1, <3>1, <3>2, <3>3, GoOnType
      <3> QED  BY <1>3, <2>4, <3>4 DEF StartPayment, TypeOK
    <2>6. CASE order[o].gateway # "stripe"
      <3>1. proc' = [proc EXCEPT ![p] = Idle]
        BY <1>3, <2>6 DEF StartPayment
      <3> QED  BY <1>3, <2>4, <3>1, ReturnType DEF StartPayment, TypeOK
    <2> QED  BY <2>5, <2>6
  <1>4. CASE LogSession(p)
    BY <1>4, TransType, ReturnType DEF LogSession, TypeOK
  <1>5. CASE CancelOrder(p)
    <2>1. h.pc # "idle" /\ Save(p, "canceled")
      BY <1>5 DEF CancelOrder
    <2>2. order' \in [OrderIds -> OrderRows]
      BY <2>1, SaveType DEF OrderStatus
    <2> QED  BY <1>5, <2>1, <2>2, ReturnType DEF CancelOrder, TypeOK
  <1>17. CASE RecordCancellation(p)
    <2>1. h.pc # "idle" /\ o \in OrderIds
      BY <1>0, <1>17 DEF RecordCancellation
    <2>2. trans' \in [OrderIds -> SUBSET Ids]
      BY <1>17, <2>1, TransType DEF RecordCancellation
    <2> DEFINE k == [h EXCEPT !.pc = "save_cancel"]
    <2>3. k \in Handlers /\ k.order = o
      BY <1>0 DEF Handlers, ProcStates
    <2>4. proc' = [proc EXCEPT ![p] = k]
      BY <1>17 DEF RecordCancellation
    <2> HIDE DEF k
    <2> QED  BY <1>17, <2>1, <2>2, <2>3, <2>4, GoOnType
             DEF RecordCancellation, TypeOK
  <1>6. CASE CreateTransaction(p)
    <2>1. h.pc # "idle" /\ o \in OrderIds
      BY <1>0, <1>6 DEF CreateTransaction
    <2>2. trans' \in [OrderIds -> SUBSET Ids]
      BY <1>6, <2>1, TransType DEF CreateTransaction
    <2>3. PICK k \in Handlers : k.order = o /\ proc' = [proc EXCEPT ![p] = k]
      <3>1. order[o].lines \in SUBSET Runs
        BY <2>1 DEF TypeOK, OrderRows
      <3>2. /\ [h EXCEPT !.pc = "lines", !.todo = order[o].lines] \in Handlers
            /\ [h EXCEPT !.pc = "save"] \in Handlers
        BY <1>0, <1>h, <3>1, HandlerType DEF ProcStates
      <3>3. /\ [h EXCEPT !.pc = "lines", !.todo = order[o].lines].order = o
            /\ [h EXCEPT !.pc = "save"].order = o
        BY <1>0 DEF Handlers
      <3>4. \/ proc' = [proc EXCEPT ![p] =
                   [h EXCEPT !.pc = "lines", !.todo = order[o].lines]]
            \/ proc' = [proc EXCEPT ![p] = [h EXCEPT !.pc = "save"]]
        BY <1>6 DEF CreateTransaction
      <3> QED  BY <3>2, <3>3, <3>4
    <2> QED  BY <1>6, <2>1, <2>2, <2>3, GoOnType DEF CreateTransaction, TypeOK
  <1>7. ASSUME NEW r \in Runs, EnrollLine(p, r)  PROVE TypeOK'
    <2>1. h.pc # "idle" /\ o \in OrderIds /\ order[o].user \in Users
      BY <1>0, <1>7 DEF EnrollLine, TypeOK, OrderRows
    <2>2. mode' \in [Users -> [Runs -> {"none", "audit", "verified"}]]
      BY <1>7, <2>1 DEF EnrollLine, TypeOK
    <2> DEFINE k == [h EXCEPT !.pc = "paid", !.todo = h.todo \ {r},
                              !.line = {r}]
    <2>3. k \in Handlers /\ k.order = o
      BY <1>0, <1>h DEF Handlers, ProcStates
    <2>4. proc' = [proc EXCEPT ![p] = k]
      BY <1>7 DEF EnrollLine
    <2> HIDE DEF k
    <2> QED  BY <1>7, <2>1, <2>2, <2>3, <2>4, GoOnType DEF EnrollLine, TypeOK
  <1>8. CASE CreatePaidCourseRun(p)
    <2>1. h.pc # "idle" /\ o \in OrderIds
      BY <1>0, <1>8 DEF CreatePaidCourseRun
    <2>2. paidRun' \subseteq OrderIds \X Runs
      BY <1>8, <1>h, <2>1 DEF CreatePaidCourseRun, TypeOK
    <2> DEFINE k == [h EXCEPT !.pc = "lines", !.line = {}]
    <2>3. k \in Handlers /\ k.order = o
      BY <1>0 DEF Handlers, ProcStates
    <2>4. proc' = [proc EXCEPT ![p] = k]
      BY <1>8 DEF CreatePaidCourseRun
    <2> HIDE DEF k
    <2> QED  BY <1>8, <2>1, <2>2, <2>3, <2>4, GoOnType
             DEF CreatePaidCourseRun, TypeOK
  <1>9. CASE PaidCourseRunExists(p)
    BY <1>9, ReturnType DEF PaidCourseRunExists, TypeOK
  <1>10. CASE SaveFulfilled(p)
    <2>1. h.pc # "idle" /\ Save(p, "fulfilled")
      BY <1>10 DEF SaveFulfilled
    <2>2. order' \in [OrderIds -> OrderRows]
      BY <2>1, SaveType DEF OrderStatus
    <2> DEFINE k == [h EXCEPT !.pc = "basket"]
    <2>3. k \in Handlers /\ k.order = o
      BY <1>0 DEF Handlers, ProcStates
    <2>4. \/ proc' = [proc EXCEPT ![p] = k]
          \/ proc' = [proc EXCEPT ![p] = Idle]
      BY <1>10 DEF SaveFulfilled
    <2> HIDE DEF k
    <2>5. /\ proc' \in [Procs -> Handlers]
          /\ \A q \in Procs : proc'[q].pc # "idle" =>
                                 proc'[q].order \in OrderIds
      BY <2>1, <2>3, <2>4, GoOnType, ReturnType
    <2> QED  BY <1>10, <2>2, <2>5 DEF SaveFulfilled, TypeOK
  <1>11. CASE DeleteBasket(p)
    <2>1. EmptyBasket \in Baskets
      BY DEF EmptyBasket, Baskets
    <2>2. basket' \in [Users -> Baskets]
      BY <1>11, <2>1 DEF DeleteBasket, TypeOK
    <2> QED  BY <1>11, <2>2, ReturnType DEF DeleteBasket, TypeOK
  <1>12. CASE StartRefund(p)
    <2>1. h.pc # "idle" /\ o \in OrderIds
      BY <1>0, <1>12 DEF StartRefund
    <2>a. \/ refunds' = refunds
          \/ /\ refunds[o] < MaxRefunds
             /\ refunds' = [refunds EXCEPT ![o] = refunds[o] + 1]
      BY <1>12 DEF StartRefund
    <2>b. refunds \in [OrderIds -> 0 .. MaxRefunds]
      BY DEF TypeOK
    <2>c. refunds[o] < MaxRefunds => refunds[o] + 1 \in 0 .. MaxRefunds
      BY <2>1, <2>b, BoundsAssumption
    <2> HIDE DEF o
    <2>2. refunds' \in [OrderIds -> 0 .. MaxRefunds]
      BY <2>a, <2>b, <2>c
    <2> USE DEF o
    <2> DEFINE k == [h EXCEPT !.pc = "refunded"]
    <2>3. k \in Handlers /\ k.order = o
      BY <1>0 DEF Handlers, ProcStates
    <2>4. \/ proc' = [proc EXCEPT ![p] = k]
          \/ proc' = [proc EXCEPT ![p] = Idle]
      BY <1>12 DEF StartRefund
    <2> HIDE DEF k
    <2>5. /\ proc' \in [Procs -> Handlers]
          /\ \A q \in Procs : proc'[q].pc # "idle" =>
                                 proc'[q].order \in OrderIds
      BY <2>1, <2>3, <2>4, GoOnType, ReturnType
    <2> QED  BY <1>12, <2>2, <2>5 DEF StartRefund, TypeOK
  <1>13. CASE RecordRefund(p)
    <2>1. h.pc # "idle" /\ o \in OrderIds
      BY <1>0, <1>13 DEF RecordRefund
    <2>2. trans' \in [OrderIds -> SUBSET Ids]
      BY <1>13, <2>1, IdType DEF RecordRefund, TypeOK
    <2> DEFINE k == [h EXCEPT !.pc = "save_refund"]
    <2>3. k \in Handlers /\ k.order = o
      BY <1>0 DEF Handlers, ProcStates
    <2>4. proc' = [proc EXCEPT ![p] = k]
      BY <1>13 DEF RecordRefund
    <2> HIDE DEF k
    <2> QED  BY <1>13, <2>1, <2>2, <2>3, <2>4, GoOnType DEF RecordRefund, TypeOK
  <1>18. CASE SaveRefund(p)
    <2>1. h.pc # "idle" /\ o \in OrderIds /\ Save(p, "refunded")
      BY <1>0, <1>18 DEF SaveRefund
    <2>2. order' \in [OrderIds -> OrderRows]
      BY <2>1, SaveType DEF OrderStatus
    <2>3. downgrades' \subseteq OrderIds
      BY <1>18, <2>1 DEF SaveRefund, TypeOK
    <2> QED  BY <1>18, <2>2, <2>3, ReturnType DEF SaveRefund, TypeOK
  <1>14. CASE SaveRefunded(p)
    <2>1. h.pc # "idle" /\ o \in OrderIds /\ Save(p, "refunded")
      BY <1>0, <1>14 DEF SaveRefunded
    <2>2. order' \in [OrderIds -> OrderRows]
      BY <2>1, SaveType DEF OrderStatus
    <2> DEFINE runs == {r \in order[o].lines : mode[order[o].user][r] # "none"}
               pc == IF h.pc = "manual_audit" THEN "audit" ELSE "unenroll"
               k == [h EXCEPT !.pc = pc, !.todo = runs]
    <2>3. runs \in SUBSET Runs /\ pc \in ProcStates
      BY <2>1 DEF TypeOK, OrderRows, ProcStates
    <2>4. proc' = [proc EXCEPT ![p] = k]
      BY <1>14 DEF SaveRefunded
    <2> HIDE DEF runs, pc
    <2>5. k \in Handlers /\ k.order = o
      BY <1>0, <2>3 DEF Handlers
    <2> HIDE DEF k
    <2> QED  BY <1>14, <2>1, <2>2, <2>4, <2>5, GoOnType DEF SaveRefunded, TypeOK
  <1>15. ASSUME NEW r \in Runs, AdjustEnrollment(p, r)  PROVE TypeOK'
    <2>1. h.pc # "idle" /\ o \in OrderIds /\ order[o].user \in Users
      BY <1>0, <1>15 DEF AdjustEnrollment, TypeOK, OrderRows
    <2>2. PICK m \in {"none", "audit"} : SetMode(order[o].user, r, m)
      BY <1>15 DEF AdjustEnrollment
    <2>3. PICK line \in SUBSET Runs :
             proc' = [proc EXCEPT ![p] = [h EXCEPT !.todo = h.todo \ {r},
                                                   !.line = line]]
      <3>1. h.line = {} /\ [h EXCEPT !.todo = h.todo \ {r}] =
                             [h EXCEPT !.todo = h.todo \ {r}, !.line = {}]
        BY <1>0, <1>15 DEF AdjustEnrollment, Handlers
      <3> QED  BY <1>15, <3>1 DEF AdjustEnrollment
    <2> DEFINE k == [h EXCEPT !.todo = h.todo \ {r}, !.line = line]
    <2>4. k \in Handlers /\ k.order = o
      BY <1>0, <1>h DEF Handlers
    <2> HIDE DEF k
    <2>5. proc' = [proc EXCEPT ![p] = k]
      BY <2>3 DEF k
    <2> QED  BY <1>15, <2>1, <2>2, <2>4, <2>5, SetModeType, GoOnType
             DEF AdjustEnrollment, TypeOK
  <1>19. CASE DeletePaidCourseRuns(p)
    <2>1. h.pc # "idle" /\ o \in OrderIds
      BY <1>0, <1>19 DEF DeletePaidCourseRuns
    <2>2. PICK r \in Runs : ClearRows(order[o].user, r)
      BY <1>19, <1>h DEF DeletePaidCourseRuns
    <2> DEFINE k == [h EXCEPT !.line = {}]
    <2>3. k \in Handlers /\ k.order = o
      BY <1>0 DEF Handlers
    <2>4. proc' = [proc EXCEPT ![p] = k]
      BY <1>19 DEF DeletePaidCourseRuns
    <2> HIDE DEF k
    <2> QED  BY <1>19, <2>1, <2>2, <2>3, <2>4, ClearRowsType, GoOnType
             DEF DeletePaidCourseRuns, TypeOK
  <1>16. CASE RefundCommandDone(p)
    BY <1>16, ReturnType DEF RefundCommandDone, TypeOK
  <1> QED  BY <1>1, <1>2, <1>3, <1>4, <1>5, <1>6, <1>7, <1>8, <1>9, <1>10,
              <1>11, <1>12, <1>13, <1>14, <1>15, <1>16, <1>17, <1>18, <1>19
           DEF Step

LEMMA LearnerType ==
  ASSUME TypeOK, NEW u \in Users, Learner(u)
  PROVE  TypeOK'
  <1>0. EmptyBasket \in Baskets
    BY DEF EmptyBasket, Baskets
  <1>1. basket[u] \in Baskets /\ basket[u].items \in SUBSET Runs
    BY DEF TypeOK, Baskets
  <1>2. ASSUME NEW r \in OnSale, AddToCart(u, r)  PROVE TypeOK'
    <2>0. r \in Runs
      BY RunsAssumption
    <2>1. [items |-> IF MultipleCartItems THEN basket[u].items \cup {r} ELSE {r},
           code |-> NoCode] \in Baskets
      BY <1>1, <2>0 DEF Baskets
    <2> QED  BY <1>2, <2>1 DEF AddToCart, TypeOK
  <1>3. CASE ClearBasket(u)
    BY <1>0, <1>3 DEF ClearBasket, TypeOK
  <1>4. ASSUME NEW d \in Codes, RedeemDiscount(u, d)  PROVE TypeOK'
    <2>1. [basket[u] EXCEPT !.code =
               IF \E r \in Runs : basket[u].items = {r} THEN d ELSE NoCode]
             \in Baskets
      BY <1>1 DEF Baskets
    <2> QED  BY <1>4, <2>1 DEF RedeemDiscount, TypeOK
  <1>5. CASE CheckoutDropsDiscount(u)
    <2>1. [basket[u] EXCEPT !.code = NoCode] \in Baskets
      BY <1>1 DEF Baskets
    <2> QED  BY <1>5, <2>1 DEF CheckoutDropsDiscount, TypeOK
  <1> QED  BY <1>2, <1>3, <1>4, <1>5, CheckoutType DEF Learner

LEMMA GatewayType ==
  ASSUME TypeOK, NEW a \in Attempts, PaymentOutcome(a) \/ Callback(a)
  PROVE  TypeOK'
  <1> DEFINE o == attempt[a].order
  <1>0. attempt[a].status # "unused" => o \in OrderIds /\ order[o] \in OrderRows
                                        /\ order[o].total \in Nat
    BY DEF TypeOK, OrderRows
  <1>1. CASE PaymentOutcome(a)
    <2>1. PICK s \in Outcomes : attempt' = [attempt EXCEPT ![a].status = s]
      BY <1>1 DEF PaymentOutcome
    <2>2. s \in AttemptStatus
      BY EnvironmentAssumption DEF AttemptStatus
    <2>3. /\ attempt' \in [Attempts -> [order : 0 .. MaxOrders,
                                        status : AttemptStatus]]
          /\ \A b \in Attempts : attempt'[b].status # "unused" =>
                                    attempt'[b].order \in OrderIds
      BY <1>0, <1>1, <2>1, <2>2 DEF TypeOK, PaymentOutcome
    <2> QED  BY <1>1, <2>3 DEF PaymentOutcome, TypeOK
  <1>2. CASE CallbackAccepted(a)
    <2>1. FulfillAtomically(o, order[o].total, Id("callback", a))
      BY <1>2 DEF CallbackAccepted
    <2>2. o \in OrderIds /\ order[o].total \in Nat /\ Id("callback", a) \in Ids
      BY <1>0, <1>2, IdType DEF CallbackAccepted, CallbackPending, Kinds
    <2> QED  BY <1>2, <2>1, <2>2, FulfillAtomicallyType
             DEF CallbackAccepted, TypeOK
  <1>3. CASE CallbackDeclined(a)
    <2>1. o \in OrderIds /\ order[o] \in OrderRows
      BY <1>0, <1>3 DEF CallbackDeclined, CallbackPending
    <2>2. [order[o] EXCEPT !.state = "declined", !.code = NoCode] \in OrderRows
      BY <2>1, RowType DEF OrderStatus
    <2> QED  BY <1>3, <2>1, <2>2 DEF CallbackDeclined, TypeOK
  <1>4. CASE CallbackFailed(a)
    <2>1. o \in OrderIds /\ order[o] \in OrderRows
      BY <1>0, <1>4 DEF CallbackFailed, CallbackPending
    <2>2. PICK s \in OrderStatus : order' = [order EXCEPT ![o].state = s]
      BY <1>4 DEF CallbackFailed, OrderStatus
    <2>3. [order[o] EXCEPT !.state = s] \in OrderRows
      BY <2>1, RowType
    <2> QED  BY <1>4, <2>1, <2>2, <2>3 DEF CallbackFailed, TypeOK
  <1> QED  BY <1>1, <1>2, <1>3, <1>4 DEF Callback

LEMMA WebhookType ==
  ASSUME TypeOK, NEW p \in Procs, NEW a \in Attempts, Webhook(p, a)
  PROVE  TypeOK'
  <1>1. attempt[a].order \in OrderIds
    BY DEF Webhook, ProcessStripeCheckoutCompleted,
           ProcessStripeCheckoutExpired, TypeOK
  <1>2. \E pc \in ProcStates, id \in Ids : Load(p, pc, attempt[a].order, id)
    BY IdType DEF Webhook, ProcessStripeCheckoutCompleted,
           ProcessStripeCheckoutExpired, ProcStates, Kinds
  <1> QED  BY <1>1, <1>2, LoadType

LEMMA StaffType ==
  ASSUME TypeOK, NEW o \in OrderIds, StaffMember(o)
  PROVE  TypeOK'
  <1> SUFFICES ASSUME NEW p \in Procs,
                      \/ ResolvePendingOrder(p, o) \/ ForceFulfill(p, o)
                      \/ RefundOrder(p, o) \/ RefundFulfilledOrder(p, o)
               PROVE  TypeOK'
    BY DEF StaffMember
  <1>1. CASE ResolvePendingOrder(p, o)
    <2>1. PICK a \in Found(o) : \/ Load(p, "record", o, Payload(o, a))
                               \/ Load(p, "record_only", o, Payload(o, a))
                               \/ Load(p, "cancel", o, Payload(o, a))
      BY <1>1 DEF ResolvePendingOrder
    <2>2. a \in Attempts
      BY DEF Found
    <2>3. Payload(o, a) \in Ids
      BY <2>2, IdType DEF Payload, Kinds
    <2> QED  BY <2>1, <2>3, LoadType DEF ProcStates
  <1>2. CASE ForceFulfill(p, o)
    BY <1>2, IdType, LoadType DEF ForceFulfill, ProcStates
  <1>3. CASE RefundOrder(p, o)
    BY <1>3, IdType, LoadType DEF RefundOrder, ProcStates
  <1>4. CASE RefundFulfilledOrder(p, o)
    BY <1>4, IdType, LoadType DEF RefundFulfilledOrder, ProcStates
  <1> QED  BY <1>1, <1>2, <1>3, <1>4

(* What the enrollment requests do, and what they leave as it is.          *)
Enrollments ==
    \/ \E u \in Users : EnrollmentChange(u)
    \/ \E e \in enrolling : EnrollStep(e)

LEMMA EnrollmentsFrame ==
  ASSUME Enrollments
  PROVE  UNCHANGED <<basket, order, trans, attempt, refunds, downgrades, proc,
                     crashes>>
  BY DEF Enrollments, EnrollmentChange, EnrollStep, Unenroll, DeferEnrollment,
         StartEnrolling, EnrollAgain, SyncEnrollment, Deactivate, ClearPayments,
         EnrollDeferred, ChangePaymentToRun, EnrollRequestFails

LEMMA StartEnrollingType ==
  ASSUME TypeOK, NEW u \in Users, NEW from \in Runs, NEW to \in Runs,
         NEW todo \in Seq(EnrollSteps), todo # <<>>,
         StartEnrolling(u, from, to, todo)
  PROVE  TypeOK'
  <1>1. PICK e \in EnrollRequests : e.todo # <<>> /\ enrolling' = enrolling \cup {e}
    BY DEF StartEnrolling, EnrollRequests
  <1> QED  BY <1>1 DEF StartEnrolling, TypeOK

LEMMA AdvanceType ==
  ASSUME TypeOK, NEW e \in enrolling, Advance(e)
  PROVE  /\ enrolling' \subseteq EnrollRequests
         /\ \A x \in enrolling' : x.todo # <<>>
  <1>1. e \in EnrollRequests /\ e.todo # <<>>
    BY DEF TypeOK
  <1>2. Tail(e.todo) \in Seq(EnrollSteps)
    BY <1>1 DEF EnrollRequests
  <1>3. [e EXCEPT !.todo = Tail(e.todo)] \in EnrollRequests
        /\ [e EXCEPT !.todo = Tail(e.todo)].todo = Tail(e.todo)
    BY <1>1, <1>2 DEF EnrollRequests
  <1>4. PICK x : x = [e EXCEPT !.todo = Tail(e.todo)]
    OBVIOUS
  <1>5. enrolling' = (enrolling \ {e}) \cup (IF Tail(e.todo) = <<>> THEN {} ELSE {x})
    BY <1>4 DEF Advance
  <1> QED  BY <1>3, <1>4, <1>5 DEF TypeOK

LEMMA EnrollmentChangeType ==
  ASSUME TypeOK, NEW u \in Users, EnrollmentChange(u)
  PROVE  TypeOK'
  <1>1. PICK r \in Runs : \/ Unenroll(u, r)
                          \/ \E to \in Runs : DeferEnrollment(u, r, to)
                          \/ EnrollAgain(u, r) \/ SyncEnrollment(u, r)
    BY DEF EnrollmentChange
  <1>2. CASE Unenroll(u, r)
    <2>1. <<"deactivate", "clear">> \in Seq(EnrollSteps)
          /\ <<"deactivate", "clear">> # <<>>
      BY DEF EnrollSteps
    <2> QED  BY <1>2, <2>1, StartEnrollingType DEF Unenroll
  <1>3. ASSUME NEW to \in Runs, DeferEnrollment(u, r, to)  PROVE TypeOK'
    <2>1. PICK a \in {<<"deactivate", "clear">>, <<>>},
               b \in {<<"downgrade">>, <<>>} :
            StartEnrolling(u, r, to, a \o <<"enroll">> \o b \o <<"move">>)
      BY <1>3 DEF DeferEnrollment
    <2>a. /\ "deactivate" \in EnrollSteps /\ "clear" \in EnrollSteps
          /\ "enroll" \in EnrollSteps /\ "downgrade" \in EnrollSteps
          /\ "move" \in EnrollSteps
      BY DEF EnrollSteps
    <2>b. \A x \in EnrollSteps : <<x>> \in Seq(EnrollSteps)
      OBVIOUS
    <2>c. \A x, y \in EnrollSteps : <<x, y>> \in Seq(EnrollSteps)
      OBVIOUS
    <2>d. <<>> \in Seq(EnrollSteps)
      OBVIOUS
    <2>e. /\ a = <<"deactivate", "clear">> \/ a = <<>>
          /\ b = <<"downgrade">> \/ b = <<>>
      BY <2>1
    <2>f. a \in Seq(EnrollSteps)
      BY <2>a, <2>c, <2>d, <2>e
    <2>g. b \in Seq(EnrollSteps)
      BY <2>a, <2>b, <2>d, <2>e
    <2>2. /\ a \in Seq(EnrollSteps) /\ b \in Seq(EnrollSteps)
          /\ <<"enroll">> \in Seq(EnrollSteps) /\ <<"move">> \in Seq(EnrollSteps)
      BY <2>a, <2>b, <2>f, <2>g
    <2>3. a \o <<"enroll">> \o b \in Seq(EnrollSteps)
      BY <2>2
    <2>4. PICK c \in Seq(EnrollSteps) : c = a \o <<"enroll">> \o b
      BY <2>3
    <2>5. c \o <<"move">> \in Seq(EnrollSteps) /\ c \o <<"move">> # <<>>
      BY <2>2
    <2> QED  BY <2>1, <2>4, <2>5, StartEnrollingType
  <1>4. CASE EnrollAgain(u, r)
    BY <1>4, SetModeType DEF EnrollAgain, TypeOK
  <1>5. CASE SyncEnrollment(u, r)
    <2>1. PICK m \in {"none", "audit", "verified"} : SetMode(u, r, m)
      BY <1>5 DEF SyncEnrollment
    <2> QED  BY <1>5, <2>1, SetModeType DEF SyncEnrollment, TypeOK
  <1> QED  BY <1>1, <1>2, <1>3, <1>4, <1>5

LEMMA EnrollStepType ==
  ASSUME TypeOK, NEW e \in enrolling, EnrollStep(e)
  PROVE  TypeOK'
  <1>0. e.user \in Users /\ e.from \in Runs /\ e.to \in Runs
    BY DEF TypeOK, EnrollRequests
  <1>1. CASE Deactivate(e)
    BY <1>0, <1>1, SetModeType, AdvanceType DEF Deactivate, TypeOK
  <1>2. CASE ClearPayments(e)
    BY <1>2, ClearRowsType, AdvanceType DEF ClearPayments, TypeOK
  <1>3. CASE EnrollDeferred(e)
    BY <1>0, <1>3, SetModeType, AdvanceType DEF EnrollDeferred, TypeOK
  <1>4. CASE ChangePaymentToRun(e)
    <2>a. paidRun \subseteq OrderIds \X Runs /\ cleared \subseteq OrderIds \X Runs
      BY DEF TypeOK
    <2>b. \/ UNCHANGED <<paidRun, cleared>>
          \/ \E pr \in paidRun : /\ paidRun' = (paidRun \ {pr}) \cup {<<pr[1], e.to>>}
                                 /\ cleared' = cleared \cup {pr}
      BY <1>4 DEF ChangePaymentToRun, RowsOf
    <2>c. \A pr \in paidRun : <<pr[1], e.to>> \in OrderIds \X Runs
      BY <1>0, <2>a
    <2>1. /\ paidRun' \subseteq OrderIds \X Runs
          /\ cleared' \subseteq OrderIds \X Runs
      BY <2>a, <2>b, <2>c
    <2> QED  BY <1>4, <2>1, AdvanceType DEF ChangePaymentToRun, TypeOK
  <1>5. CASE EnrollRequestFails(e)
    BY <1>5 DEF EnrollRequestFails, TypeOK
  <1> QED  BY <1>1, <1>2, <1>3, <1>4, <1>5 DEF EnrollStep

LEMMA NextType == TypeOK /\ [Next]_vars => TypeOK'
  <1> SUFFICES ASSUME TypeOK, [Next]_vars  PROVE TypeOK'
    OBVIOUS
  <1>1. ASSUME NEW p \in Procs, Crash(p)  PROVE TypeOK'
    <2>1. crashes' \in 0 .. MaxCrashes
      BY <1>1, BoundsAssumption DEF Crash, TypeOK
    <2> QED  BY <1>1, <2>1, ReturnType DEF Crash, TypeOK
  <1>2. ASSUME NEW o \in OrderIds, DowngradeLearnerFromOrder(o)  PROVE TypeOK'
    <2>1. order[o].user \in Users
      BY DEF TypeOK, OrderRows
    <2>2. mode' \in [Users -> [Runs -> {"none", "audit", "verified"}]]
      BY <1>2, <2>1 DEF DowngradeLearnerFromOrder, TypeOK
    <2> QED  BY <1>2, <2>2 DEF DowngradeLearnerFromOrder, TypeOK
  <1>3. CASE UNCHANGED vars
    BY <1>3 DEF TypeOK, vars
  <1> QED  BY <1>1, <1>2, <1>3, LearnerType, GatewayType, WebhookType,
              StepType, StaffType, EnrollmentChangeType, EnrollStepType DEF Next

LEMMA InitType == Init => TypeOK
  <1> SUFFICES ASSUME Init  PROVE TypeOK
    OBVIOUS
  <1>1. EmptyBasket \in Baskets
    BY DEF EmptyBasket, Baskets
  <1>2. [order |-> 0, status |-> "unused"]
            \in [order : 0 .. MaxOrders, status : AttemptStatus]
    BY BoundsAssumption DEF AttemptStatus
  <1>3. Idle \in Handlers /\ Idle.pc = "idle"
    BY IdleType DEF Idle
  <1>4. /\ basket \in [Users -> Baskets]
        /\ order \in [OrderIds -> OrderRows]
        /\ proc \in [Procs -> Handlers]
        /\ \A p \in Procs : proc[p].pc # "idle" => proc[p].order \in OrderIds
    BY <1>1, <1>3, AbsentOrderType DEF Init
  <1>5. /\ attempt \in [Attempts -> [order : 0 .. MaxOrders,
                                     status : AttemptStatus]]
        /\ \A a \in Attempts : attempt[a].status # "unused" =>
                                  attempt[a].order \in OrderIds
    BY <1>2 DEF Init
  <1>6. /\ refunds \in [OrderIds -> 0 .. MaxRefunds]
        /\ crashes \in 0 .. MaxCrashes
    BY BoundsAssumption DEF Init
  <1> QED  BY <1>4, <1>5, <1>6 DEF Init, TypeOK

(* Type correctness: whatever the interleaving, every row and every        *)
(* instance a handler holds in memory keeps its shape, and a running       *)
(* handler always refers to an order that exists.                          *)
THEOREM TypeCorrect == Spec => []TypeOK
  BY InitType, NextType, PTL DEF Spec

-----------------------------------------------------------------------------
(* Settled rows                                                            *)

LEMMA SaveKeeps ==
  ASSUME TypeOK, NEW p \in Procs, proc[p].pc # "idle",
         NEW s \in OrderStatus \ {"pending"}, Save(p, s)
  PROVE  KeepsSettledRows
  <1>1. proc[p].order \in OrderIds
    BY DEF TypeOK
  <1> QED  BY <1>1 DEF Save, KeepsSettledRows, TypeOK, OrderRows, OrderStatus

LEMMA FulfillAtomicallyKeeps ==
  ASSUME TypeOK, NEW o \in OrderIds, NEW total, NEW id,
         FulfillAtomically(o, total, id)
  PROVE  KeepsSettledRows
  <1>1. order' = [order EXCEPT ![o] =
                     [@ EXCEPT !.state = "fulfilled", !.total = total]]
    BY DEF FulfillAtomically
  <1> QED  BY <1>1 DEF KeepsSettledRows, TypeOK, OrderRows

(* A checkout writes a row that is pending or new.                         *)
LEMMA CheckoutKeeps ==
  ASSUME TypeOK, NEW p \in Procs, NEW u \in Users, NEW g \in Gateways,
         Checkout(p, u, g)
  PROVE  KeepsSettledRows
  <1>1. PICK o \in PendingRow(u, g) :
           \E row : order' = [order EXCEPT ![o] = row]
    BY DEF Checkout
  <1>2. o \in OrderIds /\ order[o].state \in {"absent", "pending"}
    BY DEF PendingRow, Reusable
  <1> QED  BY <1>1, <1>2 DEF KeepsSettledRows, TypeOK

LEMMA StepKeeps ==
  ASSUME TypeOK, NEW p \in Procs, Step(p)
  PROVE  KeepsSettledRows
  <1>1. CASE CheckoutZero(p)
    BY <1>1, FulfillAtomicallyKeeps DEF CheckoutZero, TypeOK
  <1>2. CASE CancelOrder(p)
    BY <1>2, SaveKeeps DEF CancelOrder, OrderStatus
  <1>3. CASE SaveFulfilled(p)
    BY <1>3, SaveKeeps DEF SaveFulfilled, OrderStatus
  <1>4. CASE SaveRefund(p)
    BY <1>4, SaveKeeps DEF SaveRefund, OrderStatus
  <1>6. CASE SaveRefunded(p)
    BY <1>6, SaveKeeps DEF SaveRefunded, OrderStatus
  <1>5. CASE UNCHANGED order
    BY <1>5 DEF KeepsSettledRows
  <1> QED  BY <1>1, <1>2, <1>3, <1>4, <1>5, <1>6
           DEF Step, CheckoutZeroFails, StartPayment, LogSession,
               CreateTransaction, EnrollLine, CreatePaidCourseRun,
               PaidCourseRunExists, DeleteBasket, StartRefund,
               RecordCancellation, RecordRefund, AdjustEnrollment,
               DeletePaidCourseRuns, RefundCommandDone

LEMMA CallbackKeeps ==
  ASSUME TypeOK, NEW a \in Attempts, Callback(a)
  PROVE  KeepsSettledRows
  <1> DEFINE o == attempt[a].order
  <1>1. o \in OrderIds /\ order[o].state = "pending"
    BY DEF Callback, CallbackAccepted, CallbackDeclined, CallbackFailed,
           CallbackPending, TypeOK
  <1>2. \A x \in OrderIds \ {o} : order'[x] = order[x]
    <2>1. CASE CallbackAccepted(a)
      BY <2>1, <1>1 DEF CallbackAccepted, FulfillAtomically, TypeOK
    <2>2. CASE CallbackDeclined(a)
      BY <2>2, <1>1 DEF CallbackDeclined, TypeOK
    <2>3. CASE CallbackFailed(a)
      BY <2>3, <1>1 DEF CallbackFailed, TypeOK
    <2> QED  BY <2>1, <2>2, <2>3 DEF Callback
  <1> QED  BY <1>1, <1>2 DEF KeepsSettledRows

LEMMA NextKeeps == TypeOK /\ [Next]_vars => KeepsSettledRows
  <1> SUFFICES ASSUME TypeOK, [Next]_vars  PROVE KeepsSettledRows
    OBVIOUS
  <1>1. CASE UNCHANGED order
    BY <1>1 DEF KeepsSettledRows
  <1>2. ASSUME NEW u \in Users, Learner(u)  PROVE KeepsSettledRows
    BY <1>1, <1>2, CheckoutKeeps DEF Learner, AddToCart, ClearBasket,
       RedeemDiscount, CheckoutDropsDiscount
  <1>3. ASSUME NEW p \in Procs, NEW a \in Attempts, Webhook(p, a)
        PROVE  KeepsSettledRows
    BY <1>1, <1>3 DEF Webhook, ProcessStripeCheckoutCompleted,
       ProcessStripeCheckoutExpired, Load
  <1>4. ASSUME NEW o \in OrderIds, StaffMember(o)  PROVE KeepsSettledRows
    BY <1>1, <1>4 DEF StaffMember, ResolvePendingOrder, ForceFulfill,
       RefundOrder, RefundFulfilledOrder, Load
  <1>5. CASE Enrollments
    BY <1>1, <1>5, EnrollmentsFrame
  <1> QED  BY <1>1, <1>2, <1>3, <1>4, <1>5, StepKeeps, CallbackKeeps
           DEF Next, Enrollments, PaymentOutcome, Crash,
               DowngradeLearnerFromOrder, vars

(* An order that has left the pending state keeps its lines, purchaser and *)
(* gateway and never becomes pending again, so the reuse of pending orders *)
(* by _get_or_create cannot reopen it, whatever the interleaving.          *)
THEOREM SettledOrdersAreFinal == Spec => SettledIsFinal
  <1>1. TypeOK /\ [Next]_vars => [KeepsSettledRows]_vars
    BY NextKeeps
  <1> QED  BY <1>1, TypeCorrect, PTL DEF Spec, SettledIsFinal

-----------------------------------------------------------------------------
(* Payments on record                                                      *)

(* Transactions are only added, and a page keeps its order and stays paid. *)
EvidenceGrows ==
    /\ \A o \in OrderIds : trans[o] \subseteq trans'[o]
    /\ \A a \in Attempts :
          attempt[a].status # "unused" => /\ attempt'[a].order = attempt[a].order
                                          /\ attempt'[a].status # "unused"
    /\ \A a \in Attempts :
          attempt[a].status = "paid" => attempt'[a].status = "paid"

LEMMA OwnedStable ==
  ASSUME EvidenceGrows, NEW id, NEW o, Owned(id, o)
  PROVE  Owned(id, o)'
  BY DEF Owned, EvidenceGrows

LEMMA OnRecordStable ==
  ASSUME EvidenceGrows, NEW o \in OrderIds, OnRecord(o)
  PROVE  OnRecord(o)'
  <1>1. CASE Generated \in trans[o]
    BY <1>1 DEF EvidenceGrows, OnRecord
  <1>2. ASSUME NEW a \in Attempts, attempt[a].status = "paid",
               attempt[a].order = o,
               NEW k \in {"session", "event", "callback"}, Id(k, a) \in trans[o]
        PROVE  OnRecord(o)'
    <2>1. /\ attempt'[a].status = "paid"
          /\ attempt'[a].order = o
          /\ Id(k, a) \in trans'[o]
      BY <1>2 DEF EvidenceGrows
    <2> QED  BY <2>1 DEF OnRecord
  <1> QED  BY <1>1, <1>2 DEF OnRecord

(* What is left to show of a step: the evidence grows, and the handlers,   *)
(* transactions and states it writes are covered.                          *)
LEMMA EvidenceKept ==
  ASSUME TypeOK, PaymentEvidence, EvidenceGrows,
         \A q \in Procs : proc'[q] = proc[q] \/ HandlerEvidence(q)',
         \A o \in OrderIds : \A t \in trans'[o] : t \in trans[o] \/ Owned(t, o)',
         \A o \in OrderIds :
            order'[o].state \in {"fulfilled", "refunded"} =>
                order[o].state \in {"fulfilled", "refunded"} \/ OnRecord(o)'
  PROVE  PaymentEvidence'
  <1>1. ASSUME NEW o \in OrderIds, NEW t \in trans'[o]  PROVE Owned(t, o)'
    <2>1. CASE t \in trans[o]
      <3>1. Owned(t, o)
        BY <2>1 DEF PaymentEvidence
      <3> QED  BY <3>1, OwnedStable
    <2> QED  BY <1>1, <2>1
  <1>2. ASSUME NEW q \in Procs  PROVE HandlerEvidence(q)'
    <2>1. CASE proc'[q] = proc[q]
      <3>1. HandlerEvidence(q)
        BY DEF PaymentEvidence
      <3>2. PICK h : h = proc[q]
        OBVIOUS
      <3>3. h.pc # "idle" => h.order \in OrderIds
        BY <3>2 DEF TypeOK
      <3>4. h.pc \in {"log", "record", "record_only", "cancel"} =>
               Owned(h.id, h.order)'
        BY <3>1, <3>2, OwnedStable DEF HandlerEvidence
      <3>5. h.pc \in {"record", "record_only"} => Paid(h.id)'
        BY <3>1, <3>2 DEF HandlerEvidence, Paid, Owned, EvidenceGrows
      <3>6. h.pc \in {"lines", "paid", "save", "refund", "refunded",
                  "save_refund", "manual_audit", "manual_unenroll"} =>
               OnRecord(h.order)'
        BY <3>1, <3>2, <3>3, OnRecordStable DEF HandlerEvidence
      <3> QED  BY <2>1, <3>2, <3>4, <3>5, <3>6
               DEF HandlerEvidence, Owned, Paid, OnRecord
    <2> QED  BY <1>2, <2>1
  <1>3. PaymentOnRecord'
    <2> SUFFICES ASSUME NEW o \in OrderIds,
                        order'[o].state \in {"fulfilled", "refunded"}
                 PROVE  OnRecord(o)'
      BY DEF PaymentOnRecord
    <2>1. CASE order[o].state \in {"fulfilled", "refunded"}
      <3>1. OnRecord(o)
        BY <2>1 DEF PaymentEvidence, PaymentOnRecord
      <3> QED  BY <3>1, OnRecordStable
    <2> QED  BY <2>1
  <1> QED  BY <1>1, <1>2, <1>3 DEF PaymentEvidence

(* A transaction id that was paid for puts the payment on record.          *)
LEMMA PaidOnRecord ==
  ASSUME TypeOK, NEW o \in OrderIds, NEW total \in Nat, NEW id \in Ids,
         Owned(id, o), Paid(id), TransactionId(total, id) \in trans'[o],
         UNCHANGED attempt
  PROVE  OnRecord(o)'
  <1>1. CASE TransactionId(total, id) = Generated
    BY <1>1 DEF OnRecord
  <1>2. CASE TransactionId(total, id) # Generated
    <2>1. id # Generated /\ id \in trans'[o]
      BY <1>2 DEF TransactionId
    <2>2. /\ id.kind \in {"session", "event", "callback"}
          /\ attempt[id.attempt].status = "paid"
          /\ attempt[id.attempt].order = o
          /\ id.attempt \in Attempts
      BY <2>1 DEF Paid, Owned
    <2>3. id = Id(id.kind, id.attempt)
      BY DEF Ids, Id
    <2> QED  BY <2>1, <2>2, <2>3 DEF OnRecord
  <1> QED  BY <1>1, <1>2

LEMMA GeneratedOwned ==
  ASSUME NEW o  PROVE Owned(Generated, o) /\ Owned(Generated, o)'
  BY DEF Owned, Generated, Id

LEMMA TransactionIdOwned ==
  ASSUME NEW o, NEW total, NEW id, Owned(id, o)
  PROVE  Owned(TransactionId(total, id), o)
  BY GeneratedOwned DEF TransactionId

(* A handler returns and writes nothing that matters here.                 *)
LEMMA ReturnEvidence ==
  ASSUME TypeOK, NEW p \in Procs, proc' = [proc EXCEPT ![p] = Idle]
  PROVE  \A q \in Procs : proc'[q] = proc[q] \/ HandlerEvidence(q)'
  BY DEF TypeOK, HandlerEvidence, Idle

LEMMA FulfillAtomicallyEvidence ==
  ASSUME TypeOK, NEW o \in OrderIds, NEW total \in Nat, NEW id \in Ids,
         FulfillAtomically(o, total, id), Owned(id, o), Paid(id),
         UNCHANGED attempt
  PROVE  /\ EvidenceGrows
         /\ \A x \in OrderIds : \A t \in trans'[x] :
                t \in trans[x] \/ Owned(t, x)'
         /\ \A x \in OrderIds :
                order'[x].state \in {"fulfilled", "refunded"} =>
                    order[x].state \in {"fulfilled", "refunded"} \/ OnRecord(x)'
  <1>1. trans' = [trans EXCEPT ![o] = @ \cup {TransactionId(total, id)}]
    BY DEF FulfillAtomically
  <1>2. EvidenceGrows
    BY <1>1 DEF EvidenceGrows, TypeOK
  <1>3. Owned(TransactionId(total, id), o)'
    BY <1>2, TransactionIdOwned, OwnedStable
  <1>4. OnRecord(o)'
    BY <1>1, PaidOnRecord DEF TypeOK
  <1>5. \A x \in OrderIds \ {o} : order'[x] = order[x]
    BY DEF FulfillAtomically, TypeOK
  <1> QED  BY <1>1, <1>2, <1>3, <1>4, <1>5 DEF TypeOK

LEMMA StepEvidence ==
  ASSUME TypeOK, PaymentEvidence, NEW p \in Procs, Step(p)
  PROVE  PaymentEvidence'
  <1> DEFINE h == proc[p]
             o == proc[p].order
             id == proc[p].id
             tid == TransactionId(proc[p].total, proc[p].id)
  <1>0. /\ h \in Handlers /\ (h.pc # "idle" => o \in OrderIds)
        /\ h.total \in Nat /\ id \in Ids
    BY DEF TypeOK, Handlers
  <1>h. HandlerEvidence(p)
    BY DEF PaymentEvidence
  (* A step that adds the handler's transaction to its order.              *)
  <1>t. ASSUME UNCHANGED attempt, trans' = [trans EXCEPT ![o] = @ \cup {tid}],
               h.pc \in {"log", "record", "record_only", "cancel"}
        PROVE  /\ EvidenceGrows
               /\ tid \in trans'[o]
               /\ \A x \in OrderIds : \A t \in trans'[x] :
                      t \in trans[x] \/ Owned(t, x)'
    <2>1. o \in OrderIds /\ Owned(id, o)
      BY <1>0, <1>h, <1>t DEF HandlerEvidence
    <2>2. EvidenceGrows
      BY <1>t, <2>1 DEF EvidenceGrows, TypeOK
    <2>3. Owned(tid, o)
      BY <2>1, TransactionIdOwned
    <2> HIDE DEF tid
    <2>4. PICK x : x = tid
      OBVIOUS
    <2>5. PICK y : y = o
      OBVIOUS
    <2>6. Owned(x, y)'
      BY <2>2, <2>3, <2>4, <2>5, OwnedStable
    <2> QED  BY <1>t, <2>1, <2>2, <2>4, <2>5, <2>6 DEF TypeOK
  <1>e. ASSUME UNCHANGED <<attempt, trans>>
        PROVE  /\ EvidenceGrows
               /\ \A x \in OrderIds : \A t \in trans'[x] :
                      t \in trans[x] \/ Owned(t, x)'
    BY <1>e DEF EvidenceGrows
  <1>1. CASE CheckoutZero(p)
    <2>1. PICK x, total : x = o /\ total = h.total
      OBVIOUS
    <2>2. /\ FulfillAtomically(x, total, Generated) /\ x \in OrderIds
          /\ total \in Nat /\ UNCHANGED attempt
      BY <1>0, <1>1, <2>1 DEF CheckoutZero
    <2>3. Owned(Generated, x) /\ Paid(Generated)
      BY GeneratedOwned DEF Paid
    <2> QED  BY <1>1, <2>2, <2>3, IdType, FulfillAtomicallyEvidence,
                ReturnEvidence, EvidenceKept DEF CheckoutZero
  <1>2. CASE CheckoutZeroFails(p) \/ PaidCourseRunExists(p) \/ DeleteBasket(p)
    <2>1. /\ UNCHANGED <<attempt, trans, order>>
          /\ proc' = [proc EXCEPT ![p] = Idle]
      BY <1>2 DEF CheckoutZeroFails, PaidCourseRunExists, DeleteBasket
    <2> QED  BY <2>1, <1>e, ReturnEvidence, EvidenceKept
  <1>3. ASSUME NEW a \in Attempts, StartPayment(p, a)  PROVE PaymentEvidence'
    <2>1. /\ o \in OrderIds /\ attempt[a].status = "unused"
          /\ attempt' = [attempt EXCEPT ![a] =
                            [order |-> o, status |-> "open"]]
          /\ UNCHANGED <<order, trans>>
      BY <1>0, <1>3 DEF StartPayment
    <2>2. EvidenceGrows
      BY <2>1 DEF EvidenceGrows, TypeOK
    <2>3. attempt'[a].order = o /\ attempt'[a].status = "open"
      BY <2>1 DEF TypeOK
    <2>4. HandlerEvidence(p)'
      <3>1. CASE proc' = [proc EXCEPT ![p] = Idle]
        BY <3>1 DEF TypeOK, Idle, HandlerEvidence
      <3>2. CASE proc' = [proc EXCEPT ![p] =
                    [h EXCEPT !.pc = "log", !.id = Id("session", a)]]
        <4>1. proc'[p] = [h EXCEPT !.pc = "log", !.id = Id("session", a)]
          BY <3>2 DEF TypeOK
        <4>2. /\ proc'[p].pc = "log" /\ proc'[p].order = o
              /\ proc'[p].id = Id("session", a)
          BY <4>1, <1>0 DEF Handlers
        <4>3. Id("session", a).attempt = a
          BY DEF Id
        <4> QED  BY <2>3, <4>2, <4>3 DEF HandlerEvidence, Owned
      <3> QED  BY <1>3, <3>1, <3>2 DEF StartPayment
    <2>5. \A q \in Procs \ {p} : proc'[q] = proc[q]
      BY <1>3 DEF StartPayment, TypeOK
    <2> QED  BY <2>1, <2>2, <2>4, <2>5, EvidenceKept
  <1>4. CASE LogSession(p)
    BY <1>4, <1>t, ReturnEvidence, EvidenceKept DEF LogSession
  <1>5. CASE CancelOrder(p)
    <2>1. \A x \in OrderIds : order'[x].state \in {"fulfilled", "refunded"} =>
                                 order[x].state \in {"fulfilled", "refunded"}
      BY <1>0, <1>5 DEF CancelOrder, Save, TypeOK, OrderRows
    <2> QED  BY <1>5, <1>e, <2>1, ReturnEvidence, EvidenceKept DEF CancelOrder
  <1>15. CASE RecordCancellation(p)
    <2>1. proc'[p].pc = "save_cancel" /\ \A q \in Procs \ {p} : proc'[q] = proc[q]
      BY <1>0, <1>15 DEF RecordCancellation, TypeOK, Handlers
    <2>2. HandlerEvidence(p)'
      BY <2>1 DEF HandlerEvidence
    <2> QED  BY <1>15, <1>t, <2>1, <2>2, EvidenceKept DEF RecordCancellation
  <1>6. CASE CreateTransaction(p)
    <2>1. /\ EvidenceGrows /\ tid \in trans'[o]
          /\ \A x \in OrderIds : \A t \in trans'[x] :
                 t \in trans[x] \/ Owned(t, x)'
      BY <1>6, <1>t DEF CreateTransaction
    <2>2. PICK x, i, total : x = o /\ i = id /\ total = h.total
      OBVIOUS
    <2>3. /\ x \in OrderIds /\ total \in Nat /\ i \in Ids /\ UNCHANGED attempt
          /\ TransactionId(total, i) \in trans'[x] /\ Owned(i, x) /\ Paid(i)
      BY <1>0, <1>6, <1>h, <2>1, <2>2 DEF CreateTransaction, HandlerEvidence
    <2>4. OnRecord(x)'
      BY <2>3, PaidOnRecord
    <2>5. proc'[p].pc \in {"lines", "save"} /\ proc'[p].order = x
      BY <1>0, <1>6, <2>2 DEF CreateTransaction, TypeOK, Handlers
    <2>6. HandlerEvidence(p)'
      BY <2>4, <2>5 DEF HandlerEvidence, OnRecord
    <2>7. \A q \in Procs \ {p} : proc'[q] = proc[q]
      BY <1>6 DEF CreateTransaction, TypeOK
    <2> QED  BY <1>6, <2>1, <2>6, <2>7, EvidenceKept DEF CreateTransaction
  (* A step that goes on with an order whose payment is on record.         *)
  <1>g. ASSUME UNCHANGED <<attempt, trans, order>>,
               h.pc \in {"lines", "paid", "save", "refund"},
               proc'[p].pc \in {"lines", "paid", "save", "refunded"},
               proc'[p].order = o, \A q \in Procs \ {p} : proc'[q] = proc[q]
        PROVE  PaymentEvidence'
    <2>1. OnRecord(o)
      BY <1>g, <1>h DEF HandlerEvidence
    <2>2. HandlerEvidence(p)'
      BY <1>g, <2>1 DEF HandlerEvidence, OnRecord
    <2> QED  BY <1>e, <1>g, <2>2, EvidenceKept
  <1>7. ASSUME NEW r \in Runs, EnrollLine(p, r)  PROVE PaymentEvidence'
    <2>1. proc'[p].pc = "paid" /\ proc'[p].order = o
      BY <1>0, <1>7 DEF EnrollLine, TypeOK, Handlers
    <2>2. \A q \in Procs \ {p} : proc'[q] = proc[q]
      BY <1>7 DEF EnrollLine, TypeOK
    <2> QED  BY <1>7, <1>g, <2>1, <2>2 DEF EnrollLine
  <1>8. CASE CreatePaidCourseRun(p)
    <2>1. proc'[p].pc = "lines" /\ proc'[p].order = o
      BY <1>0, <1>8 DEF CreatePaidCourseRun, TypeOK, Handlers
    <2>2. \A q \in Procs \ {p} : proc'[q] = proc[q]
      BY <1>8 DEF CreatePaidCourseRun, TypeOK
    <2> QED  BY <1>8, <1>g, <2>1, <2>2 DEF CreatePaidCourseRun
  <1>s. ASSUME NEW s, Save(p, s), UNCHANGED attempt, OnRecord(o),
               \A x \in OrderIds : trans[x] \subseteq trans'[x],
               h.pc # "idle"
        PROVE  \A x \in OrderIds :
                  order'[x].state \in {"fulfilled", "refunded"} =>
                      order[x].state \in {"fulfilled", "refunded"} \/ OnRecord(x)'
    <2>1. EvidenceGrows
      BY <1>s DEF EvidenceGrows
    <2>2. \A x \in OrderIds \ {o} : order'[x] = order[x]
      BY <1>0, <1>s DEF Save, TypeOK
    <2>3. \A x \in OrderIds : OnRecord(x) => OnRecord(x)'
      BY <2>1, OnRecordStable
    <2> QED  BY <1>0, <1>s, <2>2, <2>3
  <1>9. CASE SaveFulfilled(p)
    <2>1. OnRecord(o) /\ UNCHANGED <<attempt, trans>> /\ Save(p, "fulfilled")
          /\ h.pc # "idle"
      BY <1>9, <1>h DEF SaveFulfilled, HandlerEvidence
    <2>2. \A q \in Procs : proc'[q] = proc[q] \/ HandlerEvidence(q)'
      BY <1>0, <1>9 DEF SaveFulfilled, HandlerEvidence, TypeOK, Handlers, Idle
    <2>3. \A x \in OrderIds : trans[x] \subseteq trans'[x]
      BY <2>1
    <2>4. \A x \in OrderIds :
              order'[x].state \in {"fulfilled", "refunded"} =>
                  order[x].state \in {"fulfilled", "refunded"} \/ OnRecord(x)'
      BY <1>s, <2>1, <2>3
    <2> QED  BY <1>e, <2>1, <2>2, <2>4, EvidenceKept
  <1>10. CASE StartRefund(p)
    <2>1. CASE proc' = [proc EXCEPT ![p] = Idle]
      BY <1>10, <2>1, <1>e, ReturnEvidence, EvidenceKept DEF StartRefund
    <2>2. CASE proc' = [proc EXCEPT ![p].pc = "refunded"]
      <3>1. proc'[p].pc = "refunded" /\ proc'[p].order = o
        BY <1>0, <2>2 DEF TypeOK, Handlers
      <3>2. \A q \in Procs \ {p} : proc'[q] = proc[q]
        BY <2>2 DEF TypeOK
      <3> QED  BY <1>10, <1>g, <3>1, <3>2 DEF StartRefund
    <2> QED  BY <1>10, <2>1, <2>2 DEF StartRefund
  <1>11. CASE RecordRefund(p)
    <2>1. /\ o \in OrderIds /\ h.pc # "idle" /\ OnRecord(o)
          /\ UNCHANGED <<attempt, order>>
          /\ trans' = [trans EXCEPT ![o] = @ \cup {Id("refund", 0)}]
      BY <1>0, <1>11, <1>h DEF RecordRefund, HandlerEvidence
    <2>2. EvidenceGrows
      BY <2>1 DEF EvidenceGrows, TypeOK
    <2>3. \A x \in OrderIds : Owned(Id("refund", 0), x)'
      BY DEF Owned, Id
    <2>4. \A x \in OrderIds : \A t \in trans'[x] : t \in trans[x] \/ Owned(t, x)'
      BY <2>1, <2>3 DEF TypeOK
    <2>5. PICK x : x = o
      OBVIOUS
    <2>6. OnRecord(x)'
      BY <2>1, <2>2, <2>5, OnRecordStable
    <2>7. proc'[p].pc = "save_refund" /\ proc'[p].order = x
          /\ \A q \in Procs \ {p} : proc'[q] = proc[q]
      BY <1>0, <1>11, <2>5 DEF RecordRefund, TypeOK, Handlers
    <2>8. HandlerEvidence(p)'
      BY <2>6, <2>7 DEF HandlerEvidence, OnRecord
    <2> QED  BY <2>1, <2>2, <2>4, <2>7, <2>8, EvidenceKept
  <1>16. CASE SaveRefund(p)
    <2>1. /\ h.pc # "idle" /\ OnRecord(o)
          /\ UNCHANGED <<attempt, trans>> /\ Save(p, "refunded")
      BY <1>16, <1>h DEF SaveRefund, HandlerEvidence
    <2>2. \A x \in OrderIds : trans[x] \subseteq trans'[x]
      BY <2>1
    <2>3. \A x \in OrderIds :
              order'[x].state \in {"fulfilled", "refunded"} =>
                  order[x].state \in {"fulfilled", "refunded"} \/ OnRecord(x)'
      BY <1>s, <2>1, <2>2
    <2> QED  BY <1>16, <1>e, <2>1, <2>3, ReturnEvidence, EvidenceKept
             DEF SaveRefund
  <1>12. CASE SaveRefunded(p)
    <2>1. OnRecord(o) /\ UNCHANGED <<attempt, trans>> /\ Save(p, "refunded")
          /\ h.pc # "idle"
      BY <1>12, <1>h DEF SaveRefunded, HandlerEvidence
    <2>2. \A q \in Procs : proc'[q] = proc[q] \/ HandlerEvidence(q)'
      BY <1>0, <1>12 DEF SaveRefunded, HandlerEvidence, TypeOK, Handlers
    <2>3. \A x \in OrderIds : trans[x] \subseteq trans'[x]
      BY <2>1
    <2>4. \A x \in OrderIds :
              order'[x].state \in {"fulfilled", "refunded"} =>
                  order[x].state \in {"fulfilled", "refunded"} \/ OnRecord(x)'
      BY <1>s, <2>1, <2>3
    <2> QED  BY <1>e, <2>1, <2>2, <2>4, EvidenceKept
  <1>13. ASSUME NEW r \in Runs, AdjustEnrollment(p, r)  PROVE PaymentEvidence'
    <2>1. UNCHANGED <<attempt, trans, order>>
      BY <1>13 DEF AdjustEnrollment
    <2> DEFINE k == [h EXCEPT !.todo = h.todo \ {r}]
               l == [k EXCEPT !.line = {r}]
    <2>a. k.pc = h.pc /\ l.pc = h.pc
      BY <1>0 DEF Handlers
    <2>b. /\ h.pc \in {"audit", "unenroll"}
          /\ proc' = [proc EXCEPT ![p] = k] \/ proc' = [proc EXCEPT ![p] = l]
      BY <1>13 DEF AdjustEnrollment
    <2>c. proc = [q \in Procs |-> proc[q]]
      BY DEF TypeOK
    <2> HIDE DEF k, l, h
    <2>3. /\ proc'[p].pc \in {"audit", "unenroll"}
          /\ \A q \in Procs : q # p => proc'[q] = proc[q]
      BY <2>a, <2>b, <2>c
    <2> USE DEF h
    <2>2. \A q \in Procs : proc'[q] = proc[q] \/ HandlerEvidence(q)'
      BY <2>3 DEF HandlerEvidence
    <2> QED  BY <1>e, <2>1, <2>2, EvidenceKept
  <1>17. CASE DeletePaidCourseRuns(p)
    <2>1. UNCHANGED <<attempt, trans, order>>
      BY <1>17 DEF DeletePaidCourseRuns
    <2>2. \A q \in Procs : proc'[q] = proc[q] \/ HandlerEvidence(q)'
      BY <1>0, <1>17 DEF DeletePaidCourseRuns, HandlerEvidence, TypeOK, Handlers
    <2> QED  BY <1>e, <2>1, <2>2, EvidenceKept
  <1>14. CASE RefundCommandDone(p)
    BY <1>14, <1>e, ReturnEvidence, EvidenceKept DEF RefundCommandDone
  <1> QED  BY <1>1, <1>2, <1>3, <1>4, <1>5, <1>6, <1>7, <1>8, <1>9, <1>10,
              <1>11, <1>12, <1>13, <1>14, <1>15, <1>16, <1>17 DEF Step

(* Loading an order with what the handler must know about it.              *)
LEMMA LoadEvidence ==
  ASSUME TypeOK, PaymentEvidence, NEW p \in Procs, NEW pc, NEW o \in OrderIds,
         NEW id, Load(p, pc, o, id),
         pc \in {"log", "record", "record_only", "cancel"} => Owned(id, o),
         pc \in {"record", "record_only"} => Paid(id),
         pc \in {"lines", "paid", "save", "refund", "refunded",
                "save_refund", "manual_audit", "manual_unenroll"} => OnRecord(o)
  PROVE  PaymentEvidence'
  <1>1. UNCHANGED <<attempt, trans, order>>
    BY DEF Load
  <1>2. EvidenceGrows
    BY <1>1 DEF EvidenceGrows
  <1>3. proc'[p].pc = pc /\ proc'[p].order = o /\ proc'[p].id = id
    BY DEF Load, TypeOK
  <1>4. HandlerEvidence(p)'
    <2>1. pc \in {"log", "record", "record_only", "cancel"} => Owned(id, o)'
      BY <1>2, OwnedStable
    <2>2. pc \in {"lines", "paid", "save", "refund", "refunded",
                 "save_refund", "manual_audit", "manual_unenroll"} =>
              OnRecord(o)'
      BY <1>2, OnRecordStable
    <2>3. pc \in {"record", "record_only"} => Paid(id)'
      BY <1>1 DEF Paid
    <2> QED  BY <1>3, <2>1, <2>2, <2>3 DEF HandlerEvidence, Owned, OnRecord, Paid
  <1>5. \A q \in Procs \ {p} : proc'[q] = proc[q]
    BY DEF Load, TypeOK
  <1> QED  BY <1>1, <1>2, <1>4, <1>5, EvidenceKept

LEMMA WebhookEvidence ==
  ASSUME TypeOK, PaymentEvidence, NEW p \in Procs, NEW a \in Attempts,
         Webhook(p, a)
  PROVE  PaymentEvidence'
  <1> DEFINE o == attempt[a].order
  <1>1. attempt[a].status # "unused" /\ o \in OrderIds
    BY DEF Webhook, ProcessStripeCheckoutCompleted,
           ProcessStripeCheckoutExpired, TypeOK
  <1>2. Owned(Id("event", a), o) /\ Owned(Id("expired", a), o)
    BY <1>1 DEF Owned, Id
  <1>3. attempt[a].status = "paid" => Paid(Id("event", a))
    BY DEF Paid, Id
  <1>4. OverallStatus(a) = "paid" => attempt[a].status = "paid"
    BY <1>1 DEF OverallStatus
  <1>5. PICK x : x = o
    OBVIOUS
  <1>6. \/ Load(p, "record", x, Id("event", a)) /\ Paid(Id("event", a))
        \/ Load(p, "cancel", x, Id("event", a))
        \/ Load(p, "cancel", x, Id("expired", a))
    BY <1>3, <1>4, <1>5 DEF Webhook, ProcessStripeCheckoutCompleted,
                            ProcessStripeCheckoutExpired
  <1> HIDE DEF o
  <1> QED  BY <1>1, <1>2, <1>5, <1>6, LoadEvidence

LEMMA StaffEvidence ==
  ASSUME TypeOK, PaymentEvidence, NEW o \in OrderIds, StaffMember(o)
  PROVE  PaymentEvidence'
  <1>1. ASSUME NEW p \in Procs, ResolvePendingOrder(p, o)
        PROVE  PaymentEvidence'
    <2>1. PICK a \in Found(o) :
             \/ OverallStatus(a) = "paid" /\ Load(p, "record", o, Payload(o, a))
             \/ /\ OverallStatus(a) = "paid"
                /\ Load(p, "record_only", o, Payload(o, a))
             \/ Load(p, "cancel", o, Payload(o, a))
      BY <1>1 DEF ResolvePendingOrder
    <2>2. a \in Attempts
      BY DEF Found
    <2>3. attempt[a].order = o /\ attempt[a].status # "unused"
      <3>1. CASE order[o].gateway = "stripe"
        <4>1. Id("session", a) \in trans[o]
          BY <3>1 DEF Found
        <4>2. Owned(Id("session", a), o)
          BY <4>1 DEF PaymentEvidence
        <4> QED  BY <4>2 DEF Owned, Id
      <3>2. CASE order[o].gateway # "stripe"
        BY <3>2 DEF Found
      <3> QED  BY <3>1, <3>2
    <2>4. Owned(Payload(o, a), o)
      BY <2>2, <2>3 DEF Owned, Payload, Id
    <2>5. OverallStatus(a) = "paid" => Paid(Payload(o, a))
      <3>1. OverallStatus(a) = "paid" => attempt[a].status = "paid"
        BY DEF OverallStatus
      <3> QED  BY <3>1 DEF Paid, Payload, Id
    <2>6. PICK id : id = Payload(o, a)
      OBVIOUS
    <2> QED  BY <2>1, <2>4, <2>5, <2>6, LoadEvidence
  <1>2. ASSUME NEW p \in Procs, ForceFulfill(p, o)  PROVE PaymentEvidence'
    <2>1. Owned(Generated, o) /\ Paid(Generated)
      BY GeneratedOwned DEF Paid
    <2> QED  BY <1>2, <2>1, LoadEvidence DEF ForceFulfill
  <1>3. ASSUME NEW p \in Procs, RefundOrder(p, o)  PROVE PaymentEvidence'
    <2>1. OnRecord(o)
      BY <1>3 DEF RefundOrder, PaymentEvidence, PaymentOnRecord
    <2> QED  BY <1>3, <2>1, LoadEvidence DEF RefundOrder
  <1>4. ASSUME NEW p \in Procs, RefundFulfilledOrder(p, o)
        PROVE  PaymentEvidence'
    <2>1. OnRecord(o)
      BY <1>4 DEF RefundFulfilledOrder, PaymentEvidence, PaymentOnRecord
    <2> QED  BY <1>4, <2>1, LoadEvidence DEF RefundFulfilledOrder
  <1> QED  BY <1>1, <1>2, <1>3, <1>4 DEF StaffMember

LEMMA GatewayEvidence ==
  ASSUME TypeOK, PaymentEvidence, NEW a \in Attempts,
         PaymentOutcome(a) \/ Callback(a)
  PROVE  PaymentEvidence'
  <1>0. attempt[a].status # "unused" => attempt[a].order \in OrderIds
    BY DEF TypeOK
  <1>1. CASE PaymentOutcome(a)
    <2>1. PICK s \in NextOutcomes(a) :
             attempt' = [attempt EXCEPT ![a].status = s]
      BY <1>1 DEF PaymentOutcome
    <2>2. attempt[a].status # "paid" /\ s # "unused"
      BY <2>1 DEF NextOutcomes, CybersourceOutcomes
    <2>3. EvidenceGrows
      BY <1>1, <2>1, <2>2 DEF EvidenceGrows, TypeOK, PaymentOutcome
    <2> QED  BY <1>1, <2>3, EvidenceKept DEF PaymentOutcome
  <1>2. CASE CallbackAccepted(a)
    <2>1. PICK o, total : o = attempt[a].order /\ total = order[o].total
      OBVIOUS
    <2>2. /\ FulfillAtomically(o, total, Id("callback", a))
          /\ UNCHANGED <<attempt, proc>>
          /\ o \in OrderIds /\ attempt[a].status = "paid"
      BY <1>0, <1>2, <2>1 DEF CallbackAccepted
    <2>3. total \in Nat
      BY <2>1, <2>2 DEF TypeOK, OrderRows
    <2>4. /\ Owned(Id("callback", a), o) /\ Paid(Id("callback", a))
          /\ Id("callback", a) \in Ids
      BY <2>1, <2>2, IdType DEF Owned, Paid, Id, Kinds
    <2> QED  BY <2>2, <2>3, <2>4, FulfillAtomicallyEvidence, EvidenceKept
  <1>3. CASE CallbackDeclined(a) \/ CallbackFailed(a)
    <2>1. /\ UNCHANGED <<attempt, trans, proc>> /\ attempt[a].order \in OrderIds
      BY <1>0, <1>3 DEF CallbackDeclined, CallbackFailed, CallbackPending
    <2>2. \A x \in OrderIds : order'[x].state \in {"fulfilled", "refunded"} =>
                                 order[x].state \in {"fulfilled", "refunded"}
      <3>1. CASE CallbackDeclined(a)
        BY <2>1, <3>1 DEF CallbackDeclined, TypeOK, OrderRows
      <3>2. CASE CallbackFailed(a)
        BY <2>1, <3>2 DEF CallbackFailed, TypeOK, OrderRows
      <3> QED  BY <1>3, <3>1, <3>2
    <2>3. EvidenceGrows
      BY <2>1 DEF EvidenceGrows
    <2> QED  BY <2>1, <2>2, <2>3, EvidenceKept
  <1> QED  BY <1>1, <1>2, <1>3 DEF Callback

LEMMA LearnerEvidence ==
  ASSUME TypeOK, PaymentEvidence, NEW u \in Users, Learner(u)
  PROVE  PaymentEvidence'
  <1>1. UNCHANGED <<attempt, trans>>
    BY DEF Learner, AddToCart, ClearBasket, RedeemDiscount,
           CheckoutDropsDiscount, Checkout
  <1>2. EvidenceGrows
    BY <1>1 DEF EvidenceGrows
  <1>3. CASE UNCHANGED <<order, proc>>
    BY <1>1, <1>2, <1>3, EvidenceKept
  <1>4. ASSUME NEW p \in Procs, NEW g \in Gateways, Checkout(p, u, g)
        PROVE  PaymentEvidence'
    <2> DEFINE price == PriceWith[basket[u].code]
               total == Cardinality(basket[u].items) * price
    <2>1. PICK o \in PendingRow(u, g) :
            /\ order' = [order EXCEPT ![o] =
                   [state |-> "pending", user |-> u, gateway |-> g,
                    lines |-> @.lines \cup basket[u].items,
                    total |-> total, code |-> basket[u].code]]
            /\ proc' = [proc EXCEPT ![p] =
                   [Idle EXCEPT !.pc = IF price = 0 THEN "zero" ELSE "pay",
                                !.order = o, !.total = total]]
      BY <1>4 DEF Checkout
    <2> HIDE DEF total, price
    <2>2. o \in OrderIds
      BY DEF PendingRow, Reusable
    <2>3. \A x \in OrderIds : order'[x].state \in {"fulfilled", "refunded"} =>
                                 order[x].state \in {"fulfilled", "refunded"}
      BY <2>1, <2>2 DEF TypeOK
    <2>4. /\ proc'[p].pc \in {"zero", "pay"}
          /\ \A q \in Procs \ {p} : proc'[q] = proc[q]
      BY <2>1 DEF TypeOK, Idle
    <2>5. HandlerEvidence(p)'
      BY <2>4 DEF HandlerEvidence
    <2> QED  BY <1>1, <1>2, <2>3, <2>4, <2>5, EvidenceKept
  <1> QED  BY <1>3, <1>4 DEF Learner, AddToCart, ClearBasket, RedeemDiscount,
                             CheckoutDropsDiscount

LEMMA NextEvidence == TypeOK /\ PaymentEvidence /\ [Next]_vars => PaymentEvidence'
  <1> SUFFICES ASSUME TypeOK, PaymentEvidence, [Next]_vars
               PROVE  PaymentEvidence'
    OBVIOUS
  <1>1. ASSUME NEW p \in Procs, Crash(p)  PROVE PaymentEvidence'
    <2>1. EvidenceGrows
      BY <1>1 DEF Crash, EvidenceGrows
    <2> QED  BY <1>1, <2>1, ReturnEvidence, EvidenceKept DEF Crash
  <1>2. CASE UNCHANGED <<order, trans, attempt, proc>>
    <2>1. EvidenceGrows
      BY <1>2 DEF EvidenceGrows
    <2> QED  BY <1>2, <2>1, EvidenceKept
  <1>3. CASE Enrollments
    BY <1>2, <1>3, EnrollmentsFrame
  <1> QED  BY <1>1, <1>2, <1>3, LearnerEvidence, GatewayEvidence,
              WebhookEvidence, StepEvidence, StaffEvidence
           DEF Next, Enrollments, DowngradeLearnerFromOrder, vars

LEMMA InitEvidence == Init => PaymentEvidence
  BY DEF Init, PaymentEvidence, HandlerEvidence, PaymentOnRecord, Idle,
         AbsentOrder

(* No order is fulfilled or refunded without a payment on record that the  *)
(* gateway reports as received for that order (or a generated transaction: *)
(* nothing to pay, or fulfilled by staff), for any number of handlers      *)
(* interleaved step by step, delayed, repeated or killed.                  *)
THEOREM NothingFulfilledUnpaid == Spec => []PaymentOnRecord
  <1>1. PaymentEvidence => PaymentOnRecord
    BY DEF PaymentEvidence
  <1> QED  BY <1>1, InitEvidence, NextEvidence, TypeCorrect, PTL DEF Spec

-----------------------------------------------------------------------------
(* Deliveries and refunds                                                  *)

(* One item per basket (the default of ENABLE_MULTIPLE_CART_ITEMS), and    *)
(* neither --no-fulfillment, which inserts no PaidCourseRun, nor the       *)
(* refund_fulfilled_order command.  Enrollment requests are not limited.   *)
UsualOperation ==
    /\ ~MultipleCartItems
    /\ Staff \cap {"force_skip", "resolve_skip", "refund_command"} = {}

UsualStates == {"idle", "zero", "pay", "log", "record", "lines", "paid",
                "basket", "cancel", "save_cancel", "refund", "refunded",
                "save_refund"}
ReturnStates == {"refund", "refunded", "save_refund"}

RefundId == Id("refund", 0)

(* Every line got its PaidCourseRun, which may be gone since; no line's    *)
(* row was ever deleted or moved.                                          *)
Delivered(o) == \A r \in order[o].lines : <<o, r>> \in paidRun \cup cleared
Kept(o) == \A r \in order[o].lines : <<o, r>> \notin cleared

(* A handler that has delivered and is about to save the order; one that   *)
(* is about to return the money, or has.                                   *)
Finishing(p, o) == proc[p].pc = "lines" /\ proc[p].todo = {} /\ proc[p].order = o
Returning(p, o) == proc[p].pc \in ReturnStates /\ proc[p].order = o

(* The order was fulfilled at some time.                                   *)
Sold(o) ==
    \/ order[o].state \in {"fulfilled", "refunded"}
    \/ refunds[o] > 0
    \/ \E p \in Procs : Returning(p, o)

(* A basket holds one item, so an order has one line.                      *)
SingleItems ==
    /\ \A u \in Users : basket[u].items = {} \/ \E r \in Runs : basket[u].items = {r}
    /\ \A o \in OrderIds :
          IF order[o].state = "absent" THEN order[o].lines = {}
          ELSE \E r \in Runs : order[o].lines = {r}

(* Nothing is known of a row that is not there.                            *)
AbsentUnknown ==
    /\ \A o \in OrderIds : order[o].state = "absent" =>
                               refunds[o] = 0 /\ RefundId \notin trans[o]
    /\ \A p \in Procs : proc[p].pc # "idle" => order[proc[p].order].state # "absent"
    /\ \A a \in Attempts : attempt[a].status # "unused" =>
                               order[attempt[a].order].state # "absent"

(* What a handler has still to deliver.                                    *)
HandlerDelivers(p) ==
    LET h == proc[p]
    IN  /\ h.pc \in UsualStates
        /\ h.pc = "lines" => /\ h.todo \in {{}, order[h.order].lines}
                             /\ h.todo = {} => Delivered(h.order)
        /\ h.pc = "paid" => h.todo = {} /\ h.line = order[h.order].lines

(* Of the handlers that loaded an order only one gets past the unique key  *)
(* of PaidCourseRun, and none once the order was fulfilled, as long as the *)
(* rows of its lines stay.                                                 *)
SoldOnce(o) ==
    /\ Sold(o) => Delivered(o)
    /\ Kept(o) =>
          /\ \A p, q \in Procs : Finishing(p, o) /\ Finishing(q, o) => p = q
          /\ Sold(o) => \A p \in Procs : ~Finishing(p, o)

Sales ==
    /\ SingleItems
    /\ AbsentUnknown
    /\ \A p \in Procs : HandlerDelivers(p)
    /\ \A o \in OrderIds : SoldOnce(o)

(* A line that got its PaidCourseRun was given to the learner, and only a  *)
(* refund or a change of the enrollment itself takes it away.              *)
Refunded(u, r) ==
    \E x \in OrderIds : /\ RefundId \in trans[x]
                        /\ order[x].user = u
                        /\ r \in order[x].lines
Given(u, r) == mode[u][r] = "verified" \/ Refunded(u, r)
GivenFor(o, r) == Given(order[o].user, r) \/ <<o, r>> \in lowered
Deliveries ==
    /\ \A o \in OrderIds : order[o].state = "absent" =>
          \A r \in Runs : <<o, r>> \notin paidRun \cup cleared
    /\ \A o \in OrderIds : \A r \in order[o].lines :
          <<o, r>> \in paidRun \cup cleared => GivenFor(o, r)
    /\ \A p \in Procs : proc[p].pc = "paid" =>
          \A r \in proc[p].line : GivenFor(proc[p].order, r)
    /\ \A p \in Procs : proc[p].pc = "save_refund" => RefundId \in trans[proc[p].order]
    /\ \A o \in downgrades : RefundId \in trans[o]

(* Requests that are about to return the money of order o; that have.      *)
About(o) == {p \in Procs : proc[p].pc = "refund" /\ proc[p].order = o}
Done(o) ==
    {p \in Procs : proc[p].pc \in {"refunded", "save_refund"} /\ proc[p].order = o}
RefundsCounted(o) ==
    /\ order[o].state = "fulfilled" => refunds[o] <= Cardinality(Done(o)) + crashes
    /\ refunds[o] + Cardinality(About(o)) <= Cardinality(Procs) + crashes

(* Rows that are there keep their lines and purchaser, and a new one has   *)
(* one line; baskets keep to one item.                                     *)
RowsKept ==
    \A o \in OrderIds :
        /\ order[o].state # "absent" =>
              /\ order'[o].state # "absent"
              /\ order'[o].lines = order[o].lines
              /\ order'[o].user = order[o].user
        /\ order[o].state = "absent" =>
              /\ refunds'[o] = refunds[o] /\ trans'[o] = trans[o]
              /\ \/ order'[o] = order[o]
                 \/ /\ order'[o].state = "pending"
                    /\ \E r \in Runs : order'[o].lines = {r}
BasketsKept ==
    \A u \in Users :
        \/ basket'[u].items \in {{}, basket[u].items}
        \/ \E r \in Runs : basket'[u].items = {r}

(* A PaidCourseRun that goes is remembered.                                *)
RowsStay ==
    /\ paidRun \cup cleared \subseteq paidRun' \cup cleared'
    /\ cleared \subseteq cleared'

(* A handler that starts or goes on; short of saving the order.            *)
Holds(p) ==
    /\ HandlerDelivers(p)
    /\ proc[p].pc # "idle" => order[proc[p].order].state # "absent"
Fresh(p) == Holds(p) /\ \A o \in OrderIds : ~Finishing(p, o)

LEMMA DeliveredStable ==
  ASSUME RowsKept, RowsStay, NEW o \in OrderIds,
         order[o].state # "absent", Delivered(o)
  PROVE  Delivered(o)'
  BY DEF Delivered, RowsKept, RowsStay

(* A line whose row was lost stays one.                                    *)
LEMMA KeptBefore ==
  ASSUME Sales, RowsKept, RowsStay, NEW o \in OrderIds, Kept(o)'
  PROVE  Kept(o)
  <1>1. CASE order[o].state = "absent"
    BY <1>1 DEF Kept, Sales, SingleItems
  <1>2. CASE order[o].state # "absent"
    BY <1>2 DEF Kept, RowsKept, RowsStay
  <1> QED  BY <1>1, <1>2

LEMMA SalesFrame ==
  ASSUME TypeOK, Sales, RowsKept, BasketsKept, RowsStay,
         \A o \in OrderIds : SoldOnce(o)',
         \A p \in Procs : proc'[p] = proc[p] \/ Holds(p)',
         \A a \in Attempts : attempt'[a].status # "unused" =>
             \/ attempt[a].status # "unused" /\ attempt'[a].order = attempt[a].order
             \/ /\ attempt'[a].order \in OrderIds
                /\ order'[attempt'[a].order].state # "absent"
  PROVE  Sales'
  <1>1. SingleItems'
    <2>1. \A u \in Users : basket'[u].items = {} \/ \E r \in Runs : basket'[u].items = {r}
      BY DEF Sales, SingleItems, BasketsKept
    <2>2. ASSUME NEW o \in OrderIds
          PROVE  IF order'[o].state = "absent" THEN order'[o].lines = {}
                 ELSE \E r \in Runs : order'[o].lines = {r}
      BY DEF Sales, SingleItems, RowsKept
    <2> QED  BY <2>1, <2>2 DEF SingleItems
  <1>2. AbsentUnknown'
    <2>1. \A o \in OrderIds : order'[o].state = "absent" =>
                                 refunds'[o] = 0 /\ RefundId \notin trans'[o]
      BY DEF Sales, AbsentUnknown, RowsKept
    <2>2. \A p \in Procs : proc'[p].pc # "idle" =>
                              order'[proc'[p].order].state # "absent"
      BY DEF Sales, AbsentUnknown, RowsKept, Holds, TypeOK
    <2>3. \A a \in Attempts : attempt'[a].status # "unused" =>
                                 order'[attempt'[a].order].state # "absent"
      <3>1. \A a \in Attempts : attempt[a].status # "unused" =>
               attempt[a].order \in OrderIds /\ order[attempt[a].order].state # "absent"
        BY DEF Sales, AbsentUnknown, TypeOK
      <3> QED  BY <3>1 DEF RowsKept
    <2> QED  BY <2>1, <2>2, <2>3 DEF AbsentUnknown, RefundId, Id
  <1>3. ASSUME NEW p \in Procs  PROVE HandlerDelivers(p)'
    <2>1. CASE proc'[p] = proc[p] /\ proc[p].pc = "idle"
      BY <2>1 DEF HandlerDelivers, UsualStates
    <2>2. CASE proc'[p] = proc[p] /\ proc[p].pc # "idle"
      <3>1. PICK o \in OrderIds : o = proc[p].order /\ order[o].state # "absent"
        BY <2>2 DEF Sales, AbsentUnknown, TypeOK
      <3>2. order'[o].lines = order[o].lines /\ (Delivered(o) => Delivered(o)')
        BY <3>1, DeliveredStable DEF RowsKept
      <3>3. HandlerDelivers(p)
        BY DEF Sales
      <3> QED  BY <2>2, <3>1, <3>2, <3>3 DEF HandlerDelivers, Delivered
    <2>3. CASE Holds(p)'
      BY <2>3 DEF Holds
    <2> QED  BY <2>1, <2>2, <2>3
  <1> QED  BY <1>1, <1>2, <1>3 DEF Sales

LEMMA SoldIsThere ==
  ASSUME TypeOK, Sales, NEW o \in OrderIds, Sold(o)
  PROVE  order[o].state # "absent"
  <1>1. refunds[o] \in Nat
    BY DEF TypeOK
  <1> QED  BY <1>1 DEF Sold, Returning, ReturnStates, Sales, AbsentUnknown

LEMMA SalesKept ==
  ASSUME TypeOK, Sales, RowsKept, BasketsKept, RowsStay,
         \A o \in OrderIds : Sold(o)' => Sold(o),
         \A p \in Procs : proc'[p] = proc[p] \/ Fresh(p)',
         \A a \in Attempts : attempt'[a].status # "unused" =>
             \/ attempt[a].status # "unused" /\ attempt'[a].order = attempt[a].order
             \/ /\ attempt'[a].order \in OrderIds
                /\ order'[attempt'[a].order].state # "absent"
  PROVE  Sales'
  <1>1. ASSUME NEW o \in OrderIds  PROVE SoldOnce(o)'
    <2>1. \A p \in Procs : Finishing(p, o)' => Finishing(p, o)
      BY DEF Finishing, Fresh
    <2>2. SoldOnce(o)
      BY DEF Sales
    <2>3. Sold(o)' => Sold(o) /\ order[o].state # "absent"
      BY SoldIsThere
    <2>4. Sold(o)' => Delivered(o)'
      BY <2>2, <2>3, DeliveredStable DEF SoldOnce
    <2>5. Kept(o)' => Kept(o)
      BY KeptBefore
    <2> QED  BY <2>1, <2>2, <2>3, <2>4, <2>5 DEF SoldOnce
  <1>2. \A p \in Procs : proc'[p] = proc[p] \/ Holds(p)'
    BY DEF Fresh
  <1> QED  BY <1>1, <1>2, SalesFrame

(* A process goes on with handler k while the rows keep their states.      *)
LEMMA HandlerMoves ==
  ASSUME TypeOK, Sales, NEW p \in Procs, NEW k, proc' = [proc EXCEPT ![p] = k],
         \A o \in OrderIds : /\ order'[o].state \in {"fulfilled", "refunded"} => Sold(o)
                             /\ refunds'[o] > 0 => Sold(o),
         k.pc \in ReturnStates => Sold(k.order)
  PROVE  /\ proc'[p] = k /\ \A q \in Procs : q # p => proc'[q] = proc[q]
         /\ \A o \in OrderIds : Sold(o)' => Sold(o)
  <1>1. proc'[p] = k /\ \A q \in Procs : q # p => proc'[q] = proc[q]
    BY DEF TypeOK
  <1>2. ASSUME NEW o \in OrderIds, Sold(o)'  PROVE Sold(o)
    <2>1. \/ order'[o].state \in {"fulfilled", "refunded"}
          \/ refunds'[o] > 0
          \/ \E q \in Procs : proc'[q].pc \in ReturnStates /\ proc'[q].order = o
      BY <1>2 DEF Sold, Returning
    <2>2. ASSUME NEW q \in Procs, proc'[q].pc \in ReturnStates, proc'[q].order = o
          PROVE  Sold(o)
      BY <1>1, <2>2 DEF Sold, Returning
    <2> QED  BY <2>1, <2>2
  <1> QED  BY <1>1, <1>2

(* The row a running handler holds.                                        *)
LEMMA HeldRow ==
  ASSUME TypeOK, Sales, NEW p \in Procs, proc[p].pc # "idle"
  PROVE  /\ proc[p].order \in OrderIds
         /\ order[proc[p].order].state # "absent"
         /\ \E r \in Runs : order[proc[p].order].lines = {r}
         /\ proc[p] \in Handlers /\ proc[p].pc \in UsualStates
  <1>1. proc[p].order \in OrderIds /\ proc[p] \in Handlers
    BY DEF TypeOK
  <1>2. order[proc[p].order].state # "absent"
    BY DEF Sales, AbsentUnknown
  <1>3. \E r \in Runs : order[proc[p].order].lines = {r}
    BY <1>1, <1>2 DEF Sales, SingleItems
  <1>4. proc[p].pc \in UsualStates
    BY DEF Sales, HandlerDelivers
  <1> QED  BY <1>1, <1>2, <1>3, <1>4

(* Handlers whose only claim on the order is that it is there.             *)
LEMMA PlainFresh ==
  ASSUME NEW p \in Procs, proc'[p].pc \in UsualStates \ {"lines", "paid"},
         proc'[p].pc # "idle" => order'[proc'[p].order].state # "absent"
  PROVE  Fresh(p)'
  BY DEF Fresh, Holds, HandlerDelivers, Finishing

LEMMA SaveRows ==
  ASSUME TypeOK, Sales, NEW p \in Procs, proc[p].pc # "idle",
         NEW s \in OrderStatus, Save(p, s), refunds' = refunds,
         \A o \in OrderIds : o # proc[p].order => trans'[o] = trans[o]
  PROVE  /\ RowsKept
         /\ \A o \in OrderIds : o # proc[p].order => order'[o] = order[o]
         /\ order'[proc[p].order].state = s
  <1>1. PICK o \in OrderIds : o = proc[p].order /\ order[o].state # "absent"
    BY HeldRow
  <1>2. order[o] \in OrderRows
    BY DEF TypeOK
  <1>3. /\ \A x \in OrderIds : x # o => order'[x] = order[x]
        /\ order'[o] = [order[o] EXCEPT !.state = s, !.total = proc[p].total]
    BY <1>1 DEF Save, TypeOK
  <1>4. /\ order'[o].state = s /\ order'[o].lines = order[o].lines
        /\ order'[o].user = order[o].user
    BY <1>2, <1>3 DEF OrderRows
  <1>5. s # "absent"
    BY DEF OrderStatus
  <1> QED  BY <1>1, <1>3, <1>4, <1>5 DEF RowsKept

(* Loading an order that is there; a refund only if it is fulfilled.       *)
LEMMA LoadSales ==
  ASSUME TypeOK, Sales, NEW p \in Procs, NEW pc \in {"record", "cancel", "refund"},
         NEW o \in OrderIds, NEW id, Load(p, pc, o, id),
         order[o].state # "absent", pc = "refund" => order[o].state = "fulfilled"
  PROVE  Sales'
  <1>1. PICK k : k = [pc |-> pc, order |-> o, total |-> order[o].total, id |-> id,
                      todo |-> {}, line |-> {}]
    OBVIOUS
  <1>2. /\ proc' = [proc EXCEPT ![p] = k] /\ k.pc = pc /\ k.order = o
        /\ UNCHANGED <<basket, order, trans, paidRun, refunds, attempt, cleared>>
    BY <1>1 DEF Load
  <1>3. \A x \in OrderIds : /\ order'[x].state \in {"fulfilled", "refunded"} => Sold(x)
                            /\ refunds'[x] > 0 => Sold(x)
    BY <1>2 DEF Sold
  <1>4. k.pc \in ReturnStates => Sold(k.order)
    BY <1>2 DEF Sold, ReturnStates
  <1>5. /\ proc'[p] = k /\ \A q \in Procs : q # p => proc'[q] = proc[q]
        /\ \A x \in OrderIds : Sold(x)' => Sold(x)
    BY <1>2, <1>3, <1>4, HandlerMoves
  <1>6. Fresh(p)'
    BY <1>2, <1>5, PlainFresh DEF UsualStates
  <1>7. RowsKept /\ BasketsKept /\ RowsStay
    BY <1>2 DEF RowsKept, BasketsKept, RowsStay
  <1>8. \A a \in Attempts : attempt'[a].status # "unused" =>
           attempt[a].status # "unused" /\ attempt'[a].order = attempt[a].order
    BY <1>2
  <1> QED  BY <1>2, <1>5, <1>6, <1>7, <1>8, SalesKept

(* A handler ends; a row may have been cancelled, or the refund recorded.  *)
LEMMA EndSales ==
  ASSUME TypeOK, Sales, NEW p \in Procs, proc' = [proc EXCEPT ![p] = Idle],
         RowsKept, BasketsKept, UNCHANGED <<paidRun, refunds, cleared>>,
         \A o \in OrderIds : order'[o].state \in {"fulfilled", "refunded"} => Sold(o),
         \A a \in Attempts : attempt'[a].status # "unused" =>
             \/ attempt[a].status # "unused" /\ attempt'[a].order = attempt[a].order
             \/ /\ attempt'[a].order \in OrderIds
                /\ order'[attempt'[a].order].state # "absent"
  PROVE  Sales'
  <1>1. PICK k : k = Idle
    OBVIOUS
  <1>2. k.pc = "idle" /\ k.pc \notin ReturnStates /\ proc' = [proc EXCEPT ![p] = k]
    BY <1>1 DEF Idle, ReturnStates
  <1>3. \A o \in OrderIds : refunds'[o] > 0 => Sold(o)
    BY DEF Sold
  <1>4. /\ proc'[p] = k /\ \A q \in Procs : q # p => proc'[q] = proc[q]
        /\ \A o \in OrderIds : Sold(o)' => Sold(o)
    BY <1>2, <1>3, HandlerMoves
  <1>5. Fresh(p)' /\ RowsStay
    BY <1>2, <1>4, PlainFresh DEF UsualStates, RowsStay
  <1> QED  BY <1>4, <1>5, SalesKept

LEMMA PlainEndSales ==
  ASSUME TypeOK, Sales, NEW p \in Procs,
         CheckoutZeroFails(p) \/ LogSession(p) \/ PaidCourseRunExists(p)
         \/ DeleteBasket(p) \/ Crash(p)
         \/ (StartRefund(p) /\ proc' = [proc EXCEPT ![p] = Idle] /\ UNCHANGED refunds)
  PROVE  Sales'
  <1>1. /\ proc' = [proc EXCEPT ![p] = Idle]
        /\ UNCHANGED <<order, paidRun, refunds, attempt, cleared>>
    BY DEF CheckoutZeroFails, LogSession, PaidCourseRunExists, DeleteBasket, Crash, StartRefund
  <1>2. \A o \in OrderIds : order[o].state = "absent" => trans'[o] = trans[o]
    <2>1. CASE LogSession(p)
      <3>1. /\ proc[p].pc # "idle"
            /\ trans' = [trans EXCEPT ![proc[p].order] =
                            @ \cup {TransactionId(proc[p].total, proc[p].id)}]
        BY <2>1 DEF LogSession
      <3>2. \A o \in OrderIds : o # proc[p].order => trans'[o] = trans[o]
        BY <3>1 DEF TypeOK
      <3> QED  BY <3>1, <3>2, HeldRow
    <2>2. CASE ~LogSession(p)
      BY <2>2 DEF CheckoutZeroFails, PaidCourseRunExists, DeleteBasket, Crash, StartRefund
    <2> QED  BY <2>1, <2>2
  <1>3. RowsKept
    BY <1>1, <1>2 DEF RowsKept
  <1>4. BasketsKept
    <2>1. CASE DeleteBasket(p)
      <3>1. PICK u : \/ basket' = basket
                     \/ basket' = [basket EXCEPT ![u] = EmptyBasket]
        BY <2>1 DEF DeleteBasket
      <3>2. EmptyBasket.items = {}
        BY DEF EmptyBasket
      <3> QED  BY <3>1, <3>2 DEF BasketsKept, TypeOK
    <2>2. CASE ~DeleteBasket(p)
      <3>1. basket' = basket
        BY <2>2 DEF CheckoutZeroFails, LogSession, PaidCourseRunExists, Crash, StartRefund
      <3> QED  BY <3>1 DEF BasketsKept
    <2> QED  BY <2>1, <2>2
  <1>5. \A o \in OrderIds : order'[o].state \in {"fulfilled", "refunded"} => Sold(o)
    BY <1>1 DEF Sold
  <1>6. \A a \in Attempts : attempt'[a].status # "unused" =>
           attempt[a].status # "unused" /\ attempt'[a].order = attempt[a].order
    BY <1>1
  <1> QED  BY <1>1, <1>3, <1>4, <1>5, <1>6, EndSales

(* A cancelled or refunded order is saved at the end of its handler.       *)
LEMMA SavedEndSales ==
  ASSUME TypeOK, Sales, NEW p \in Procs, CancelOrder(p) \/ SaveRefund(p)
  PROVE  Sales'
  <1>1. PICK s \in {"canceled", "refunded"} :
           /\ Save(p, s) /\ (s = "refunded" => proc[p].pc = "save_refund")
    BY DEF CancelOrder, SaveRefund
  <1>2. /\ proc' = [proc EXCEPT ![p] = Idle] /\ proc[p].pc # "idle"
        /\ UNCHANGED <<basket, trans, paidRun, refunds, attempt, cleared>>
    BY DEF CancelOrder, SaveRefund
  <1>3. \A o \in OrderIds : o # proc[p].order => trans'[o] = trans[o]
    BY <1>2
  <1>4. s \in OrderStatus /\ refunds' = refunds
    BY <1>2 DEF OrderStatus
  <1>5. /\ RowsKept /\ order'[proc[p].order].state = s
        /\ \A o \in OrderIds : o # proc[p].order => order'[o] = order[o]
    BY <1>1, <1>2, <1>3, <1>4, SaveRows
  <1>6. ASSUME NEW o \in OrderIds, order'[o].state \in {"fulfilled", "refunded"}
        PROVE  Sold(o)
    <2>1. CASE o = proc[p].order
      <3>1. Returning(p, o)
        BY <1>1, <1>5, <1>6, <2>1 DEF Returning, ReturnStates
      <3> QED  BY <3>1 DEF Sold
    <2>2. CASE o # proc[p].order
      BY <1>5, <1>6, <2>2 DEF Sold
    <2> QED  BY <2>1, <2>2
  <1>7. BasketsKept
    BY <1>2 DEF BasketsKept
  <1>8. \A a \in Attempts : attempt'[a].status # "unused" =>
           attempt[a].status # "unused" /\ attempt'[a].order = attempt[a].order
    BY <1>2
  <1> QED  BY <1>2, <1>5, <1>6, <1>7, <1>8, EndSales

(* A handler goes on while the rows stay as they are.                      *)
LEMMA GoOnSales ==
  ASSUME TypeOK, Sales, NEW p \in Procs, proc[p].pc # "idle", NEW k,
         proc' = [proc EXCEPT ![p] = k], k.order = proc[p].order,
         UNCHANGED <<basket, order, paidRun, cleared>>,
         \A o \in OrderIds : refunds'[o] > 0 => Sold(o),
         \A o \in OrderIds \ {proc[p].order} : trans'[o] = trans[o] /\ refunds'[o] = refunds[o],
         k.pc \in ReturnStates => Sold(k.order),
         Fresh(p)',
         \A a \in Attempts : attempt'[a].status # "unused" =>
             \/ attempt[a].status # "unused" /\ attempt'[a].order = attempt[a].order
             \/ attempt'[a].order = proc[p].order
  PROVE  Sales'
  <1>1. proc[p].order \in OrderIds /\ order[proc[p].order].state # "absent"
    BY HeldRow
  <1>2. \A o \in OrderIds : order'[o].state \in {"fulfilled", "refunded"} => Sold(o)
    BY DEF Sold
  <1>3. /\ \A q \in Procs : q # p => proc'[q] = proc[q]
        /\ \A o \in OrderIds : Sold(o)' => Sold(o)
    BY <1>2, HandlerMoves
  <1>4. RowsKept /\ BasketsKept /\ RowsStay
    BY <1>1 DEF RowsKept, BasketsKept, RowsStay
  <1>5. \A a \in Attempts : attempt'[a].status # "unused" =>
             \/ attempt[a].status # "unused" /\ attempt'[a].order = attempt[a].order
             \/ /\ attempt'[a].order \in OrderIds
                /\ order'[attempt'[a].order].state # "absent"
    BY <1>1
  <1> QED  BY <1>3, <1>4, <1>5, SalesKept

LEMMA StartPaymentSales ==
  ASSUME TypeOK, Sales, NEW p \in Procs, NEW a \in Attempts, StartPayment(p, a)
  PROVE  Sales'
  <1>1. /\ proc[p].pc = "pay" /\ UNCHANGED <<basket, order, trans, paidRun, refunds, cleared>>
        /\ attempt' = [attempt EXCEPT ![a] = [order |-> proc[p].order, status |-> "open"]]
    BY DEF StartPayment
  <1>2. /\ proc[p].order \in OrderIds /\ order[proc[p].order].state # "absent"
        /\ proc[p] \in Handlers
    BY <1>1, HeldRow
  <1>3. \A b \in Attempts : attempt'[b].status # "unused" =>
             \/ attempt[b].status # "unused" /\ attempt'[b].order = attempt[b].order
             \/ attempt'[b].order = proc[p].order
    BY <1>1 DEF TypeOK
  <1>4. CASE order[proc[p].order].gateway = "stripe"
    <2>1. PICK k : k = [proc[p] EXCEPT !.pc = "log", !.id = Id("session", a)]
      OBVIOUS
    <2>2. proc' = [proc EXCEPT ![p] = k] /\ k.pc = "log" /\ k.order = proc[p].order
      BY <1>2, <1>4, <2>1 DEF StartPayment, Handlers
    <2>3. proc'[p] = k
      BY <2>2 DEF TypeOK
    <2>4. Fresh(p)'
      BY <1>1, <1>2, <2>2, <2>3, PlainFresh DEF UsualStates
    <2>5. \A o \in OrderIds : refunds'[o] > 0 => Sold(o)
      BY <1>1 DEF Sold
    <2>6. k.pc \notin ReturnStates
      BY <2>2 DEF ReturnStates
    <2> QED  BY <1>1, <1>3, <2>2, <2>4, <2>5, <2>6, GoOnSales
  <1>5. CASE order[proc[p].order].gateway # "stripe"
    <2>1. proc' = [proc EXCEPT ![p] = Idle]
      BY <1>5 DEF StartPayment
    <2>2. RowsKept /\ BasketsKept
      BY <1>1 DEF RowsKept, BasketsKept
    <2>3. \A o \in OrderIds : order'[o].state \in {"fulfilled", "refunded"} => Sold(o)
      BY <1>1 DEF Sold
    <2> QED  BY <1>1, <1>2, <1>3, <2>1, <2>2, <2>3, EndSales
  <1> QED  BY <1>4, <1>5

LEMMA CreateTransactionSales ==
  ASSUME TypeOK, Sales, NEW p \in Procs, CreateTransaction(p)
  PROVE  Sales'
  <1>1. /\ proc[p].pc \in {"record", "record_only"}
        /\ UNCHANGED <<basket, order, paidRun, refunds, attempt, cleared>>
    BY DEF CreateTransaction
  <1>2. /\ proc[p].order \in OrderIds /\ order[proc[p].order].state # "absent"
        /\ proc[p] \in Handlers /\ proc[p].pc = "record"
        /\ order[proc[p].order].lines # {}
    BY <1>1, HeldRow DEF UsualStates
  <1>3. PICK k : k = [proc[p] EXCEPT !.pc = "lines", !.todo = order[proc[p].order].lines]
    OBVIOUS
  <1>4. /\ proc' = [proc EXCEPT ![p] = k] /\ k.pc = "lines" /\ k.order = proc[p].order
        /\ k.todo = order[proc[p].order].lines
    BY <1>2, <1>3 DEF CreateTransaction, Handlers
  <1>5. proc'[p] = k
    BY <1>4 DEF TypeOK
  <1>6. Fresh(p)'
    BY <1>1, <1>2, <1>4, <1>5 DEF Fresh, Holds, HandlerDelivers, UsualStates, Finishing
  <1>7. \A o \in OrderIds \ {proc[p].order} : trans'[o] = trans[o] /\ refunds'[o] = refunds[o]
    BY <1>1 DEF CreateTransaction, TypeOK
  <1>8. /\ \A o \in OrderIds : refunds'[o] > 0 => Sold(o)
        /\ k.pc \notin ReturnStates
    BY <1>1, <1>4 DEF Sold, ReturnStates
  <1> QED  BY <1>1, <1>2, <1>4, <1>6, <1>7, <1>8, GoOnSales

(* A cancellation or a refund is recorded before the order is saved.       *)
LEMMA RecordedSales ==
  ASSUME TypeOK, Sales, NEW p \in Procs, RecordCancellation(p) \/ RecordRefund(p)
  PROVE  Sales'
  <1>1. \E pc \in {"save_cancel", "save_refund"} : \E t :
           /\ proc[p].pc = IF pc = "save_cancel" THEN "cancel" ELSE "refunded"
           /\ trans' = [trans EXCEPT ![proc[p].order] = @ \cup {t}]
           /\ proc' = [proc EXCEPT ![p].pc = pc]
           /\ UNCHANGED <<basket, order, paidRun, refunds, attempt, cleared>>
    BY DEF RecordCancellation, RecordRefund
  <1>10. PICK pc \in {"save_cancel", "save_refund"} : \E t :
           /\ proc[p].pc = IF pc = "save_cancel" THEN "cancel" ELSE "refunded"
           /\ trans' = [trans EXCEPT ![proc[p].order] = @ \cup {t}]
           /\ proc' = [proc EXCEPT ![p].pc = pc]
           /\ UNCHANGED <<basket, order, paidRun, refunds, attempt, cleared>>
    BY <1>1
  <1>2. /\ proc[p].order \in OrderIds /\ order[proc[p].order].state # "absent"
        /\ proc[p] \in Handlers /\ proc[p].pc # "idle"
    BY <1>10, HeldRow
  <1>3. PICK k : k = [proc[p] EXCEPT !.pc = pc]
    OBVIOUS
  <1>4. proc' = [proc EXCEPT ![p] = k] /\ k.pc = pc /\ k.order = proc[p].order
    BY <1>10, <1>2, <1>3 DEF Handlers
  <1>5. proc'[p] = k
    BY <1>4 DEF TypeOK
  <1>6. Fresh(p)'
    BY <1>10, <1>2, <1>4, <1>5, PlainFresh DEF UsualStates
  <1>7. \A o \in OrderIds \ {proc[p].order} : trans'[o] = trans[o] /\ refunds'[o] = refunds[o]
    BY <1>10 DEF TypeOK
  <1>8. \A o \in OrderIds : refunds'[o] > 0 => Sold(o)
    BY <1>10 DEF Sold
  <1>9. k.pc \in ReturnStates => Sold(k.order)
    <2>1. ASSUME k.pc \in ReturnStates  PROVE Returning(p, k.order)
      BY <1>10, <1>4, <2>1 DEF Returning, ReturnStates
    <2> QED  BY <1>2, <1>4, <2>1 DEF Sold
  <1> QED  BY <1>10, <1>2, <1>4, <1>6, <1>7, <1>8, <1>9, GoOnSales

LEMMA EnrollLineSales ==
  ASSUME TypeOK, Sales, NEW p \in Procs, NEW r \in Runs, EnrollLine(p, r)
  PROVE  Sales'
  <1>1. /\ proc[p].pc = "lines" /\ r \in proc[p].todo
        /\ UNCHANGED <<basket, order, trans, paidRun, refunds, attempt, cleared>>
    BY DEF EnrollLine
  <1>2. /\ proc[p].order \in OrderIds /\ order[proc[p].order].state # "absent"
        /\ proc[p] \in Handlers /\ \E x \in Runs : order[proc[p].order].lines = {x}
    BY <1>1, HeldRow
  <1>3. proc[p].todo = order[proc[p].order].lines
    BY <1>1 DEF Sales, HandlerDelivers
  <1>4. proc[p].todo = {r}
    BY <1>1, <1>2, <1>3
  <1>5. PICK k : k = [proc[p] EXCEPT !.pc = "paid", !.todo = proc[p].todo \ {r}, !.line = {r}]
    OBVIOUS
  <1>6. /\ proc' = [proc EXCEPT ![p] = k] /\ k.pc = "paid" /\ k.order = proc[p].order
        /\ k.todo = {} /\ k.line = order[proc[p].order].lines
    BY <1>2, <1>3, <1>4, <1>5 DEF EnrollLine, Handlers
  <1>7. proc'[p] = k
    BY <1>6 DEF TypeOK
  <1>8. Fresh(p)'
    BY <1>1, <1>2, <1>6, <1>7 DEF Fresh, Holds, HandlerDelivers, UsualStates, Finishing
  <1>9. /\ \A o \in OrderIds : refunds'[o] > 0 => Sold(o)
        /\ k.pc \notin ReturnStates
    BY <1>1, <1>6 DEF Sold, ReturnStates
  <1> QED  BY <1>1, <1>6, <1>8, <1>9, GoOnSales

LEMMA StartRefundSales ==
  ASSUME TypeOK, Sales, NEW p \in Procs, StartRefund(p)
  PROVE  Sales'
  <1>1. CASE proc' = [proc EXCEPT ![p] = Idle] /\ UNCHANGED refunds
    BY <1>1, PlainEndSales
  <1>2. CASE /\ refunds' = [refunds EXCEPT ![proc[p].order] = @ + 1]
             /\ proc' = [proc EXCEPT ![p].pc = "refunded"]
    <2>1. /\ proc[p].pc = "refund" /\ UNCHANGED <<basket, order, trans, paidRun, attempt, cleared>>
      BY DEF StartRefund
    <2>2. /\ proc[p].order \in OrderIds /\ order[proc[p].order].state # "absent"
          /\ proc[p] \in Handlers
      BY <2>1, HeldRow
    <2>3. PICK k : k = [proc[p] EXCEPT !.pc = "refunded"]
      OBVIOUS
    <2>4. proc' = [proc EXCEPT ![p] = k] /\ k.pc = "refunded" /\ k.order = proc[p].order
      BY <1>2, <2>2, <2>3 DEF Handlers
    <2>5. proc'[p] = k
      BY <2>4 DEF TypeOK
    <2>6. Fresh(p)'
      BY <2>1, <2>2, <2>4, <2>5, PlainFresh DEF UsualStates
    <2>7. Sold(proc[p].order)
      BY <2>1 DEF Sold, Returning, ReturnStates
    <2>8. \A o \in OrderIds : o # proc[p].order => refunds'[o] = refunds[o]
      BY <1>2 DEF TypeOK
    <2>9. \A o \in OrderIds : refunds'[o] > 0 => Sold(o)
      BY <2>7, <2>8 DEF Sold
    <2> QED  BY <2>1, <2>4, <2>6, <2>7, <2>8, <2>9, GoOnSales
  <1> QED  BY <1>1, <1>2 DEF StartRefund

(* An order that a step leaves alone stays sold once.                      *)
LEMMA OtherOrder ==
  ASSUME TypeOK, Sales, RowsKept, RowsStay, NEW x \in OrderIds,
         order'[x].state = order[x].state, refunds'[x] = refunds[x],
         \A q \in Procs : \/ proc'[q] = proc[q]
                          \/ /\ proc'[q].pc \notin ReturnStates
                             /\ ~Finishing(q, x)'
  PROVE  SoldOnce(x)'
  <1>1. \A q \in Procs : Finishing(q, x)' => Finishing(q, x)
    BY DEF Finishing
  <1>2. \A q \in Procs : Returning(q, x)' => Returning(q, x)
    BY DEF Returning
  <1>3. Sold(x)' => Sold(x) /\ order[x].state # "absent"
    BY <1>2, SoldIsThere DEF Sold
  <1>4. SoldOnce(x)
    BY DEF Sales
  <1>5. Sold(x)' => Delivered(x)'
    BY <1>3, <1>4, DeliveredStable DEF SoldOnce
  <1>6. Kept(x)' => Kept(x)
    BY KeptBefore
  <1> QED  BY <1>1, <1>3, <1>4, <1>5, <1>6 DEF SoldOnce

(* While a line is missing, nobody is past the unique key.                 *)
LEMMA NobodyYet ==
  ASSUME TypeOK, Sales, NEW o \in OrderIds, ~Delivered(o)
  PROVE  ~Sold(o) /\ \A q \in Procs : ~Finishing(q, o)
  <1>1. ~Sold(o)
    BY DEF Sales, SoldOnce
  <1>2. ASSUME NEW q \in Procs, Finishing(q, o)  PROVE FALSE
    <2>1. HandlerDelivers(q)
      BY DEF Sales
    <2> QED  BY <1>2, <2>1 DEF HandlerDelivers, Finishing
  <1> QED  BY <1>1, <1>2

(* The insert that the unique key lets through makes p the one to save.    *)
LEMMA CreatePaidCourseRunSales ==
  ASSUME TypeOK, Sales, NEW p \in Procs, CreatePaidCourseRun(p)
  PROVE  Sales'
  <1>1. /\ proc[p].pc = "paid" /\ \A r \in proc[p].line : <<proc[p].order, r>> \notin paidRun
        /\ paidRun' = paidRun \cup ({proc[p].order} \X proc[p].line)
        /\ UNCHANGED <<basket, order, trans, refunds, attempt, cleared>>
    BY DEF CreatePaidCourseRun
  <1>2. PICK o \in OrderIds : o = proc[p].order
    BY <1>1, HeldRow
  <1>3. /\ order[o].state # "absent" /\ order[o].lines # {} /\ proc[p] \in Handlers
        /\ proc[p].todo = {} /\ proc[p].line = order[o].lines
    <2>1. HandlerDelivers(p)
      BY DEF Sales
    <2> QED  BY <1>1, <1>2, <2>1, HeldRow DEF HandlerDelivers
  <1>4. Kept(o) => ~Delivered(o)
    BY <1>1, <1>2, <1>3 DEF Delivered, Kept
  <1>5. Kept(o) => ~Sold(o) /\ \A q \in Procs : ~Finishing(q, o)
    BY <1>4, NobodyYet
  <1>6. Delivered(o)' /\ RowsStay /\ (Kept(o)' => Kept(o))
    BY <1>1, <1>2, <1>3 DEF Delivered, RowsStay, Kept
  <1>7. PICK k : k = [proc[p] EXCEPT !.pc = "lines", !.line = {}]
    OBVIOUS
  <1>8. /\ proc' = [proc EXCEPT ![p] = k] /\ k.pc = "lines" /\ k.order = o /\ k.todo = {}
        /\ k.pc \notin ReturnStates
    BY <1>2, <1>3, <1>7 DEF CreatePaidCourseRun, Handlers, ReturnStates
  <1>9. /\ proc'[p] = k /\ \A q \in Procs : q # p => proc'[q] = proc[q]
        /\ \A x \in OrderIds : Sold(x)' => Sold(x)
    <2>1. \A x \in OrderIds : /\ order'[x].state \in {"fulfilled", "refunded"} => Sold(x)
                              /\ refunds'[x] > 0 => Sold(x)
      BY <1>1 DEF Sold
    <2> QED  BY <1>8, <2>1, HandlerMoves
  <1>10. RowsKept /\ BasketsKept
    BY <1>1 DEF RowsKept, BasketsKept
  <1>11. ASSUME NEW x \in OrderIds  PROVE SoldOnce(x)'
    <2>1. CASE x = o
      <3>1. Kept(o)' => \A q \in Procs : Finishing(q, o)' => q = p
        BY <1>5, <1>6, <1>9 DEF Finishing
      <3>2. Kept(o)' => ~Sold(o)'
        BY <1>5, <1>6, <1>9
      <3> QED  BY <1>6, <2>1, <3>1, <3>2 DEF SoldOnce
    <2>2. CASE x # o
      <3>1. \A q \in Procs : \/ proc'[q] = proc[q]
                             \/ /\ proc'[q].pc \notin ReturnStates
                                /\ ~Finishing(q, x)'
        BY <1>8, <1>9, <2>2 DEF Finishing
      <3> QED  BY <1>1, <1>6, <1>10, <3>1, OtherOrder
    <2> QED  BY <2>1, <2>2
  <1>12. Holds(p)'
    BY <1>1, <1>3, <1>6, <1>8, <1>9 DEF Holds, HandlerDelivers, UsualStates
  <1>13. \A a \in Attempts : attempt'[a].status # "unused" =>
            attempt[a].status # "unused" /\ attempt'[a].order = attempt[a].order
    BY <1>1
  <1> QED  BY <1>6, <1>9, <1>10, <1>11, <1>12, <1>13, SalesFrame

(* Only that handler reaches order.save(), and then there is none left.    *)
LEMMA SaveFulfilledSales ==
  ASSUME TypeOK, Sales, NEW p \in Procs, SaveFulfilled(p)
  PROVE  Sales'
  <1>1. /\ Save(p, "fulfilled") /\ proc[p].pc # "idle"
        /\ UNCHANGED <<basket, trans, paidRun, refunds, attempt, cleared>>
        /\ RowsStay
    BY DEF SaveFulfilled, RowsStay
  <1>2. PICK o \in OrderIds : o = proc[p].order
    BY <1>1, HeldRow
  <1>3. Finishing(p, o)
    BY <1>1, <1>2, HeldRow DEF SaveFulfilled, Finishing, UsualStates
  <1>4. Delivered(o) /\ (Kept(o) => \A q \in Procs : Finishing(q, o) => q = p)
    <2>1. HandlerDelivers(p) /\ SoldOnce(o)
      BY DEF Sales
    <2> QED  BY <1>2, <1>3, <2>1 DEF HandlerDelivers, Finishing, SoldOnce
  <1>5. PICK k : k = IF proc[p].id.kind = "event" THEN [proc[p] EXCEPT !.pc = "basket"] ELSE Idle
    OBVIOUS
  <1>6. /\ proc' = [proc EXCEPT ![p] = k]
        /\ k.pc \in {"basket", "idle"} /\ (k.pc # "idle" => k.order = o)
        /\ k.pc \notin ReturnStates
    BY <1>1, <1>2, <1>5, HeldRow DEF SaveFulfilled, Handlers, Idle, ReturnStates
  <1>7. proc'[p] = k /\ \A q \in Procs : q # p => proc'[q] = proc[q]
    BY <1>6 DEF TypeOK
  <1>8. /\ RowsKept /\ order'[o].state = "fulfilled"
        /\ \A x \in OrderIds : x # o => order'[x] = order[x]
    <2>1. "fulfilled" \in OrderStatus /\ refunds' = refunds
          /\ \A x \in OrderIds : x # proc[p].order => trans'[x] = trans[x]
      BY <1>1 DEF OrderStatus
    <2> QED  BY <1>1, <1>2, <2>1, SaveRows
  <1>9. ASSUME NEW x \in OrderIds  PROVE SoldOnce(x)'
    <2>1. CASE x = o
      <3>1. Kept(o)' => \A q \in Procs : ~Finishing(q, o)'
        BY <1>1, <1>4, <1>6, <1>7, <1>8, KeptBefore DEF Finishing
      <3>2. Delivered(o)'
        BY <1>1, <1>2, <1>4, <1>8, HeldRow, DeliveredStable
      <3> QED  BY <2>1, <3>1, <3>2 DEF SoldOnce
    <2>2. CASE x # o
      <3>1. \A q \in Procs : \/ proc'[q] = proc[q]
                             \/ /\ proc'[q].pc \notin ReturnStates
                                /\ ~Finishing(q, x)'
        BY <1>6, <1>7 DEF Finishing
      <3>2. order'[x].state = order[x].state /\ refunds'[x] = refunds[x]
            /\ RowsStay
        BY <1>1, <1>8, <2>2
      <3> QED  BY <1>8, <3>1, <3>2, OtherOrder
    <2> QED  BY <2>1, <2>2
  <1>10. Holds(p)'
    <2>1. Fresh(p)'
      BY <1>6, <1>7, <1>8, PlainFresh DEF UsualStates
    <2> QED  BY <2>1 DEF Fresh
  <1>11. BasketsKept /\ RowsStay
    BY <1>1 DEF BasketsKept
  <1>12. \A a \in Attempts : attempt'[a].status # "unused" =>
            attempt[a].status # "unused" /\ attempt'[a].order = attempt[a].order
    BY <1>1
  <1> QED  BY <1>7, <1>8, <1>9, <1>10, <1>11, <1>12, SalesFrame

(* fulfill_completed_order in its transaction: the same in one step.       *)
LEMMA FulfillAtomicallySales ==
  ASSUME TypeOK, Sales, NEW o \in OrderIds, order[o].state # "absent",
         NEW total, NEW id, FulfillAtomically(o, total, id),
         UNCHANGED <<attempt, refunds, cleared>>,
         \A q \in Procs : proc'[q] = proc[q] \/ proc'[q] = Idle
  PROVE  Sales'
  <1>1. /\ \A r \in order[o].lines : <<o, r>> \notin paidRun
        /\ paidRun' = paidRun \cup ({o} \X order[o].lines)
        /\ order' = [order EXCEPT ![o] = [@ EXCEPT !.state = "fulfilled", !.total = total]]
        /\ \A x \in OrderIds : x # o => trans'[x] = trans[x]
    BY DEF FulfillAtomically, TypeOK
  <1>2. /\ \A x \in OrderIds : x # o => order'[x] = order[x]
        /\ order'[o].state = "fulfilled" /\ order'[o].lines = order[o].lines
        /\ order'[o].user = order[o].user
    <2>1. /\ \A x \in OrderIds : x # o => order'[x] = order[x]
          /\ order'[o] = [order[o] EXCEPT !.state = "fulfilled", !.total = total]
          /\ order[o] \in OrderRows
      BY <1>1 DEF TypeOK
    <2> QED  BY <2>1 DEF OrderRows
  <1>3. RowsKept /\ RowsStay
    BY <1>1, <1>2 DEF RowsKept, RowsStay
  <1>4. BasketsKept
    <2>1. PICK u : basket' = basket \/ basket' = [basket EXCEPT ![u] = EmptyBasket]
      BY DEF FulfillAtomically
    <2>2. EmptyBasket.items = {}
      BY DEF EmptyBasket
    <2> QED  BY <2>1, <2>2 DEF BasketsKept, TypeOK
  <1>5. Idle.pc = "idle" /\ Idle.pc \notin ReturnStates
    BY DEF Idle, ReturnStates
  <1>6. Kept(o) => ~Delivered(o)
    BY <1>1 DEF Delivered, Kept, Sales, SingleItems
  <1>7. Kept(o)' => ~Sold(o) /\ \A q \in Procs : ~Finishing(q, o)
    BY <1>3, <1>6, KeptBefore, NobodyYet
  <1>8. ASSUME NEW x \in OrderIds  PROVE SoldOnce(x)'
    <2>1. CASE x = o
      <3>1. Kept(o)' => \A q \in Procs : ~Finishing(q, o)'
        BY <1>5, <1>7 DEF Finishing
      <3>2. Delivered(o)'
        BY <1>1, <1>2 DEF Delivered
      <3> QED  BY <2>1, <3>1, <3>2 DEF SoldOnce
    <2>2. CASE x # o
      <3>1. \A q \in Procs : \/ proc'[q] = proc[q]
                             \/ /\ proc'[q].pc \notin ReturnStates
                                /\ ~Finishing(q, x)'
        BY <1>5 DEF Finishing
      <3>2. order'[x].state = order[x].state /\ refunds'[x] = refunds[x]
        BY <1>2, <2>2
      <3> QED  BY <1>3, <3>1, <3>2, OtherOrder
    <2> QED  BY <2>1, <2>2
  <1>9. ASSUME NEW q \in Procs  PROVE proc'[q] = proc[q] \/ Holds(q)'
    BY <1>5 DEF Holds, HandlerDelivers, UsualStates
  <1>10. \A a \in Attempts : attempt'[a].status # "unused" =>
            attempt[a].status # "unused" /\ attempt'[a].order = attempt[a].order
    OBVIOUS
  <1> QED  BY <1>3, <1>4, <1>8, <1>9, <1>10, SalesFrame

(* The row a checkout settles on: a new one, or the purchaser's pending    *)
(* order for the same run, whose line stays.                               *)
LEMMA CheckoutRow ==
  ASSUME TypeOK, Sales, NEW p \in Procs, NEW u \in Users, NEW g \in Gateways,
         Checkout(p, u, g)
  PROVE  \E o \in OrderIds : \E k :
           /\ proc' = [proc EXCEPT ![p] = k] /\ k.pc \in {"zero", "pay"} /\ k.order = o
           /\ order[o].state \in {"absent", "pending"}
           /\ order[o].state # "absent" =>
                 order'[o].lines = order[o].lines /\ order'[o].user = order[o].user
           /\ order'[o].state = "pending" /\ \E r \in Runs : order'[o].lines = {r}
           /\ \A x \in OrderIds : x # o => order'[x] = order[x]
  <1> DEFINE price == PriceWith[basket[u].code]
             total == Cardinality(basket[u].items) * price
  <1>1. PICK o \in PendingRow(u, g) :
          /\ order' = [order EXCEPT ![o] =
                 [state |-> "pending", user |-> u, gateway |-> g,
                  lines |-> @.lines \cup basket[u].items,
                  total |-> total, code |-> basket[u].code]]
          /\ proc' = [proc EXCEPT ![p] =
                 [Idle EXCEPT !.pc = IF price = 0 THEN "zero" ELSE "pay",
                              !.order = o, !.total = total]]
    BY DEF Checkout
  <1> HIDE DEF total, price
  <1>2. PICK r \in Runs : basket[u].items = {r}
    BY DEF Checkout, Sales, SingleItems
  <1>3. o \in OrderIds /\ order[o].state \in {"absent", "pending"}
    BY DEF PendingRow, Reusable
  <1>4. /\ order[o].state = "absent" => order[o].lines = {}
        /\ order[o].state # "absent" => order[o].lines = {r} /\ order[o].user = u
    BY <1>2, <1>3 DEF PendingRow, Reusable, Sales, SingleItems
  <1>5. /\ order'[o] = [state |-> "pending", user |-> u, gateway |-> g,
                        lines |-> order[o].lines \cup basket[u].items,
                        total |-> total, code |-> basket[u].code]
        /\ \A x \in OrderIds : x # o => order'[x] = order[x]
    BY <1>1, <1>3 DEF TypeOK
  <1>6. /\ order'[o].state = "pending" /\ order'[o].user = u
        /\ order'[o].lines = {r}
    BY <1>2, <1>4, <1>5
  <1>7. PICK k : k = [Idle EXCEPT !.pc = IF price = 0 THEN "zero" ELSE "pay",
                                  !.order = o, !.total = total]
    OBVIOUS
  <1>8. k.pc \in {"zero", "pay"} /\ k.order = o
    BY <1>7 DEF Idle
  <1>9. /\ proc' = [proc EXCEPT ![p] = k] /\ k.pc \in {"zero", "pay"} /\ k.order = o
        /\ order[o].state \in {"absent", "pending"}
        /\ order[o].state # "absent" =>
              order'[o].lines = order[o].lines /\ order'[o].user = order[o].user
        /\ order'[o].state = "pending" /\ \E x \in Runs : order'[o].lines = {x}
        /\ \A x \in OrderIds : x # o => order'[x] = order[x]
    BY <1>1, <1>3, <1>4, <1>5, <1>6, <1>7, <1>8
  <1> QED  BY <1>3, <1>9, Zenon

LEMMA CheckoutSales ==
  ASSUME TypeOK, Sales, NEW p \in Procs, NEW u \in Users, NEW g \in Gateways,
         Checkout(p, u, g)
  PROVE  Sales'
  <1>0. PICK o \in OrderIds : \E k :
           /\ proc' = [proc EXCEPT ![p] = k] /\ k.pc \in {"zero", "pay"} /\ k.order = o
           /\ order[o].state \in {"absent", "pending"}
           /\ order[o].state # "absent" =>
                 order'[o].lines = order[o].lines /\ order'[o].user = order[o].user
           /\ order'[o].state = "pending" /\ \E r \in Runs : order'[o].lines = {r}
           /\ \A x \in OrderIds : x # o => order'[x] = order[x]
    BY CheckoutRow
  <1>1. PICK k :
           /\ proc' = [proc EXCEPT ![p] = k] /\ k.pc \in {"zero", "pay"} /\ k.order = o
           /\ order[o].state \in {"absent", "pending"}
           /\ order[o].state # "absent" =>
                 order'[o].lines = order[o].lines /\ order'[o].user = order[o].user
           /\ order'[o].state = "pending" /\ \E r \in Runs : order'[o].lines = {r}
           /\ \A x \in OrderIds : x # o => order'[x] = order[x]
    BY <1>0
  <1>2. UNCHANGED <<basket, trans, paidRun, refunds, attempt, cleared>>
        /\ k.pc \notin ReturnStates
    BY <1>1 DEF Checkout, ReturnStates
  <1>3. RowsKept /\ BasketsKept /\ RowsStay
    BY <1>1, <1>2 DEF RowsKept, BasketsKept, RowsStay
  <1>4. \A x \in OrderIds : /\ order'[x].state \in {"fulfilled", "refunded"} => Sold(x)
                            /\ refunds'[x] > 0 => Sold(x)
    BY <1>1, <1>2 DEF Sold
  <1>5. /\ proc'[p] = k /\ \A q \in Procs : q # p => proc'[q] = proc[q]
        /\ \A x \in OrderIds : Sold(x)' => Sold(x)
    BY <1>1, <1>2, <1>4, HandlerMoves
  <1>6. Fresh(p)'
    BY <1>1, <1>5, PlainFresh DEF UsualStates
  <1>7. \A a \in Attempts : attempt'[a].status # "unused" =>
           attempt[a].status # "unused" /\ attempt'[a].order = attempt[a].order
    BY <1>2
  <1> QED  BY <1>2, <1>3, <1>5, <1>6, <1>7, SalesKept

(* Baskets change, one item each, or a page hears from the learner, or     *)
(* PaidCourseRun rows go elsewhere.                                        *)
LEMMA TablesSame ==
  ASSUME TypeOK, Sales, UNCHANGED <<order, trans, refunds, proc>>, RowsStay, BasketsKept,
         \A a \in Attempts : attempt'[a].status # "unused" =>
           attempt[a].status # "unused" /\ attempt'[a].order = attempt[a].order
  PROVE  Sales'
  <1>1. RowsKept /\ \A o \in OrderIds : Sold(o)' => Sold(o)
    BY DEF RowsKept, Sold, Returning
  <1> QED  BY <1>1, SalesKept

LEMMA LearnerSales ==
  ASSUME UsualOperation, TypeOK, Sales, NEW u \in Users, Learner(u)
  PROVE  Sales'
  <1>1. ASSUME NEW p \in Procs, NEW g \in Gateways, Checkout(p, u, g)  PROVE Sales'
    BY <1>1, CheckoutSales
  <1>2. ASSUME NEW b, basket' = [basket EXCEPT ![u] = b],
               b.items \in {{}, basket[u].items} \/ \E r \in Runs : b.items = {r},
               UNCHANGED <<order, trans, paidRun, attempt, refunds, proc, cleared>>
        PROVE  Sales'
    <2>1. BasketsKept /\ RowsStay
      BY <1>2 DEF BasketsKept, RowsStay, TypeOK
    <2> QED  BY <1>2, <2>1, TablesSame
  <1>3. ASSUME NEW r \in OnSale, AddToCart(u, r)  PROVE Sales'
    <2> r \in Runs
      BY RunsAssumption
    <2>1. PICK b : b = [items |-> {r}, code |-> NoCode]
      OBVIOUS
    <2>2. basket' = [basket EXCEPT ![u] = b] /\ b.items = {r}
      BY <1>3, <2>1 DEF AddToCart, UsualOperation
    <2> QED  BY <1>2, <1>3, <2>2 DEF AddToCart
  <1>4. CASE ClearBasket(u)
    <2>1. PICK b : b = EmptyBasket
      OBVIOUS
    <2>2. basket' = [basket EXCEPT ![u] = b] /\ b.items = {}
      BY <1>4, <2>1 DEF ClearBasket, EmptyBasket
    <2> QED  BY <1>2, <1>4, <2>2 DEF ClearBasket
  <1>5. ASSUME NEW c, basket' = [basket EXCEPT ![u].code = c],
               UNCHANGED <<order, trans, paidRun, attempt, refunds, proc, cleared>>
        PROVE  Sales'
    <2>1. PICK b : b = [basket[u] EXCEPT !.code = c]
      OBVIOUS
    <2>2. basket' = [basket EXCEPT ![u] = b] /\ b.items = basket[u].items
      BY <1>5, <2>1 DEF TypeOK, Baskets
    <2> QED  BY <1>2, <1>5, <2>2
  <1>6. ASSUME NEW d \in Codes, RedeemDiscount(u, d)  PROVE Sales'
    BY <1>5, <1>6 DEF RedeemDiscount
  <1>7. CASE CheckoutDropsDiscount(u)
    BY <1>5, <1>7 DEF CheckoutDropsDiscount
  <1> QED  BY <1>1, <1>3, <1>4, <1>6, <1>7 DEF Learner

LEMMA GatewaySales ==
  ASSUME TypeOK, Sales, NEW a \in Attempts, PaymentOutcome(a) \/ Callback(a)
  PROVE  Sales'
  <1>0. /\ attempt[a].status # "unused"
        /\ attempt[a].order \in OrderIds /\ order[attempt[a].order].state # "absent"
    <2>1. attempt[a].status # "unused"
      BY DEF PaymentOutcome, Callback, CallbackAccepted, CallbackDeclined,
             CallbackFailed, CallbackPending
    <2> QED  BY <2>1 DEF TypeOK, Sales, AbsentUnknown
  <1>1. CASE PaymentOutcome(a)
    <2>1. PICK s : attempt' = [attempt EXCEPT ![a].status = s]
      BY <1>1 DEF PaymentOutcome
    <2>2. \A b \in Attempts : attempt'[b].status # "unused" =>
             attempt[b].status # "unused" /\ attempt'[b].order = attempt[b].order
      BY <1>0, <2>1 DEF TypeOK
    <2>3. BasketsKept /\ RowsStay
      BY <1>1 DEF PaymentOutcome, BasketsKept, RowsStay
    <2> QED  BY <1>1, <2>2, <2>3, TablesSame DEF PaymentOutcome
  <1>2. CASE CallbackAccepted(a)
    <2>1. PICK o, total, id : /\ o = attempt[a].order /\ total = order[o].total
                              /\ id = Id("callback", a)
      OBVIOUS
    <2>2. /\ FulfillAtomically(o, total, id) /\ UNCHANGED <<attempt, refunds, proc, cleared>>
      BY <1>2, <2>1 DEF CallbackAccepted
    <2> QED  BY <1>0, <2>1, <2>2, FulfillAtomicallySales
  <1>3. CASE CallbackDeclined(a) \/ CallbackFailed(a)
    <2>1. PICK o \in OrderIds : o = attempt[a].order
      BY <1>0
    <2>2. PICK s \in {"declined", "errored", "canceled"} :
            /\ order'[o].state = s /\ order'[o].lines = order[o].lines
            /\ order'[o].user = order[o].user
            /\ \A x \in OrderIds : x # o => order'[x] = order[x]
      <3>1. order[o] \in OrderRows
        BY DEF TypeOK
      <3>2. CASE CallbackDeclined(a)
        <4>1. order' = [order EXCEPT ![o] = [@ EXCEPT !.state = "declined", !.code = NoCode]]
          BY <2>1, <3>2 DEF CallbackDeclined
        <4> QED  BY <3>1, <4>1 DEF TypeOK, OrderRows
      <3>3. CASE CallbackFailed(a)
        <4>1. PICK s \in {"errored", "canceled"} : order' = [order EXCEPT ![o].state = s]
          BY <2>1, <3>3 DEF CallbackFailed
        <4> QED  BY <3>1, <4>1 DEF TypeOK, OrderRows
      <3> QED  BY <1>3, <3>2, <3>3
    <2>3. UNCHANGED <<basket, trans, paidRun, refunds, attempt, proc, cleared>>
      BY <1>3 DEF CallbackDeclined, CallbackFailed
    <2>4. RowsKept /\ BasketsKept /\ RowsStay
      BY <1>0, <2>1, <2>2, <2>3 DEF RowsKept, BasketsKept, RowsStay
    <2>5. \A x \in OrderIds : Sold(x)' => Sold(x)
      BY <2>2, <2>3 DEF Sold, Returning
    <2> QED  BY <2>3, <2>4, <2>5, SalesKept
  <1> QED  BY <1>1, <1>2, <1>3 DEF Callback

LEMMA WebhookSales ==
  ASSUME TypeOK, Sales, NEW p \in Procs, NEW a \in Attempts, Webhook(p, a)
  PROVE  Sales'
  <1>1. attempt[a].status # "unused"
    BY DEF Webhook, ProcessStripeCheckoutCompleted, ProcessStripeCheckoutExpired
  <1>2. PICK o \in OrderIds : o = attempt[a].order /\ order[o].state # "absent"
    BY <1>1 DEF TypeOK, Sales, AbsentUnknown
  <1>3. \E pc \in {"record", "cancel"} : \E id : Load(p, pc, o, id)
    BY <1>2 DEF Webhook, ProcessStripeCheckoutCompleted, ProcessStripeCheckoutExpired
  <1> QED  BY <1>2, <1>3, LoadSales

(* The staff operations left only load an order.                           *)
LEMMA StaffLoads ==
  ASSUME UsualOperation, NEW o \in OrderIds, StaffMember(o)
  PROVE  \E p \in Procs, pc \in {"record", "cancel", "refund"} : \E id :
           /\ Load(p, pc, o, id) /\ order[o].state \in {"pending", "fulfilled"}
           /\ pc = "refund" => order[o].state = "fulfilled"
  <1> SUFFICES ASSUME NEW p \in Procs,
                      \/ ResolvePendingOrder(p, o) \/ ForceFulfill(p, o)
                      \/ RefundOrder(p, o) \/ RefundFulfilledOrder(p, o)
               PROVE  \E pc \in {"record", "cancel", "refund"} : \E id :
                        /\ Load(p, pc, o, id) /\ order[o].state \in {"pending", "fulfilled"}
                        /\ pc = "refund" => order[o].state = "fulfilled"
    BY DEF StaffMember
  <1>1. ~RefundFulfilledOrder(p, o)
    BY DEF RefundFulfilledOrder, UsualOperation
  <1>2. CASE ResolvePendingOrder(p, o)
    BY <1>2 DEF ResolvePendingOrder, UsualOperation
  <1>3. CASE ForceFulfill(p, o)
    BY <1>3 DEF ForceFulfill, UsualOperation
  <1>4. CASE RefundOrder(p, o)
    BY <1>4 DEF RefundOrder
  <1> QED  BY <1>1, <1>2, <1>3, <1>4

LEMMA StaffSales ==
  ASSUME UsualOperation, TypeOK, Sales, NEW o \in OrderIds, StaffMember(o)
  PROVE  Sales'
  <1>1. PICK p \in Procs, pc \in {"record", "cancel", "refund"} : \E id :
           /\ Load(p, pc, o, id) /\ order[o].state \in {"pending", "fulfilled"}
           /\ pc = "refund" => order[o].state = "fulfilled"
    BY StaffLoads
  <1> QED  BY <1>1, LoadSales

(* refund_fulfilled_order is not in use.                                   *)
LEMMA NoRefundCommand ==
  ASSUME Sales, NEW p \in Procs
  PROVE  /\ ~SaveRefunded(p) /\ ~RefundCommandDone(p) /\ ~DeletePaidCourseRuns(p)
         /\ \A r \in Runs : ~AdjustEnrollment(p, r)
  <1>1. proc[p].pc \in UsualStates
    BY DEF Sales, HandlerDelivers
  <1> QED  BY <1>1 DEF UsualStates, SaveRefunded, RefundCommandDone, DeletePaidCourseRuns,
                       AdjustEnrollment

LEMMA StepSales ==
  ASSUME TypeOK, Sales, NEW p \in Procs, Step(p) \/ Crash(p)
  PROVE  Sales'
  <1>1. CASE CheckoutZero(p)
    <2>1. PICK o, total, id : o = proc[p].order /\ total = proc[p].total /\ id = Generated
      OBVIOUS
    <2>2. o \in OrderIds /\ order[o].state # "absent"
      BY <1>1, <2>1, HeldRow DEF CheckoutZero
    <2>3. FulfillAtomically(o, total, id) /\ UNCHANGED <<attempt, refunds, cleared>>
      BY <1>1, <2>1 DEF CheckoutZero
    <2>4. \A q \in Procs : proc'[q] = proc[q] \/ proc'[q] = Idle
      BY <1>1 DEF CheckoutZero, TypeOK
    <2> QED  BY <2>2, <2>3, <2>4, FulfillAtomicallySales
  <1>2. CASE \/ CheckoutZeroFails(p) \/ LogSession(p) \/ PaidCourseRunExists(p)
             \/ DeleteBasket(p) \/ Crash(p)
    BY <1>2, PlainEndSales
  <1>3. CASE CancelOrder(p) \/ SaveRefund(p)
    BY <1>3, SavedEndSales
  <1>9. CASE RecordCancellation(p) \/ RecordRefund(p)
    BY <1>9, RecordedSales
  <1>4. CASE \E a \in Attempts : StartPayment(p, a)
    BY <1>4, StartPaymentSales
  <1>5. CASE \E r \in Runs : EnrollLine(p, r)
    BY <1>5, EnrollLineSales
  <1>6. CASE CreateTransaction(p)
    BY <1>6, CreateTransactionSales
  <1>7. CASE CreatePaidCourseRun(p) \/ SaveFulfilled(p)
    BY <1>7, CreatePaidCourseRunSales, SaveFulfilledSales
  <1>8. CASE StartRefund(p)
    BY <1>8, StartRefundSales
  <1> QED  BY <1>1, <1>2, <1>3, <1>4, <1>5, <1>6, <1>7, <1>8, <1>9, NoRefundCommand
           DEF Step

(* An enrollment request keeps the orders; a PaidCourseRun it takes is     *)
(* remembered.                                                             *)
LEMMA EnrollmentRows ==
  ASSUME Enrollments
  PROVE  RowsStay
  <1>1. ASSUME NEW u \in Users, EnrollmentChange(u)  PROVE UNCHANGED <<paidRun, cleared>>
    BY <1>1 DEF EnrollmentChange, Unenroll, DeferEnrollment, StartEnrolling, EnrollAgain,
                SyncEnrollment
  <1>2. ASSUME NEW e \in enrolling, EnrollStep(e)  PROVE RowsStay
    <2>1. CASE Deactivate(e) \/ EnrollDeferred(e) \/ EnrollRequestFails(e)
      BY <2>1 DEF Deactivate, EnrollDeferred, EnrollRequestFails, RowsStay
    <2>2. CASE ClearPayments(e)
      BY <2>2 DEF ClearPayments, ClearRows, RowsStay
    <2>3. CASE ChangePaymentToRun(e)
      BY <2>3 DEF ChangePaymentToRun, RowsStay
    <2> QED  BY <1>2, <2>1, <2>2, <2>3 DEF EnrollStep
  <1> QED  BY <1>1, <1>2 DEF Enrollments, RowsStay

LEMMA NextSales == UsualOperation /\ TypeOK /\ Sales /\ [Next]_vars => Sales'
  <1> SUFFICES ASSUME UsualOperation, TypeOK, Sales, [Next]_vars  PROVE Sales'
    OBVIOUS
  <1>1. CASE RowsStay /\ UNCHANGED <<basket, order, trans, attempt, refunds, proc>>
    <2>1. BasketsKept
      BY <1>1 DEF BasketsKept
    <2> QED  BY <1>1, <2>1, TablesSame
  <1>2. CASE Enrollments
    BY <1>1, <1>2, EnrollmentRows, EnrollmentsFrame
  <1>3. ASSUME NEW o \in OrderIds, DowngradeLearnerFromOrder(o)  PROVE Sales'
    BY <1>1, <1>3 DEF DowngradeLearnerFromOrder, RowsStay
  <1>4. CASE UNCHANGED vars
    BY <1>1, <1>4 DEF vars, RowsStay
  <1> QED  BY <1>2, <1>3, <1>4, LearnerSales, GatewaySales, WebhookSales, StepSales, StaffSales
           DEF Next, Enrollments

LEMMA InitSales == Init => Sales
  <1> SUFFICES ASSUME Init  PROVE Sales
    OBVIOUS
  <1>1. SingleItems
    BY DEF Init, SingleItems, EmptyBasket, AbsentOrder
  <1>2. AbsentUnknown
    BY DEF Init, AbsentUnknown, Idle
  <1>3. \A p \in Procs : HandlerDelivers(p)
    BY DEF Init, HandlerDelivers, UsualStates, Idle
  <1>4. \A o \in OrderIds : ~Sold(o) /\ \A p \in Procs : ~Finishing(p, o)
    BY DEF Init, Sold, Returning, ReturnStates, Finishing, Idle, AbsentOrder
  <1> QED  BY <1>1, <1>2, <1>3, <1>4 DEF Sales, SoldOnce

(* An order becomes fulfilled only if it never was before.                 *)
LEMMA FulfilledOnce ==
  ASSUME UsualOperation, TypeOK, Sales, Next, NEW o \in OrderIds,
         order[o].state # "fulfilled", order'[o].state = "fulfilled"
  PROVE  Kept(o) => ~Sold(o)
  <1> SUFFICES ASSUME Kept(o)  PROVE ~Sold(o)
    OBVIOUS
  <1>1. CASE UNCHANGED order
    BY <1>1
  <1>2. ASSUME NEW p \in Procs, NEW u \in Users, NEW g \in Gateways, Checkout(p, u, g)
        PROVE  FALSE
    BY <1>2, CheckoutRow
  <1>3. ASSUME NEW x \in OrderIds, order[x].state # "absent", NEW total, NEW id,
               FulfillAtomically(x, total, id)
        PROVE  ~Sold(o)
    <2>1. /\ \A r \in order[x].lines : <<x, r>> \notin paidRun
          /\ order' = [order EXCEPT ![x] = [@ EXCEPT !.state = "fulfilled", !.total = total]]
      BY <1>3 DEF FulfillAtomically
    <2>2. x = o
      BY <2>1 DEF TypeOK
    <2>3. ~Delivered(o)
      BY <1>3, <2>1, <2>2 DEF Delivered, Kept, Sales, SingleItems
    <2> QED  BY <2>3, NobodyYet
  <1>4. ASSUME NEW a \in Attempts, Callback(a)  PROVE ~Sold(o)
    <2>1. /\ attempt[a].order \in OrderIds /\ order[attempt[a].order].state # "absent"
      BY <1>4 DEF Callback, CallbackAccepted, CallbackDeclined, CallbackFailed,
                  CallbackPending, TypeOK
    <2>2. CASE CallbackAccepted(a)
      <3>1. PICK x, total, id : /\ x = attempt[a].order /\ total = order[x].total
                                /\ id = Id("callback", a)
        OBVIOUS
      <3>2. FulfillAtomically(x, total, id)
        BY <2>2, <3>1 DEF CallbackAccepted
      <3> QED  BY <1>3, <2>1, <3>1, <3>2
    <2>3. CASE CallbackDeclined(a)
      BY <2>1, <2>3 DEF CallbackDeclined, TypeOK, OrderRows
    <2>4. CASE CallbackFailed(a)
      BY <2>1, <2>4 DEF CallbackFailed, TypeOK, OrderRows
    <2> QED  BY <1>4, <2>2, <2>3, <2>4 DEF Callback
  <1>5. ASSUME NEW p \in Procs, CheckoutZero(p)  PROVE ~Sold(o)
    <2>1. PICK x, total, id : x = proc[p].order /\ total = proc[p].total /\ id = Generated
      OBVIOUS
    <2>2. x \in OrderIds /\ order[x].state # "absent"
      BY <1>5, <2>1, HeldRow DEF CheckoutZero
    <2>3. FulfillAtomically(x, total, id)
      BY <1>5, <2>1 DEF CheckoutZero
    <2> QED  BY <1>3, <2>2, <2>3
  <1>6. ASSUME NEW p \in Procs, CancelOrder(p) \/ SaveRefund(p)  PROVE FALSE
    <2>1. PICK s \in {"canceled", "refunded"} : Save(p, s)
      BY <1>6 DEF CancelOrder, SaveRefund
    <2>2. /\ proc[p].pc # "idle" /\ refunds' = refunds /\ s \in OrderStatus
          /\ \A x \in OrderIds : x # proc[p].order => trans'[x] = trans[x]
      BY <1>6, <2>1 DEF CancelOrder, SaveRefund, TypeOK, OrderStatus
    <2> QED  BY <2>1, <2>2, SaveRows
  <1>7. ASSUME NEW p \in Procs, SaveFulfilled(p)  PROVE ~Sold(o)
    <2>1. /\ Save(p, "fulfilled") /\ proc[p].pc # "idle" /\ UNCHANGED <<trans, refunds>>
      BY <1>7 DEF SaveFulfilled
    <2>2. proc[p].order = o
      BY <2>1, SaveRows DEF OrderStatus
    <2>3. Finishing(p, o)
      BY <1>7, <2>1, <2>2, HeldRow DEF SaveFulfilled, Finishing, UsualStates
    <2> QED  BY <2>3 DEF Sales, SoldOnce
  <1>8. ASSUME NEW p \in Procs, Step(p) \/ Crash(p)  PROVE ~Sold(o) \/ UNCHANGED order
    BY <1>5, <1>6, <1>7, <1>8, NoRefundCommand
    DEF Step, Crash, CheckoutZeroFails, StartPayment, LogSession, CreateTransaction, EnrollLine,
        CreatePaidCourseRun, PaidCourseRunExists, DeleteBasket, StartRefund, RecordRefund,
        RecordCancellation
  <1>9. ASSUME NEW x \in OrderIds, StaffMember(x)  PROVE UNCHANGED order
    BY <1>9, StaffLoads DEF Load
  <1>10. ASSUME NEW p \in Procs, NEW a \in Attempts, Webhook(p, a)  PROVE UNCHANGED order
    BY <1>10 DEF Webhook, ProcessStripeCheckoutCompleted, ProcessStripeCheckoutExpired, Load
  <1>11. CASE Enrollments
    BY <1>1, <1>11, EnrollmentsFrame
  <1> QED  BY <1>1, <1>2, <1>4, <1>8, <1>9, <1>10, <1>11
           DEF Next, Learner, AddToCart, ClearBasket, RedeemDiscount, CheckoutDropsDiscount,
               PaymentOutcome, DowngradeLearnerFromOrder, Enrollments

(* With one item per basket, and neither refund_fulfilled_order nor        *)
(* --no-fulfillment in use, an order that was refunded is fulfilled again  *)
(* only after an unenrolment deleted its PaidCourseRun or a deferral moved *)
(* it, however many handlers loaded it while it was pending: until then    *)
(* the unique key lets one of them reach order.save(), and that one is     *)
(* done before a refund can start.                                         *)
THEOREM RefundIsFinal == UsualOperation => (Spec => RefundedNotFulfilledAgain)
  <1> SUFFICES ASSUME UsualOperation  PROVE Spec => RefundedNotFulfilledAgain
    OBVIOUS
  <1>1. TypeOK /\ Sales /\ [Next]_vars =>
          [\A o \in OrderIds :
              order[o].state = "refunded" /\ order'[o].state = "fulfilled" =>
                  \E r \in order[o].lines : <<o, r>> \in cleared]_vars
    <2> SUFFICES ASSUME TypeOK, Sales, [Next]_vars, NEW o \in OrderIds,
                        order[o].state = "refunded", order'[o].state = "fulfilled"
                 PROVE  ~Kept(o)
      BY DEF Kept
    <2>1. Sold(o)
      BY DEF Sold
    <2> QED  BY <2>1, FulfilledOnce DEF vars
  <1>2. TypeOK /\ Sales /\ [Next]_vars => Sales'
    BY NextSales
  <1> QED  BY <1>1, <1>2, InitSales, TypeCorrect, PTL DEF Spec, RefundedNotFulfilledAgain

(* Handlers that start no refund and lose none.                            *)
HandlersKept ==
    \A q \in Procs : \/ proc'[q] = proc[q]
                     \/ /\ proc'[q].pc # "refund"
                        /\ proc[q].pc \notin {"refunded", "save_refund"}

LEMMA CountsAreNat ==
  ASSUME TypeOK, NEW o \in OrderIds
  PROVE  /\ IsFiniteSet(About(o)) /\ Cardinality(About(o)) \in Nat
         /\ IsFiniteSet(Done(o)) /\ Cardinality(Done(o)) \in Nat
         /\ Cardinality(Procs) \in Nat
         /\ refunds[o] \in Nat /\ crashes \in Nat
  <1>1. About(o) \subseteq Procs /\ Done(o) \subseteq Procs
    BY DEF About, Done
  <1>2. IsFiniteSet(About(o)) /\ IsFiniteSet(Done(o))
    BY <1>1, ProcsAssumption, FS_Subset
  <1>3. refunds[o] \in Nat /\ crashes \in Nat
    BY BoundsAssumption DEF TypeOK
  <1> QED  BY <1>2, <1>3, ProcsAssumption, FS_CardinalityType

(* The order's refunds do not change and none is lost.                     *)
LEMMA CountedFrame ==
  ASSUME TypeOK, NEW o \in OrderIds, RefundsCounted(o), HandlersKept,
         refunds'[o] = refunds[o], crashes' = crashes,
         order'[o].state = "fulfilled" => order[o].state = "fulfilled" \/ refunds[o] = 0
  PROVE  RefundsCounted(o)'
  <1>1. About(o)' \subseteq About(o) /\ Done(o) \subseteq Done(o)'
    BY DEF About, Done, HandlersKept
  <1>2. /\ Cardinality(About(o)') <= Cardinality(About(o)) /\ Cardinality(About(o)') \in Nat
        /\ Cardinality(Done(o)) <= Cardinality(Done(o)') /\ Cardinality(Done(o)') \in Nat
    <2>0. Done(o)' \subseteq Procs
      BY DEF Done
    <2>1. IsFiniteSet(About(o)) /\ IsFiniteSet(Done(o)')
      BY <2>0, CountsAreNat, ProcsAssumption, FS_Subset
    <2>2. /\ Cardinality(About(o)') <= Cardinality(About(o))
          /\ Cardinality(Done(o)) <= Cardinality(Done(o)')
      BY <1>1, <2>1, FS_Subset
    <2>3. IsFiniteSet(About(o)')
      BY <1>1, <2>1, FS_Subset
    <2> QED  BY <2>1, <2>2, <2>3, FS_CardinalityType
  <1>3. /\ Cardinality(About(o)) \in Nat /\ Cardinality(Done(o)) \in Nat
        /\ Cardinality(Procs) \in Nat /\ refunds[o] \in Nat /\ crashes \in Nat
    BY CountsAreNat
  <1> QED  BY <1>2, <1>3 DEF RefundsCounted

(* A request that loads a fulfilled order to refund it: with those that    *)
(* have returned its money it is one process each.                         *)
LEMMA LoadCounted ==
  ASSUME TypeOK, NEW p \in Procs, NEW o \in OrderIds, NEW x \in OrderIds,
         NEW id, Load(p, "refund", x, id), order[x].state = "fulfilled", RefundsCounted(o)
  PROVE  RefundsCounted(o)'
  <1>1. /\ proc[p] = Idle /\ proc'[p].pc = "refund" /\ proc'[p].order = x
        /\ \A q \in Procs : q # p => proc'[q] = proc[q]
        /\ UNCHANGED <<order, refunds, crashes>>
    BY DEF Load, TypeOK
  <1>2. proc[p].pc = "idle"
    BY <1>1 DEF Idle
  <1>3. CASE o # x
    <2>1. About(o)' = About(o) /\ Done(o)' = Done(o)
      BY <1>1, <1>2, <1>3 DEF About, Done
    <2> QED  BY <1>1, <2>1 DEF RefundsCounted
  <1>4. CASE o = x
    <2>1. Done(o)' = Done(o) /\ About(o)' \subseteq Procs \ Done(o)
      BY <1>1, <1>2 DEF About, Done
    <2>2. /\ Cardinality(Done(o)) \in Nat /\ Cardinality(Procs) \in Nat
          /\ refunds[o] \in Nat /\ crashes \in Nat /\ IsFiniteSet(Done(o))
      BY CountsAreNat
    <2>3. Cardinality(About(o)') \in Nat
      <3>1. IsFiniteSet(About(o)')
        BY <2>1, ProcsAssumption, FS_Subset
      <3> QED  BY <3>1, FS_CardinalityType
    <2>4. Done(o) \subseteq Procs
      BY DEF Done
    <2>5. /\ IsFiniteSet(Procs \ Done(o))
          /\ Cardinality(Procs \ Done(o)) = Cardinality(Procs) - Cardinality(Procs \cap Done(o))
      BY ProcsAssumption, FS_Difference
    <2>6. Procs \cap Done(o) = Done(o)
      BY <2>4
    <2>7. Cardinality(About(o)') <= Cardinality(Procs \ Done(o))
      BY <2>1, <2>5, FS_Subset
    <2>8. Cardinality(About(o)') + Cardinality(Done(o)) <= Cardinality(Procs)
      <3>1. Cardinality(Procs \ Done(o)) = Cardinality(Procs) - Cardinality(Done(o))
        BY <2>5, <2>6
      <3> QED  BY <2>2, <2>3, <2>7, <3>1
    <2>9. refunds[o] <= Cardinality(Done(o)) + crashes
      BY <1>4 DEF RefundsCounted
    <2> QED  BY <1>1, <1>4, <2>1, <2>2, <2>3, <2>8, <2>9 DEF RefundsCounted
  <1> QED  BY <1>3, <1>4

LEMMA StartRefundCounted ==
  ASSUME TypeOK, NEW p \in Procs, NEW o \in OrderIds, StartRefund(p), RefundsCounted(o)
  PROVE  RefundsCounted(o)'
  <1>1. proc[p].pc = "refund" /\ UNCHANGED <<order, crashes>>
    BY DEF StartRefund
  <1>2. CASE proc' = [proc EXCEPT ![p] = Idle] /\ UNCHANGED refunds
    <2>1. Idle.pc = "idle"
      BY DEF Idle
    <2>2. HandlersKept
      BY <1>1, <1>2, <2>1 DEF HandlersKept, TypeOK
    <2> QED  BY <1>1, <1>2, <2>2, CountedFrame
  <1>3. CASE /\ refunds' = [refunds EXCEPT ![proc[p].order] = @ + 1]
             /\ proc' = [proc EXCEPT ![p].pc = "refunded"]
    <2>1. /\ proc'[p].pc = "refunded" /\ proc'[p].order = proc[p].order
          /\ \A q \in Procs : q # p => proc'[q] = proc[q]
      BY <1>3 DEF TypeOK, Handlers
    <2>2. CASE o # proc[p].order
      <3>1. About(o)' = About(o) /\ Done(o)' = Done(o)
        BY <1>1, <2>1, <2>2 DEF About, Done
      <3>2. refunds'[o] = refunds[o]
        BY <1>3, <2>2 DEF TypeOK
      <3> QED  BY <1>1, <3>1, <3>2 DEF RefundsCounted
    <2>3. CASE o = proc[p].order
      <3>1. /\ About(o)' = About(o) \ {p} /\ p \in About(o)
            /\ Done(o)' = Done(o) \cup {p} /\ p \notin Done(o)
        BY <1>1, <2>1, <2>3 DEF About, Done
      <3>2. refunds'[o] = refunds[o] + 1
        BY <1>3, <2>3 DEF TypeOK
      <3>3. /\ Cardinality(About(o)) \in Nat /\ Cardinality(Done(o)) \in Nat
            /\ IsFiniteSet(About(o)) /\ IsFiniteSet(Done(o))
            /\ Cardinality(Procs) \in Nat /\ refunds[o] \in Nat /\ crashes \in Nat
        BY CountsAreNat
      <3>4. Cardinality(About(o) \ {p}) = Cardinality(About(o)) - 1
        BY <3>1, <3>3, FS_RemoveElement
      <3>5. Cardinality(Done(o) \cup {p}) = Cardinality(Done(o)) + 1
        BY <3>1, <3>3, FS_AddElement
      <3> QED  BY <1>1, <3>1, <3>2, <3>3, <3>4, <3>5 DEF RefundsCounted
    <2> QED  BY <2>2, <2>3
  <1> QED  BY <1>2, <1>3 DEF StartRefund

(* A request that dies after the money went is paid for by the crash.      *)
LEMMA CrashCounted ==
  ASSUME TypeOK, NEW p \in Procs, NEW o \in OrderIds, Crash(p), RefundsCounted(o)
  PROVE  RefundsCounted(o)'
  <1>1. crashes' = crashes + 1 /\ UNCHANGED <<order, refunds>>
    BY DEF Crash
  <1>2. proc'[p].pc = "idle" /\ \A q \in Procs : q # p => proc'[q] = proc[q]
    BY DEF Crash, TypeOK, Idle
  <1>3. About(o)' \subseteq About(o) /\ Done(o)' = Done(o) \ {p}
    BY <1>2 DEF About, Done
  <1>4. /\ Cardinality(About(o)) \in Nat /\ Cardinality(Done(o)) \in Nat
        /\ IsFiniteSet(About(o)) /\ IsFiniteSet(Done(o))
        /\ Cardinality(Procs) \in Nat /\ refunds[o] \in Nat /\ crashes \in Nat
    BY CountsAreNat
  <1>5. Cardinality(About(o)') <= Cardinality(About(o)) /\ Cardinality(About(o)') \in Nat
    <2>1. Cardinality(About(o)') <= Cardinality(About(o)) /\ IsFiniteSet(About(o)')
      BY <1>3, <1>4, FS_Subset
    <2> QED  BY <2>1, FS_CardinalityType
  <1>6. Cardinality(Done(o)) <= Cardinality(Done(o) \ {p}) + 1
        /\ Cardinality(Done(o) \ {p}) \in Nat
    <2>1. CASE p \in Done(o)
      <3>1. Cardinality(Done(o) \ {p}) = Cardinality(Done(o)) - 1 /\ IsFiniteSet(Done(o) \ {p})
        BY <1>4, <2>1, FS_RemoveElement
      <3>2. Cardinality(Done(o) \ {p}) \in Nat
        BY <3>1, FS_CardinalityType
      <3> QED  BY <1>4, <3>1, <3>2
    <2>2. CASE p \notin Done(o)
      <3>1. Done(o) \ {p} = Done(o)
        BY <2>2
      <3> QED  BY <1>4, <3>1
    <2> QED  BY <2>1, <2>2
  <1> QED  BY <1>1, <1>3, <1>4, <1>5, <1>6 DEF RefundsCounted

LEMMA MoveKept ==
  ASSUME TypeOK, NEW p \in Procs, NEW k, proc' = [proc EXCEPT ![p] = k],
         k.pc # "refund", proc[p].pc \notin {"refunded", "save_refund"}
  PROVE  HandlersKept
  BY DEF HandlersKept, TypeOK

(* How a running request moves on: only enrolling leads to "paid", and only *)
(* recording a refund to "save_refund".                                    *)
LEMMA StepMoves ==
  ASSUME TypeOK, Sales, NEW p \in Procs, Step(p)
  PROVE  \E k : /\ proc' = [proc EXCEPT ![p] = k] /\ k.pc # "refund"
                /\ k.pc = "paid" => \E r \in Runs : EnrollLine(p, r)
                /\ k.pc = "save_refund" => RecordRefund(p)
  <1>0. Idle.pc = "idle" /\ proc[p] \in Handlers
    BY DEF Idle, TypeOK
  <1>1. ASSUME NEW k, proc' = [proc EXCEPT ![p] = k],
               k.pc \in {"idle", "log", "lines", "save", "basket", "save_cancel", "refunded"}
        PROVE  \E x : /\ proc' = [proc EXCEPT ![p] = x] /\ x.pc # "refund"
                      /\ x.pc = "paid" => \E r \in Runs : EnrollLine(p, r)
                      /\ x.pc = "save_refund" => RecordRefund(p)
    BY <1>1
  <1>2. CASE \/ CheckoutZero(p) \/ CheckoutZeroFails(p) \/ LogSession(p) \/ CancelOrder(p)
             \/ PaidCourseRunExists(p) \/ DeleteBasket(p) \/ SaveRefund(p)
    <2>1. proc' = [proc EXCEPT ![p] = Idle]
      BY <1>2 DEF CheckoutZero, CheckoutZeroFails, LogSession, CancelOrder,
                  PaidCourseRunExists, DeleteBasket, SaveRefund
    <2> QED  BY <1>0, <1>1, <2>1
  <1>3. ASSUME NEW a \in Attempts, StartPayment(p, a)
        PROVE  \E k : /\ proc' = [proc EXCEPT ![p] = k] /\ k.pc # "refund"
                      /\ k.pc = "paid" => \E r \in Runs : EnrollLine(p, r)
                      /\ k.pc = "save_refund" => RecordRefund(p)
    <2>1. PICK k : k = IF order[proc[p].order].gateway = "stripe"
                       THEN [proc[p] EXCEPT !.pc = "log", !.id = Id("session", a)] ELSE Idle
      OBVIOUS
    <2>2. k.pc \in {"log", "idle"}
      BY <1>0, <2>1 DEF Handlers
    <2>3. proc' = [proc EXCEPT ![p] = k]
      BY <1>3, <2>1 DEF StartPayment
    <2> QED  BY <1>1, <2>2, <2>3
  <1>4. CASE CreateTransaction(p)
    <2>1. PICK k : k = IF proc[p].pc = "record"
                       THEN [proc[p] EXCEPT !.pc = "lines", !.todo = order[proc[p].order].lines]
                       ELSE [proc[p] EXCEPT !.pc = "save"]
      OBVIOUS
    <2>2. k.pc \in {"lines", "save"}
      BY <1>0, <2>1 DEF Handlers
    <2>3. proc' = [proc EXCEPT ![p] = k]
      BY <1>4, <2>1 DEF CreateTransaction
    <2> QED  BY <1>1, <2>2, <2>3
  <1>5. ASSUME NEW r \in Runs, EnrollLine(p, r)
        PROVE  \E k : /\ proc' = [proc EXCEPT ![p] = k] /\ k.pc # "refund"
                      /\ k.pc = "paid" => \E x \in Runs : EnrollLine(p, x)
                      /\ k.pc = "save_refund" => RecordRefund(p)
    <2>1. PICK k : k = [proc[p] EXCEPT !.pc = "paid", !.todo = proc[p].todo \ {r}, !.line = {r}]
      OBVIOUS
    <2>2. k.pc = "paid"
      BY <1>0, <2>1 DEF Handlers
    <2>3. proc' = [proc EXCEPT ![p] = k]
      BY <1>5, <2>1 DEF EnrollLine
    <2> QED  BY <1>5, <2>2, <2>3
  <1>6. CASE CreatePaidCourseRun(p)
    <2>1. PICK k : k = [proc[p] EXCEPT !.pc = "lines", !.line = {}]
      OBVIOUS
    <2>2. k.pc = "lines"
      BY <1>0, <2>1 DEF Handlers
    <2>3. proc' = [proc EXCEPT ![p] = k]
      BY <1>6, <2>1 DEF CreatePaidCourseRun
    <2> QED  BY <1>1, <2>2, <2>3
  <1>7. CASE SaveFulfilled(p)
    <2>1. PICK k : k = IF proc[p].id.kind = "event" THEN [proc[p] EXCEPT !.pc = "basket"]
                       ELSE Idle
      OBVIOUS
    <2>2. k.pc \in {"basket", "idle"}
      BY <1>0, <2>1 DEF Handlers
    <2>3. proc' = [proc EXCEPT ![p] = k]
      BY <1>7, <2>1 DEF SaveFulfilled
    <2> QED  BY <1>1, <2>2, <2>3
  <1>8. CASE StartRefund(p)
    <2>1. PICK k : k = [proc[p] EXCEPT !.pc = "refunded"]
      OBVIOUS
    <2>2. k.pc = "refunded"
      BY <1>0, <2>1 DEF Handlers
    <2>3. proc' = [proc EXCEPT ![p] = k] \/ proc' = [proc EXCEPT ![p] = Idle]
      BY <1>8, <2>1 DEF StartRefund
    <2> QED  BY <1>0, <1>1, <2>2, <2>3
  <1>9. CASE RecordCancellation(p) \/ RecordRefund(p)
    <2>1. PICK pc \in {"save_cancel", "save_refund"} :
             /\ proc' = [proc EXCEPT ![p].pc = pc]
             /\ pc = "save_refund" => RecordRefund(p)
      BY <1>9 DEF RecordCancellation, RecordRefund
    <2>2. PICK k : k = [proc[p] EXCEPT !.pc = pc]
      OBVIOUS
    <2>3. k.pc = pc /\ proc' = [proc EXCEPT ![p] = k]
      BY <1>0, <2>1, <2>2 DEF Handlers
    <2> QED  BY <2>1, <2>3
  <1> QED  BY <1>2, <1>3, <1>4, <1>5, <1>6, <1>7, <1>8, <1>9, NoRefundCommand DEF Step

LEMMA StepKeepsHandlers ==
  ASSUME TypeOK, Sales, NEW p \in Procs, Step(p), ~StartRefund(p), ~RecordRefund(p),
         ~SaveRefund(p)
  PROVE  HandlersKept /\ UNCHANGED <<refunds, crashes>>
  <1>1. proc[p].pc \notin {"refunded", "save_refund"} /\ UNCHANGED <<refunds, crashes>>
    BY NoRefundCommand
    DEF Step, CheckoutZero, CheckoutZeroFails, StartPayment, LogSession, CancelOrder,
        CreateTransaction, EnrollLine, CreatePaidCourseRun, PaidCourseRunExists,
        SaveFulfilled, DeleteBasket, RecordCancellation
  <1> QED  BY <1>1, StepMoves, MoveKept

LEMMA NextCounted ==
  ASSUME UsualOperation, TypeOK, Sales, Next, NEW o \in OrderIds, Kept(o), RefundsCounted(o)
  PROVE  RefundsCounted(o)'
  <1>0. Idle.pc = "idle"
    BY DEF Idle
  <1>1. order'[o].state = "fulfilled" => order[o].state = "fulfilled" \/ refunds[o] = 0
    <2>1. ~Sold(o) => refunds[o] = 0
      BY CountsAreNat DEF Sold
    <2> QED  BY <2>1, FulfilledOnce
  <1>2. CASE HandlersKept /\ UNCHANGED <<refunds, crashes>>
    BY <1>1, <1>2, CountedFrame
  <1>10. ASSUME NEW p \in Procs, RecordRefund(p)  PROVE RefundsCounted(o)'
    <2>1. /\ proc[p].pc = "refunded" /\ UNCHANGED <<order, refunds, crashes>>
          /\ proc' = [proc EXCEPT ![p].pc = "save_refund"]
      BY <1>10 DEF RecordRefund
    <2>2. /\ proc'[p].pc = "save_refund" /\ proc'[p].order = proc[p].order
          /\ \A q \in Procs : q # p => proc'[q] = proc[q]
      BY <2>1 DEF TypeOK, Handlers
    <2>3. About(o)' = About(o) /\ Done(o)' = Done(o)
      BY <2>1, <2>2 DEF About, Done
    <2> QED  BY <2>1, <2>3 DEF RefundsCounted
  <1>3. ASSUME NEW p \in Procs, SaveRefund(p)  PROVE RefundsCounted(o)'
    <2>1. /\ proc[p].pc = "save_refund" /\ Save(p, "refunded")
          /\ UNCHANGED <<refunds, crashes>>
          /\ proc' = [proc EXCEPT ![p] = Idle]
          /\ \A x \in OrderIds : x # proc[p].order => trans'[x] = trans[x]
      BY <1>3 DEF SaveRefund, TypeOK
    <2>2. proc'[p].pc = "idle" /\ \A q \in Procs : q # p => proc'[q] = proc[q]
      BY <1>0, <2>1 DEF TypeOK
    <2>3. /\ order'[proc[p].order].state = "refunded"
          /\ \A x \in OrderIds : x # proc[p].order => order'[x] = order[x]
      BY <2>1, SaveRows DEF OrderStatus
    <2>4. About(o)' = About(o)
      BY <2>1, <2>2 DEF About
    <2>5. CASE o = proc[p].order
      BY <2>1, <2>3, <2>4, <2>5 DEF RefundsCounted
    <2>6. CASE o # proc[p].order
      <3>1. Done(o)' = Done(o)
        BY <2>2, <2>6 DEF Done
      <3> QED  BY <2>1, <2>3, <2>4, <2>6, <3>1 DEF RefundsCounted
    <2> QED  BY <2>5, <2>6
  <1>4. ASSUME NEW p \in Procs, Step(p) \/ Crash(p)  PROVE RefundsCounted(o)'
    BY <1>2, <1>3, <1>4, <1>10, StepKeepsHandlers, StartRefundCounted, CrashCounted
  <1>5. ASSUME NEW p \in Procs, NEW pc \in {"record", "cancel", "refund"}, NEW x \in OrderIds,
               NEW id, Load(p, pc, x, id), pc = "refund" => order[x].state = "fulfilled"
        PROVE  RefundsCounted(o)'
    <2>1. PICK k : k = [pc |-> pc, order |-> x, total |-> order[x].total, id |-> id,
                        todo |-> {}, line |-> {}]
      OBVIOUS
    <2>2. /\ proc' = [proc EXCEPT ![p] = k] /\ k.pc = pc /\ proc[p] = Idle
          /\ UNCHANGED <<refunds, crashes>>
      BY <1>5, <2>1 DEF Load
    <2>3. CASE pc # "refund"
      <3>1. HandlersKept
        BY <1>0, <2>2, <2>3, MoveKept
      <3> QED  BY <1>2, <2>2, <3>1
    <2>4. CASE pc = "refund"
      BY <1>5, <2>4, LoadCounted
    <2> QED  BY <2>3, <2>4
  <1>6. ASSUME NEW x \in OrderIds, StaffMember(x)  PROVE RefundsCounted(o)'
    BY <1>5, <1>6, StaffLoads
  <1>7. ASSUME NEW p \in Procs, NEW a \in Attempts, Webhook(p, a)  PROVE RefundsCounted(o)'
    <2>1. attempt[a].order \in OrderIds
      BY <1>7 DEF Webhook, ProcessStripeCheckoutCompleted, ProcessStripeCheckoutExpired, TypeOK
    <2>2. PICK x \in OrderIds : x = attempt[a].order
      BY <2>1
    <2>3. \E pc \in {"record", "cancel"} : \E id : Load(p, pc, x, id)
      BY <1>7, <2>2 DEF Webhook, ProcessStripeCheckoutCompleted, ProcessStripeCheckoutExpired
    <2> QED  BY <1>5, <2>3
  <1>8. ASSUME NEW p \in Procs, NEW u \in Users, NEW g \in Gateways, Checkout(p, u, g)
        PROVE  RefundsCounted(o)'
    <2>1. PICK k : proc' = [proc EXCEPT ![p] = k] /\ k.pc \in {"zero", "pay"}
      BY <1>8, CheckoutRow
    <2>2. UNCHANGED <<refunds, crashes>> /\ proc[p] = Idle
      BY <1>8 DEF Checkout
    <2>3. HandlersKept
      BY <1>0, <2>1, <2>2, MoveKept
    <2> QED  BY <1>2, <2>2, <2>3
  <1>9. CASE UNCHANGED <<refunds, crashes, proc>>
    <2>1. HandlersKept
      BY <1>9 DEF HandlersKept
    <2> QED  BY <1>2, <1>9, <2>1
  <1>11. CASE Enrollments
    BY <1>9, <1>11, EnrollmentsFrame
  <1> QED  BY <1>4, <1>6, <1>7, <1>8, <1>9, <1>11
           DEF Next, Learner, AddToCart, ClearBasket, RedeemDiscount, CheckoutDropsDiscount,
               PaymentOutcome, Callback, CallbackAccepted, CallbackDeclined, CallbackFailed,
               DowngradeLearnerFromOrder, Enrollments

LEMMA InitCounted == Init => \A o \in OrderIds : RefundsCounted(o)
  <1> SUFFICES ASSUME Init, NEW o \in OrderIds  PROVE RefundsCounted(o)
    OBVIOUS
  <1>1. About(o) = {} /\ Done(o) = {}
    BY DEF Init, About, Done, Idle
  <1>2. refunds[o] = 0 /\ crashes = 0 /\ order[o].state # "fulfilled"
    BY DEF Init, AbsentOrder
  <1>3. Cardinality(About(o)) = 0 /\ Cardinality(Procs) \in Nat
    BY <1>1, FS_EmptySet, FS_CardinalityType, ProcsAssumption
  <1> QED  BY <1>2, <1>3 DEF RefundsCounted

LEMMA FulfillRows ==
  ASSUME TypeOK, NEW o \in OrderIds, order[o].state # "absent",
         NEW total, NEW id, FulfillAtomically(o, total, id), refunds' = refunds
  PROVE  RowsKept
  <1>1. /\ order' = [order EXCEPT ![o] = [@ EXCEPT !.state = "fulfilled", !.total = total]]
        /\ \A x \in OrderIds : x # o => trans'[x] = trans[x]
    BY DEF FulfillAtomically, TypeOK
  <1>2. /\ \A x \in OrderIds : x # o => order'[x] = order[x]
        /\ order'[o] = [order[o] EXCEPT !.state = "fulfilled", !.total = total]
        /\ order[o] \in OrderRows
    BY <1>1 DEF TypeOK
  <1>3. /\ order'[o].state = "fulfilled" /\ order'[o].lines = order[o].lines
        /\ order'[o].user = order[o].user
    BY <1>2 DEF OrderRows
  <1> QED  BY <1>1, <1>2, <1>3 DEF RowsKept

(* A step that leaves the order table alone, but for transactions of an    *)
(* order that is there.                                                    *)
LEMMA SameRows ==
  ASSUME UNCHANGED order,
         \A o \in OrderIds : order[o].state = "absent" =>
                                trans'[o] = trans[o] /\ refunds'[o] = refunds[o]
  PROVE  RowsKept
  BY DEF RowsKept

LEMMA StepRows ==
  ASSUME TypeOK, Sales, NEW p \in Procs, Step(p) \/ Crash(p)
  PROVE  RowsKept
  <1>1. CASE CheckoutZero(p)
    <2>1. PICK o, total, id : o = proc[p].order /\ total = proc[p].total /\ id = Generated
      OBVIOUS
    <2>2. o \in OrderIds /\ order[o].state # "absent"
      BY <1>1, <2>1, HeldRow DEF CheckoutZero
    <2>3. FulfillAtomically(o, total, id) /\ refunds' = refunds
      BY <1>1, <2>1 DEF CheckoutZero
    <2> QED  BY <2>2, <2>3, FulfillRows
  <1>2. CASE CancelOrder(p) \/ SaveRefund(p) \/ SaveFulfilled(p)
    <2>1. PICK s \in {"canceled", "refunded", "fulfilled"} : Save(p, s)
      BY <1>2 DEF CancelOrder, SaveRefund, SaveFulfilled
    <2>2. /\ proc[p].pc # "idle" /\ refunds' = refunds /\ s \in OrderStatus
          /\ \A x \in OrderIds : x # proc[p].order => trans'[x] = trans[x]
      BY <1>2, <2>1 DEF CancelOrder, SaveRefund, SaveFulfilled, TypeOK, OrderStatus
    <2> QED  BY <2>1, <2>2, SaveRows
  <1>3. CASE \/ LogSession(p) \/ CreateTransaction(p) \/ StartRefund(p)
             \/ RecordCancellation(p) \/ RecordRefund(p)
    <2>1. /\ proc[p].pc # "idle" /\ UNCHANGED order
          /\ \A o \in OrderIds : o # proc[p].order =>
                trans'[o] = trans[o] /\ refunds'[o] = refunds[o]
      BY <1>3 DEF LogSession, CreateTransaction, StartRefund, RecordCancellation, RecordRefund,
                  TypeOK
    <2>2. order[proc[p].order].state # "absent"
      BY <2>1, HeldRow
    <2> QED  BY <2>1, <2>2, SameRows
  <1>4. CASE UNCHANGED <<order, trans, refunds>>
    BY <1>4, SameRows
  <1> QED  BY <1>1, <1>2, <1>3, <1>4, NoRefundCommand
           DEF Step, Crash, CheckoutZeroFails, StartPayment, EnrollLine,
               CreatePaidCourseRun, PaidCourseRunExists, DeleteBasket

LEMMA CallbackRows ==
  ASSUME TypeOK, Sales, NEW a \in Attempts, Callback(a)
  PROVE  RowsKept
  <1>0. PICK o \in OrderIds : o = attempt[a].order /\ order[o].state = "pending"
    BY DEF Callback, CallbackAccepted, CallbackDeclined, CallbackFailed,
           CallbackPending, TypeOK
  <1>1. CASE CallbackAccepted(a)
    <2>1. PICK total, id : total = order[o].total /\ id = Id("callback", a)
      OBVIOUS
    <2>2. FulfillAtomically(o, total, id) /\ refunds' = refunds
      BY <1>0, <1>1, <2>1 DEF CallbackAccepted
    <2> QED  BY <1>0, <2>2, FulfillRows
  <1>2. CASE CallbackDeclined(a) \/ CallbackFailed(a)
    <2>0. order[o] \in OrderRows
      BY DEF TypeOK
    <2>1. /\ order'[o].state # "absent" /\ order'[o].lines = order[o].lines
          /\ order'[o].user = order[o].user
          /\ \A x \in OrderIds : x # o => order'[x] = order[x]
      <3>1. CASE CallbackDeclined(a)
        <4>1. order' = [order EXCEPT ![o] = [@ EXCEPT !.state = "declined", !.code = NoCode]]
          BY <1>0, <3>1 DEF CallbackDeclined
        <4> QED  BY <2>0, <4>1 DEF TypeOK, OrderRows
      <3>2. CASE CallbackFailed(a)
        <4>1. PICK s \in {"errored", "canceled"} : order' = [order EXCEPT ![o].state = s]
          BY <1>0, <3>2 DEF CallbackFailed
        <4> QED  BY <2>0, <4>1 DEF TypeOK, OrderRows
      <3> QED  BY <1>2, <3>1, <3>2
    <2>2. UNCHANGED <<trans, refunds>>
      BY <1>2 DEF CallbackDeclined, CallbackFailed
    <2> QED  BY <1>0, <2>1, <2>2 DEF RowsKept
  <1> QED  BY <1>1, <1>2 DEF Callback

LEMMA NextRows ==
  ASSUME UsualOperation, TypeOK, Sales, Next
  PROVE  RowsKept
  <1>1. ASSUME NEW p \in Procs, NEW u \in Users, NEW g \in Gateways, Checkout(p, u, g)
        PROVE  RowsKept
    <2>1. UNCHANGED <<trans, refunds>>
      BY <1>1 DEF Checkout
    <2>2. PICK o \in OrderIds :
           /\ order[o].state \in {"absent", "pending"}
           /\ order[o].state # "absent" =>
                 order'[o].lines = order[o].lines /\ order'[o].user = order[o].user
           /\ order'[o].state = "pending" /\ \E r \in Runs : order'[o].lines = {r}
           /\ \A x \in OrderIds : x # o => order'[x] = order[x]
      BY <1>1, CheckoutRow
    <2> QED  BY <2>1, <2>2 DEF RowsKept
  <1>2. CASE UNCHANGED <<order, trans, refunds>>
    BY <1>2, SameRows
  <1>3. ASSUME NEW x \in OrderIds, StaffMember(x)  PROVE UNCHANGED <<order, trans, refunds>>
    BY <1>3, StaffLoads DEF Load
  <1>4. ASSUME NEW p \in Procs, NEW a \in Attempts, Webhook(p, a)
        PROVE  UNCHANGED <<order, trans, refunds>>
    BY <1>4 DEF Webhook, ProcessStripeCheckoutCompleted, ProcessStripeCheckoutExpired, Load
  <1>5. CASE Enrollments
    BY <1>2, <1>5, EnrollmentsFrame
  <1> QED  BY <1>1, <1>2, <1>3, <1>4, <1>5, StepRows, CallbackRows
           DEF Next, Learner, AddToCart, ClearBasket, RedeemDiscount, CheckoutDropsDiscount,
               PaymentOutcome, DowngradeLearnerFromOrder, Enrollments

(* Besides the enrollment requests only a fulfilment touches PaidCourseRun,*)
(* and it only adds.                                                       *)
LEMMA NextRowsStay ==
  ASSUME UsualOperation, Sales, Next
  PROVE  /\ RowsStay
         /\ ~Enrollments => UNCHANGED <<cleared, lowered>>
  <1>1. CASE paidRun \subseteq paidRun' /\ UNCHANGED <<cleared, lowered>>
    BY <1>1 DEF RowsStay
  <1>2. ASSUME NEW p \in Procs, Step(p) \/ Crash(p)
        PROVE  paidRun \subseteq paidRun' /\ UNCHANGED <<cleared, lowered>>
    BY <1>2, NoRefundCommand
    DEF Step, Crash, CheckoutZero, FulfillAtomically, CheckoutZeroFails, StartPayment, LogSession,
        CancelOrder, CreateTransaction, EnrollLine, CreatePaidCourseRun, PaidCourseRunExists,
        SaveFulfilled, DeleteBasket, StartRefund, RecordCancellation, RecordRefund, SaveRefund
  <1>3. ASSUME NEW a \in Attempts, PaymentOutcome(a) \/ Callback(a)
        PROVE  paidRun \subseteq paidRun' /\ UNCHANGED <<cleared, lowered>>
    BY <1>3 DEF PaymentOutcome, Callback, CallbackAccepted, FulfillAtomically, CallbackDeclined,
                CallbackFailed
  <1>4. ASSUME NEW p \in Procs, NEW a \in Attempts, Webhook(p, a)
        PROVE  UNCHANGED <<paidRun, cleared, lowered>>
    BY <1>4 DEF Webhook, ProcessStripeCheckoutCompleted, ProcessStripeCheckoutExpired, Load
  <1>5. ASSUME NEW x \in OrderIds, StaffMember(x)  PROVE UNCHANGED <<paidRun, cleared, lowered>>
    BY <1>5, StaffLoads DEF Load
  <1>6. ASSUME NEW u \in Users, Learner(u)  PROVE UNCHANGED <<paidRun, cleared, lowered>>
    BY <1>6 DEF Learner, AddToCart, ClearBasket, RedeemDiscount, CheckoutDropsDiscount, Checkout
  <1>7. ASSUME NEW o \in OrderIds, DowngradeLearnerFromOrder(o)
        PROVE  UNCHANGED <<paidRun, cleared, lowered>>
    BY <1>7 DEF DowngradeLearnerFromOrder
  <1>8. Enrollments => RowsStay
    BY EnrollmentRows
  <1> QED  BY <1>1, <1>2, <1>3, <1>4, <1>5, <1>6, <1>7, <1>8 DEF Next, Enrollments

(* Under the same conditions the gateway returns the money of an order     *)
(* that keeps its PaidCourseRun at most once per process, plus once per    *)
(* request that died: a request only starts a refund of a fulfilled order, *)
(* such an order is fulfilled only once, and each refund of a fulfilled    *)
(* order is held by a request that has yet to save it or was lost in a     *)
(* crash.                                                                  *)
THEOREM RefundsAreBounded == UsualOperation => (Spec => []RefundsBounded)
  <1> SUFFICES ASSUME UsualOperation  PROVE Spec => []RefundsBounded
    OBVIOUS
  <1> DEFINE Counted == \A o \in OrderIds : Kept(o) => RefundsCounted(o)
  <1>1. TypeOK /\ Sales /\ [Next]_vars => Sales'
    BY NextSales
  <1>2. TypeOK /\ Sales /\ Counted /\ [Next]_vars => Counted'
    <2>1. CASE UNCHANGED vars
      BY <2>1 DEF Kept, RefundsCounted, About, Done, vars
    <2>2. CASE TypeOK /\ Sales /\ Next
      <3>1. \A o \in OrderIds : Kept(o)' => Kept(o)
        BY <2>2, NextRows, NextRowsStay, KeptBefore
      <3> QED  BY <2>2, <3>1, NextCounted
    <2> QED  BY <2>1, <2>2
  <1>3. TypeOK /\ Counted => RefundsBounded
    <2> SUFFICES ASSUME TypeOK, NEW o \in OrderIds, RefundsCounted(o)
                 PROVE  refunds[o] <= Cardinality(Procs) + crashes
      BY DEF RefundsBounded, Kept
    <2>1. /\ Cardinality(About(o)) \in Nat /\ Cardinality(Procs) \in Nat
          /\ refunds[o] \in Nat /\ crashes \in Nat
      BY CountsAreNat
    <2> QED  BY <2>1 DEF RefundsCounted
  <1>4. Init => Sales /\ Counted
    BY InitSales, InitCounted
  <1> HIDE DEF Counted
  <1> QED  BY <1>1, <1>2, <1>3, <1>4, TypeCorrect, PTL DEF Spec

(* Transactions are never deleted.                                         *)
LEMMA TransactionsStay ==
  ASSUME UsualOperation, TypeOK, Sales, Next, NEW o \in OrderIds
  PROVE  trans[o] \subseteq trans'[o]
  <1>1. CASE UNCHANGED trans
    BY <1>1
  <1>2. ASSUME NEW x, NEW i, trans' = [trans EXCEPT ![x] = @ \cup {i}]
        PROVE  trans[o] \subseteq trans'[o]
    BY <1>2 DEF TypeOK
  <1>3. ASSUME NEW p \in Procs, Step(p) \/ Crash(p)
        PROVE  UNCHANGED trans \/ \E x, i : trans' = [trans EXCEPT ![x] = @ \cup {i}]
    <2>1. CASE \/ CheckoutZero(p) \/ LogSession(p) \/ RecordCancellation(p)
               \/ CreateTransaction(p) \/ RecordRefund(p)
      BY <2>1 DEF CheckoutZero, FulfillAtomically, LogSession, RecordCancellation,
                  CreateTransaction, RecordRefund
    <2> QED  BY <1>3, <2>1, NoRefundCommand
             DEF Step, Crash, CheckoutZeroFails, StartPayment, EnrollLine, CreatePaidCourseRun,
                 PaidCourseRunExists, SaveFulfilled, DeleteBasket, StartRefund, CancelOrder,
                 SaveRefund
  <1>4. ASSUME NEW a \in Attempts, Callback(a)
        PROVE  UNCHANGED trans \/ \E x, i : trans' = [trans EXCEPT ![x] = @ \cup {i}]
    BY <1>4 DEF Callback, CallbackAccepted, FulfillAtomically, CallbackDeclined, CallbackFailed
  <1>5. ASSUME NEW x \in OrderIds, StaffMember(x)  PROVE UNCHANGED trans
    BY <1>5, StaffLoads DEF Load
  <1>6. ASSUME NEW p \in Procs, NEW a \in Attempts, Webhook(p, a)  PROVE UNCHANGED trans
    BY <1>6 DEF Webhook, ProcessStripeCheckoutCompleted, ProcessStripeCheckoutExpired, Load
  <1>7. CASE Enrollments
    BY <1>1, <1>7, EnrollmentsFrame
  <1> QED  BY <1>1, <1>2, <1>3, <1>4, <1>5, <1>6, <1>7
           DEF Next, Learner, AddToCart, ClearBasket, RedeemDiscount, CheckoutDropsDiscount,
               Checkout, PaymentOutcome, DowngradeLearnerFromOrder, Enrollments

(* Nobody newly claims to have enrolled the learner or recorded a refund.  *)
NoNewClaims ==
    \A q \in Procs : proc'[q].pc \in {"paid", "save_refund"} => proc'[q] = proc[q]

(* A verified enrollment is taken away only by the downgrade of a refunded *)
(* order, or on the record of the lines it was bought with.                *)
ModesKept ==
    /\ \A u \in Users, r \in Runs :
          mode[u][r] = "verified" => Given(u, r)' \/ LinesOf(u, r) \subseteq lowered'
    /\ lowered \subseteq lowered'

(* What was given stays given.                                             *)
LEMMA GivenStable ==
  ASSUME TypeOK, Sales, RowsKept, ModesKept, NEW o \in OrderIds, NEW r \in order[o].lines,
         order[o].state # "absent", GivenFor(o, r),
         \A x \in OrderIds : trans[x] \subseteq trans'[x]
  PROVE  GivenFor(o, r)'
  <1>0. PICK u \in Users : u = order[o].user /\ u = order'[o].user
    BY DEF TypeOK, OrderRows, RowsKept
  <1>1. CASE Refunded(u, r)
    <2>1. PICK x \in OrderIds : /\ RefundId \in trans[x] /\ order[x].user = u
                                /\ r \in order[x].lines
      BY <1>1 DEF Refunded
    <2>2. order[x].state # "absent"
      BY <2>1 DEF Sales, AbsentUnknown
    <2>3. RefundId \in trans'[x] /\ order'[x].user = u /\ r \in order'[x].lines
      BY <2>1, <2>2 DEF RowsKept
    <2>4. Refunded(u, r)'
      BY <2>3 DEF Refunded, RefundId, Id
    <2> QED  BY <1>0, <2>4 DEF Given, GivenFor
  <1>2. CASE <<o, r>> \in lowered
    BY <1>2 DEF ModesKept, GivenFor
  <1>3. CASE mode[u][r] = "verified"
    <2>1. r \in Runs
      BY DEF TypeOK, OrderRows
    <2>2. Given(u, r)' \/ <<o, r>> \in lowered'
      <3>1. <<o, r>> \in LinesOf(u, r)
        BY <1>0 DEF LinesOf
      <3> QED  BY <1>3, <2>1, <3>1 DEF ModesKept
    <2> QED  BY <1>0, <2>2 DEF Given, Refunded, GivenFor
  <1> QED  BY <1>0, <1>1, <1>2, <1>3 DEF Given, GivenFor

(* The lines of a running handler are those of its order.                  *)
LEMMA ClaimedLines ==
  ASSUME TypeOK, Sales, NEW q \in Procs, proc[q].pc = "paid"
  PROVE  proc[q].line = order[proc[q].order].lines
  BY DEF Sales, HandlerDelivers

LEMMA DeliveriesFrame ==
  ASSUME TypeOK, Sales, Deliveries, RowsKept, ModesKept,
         \A o \in OrderIds : trans[o] \subseteq trans'[o],
         \A o \in OrderIds, r \in Runs : <<o, r>> \in paidRun' \cup cleared' =>
             \/ <<o, r>> \in paidRun \cup cleared
             \/ order[o].state # "absent" /\ (r \in order[o].lines => GivenFor(o, r)'),
         \A q \in Procs : proc'[q].pc = "paid" =>
             \/ proc'[q] = proc[q]
             \/ \A r \in proc'[q].line : GivenFor(proc[q].order, r)' /\ proc'[q].order = proc[q].order,
         \A q \in Procs : proc'[q].pc = "save_refund" =>
             proc'[q] = proc[q] \/ RefundId \in trans'[proc'[q].order],
         \A o \in downgrades' : o \in downgrades \/ RefundId \in trans'[o]
  PROVE  Deliveries'
  <1>0. /\ \A o \in OrderIds : order[o].lines \subseteq Runs
        /\ \A q \in Procs : proc[q].line \subseteq Runs
        /\ downgrades \subseteq OrderIds
    BY DEF TypeOK, OrderRows, Handlers
  <1>2. ASSUME NEW o \in OrderIds, order'[o].state = "absent", NEW r \in Runs
        PROVE  <<o, r>> \notin paidRun' \cup cleared'
    <2>1. order[o].state = "absent"
      BY <1>2 DEF RowsKept
    <2> QED  BY <2>1 DEF Deliveries
  <1>3. ASSUME NEW o \in OrderIds, NEW r \in order'[o].lines,
               <<o, r>> \in paidRun' \cup cleared'
        PROVE  GivenFor(o, r)'
    <2>1. CASE order[o].state = "absent"
      <3>1. r \in Runs
        BY <1>0, <1>3, <2>1 DEF RowsKept
      <3> QED  BY <1>3, <2>1, <3>1 DEF Deliveries
    <2>2. CASE order[o].state # "absent"
      <3>1. r \in order[o].lines /\ r \in Runs
        BY <1>0, <1>3, <2>2 DEF RowsKept
      <3>2. CASE <<o, r>> \in paidRun \cup cleared
        <4>1. GivenFor(o, r)
          BY <3>1, <3>2 DEF Deliveries
        <4> QED  BY <2>2, <3>1, <4>1, GivenStable
      <3>3. CASE <<o, r>> \notin paidRun \cup cleared
        BY <1>3, <3>1, <3>3
      <3> QED  BY <3>2, <3>3
    <2> QED  BY <2>1, <2>2
  <1>4. ASSUME NEW q \in Procs, proc'[q].pc = "paid", NEW r \in proc'[q].line
        PROVE  GivenFor(proc[q].order, r)' /\ proc'[q].order = proc[q].order
    <2>1. CASE proc'[q] = proc[q]
      <3>1. PICK o \in OrderIds : o = proc[q].order
        BY <1>4, <2>1 DEF TypeOK
      <3>2. order[o].state # "absent" /\ r \in order[o].lines
        BY <1>4, <2>1, <3>1, ClaimedLines DEF Sales, AbsentUnknown
      <3>3. GivenFor(o, r)
        BY <1>4, <2>1, <3>1 DEF Deliveries
      <3>4. GivenFor(o, r)'
        BY <3>2, <3>3, GivenStable
      <3> QED  BY <2>1, <3>1, <3>4
    <2>2. CASE proc'[q] # proc[q]
      BY <1>4, <2>2
    <2> QED  BY <2>1, <2>2
  <1>5. \A o \in downgrades' : RefundId \in trans'[o]
    BY <1>0 DEF Deliveries
  <1>6. ASSUME NEW q \in Procs, proc'[q].pc = "save_refund"
        PROVE  RefundId \in trans'[proc'[q].order]
    <2>1. CASE proc'[q] = proc[q]
      <3>1. proc[q].order \in OrderIds /\ RefundId \in trans[proc[q].order]
        BY <1>6, <2>1 DEF TypeOK, Deliveries
      <3> QED  BY <2>1, <3>1
    <2> QED  BY <1>6, <2>1
  <1> QED  BY <1>2, <1>3, <1>4, <1>5, <1>6 DEF Deliveries, RefundId, Id

LEMMA ClaimsByHandlers ==
  ASSUME UsualOperation, TypeOK, Sales, Next
  PROVE  \/ NoNewClaims
         \/ \E p \in Procs : RecordRefund(p) \/ \E r \in Runs : EnrollLine(p, r)
  <1>0. Idle.pc = "idle"
    BY DEF Idle
  <1>1. ASSUME NEW p \in Procs, NEW k, proc' = [proc EXCEPT ![p] = k],
               k.pc \notin {"paid", "save_refund"}
        PROVE  NoNewClaims
    BY <1>1 DEF NoNewClaims, TypeOK
  <1>2. ASSUME NEW p \in Procs, Step(p)
        PROVE  NoNewClaims \/ RecordRefund(p) \/ \E r \in Runs : EnrollLine(p, r)
    <2>1. PICK k : /\ proc' = [proc EXCEPT ![p] = k]
                   /\ k.pc = "paid" => \E r \in Runs : EnrollLine(p, r)
                   /\ k.pc = "save_refund" => RecordRefund(p)
      BY <1>2, StepMoves
    <2> QED  BY <1>1, <2>1
  <1>3. ASSUME NEW p \in Procs, Crash(p)  PROVE NoNewClaims
    BY <1>0, <1>1, <1>3 DEF Crash
  <1>4. ASSUME NEW p \in Procs, NEW u \in Users, NEW g \in Gateways, Checkout(p, u, g)
        PROVE  NoNewClaims
    BY <1>1, <1>4, CheckoutRow
  <1>5. ASSUME NEW p \in Procs, NEW pc \in {"record", "cancel", "refund"}, NEW o, NEW id,
               Load(p, pc, o, id)
        PROVE  NoNewClaims
    <2>1. PICK k : k = [pc |-> pc, order |-> o, total |-> order[o].total, id |-> id,
                        todo |-> {}, line |-> {}]
      OBVIOUS
    <2>2. proc' = [proc EXCEPT ![p] = k] /\ k.pc = pc
      BY <1>5, <2>1 DEF Load
    <2> QED  BY <1>1, <2>2
  <1>6. ASSUME NEW p \in Procs, NEW a \in Attempts, Webhook(p, a)  PROVE NoNewClaims
    BY <1>5, <1>6 DEF Webhook, ProcessStripeCheckoutCompleted, ProcessStripeCheckoutExpired
  <1>7. ASSUME NEW o \in OrderIds, StaffMember(o)  PROVE NoNewClaims
    BY <1>5, <1>7, StaffLoads
  <1>8. CASE UNCHANGED proc
    BY <1>8 DEF NoNewClaims
  <1>9. CASE Enrollments
    BY <1>8, <1>9, EnrollmentsFrame
  <1> QED  BY <1>2, <1>3, <1>4, <1>6, <1>7, <1>8, <1>9
           DEF Next, Learner, AddToCart, ClearBasket, RedeemDiscount, CheckoutDropsDiscount,
               PaymentOutcome, Callback, CallbackAccepted, CallbackDeclined, CallbackFailed,
               DowngradeLearnerFromOrder, Enrollments

(* fulfill_completed_order gives every line it sells.                      *)
LEMMA FulfillGives ==
  ASSUME TypeOK, NEW o \in OrderIds, order[o].state # "absent",
         NEW total, NEW id, FulfillAtomically(o, total, id), RowsKept,
         UNCHANGED <<cleared, lowered>>
  PROVE  /\ ModesKept
         /\ \A x \in OrderIds, r \in Runs : <<x, r>> \in paidRun' \cup cleared' =>
               \/ <<x, r>> \in paidRun \cup cleared
               \/ order[x].state # "absent" /\ GivenFor(x, r)'
  <1>1. PICK u \in Users : u = order[o].user
    BY DEF TypeOK, OrderRows
  <1>2. /\ paidRun' = paidRun \cup ({o} \X order[o].lines)
        /\ mode' = [mode EXCEPT ![u] =
              [r \in Runs |-> IF r \in order[o].lines THEN "verified" ELSE @[r]]]
    BY <1>1 DEF FulfillAtomically
  <1>3. /\ \A v \in Users : v # u => mode'[v] = mode[v]
        /\ \A r \in Runs : mode'[u][r] = IF r \in order[o].lines THEN "verified" ELSE mode[u][r]
    BY <1>2 DEF TypeOK
  <1>4. ModesKept
    BY <1>3 DEF Given, ModesKept
  <1>5. ASSUME NEW x \in OrderIds, NEW r \in Runs, <<x, r>> \in paidRun', <<x, r>> \notin paidRun
        PROVE  order[x].state # "absent" /\ GivenFor(x, r)'
    <2>1. x = o /\ r \in order[o].lines
      BY <1>2, <1>5
    <2>2. Given(u, r)' /\ order'[o].user = u
      BY <1>1, <1>3, <2>1 DEF Given, RowsKept
    <2> QED  BY <2>1, <2>2 DEF GivenFor, Given, Refunded
  <1> QED  BY <1>4, <1>5

LEMMA EnrollLineDelivers ==
  ASSUME TypeOK, Sales, Deliveries, RowsKept, \A o \in OrderIds : trans[o] \subseteq trans'[o],
         NEW p \in Procs, NEW r \in Runs, EnrollLine(p, r)
  PROVE  Deliveries'
  <1>1. proc[p].pc = "lines" /\ UNCHANGED <<order, paidRun, downgrades, cleared, lowered>>
    BY DEF EnrollLine
  <1>2. PICK o \in OrderIds, u \in Users : o = proc[p].order /\ u = order[o].user
    BY <1>1, HeldRow DEF TypeOK, OrderRows
  <1>3. mode' = [mode EXCEPT ![u][r] = "verified"]
    BY <1>2 DEF EnrollLine
  <1>4. /\ mode'[u][r] = "verified"
        /\ \A v \in Users, x \in Runs : mode[v][x] = "verified" => mode'[v][x] = "verified"
    BY <1>3 DEF TypeOK
  <1>5. PICK k : k = [proc[p] EXCEPT !.pc = "paid", !.todo = proc[p].todo \ {r}, !.line = {r}]
    OBVIOUS
  <1>6. k.pc = "paid" /\ k.order = o /\ k.line = {r} /\ proc' = [proc EXCEPT ![p] = k]
    BY <1>1, <1>2, <1>5, HeldRow DEF EnrollLine, Handlers
  <1>7. proc'[p] = k /\ \A q \in Procs : q # p => proc'[q] = proc[q]
    BY <1>6 DEF TypeOK
  <1>8. Given(u, r)' /\ ModesKept
    BY <1>1, <1>4 DEF Given, ModesKept
  <1>9. GivenFor(o, r)'
    BY <1>1, <1>2, <1>8 DEF GivenFor, Given, Refunded
  <1>10. \A x \in proc'[p].line : GivenFor(proc[p].order, x)' /\ proc'[p].order = proc[p].order
    BY <1>2, <1>6, <1>7, <1>9
  <1>11. proc'[p].pc # "save_refund"
    BY <1>6, <1>7
  <1> QED  BY <1>1, <1>7, <1>8, <1>10, <1>11, DeliveriesFrame

(* A downgrade takes away only what a refunded order had given.            *)
LEMMA DowngradeDelivers ==
  ASSUME TypeOK, Sales, Deliveries, RowsKept, \A o \in OrderIds : trans[o] \subseteq trans'[o],
         NEW o \in OrderIds, DowngradeLearnerFromOrder(o)
  PROVE  Deliveries'
  <1>1. /\ o \in downgrades /\ downgrades' \subseteq downgrades
        /\ UNCHANGED <<order, trans, paidRun, proc, cleared, lowered>>
    BY DEF DowngradeLearnerFromOrder
  <1>2. PICK u \in Users : u = order[o].user
    BY DEF TypeOK, OrderRows
  <1>3. mode' = [mode EXCEPT ![u] =
              [r \in Runs |-> IF r \in order[o].lines THEN "audit" ELSE @[r]]]
    BY <1>2 DEF DowngradeLearnerFromOrder
  <1>4. \A v \in Users, r \in Runs :
          mode'[v][r] = mode[v][r] \/ (v = u /\ r \in order[o].lines)
    BY <1>3 DEF TypeOK
  <1>5. ASSUME NEW v \in Users, NEW r \in Runs, mode[v][r] = "verified"  PROVE Given(v, r)'
    <2>1. CASE mode'[v][r] = mode[v][r]
      BY <1>5, <2>1 DEF Given
    <2>2. CASE v = u /\ r \in order[o].lines
      <3>1. RefundId \in trans[o]
        BY <1>1 DEF Deliveries
      <3>2. Refunded(v, r)'
        BY <1>1, <1>2, <2>2, <3>1 DEF Refunded, RefundId, Id
      <3> QED  BY <3>2 DEF Given
    <2> QED  BY <1>4, <2>1, <2>2
  <1>6. ModesKept
    BY <1>1, <1>5 DEF ModesKept
  <1> QED  BY <1>1, <1>6, DeliveriesFrame

(* An enrollment request that takes a verified enrollment away leaves its  *)
(* mark on the lines it was bought with; a payment that moves to another   *)
(* run is one of a fulfilled order, all of whose lines have been delivered.*)
LEMMA EnrollmentsDeliver ==
  ASSUME TypeOK, Sales, Deliveries, Enrollments
  PROVE  Deliveries'
  <1>1. UNCHANGED <<order, trans, downgrades, proc>>
    BY EnrollmentsFrame
  <1>2. ASSUME NEW u \in Users, NEW r \in Runs, NEW m, SetMode(u, r, m)
        PROVE  ModesKept
    <2>1. /\ \A v \in Users, x \in Runs : (v = u /\ x = r) \/ mode'[v][x] = mode[v][x]
          /\ mode'[u][r] = m
      BY <1>2 DEF SetMode, TypeOK
    <2>2. mode[u][r] = "verified" => m = "verified" \/ LinesOf(u, r) \subseteq lowered'
      BY <1>2 DEF SetMode
    <2>3. lowered \subseteq lowered'
      BY <1>2 DEF SetMode
    <2> QED  BY <2>1, <2>2, <2>3 DEF ModesKept, Given
  <1>3. ASSUME UNCHANGED <<mode, lowered>>  PROVE ModesKept
    BY <1>3 DEF ModesKept, Given
  <1>4. ASSUME NEW u \in Users, EnrollmentChange(u)
        PROVE  ModesKept /\ UNCHANGED <<paidRun, cleared>>
    BY <1>2, <1>3, <1>4 DEF EnrollmentChange, Unenroll, DeferEnrollment, StartEnrolling,
                            EnrollAgain, SyncEnrollment
  <1>5. ASSUME NEW o \in OrderIds, order[o].state = "fulfilled", NEW r \in order[o].lines
        PROVE  <<o, r>> \in paidRun \cup cleared
    <2>1. Sold(o)
      BY <1>5 DEF Sold
    <2> QED  BY <1>5, <2>1 DEF Sales, SoldOnce, Delivered
  <1> DEFINE Moved(o, r) == order[o].state = "fulfilled" /\ r \notin order[o].lines
             NewRows == \A o \in OrderIds, r \in Runs : <<o, r>> \in paidRun' \cup cleared' =>
                            <<o, r>> \in paidRun \cup cleared \/ Moved(o, r)
  <1>6. ASSUME NEW e \in enrolling, EnrollStep(e)  PROVE ModesKept /\ NewRows
    <2>0. e.user \in Users /\ e.from \in Runs /\ e.to \in Runs
      BY DEF TypeOK, EnrollRequests
    <2>1. CASE Deactivate(e) \/ EnrollDeferred(e)
      BY <1>2, <2>0, <2>1 DEF Deactivate, EnrollDeferred
    <2>2. CASE EnrollRequestFails(e)
      BY <1>3, <2>2 DEF EnrollRequestFails
    <2>3. CASE ClearPayments(e)
      <3>1. RowsOf(e.user, e.to) \subseteq paidRun
        BY DEF RowsOf
      <3> QED  BY <1>3, <2>3, <3>1 DEF ClearPayments, ClearRows
    <2>4. CASE ChangePaymentToRun(e)
      <3>1. UNCHANGED <<mode, lowered>>
        BY <2>4 DEF ChangePaymentToRun
      <3>2. CASE UNCHANGED <<paidRun, cleared>>
        BY <1>3, <3>1, <3>2
      <3>3. CASE \E pr \in paidRun : /\ order[pr[1]].state = "fulfilled"
                                     /\ <<pr[1], e.to>> \notin paidRun
                                     /\ paidRun' = (paidRun \ {pr}) \cup {<<pr[1], e.to>>}
                                     /\ cleared' = cleared \cup {pr}
        <4>1. PICK pr \in paidRun : /\ order[pr[1]].state = "fulfilled"
                                    /\ <<pr[1], e.to>> \notin paidRun
                                    /\ paidRun' = (paidRun \ {pr}) \cup {<<pr[1], e.to>>}
                                    /\ cleared' = cleared \cup {pr}
          BY <3>3
        <4>2. ASSUME NEW o \in OrderIds, NEW r \in Runs, <<o, r>> \in paidRun' \cup cleared',
                     <<o, r>> \notin paidRun \cup cleared
              PROVE  Moved(o, r)
          <5>1. <<o, r>> = <<pr[1], e.to>>
            BY <4>1, <4>2
          <5>2. o = pr[1] /\ r = e.to
            BY <5>1
          <5> QED  BY <1>5, <4>1, <4>2, <5>2
        <4> QED  BY <1>3, <3>1, <4>2
      <3> QED  BY <2>4, <3>2, <3>3 DEF ChangePaymentToRun, RowsOf
    <2> QED  BY <1>6, <2>1, <2>2, <2>3, <2>4 DEF EnrollStep
  <1>7. ModesKept /\ NewRows
    BY <1>4, <1>6 DEF Enrollments
  <1>8. RowsKept
    BY <1>1, EnrollmentsFrame, SameRows
  <1> QED  BY <1>1, <1>7, <1>8, DeliveriesFrame

LEMMA NextDelivers ==
  ASSUME UsualOperation, TypeOK, Sales, Deliveries, Next
  PROVE  Deliveries'
  <1>1. RowsKept /\ \A o \in OrderIds : trans[o] \subseteq trans'[o]
    BY NextRows, TransactionsStay
  <1>14. CASE Enrollments
    BY <1>14, EnrollmentsDeliver
  <1>15. ~Enrollments => UNCHANGED <<cleared, lowered>>
    BY NextRowsStay
  <1>2. ASSUME NEW p \in Procs, NEW r \in Runs, EnrollLine(p, r)  PROVE Deliveries'
    BY <1>1, <1>2, EnrollLineDelivers
  <1>3. ASSUME NEW o \in OrderIds, DowngradeLearnerFromOrder(o)  PROVE Deliveries'
    BY <1>1, <1>3, DowngradeDelivers
  <1>4. ASSUME NEW o \in OrderIds, order[o].state # "absent", NEW total, NEW id,
               FulfillAtomically(o, total, id), NoNewClaims, UNCHANGED downgrades,
               UNCHANGED <<cleared, lowered>>
        PROVE  Deliveries'
    <2>1. /\ ModesKept
          /\ \A x \in OrderIds, r \in Runs : <<x, r>> \in paidRun' \cup cleared' =>
                \/ <<x, r>> \in paidRun \cup cleared
                \/ order[x].state # "absent" /\ GivenFor(x, r)'
      BY <1>1, <1>4, FulfillGives
    <2> QED  BY <1>1, <1>4, <2>1, DeliveriesFrame DEF NoNewClaims
  <1>5. ASSUME NEW p \in Procs, CheckoutZero(p), NoNewClaims  PROVE Deliveries'
    <2>1. PICK o, total, id : o = proc[p].order /\ total = proc[p].total /\ id = Generated
      OBVIOUS
    <2>2. o \in OrderIds /\ order[o].state # "absent"
      BY <1>5, <2>1, HeldRow DEF CheckoutZero
    <2>3. FulfillAtomically(o, total, id) /\ UNCHANGED downgrades /\ UNCHANGED <<cleared, lowered>>
      BY <1>5, <2>1 DEF CheckoutZero
    <2> QED  BY <1>4, <1>5, <2>2, <2>3
  <1>6. ASSUME NEW a \in Attempts, CallbackAccepted(a), NoNewClaims  PROVE Deliveries'
    <2>1. PICK o \in OrderIds : o = attempt[a].order /\ order[o].state = "pending"
      BY <1>6 DEF CallbackAccepted, CallbackPending, TypeOK
    <2>2. PICK total, id : total = order[o].total /\ id = Id("callback", a)
      OBVIOUS
    <2>3. FulfillAtomically(o, total, id) /\ UNCHANGED downgrades /\ UNCHANGED <<cleared, lowered>>
      BY <1>6, <2>1, <2>2 DEF CallbackAccepted
    <2> QED  BY <1>4, <1>6, <2>1, <2>3
  <1>7. ASSUME NEW p \in Procs, CreatePaidCourseRun(p), NoNewClaims  PROVE Deliveries'
    <2>1. /\ proc[p].pc = "paid" /\ UNCHANGED <<order, trans, mode, downgrades, cleared, lowered>>
          /\ paidRun' = paidRun \cup ({proc[p].order} \X proc[p].line)
      BY <1>7 DEF CreatePaidCourseRun
    <2>2. PICK o \in OrderIds : o = proc[p].order /\ order[o].state # "absent"
      BY <2>1, HeldRow
    <2>3. ModesKept
      BY <2>1 DEF ModesKept, Given
    <2>4. ASSUME NEW x \in OrderIds, NEW r \in Runs, <<x, r>> \in paidRun', <<x, r>> \notin paidRun
          PROVE  order[x].state # "absent" /\ GivenFor(x, r)'
      <3>1. x = o /\ r \in proc[p].line
        BY <2>1, <2>2, <2>4
      <3>2. GivenFor(o, r) /\ r \in order[o].lines
        BY <2>1, <2>2, <3>1, ClaimedLines DEF Deliveries
      <3>3. GivenFor(o, r)'
        BY <1>1, <2>2, <2>3, <3>2, GivenStable
      <3> QED  BY <2>2, <3>1, <3>3
    <2> QED  BY <1>1, <1>7, <2>1, <2>3, <2>4, DeliveriesFrame DEF NoNewClaims
  <1>8. ASSUME NEW p \in Procs, SaveRefund(p), NoNewClaims  PROVE Deliveries'
    <2>1. /\ proc[p].pc = "save_refund" /\ UNCHANGED <<trans, mode, paidRun, cleared, lowered>>
          /\ downgrades' \subseteq downgrades \cup {proc[p].order}
      BY <1>8 DEF SaveRefund
    <2>2. RefundId \in trans'[proc[p].order]
      BY <2>1 DEF Deliveries
    <2>3. ModesKept
      BY <2>1 DEF ModesKept, Given
    <2> QED  BY <1>1, <1>8, <2>1, <2>2, <2>3, DeliveriesFrame DEF NoNewClaims
  <1>16. ASSUME NEW p \in Procs, RecordRefund(p)  PROVE Deliveries'
    <2>1. /\ proc[p].pc = "refunded" /\ UNCHANGED <<mode, paidRun, downgrades, cleared, lowered>>
          /\ trans' = [trans EXCEPT ![proc[p].order] = @ \cup {RefundId}]
          /\ proc' = [proc EXCEPT ![p].pc = "save_refund"]
      BY <1>16 DEF RecordRefund, RefundId
    <2>2. RefundId \in trans'[proc[p].order]
      BY <2>1, HeldRow DEF TypeOK
    <2>3. /\ proc'[p].pc = "save_refund" /\ proc'[p].order = proc[p].order
          /\ \A x \in Procs : x # p => proc'[x] = proc[x]
      BY <2>1 DEF TypeOK, Handlers
    <2>4. ModesKept
      BY <2>1 DEF ModesKept, Given
    <2>5. /\ \A x \in Procs : proc'[x].pc = "paid" => proc'[x] = proc[x]
          /\ \A x \in Procs : proc'[x].pc = "save_refund" =>
                proc'[x] = proc[x] \/ RefundId \in trans'[proc'[x].order]
      BY <2>2, <2>3
    <2> QED  BY <1>1, <2>1, <2>4, <2>5, DeliveriesFrame
  <1>9. CASE NoNewClaims /\ UNCHANGED <<mode, paidRun, downgrades>> /\ UNCHANGED <<cleared, lowered>>
    <2>1. ModesKept
      BY <1>9 DEF ModesKept, Given
    <2> QED  BY <1>1, <1>9, <2>1, DeliveriesFrame DEF NoNewClaims
  <1>10. ASSUME NEW p \in Procs, Step(p) \/ Crash(p), NoNewClaims  PROVE Deliveries'
    BY <1>2, <1>5, <1>7, <1>8, <1>9, <1>10, <1>16, NoRefundCommand
    DEF Step, Crash, CheckoutZeroFails, StartPayment, LogSession, CancelOrder, CreateTransaction,
        PaidCourseRunExists, SaveFulfilled, DeleteBasket, StartRefund, RecordCancellation
  <1>11. ASSUME NEW o \in OrderIds, StaffMember(o)  PROVE UNCHANGED <<mode, paidRun, downgrades>>
    BY <1>11, StaffLoads DEF Load
  <1>12. ASSUME NEW p \in Procs, NEW a \in Attempts, Webhook(p, a)
         PROVE  UNCHANGED <<mode, paidRun, downgrades>>
    BY <1>12 DEF Webhook, ProcessStripeCheckoutCompleted, ProcessStripeCheckoutExpired, Load
  <1>13. NoNewClaims /\ ~Enrollments => Deliveries'
    BY <1>3, <1>6, <1>9, <1>10, <1>11, <1>12, <1>15
    DEF Next, Learner, AddToCart, ClearBasket, RedeemDiscount, CheckoutDropsDiscount, Checkout,
        PaymentOutcome, Callback, CallbackDeclined, CallbackFailed, Enrollments
  <1> QED  BY <1>2, <1>13, <1>14, <1>16, ClaimsByHandlers

LEMMA InitDelivers == Init => Deliveries
  BY DEF Init, Deliveries, Idle

(* Under the same conditions a fulfilled order has delivered: each of its  *)
(* lines has its PaidCourseRun unless an unenrolment deleted it or a       *)
(* deferral moved it, and the learner is verified in the run unless an     *)
(* order of theirs for it was refunded or the verified enrollment itself   *)
(* was changed since.                                                      *)
THEOREM OrdersDeliver == UsualOperation => (Spec => []FulfilledIsDelivered)
  <1> SUFFICES ASSUME UsualOperation  PROVE Spec => []FulfilledIsDelivered
    OBVIOUS
  <1>1. TypeOK /\ Sales /\ [Next]_vars => Sales'
    BY NextSales
  <1>2. TypeOK /\ Sales /\ Deliveries /\ [Next]_vars => Deliveries'
    <2>1. CASE UNCHANGED vars
      BY <2>1 DEF Deliveries, GivenFor, Given, Refunded, RefundId, Id, vars
    <2> QED  BY <2>1, NextDelivers
  <1>3. Sales /\ Deliveries => FulfilledIsDelivered
    <2> SUFFICES ASSUME Sales, Deliveries, NEW o \in OrderIds, order[o].state = "fulfilled",
                        NEW r \in order[o].lines
                 PROVE  <<o, r>> \in paidRun \cup cleared /\ GivenFor(o, r)
      BY DEF FulfilledIsDelivered, GivenFor, Given, Refunded, RefundId
    <2>1. Sold(o)
      BY DEF Sold
    <2>2. <<o, r>> \in paidRun \cup cleared
      BY <2>1 DEF Sales, SoldOnce, Delivered
    <2> QED  BY <2>2 DEF Deliveries
  <1> QED  BY <1>1, <1>2, <1>3, InitSales, InitDelivers, TypeCorrect, PTL DEF Spec

-----------------------------------------------------------------------------
(* The declared transitions                                                *)

(* Orders change state only under the row lock of the callback, or by a    *)
(* refund: no Stripe, nothing free, no resolution of pending orders.       *)
LockedRows ==
    /\ Gateways = {"cybersource"}
    /\ Staff \subseteq {"refund", "refund_command"}
    /\ \A c \in Codes \cup {NoCode} : PriceWith[c] > 0

RefundStates == {"refund", "refunded", "save_refund", "manual_audit", "manual_unenroll"}

(* The handlers left hold a checkout, or an order to refund.               *)
HoldsRefundable(p) ==
    /\ proc[p].pc \in {"idle", "pay", "audit", "unenroll"} \cup RefundStates
    /\ proc[p].pc \in RefundStates =>
          order[proc[p].order].state \in {"fulfilled", "refunded"}
Refundable == \A p \in Procs : HoldsRefundable(p)

(* At most one order moves, along a declared transition.                   *)
Declared(s, t) ==
    \/ s = "absent" /\ t = "pending"
    \/ s = "pending" /\ t \in {"fulfilled", "declined", "canceled", "errored"}
    \/ s = "fulfilled" /\ t = "refunded"
StatesMove ==
    \/ \A o \in OrderIds : order'[o].state = order[o].state
    \/ \E o \in OrderIds : /\ Declared(order[o].state, order'[o].state)
                           /\ \A x \in OrderIds : x # o => order'[x].state = order[x].state

LEMMA MovesDeclared ==
  ASSUME StatesMove
  PROVE  [Flow!Next]_([o \in OrderIds |-> order[o].state])
  <1> DEFINE s == [o \in OrderIds |-> order[o].state]
             t == [o \in OrderIds |-> order'[o].state]
  <1>1. CASE \A o \in OrderIds : order'[o].state = order[o].state
    <2>1. t = s
      BY <1>1
    <2> QED  BY <2>1
  <1>2. ASSUME NEW o \in OrderIds, Declared(order[o].state, order'[o].state),
               \A x \in OrderIds : x # o => order'[x].state = order[x].state
        PROVE  Flow!Next
    <2>1. t = [s EXCEPT ![o] = order'[o].state]
      BY <1>2
    <2>2. s[o] = order[o].state
      OBVIOUS
    <2>3. \/ Flow!Create(o) \/ Flow!Fulfill(o) \/ Flow!Decline(o) \/ Flow!Cancel(o)
          \/ Flow!Errored(o) \/ Flow!Refund(o)
      BY <1>2, <2>1, <2>2
      DEF Declared, Flow!Create, Flow!Fulfill, Flow!Decline, Flow!Cancel, Flow!Errored,
          Flow!Refund, Flow!Move, Flow!Existing
    <2> QED  BY <2>3 DEF Flow!Next
  <1> QED  BY <1>1, <1>2 DEF StatesMove

(* A declared transition keeps fulfilled and refunded orders refundable.   *)
LEMMA RefundableFrame ==
  ASSUME TypeOK, Refundable, StatesMove,
         \A q \in Procs : proc'[q] = proc[q] \/ HoldsRefundable(q)'
  PROVE  Refundable'
  <1>1. \A o \in OrderIds : order[o].state \in {"fulfilled", "refunded"} =>
                               order'[o].state \in {"fulfilled", "refunded"}
    BY DEF StatesMove, Declared
  <1>2. ASSUME NEW q \in Procs, proc'[q] = proc[q]  PROVE HoldsRefundable(q)'
    <2>1. HoldsRefundable(q)
      BY DEF Refundable
    <2>2. CASE proc[q].pc \in RefundStates
      <3>1. PICK o \in OrderIds : o = proc[q].order
        BY <2>2 DEF TypeOK, RefundStates
      <3>2. order'[o].state \in {"fulfilled", "refunded"}
        BY <1>1, <2>1, <2>2, <3>1 DEF HoldsRefundable
      <3> QED  BY <1>2, <2>1, <3>1, <3>2 DEF HoldsRefundable, RefundStates
    <2>3. CASE proc[q].pc \notin RefundStates
      BY <1>2, <2>1, <2>3 DEF HoldsRefundable, RefundStates
    <2> QED  BY <2>2, <2>3
  <1> QED  BY <1>2 DEF Refundable

LEMMA CheckoutMoves ==
  ASSUME LockedRows, TypeOK, Refundable, NEW p \in Procs, NEW u \in Users, NEW g \in Gateways,
         Checkout(p, u, g)
  PROVE  StatesMove /\ Refundable'
  <1> DEFINE price == PriceWith[basket[u].code]
             total == Cardinality(basket[u].items) * price
  <1>1. PICK o \in PendingRow(u, g) :
          /\ order' = [order EXCEPT ![o] =
                 [state |-> "pending", user |-> u, gateway |-> g,
                  lines |-> @.lines \cup basket[u].items,
                  total |-> total, code |-> basket[u].code]]
          /\ proc' = [proc EXCEPT ![p] =
                 [Idle EXCEPT !.pc = IF price = 0 THEN "zero" ELSE "pay",
                              !.order = o, !.total = total]]
    BY DEF Checkout
  <1>2. price \in Nat /\ price > 0
    BY PriceAssumption DEF TypeOK, Baskets, LockedRows
  <1> HIDE DEF total, price
  <1>3. o \in OrderIds /\ order[o].state \in {"absent", "pending"}
    BY DEF PendingRow, Reusable
  <1>4. order'[o].state = "pending" /\ \A x \in OrderIds : x # o => order'[x] = order[x]
    BY <1>1, <1>3 DEF TypeOK
  <1>5. StatesMove
    <2>1. CASE order[o].state = "absent"
      BY <1>3, <1>4, <2>1 DEF StatesMove, Declared
    <2>2. CASE order[o].state = "pending"
      BY <1>4, <2>2 DEF StatesMove
    <2> QED  BY <1>3, <2>1, <2>2
  <1>6. proc'[p].pc = "pay" /\ \A q \in Procs : q # p => proc'[q] = proc[q]
    BY <1>1, <1>2 DEF TypeOK, Idle
  <1>7. HoldsRefundable(p)'
    BY <1>6 DEF HoldsRefundable, RefundStates
  <1> QED  BY <1>5, <1>6, <1>7, RefundableFrame

LEMMA CallbackMoves ==
  ASSUME TypeOK, Refundable, NEW a \in Attempts, Callback(a)
  PROVE  StatesMove /\ Refundable'
  <1>1. PICK o \in OrderIds : o = attempt[a].order /\ order[o].state = "pending"
    BY DEF Callback, CallbackAccepted, CallbackDeclined, CallbackFailed,
           CallbackPending, TypeOK
  <1>2. order[o] \in OrderRows /\ UNCHANGED proc
    BY DEF TypeOK, Callback, CallbackAccepted, CallbackDeclined, CallbackFailed
  <1>3. PICK s \in {"fulfilled", "declined", "errored", "canceled"} :
          order'[o].state = s /\ \A x \in OrderIds : x # o => order'[x] = order[x]
    <2>1. CASE CallbackAccepted(a)
      <3>1. order' = [order EXCEPT ![o] =
                         [@ EXCEPT !.state = "fulfilled", !.total = order[o].total]]
        BY <1>1, <2>1 DEF CallbackAccepted, FulfillAtomically
      <3> QED  BY <1>2, <3>1 DEF TypeOK, OrderRows
    <2>2. CASE CallbackDeclined(a)
      <3>1. order' = [order EXCEPT ![o] = [@ EXCEPT !.state = "declined", !.code = NoCode]]
        BY <1>1, <2>2 DEF CallbackDeclined
      <3> QED  BY <1>2, <3>1 DEF TypeOK, OrderRows
    <2>3. CASE CallbackFailed(a)
      <3>1. PICK s \in {"errored", "canceled"} : order' = [order EXCEPT ![o].state = s]
        BY <1>1, <2>3 DEF CallbackFailed
      <3> QED  BY <1>2, <3>1 DEF TypeOK, OrderRows
    <2> QED  BY <2>1, <2>2, <2>3 DEF Callback
  <1>4. StatesMove
    BY <1>1, <1>3 DEF StatesMove, Declared
  <1> QED  BY <1>2, <1>4, RefundableFrame

(* A refund is recorded, by a request or by the command.                   *)
LEMMA RefundMoves ==
  ASSUME TypeOK, Refundable, NEW p \in Procs, proc[p].pc \in RefundStates,
         Save(p, "refunded")
  PROVE  StatesMove
  <1>1. PICK o \in OrderIds : o = proc[p].order
    BY DEF TypeOK, RefundStates
  <1>2. order[o].state \in {"fulfilled", "refunded"} /\ order[o] \in OrderRows
    BY <1>1 DEF Refundable, HoldsRefundable, TypeOK
  <1>3. order'[o].state = "refunded" /\ \A x \in OrderIds : x # o => order'[x] = order[x]
    BY <1>1, <1>2 DEF Save, TypeOK, OrderRows
  <1>4. CASE order[o].state = "refunded"
    BY <1>3, <1>4 DEF StatesMove
  <1>5. CASE order[o].state = "fulfilled"
    BY <1>3, <1>5 DEF StatesMove, Declared
  <1> QED  BY <1>2, <1>4, <1>5

LEMMA StepMovesDeclared ==
  ASSUME LockedRows, TypeOK, Refundable, NEW p \in Procs, Step(p) \/ Crash(p)
  PROVE  StatesMove /\ Refundable'
  <1>0. /\ proc[p].pc \in {"idle", "pay", "audit", "unenroll"} \cup RefundStates
        /\ HoldsRefundable(p) /\ proc[p] \in Handlers /\ Idle.pc = "idle"
    BY DEF Refundable, HoldsRefundable, TypeOK, Idle
  <1>1. UNCHANGED order => StatesMove
    BY DEF StatesMove
  <1>2. ASSUME NEW k, proc' = [proc EXCEPT ![p] = k], k.pc \in {"idle", "audit", "unenroll"},
               StatesMove
        PROVE  Refundable'
    <2>1. proc'[p] = k /\ \A q \in Procs : q # p => proc'[q] = proc[q]
      BY <1>2 DEF TypeOK
    <2>2. HoldsRefundable(p)'
      BY <1>2, <2>1 DEF HoldsRefundable, RefundStates
    <2> QED  BY <1>2, <2>1, <2>2, RefundableFrame
  <1>3. ASSUME NEW a \in Attempts, StartPayment(p, a)  PROVE StatesMove /\ Refundable'
    <2>1. proc[p].pc = "pay" /\ UNCHANGED order
      BY <1>3 DEF StartPayment
    <2>2. order[proc[p].order].gateway # "stripe"
      <3>1. PICK o \in OrderIds : o = proc[p].order
        BY <2>1 DEF TypeOK
      <3>2. order[o].gateway \in Gateways
        BY DEF TypeOK, OrderRows
      <3> QED  BY <3>1, <3>2 DEF LockedRows
    <2>3. proc' = [proc EXCEPT ![p] = Idle]
      BY <1>3, <2>2 DEF StartPayment
    <2> QED  BY <1>0, <1>1, <1>2, <2>1, <2>3
  <1>4. CASE StartRefund(p)
    <2>1. proc[p].pc = "refund" /\ UNCHANGED order
      BY <1>4 DEF StartRefund
    <2>2. CASE proc' = [proc EXCEPT ![p] = Idle]
      BY <1>0, <1>1, <1>2, <2>1, <2>2
    <2>3. CASE proc' = [proc EXCEPT ![p].pc = "refunded"]
      <3>1. /\ proc'[p].pc = "refunded" /\ proc'[p].order = proc[p].order
            /\ \A q \in Procs : q # p => proc'[q] = proc[q]
        BY <1>0, <2>3 DEF TypeOK, Handlers
      <3>2. HoldsRefundable(p)'
        BY <1>0, <2>1, <3>1 DEF HoldsRefundable, RefundStates
      <3> QED  BY <1>1, <2>1, <3>1, <3>2, RefundableFrame
    <2> QED  BY <1>4, <2>2, <2>3 DEF StartRefund
  <1>5. CASE SaveRefund(p)
    <2>1. /\ proc[p].pc \in RefundStates /\ Save(p, "refunded")
          /\ proc' = [proc EXCEPT ![p] = Idle]
      BY <1>5 DEF SaveRefund, RefundStates
    <2> QED  BY <1>0, <1>2, <2>1, RefundMoves
  <1>10. CASE RecordRefund(p)
    <2>1. /\ proc[p].pc = "refunded" /\ UNCHANGED order
          /\ proc' = [proc EXCEPT ![p].pc = "save_refund"]
      BY <1>10 DEF RecordRefund
    <2>2. /\ proc'[p].pc = "save_refund" /\ proc'[p].order = proc[p].order
          /\ \A q \in Procs : q # p => proc'[q] = proc[q]
      BY <1>0, <2>1 DEF TypeOK, Handlers
    <2>3. HoldsRefundable(p)'
      BY <1>0, <2>1, <2>2 DEF HoldsRefundable, RefundStates
    <2> QED  BY <1>1, <2>1, <2>2, <2>3, RefundableFrame
  <1>6. CASE SaveRefunded(p)
    <2>1. proc[p].pc \in RefundStates /\ Save(p, "refunded")
      BY <1>6 DEF SaveRefunded, RefundStates
    <2>2. PICK k : k = [proc[p] EXCEPT !.pc = IF proc[p].pc = "manual_audit" THEN "audit"
                                             ELSE "unenroll",
                                      !.todo = {r \in order[proc[p].order].lines :
                                          mode[order[proc[p].order].user][r] # "none"}]
      OBVIOUS
    <2>3. k.pc \in {"audit", "unenroll"}
      BY <1>0, <2>2 DEF Handlers
    <2>4. proc' = [proc EXCEPT ![p] = k]
      BY <1>6, <2>2 DEF SaveRefunded
    <2> QED  BY <1>2, <2>1, <2>3, <2>4, RefundMoves
  <1>7. ASSUME NEW r \in Runs, AdjustEnrollment(p, r)  PROVE StatesMove /\ Refundable'
    <2>1. proc[p].pc \in {"audit", "unenroll"} /\ UNCHANGED order
      BY <1>7 DEF AdjustEnrollment
    <2>2. PICK k : k = IF proc[p].pc = "audit" THEN [proc[p] EXCEPT !.todo = proc[p].todo \ {r}]
                       ELSE [proc[p] EXCEPT !.todo = proc[p].todo \ {r}, !.line = {r}]
      OBVIOUS
    <2>3. k.pc = proc[p].pc
      BY <1>0, <2>2 DEF Handlers
    <2>4. proc' = [proc EXCEPT ![p] = k]
      BY <1>7, <2>2 DEF AdjustEnrollment
    <2> QED  BY <1>1, <1>2, <2>1, <2>3, <2>4
  <1>11. CASE DeletePaidCourseRuns(p)
    <2>1. proc[p].pc = "unenroll" /\ UNCHANGED order
      BY <1>11 DEF DeletePaidCourseRuns
    <2>2. PICK k : k = [proc[p] EXCEPT !.line = {}]
      OBVIOUS
    <2>3. k.pc = "unenroll"
      BY <1>0, <2>1, <2>2 DEF Handlers
    <2>4. proc' = [proc EXCEPT ![p] = k]
      BY <1>11, <2>2 DEF DeletePaidCourseRuns
    <2> QED  BY <1>1, <1>2, <2>1, <2>3, <2>4
  <1>8. CASE RefundCommandDone(p) \/ Crash(p)
    <2>1. UNCHANGED order /\ proc' = [proc EXCEPT ![p] = Idle]
      BY <1>8 DEF RefundCommandDone, Crash
    <2> QED  BY <1>0, <1>1, <1>2, <2>1
  <1>9. /\ ~CheckoutZero(p) /\ ~CheckoutZeroFails(p) /\ ~LogSession(p) /\ ~CancelOrder(p)
        /\ ~CreateTransaction(p) /\ ~CreatePaidCourseRun(p) /\ ~PaidCourseRunExists(p)
        /\ ~SaveFulfilled(p) /\ ~DeleteBasket(p) /\ ~RecordCancellation(p) /\ \A r \in Runs : ~EnrollLine(p, r)
    BY <1>0 DEF CheckoutZero, CheckoutZeroFails, LogSession, CancelOrder, CreateTransaction,
                CreatePaidCourseRun, PaidCourseRunExists, SaveFulfilled, DeleteBasket,
                EnrollLine, RecordCancellation, RefundStates
  <1> QED  BY <1>3, <1>4, <1>5, <1>6, <1>7, <1>8, <1>9, <1>10, <1>11 DEF Step

LEMMA StaffMoves ==
  ASSUME LockedRows, TypeOK, Refundable, NEW o \in OrderIds, StaffMember(o)
  PROVE  StatesMove /\ Refundable'
  <1>1. PICK p \in Procs : RefundOrder(p, o) \/ RefundFulfilledOrder(p, o)
    BY DEF StaffMember, ResolvePendingOrder, ForceFulfill, LockedRows
  <1>2. PICK pc \in RefundStates : Load(p, pc, o, Generated) /\ order[o].state = "fulfilled"
    BY <1>1 DEF RefundOrder, RefundFulfilledOrder, RefundStates
  <1>3. /\ UNCHANGED order /\ proc'[p].pc = pc /\ proc'[p].order = o
        /\ \A q \in Procs : q # p => proc'[q] = proc[q]
    BY <1>2 DEF Load, TypeOK
  <1>4. StatesMove
    BY <1>3 DEF StatesMove
  <1>5. HoldsRefundable(p)'
    BY <1>2, <1>3 DEF HoldsRefundable
  <1> QED  BY <1>3, <1>4, <1>5, RefundableFrame

LEMMA NextMoves ==
  ASSUME LockedRows, TypeOK, Refundable, Next
  PROVE  StatesMove /\ Refundable'
  <1>1. ASSUME NEW p \in Procs, NEW a \in Attempts, Webhook(p, a)  PROVE FALSE
    <2>1. attempt[a].order \in OrderIds /\ GatewayOf(a) = "stripe"
      BY <1>1 DEF Webhook, ProcessStripeCheckoutCompleted, ProcessStripeCheckoutExpired, TypeOK
    <2>2. order[attempt[a].order].gateway \in Gateways
      BY <2>1 DEF TypeOK, OrderRows
    <2> QED  BY <2>1, <2>2 DEF GatewayOf, LockedRows
  <1>2. CASE UNCHANGED <<order, proc>>
    BY <1>2, RefundableFrame DEF StatesMove
  <1>3. CASE Enrollments
    BY <1>2, <1>3, EnrollmentsFrame
  <1> QED  BY <1>1, <1>2, <1>3, CheckoutMoves, CallbackMoves, StepMovesDeclared, StaffMoves
           DEF Next, Learner, AddToCart, ClearBasket, RedeemDiscount, CheckoutDropsDiscount,
               PaymentOutcome, DowngradeLearnerFromOrder, Enrollments

(* CyberSource orders with something to pay, and refunds by request or by  *)
(* command, implement OrderFlow: every step moves at most one order, along *)
(* a transition its decorators declare.  Without the row lock it would not *)
(* be so: a Stripe webhook fulfils from the instance in memory.            *)
THEOREM ImplementsFlow == LockedRows => (Spec => FlowRespected)
  <1> SUFFICES ASSUME LockedRows  PROVE Spec => FlowRespected
    OBVIOUS
  <1>1. Init => Flow!Init
    BY DEF Init, Flow!Init, AbsentOrder
  <1>2. Init => Refundable
    BY DEF Init, Refundable, HoldsRefundable, RefundStates, Idle
  <1>3. TypeOK /\ Refundable /\ [Next]_vars =>
          Refundable' /\ [Flow!Next]_([o \in OrderIds |-> order[o].state])
    <2>1. CASE UNCHANGED vars
      <3>1. Refundable' = Refundable
        BY <2>1 DEF Refundable, HoldsRefundable, vars
      <3>2. StatesMove
        BY <2>1 DEF StatesMove, vars
      <3> QED  BY <3>1, <3>2, MovesDeclared
    <2> QED  BY <2>1, NextMoves, MovesDeclared
  <1> QED  BY <1>1, <1>2, <1>3, TypeCorrect, PTL DEF Spec, FlowRespected, Flow!Spec

-----------------------------------------------------------------------------
(* Prices.  A discount never makes a product dearer, and never gives money   *)
(* back: whatever valid discounts are combined, the rounded price lies       *)
(* between nothing and the list price.                                       *)

LEMMA Division ==
    ASSUME NEW n \in Int, NEW d \in Nat \ {0}
    PROVE  /\ n \div d \in Int
           /\ n % d \in Int
           /\ 0 <= n % d
           /\ n % d < d
           /\ n = d * (n \div d) + (n % d)
  OBVIOUS

LEMMA Monotone ==
    ASSUME NEW d \in Nat \ {0}, NEW a \in Int, NEW b \in Int, a <= b
    PROVE  d * a <= d * b
  OBVIOUS

LEMMA Distribute ==
    ASSUME NEW d \in Int, NEW a \in Int
    PROVE  d * (a + 1) = d * a + d /\ d * a \in Int
  OBVIOUS

\* What is no more than k times d rounds to no more than k.
LEMMA RoundedAtMost ==
    ASSUME NEW n \in Int, NEW d \in Nat \ {0}, NEW k \in Int, n <= d * k
    PROVE  RoundHalfEven(n, d) \in Int /\ RoundHalfEven(n, d) <= k
<1> DEFINE q == n \div d
           r == n % d
<1>1. q \in Int /\ r \in Int /\ 0 <= r /\ r < d /\ n = d * q + r
  BY Division
<1>2. RoundHalfEven(n, d) = q \/ (RoundHalfEven(n, d) = q + 1 /\ ~(2 * r < d))
  BY DEF RoundHalfEven
<1> HIDE DEF q, r
<1>3. q <= k
  <2>1. SUFFICES ASSUME k + 1 <= q PROVE FALSE
    BY <1>1
  <2>2. d * (k + 1) <= d * q
    BY <1>1, <2>1, Monotone
  <2>3. d * (k + 1) = d * k + d /\ d * k \in Int /\ d * q \in Int
    BY <1>1, Distribute
  <2> QED
    BY <1>1, <2>2, <2>3
<1>4. q = k => r = 0
  <2>1. d * q \in Int
    BY <1>1, Distribute
  <2> QED
    BY <1>1, <2>1
<1> QED
  BY <1>1, <1>2, <1>3, <1>4

\* What is not negative rounds to something that is not negative.
LEMMA RoundedAtLeast ==
    ASSUME NEW n \in Nat, NEW d \in Nat \ {0}
    PROVE  RoundHalfEven(n, d) \in Nat
<1> DEFINE q == n \div d
           r == n % d
<1>1. q \in Int /\ r \in Int /\ 0 <= r /\ r < d /\ n = d * q + r
  BY Division
<1>2. RoundHalfEven(n, d) = q \/ RoundHalfEven(n, d) = q + 1
  BY DEF RoundHalfEven
<1> HIDE DEF q, r
<1>3. 0 <= q
  <2>1. SUFFICES ASSUME q + 1 <= 0 PROVE FALSE
    BY <1>1
  <2>2. d * (q + 1) <= d * 0
    BY <1>1, <2>1, Monotone
  <2>3. d * (q + 1) = d * q + d /\ d * q \in Int
    BY <1>1, Distribute
  <2> QED
    BY <1>1, <2>2, <2>3
<1> QED
  BY <1>1, <1>2, <1>3

LEMMA CentPositive == Cent \in Nat \ {0}
  BY DiscountsAssumption DEF Cent

LEMMA Nonnegative ==
    ASSUME NEW a \in Nat, NEW b \in Nat
    PROVE  a * b \in Nat
  OBVIOUS

LEMMA Commute ==
    ASSUME NEW a \in Int, NEW b \in Int
    PROVE  a * b = b * a
  OBVIOUS

\* A price rounded to cents is no more than the list price it does not exceed.
LEMMA RoundedToCents ==
    ASSUME NEW x \in Nat, NEW c \in Nat, x <= Cent * c
    PROVE  ToCents(x) \in Nat /\ ToCents(x) <= Cent * c
<1> USE CentPositive
<1>1. RoundHalfEven(x, Cent) \in Nat /\ RoundHalfEven(x, Cent) <= c
  BY RoundedAtMost, RoundedAtLeast
<1>2. Cent * RoundHalfEven(x, Cent) \in Nat
  BY <1>1, Nonnegative
<1>3. Cent * RoundHalfEven(x, Cent) <= Cent * c
  BY <1>1, Monotone
<1> QED
  BY <1>2, <1>3 DEF ToCents

LEMMA ExactCents ==
    ASSUME NEW c \in Nat
    PROVE  (Cent * c) \div Cent = c
<1> DEFINE q == (Cent * c) \div Cent
           r == (Cent * c) % Cent
<1> USE CentPositive
<1>1. Cent * c \in Nat
  BY Nonnegative
<1>2. q \in Int /\ r \in Int /\ 0 <= r /\ r < Cent /\ Cent * c = Cent * q + r
  BY <1>1, Division
<1> HIDE DEF q, r
<1>3. ~(q + 1 <= c)
  <2>1. SUFFICES ASSUME q + 1 <= c PROVE FALSE
    OBVIOUS
  <2>2. Cent * (q + 1) <= Cent * c
    BY <1>2, <2>1, Monotone
  <2> QED
    BY <1>1, <1>2, <2>2, Distribute
<1>4. ~(c + 1 <= q)
  <2>1. SUFFICES ASSUME c + 1 <= q PROVE FALSE
    OBVIOUS
  <2>2. Cent * (c + 1) <= Cent * q
    BY <1>2, <2>1, Monotone
  <2> QED
    BY <1>1, <1>2, <2>2, Distribute
<1> QED
  BY <1>2, <1>3, <1>4 DEF q

\* Every discount offers a price that is not negative.
LEMMA OfferIsNatural ==
    ASSUME NEW c \in Nat, NEW d, ValidDiscount(d)
    PROVE  ProductPrice(d, Cent * c) \in Nat
<1> USE CentPositive, DiscountsAssumption
<1>1. Cent * c \in Nat
  BY Nonnegative
<1>2. d.amount \in Nat /\ d.type \in {"percent-off", "dollars-off", "fixed-price"}
  BY DEF ValidDiscount, Discount
<1>3. CASE d.type = "percent-off"
  <2>1. 100 * Unit - d.amount \in Nat
    BY <1>2, <1>3 DEF ValidDiscount
  <2>2. 100 * Unit \in Nat \ {0}
    OBVIOUS
  <2>3. c * (100 * Unit - d.amount) \in Nat
    BY <2>1, Nonnegative
  <2>4. RoundHalfEven(c * (100 * Unit - d.amount), 100 * Unit) \in Nat
    BY <2>2, <2>3, RoundedAtLeast
  <2>5. Cent * RoundHalfEven(c * (100 * Unit - d.amount), 100 * Unit) \in Nat
    BY <2>4, Nonnegative
  <2> QED
    BY <1>3, <2>5, ExactCents DEF ProductPrice, PercentPrice
<1>4. CASE d.type = "dollars-off"
  BY <1>1, <1>2, <1>4 DEF ProductPrice, DollarsOffPrice
<1>5. CASE d.type = "fixed-price"
  BY <1>2, <1>5 DEF ProductPrice
<1> QED
  BY <1>2, <1>3, <1>4, <1>5

LEMMA Least ==
    ASSUME NEW S \in SUBSET Nat, S # {}
    PROVE  \E p \in S : \A q \in S : p <= q
<1>1. \E p \in S : \A q \in S : ~(<<q, p>> \in OpToRel(<, Nat))
  BY NatLessThanWellFounded, WFMin
<1>2. \A p, q \in Nat : q < p => <<q, p>> \in OpToRel(<, Nat)
  BY Zenon DEF OpToRel
<1>3. \E p \in S : \A q \in S : ~(q < p)
  BY <1>1, <1>2, Zenon
<1> QED
  BY <1>3

\* Whatever valid discounts an order or a basket holds, the price charged for
\* a line (get_discounted_price, rounded to cents) is at least nothing and at
\* most the list price.
THEOREM DiscountsOnlyReduce ==
    ASSUME NEW price \in Prices, NEW ds, \A d \in ds : ValidDiscount(d)
    PROVE  DiscountedPrice(ds, price) \in Nat /\ DiscountedPrice(ds, price) <= price
<1>1. PICK c \in Nat : price = Cent * c
  BY DEF Prices
<1> DEFINE offers == {price} \cup {ProductPrice(d, price) : d \in ds}
           best == CHOOSE p \in offers : \A q \in offers : p <= q
<1>2. price \in Nat
  BY <1>1, Nonnegative, CentPositive
<1>3. offers \in SUBSET Nat /\ price \in offers
  BY <1>1, <1>2, OfferIsNatural
<1>4. best \in offers /\ \A q \in offers : best <= q
  <2> HIDE DEF offers
  <2>1. \E p \in offers : \A q \in offers : p <= q
    BY <1>3, Least
  <2> QED
    BY <2>1
<1>5. DiscountedPrice(ds, price) = ToCents(best)
  BY DEF DiscountedPrice
<1> HIDE DEF best, offers
<1>6. best \in Nat /\ best <= price
  BY <1>3, <1>4
<1> QED
  BY <1>1, <1>5, <1>6, RoundedToCents
=============================================================================
