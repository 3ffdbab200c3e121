------------------------------ MODULE MCOrders ------------------------------
(***************************************************************************)
(* Values for the constants of Orders.  A product costs two dollars; the   *)
(* discounts behind the codes set what a line costs under each of them;    *)
(* every code is one-time.                                                 *)
(***************************************************************************)
EXTENDS Orders, Discounts, TLC

ListPrice == 2 * Unit

Behind == [half |-> [type |-> "percent-off", amount |-> 50 * Unit],
           free |-> [type |-> "percent-off", amount |-> 100 * Unit]]

MCPriceWith == [c \in Codes \cup {NoCode} |->
    DiscountedPrice(IF c = NoCode THEN {} ELSE {Behind[c]}, ListPrice)]
MCRedemptionType == [c \in Codes |-> "one-time"]
MCMaxRedemptions == [c \in Codes |-> 0]

\* Handlers are interchangeable.
ProcSymmetry == Permutations(Procs)
=============================================================================
