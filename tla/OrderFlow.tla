----------------------------- MODULE OrderFlow -----------------------------
(***************************************************************************)
(* What the state machine of an order promises: the transitions that the   *)
(* decorators of OrderFlow (ecommerce/models.py) declare, one order at a   *)
(* time, with nothing of how a payment is taken.                           *)
(***************************************************************************)
CONSTANT OrderIds
VARIABLE state

Init == state = [o \in OrderIds |-> "absent"]

Move(o, sources, target) ==
    /\ state[o] \in sources
    /\ state' = [state EXCEPT ![o] = target]

Existing == {"pending", "fulfilled", "canceled", "declined", "errored",
             "refunded"}

Create(o)  == Move(o, {"absent"}, "pending")
Fulfill(o) == Move(o, {"pending"}, "fulfilled")
Decline(o) == Move(o, {"pending"}, "declined")
Cancel(o)  == Move(o, Existing, "canceled")
Errored(o) == Move(o, Existing, "errored")
Refund(o)  == Move(o, {"fulfilled"}, "refunded")

Next == \E o \in OrderIds :
    Create(o) \/ Fulfill(o) \/ Decline(o) \/ Cancel(o) \/ Errored(o) \/ Refund(o)

Spec == Init /\ [][Next]_state
=============================================================================
