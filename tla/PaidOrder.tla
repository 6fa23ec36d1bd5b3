------------------------------- MODULE PaidOrder -------------------------------
(***************************************************************************)
(* What every service that sells from the wallet promises of an order: it  *)
(* is charged once, served only while it is paid for, and given back at    *)
(* most once, after which nothing happens to it any more.  Only orders in  *)
(* Revocable may be given back after they were served.                     *)
(***************************************************************************)
CONSTANTS Orders, Revocable

VARIABLE state

Init == state = [o \in Orders |-> "unpaid"]

Becomes(o, s) == state' = [state EXCEPT ![o] = s]

Pay(o) == state[o] = "unpaid" /\ Becomes(o, "paid")

Serve(o) == state[o] = "paid" /\ Becomes(o, "served")

GiveBack(o) ==
    /\ state[o] = "paid" \/ (state[o] = "served" /\ o \in Revocable)
    /\ Becomes(o, "refunded")

Next == \E o \in Orders : Pay(o) \/ Serve(o) \/ GiveBack(o)

Spec == Init /\ [][Next]_state
===============================================================================
