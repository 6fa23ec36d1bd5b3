------------------------------ MODULE MCVtuOrders ------------------------------
(* Small instances of VtuOrders for TLC. *)
EXTENDS VtuOrders, TLC

CONSTANTS direct, airtime, data

\* The name of an order tells its product.
MCProduct ==
    [o \in Orders |-> IF o = airtime THEN "airtime_epin" ELSE IF o = data THEN "data_epin" ELSE "direct"]

Symmetry == Permutations(Procs)
================================================================================
