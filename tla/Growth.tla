-------------------------------- MODULE Growth --------------------------------
(***************************************************************************)
(* Growth orders: the price is reserved in the wallet before the supplier  *)
(* is asked, captured when the order completes and given back when it      *)
(* fails or is refunded.  The supplier's answer, the refresh of a list and *)
(* the operator all apply a status to an order they read before they       *)
(* locked the wallet; the entries are upserted by their keys.              *)
(***************************************************************************)
EXTENDS Handlers

CONSTANT GrowthOrders   \* idempotency keys of the orders

VARIABLES
    grStatus,       \* GrowthOrder.status
    grPaid,         \* GrowthOrder.paymentStatus
    grEntries,      \* ledger entries of each order, by the end of their key
    grRef,          \* orders with a supplierReference
    grSupplier      \* the supplier's status of each order (external)

grOrder == <<grStatus, grPaid, grEntries, grRef>>
grVars == <<grOrder, grSupplier>>

GrowthStatus == {"PENDING", "SUBMITTED", "IN_PROGRESS", "COMPLETED", "FAILED", "REFUNDED"}
GrowthActive == {"PENDING", "SUBMITTED", "IN_PROGRESS"}
PaymentStatus == {"FUNDS_RESERVED", "FUNDS_CAPTURED", "FUNDS_RELEASED", "REFUNDED", "MANUAL_REVIEW"}
SmmStatus == {"QUEUED", "PROCESSING", "COMPLETED", "CANCELLED", "FAILED"}
GrowthEntries == {"reserve", "release", "capture_release", "capture", "refund"}

GRSteps == {"reserve", "review", "supply", "fail", "ask", "apply"}
GRJobs == [op : {"order", "refresh", "update"}, of : GrowthOrders, saw : PaymentStatus \cup {"none"},
           got : GrowthStatus \cup {"none"}]

GRTypeOK ==
    /\ grStatus \in [GrowthOrders -> GrowthStatus \cup {"NONE"}]
    /\ grPaid \in [GrowthOrders -> PaymentStatus \cup {"NONE"}]
    /\ grEntries \in [GrowthOrders -> SUBSET GrowthEntries]
    /\ grRef \subseteq GrowthOrders
    /\ grSupplier \in [GrowthOrders -> SmmStatus \cup {"none"}]

GRInit ==
    /\ grStatus = [o \in GrowthOrders |-> "NONE"]
    /\ grPaid = [o \in GrowthOrders |-> "NONE"]
    /\ grEntries = [o \in GrowthOrders |-> {}]
    /\ grRef = {}
    /\ grSupplier = [o \in GrowthOrders |-> "none"]

-----------------------------------------------------------------------------
(* applyGrowthFinancialTransitionDb: what a status does to the money of an *)
(* order whose payment status was read as "saw".                           *)

PaidAs(status, paid) ==
    CASE status = "COMPLETED" -> "FUNDS_CAPTURED"
      [] status = "FAILED" -> "FUNDS_RELEASED"
      [] status = "REFUNDED" -> "REFUNDED"
      [] OTHER -> paid

\* Mutant: a refund is written to the order only.
EntriesOfPaid(status, saw) ==
    CASE status = "COMPLETED" -> {"capture_release", "capture"}
      [] status = "FAILED" -> {"release"}
      [] OTHER -> {}

EntriesOf(status, saw) ==
    CASE status = "COMPLETED" -> {"capture_release", "capture"}
      [] status = "FAILED" -> {"release"}
      [] status = "REFUNDED" -> IF saw = "FUNDS_CAPTURED" THEN {"refund"} ELSE {"release"}
      [] OTHER -> {}

\* A status without money leaves the payment status that is there.
ApplyStatus(o, status, saw) ==
    /\ grStatus' = [grStatus EXCEPT ![o] = status]
    /\ grPaid' = [grPaid EXCEPT ![o] = PaidAs(status, @)]
    /\ grEntries' = [grEntries EXCEPT ![o] = @ \cup EntriesOf(status, saw)]

\* mapSmmOrderStatusToGrowthStatus.
GrowthStatusOf(smm) ==
    CASE smm = "QUEUED" -> "SUBMITTED"
      [] smm = "PROCESSING" -> "IN_PROGRESS"
      [] smm = "COMPLETED" -> "COMPLETED"
      [] smm = "CANCELLED" -> "REFUNDED"
      [] OTHER -> "FAILED"

-----------------------------------------------------------------------------
(* createGrowthOrder.                                                      *)

\* No order with its key was found.
BeginGrowthOrder(p, o) ==
    /\ grStatus[o] = "NONE"
    /\ Start(p, "order", o, "none", "reserve")
    /\ UNCHANGED grVars

\* One transaction: the HOLD and the order; it fails when the wallet cannot pay,
\* or when another request has stored an order with the key.
ReserveFunds(p) ==
    LET o == job[p].of IN
    /\ At(p, "order", "reserve")
    /\ \/ /\ grStatus[o] = "NONE"
          /\ grStatus' = [grStatus EXCEPT ![o] = "PENDING"]
          /\ grPaid' = [grPaid EXCEPT ![o] = "FUNDS_RESERVED"]
          /\ grEntries' = [grEntries EXCEPT ![o] = {"reserve"}]
          /\ Goto(p, "review") \/ Goto(p, "supply")
       \/ Return(p) /\ UNCHANGED <<grStatus, grPaid, grEntries>>
    /\ UNCHANGED <<grRef, grSupplier>>

\* Held back for a person.
HoldForReview(p) ==
    /\ At(p, "order", "review")
    /\ Return(p)
    /\ grPaid' = [grPaid EXCEPT ![job[p].of] = "MANUAL_REVIEW"]
    /\ UNCHANGED <<grStatus, grEntries, grRef, grSupplier>>

\* The supplier takes the order or refuses it; its answer may be lost.
SupplierCreates(p) ==
    LET o == job[p].of IN
    /\ At(p, "order", "supply")
    /\ \/ \E s \in SmmStatus :
            /\ grSupplier' = [grSupplier EXCEPT ![o] = s]
            /\ Learn(p, GrowthStatusOf(s), "apply") \/ Goto(p, "fail")
       \/ Goto(p, "fail") /\ UNCHANGED grSupplier
    /\ UNCHANGED grOrder

\* Whatever was thrown, the order is FAILED and its funds are released.
FailGrowthOrder(p) ==
    /\ At(p, "order", "fail")
    /\ Return(p)
    /\ ApplyStatus(job[p].of, "FAILED", "FUNDS_RESERVED")
    /\ UNCHANGED <<grRef, grSupplier>>

ApplyFails(p) ==
    /\ At(p, "order", "apply")
    /\ DbError(p, "fail")
    /\ UNCHANGED grVars

-----------------------------------------------------------------------------
(* Everybody's last step: the wallet is locked, the entries upserted and   *)
(* the order updated.                                                      *)

ApplyTransition(p) ==
    LET o == job[p].of IN
    /\ pc[p] = "apply"
    /\ Return(p)
    /\ ApplyStatus(o, job[p].got, IF job[p].op = "order" THEN "FUNDS_RESERVED" ELSE job[p].saw)
    /\ grRef' = IF job[p].op = "order" THEN grRef \cup {o} ELSE grRef
    /\ UNCHANGED grSupplier

\* refreshGrowthOrders: the undecided orders, and then their snapshots.
BeginRefresh(p, o) ==
    /\ o \in grRef
    /\ grStatus[o] \in GrowthActive
    /\ Start(p, "refresh", o, grPaid[o], "ask")
    /\ UNCHANGED grVars

TakeSnapshot(p) ==
    /\ At(p, "refresh", "ask")
    /\ Learn(p, GrowthStatusOf(grSupplier[job[p].of]), "apply") \/ Return(p)
    /\ UNCHANGED grVars

\* assertGrowthStatusTransition.
OperatorMaySet(current, next) ==
    \/ current = next
    \/ current \in GrowthActive
    \/ current \in {"COMPLETED", "FAILED"} /\ next = "REFUNDED"

BeginGrowthUpdate(p, o, next) ==
    /\ grStatus[o] # "NONE"
    /\ OperatorMaySet(grStatus[o], next)
    /\ pc[p] = "idle"
    /\ pc' = [pc EXCEPT ![p] = "apply"]
    /\ job' = [job EXCEPT ![p] = [op |-> "update", of |-> o, saw |-> grPaid[o], got |-> next]]
    /\ UNCHANGED <<faults, grVars>>

SupplierMoves(o) ==
    /\ grSupplier[o] \in {"QUEUED", "PROCESSING"}
    /\ \E s \in SmmStatus \ {"QUEUED"} : grSupplier' = [grSupplier EXCEPT ![o] = s]
    /\ UNCHANGED <<grOrder, handlers>>

GRNext ==
    \/ \E p \in Procs :
        \/ \E o \in GrowthOrders :
            \/ BeginGrowthOrder(p, o)
            \/ BeginRefresh(p, o)
            \/ \E s \in GrowthStatus : BeginGrowthUpdate(p, o, s)
        \/ ReserveFunds(p)
        \/ HoldForReview(p)
        \/ SupplierCreates(p)
        \/ FailGrowthOrder(p)
        \/ ApplyFails(p)
        \/ ApplyTransition(p)
        \/ TakeSnapshot(p)
        \/ Crash(p) /\ UNCHANGED grVars
    \/ \E o \in GrowthOrders : SupplierMoves(o)

GRSpec == GRInit /\ HandlersInit /\ [][GRNext]_<<grVars, handlers>>

-----------------------------------------------------------------------------
\* FIN-03: however answers, refreshes and operators overlap, the supplier is asked
\* for nothing that was not reserved, and an order that ended has the entries its
\* status stands for: captured, released, or refunded.
GrowthBacked ==
    \A o \in GrowthOrders :
        /\ grSupplier[o] # "none" \/ grStatus[o] # "NONE" => "reserve" \in grEntries[o]
        /\ grStatus[o] = "COMPLETED" => {"capture_release", "capture"} \subseteq grEntries[o]
        /\ grStatus[o] = "FAILED" => "release" \in grEntries[o]
        /\ grStatus[o] = "REFUNDED" => {"release", "refund"} \cap grEntries[o] # {}

\* FINANCIAL_REMEDIATION_REPORT.md:26: Growth "captures on completion,
\* releases/refunds idempotently": what was refunded is not released as well.
GrowthReturnedOnce ==
    \A o \in GrowthOrders : ~({"release", "refund"} \subseteq grEntries[o])
===============================================================================
