---------------------------- MODULE VirtualNumbers ----------------------------
(***************************************************************************)
(* Rented phone numbers: the purchase and the renewal, which charge the    *)
(* wallet, ask the provider and give the price back when anything fails    *)
(* (the payments saga under its policy "compensate"), the release, and the *)
(* worker's sweep over expiring numbers.  A number is named by the order   *)
(* that bought it.                                                         *)
(***************************************************************************)
EXTENDS Handlers

CONSTANTS
    VNumbers,   \* purchase orders, and the numbers they buy
    VNRenewals, \* renewal orders
    VNRenews    \* [VNRenewals -> VNumbers], the number each is to renew

ASSUME VNAssumption ==
    /\ VNRenews \in [VNRenewals -> VNumbers]
    /\ VNumbers \cap VNRenewals = {}

VARIABLES
    vnOrder,    \* VirtualNumberOrder.status
    vnCharge,   \* VirtualNumberWalletCharge.status
    vnNumber,   \* VirtualNumber.status
    vnTerm,     \* how far VirtualNumber.expiresAt is
    vnLease     \* numbers the provider has leased to us (external)

vnVars == <<vnOrder, vnCharge, vnNumber, vnTerm, vnLease>>

VNOrders == VNumbers \cup VNRenewals
NumberOf(o) == IF o \in VNumbers THEN o ELSE VNRenews[o]

VNOrderStatus == {"NONE", "CHARGED", "FULFILLED", "FAILED"}
VNStatus == {"NONE", "ACTIVE", "EXPIRING", "EXPIRED", "RELEASED"}
VNSteps == {"debit", "provision", "store", "fulfil", "margin", "compensate", "release", "released"}
VNJobs == [op : {"number", "release"}, of : VNOrders, saw : VNStatus, got : {"none"}]

VNTypeOK ==
    /\ vnOrder \in [VNOrders -> VNOrderStatus]
    /\ vnCharge \in [VNOrders -> {"NONE", "CHARGED", "REFUNDED"}]
    /\ vnNumber \in [VNumbers -> VNStatus]
    /\ vnTerm \in [VNumbers -> {"none", "far", "near", "past"}]
    /\ vnLease \subseteq VNumbers

VNInit ==
    /\ vnOrder = [o \in VNOrders |-> "NONE"]
    /\ vnCharge = [o \in VNOrders |-> "NONE"]
    /\ vnNumber = [n \in VNumbers |-> "NONE"]
    /\ vnTerm = [n \in VNumbers |-> "none"]
    /\ vnLease = {}

-----------------------------------------------------------------------------
(* Purchase and renewal.                                                   *)

\* One transaction: the order, the DEBIT entry and the charge.  The order's
\* unique key lets no second candidate charge it again.
DebitNumber(p, o) ==
    /\ vnOrder[o] = "NONE"
    /\ vnOrder' = [vnOrder EXCEPT ![o] = "CHARGED"]
    /\ vnCharge' = [vnCharge EXCEPT ![o] = "CHARGED"]
    /\ UNCHANGED <<vnNumber, vnTerm, vnLease>>

PurchaseNumber(p, n) ==
    /\ Start(p, "number", n, "NONE", "provision")
    /\ DebitNumber(p, n)

\* The number's status is read long before the wallet is debited.
RenewNumber(p, r) ==
    LET saw == vnNumber[VNRenews[r]] IN
    /\ vnOrder[r] = "NONE"
    /\ saw \in {"ACTIVE", "EXPIRING"}
    /\ Start(p, "number", r, saw, "debit")
    /\ UNCHANGED vnVars

DebitRenewal(p) ==
    /\ At(p, "number", "debit")
    /\ IF vnOrder[job[p].of] = "NONE"
       THEN Goto(p, "provision") /\ DebitNumber(p, job[p].of)
       ELSE Return(p) /\ UNCHANGED vnVars

\* The provider leases the number or refuses; either way its answer may be lost.
Provision(p) ==
    LET n == NumberOf(job[p].of) IN
    /\ At(p, "number", "provision")
    /\ \E leases \in {vnLease, vnLease \cup {n}} : \E step \in {"store", "compensate"} :
        /\ step = "store" => n \in leases
        /\ vnLease' = leases
        /\ Goto(p, step)
    /\ UNCHANGED <<vnOrder, vnCharge, vnNumber, vnTerm>>

\* A bought number is created; a renewed one is updated whatever its status is by now.
StoreNumber(p) ==
    LET n == NumberOf(job[p].of) IN
    /\ At(p, "number", "store")
    /\ Goto(p, "fulfil")
    /\ vnNumber' = [vnNumber EXCEPT ![n] = "ACTIVE"]
    /\ vnTerm' = [vnTerm EXCEPT ![n] = "far"]
    /\ UNCHANGED <<vnOrder, vnCharge, vnLease>>

FulfilOrder(p) ==
    /\ At(p, "number", "fulfil")
    /\ Goto(p, "margin")
    /\ vnOrder' = [vnOrder EXCEPT ![job[p].of] = "FULFILLED"]
    /\ UNCHANGED <<vnCharge, vnNumber, vnTerm, vnLease>>

TrackMargin(p) ==
    /\ At(p, "number", "margin")
    /\ Return(p)
    /\ UNCHANGED vnVars

\* Whatever fails after the debit, the analytics at the end included, is compensated.
ExecuteFails(p) ==
    /\ job[p].op = "number"
    /\ pc[p] \in {"store", "fulfil", "margin"}
    /\ DbError(p, "compensate")
    /\ UNCHANGED vnVars

\* Mutant: the order's status is written without the reversal.
CompensateOrderOnly(p) ==
    /\ At(p, "number", "compensate")
    /\ Return(p)
    /\ vnOrder' = [vnOrder EXCEPT ![job[p].of] = "FAILED"]
    /\ UNCHANGED <<vnCharge, vnNumber, vnTerm, vnLease>>

\* One transaction: the REVERSAL entry, the charge and the order.
CompensateNumber(p) ==
    LET o == job[p].of IN
    /\ At(p, "number", "compensate")
    /\ Return(p)
    /\ vnOrder' = [vnOrder EXCEPT ![o] = "FAILED"]
    /\ vnCharge' = [vnCharge EXCEPT ![o] = IF @ = "CHARGED" THEN "REFUNDED" ELSE @]
    /\ UNCHANGED <<vnNumber, vnTerm, vnLease>>

-----------------------------------------------------------------------------
(* Release and expiry.                                                     *)

BeginRelease(p, n) == Start(p, "release", n, vnNumber[n], "release") /\ UNCHANGED vnVars

\* By the customer or an operator.
ReleaseNumber(p, n) == vnNumber[n] \notin {"NONE", "RELEASED"} /\ BeginRelease(p, n)

\* By the worker's release job.
ReleaseExpired(p, n) == vnNumber[n] = "EXPIRED" /\ BeginRelease(p, n)

\* A provider that fails to release is ignored.
ReleaseAtProvider(p) ==
    /\ At(p, "release", "release")
    /\ Goto(p, "released")
    /\ vnLease' \in {vnLease, vnLease \ {job[p].of}}
    /\ UNCHANGED <<vnOrder, vnCharge, vnNumber, vnTerm>>

MarkReleased(p) ==
    /\ At(p, "release", "released")
    /\ Return(p)
    /\ vnNumber' = [vnNumber EXCEPT ![job[p].of] = "RELEASED"]
    /\ UNCHANGED <<vnOrder, vnCharge, vnTerm, vnLease>>

\* Mutant: only what is still ACTIVE expires.
SweepActive ==
    /\ vnNumber' = [n \in VNumbers |->
            IF vnNumber[n] = "ACTIVE" /\ vnTerm[n] = "past" THEN "EXPIRED"
            ELSE IF vnNumber[n] = "ACTIVE" /\ vnTerm[n] = "near" THEN "EXPIRING"
            ELSE vnNumber[n]]
    /\ UNCHANGED <<vnOrder, vnCharge, vnTerm, vnLease, handlers>>

\* Two updateMany statements that touch different rows.
LifecycleSweep ==
    /\ vnNumber' = [n \in VNumbers |->
            IF vnNumber[n] \in {"ACTIVE", "EXPIRING"} /\ vnTerm[n] = "past" THEN "EXPIRED"
            ELSE IF vnNumber[n] = "ACTIVE" /\ vnTerm[n] = "near" THEN "EXPIRING"
            ELSE vnNumber[n]]
    /\ UNCHANGED <<vnOrder, vnCharge, vnTerm, vnLease, handlers>>

TimePasses(n) ==
    /\ \/ vnTerm[n] = "far" /\ vnTerm' = [vnTerm EXCEPT ![n] = "near"]
       \/ vnTerm[n] = "near" /\ vnTerm' = [vnTerm EXCEPT ![n] = "past"]
    /\ UNCHANGED <<vnOrder, vnCharge, vnNumber, vnLease, handlers>>

VNStep(p) ==
    \/ DebitRenewal(p)
    \/ Provision(p)
    \/ StoreNumber(p)
    \/ FulfilOrder(p)
    \/ TrackMargin(p)
    \/ CompensateNumber(p)
    \/ ReleaseAtProvider(p)
    \/ MarkReleased(p)

VNNext ==
    \/ \E p \in Procs :
        \/ VNStep(p)
        \/ \E n \in VNumbers :
            \/ PurchaseNumber(p, n)
            \/ ReleaseNumber(p, n)
            \/ ReleaseExpired(p, n)
        \/ \E r \in VNRenewals : RenewNumber(p, r)
        \/ ExecuteFails(p)
        \/ Crash(p) /\ UNCHANGED vnVars
    \/ LifecycleSweep
    \/ \E n \in VNumbers : TimePasses(n)

VNFairness ==
    /\ \A p \in Procs : WF_<<vnVars, handlers>>(VNStep(p))
    /\ WF_<<vnVars, handlers>>(LifecycleSweep)
    /\ \A n \in VNumbers : SF_<<vnVars, handlers>>(\E p \in Procs : ReleaseExpired(p, n))

VNSpec == VNInit /\ HandlersInit /\ [][VNNext]_<<vnVars, handlers>>

-----------------------------------------------------------------------------
(* What a customer may rely on.                                            *)

\* An order of a number as PaidOrder sees it.
VNPaid(o) ==
    CASE vnOrder[o] = "NONE" -> "unpaid"
      [] vnOrder[o] = "CHARGED" -> "paid"
      [] vnOrder[o] = "FULFILLED" -> "served"
      [] vnOrder[o] = "FAILED" -> "refunded"

\* However a purchase or a renewal fails, and at whatever step of runChargeSaga,
\* the charge is given back exactly when the order says FAILED; and no number is
\* leased or shown whose purchase was never charged.
VNSettled ==
    /\ \A o \in VNOrders :
        /\ vnOrder[o] = "FAILED" <=> vnCharge[o] = "REFUNDED"
        /\ vnOrder[o] = "NONE" <=> vnCharge[o] = "NONE"
    /\ \A n \in VNumbers :
        n \in vnLease \/ vnNumber[n] # "NONE" => vnOrder[n] # "NONE"

\* processLifecycleSweep and processRelease: a number past its term is released,
\* unless a renewal prolongs it, though other handlers write its status meanwhile.
ExpiredIsReleased ==
    \A n \in VNumbers :
        vnNumber[n] # "NONE" /\ vnTerm[n] = "past" ~> vnNumber[n] = "RELEASED" \/ vnTerm[n] # "past"
===============================================================================
