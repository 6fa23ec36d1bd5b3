------------------------------ MODULE MCServices ------------------------------
(***************************************************************************)
(* Campaigns and the services that sell from the wallet, for TLC.  They    *)
(* share the ledger but no row, so each behaviour exercises one of them    *)
(* ("focus") and the state spaces add up instead of multiplying.           *)
(***************************************************************************)
EXTENDS VirtualNumbers, AccessRefunds, GuestCheckout, RmbOrders, Payouts, Rewards,
        Campaigns, Growth, Telecom, Receivables, Vouchers, TLC

CONSTANTS Focuses, n1, q1

VARIABLE focus

MCRenews == [r \in VNRenewals |-> n1]
MCQuote == [r \in Remittances |-> q1]
MCSymmetry ==
    UNION {Permutations(Procs), Permutations(Charges), Permutations(Participants), Permutations(Reviews)}

vars == <<focus, handlers, vnVars, daVars, gtVars, rmVars, poVars, rwVars,
          grVars, tgVars, rcVars, vcVars, cpVars>>

Init ==
    /\ focus \in Focuses
    /\ HandlersInit
    /\ VNInit /\ DAInit /\ GTInit /\ RMInit /\ POInit /\ RWInit
    /\ GRInit /\ TGInit /\ RCInit /\ VCInit /\ CPInit

\* What is out of focus stands still.
Only(f) ==
    /\ focus = f
    /\ UNCHANGED focus
    /\ IF f = "numbers" THEN TRUE ELSE UNCHANGED vnVars
    /\ IF f = "access" THEN TRUE ELSE UNCHANGED daVars
    /\ IF f = "guest" THEN TRUE ELSE UNCHANGED gtVars
    /\ IF f = "rmb" THEN TRUE ELSE UNCHANGED rmVars
    /\ IF f = "payouts" THEN TRUE ELSE UNCHANGED poVars
    /\ IF f = "rewards" THEN TRUE ELSE UNCHANGED rwVars
    /\ IF f = "growth" THEN TRUE ELSE UNCHANGED grVars
    /\ IF f = "telecom" THEN TRUE ELSE UNCHANGED tgVars
    /\ IF f = "vouchers" THEN TRUE ELSE UNCHANGED vcVars
    /\ IF f \in {"invoices", "links"} THEN TRUE ELSE UNCHANGED rcVars
    /\ IF f \in {"reviews", "delivery"} THEN TRUE ELSE UNCHANGED cpVars

\* Invoices and links share the code of their webhook and nothing else; a campaign
\* has too many operations for all of them at once, so that its review and its
\* delivery are explored apart.
PaidFor(xs) == \A m \in Charges : gwFor'[m] \in xs \cup {None}
Handling(ops) == \A p \in Procs : job'[p].op \in ops \cup {"none"}

Next ==
    \/ Only("numbers") /\ VNNext
    \/ Only("access") /\ DANext
    \/ Only("guest") /\ GTNext
    \/ Only("rmb") /\ RMNext
    \/ Only("payouts") /\ PONext
    \/ Only("rewards") /\ RWNext
    \/ Only("growth") /\ GRNext
    \/ Only("telecom") /\ TGNext
    \/ Only("vouchers") /\ VCNext
    \/ Only("invoices") /\ RCNext /\ PaidFor(Invoices) /\ UNCHANGED lkVars
    \/ Only("links") /\ RCNext /\ PaidFor(Links) /\ UNCHANGED ivVars
    \/ /\ Only("reviews") /\ CPNext
       /\ Handling({"submit", "admin", "approve", "reject", "changes"})
       /\ UNCHANGED cpWork
    \/ /\ Only("delivery") /\ CPNext
       /\ Handling({"submit", "admin", "start", "pause", "resume", "release", "capture", "sweep"})
       /\ UNCHANGED cpReview

Spec == Init /\ [][Next]_vars

\* The fair actions of a service are disabled where it is not the focus.
FairSpec == Spec /\ VNFairness /\ GTFairness /\ CPFairness

TypeOK ==
    /\ HandlersTypeOK(
            UNION {VNSteps, DASteps, GTSteps, RMSteps, POSteps, RWSteps, GRSteps, TGSteps, RCSteps, VCSteps, CPSteps},
            UNION {VNJobs, DAJobs, GTJobs, RMJobs, POJobs, RWJobs, GRJobs, TGJobs, RCJobs, VCJobs, CPJobs})
    /\ VNTypeOK /\ DATypeOK /\ GTTypeOK /\ RMTypeOK /\ POTypeOK /\ RWTypeOK
    /\ GRTypeOK /\ TGTypeOK /\ RCTypeOK /\ VCTypeOK /\ CPTypeOK

-----------------------------------------------------------------------------
(* The services as sellers.                                                *)

Sold == VNOrders \cup DARequests \cup Withdrawals

SoldState == [o \in Sold |->
    IF o \in VNOrders THEN VNPaid(o)
    ELSE IF o \in DARequests THEN DAPaid(o) ELSE WithdrawalPaid(o)]

Order == INSTANCE PaidOrder WITH Orders <- Sold, Revocable <- VNOrders, state <- SoldState

\* Every order of a number, of digital access and of a withdrawal is charged once,
\* given back at most once and never served afterwards, whatever fails in the saga,
\* the approvals or the provider.
SellersKeepPromise == Order!Spec
===============================================================================
