----------------------------- MODULE AccessRefunds -----------------------------
(***************************************************************************)
(* Requests for digital access, charged when they are made, and their      *)
(* refund, which one operator asks for and another approves.  Requests and *)
(* status updates are Serializable transactions, each one action; the      *)
(* approval is read and written without one.                               *)
(***************************************************************************)
EXTENDS Handlers

CONSTANTS
    DARequests,     \* requests customers may make
    DAApprovals,    \* approvals operators may ask for
    Admins          \* operators

ASSUME AccessAssumption == None \notin Admins \cup DARequests

VARIABLES
    daStatus,       \* DigitalAccessRequest.status
    daCharge,       \* DigitalAccessWalletCharge.status
    daApproval      \* the ApprovalRequest rows

daVars == <<daStatus, daCharge, daApproval>>

DAStatus == {"PENDING", "PROCESSING", "FULFILLED", "CANCELLED", "FAILED"}
Terminal == {"FULFILLED", "CANCELLED", "FAILED"}
Refunding == {"CANCELLED", "FAILED"}
ApprovalStatus == {"PENDING", "APPROVED", "REJECTED", "EXECUTED", "EXECUTION_FAILED"}

NoApproval == [status |-> "NONE", of |-> None, to |-> "NONE", by |-> None, decider |-> None]
ApprovalRows ==
    [status : ApprovalStatus, of : DARequests, to : Refunding, by : Admins, decider : Admins \cup {None}]

DASteps == {"decide", "execute", "perform", "executed", "failed"}
DAJobs == [op : {"approve", "reject", "approve_only"}, of : DAApprovals \X Admins,
           saw : {"PENDING"}, got : {"none"}]

DATypeOK ==
    /\ daStatus \in [DARequests -> DAStatus \cup {"NONE"}]
    /\ daCharge \in [DARequests -> {"NONE", "CHARGED", "REFUNDED"}]
    /\ daApproval \in [DAApprovals -> ApprovalRows \cup {NoApproval}]

DAInit ==
    /\ daStatus = [r \in DARequests |-> "NONE"]
    /\ daCharge = [r \in DARequests |-> "NONE"]
    /\ daApproval = [a \in DAApprovals |-> NoApproval]

-----------------------------------------------------------------------------

\* The request, the DEBIT entry and the charge; a second call with the same
\* idempotency key finds them.
CreateAccessRequest(r) ==
    /\ daStatus[r] = "NONE"
    /\ daStatus' = [daStatus EXCEPT ![r] = "PENDING"]
    /\ daCharge' = [daCharge EXCEPT ![r] = "CHARGED"]
    /\ UNCHANGED <<daApproval, handlers>>

\* Mutant: only the way back to PENDING is closed.
MayBecomeAny(current, next) == current = next \/ next # "PENDING"

MayBecome(current, next) == current = next \/ (current \notin Terminal /\ next # "PENDING")

\* performStatusUpdate: the status, and the refund it brings with it.
SetAccessStatus(r, s) ==
    /\ daStatus[r] # "NONE"
    /\ MayBecome(daStatus[r], s)
    /\ daStatus' = [daStatus EXCEPT ![r] = s]
    /\ daCharge' = [daCharge EXCEPT ![r] = IF s \in Refunding /\ s # daStatus[r] THEN "REFUNDED" ELSE @]
    /\ UNCHANGED daApproval

UpdateAccessStatus(r, s) ==
    /\ s \notin Refunding
    /\ SetAccessStatus(r, s)
    /\ UNCHANGED handlers

\* A status that refunds is not set but asked for.
AskRefund(a, r, s, admin) ==
    /\ daApproval[a] = NoApproval
    /\ daStatus[r] \notin {"NONE", s}
    /\ s \in Refunding
    /\ daApproval' = [daApproval EXCEPT ![a] =
            [status |-> "PENDING", of |-> r, to |-> s, by |-> admin, decider |-> None]]
    /\ UNCHANGED <<daStatus, daCharge, handlers>>

-----------------------------------------------------------------------------
(* The decision: approveRefund, rejectRefund, or the unified queue, which  *)
(* has no executor for these approvals and only records the decision.      *)

Decider(p) == job[p].of[2]
ApprovalOf(p) == job[p].of[1]

SetApproval(a, s) ==
    /\ daApproval' = [daApproval EXCEPT ![a].status = s]
    /\ UNCHANGED <<daStatus, daCharge>>

\* Mutant: whoever asked may decide.
BeginOwnDecide(p, a, admin, op) ==
    /\ daApproval[a].status = "PENDING"
    /\ Start(p, op, <<a, admin>>, "PENDING", "decide")
    /\ UNCHANGED daVars

BeginDecide(p, a, admin, op) ==
    /\ daApproval[a].status = "PENDING"
    /\ daApproval[a].by # admin
    /\ Start(p, op, <<a, admin>>, "PENDING", "decide")
    /\ UNCHANGED daVars

\* Whatever the approval's status is by now.
Decide(p) ==
    /\ pc[p] = "decide"
    /\ daApproval' = [daApproval EXCEPT ![ApprovalOf(p)] =
            [@ EXCEPT !.status = IF job[p].op = "reject" THEN "REJECTED" ELSE "APPROVED",
                      !.decider = Decider(p)]]
    /\ IF job[p].op = "approve" THEN Goto(p, "execute") ELSE Return(p)
    /\ UNCHANGED <<daStatus, daCharge>>

ExecuteApproval(p) ==
    /\ pc[p] = "execute"
    /\ IF daApproval[ApprovalOf(p)].status = "APPROVED" THEN Goto(p, "perform") ELSE Return(p)
    /\ UNCHANGED daVars

\* One Serializable transaction; it refuses a request that ended meanwhile.
PerformRefund(p) ==
    LET a == daApproval[ApprovalOf(p)] IN
    /\ pc[p] = "perform"
    /\ \/ SetAccessStatus(a.of, a.to) /\ Goto(p, "executed")
       \/ ~MayBecome(daStatus[a.of], a.to) /\ Goto(p, "failed") /\ UNCHANGED daVars

MarkExecuted(p) ==
    /\ pc[p] = "executed"
    /\ SetApproval(ApprovalOf(p), "EXECUTED")
    /\ Return(p)

MarkExecutionFailed(p) ==
    /\ pc[p] = "failed"
    /\ SetApproval(ApprovalOf(p), "EXECUTION_FAILED")
    /\ Return(p)

\* The transaction, or the mark after it, fails.
ExecutionError(p) ==
    /\ pc[p] \in {"perform", "executed"}
    /\ DbError(p, "failed")
    /\ UNCHANGED daVars

DANext ==
    \/ \E r \in DARequests :
        \/ CreateAccessRequest(r)
        \/ \E s \in DAStatus : UpdateAccessStatus(r, s)
        \/ \E s \in DAStatus, a \in DAApprovals, admin \in Admins : AskRefund(a, r, s, admin)
    \/ \E p \in Procs :
        \/ \E a \in DAApprovals, admin \in Admins, op \in {"approve", "reject", "approve_only"} :
            BeginDecide(p, a, admin, op)
        \/ Decide(p)
        \/ ExecuteApproval(p)
        \/ PerformRefund(p)
        \/ MarkExecuted(p)
        \/ MarkExecutionFailed(p)
        \/ ExecutionError(p)
        \/ Crash(p) /\ UNCHANGED daVars

DASpec == DAInit /\ HandlersInit /\ [][DANext]_<<daVars, handlers>>

-----------------------------------------------------------------------------
\* A request as PaidOrder sees it.
DAPaid(r) ==
    IF daStatus[r] = "NONE" THEN "unpaid"
    ELSE IF daCharge[r] = "REFUNDED" THEN "refunded"
    ELSE IF daStatus[r] = "FULFILLED" THEN "served" ELSE "paid"

\* Two-person control (ApprovalsService.decide): whatever approvals, rejections
\* and status updates overlap, a price is given back only if one operator asked
\* for it and another decided, and never for a request that was fulfilled.
RefundNeedsTwo ==
    \A r \in DARequests :
        /\ daCharge[r] = "REFUNDED" <=> daStatus[r] \in Refunding
        /\ daCharge[r] = "REFUNDED" =>
            \E a \in DAApprovals :
                /\ daApproval[a].of = r
                /\ daApproval[a].decider \notin {None, daApproval[a].by}
===============================================================================
