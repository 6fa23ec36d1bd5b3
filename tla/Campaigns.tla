------------------------------- MODULE Campaigns -------------------------------
(***************************************************************************)
(* The life of a managed-ads campaign: the client submits and controls it, *)
(* operators decide and run it, workflows pause it, and a sweep of the     *)
(* worker completes it when its term is over.  Every handler reads the     *)
(* campaign first and writes its status later, without looking again.  The *)
(* hold made on submission is settled by requests, which lock the wallet,  *)
(* and by the sweep, which does not.                                       *)
(***************************************************************************)
EXTENDS Handlers

CONSTANTS
    Campaigns,
    Reviews,        \* ApprovalRequest rows that may be created
    AdminStatuses   \* the statuses operators set

VARIABLES
    cpStatus,       \* Campaign.status
    cpApproved,     \* campaigns with an approvedAt
    cpLaunched,     \* campaigns with a LAUNCHED placement
    cpReport,       \* CampaignReport.status
    cpExpired,      \* campaigns whose endsAt has passed
    cpHold,         \* CampaignBudgetHold.status of the studio-submit hold
    cpEntries,      \* ledger entries of that hold
    cpReview        \* the ApprovalRequest rows

cpRow == <<cpStatus, cpApproved>>
cpWork == <<cpLaunched, cpReport, cpExpired>>
cpMoney == <<cpHold, cpEntries>>
cpVars == <<cpRow, cpWork, cpMoney, cpReview>>

CPStatus == {"DRAFT", "PENDING_REVIEW", "APPROVED", "CHANGES_REQUESTED", "CREATIVE_IN_PROGRESS",
             "QUEUED", "ACTIVE", "RUNNING", "PAUSED", "COMPLETED", "REJECTED", "CANCELLED", "FAILED"}

ASSUME CampaignsAssumption == Campaigns \cap Reviews = {} /\ AdminStatuses \subseteq CPStatus

Live == {"ACTIVE", "RUNNING", "PAUSED"}
Submittable == {"DRAFT", "CHANGES_REQUESTED"}
Changeable == {"PENDING_REVIEW", "APPROVED", "CHANGES_REQUESTED", "CREATIVE_IN_PROGRESS", "QUEUED"} \cup Live
HoldEntries == {"hold", "release", "capture_release", "capture_debit"}

\* What each client control demands of the status, and what it sets.
Controls == [pause   |-> [from |-> {"ACTIVE", "RUNNING"},     to |-> "PAUSED"],
             resume  |-> [from |-> {"PAUSED"},                to |-> "RUNNING"],
             changes |-> [from |-> Changeable,                to |-> "CHANGES_REQUESTED"],
             stop    |-> [from |-> Changeable \cup {"DRAFT"}, to |-> "CANCELLED"],
             start   |-> [from |-> CPStatus,                  to |-> "RUNNING"]]

NoReview == [status |-> "NONE", of |-> None]
ReviewRows == [status : {"PENDING", "APPROVED", "REJECTED", "EXECUTED", "EXECUTION_FAILED"}, of : Campaigns]

CPSteps == {"assess", "hold", "set", "ask", "sync", "decide", "execute", "executed", "failed",
            "settle", "close"}
CPJobs == [op : DOMAIN Controls \cup {"submit", "admin", "approve", "reject", "release", "capture", "sweep"},
           of : Campaigns \cup Reviews, saw : {"none"},
           got : CPStatus \cup {"none", "settled"}]

CPTypeOK ==
    /\ cpStatus \in [Campaigns -> CPStatus]
    /\ cpApproved \subseteq Campaigns /\ cpLaunched \subseteq Campaigns /\ cpExpired \subseteq Campaigns
    /\ cpReport \in [Campaigns -> {"NONE", "DRAFT", "PUBLISHED"}]
    /\ cpHold \in [Campaigns -> {"NONE", "ACTIVE", "RELEASED", "CAPTURED"}]
    /\ cpEntries \in [Campaigns -> SUBSET HoldEntries]
    /\ cpReview \in [Reviews -> ReviewRows \cup {NoReview}]

CPInit ==
    /\ cpStatus = [c \in Campaigns |-> "DRAFT"]
    /\ cpApproved = {} /\ cpLaunched = {} /\ cpExpired = {}
    /\ cpReport = [c \in Campaigns |-> "NONE"]
    /\ cpHold = [c \in Campaigns |-> "NONE"]
    /\ cpEntries = [c \in Campaigns |-> {}]
    /\ cpReview = [a \in Reviews |-> NoReview]

CampaignOf(p) == IF job[p].of \in Reviews THEN cpReview[job[p].of].of ELSE job[p].of

\* The row locks of open transactions: the sweep's on its campaign, a settling
\* request's on the wallet of its campaign's hold.
RowFree(c) == \A p \in Procs : pc[p] = "close" => job[p].of # c
WalletFree(c) == \A p \in Procs : pc[p] = "settle" => job[p].of # c

-----------------------------------------------------------------------------
(* A new status, in one transaction.  The status read before it was        *)
(* checked; the one that is there now is not.                              *)

BeginControl(p, c, op) ==
    /\ cpStatus[c] \in Controls[op].from
    /\ pc[p] = "idle"
    /\ pc' = [pc EXCEPT ![p] = "set"]
    /\ job' = [job EXCEPT ![p] = [op |-> op, of |-> c, saw |-> "none", got |-> Controls[op].to]]
    /\ UNCHANGED <<faults, cpVars>>

\* assertAdminStatusGuardrails.
AdminMaySet(c, s) ==
    /\ s \in {"RUNNING", "ACTIVE"} => c \in cpLaunched
    /\ s = "COMPLETED" => cpReport[c] = "PUBLISHED"

BeginAdminStatus(p, c, s) ==
    /\ AdminMaySet(c, s)
    /\ pc[p] = "idle"
    /\ pc' = [pc EXCEPT ![p] = "set"]
    /\ job' = [job EXCEPT ![p] = [op |-> "admin", of |-> c, saw |-> "none", got |-> s]]
    /\ UNCHANGED <<faults, cpVars>>

\* What the handler does when its status is written.
AfterStatus(p) ==
    CASE job[p].op = "approve" -> Goto(p, "executed")
      [] job[p].op = "admin" /\ job[p].got \in {"APPROVED", "REJECTED"} -> Goto(p, "sync")
      [] job[p].op \in {"admin", "submit"} /\ job[p].got = "PENDING_REVIEW" -> Goto(p, "ask")
      [] OTHER -> Return(p)

\* applyClientStatusControl and changeCampaignStatus.
SetStatus(p) ==
    LET c == CampaignOf(p) IN
    /\ pc[p] = "set"
    /\ RowFree(c)
    /\ cpStatus' = [cpStatus EXCEPT ![c] = job[p].got]
    /\ cpApproved' = IF job[p].got = "APPROVED" THEN cpApproved \cup {c} ELSE cpApproved
    /\ AfterStatus(p)
    /\ UNCHANGED <<cpWork, cpMoney, cpReview>>

-----------------------------------------------------------------------------
(* Submission: the risk decides, the budget is held, the review asked for. *)

BeginSubmit(p, c) ==
    /\ cpStatus[c] \in Submittable
    /\ Start(p, "submit", c, "none", "assess")
    /\ UNCHANGED cpVars

\* BLOCK, or ALLOW and REVIEW.
Assess(p) ==
    /\ At(p, "submit", "assess")
    /\ RowFree(job[p].of)
    /\ Learn(p, "REJECTED", "set") \/ Learn(p, "PENDING_REVIEW", "hold")
    /\ UNCHANGED cpVars

\* A hold with the same key is returned, whatever became of it; a wallet that
\* cannot pay ends the request.
HoldBudget(p) ==
    LET c == job[p].of IN
    /\ At(p, "submit", "hold")
    /\ WalletFree(c)
    /\ \/ Goto(p, "set") /\ cpHold[c] # "NONE" /\ UNCHANGED cpMoney
       \/ /\ cpHold[c] = "NONE" /\ Goto(p, "set")
          /\ cpHold' = [cpHold EXCEPT ![c] = "ACTIVE"]
          /\ cpEntries' = [cpEntries EXCEPT ![c] = {"hold"}]
       \/ cpHold[c] = "NONE" /\ Return(p) /\ UNCHANGED cpMoney
    /\ UNCHANGED <<cpRow, cpWork, cpReview>>

SetReview(a, s) == cpReview' = [cpReview EXCEPT ![a].status = s]

\* One PENDING review is enough; that of another handler may come in between, and
\* a failure is swallowed, so both a new row and none are possible.
AskReview(p) ==
    LET c == job[p].of IN
    /\ pc[p] = "ask"
    /\ Return(p)
    /\ \/ \E a \in Reviews :
            /\ cpReview[a] = NoReview
            /\ cpReview' = [cpReview EXCEPT ![a] = [status |-> "PENDING", of |-> c]]
       \/ UNCHANGED cpReview
    /\ UNCHANGED <<cpRow, cpWork, cpMoney>>

-----------------------------------------------------------------------------
(* The decision: in the queue of approvals, which executes it, or by the   *)
(* status itself, with which the queue is brought in line.                 *)

\* syncExternalDecision, of whatever review is PENDING by then.
SyncReview(p) ==
    /\ At(p, "admin", "sync")
    /\ Return(p)
    /\ \/ \E a \in Reviews :
            /\ cpReview[a] = [status |-> "PENDING", of |-> job[p].of]
            /\ SetReview(a, IF job[p].got = "APPROVED" THEN "EXECUTED" ELSE "REJECTED")
       \/ (\A a \in Reviews : cpReview[a] # [status |-> "PENDING", of |-> job[p].of]) /\ UNCHANGED cpReview
    /\ UNCHANGED <<cpRow, cpWork, cpMoney>>

BeginReview(p, a, op) ==
    /\ cpReview[a].status = "PENDING"
    /\ Start(p, op, a, "none", "decide")
    /\ UNCHANGED cpVars

\* decide, of a review that was PENDING.  A rejection runs its handler at once.
DecideReview(p) ==
    /\ pc[p] = "decide"
    /\ IF job[p].op = "approve"
       THEN SetReview(job[p].of, "APPROVED") /\ Goto(p, "execute")
       ELSE SetReview(job[p].of, "REJECTED") /\ Learn(p, "REJECTED", "set")
    /\ UNCHANGED <<cpRow, cpWork, cpMoney>>

ExecuteReview(p) ==
    /\ At(p, "approve", "execute")
    /\ IF cpReview[job[p].of].status = "APPROVED" THEN Learn(p, "APPROVED", "set") ELSE Return(p)
    /\ UNCHANGED cpVars

\* Mutant: a failure is marked like a success.
MarkAnyway(p) ==
    /\ At(p, "approve", "executed") \/ At(p, "approve", "failed")
    /\ Return(p)
    /\ SetReview(job[p].of, "EXECUTED")
    /\ UNCHANGED <<cpRow, cpWork, cpMoney>>

MarkReviewed(p) ==
    /\ At(p, "approve", "executed") \/ At(p, "approve", "failed")
    /\ Return(p)
    /\ SetReview(job[p].of, IF pc[p] = "executed" THEN "EXECUTED" ELSE "EXECUTION_FAILED")
    /\ UNCHANGED <<cpRow, cpWork, cpMoney>>

\* The executor, or the mark after it, fails.
ReviewFails(p) ==
    /\ At(p, "approve", "set") \/ At(p, "approve", "executed")
    /\ DbError(p, "failed")
    /\ UNCHANGED cpVars

-----------------------------------------------------------------------------
(* Delivery.                                                               *)

CreateManualPlacement(c) ==
    /\ c \notin cpLaunched
    /\ cpLaunched' = cpLaunched \cup {c}
    /\ UNCHANGED <<cpRow, cpReport, cpExpired, cpMoney, cpReview, handlers>>

\* Only once the campaign was launched.
AdvanceReport(c) ==
    /\ cpStatus[c] \in Live \cup {"COMPLETED"} \/ c \in cpLaunched
    /\ \/ cpReport[c] = "NONE" /\ cpReport' = [cpReport EXCEPT ![c] = "DRAFT"]
       \/ cpReport[c] = "DRAFT" /\ cpReport' = [cpReport EXCEPT ![c] = "PUBLISHED"]
    /\ UNCHANGED <<cpRow, cpLaunched, cpExpired, cpMoney, cpReview, handlers>>

TermEnds(c) ==
    /\ c \notin cpExpired
    /\ cpExpired' = cpExpired \cup {c}
    /\ UNCHANGED <<cpRow, cpLaunched, cpReport, cpMoney, cpReview, handlers>>

\* executeAction of a workflow: whatever the status is, a finished or unreviewed
\* campaign's included.
PauseByWorkflow(c) ==
    /\ RowFree(c)
    /\ cpStatus' = [cpStatus EXCEPT ![c] = "PAUSED"]
    /\ UNCHANGED <<cpApproved, cpWork, cpMoney, cpReview, handlers>>

-----------------------------------------------------------------------------
(* The hold.                                                               *)

\* releaseBudgetHold and captureBudgetHold lock the wallet and read the hold again.
BeginSettle(p, c, op) ==
    /\ WalletFree(c)
    /\ cpHold[c] = "ACTIVE"
    /\ Start(p, op, c, "none", "settle")
    /\ UNCHANGED cpVars

\* Mutant: a release is not written to the ledger.
SettleUnbooked(p) ==
    LET c == job[p].of IN
    /\ pc[p] = "settle"
    /\ Return(p)
    /\ cpHold' = [cpHold EXCEPT ![c] = IF job[p].op = "release" THEN "RELEASED" ELSE "CAPTURED"]
    /\ cpEntries' = [cpEntries EXCEPT ![c] =
            @ \cup IF job[p].op = "release" THEN {} ELSE {"capture_release", "capture_debit"}]
    /\ UNCHANGED <<cpRow, cpWork, cpReview>>

\* The entries are upserted by their keys, and the transaction commits.
Settle(p) ==
    LET c == job[p].of IN
    /\ pc[p] = "settle"
    /\ Return(p)
    /\ cpHold' = [cpHold EXCEPT ![c] = IF job[p].op = "release" THEN "RELEASED" ELSE "CAPTURED"]
    /\ cpEntries' = [cpEntries EXCEPT ![c] =
            @ \cup IF job[p].op = "release" THEN {"release"} ELSE {"capture_release", "capture_debit"}]
    /\ UNCHANGED <<cpRow, cpWork, cpReview>>

\* Mutant: a paused campaign is not swept.
SweepUnpaused(p, c) ==
    /\ c \in cpExpired
    /\ cpStatus[c] \in Live \ {"PAUSED"}
    /\ RowFree(c)
    /\ pc[p] = "idle"
    /\ pc' = [pc EXCEPT ![p] = "close"]
    /\ job' = [job EXCEPT ![p] = [op |-> "sweep", of |-> c, saw |-> "none",
                                  got |-> IF cpHold[c] = "ACTIVE" THEN "none" ELSE "settled"]]
    /\ UNCHANGED <<faults, cpVars>>

\* The conditional UPDATE, which keeps the row locked until the transaction
\* commits, and the search for ACTIVE holds, which locks nothing.
SweepCampaign(p, c) ==
    /\ c \in cpExpired
    /\ cpStatus[c] \in Live
    /\ RowFree(c)
    /\ pc[p] = "idle"
    /\ pc' = [pc EXCEPT ![p] = "close"]
    /\ job' = [job EXCEPT ![p] = [op |-> "sweep", of |-> c, saw |-> "none",
                                  got |-> IF cpHold[c] = "ACTIVE" THEN "none" ELSE "settled"]]
    /\ UNCHANGED <<faults, cpVars>>

\* The RELEASE entry refers to the wallet, and waits for whoever has locked it.
CloseCampaign(p) ==
    LET c == job[p].of IN
    /\ At(p, "sweep", "close")
    /\ Return(p)
    /\ cpStatus' = [cpStatus EXCEPT ![c] = "COMPLETED"]
    /\ \/ /\ job[p].got = "none" /\ WalletFree(c)
          /\ cpHold' = [cpHold EXCEPT ![c] = "RELEASED"]
          /\ cpEntries' = [cpEntries EXCEPT ![c] = @ \cup {"release"}]
       \/ job[p].got = "settled" /\ UNCHANGED cpMoney
    /\ UNCHANGED <<cpApproved, cpWork, cpReview>>

-----------------------------------------------------------------------------

CPStep(p) ==
    \/ SetStatus(p)
    \/ Assess(p)
    \/ HoldBudget(p)
    \/ AskReview(p)
    \/ SyncReview(p)
    \/ DecideReview(p)
    \/ ExecuteReview(p)
    \/ MarkReviewed(p)
    \/ Settle(p)
    \/ CloseCampaign(p)

CPNext ==
    \/ \E p \in Procs :
        \/ CPStep(p)
        \/ \E c \in Campaigns :
            \/ \E op \in DOMAIN Controls : BeginControl(p, c, op)
            \/ \E s \in AdminStatuses : BeginAdminStatus(p, c, s)
            \/ BeginSubmit(p, c)
            \/ \E op \in {"release", "capture"} : BeginSettle(p, c, op)
            \/ SweepCampaign(p, c)
        \/ \E a \in Reviews, op \in {"approve", "reject"} : BeginReview(p, a, op)
        \/ ReviewFails(p)
        \/ Crash(p) /\ UNCHANGED cpVars
    \/ \E c \in Campaigns :
        CreateManualPlacement(c) \/ AdvanceReport(c) \/ TermEnds(c) \/ PauseByWorkflow(c)

\* A handler goes on until it ends or its process dies; the sweep runs every
\* fifteen minutes, and a campaign that is live whenever it looks is found.
CPFairness ==
    /\ \A p \in Procs : WF_<<cpVars, handlers>>(CPStep(p))
    /\ \A c \in Campaigns : SF_<<cpVars, handlers>>(\E p \in Procs : SweepCampaign(p, c))

CPSpec == CPInit /\ HandlersInit /\ [][CPNext]_<<cpVars, handlers>>

-----------------------------------------------------------------------------
\* syncExternalDecision records a decision "after the action already happened
\* elsewhere": no review is EXECUTED unless its campaign was approved.
ReviewHonoured ==
    \A a \in Reviews : cpReview[a].status = "EXECUTED" => cpReview[a].of \in cpApproved

\* However releases, captures and the sweep overlap and repeat: a settled hold has
\* the entries its status stands for, and an ACTIVE or missing hold has none of them.
HoldBacked ==
    \A c \in Campaigns :
        /\ cpHold[c] = "RELEASED" => "release" \in cpEntries[c]
        /\ cpHold[c] = "CAPTURED" => {"capture_release", "capture_debit"} \subseteq cpEntries[c]
        /\ cpHold[c] = "ACTIVE" => cpEntries[c] = {"hold"}
        /\ cpHold[c] = "NONE" => cpEntries[c] = {}

\* runLifecycleSweep: a live campaign whose term is over does not stay live.
ExpiredCompletes ==
    \A c \in Campaigns :
        c \in cpExpired /\ cpStatus[c] \in Live ~> cpStatus[c] \notin Live

\* FINANCIAL_REMEDIATION_REPORT.md:30: "Wallet locks plus locked hold re-read
\* prevent stale ACTIVE hold mutations": a hold is given back once.
HoldReturnedOnce ==
    \A c \in Campaigns : ~({"release", "capture_release"} \subseteq cpEntries[c])
===============================================================================
