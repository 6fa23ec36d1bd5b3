-------------------------------- MODULE Rewards --------------------------------
(***************************************************************************)
(* A reward campaign: participants complete tasks, which verifiers,        *)
(* webhooks and operators judge; whoever has completed the required ones   *)
(* takes one of the campaign's slots and is paid by a job of the worker.   *)
(***************************************************************************)
EXTENDS Handlers

CONSTANTS
    Participants,
    RwTasks,        \* the campaign's required tasks
    RwTotals,       \* numbers of slots its owner may set
    RwStatuses,     \* statuses its owner may ask for, "NONE" for no other
    MaxReturns      \* bound on the slots operators give back

ASSUME RewardsAssumption ==
    /\ IsFiniteSet(Participants)
    /\ RwTotals \subseteq Nat \ {0}
    /\ RwStatuses \subseteq {"NONE", "ACTIVE", "PAUSED", "COMPLETED", "CANCELLED"}
    /\ MaxReturns \in Nat

VARIABLES
    rwStatus,       \* RewardCampaign.status
    rwTotal,        \* RewardCampaign.totalSlots
    rwClaimed,      \* RewardCampaign.claimedSlots
    rwTask,         \* TaskCompletion.status of each task and participant
    rwEntitled,     \* RewardEntitlement.status of each participant
    rwFulfilled,    \* RewardFulfillment.status of each participant
    rwCredits,      \* CREDIT entries of each participant's entitlement
    rwQueue,        \* participants whose fulfil job is queued (external)
    rwReturned      \* slots given back so far

rwCampaign == <<rwStatus, rwTotal>>
rwPayment == <<rwFulfilled, rwCredits>>
rwVars == <<rwCampaign, rwClaimed, rwTask, rwEntitled, rwPayment, rwQueue, rwReturned>>

CampaignStatus == {"ACTIVE", "PAUSED", "COMPLETED", "CANCELLED"}
TaskStatus == {"NONE", "PENDING_VERIFICATION", "VERIFIED", "REJECTED"}
EntitlementStatus == {"NONE", "RESERVED", "FULFILLMENT_PENDING", "FULFILLED", "FAILED", "REVERSED"}

RWSteps == {"verify", "resolve", "qualify", "existing", "claim", "count", "entitle", "complete",
            "enqueue", "pend", "credit", "ambiguous", "failed", "update"}
RWJobs ==
    [op : {"task", "fulfil"}, of : (RwTasks \cup {None}) \X Participants,
     saw : {"NONE", "RESERVED", "FULFILLMENT_PENDING", "PENDING_VERIFICATION"},
     got : {"none", "open", "full"}]
    \cup [op : {"update"}, of : {None}, saw : CampaignStatus \cup {"NONE"}, got : {"none"}]

RWTypeOK ==
    /\ rwStatus \in CampaignStatus
    /\ rwTotal \in RwTotals
    /\ rwClaimed \in Nat
    /\ rwTask \in [RwTasks \X Participants -> TaskStatus]
    /\ rwEntitled \in [Participants -> EntitlementStatus]
    /\ rwFulfilled \in [Participants -> {"NONE", "SUCCESS", "AMBIGUOUS", "FAILED"}]
    /\ rwCredits \in [Participants -> Nat]
    /\ rwQueue \subseteq Participants
    /\ rwReturned \in 0..MaxReturns

\* The campaign has been activated, which ends the adding of tasks.
RWInit ==
    /\ rwStatus = "ACTIVE"
    /\ rwTotal \in RwTotals
    /\ rwClaimed = 0
    /\ rwTask = [c \in RwTasks \X Participants |-> "NONE"]
    /\ rwEntitled = [u \in Participants |-> "NONE"]
    /\ rwFulfilled = [u \in Participants |-> "NONE"]
    /\ rwCredits = [u \in Participants |-> 0]
    /\ rwQueue = {}
    /\ rwReturned = 0

TaskOf(p) == job[p].of
WhoOf(p) == job[p].of[2]

-----------------------------------------------------------------------------
(* Tasks.                                                                  *)

ValidStatusTransition(from, to) ==
    \/ from = "ACTIVE" /\ to \in {"PAUSED", "COMPLETED", "CANCELLED"}
    \/ from = "PAUSED" /\ to \in {"ACTIVE", "CANCELLED"}
    \/ from = to

\* The status asked for, if any, must follow the one that is read.
BeginUpdateCampaign(p, s) ==
    /\ s = "NONE" \/ ValidStatusTransition(rwStatus, s)
    /\ Start(p, "update", None, s, "update")
    /\ UNCHANGED rwVars

\* Whatever the status is by now, and whatever slots were claimed.
UpdateRewardCampaign(p) ==
    /\ At(p, "update", "update")
    /\ Return(p)
    /\ rwTotal' \in RwTotals
    /\ rwStatus' = IF job[p].saw = "NONE" THEN rwStatus ELSE job[p].saw
    /\ UNCHANGED <<rwClaimed, rwTask, rwEntitled, rwPayment, rwQueue, rwReturned>>

\* The unique key of the completion lets each task be submitted once.
SubmitTask(p, c) ==
    /\ rwStatus = "ACTIVE"
    /\ rwClaimed < rwTotal
    /\ rwTask[c] = "NONE"
    /\ rwTask' = [rwTask EXCEPT ![c] = "PENDING_VERIFICATION"]
    /\ Start(p, "task", c, "NONE", "verify")
    /\ UNCHANGED <<rwCampaign, rwClaimed, rwEntitled, rwPayment, rwQueue, rwReturned>>

SetTask(c, s) ==
    /\ rwTask' = [rwTask EXCEPT ![c] = s]
    /\ UNCHANGED <<rwCampaign, rwClaimed, rwEntitled, rwPayment, rwQueue, rwReturned>>

\* Verified or rejected at once, or left to a webhook or an operator.
VerifyTask(p) ==
    /\ At(p, "task", "verify")
    /\ \/ Goto(p, "qualify") /\ SetTask(TaskOf(p), "VERIFIED")
       \/ Return(p) /\ SetTask(TaskOf(p), "REJECTED")
       \/ Return(p) /\ UNCHANGED rwVars

\* adminResolveCompletion and the TikTok webhook read the completion first.
BeginResolveTask(p, c) ==
    /\ rwTask[c] = "PENDING_VERIFICATION"
    /\ Start(p, "task", c, "PENDING_VERIFICATION", "resolve")
    /\ UNCHANGED rwVars

ResolveTask(p) ==
    /\ At(p, "task", "resolve")
    /\ \/ Goto(p, "qualify") /\ SetTask(TaskOf(p), "VERIFIED")
       \/ Return(p) /\ SetTask(TaskOf(p), "REJECTED")

-----------------------------------------------------------------------------
(* checkQualificationAndReserve and tryReserveSlot.                        *)

Qualify(p) ==
    /\ At(p, "task", "qualify")
    /\ IF \A k \in RwTasks : rwTask[<<k, WhoOf(p)>>] = "VERIFIED" THEN Goto(p, "existing") ELSE Return(p)
    /\ UNCHANGED rwVars

LookForEntitlement(p) ==
    /\ At(p, "task", "existing")
    /\ IF rwEntitled[WhoOf(p)] = "NONE" THEN Goto(p, "claim") ELSE Return(p)
    /\ UNCHANGED rwVars

\* Mutant: the slot is taken when the entitlement is there.
EntitleFirst(p) ==
    /\ At(p, "task", "claim")
    /\ IF rwClaimed < rwTotal /\ rwStatus = "ACTIVE" THEN Goto(p, "count") ELSE Return(p)
    /\ UNCHANGED rwVars

\* One conditional UPDATE.
ClaimSlot(p) ==
    /\ At(p, "task", "claim")
    /\ IF rwClaimed < rwTotal /\ rwStatus = "ACTIVE"
       THEN Goto(p, "count") /\ rwClaimed' = rwClaimed + 1
       ELSE Return(p) /\ UNCHANGED rwClaimed
    /\ UNCHANGED <<rwCampaign, rwTask, rwEntitled, rwPayment, rwQueue, rwReturned>>

\* The campaign is read again, with the slot just claimed in its count.
CountSlots(p) ==
    /\ At(p, "task", "count")
    /\ Learn(p, IF rwClaimed + 1 >= rwTotal THEN "full" ELSE "open", "entitle")
    /\ UNCHANGED rwVars

\* A second entitlement of the participant is refused by its unique key, and the
\* slot claimed for it stays claimed.
CreateEntitlement(p) ==
    LET u == WhoOf(p) IN
    /\ At(p, "task", "entitle")
    /\ IF rwEntitled[u] = "NONE"
       THEN /\ rwEntitled' = [rwEntitled EXCEPT ![u] = "RESERVED"]
            /\ Goto(p, IF job[p].got = "full" THEN "complete" ELSE "enqueue")
       ELSE Return(p) /\ UNCHANGED rwEntitled
    /\ UNCHANGED <<rwCampaign, rwClaimed, rwTask, rwPayment, rwQueue, rwReturned>>

\* An update that demands an ACTIVE campaign throws when it finds none.
CompleteCampaign(p) ==
    /\ At(p, "task", "complete")
    /\ IF rwStatus = "ACTIVE"
       THEN Goto(p, "enqueue") /\ rwStatus' = "COMPLETED"
       ELSE Return(p) /\ UNCHANGED rwStatus
    /\ UNCHANGED <<rwTotal, rwClaimed, rwTask, rwEntitled, rwPayment, rwQueue, rwReturned>>

\* Redis may be away, which is logged.
EnqueueFulfilment(p) ==
    /\ At(p, "task", "enqueue")
    /\ Return(p)
    /\ rwQueue' \in {rwQueue, rwQueue \cup {WhoOf(p)}}
    /\ UNCHANGED <<rwCampaign, rwClaimed, rwTask, rwEntitled, rwPayment, rwReturned>>

-----------------------------------------------------------------------------
(* The worker's fulfil job, which runs again when its worker dies or stalls. *)

BeginFulfil(p, u) ==
    /\ u \in rwQueue
    /\ rwEntitled[u] \in {"RESERVED", "FULFILLMENT_PENDING"}
    /\ Start(p, "fulfil", <<None, u>>, rwEntitled[u], "pend")
    /\ UNCHANGED rwVars

SetEntitlement(u, s) == rwEntitled' = [rwEntitled EXCEPT ![u] = s]

PendFulfilment(p) ==
    /\ At(p, "fulfil", "pend")
    /\ Goto(p, "credit")
    /\ SetEntitlement(WhoOf(p), "FULFILLMENT_PENDING")
    /\ UNCHANGED <<rwCampaign, rwClaimed, rwTask, rwPayment, rwQueue, rwReturned>>

\* One transaction: the CREDIT entry and the fulfilment, each with a unique key,
\* and the entitlement; or an error, as when the workspace has no wallet.
CreditReward(p) ==
    LET u == WhoOf(p) IN
    /\ At(p, "fulfil", "credit")
    /\ \/ /\ rwCredits[u] = 0 /\ rwFulfilled[u] = "NONE"
          /\ rwCredits' = [rwCredits EXCEPT ![u] = @ + 1]
          /\ rwFulfilled' = [rwFulfilled EXCEPT ![u] = "SUCCESS"]
          /\ SetEntitlement(u, "FULFILLED")
          /\ rwQueue' = rwQueue \ {u}
          /\ Return(p)
       \/ Goto(p, "ambiguous") /\ UNCHANGED <<rwEntitled, rwPayment, rwQueue>>
    /\ UNCHANGED <<rwCampaign, rwClaimed, rwTask, rwReturned>>

MarkAmbiguous(p) ==
    /\ At(p, "fulfil", "ambiguous")
    /\ Goto(p, "failed")
    /\ rwFulfilled' = [rwFulfilled EXCEPT ![WhoOf(p)] = "AMBIGUOUS"]
    /\ UNCHANGED <<rwCampaign, rwClaimed, rwTask, rwEntitled, rwCredits, rwQueue, rwReturned>>

FailEntitlement(p) ==
    /\ At(p, "fulfil", "failed")
    /\ Return(p)
    /\ SetEntitlement(WhoOf(p), "FAILED")
    /\ rwQueue' = rwQueue \ {WhoOf(p)}
    /\ UNCHANGED <<rwCampaign, rwClaimed, rwTask, rwPayment, rwReturned>>

\* An operator's word, whatever the entitlement's status: one transaction.
ResolveEntitlement(u) ==
    /\ rwEntitled[u] # "NONE"
    /\ \/ /\ SetEntitlement(u, "FULFILLED")
          /\ rwFulfilled' = [rwFulfilled EXCEPT ![u] = IF @ = "NONE" THEN @ ELSE "SUCCESS"]
          /\ UNCHANGED <<rwClaimed, rwReturned>>
       \/ /\ rwReturned < MaxReturns
          /\ SetEntitlement(u, "REVERSED")
          /\ rwFulfilled' = [rwFulfilled EXCEPT ![u] = IF @ = "NONE" THEN @ ELSE "FAILED"]
          /\ rwClaimed' = IF rwClaimed > 0 THEN rwClaimed - 1 ELSE 0
          /\ rwReturned' = rwReturned + 1
    /\ UNCHANGED <<rwCampaign, rwTask, rwCredits, rwQueue, handlers>>

RWNext ==
    \/ \E p \in Procs :
        \/ \E c \in RwTasks \X Participants : SubmitTask(p, c) \/ BeginResolveTask(p, c)
        \/ \E u \in Participants : BeginFulfil(p, u)
        \/ \E s \in RwStatuses : BeginUpdateCampaign(p, s)
        \/ UpdateRewardCampaign(p)
        \/ VerifyTask(p)
        \/ ResolveTask(p)
        \/ Qualify(p)
        \/ LookForEntitlement(p)
        \/ ClaimSlot(p)
        \/ CountSlots(p)
        \/ CreateEntitlement(p)
        \/ CompleteCampaign(p)
        \/ EnqueueFulfilment(p)
        \/ PendFulfilment(p)
        \/ CreditReward(p)
        \/ MarkAmbiguous(p)
        \/ FailEntitlement(p)
        \/ Crash(p) /\ UNCHANGED rwVars
    \/ \E u \in Participants : ResolveEntitlement(u)

RWSpec == RWInit /\ HandlersInit /\ [][RWNext]_<<rwVars, handlers>>

-----------------------------------------------------------------------------
\* tryReserveSlot: whatever verifications, operators and fulfilment jobs overlap,
\* every entitlement took a slot of its own, and each is credited at most once.
RewardsCovered ==
    /\ Cardinality({u \in Participants : rwEntitled[u] # "NONE"}) <= rwClaimed + rwReturned
    /\ \A u \in Participants :
        rwCredits[u] <= 1 /\ (rwCredits[u] = 1 => rwEntitled[u] # "NONE")
===============================================================================
