--------------------------- MODULE MCServices_proofs ---------------------------
(***************************************************************************)
(* Proofs about the services composed: every behaviour exercises one of    *)
(* them, the others stand still, and so the invariant of each service is   *)
(* an invariant of the composition.  What the sellers promise of an order  *)
(* follows: each step of a seller is a step of PaidOrder, or none.         *)
(***************************************************************************)
EXTENDS MCServices, Services_proofs, Approvals_proofs, Campaigns_proofs

-----------------------------------------------------------------------------
(* Faults are counted up to their bound.                                   *)

Counted == faults' = faults \/ (faults < MaxFaults /\ faults' = faults + 1)

\* A step of a service counts a crash or a failed database call, or leaves the
\* count alone: numbers; digital access; guest purchases; RMB orders; payouts;
\* rewards; growth; telecom; receivables; vouchers; campaigns.
LEMMA NumbersCounted == VNNext => Counted
BY DEF VNNext, VNStep, DebitRenewal, Provision, StoreNumber, FulfilOrder, TrackMargin, CompensateNumber,
       ReleaseAtProvider, MarkReleased, PurchaseNumber, ReleaseNumber, ReleaseExpired, BeginRelease,
       RenewNumber, ExecuteFails, LifecycleSweep, TimePasses, handlers,
       Start, Goto, Return, Crash, DbError, Counted

LEMMA AccessCounted == DANext => Counted
<1>1. ASSUME NEW r \in DARequests, CreateAccessRequest(r) PROVE Counted
  BY <1>1 DEF CreateAccessRequest, handlers, Counted
<1>2. ASSUME NEW r \in DARequests, NEW s \in DAStatus, UpdateAccessStatus(r, s) PROVE Counted
  BY <1>2 DEF UpdateAccessStatus, handlers, Counted
<1>3. ASSUME NEW a, NEW r, NEW s, NEW admin, AskRefund(a, r, s, admin) PROVE Counted
  BY <1>3 DEF AskRefund, handlers, Counted
<1>4. ASSUME NEW p \in Procs, NEW a, NEW admin, NEW op, BeginDecide(p, a, admin, op) PROVE Counted
  BY <1>4 DEF BeginDecide, Start, Counted
<1>5. ASSUME NEW p \in Procs, Decide(p) \/ ExecuteApproval(p) \/ PerformRefund(p) PROVE Counted
  <2>1. CASE Decide(p)
    BY <2>1 DEF Decide, Goto, Return, Counted
  <2>2. CASE ExecuteApproval(p)
    BY <2>2 DEF ExecuteApproval, Goto, Return, Counted
  <2>3. CASE PerformRefund(p)
    BY <2>3 DEF PerformRefund, Goto, Counted
  <2> QED BY <1>5, <2>1, <2>2, <2>3
<1>6. ASSUME NEW p \in Procs, MarkExecuted(p) \/ MarkExecutionFailed(p) PROVE Counted
  BY <1>6 DEF MarkExecuted, MarkExecutionFailed, Return, Counted
<1>7. ASSUME NEW p \in Procs, ExecutionError(p) \/ (Crash(p) /\ UNCHANGED daVars) PROVE Counted
  BY <1>7 DEF ExecutionError, Crash, DbError, Counted
<1> QED
  <2>1. SUFFICES ASSUME DANext, ~Counted PROVE FALSE
    OBVIOUS
  <2>2. \A r \in DARequests : ~CreateAccessRequest(r) /\ \A s \in DAStatus : ~UpdateAccessStatus(r, s)
    BY <1>1, <1>2, <2>1
  <2>3. \A r, s, a, admin : ~AskRefund(a, r, s, admin)
    BY <1>3, <2>1
  <2>4. \A p \in Procs : \A a, admin, op : ~BeginDecide(p, a, admin, op)
    BY <1>4, <2>1
  <2> QED BY Zenon, <1>5, <1>6, <1>7, <2>1, <2>2, <2>3, <2>4 DEF DANext

LEMMA GuestCounted == GTNext => Counted
<1>1. ASSUME NEW p \in Procs, AttachPayment(p) \/ VerifyPayment(p) \/ ApplyPayment(p) \/ MarkProcessed(p)
      PROVE  Counted
  BY <1>1 DEF AttachPayment, VerifyPayment, ApplyPayment, MarkProcessed, Goto, Learn, Return, Counted
<1>2. ASSUME NEW p \in Procs,
             LookAtFulfilment(p) \/ BeginFulfilment(p) \/ PurchaseForGuest(p) \/ RecordFulfilment(p)
      PROVE  Counted
  BY <1>2 DEF LookAtFulfilment, BeginFulfilment, PurchaseForGuest, RecordFulfilment, Leave, Goto, Learn,
     Return, Counted
<1>3. ASSUME NEW p \in Procs, NEW t, NEW m, InitiatePayment(p, t, m) \/ BeginWebhook(p, t, m) PROVE Counted
  BY <1>3 DEF InitiatePayment, BeginWebhook, Start, Counted
<1>4. ASSUME NEW p \in Procs, NEW t, RetryFulfilment(p, t) PROVE Counted
  BY <1>4 DEF RetryFulfilment, Start, Counted
<1>5. ASSUME NEW p \in Procs, Crash(p) PROVE Counted
  BY <1>5 DEF Crash, Counted
<1>6. ASSUME NEW m, GuestPays(m) PROVE Counted
  BY <1>6 DEF GuestPays, handlers, Counted
<1> QED BY Zenon, <1>1, <1>2, <1>3, <1>4, <1>5, <1>6 DEF GTNext, GTStep

LEMMA RmbCounted == RMNext => Counted
BY DEF RMNext, CreateRmbOrder, BeginRmbRefund, SubmitRmbOrder, StoreReference, CancelRejected, ReadRmbOrder,
       WriteRmbRefund, SogoMoves, RmbCompleted, handlers, Start, Goto, Learn, Return, Crash, Counted

LEMMA PayoutsCounted == PONext => Counted
BY DEF PONext, ReadQuote, ClaimQuote, DebitRemittance, RequestWithdrawal, SendTransfer, RecordTransfer,
       RecordFails, FailRejected, HoldAmbiguous, OpenException, BeginTransferEvent, UpdateTransfer,
       QuoteExpires, ProviderMoves, handlers, Start, Goto, Learn, Return, Crash, DbError, Counted

LEMMA RewardsCounted == RWNext => Counted
BY DEF RWNext, SubmitTask, BeginResolveTask, BeginFulfil, VerifyTask, ResolveTask, Qualify,
       LookForEntitlement, ClaimSlot, CountSlots, CreateEntitlement, CompleteCampaign, EnqueueFulfilment,
       PendFulfilment, CreditReward, MarkAmbiguous, FailEntitlement, ResolveEntitlement,
       BeginUpdateCampaign, UpdateRewardCampaign, handlers, Start, Goto, Learn, Return, Crash, Counted

LEMMA GrowthCounted == GRNext => Counted
BY DEF GRNext, BeginGrowthOrder, BeginRefresh, BeginGrowthUpdate, ReserveFunds, HoldForReview,
       SupplierCreates, FailGrowthOrder, ApplyFails, ApplyTransition, TakeSnapshot, SupplierMoves,
       handlers, Start, Goto, Learn, Return, Crash, DbError, Counted

LEMMA TelecomCounted == TGNext => Counted
BY DEF TGNext, BuyTelecom, BeginPoll, SubmitTelecom, RecordTelecom, RecordUnanswered, RereadTelecom,
       RecordTelecomFails, MarkTelecomAmbiguous, NoAnswer, AskProvider, AskFails, ReverseTelecom, WriteTelecom, TelecomSettles,
       handlers, Start, Goto, Learn, Return, Crash, DbError, Counted

LEMMA ReceivablesCounted == RCNext => Counted
BY DEF RCNext, BeginOwner, OpenCharge, ReceiveEvent, SendInvoice, MarkPaid, VoidInvoice, StoreCharge,
       FindRow, VerifyCharge, CreditRow, ProcessEvent, DisableLink, ChargeSettles,
       handlers, Start, Goto, Learn, Return, Crash, Counted

LEMMA VouchersCounted == VCNext => Counted
BY DEF VCNext, BeginVoucher, BeginReveal, BeginRedeem, SealVoucher, RevealVoucher, RedeemVoucher,
       ShareVoucher, ClaimVoucher, handlers, Start, Goto, Return, Crash, Counted

LEMMA CampaignsCounted == CPNext => Counted
<1>1. ASSUME NEW p \in Procs, CPStep(p) PROVE Counted
  <2> USE DEF Goto, Learn, Return, Counted
  <2>1. CASE SetStatus(p) \/ Assess(p)
    BY <2>1 DEF SetStatus, AfterStatus, Assess
  <2>2. CASE HoldBudget(p) \/ AskReview(p)
    BY <2>2 DEF HoldBudget, AskReview
  <2>3. CASE SyncReview(p) \/ DecideReview(p)
    BY <2>3 DEF SyncReview, DecideReview
  <2>4. CASE ExecuteReview(p) \/ MarkReviewed(p)
    BY <2>4 DEF ExecuteReview, MarkReviewed
  <2>5. CASE Settle(p) \/ CloseCampaign(p)
    BY <2>5 DEF Settle, CloseCampaign
  <2> QED BY <1>1, <2>1, <2>2, <2>3, <2>4, <2>5 DEF CPStep
<1>2. ASSUME NEW p \in Procs, NEW c \in Campaigns,
             \/ \E op \in DOMAIN Controls : BeginControl(p, c, op)
             \/ \E s \in AdminStatuses : BeginAdminStatus(p, c, s)
             \/ BeginSubmit(p, c)
             \/ \E op \in {"release", "capture"} : BeginSettle(p, c, op)
             \/ SweepCampaign(p, c)
      PROVE  Counted
  BY <1>2 DEF BeginControl, BeginAdminStatus, BeginSubmit, BeginSettle, SweepCampaign, Start, Counted
<1>3. ASSUME NEW p \in Procs,
             \/ \E a \in Reviews, op \in {"approve", "reject"} : BeginReview(p, a, op)
             \/ ReviewFails(p)
             \/ Crash(p) /\ UNCHANGED cpVars
      PROVE  Counted
  BY <1>3 DEF BeginReview, ReviewFails, Start, Crash, DbError, Counted
<1>4. ASSUME NEW c \in Campaigns,
             CreateManualPlacement(c) \/ AdvanceReport(c) \/ TermEnds(c) \/ PauseByWorkflow(c)
      PROVE  Counted
  BY <1>4 DEF CreateManualPlacement, AdvanceReport, TermEnds, PauseByWorkflow, handlers, Counted
<1> QED BY Zenon, <1>1, <1>2, <1>3, <1>4 DEF CPNext

-----------------------------------------------------------------------------
(* The service in focus keeps its invariant, the others their initial      *)
(* state.                                                                  *)

Services == {"numbers", "access", "guest", "rmb", "payouts", "rewards", "growth", "telecom", "vouchers",
             "invoices", "links", "reviews", "delivery"}

InFocus ==
    /\ focus = "numbers" => NumbersInv
    /\ focus = "access" => AccessInv
    /\ focus = "guest" => GuestInv
    /\ focus = "rmb" => RmbInv
    /\ focus = "payouts" => PayoutsInv
    /\ focus = "rewards" => RewardsInv
    /\ focus = "growth" => GrowthInv
    /\ focus = "telecom" => TelecomInv
    /\ focus = "vouchers" => VoucherInv
    /\ focus \in {"invoices", "links"} => ReceivablesInv
    /\ focus \in {"reviews", "delivery"} => CampaignsInv

AtRest ==
    /\ focus # "numbers" => VNInit
    /\ focus # "access" => DAInit
    /\ focus # "guest" => GTInit
    /\ focus # "rmb" => RMInit
    /\ focus # "payouts" => POInit
    /\ focus # "rewards" => RWInit
    /\ focus # "growth" => GRInit
    /\ focus # "telecom" => TGInit
    /\ focus # "vouchers" => VCInit
    /\ focus \notin {"invoices", "links"} => RCInit
    /\ focus \notin {"reviews", "delivery"} => CPInit
    /\ focus \notin Services => HandlersInit

FaultsBounded == faults \in 0..MaxFaults

ServicesInv == InFocus /\ AtRest /\ FaultsBounded

\* Initially all services are at rest, with their invariants.
LEMMA ServicesStart == Init => ServicesInv
<1> SUFFICES ASSUME Init PROVE ServicesInv
  OBVIOUS
<1>1. AtRest
  BY DEF Init, AtRest
<1>2. InFocus
  BY NumbersStart, AccessStarts, GuestStarts, RmbStarts, PayoutsStart, RewardsStart, GrowthStarts,
     TelecomStarts, VoucherStarts, ReceivablesStart, CampaignsStart DEF Init, InFocus
<1>3. FaultsBounded
  BY HandlersAssumption DEF Init, HandlersInit, FaultsBounded
<1> QED BY <1>1, <1>2, <1>3 DEF ServicesInv

\* What the focus is, and which service moves.
Moving ==
    /\ focus' = focus
    /\ \/ focus = "numbers" /\ VNNext
       \/ focus = "access" /\ DANext
       \/ focus = "guest" /\ GTNext
       \/ focus = "rmb" /\ RMNext
       \/ focus = "payouts" /\ PONext
       \/ focus = "rewards" /\ RWNext
       \/ focus = "growth" /\ GRNext
       \/ focus = "telecom" /\ TGNext
       \/ focus = "vouchers" /\ VCNext
       \/ focus \in {"invoices", "links"} /\ RCNext
       \/ focus \in {"reviews", "delivery"} /\ CPNext

Standing ==
    /\ focus # "numbers" => UNCHANGED vnVars
    /\ focus # "access" => UNCHANGED daVars
    /\ focus # "guest" => UNCHANGED gtVars
    /\ focus # "rmb" => UNCHANGED rmVars
    /\ focus # "payouts" => UNCHANGED poVars
    /\ focus # "rewards" => UNCHANGED rwVars
    /\ focus # "growth" => UNCHANGED grVars
    /\ focus # "telecom" => UNCHANGED tgVars
    /\ focus # "vouchers" => UNCHANGED vcVars
    /\ focus \notin {"invoices", "links"} => UNCHANGED rcVars
    /\ focus \notin {"reviews", "delivery"} => UNCHANGED cpVars

\* Every step is of one service, the one in focus.
LEMMA OneMoves == Next => Moving /\ Standing
<1> SUFFICES ASSUME Next PROVE Moving /\ Standing
  OBVIOUS
<1>1. Moving
  BY DEF Next, Only, Moving
<1>2. \E f \in Services : Only(f)
  BY DEF Next, Services
<1>3. Standing
  BY <1>2 DEF Only, Standing
<1> QED BY <1>1, <1>3

\* What is out of focus stays as it was.
LEMMA RestStays ==
    ASSUME AtRest, Standing, focus' = focus, focus \in Services \/ UNCHANGED handlers
    PROVE  AtRest'
<1>0. focus' = focus
  OBVIOUS
<1>1. focus' # "numbers" => VNInit'
  BY <1>0 DEF AtRest, Standing, VNInit, vnVars
<1>2. focus' # "access" => DAInit'
  BY <1>0 DEF AtRest, Standing, DAInit, daVars
<1>3. focus' # "guest" => GTInit'
  BY <1>0 DEF AtRest, Standing, GTInit, gtVars
<1>4. focus' # "rmb" => RMInit'
  BY <1>0 DEF AtRest, Standing, RMInit, rmVars
<1>5. focus' # "payouts" => POInit'
  BY <1>0 DEF AtRest, Standing, POInit, poVars
<1>6. focus' # "rewards" => RWInit'
  BY <1>0 DEF AtRest, Standing, RWInit, rwVars, rwCampaign, rwPayment
<1>7. focus' # "growth" => GRInit'
  BY <1>0 DEF AtRest, Standing, GRInit, grVars, grOrder
<1>8. focus' # "telecom" => TGInit'
  BY <1>0 DEF AtRest, Standing, TGInit, tgVars
<1>9. focus' # "vouchers" => VCInit'
  BY <1>0 DEF AtRest, Standing, VCInit, vcVars
<1>10. focus' \notin {"invoices", "links"} => RCInit'
  BY <1>0 DEF AtRest, Standing, RCInit, rcVars, ivVars, lkVars, gwVars
<1>11. focus' \notin {"reviews", "delivery"} => CPInit'
  BY <1>0 DEF AtRest, Standing, CPInit, cpVars, cpRow, cpWork, cpMoney
<1>12. focus' \notin Services => HandlersInit'
  BY <1>0 DEF AtRest, HandlersInit, handlers
<1> QED BY <1>1, <1>2, <1>3, <1>4, <1>5, <1>6, <1>7, <1>8, <1>9, <1>10, <1>11, <1>12 DEF AtRest

\* The step of a service keeps its invariant.
LEMMA FocusKeeps ==
    ASSUME InFocus, Moving
    PROVE  InFocus'
BY NumbersStep, AccessStep, GuestStep, RmbStep, PayoutsStep, RewardsStep, GrowthStep, TelecomStep,
   VoucherStep, ReceivablesStep, CampaignsStep DEF InFocus, Moving

\* Every step keeps the invariant of the composition.
LEMMA ServicesStep ==
    ASSUME ServicesInv, Next
    PROVE  ServicesInv'
<1>1. Moving /\ Standing /\ focus' = focus /\ focus \in Services
  BY OneMoves DEF Moving, Services
<1>2. InFocus' /\ AtRest'
  BY <1>1, FocusKeeps, RestStays DEF ServicesInv
<1>3. Counted
  BY <1>1, NumbersCounted, AccessCounted, GuestCounted, RmbCounted, PayoutsCounted, RewardsCounted,
     GrowthCounted, TelecomCounted, VouchersCounted, ReceivablesCounted, CampaignsCounted DEF Moving
<1>4. FaultsBounded'
  BY <1>3, HandlersAssumption DEF ServicesInv, FaultsBounded, Counted
<1> QED BY <1>2, <1>4 DEF ServicesInv

\* So does a step of nobody.
LEMMA ServicesStutter ==
    ASSUME ServicesInv, UNCHANGED vars
    PROVE  ServicesInv'
<1>1. /\ focus' = focus /\ UNCHANGED handlers
      /\ UNCHANGED vnVars /\ UNCHANGED daVars /\ UNCHANGED gtVars /\ UNCHANGED rmVars
      /\ UNCHANGED poVars /\ UNCHANGED rwVars /\ UNCHANGED grVars /\ UNCHANGED tgVars
      /\ UNCHANGED rcVars /\ UNCHANGED vcVars /\ UNCHANGED cpVars
  BY DEF vars
<1>2. AtRest'
  BY <1>1, RestStays DEF ServicesInv, Standing
<1>3. InFocus'
  BY <1>1, NumbersInductive, AccessInductive, GuestInductive, RmbInductive, PayoutsInductive,
     RewardsInductive, GrowthInductive, TelecomInductive, VoucherInductive, ReceivablesInductive,
     CampaignsInductive DEF ServicesInv, InFocus
<1>4. FaultsBounded'
  BY <1>1 DEF ServicesInv, FaultsBounded, handlers
<1> QED BY <1>2, <1>3, <1>4 DEF ServicesInv

\* Each service's invariant holds as long as it is in focus, and what is out of
\* focus is as it was initially.
THEOREM ServicesInvariant == Spec => []ServicesInv
<1>1. ServicesInv /\ [Next]_vars => ServicesInv'
  BY ServicesStep, ServicesStutter
<1> QED BY <1>1, ServicesStart, PTL DEF Spec

-----------------------------------------------------------------------------
(* Types.                                                                  *)

\* The rows of every service are typed, in focus or not.
LEMMA RowsTyped == ServicesInv =>
    /\ VNTypeOK /\ DATypeOK /\ GTTypeOK /\ RMTypeOK /\ POTypeOK /\ RWTypeOK
    /\ GRTypeOK /\ TGTypeOK /\ RCTypeOK /\ VCTypeOK /\ CPTypeOK
<1> SUFFICES ASSUME ServicesInv
             PROVE  /\ VNTypeOK /\ DATypeOK /\ GTTypeOK /\ RMTypeOK /\ POTypeOK /\ RWTypeOK
                    /\ GRTypeOK /\ TGTypeOK /\ RCTypeOK /\ VCTypeOK /\ CPTypeOK
  OBVIOUS
<1>1. VNTypeOK
  <2>1. VNInit => VNTypeOK
    BY DEF VNInit, VNTypeOK, VNOrderStatus, VNStatus
  <2> QED BY <2>1 DEF ServicesInv, InFocus, AtRest, NumbersInv, NumbersTyped
<1>2. DATypeOK
  <2>1. DAInit => DATypeOK
    BY DEF DAInit, DATypeOK
  <2> QED BY <2>1 DEF ServicesInv, InFocus, AtRest, AccessInv, AccessTyped
<1>3. GTTypeOK
  <2>1. GTInit => GTTypeOK
    BY DEF GTInit, GTTypeOK
  <2> QED BY <2>1 DEF ServicesInv, InFocus, AtRest, GuestInv, GuestTyped
<1>4. RMTypeOK
  <2>1. RMInit => RMTypeOK
    BY DEF RMInit, RMTypeOK, RmbStatus
  <2> QED BY <2>1 DEF ServicesInv, InFocus, AtRest, RmbInv, RmbTyped
<1>5. POTypeOK
  <2>1. POInit => POTypeOK
    BY DEF POInit, POTypeOK, PayoutStatus, PayoutFates
  <2> QED BY <2>1 DEF ServicesInv, InFocus, AtRest, PayoutsInv, PayoutsTyped
<1>6. RWTypeOK
  <2>1. RWInit => RWTypeOK
    BY RewardsStart, RewardsAssumption
       DEF RWInit, RWTypeOK, CampaignStatus, TaskStatus, EntitlementStatus
  <2> QED BY <2>1 DEF ServicesInv, InFocus, AtRest, RewardsInv, RewardsTyped
<1>7. GRTypeOK
  <2>1. GRInit => GRTypeOK
    BY DEF GRInit, GRTypeOK
  <2> QED BY <2>1 DEF ServicesInv, InFocus, AtRest, GrowthInv, GrowthTyped
<1>8. TGTypeOK
  <2>1. TGInit => TGTypeOK
    BY DEF TGInit, TGTypeOK
  <2> QED BY <2>1 DEF ServicesInv, InFocus, AtRest, TelecomInv, TelecomTyped
<1>9. RCTypeOK
  <2>1. RCInit => RCTypeOK
    BY ReceivablesAssumption DEF RCInit, RCTypeOK
  <2> QED BY <2>1 DEF ServicesInv, InFocus, AtRest, ReceivablesInv, ReceivablesTyped
<1>10. VCTypeOK
  <2>1. VCInit => VCTypeOK
    BY DEF VCInit, VCTypeOK
  <2> QED BY <2>1 DEF ServicesInv, InFocus, AtRest, VoucherInv, VoucherTyped
<1>11. CPTypeOK
  <2>1. CPInit => CPTypeOK
    BY DEF CPInit, CPTypeOK, CPStatus
  <2> QED BY <2>1 DEF ServicesInv, InFocus, AtRest, CampaignsInv, CampaignsTyped
<1> QED BY <1>1, <1>2, <1>3, <1>4, <1>5, <1>6, <1>7, <1>8, <1>9, <1>10, <1>11

AllSteps == UNION {VNSteps, DASteps, GTSteps, RMSteps, POSteps, RWSteps, GRSteps, TGSteps, RCSteps, VCSteps, CPSteps}
AllJobs == UNION {VNJobs, DAJobs, GTJobs, RMJobs, POJobs, RWJobs, GRJobs, TGJobs, RCJobs, VCJobs, CPJobs}

\* What one service's handlers may be doing, the handlers of all may.
LEMMA HandlersWiden ==
    ASSUME NEW steps \in SUBSET AllSteps, NEW jobs \in SUBSET AllJobs,
           pc \in [Procs -> steps \cup {"idle"}], job \in [Procs -> jobs \cup {Idle}], FaultsBounded
    PROVE  HandlersTypeOK(AllSteps, AllJobs)
<1>1. pc \in [Procs -> AllSteps \cup {"idle"}]
  OBVIOUS
<1>2. job \in [Procs -> AllJobs \cup {Idle}]
  OBVIOUS
<1> QED BY <1>1, <1>2 DEF HandlersTypeOK, FaultsBounded

\* The handlers are typed, whichever service they are of.
LEMMA HandlersTyped == ServicesInv => HandlersTypeOK(AllSteps, AllJobs)
<1> SUFFICES ASSUME ServicesInv PROVE HandlersTypeOK(AllSteps, AllJobs)
  OBVIOUS
<1> DEFINE Doing(steps, jobs) == pc \in [Procs -> steps \cup {"idle"}] /\ job \in [Procs -> jobs \cup {Idle}]
<1>1. /\ \A S \in {VNSteps, DASteps, GTSteps, RMSteps, POSteps, RWSteps, GRSteps, TGSteps, RCSteps, VCSteps, CPSteps} :
            S \in SUBSET AllSteps
      /\ \A J \in {VNJobs, DAJobs, GTJobs, RMJobs, POJobs, RWJobs, GRJobs, TGJobs, RCJobs, VCJobs, CPJobs} :
            J \in SUBSET AllJobs
  BY DEF AllSteps, AllJobs
<1>2. /\ focus = "numbers" => Doing(VNSteps, VNJobs)
      /\ focus = "access" => Doing(DASteps, DAJobs)
      /\ focus = "guest" => Doing(GTSteps, GTJobs)
      /\ focus = "rmb" => Doing(RMSteps, RMJobs)
      /\ focus = "payouts" => Doing(POSteps, POJobs)
      /\ focus = "rewards" => Doing(RWSteps, RWJobs)
  BY DEF ServicesInv, InFocus, NumbersInv, NumbersTyped, AccessInv, AccessTyped, GuestInv, GuestTyped,
     RmbInv, RmbTyped, PayoutsInv, PayoutsTyped, RewardsInv, RewardsTyped
<1>3. /\ focus = "growth" => Doing(GRSteps, GRJobs)
      /\ focus = "telecom" => Doing(TGSteps, TGJobs)
      /\ focus = "vouchers" => Doing(VCSteps, VCJobs)
      /\ focus \in {"invoices", "links"} => Doing(RCSteps, RCJobs)
      /\ focus \in {"reviews", "delivery"} => Doing(CPSteps, CPJobs)
  BY DEF ServicesInv, InFocus, GrowthInv, GrowthTyped, TelecomInv, TelecomTyped, VoucherInv, VoucherTyped,
     ReceivablesInv, ReceivablesTyped, CampaignsInv, CampaignsTyped
<1>4. focus \notin Services => Doing({}, {})
  BY DEF ServicesInv, AtRest, HandlersInit
<1>5. FaultsBounded
  BY DEF ServicesInv
<1>6. \E S \in SUBSET AllSteps, J \in SUBSET AllJobs : Doing(S, J)
  <2> HIDE DEF Doing
  <2>1. {} \in SUBSET AllSteps /\ {} \in SUBSET AllJobs
    OBVIOUS
  <2> QED BY <1>1, <1>2, <1>3, <1>4, <2>1 DEF Services
<1> QED BY <1>5, <1>6, HandlersWiden

\* MCServices!TypeOK, for any number of handlers, rows and faults.
THEOREM ServicesTyped == Spec => []TypeOK
<1>1. ServicesInv => TypeOK
  BY RowsTyped, HandlersTyped DEF TypeOK, AllSteps, AllJobs
<1> QED BY <1>1, ServicesInvariant, PTL

-----------------------------------------------------------------------------
(* Safety of every service, whichever is in focus.                         *)

\* The safety invariants of the services together.
Kept ==
    /\ VNSettled /\ RefundNeedsTwo /\ GuestServedIsPaid /\ RmbRefundJustified /\ PayoutsHonest
    /\ RewardsCovered /\ GrowthBacked /\ TelecomHonest /\ ReceivablesHonest /\ VoucherHonest
    /\ ReviewHonoured /\ HoldBacked

\* What each service promises, in the composition as well: charges are given back
\* exactly where they must be, and nothing is served, counted or settled twice.
THEOREM ServicesSafe == Spec => []Kept
<1>1. ServicesInv => VNSettled /\ RefundNeedsTwo /\ GuestServedIsPaid
  <2>1. VNInit => VNSettled
    BY VNAssumption DEF VNInit, VNSettled, VNOrders
  <2>2. DAInit => RefundNeedsTwo
    BY DEF DAInit, RefundNeedsTwo, Refunding
  <2>3. GTInit => GuestServedIsPaid
    BY DEF GTInit, GuestServedIsPaid
  <2> QED BY <2>1, <2>2, <2>3 DEF ServicesInv, InFocus, AtRest, NumbersInv, AccessInv, GuestInv
<1>2. ServicesInv => RmbRefundJustified /\ PayoutsHonest
  <2>1. RMInit => RmbRefundJustified
    BY DEF RMInit, RmbRefundJustified
  <2>2. POInit => PayoutsHonest
    BY PayoutsAssumption DEF POInit, PayoutsHonest, PayoutIds
  <2> QED BY <2>1, <2>2 DEF ServicesInv, InFocus, AtRest, RmbInv, PayoutsInv
<1>3. ServicesInv => RewardsCovered
  <2>1. RWInit => RewardsCovered
    <3> SUFFICES ASSUME RWInit PROVE RewardsCovered
      OBVIOUS
    <3>1. {u \in Participants : rwEntitled[u] # "NONE"} = {}
      BY DEF RWInit
    <3>2. Cardinality({u \in Participants : rwEntitled[u] # "NONE"}) = 0
      BY <3>1, FS_EmptySet
    <3>3. rwClaimed = 0 /\ rwReturned = 0 /\ \A u \in Participants : rwCredits[u] = 0
      BY DEF RWInit
    <3> QED BY <3>2, <3>3 DEF RewardsCovered
  <2>2. RewardsInv => RewardsCovered
    BY RewardsHold
  <2> QED BY <2>1, <2>2 DEF ServicesInv, InFocus, AtRest
<1>4. ServicesInv => GrowthBacked /\ TelecomHonest /\ VoucherHonest
  <2>1. GRInit => GrowthBacked
    BY DEF GRInit, GrowthBacked
  <2>2. TGInit => TelecomHonest
    BY DEF TGInit, TelecomHonest
  <2>3. VCInit => VoucherHonest
    BY VouchersAssumption DEF VCInit, VoucherHonest
  <2> QED BY <2>1, <2>2, <2>3 DEF ServicesInv, InFocus, AtRest, GrowthInv, TelecomInv, VoucherInv
<1>5. ServicesInv => ReceivablesHonest
  <2>1. RCInit => ReceivablesHonest
    <3> SUFFICES ASSUME RCInit PROVE ReceivablesHonest
      OBVIOUS
    <3>1. \A l \in Links : PaidOf(l) = {}
      BY DEF RCInit, PaidOf
    <3> QED BY <3>1, FS_EmptySet, ReceivablesAssumption DEF RCInit, ReceivablesHonest, PaidOf
  <2>2. ReceivablesInv => ReceivablesHonest
    BY ReceivablesHold
  <2> QED BY <2>1, <2>2 DEF ServicesInv, InFocus, AtRest
<1>6. ServicesInv => ReviewHonoured /\ HoldBacked
  <2>1. CPInit => ReviewHonoured /\ HoldBacked
    BY DEF CPInit, ReviewHonoured, HoldBacked, NoReview
  <2> QED BY <2>1 DEF ServicesInv, InFocus, AtRest, CampaignsInv
<1>7. ServicesInv => Kept
  BY <1>1, <1>2, <1>3, <1>4, <1>5, <1>6 DEF Kept
<1> QED BY <1>7, ServicesInvariant, PTL

-----------------------------------------------------------------------------
(* The services as sellers.                                                *)

\* What may become of an order in one step.
Moves(from, to, revocable) ==
    \/ from = "unpaid" /\ to = "paid"
    \/ from = "paid" /\ to = "served"
    \/ from = "paid" /\ to = "refunded"
    \/ from = "served" /\ to = "refunded" /\ revocable

\* What a purchase or a renewal becomes: CompensateNumber may come after the
\* number was delivered.
LEMMA NumberSold ==
    ASSUME NumbersInv, VNNext
    PROVE  \/ \A o \in VNOrders : VNPaid(o)' = VNPaid(o)
           \/ \E x \in VNOrders :
                /\ Moves(VNPaid(x), VNPaid(x)', TRUE)
                /\ \A o \in VNOrders \ {x} : VNPaid(o)' = VNPaid(o)
<1> DEFINE Same == \A o \in VNOrders : VNPaid(o)' = VNPaid(o)
           Goal == \/ Same
                   \/ \E x \in VNOrders :
                        /\ Moves(VNPaid(x), VNPaid(x)', TRUE)
                        /\ \A o \in VNOrders \ {x} : VNPaid(o)' = VNPaid(o)
<1>0. /\ vnOrder \in [VNOrders -> VNOrderStatus]
      /\ \A p \in Procs : pc[p] # "idle" => job[p].of \in VNOrders
      /\ \A p \in Procs : pc[p] \in PastDebit => vnOrder[job[p].of] \in {"CHARGED", "FULFILLED"}
  BY DEF NumbersInv, NumbersTyped, VNTypeOK, NumbersWorking, VNJobs, NumbersCharged
<1>1. ASSUME vnOrder' = vnOrder PROVE Same
  BY <1>1 DEF VNPaid
<1>2. ASSUME NEW x \in VNOrders, NEW s, vnOrder' = [vnOrder EXCEPT ![x] = s],
             \/ vnOrder[x] = "NONE" /\ s = "CHARGED"
             \/ vnOrder[x] = "CHARGED" /\ s = "FULFILLED"
             \/ vnOrder[x] \in {"CHARGED", "FULFILLED"} /\ s = "FAILED"
      PROVE  Goal
  <2>1. Moves(VNPaid(x), VNPaid(x)', TRUE)
    BY <1>0, <1>2 DEF VNPaid, Moves
  <2>2. \A o \in VNOrders \ {x} : VNPaid(o)' = VNPaid(o)
    BY <1>0, <1>2 DEF VNPaid
  <2> QED BY <2>1, <2>2
<1>3. ASSUME NEW p \in Procs, NEW n \in VNumbers, PurchaseNumber(p, n) PROVE Goal
  BY <1>2, <1>3 DEF PurchaseNumber, DebitNumber, VNOrders
<1>4. ASSUME NEW p \in Procs, DebitRenewal(p) PROVE Goal
  <2>1. job[p].of \in VNOrders
    BY <1>0, <1>4 DEF DebitRenewal, At
  <2> QED BY <1>1, <1>2, <1>4, <2>1 DEF DebitRenewal, DebitNumber, vnVars
<1>5. ASSUME NEW p \in Procs, FulfilOrder(p) PROVE Goal
  <2>1. /\ job[p].of \in VNOrders /\ vnOrder[job[p].of] \in {"CHARGED", "FULFILLED"}
        /\ vnOrder' = [vnOrder EXCEPT ![job[p].of] = "FULFILLED"]
    BY <1>0, <1>5 DEF FulfilOrder, At, PastDebit
  <2>2. CASE vnOrder[job[p].of] = "FULFILLED"
    BY <1>0, <1>1, <2>1, <2>2
  <2> QED BY <1>2, <2>1, <2>2
<1>6. ASSUME NEW p \in Procs, CompensateNumber(p) PROVE Goal
  <2>1. /\ job[p].of \in VNOrders /\ vnOrder[job[p].of] \in {"CHARGED", "FULFILLED"}
        /\ vnOrder' = [vnOrder EXCEPT ![job[p].of] = "FAILED"]
    BY <1>0, <1>6 DEF CompensateNumber, At, PastDebit
  <2> QED BY <1>2, <2>1
<1>7. ASSUME NEW p \in Procs,
             \/ Provision(p) \/ StoreNumber(p) \/ TrackMargin(p) \/ ReleaseAtProvider(p) \/ MarkReleased(p)
             \/ ExecuteFails(p) \/ (Crash(p) /\ UNCHANGED vnVars)
      PROVE  vnOrder' = vnOrder
  BY <1>7 DEF Provision, StoreNumber, TrackMargin, ReleaseAtProvider, MarkReleased, ExecuteFails, vnVars
<1>8. ASSUME NEW p \in Procs, NEW n,
             ReleaseNumber(p, n) \/ ReleaseExpired(p, n) \/ RenewNumber(p, n)
      PROVE  vnOrder' = vnOrder
  BY <1>8 DEF ReleaseNumber, ReleaseExpired, BeginRelease, RenewNumber, vnVars
<1>9. ASSUME NEW n, TimePasses(n) \/ LifecycleSweep
      PROVE  vnOrder' = vnOrder
  BY <1>9 DEF TimePasses, LifecycleSweep
<1>10. Goal
  <2> HIDE DEF Goal, Same
  <2>1. Same => Goal
    BY DEF Goal
  <2> QED BY Zenon, <1>1, <1>3, <1>4, <1>5, <1>6, <1>7, <1>8, <1>9, <2>1 DEF VNNext, VNStep
<1> QED BY <1>10

\* A price given back stays given back, and what is fulfilled keeps its price.
LEMMA AccessSold ==
    ASSUME AccessInv, DANext
    PROVE  \/ \A r \in DARequests : DAPaid(r)' = DAPaid(r)
           \/ \E x \in DARequests :
                /\ Moves(DAPaid(x), DAPaid(x)', FALSE)
                /\ \A r \in DARequests \ {x} : DAPaid(r)' = DAPaid(r)
<1> DEFINE Same == \A r \in DARequests : DAPaid(r)' = DAPaid(r)
           Goal == \/ Same
                   \/ \E x \in DARequests :
                        /\ Moves(DAPaid(x), DAPaid(x)', FALSE)
                        /\ \A r \in DARequests \ {x} : DAPaid(r)' = DAPaid(r)
<1>0. /\ daStatus \in [DARequests -> DAStatus \cup {"NONE"}]
      /\ daCharge \in [DARequests -> {"NONE", "CHARGED", "REFUNDED"}]
      /\ \A r \in DARequests : daCharge[r] = "REFUNDED" <=> daStatus[r] \in Refunding
  BY DEF AccessInv, AccessTyped, DATypeOK, RefundNeedsTwo
<1>1. ASSUME UNCHANGED <<daStatus, daCharge>> PROVE Same
  BY <1>1 DEF DAPaid
<1>2. ASSUME NEW x \in DARequests, \E s \in DAStatus : SetAccessStatus(x, s)
      PROVE  Goal
  <2>1. PICK s \in DAStatus :
            /\ daStatus[x] # "NONE"
            /\ MayBecome(daStatus[x], s)
            /\ daStatus' = [daStatus EXCEPT ![x] = s]
            /\ daCharge' = [daCharge EXCEPT ![x] = IF s \in Refunding /\ s # daStatus[x] THEN "REFUNDED" ELSE @]
    BY <1>2 DEF SetAccessStatus
  <2>2. \A r \in DARequests \ {x} : DAPaid(r)' = DAPaid(r)
    BY <1>0, <2>1 DEF DAPaid
  <2>3. DAPaid(x)' = DAPaid(x) \/ Moves(DAPaid(x), DAPaid(x)', FALSE)
    BY <1>0, <2>1 DEF DAPaid, Moves, MayBecome, Terminal, Refunding, DAStatus
  <2> QED BY <2>2, <2>3
<1>3. ASSUME NEW x \in DARequests, CreateAccessRequest(x) PROVE Goal
  <2>1. /\ daStatus[x] = "NONE"
        /\ daStatus' = [daStatus EXCEPT ![x] = "PENDING"]
        /\ daCharge' = [daCharge EXCEPT ![x] = "CHARGED"]
    BY <1>3 DEF CreateAccessRequest
  <2>2. \A r \in DARequests \ {x} : DAPaid(r)' = DAPaid(r)
    BY <1>0, <2>1 DEF DAPaid
  <2>3. Moves(DAPaid(x), DAPaid(x)', FALSE)
    BY <1>0, <2>1 DEF DAPaid, Moves
  <2> QED BY <2>2, <2>3
<1>4. ASSUME NEW p \in Procs, PerformRefund(p) PROVE Goal
  <2>1. CASE UNCHANGED daVars
    BY <1>1, <2>1 DEF daVars
  <2>2. CASE SetAccessStatus(daApproval[ApprovalOf(p)].of, daApproval[ApprovalOf(p)].to)
    <3>1. pc[p] = "perform"
      BY <1>4 DEF PerformRefund
    <3>2. ApprovalOf(p) \in DAApprovals /\ daApproval[ApprovalOf(p)] # NoApproval
      BY <3>1, AccessJobs DEF AccessInv, AccessDecided, ApprovalOf
    <3>3. daApproval[ApprovalOf(p)] \in ApprovalRows
      BY <3>2 DEF AccessInv, AccessTyped, DATypeOK
    <3>4. daApproval[ApprovalOf(p)].of \in DARequests /\ daApproval[ApprovalOf(p)].to \in DAStatus
      BY <3>3 DEF ApprovalRows, Refunding, DAStatus
    <3> QED BY <1>2, <2>2, <3>4
  <2> QED BY <1>4, <2>1, <2>2 DEF PerformRefund
<1>5. ASSUME NEW r \in DARequests, NEW s \in DAStatus, UpdateAccessStatus(r, s) PROVE Goal
  BY <1>2, <1>5 DEF UpdateAccessStatus
<1>6. ASSUME NEW a, NEW r, NEW s, NEW admin, AskRefund(a, r, s, admin) PROVE UNCHANGED <<daStatus, daCharge>>
  BY <1>6 DEF AskRefund
<1>7. ASSUME NEW p \in Procs, NEW a, NEW admin, NEW op, BeginDecide(p, a, admin, op)
      PROVE  UNCHANGED <<daStatus, daCharge>>
  BY <1>7 DEF BeginDecide, daVars
<1>8. ASSUME NEW p \in Procs, Decide(p) \/ ExecuteApproval(p) PROVE UNCHANGED <<daStatus, daCharge>>
  BY <1>8 DEF Decide, ExecuteApproval, daVars
<1>9. ASSUME NEW p \in Procs,
             MarkExecuted(p) \/ MarkExecutionFailed(p) \/ ExecutionError(p) \/ (Crash(p) /\ UNCHANGED daVars)
      PROVE  UNCHANGED <<daStatus, daCharge>>
  BY <1>9 DEF MarkExecuted, MarkExecutionFailed, SetApproval, ExecutionError, daVars
<1>10. Goal
  <2> HIDE DEF Goal, Same
  <2>1. Same => Goal
    BY DEF Goal
  <2> QED BY Zenon, <1>1, <1>3, <1>4, <1>5, <1>6, <1>7, <1>8, <1>9, <2>1 DEF DANext
<1> QED BY <1>10

\* A remittance is no withdrawal; a withdrawal is debited or released once.
LEMMA WithdrawalSold ==
    ASSUME PayoutsInv, PONext
    PROVE  \/ \A w \in Withdrawals : WithdrawalPaid(w)' = WithdrawalPaid(w)
           \/ \E x \in Withdrawals :
                /\ Moves(WithdrawalPaid(x), WithdrawalPaid(x)', FALSE)
                /\ \A w \in Withdrawals \ {x} : WithdrawalPaid(w)' = WithdrawalPaid(w)
<1> DEFINE Same == \A w \in Withdrawals : WithdrawalPaid(w)' = WithdrawalPaid(w)
           Goal == \/ Same
                   \/ \E x \in Withdrawals :
                        /\ Moves(WithdrawalPaid(x), WithdrawalPaid(x)', FALSE)
                        /\ \A w \in Withdrawals \ {x} : WithdrawalPaid(w)' = WithdrawalPaid(w)
<1>0. /\ poStatus \in [PayoutIds -> PayoutStatus]
      /\ Withdrawals \in SUBSET PayoutIds /\ Remittances \in SUBSET PayoutIds
      /\ Remittances \cap Withdrawals = {}
  BY PayoutsAssumption DEF PayoutsInv, PayoutsTyped, POTypeOK, PayoutIds
<1>1. ASSUME poStatus' = poStatus PROVE Same
  BY <1>1 DEF WithdrawalPaid
<1>2. ASSUME NEW r \in Remittances, NEW s, SetPayout(r, s) PROVE Same
  BY <1>0, <1>2 DEF SetPayout, WithdrawalPaid
<1>3. ASSUME NEW w \in Withdrawals, NEW s \in PayoutStatus \ {"NONE"}, SetPayout(w, s), poStatus[w] = "HOLD"
      PROVE  Goal
  <2>1. \A x \in Withdrawals \ {w} : WithdrawalPaid(x)' = WithdrawalPaid(x)
    BY <1>0, <1>3 DEF SetPayout, WithdrawalPaid
  <2>2. WithdrawalPaid(w)' = WithdrawalPaid(w) \/ Moves(WithdrawalPaid(w), WithdrawalPaid(w)', FALSE)
    BY <1>0, <1>3 DEF SetPayout, WithdrawalPaid, Moves
  <2> QED BY <2>1, <2>2
<1>4. ASSUME NEW p \in Procs, NEW w \in Withdrawals, RequestWithdrawal(p, w) PROVE Goal
  <2>1. poStatus[w] = "NONE" /\ SetPayout(w, "HOLD")
    BY <1>4 DEF RequestWithdrawal
  <2>2. \A x \in Withdrawals \ {w} : WithdrawalPaid(x)' = WithdrawalPaid(x)
    BY <1>0, <2>1 DEF SetPayout, WithdrawalPaid
  <2>3. Moves(WithdrawalPaid(w), WithdrawalPaid(w)', FALSE)
    BY <1>0, <2>1 DEF SetPayout, WithdrawalPaid, Moves
  <2> QED BY <2>2, <2>3
\* The handler's own payout takes a status.
<1>5. ASSUME NEW p \in Procs, NEW s \in PayoutStatus \ {"NONE"}, SetPayout(job[p].of, s),
             pc[p] \in {"record", "safe", "ambiguous"}
      PROVE  Goal
  <2>1. CASE job[p].op = "withdraw"
    <3>1. job[p].of \in Withdrawals /\ poStatus[job[p].of] = "HOLD"
      BY <1>5, <2>1 DEF PayoutsInv, PayoutsWorking, WithdrawalsHandled, Withdrawing
    <3> QED BY <1>3, <1>5, <3>1
  <2>2. CASE job[p].op # "withdraw"
    <3>1. job[p].of \in Remittances
      BY <1>5, <2>2 DEF PayoutsInv, PayoutsWorking
    <3> QED BY <1>2, <1>5, <3>1
  <2> QED BY <2>1, <2>2
<1>6. ASSUME NEW p \in Procs, RecordTransfer(p) PROVE Goal
  <2>1. pc[p] = "record" /\ SetPayout(job[p].of, job[p].got)
    BY <1>6 DEF RecordTransfer
  <2>2. job[p].got \in PayoutStatus \ {"NONE"}
    BY <2>1 DEF PayoutsInv, PayoutsWorking, POJobs, Reported, PayoutStatus
  <2> QED BY <1>5, <2>1, <2>2
<1>7. ASSUME NEW p \in Procs, FailRejected(p) \/ HoldAmbiguous(p) PROVE Goal
  BY <1>5, <1>7 DEF FailRejected, HoldAmbiguous, PayoutStatus
<1>8. ASSUME NEW p \in Procs, DebitRemittance(p) \/ UpdateTransfer(p) PROVE Same
  <2>1. job[p].of \in Remittances
    BY <1>8 DEF DebitRemittance, UpdateTransfer, At, PayoutsInv, PayoutsWorking
  <2> QED BY <1>1, <1>2, <1>8, <2>1 DEF DebitRemittance, UpdateTransfer
<1>9. ASSUME NEW p \in Procs, NEW r,
             ReadQuote(p, r) \/ ClaimQuote(p) \/ SendTransfer(p) \/ RecordFails(p) \/ OpenException(p)
      PROVE  poStatus' = poStatus
  BY <1>9 DEF ReadQuote, ClaimQuote, SendTransfer, RecordFails, OpenException, poVars
<1>10. ASSUME NEW p, NEW x, NEW s,
              \/ BeginTransferEvent(p, x, s) \/ QuoteExpires(x) \/ ProviderMoves(x)
              \/ (Crash(p) /\ UNCHANGED poVars)
       PROVE  poStatus' = poStatus
  BY <1>10 DEF BeginTransferEvent, QuoteExpires, ProviderMoves, poVars
<1>11. Goal
  <2> HIDE DEF Goal, Same
  <2>1. Same => Goal
    BY DEF Goal
  <2> QED BY Zenon, <1>1, <1>4, <1>6, <1>7, <1>8, <1>9, <1>10, <2>1 DEF PONext
<1> QED BY <1>11

\* One order of all moves, and only its seller can have moved it.
LEMMA SoldSteps ==
    ASSUME NEW x \in Sold, Moves(SoldState[x], SoldState'[x], x \in VNOrders),
           \A o \in Sold \ {x} : SoldState'[o] = SoldState[o]
    PROVE  Order!Next
<1>1. SoldState' = [SoldState EXCEPT ![x] = SoldState'[x]]
  BY DEF SoldState
<1>2. Order!Becomes(x, SoldState'[x])
  BY <1>1 DEF Order!Becomes
<1> QED BY <1>2 DEF Moves, Order!Next, Order!Pay, Order!Serve, Order!GiveBack

\* No order moves, and what is sold stays as it was.
LEMMA SoldStays ==
    ASSUME \A o \in Sold : SoldState'[o] = SoldState[o]
    PROVE  SoldState' = SoldState
BY DEF SoldState

\* An order is as its seller says.
LEMMA SoldAs ==
    /\ \A o \in VNOrders : SoldState[o] = VNPaid(o) /\ SoldState'[o] = VNPaid(o)'
    /\ \A o \in DARequests \ VNOrders : SoldState[o] = DAPaid(o) /\ SoldState'[o] = DAPaid(o)'
    /\ \A o \in Withdrawals \ (VNOrders \cup DARequests) :
            SoldState[o] = WithdrawalPaid(o) /\ SoldState'[o] = WithdrawalPaid(o)'
BY DEF Sold, SoldState

\* What the sellers out of focus have sold stays as it was.
LEMMA SoldElsewhere ==
    ASSUME [Next]_vars
    PROVE  /\ focus # "numbers" \/ UNCHANGED vars => \A o \in VNOrders : VNPaid(o)' = VNPaid(o)
           /\ focus # "access" \/ UNCHANGED vars => \A o \in DARequests : DAPaid(o)' = DAPaid(o)
           /\ focus # "payouts" \/ UNCHANGED vars =>
                \A o \in Withdrawals : WithdrawalPaid(o)' = WithdrawalPaid(o)
<1>1. focus # "numbers" \/ UNCHANGED vars => UNCHANGED vnVars
  BY OneMoves DEF Standing, vars
<1>2. focus # "access" \/ UNCHANGED vars => UNCHANGED daVars
  BY OneMoves DEF Standing, vars
<1>3. focus # "payouts" \/ UNCHANGED vars => UNCHANGED poVars
  BY OneMoves DEF Standing, vars
<1> QED
  BY <1>1, <1>2, <1>3 DEF vnVars, VNPaid, daVars, DAPaid, poVars, WithdrawalPaid

\* Every step is a step of PaidOrder, or none.
LEMMA SellersStep ==
    ASSUME ServicesInv, [Next]_vars
    PROVE  [Order!Next]_SoldState
<1> DEFINE Still(f) == focus # f \/ UNCHANGED vars
<1>1. Still("numbers") => \A o \in VNOrders : VNPaid(o)' = VNPaid(o)
  BY SoldElsewhere
<1>2. Still("access") => \A o \in DARequests : DAPaid(o)' = DAPaid(o)
  BY SoldElsewhere
<1>3. Still("payouts") => \A o \in Withdrawals : WithdrawalPaid(o)' = WithdrawalPaid(o)
  BY SoldElsewhere
<1>4. CASE focus = "numbers" /\ Next
  <2>1. CASE \A o \in VNOrders : VNPaid(o)' = VNPaid(o)
    BY <1>2, <1>3, <1>4, <2>1, SoldAs, SoldStays DEF Sold
  <2>2. CASE \E x \in VNOrders :
                /\ Moves(VNPaid(x), VNPaid(x)', TRUE)
                /\ \A o \in VNOrders \ {x} : VNPaid(o)' = VNPaid(o)
    <3>1. PICK x \in VNOrders : /\ Moves(VNPaid(x), VNPaid(x)', TRUE)
                             /\ \A o \in VNOrders \ {x} : VNPaid(o)' = VNPaid(o)
      BY <2>2
    <3>2. \A o \in Sold \ {x} : SoldState'[o] = SoldState[o]
      BY <1>2, <1>3, <1>4, <3>1, SoldAs DEF Sold
    <3>3. x \in Sold /\ Moves(SoldState[x], SoldState'[x], x \in VNOrders)
      BY <3>1, SoldAs DEF Sold, Moves
    <3> QED BY <3>2, <3>3, SoldSteps
  <2>3. NumbersInv /\ VNNext
    BY <1>4, OneMoves DEF Moving, ServicesInv, InFocus
  <2> QED BY <2>1, <2>2, <2>3, NumberSold
<1>5. CASE focus = "access" /\ Next
  <2>1. CASE \A o \in DARequests : DAPaid(o)' = DAPaid(o)
    BY <1>1, <1>3, <1>5, <2>1, SoldAs, SoldStays DEF Sold
  <2>2. CASE \E x \in DARequests :
                /\ Moves(DAPaid(x), DAPaid(x)', FALSE)
                /\ \A o \in DARequests \ {x} : DAPaid(o)' = DAPaid(o)
    <3>1. PICK x \in DARequests : /\ Moves(DAPaid(x), DAPaid(x)', FALSE)
                             /\ \A o \in DARequests \ {x} : DAPaid(o)' = DAPaid(o)
      BY <2>2
    <3>2. \A o \in Sold \ {x} : SoldState'[o] = SoldState[o]
      BY <1>1, <1>3, <1>5, <3>1, SoldAs DEF Sold
    <3>3. CASE x \in VNOrders
      <4>1. SoldState'[x] = SoldState[x]
        BY <1>1, <1>3, <1>5, <3>3, SoldAs
      <4> QED BY <3>2, <4>1, SoldStays
    <3>4. CASE x \notin VNOrders
      <4>1. x \in Sold /\ Moves(SoldState[x], SoldState'[x], x \in VNOrders)
        BY <3>1, <3>4, SoldAs DEF Sold, Moves
      <4> QED BY <3>2, <4>1, SoldSteps
    <3> QED BY <3>3, <3>4
  <2>3. AccessInv /\ DANext
    BY <1>5, OneMoves DEF Moving, ServicesInv, InFocus
  <2> QED BY <2>1, <2>2, <2>3, AccessSold
<1>6. CASE focus = "payouts" /\ Next
  <2>1. CASE \A o \in Withdrawals : WithdrawalPaid(o)' = WithdrawalPaid(o)
    BY <1>1, <1>2, <1>6, <2>1, SoldAs, SoldStays DEF Sold
  <2>2. CASE \E x \in Withdrawals :
                /\ Moves(WithdrawalPaid(x), WithdrawalPaid(x)', FALSE)
                /\ \A o \in Withdrawals \ {x} : WithdrawalPaid(o)' = WithdrawalPaid(o)
    <3>1. PICK x \in Withdrawals : /\ Moves(WithdrawalPaid(x), WithdrawalPaid(x)', FALSE)
                             /\ \A o \in Withdrawals \ {x} : WithdrawalPaid(o)' = WithdrawalPaid(o)
      BY <2>2
    <3>2. \A o \in Sold \ {x} : SoldState'[o] = SoldState[o]
      BY <1>1, <1>2, <1>6, <3>1, SoldAs DEF Sold
    <3>3. CASE x \in VNOrders \cup DARequests
      <4>1. SoldState'[x] = SoldState[x]
        BY <1>1, <1>2, <1>6, <3>3, SoldAs
      <4> QED BY <3>2, <4>1, SoldStays
    <3>4. CASE x \notin VNOrders \cup DARequests
      <4>1. x \in Sold /\ Moves(SoldState[x], SoldState'[x], x \in VNOrders)
        BY <3>1, <3>4, SoldAs DEF Sold, Moves
      <4> QED BY <3>2, <4>1, SoldSteps
    <3> QED BY <3>3, <3>4
  <2>3. PayoutsInv /\ PONext
    BY <1>6, OneMoves DEF Moving, ServicesInv, InFocus
  <2> QED BY <2>1, <2>2, <2>3, WithdrawalSold
<1>7. CASE focus \notin {"numbers", "access", "payouts"} \/ UNCHANGED vars
  BY <1>1, <1>2, <1>3, <1>7, SoldAs, SoldStays DEF Sold
<1> QED BY <1>4, <1>5, <1>6, <1>7

\* The numbers, the digital access and the withdrawals implement PaidOrder: every order is charged once, given back at most once and never
\* served afterwards.
THEOREM SellersImplementPaidOrder == Spec => SellersKeepPromise
<1>1. Init => Order!Init
  BY DEF Init, VNInit, DAInit, POInit, Order!Init, SoldState, Sold, VNPaid, DAPaid, WithdrawalPaid,
         PayoutIds
<1>2. ServicesInv /\ [Next]_vars => [Order!Next]_SoldState
  BY SellersStep
<1> QED BY <1>1, <1>2, ServicesInvariant, PTL DEF Spec, SellersKeepPromise, Order!Spec
===============================================================================
