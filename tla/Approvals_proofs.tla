--------------------------- MODULE Approvals_proofs ---------------------------
(***************************************************************************)
(* Proofs about refunds two operators decide on and payouts a provider     *)
(* decides on.  What is known of an approval a handler works on: it        *)
(* exists, the handler's operator did not ask for it, and past the         *)
(* decision it has a decider.  A withdrawal has one handler for its whole  *)
(* life, which knows what the provider did with it; a quote that is USED   *)
(* has one handler that may still debit, or one remittance debited.        *)
(***************************************************************************)
EXTENDS AccessRefunds, Payouts, TLAPS

-----------------------------------------------------------------------------
(* Refunds of digital access.                                              *)

AccessTyped ==
    /\ pc \in [Procs -> DASteps \cup {"idle"}]
    /\ job \in [Procs -> DAJobs \cup {Idle}]
    /\ DATypeOK

\* Nobody decides on what they asked for.
AccessDecided ==
    /\ \A a \in DAApprovals : daApproval[a] # NoApproval => daApproval[a].decider # daApproval[a].by
    /\ \A p \in Procs : pc[p] # "idle" =>
        /\ job[p] \in DAJobs
        /\ daApproval[ApprovalOf(p)] # NoApproval
        /\ daApproval[ApprovalOf(p)].by # Decider(p)
        /\ pc[p] # "decide" => daApproval[ApprovalOf(p)].decider # None

AccessInv == AccessTyped /\ AccessDecided /\ RefundNeedsTwo

LEMMA AccessStarts == DAInit /\ HandlersInit => AccessInv
BY DEF DAInit, HandlersInit, AccessInv, AccessTyped, DATypeOK, AccessDecided, RefundNeedsTwo, Refunding, Idle

\* A job names an approval and an operator; a row is no NoApproval.
LEMMA AccessJobs ==
    /\ \A j \in DAJobs : j # Idle /\ j.of[1] \in DAApprovals /\ j.of[2] \in Admins
    /\ NoApproval \notin ApprovalRows
BY DEF DAJobs, Idle, NoApproval, ApprovalRows, ApprovalStatus

LEMMA AccessStep ==
    ASSUME AccessInv, DANext
    PROVE  AccessInv'
<1> USE DEF Start, Goto, Return, Finish, At, daVars, handlers
<1>0. AccessTyped /\ AccessDecided /\ RefundNeedsTwo
  BY DEF AccessInv
<1> SUFFICES AccessTyped' /\ AccessDecided' /\ RefundNeedsTwo'
  BY DEF AccessInv
<1>1. ASSUME NEW r \in DARequests, CreateAccessRequest(r)
      PROVE  AccessTyped' /\ AccessDecided' /\ RefundNeedsTwo'
  <2>1. AccessTyped'
    BY <1>0, <1>1 DEF CreateAccessRequest, AccessTyped, DATypeOK, DAStatus
  <2>2. AccessDecided'
    BY <1>0, <1>1, AccessJobs, AccessAssumption DEF CreateAccessRequest, AccessTyped, AccessDecided,
       ApprovalOf, Decider, DATypeOK, DASteps, Idle
  <2>3. RefundNeedsTwo'
    BY <1>0, <1>1, AccessJobs, AccessAssumption DEF CreateAccessRequest, AccessTyped, AccessDecided,
       RefundNeedsTwo, ApprovalOf, DATypeOK, Refunding
  <2> QED BY <2>1, <2>2, <2>3
<1>2. ASSUME NEW r \in DARequests, NEW s \in DAStatus, UpdateAccessStatus(r, s)
      PROVE  AccessTyped' /\ AccessDecided' /\ RefundNeedsTwo'
  <2>1. AccessTyped'
    BY <1>0, <1>2, AccessJobs, AccessAssumption DEF UpdateAccessStatus, SetAccessStatus, MayBecome,
       DAStatus, Terminal, Refunding, AccessTyped, AccessDecided, DATypeOK, DAJobs, DASteps, Idle
  <2>2. AccessDecided'
    BY <1>0, <1>2, AccessJobs, AccessAssumption DEF UpdateAccessStatus, SetAccessStatus, MayBecome,
       DAStatus, Terminal, Refunding, AccessTyped, AccessDecided, ApprovalOf, Decider, DATypeOK, DASteps,
       Idle
  <2>3. RefundNeedsTwo'
    BY <1>0, <1>2, AccessJobs, AccessAssumption DEF UpdateAccessStatus, SetAccessStatus, MayBecome,
       DAStatus, Terminal, Refunding, AccessTyped, AccessDecided, RefundNeedsTwo, ApprovalOf, DATypeOK
  <2> QED BY <2>1, <2>2, <2>3
<1>3. ASSUME NEW r \in DARequests, NEW s \in DAStatus, NEW a \in DAApprovals, NEW admin \in Admins, AskRefund(a, r, s, admin)
      PROVE  AccessTyped' /\ AccessDecided' /\ RefundNeedsTwo'
  <2>1. AccessTyped'
    BY <1>0, <1>3, AccessJobs, AccessAssumption DEF AskRefund, ApprovalRows, ApprovalStatus, NoApproval,
       AccessTyped, AccessDecided, DATypeOK, DAJobs, DASteps, Idle
  <2>2. AccessDecided'
    BY <1>0, <1>3, AccessJobs, AccessAssumption DEF AskRefund, ApprovalRows, ApprovalStatus, NoApproval,
       AccessTyped, AccessDecided, ApprovalOf, Decider, DATypeOK, DASteps, Idle
  <2>3. RefundNeedsTwo'
    BY <1>0, <1>3, AccessJobs, AccessAssumption DEF AskRefund, ApprovalRows, ApprovalStatus, NoApproval,
       AccessTyped, AccessDecided, RefundNeedsTwo, ApprovalOf, DATypeOK, Refunding
  <2> QED BY <2>1, <2>2, <2>3
<1>4. ASSUME NEW p \in Procs, NEW a \in DAApprovals, NEW admin \in Admins, NEW op \in {"approve", "reject", "approve_only"}, BeginDecide(p, a, admin, op)
      PROVE  AccessTyped' /\ AccessDecided' /\ RefundNeedsTwo'
  <2>1. AccessTyped'
    BY <1>0, <1>4, AccessJobs, AccessAssumption DEF BeginDecide, NoApproval, ApprovalRows, ApprovalStatus,
       AccessTyped, AccessDecided, DATypeOK, DAJobs, DASteps, Idle
  <2>2. AccessDecided'
    <3> DEFINE j == [op |-> op, of |-> <<a, admin>>, saw |-> "PENDING", got |-> "none"]
    <3>1. job' = [job EXCEPT ![p] = j] /\ pc' = [pc EXCEPT ![p] = "decide"] /\ daApproval' = daApproval
      BY <1>4 DEF BeginDecide
    <3>2. j \in DAJobs /\ j.of[1] = a /\ j.of[2] = admin
      BY <1>4 DEF DAJobs
    <3>3. daApproval[a] # NoApproval /\ daApproval[a].by # admin
      BY <1>4 DEF BeginDecide, NoApproval
    <3> HIDE DEF j
    <3> QED BY <1>0, <3>1, <3>2, <3>3 DEF AccessTyped, AccessDecided, ApprovalOf, Decider
  <2>3. RefundNeedsTwo'
    BY <1>0, <1>4, AccessJobs, AccessAssumption DEF BeginDecide, NoApproval, ApprovalRows, ApprovalStatus,
       AccessTyped, AccessDecided, RefundNeedsTwo, ApprovalOf, DATypeOK, Refunding
  <2> QED BY <2>1, <2>2, <2>3
<1>5. ASSUME NEW p \in Procs, Decide(p)
      PROVE  AccessTyped' /\ AccessDecided' /\ RefundNeedsTwo'
  <2>1. AccessTyped'
    <3> DEFINE a == ApprovalOf(p)
               d == Decider(p)
               s == IF job[p].op = "reject" THEN "REJECTED" ELSE "APPROVED"
    <3>1. a \in DAApprovals /\ d \in Admins /\ daApproval[a] \in ApprovalRows /\ daApproval[a].by # d
      BY <1>0, <1>5, AccessJobs DEF Decide, AccessTyped, AccessDecided, ApprovalOf, Decider, DATypeOK
    <3>2. daApproval' = [daApproval EXCEPT ![a] = [daApproval[a] EXCEPT !.status = s, !.decider = d]]
      BY <1>5 DEF Decide
    <3>3. s \in ApprovalStatus
      BY DEF ApprovalStatus
    <3>4. daApproval'[a] \in ApprovalRows
      BY <1>0, <3>1, <3>2, <3>3 DEF AccessTyped, DATypeOK, ApprovalRows
    <3> HIDE DEF a, d, s
    <3>5. DATypeOK'
      BY <1>0, <1>5, <3>1, <3>2, <3>4 DEF Decide, AccessTyped, DATypeOK
    <3> QED BY <1>0, <1>5, <3>5 DEF Decide, AccessTyped, DASteps, Idle
  <2>2. AccessDecided'
    <3> DEFINE a == ApprovalOf(p)
               d == Decider(p)
               s == IF job[p].op = "reject" THEN "REJECTED" ELSE "APPROVED"
    <3>1. a \in DAApprovals /\ d \in Admins /\ daApproval[a] \in ApprovalRows /\ daApproval[a].by # d
      BY <1>0, <1>5, AccessJobs DEF Decide, AccessTyped, AccessDecided, ApprovalOf, Decider, DATypeOK
    <3>2. daApproval' = [daApproval EXCEPT ![a] = [daApproval[a] EXCEPT !.status = s, !.decider = d]]
      BY <1>5 DEF Decide
    <3>3. s \in ApprovalStatus
      BY DEF ApprovalStatus
    <3>4. /\ daApproval'[a] \in ApprovalRows
          /\ daApproval'[a].by = daApproval[a].by /\ daApproval'[a].decider = d
      <4>1. daApproval'[a] = [daApproval[a] EXCEPT !.status = s, !.decider = d]
        BY <1>0, <3>1, <3>2 DEF AccessTyped, DATypeOK
      <4> HIDE DEF a, d, s
      <4> QED BY <3>1, <3>3, <4>1 DEF ApprovalRows
    <3> HIDE DEF d, s
    <3>5. \A x \in DAApprovals \ {a} : daApproval'[x] = daApproval[x]
      BY <1>0, <3>2 DEF AccessTyped, DATypeOK
    <3>6. daApproval'[a] # NoApproval /\ d # None
      BY <3>1, <3>4, AccessJobs, AccessAssumption
    <3>7. \A q \in Procs : pc'[q] # "idle" => job'[q] = job[q] /\ pc[q] # "idle"
      BY <1>0, <1>5 DEF Decide, AccessTyped
    <3>8. \A q \in Procs : pc'[q] # "idle" /\ pc'[q] # "decide" /\ q # p => pc'[q] = pc[q]
      BY <1>0, <1>5 DEF Decide, AccessTyped
    <3>9. \A q \in Procs : pc[q] # "idle" => ApprovalOf(q) \in DAApprovals
      BY <1>0, AccessJobs DEF AccessDecided, ApprovalOf
    <3> QED BY <1>0, <3>1, <3>4, <3>5, <3>6, <3>7, <3>8, <3>9 DEF AccessDecided, ApprovalOf, Decider
  <2>3. RefundNeedsTwo'
    BY <1>0, <1>5, AccessJobs, AccessAssumption DEF Decide, Decider, ApprovalOf, ApprovalRows,
       ApprovalStatus, NoApproval, AccessTyped, AccessDecided, RefundNeedsTwo, DATypeOK, Refunding
  <2> QED BY <2>1, <2>2, <2>3
<1>6. ASSUME NEW p \in Procs, ExecuteApproval(p)
      PROVE  AccessTyped' /\ AccessDecided' /\ RefundNeedsTwo'
  <2>1. AccessTyped'
    BY <1>0, <1>6, AccessJobs, AccessAssumption DEF ExecuteApproval, ApprovalOf, AccessTyped, AccessDecided,
       DATypeOK, DAJobs, DASteps, Idle
  <2>2. AccessDecided'
    BY <1>0, <1>6, AccessJobs, AccessAssumption DEF ExecuteApproval, ApprovalOf, AccessTyped, AccessDecided,
       Decider, DATypeOK, DASteps, Idle
  <2>3. RefundNeedsTwo'
    BY <1>0, <1>6, AccessJobs, AccessAssumption DEF ExecuteApproval, ApprovalOf, AccessTyped, AccessDecided,
       RefundNeedsTwo, DATypeOK, Refunding
  <2> QED BY <2>1, <2>2, <2>3
<1>7. ASSUME NEW p \in Procs, PerformRefund(p)
      PROVE  AccessTyped' /\ AccessDecided' /\ RefundNeedsTwo'
  <2>1. AccessTyped'
    <3> DEFINE a == daApproval[ApprovalOf(p)]
    <3>1. /\ ApprovalOf(p) \in DAApprovals /\ a \in ApprovalRows
          /\ a.decider # None /\ a.decider # a.by
      BY <1>0, <1>7, AccessJobs DEF PerformRefund, AccessTyped, AccessDecided, ApprovalOf, DATypeOK
    <3>2. a.of \in DARequests /\ a.to \in Refunding
      BY <3>1 DEF ApprovalRows
    <3> HIDE DEF a
    <3>3. DATypeOK'
      BY <1>0, <1>7, <3>2 DEF PerformRefund, SetAccessStatus, AccessTyped, DATypeOK, DAStatus, Refunding, a
    <3> QED BY <1>0, <1>7, <3>3 DEF PerformRefund, AccessTyped, DASteps
  <2>2. AccessDecided'
    BY <1>0, <1>7, AccessJobs, AccessAssumption DEF PerformRefund, ApprovalOf, SetAccessStatus, MayBecome,
       Terminal, Refunding, AccessTyped, AccessDecided, Decider, DATypeOK, DASteps, Idle
  <2>3. RefundNeedsTwo'
    <3> DEFINE a == daApproval[ApprovalOf(p)]
    <3>1. /\ ApprovalOf(p) \in DAApprovals /\ a \in ApprovalRows
          /\ a.decider # None /\ a.decider # a.by
      BY <1>0, <1>7, AccessJobs DEF PerformRefund, AccessTyped, AccessDecided, ApprovalOf, DATypeOK
    <3>2. a.of \in DARequests /\ a.to \in Refunding
      BY <3>1 DEF ApprovalRows
    <3>3. \A r \in DARequests : daCharge'[r] = "REFUNDED" <=> daStatus'[r] \in Refunding
      BY <1>0, <1>7, <3>2 DEF PerformRefund, SetAccessStatus, MayBecome, Terminal, Refunding, AccessTyped,
         DATypeOK, RefundNeedsTwo
    <3>4. \A r \in DARequests : daCharge'[r] = "REFUNDED" => r = a.of \/ daCharge[r] = "REFUNDED"
      BY <1>0, <1>7, <3>2 DEF PerformRefund, SetAccessStatus, AccessTyped, DATypeOK
    <3>5. daApproval' = daApproval
      BY <1>7 DEF PerformRefund, SetAccessStatus
    <3> QED BY <1>0, <3>1, <3>3, <3>4, <3>5 DEF RefundNeedsTwo
  <2> QED BY <2>1, <2>2, <2>3
<1>8. ASSUME NEW p \in Procs, MarkExecuted(p)
      PROVE  AccessTyped' /\ AccessDecided' /\ RefundNeedsTwo'
  <2>1. AccessTyped'
    BY <1>0, <1>8, AccessJobs, AccessAssumption DEF MarkExecuted, SetApproval, ApprovalOf, ApprovalRows,
       ApprovalStatus, NoApproval, AccessTyped, AccessDecided, DATypeOK, DAJobs, DASteps, Idle
  <2>2. AccessDecided'
    BY <1>0, <1>8, AccessJobs, AccessAssumption DEF MarkExecuted, SetApproval, ApprovalOf, ApprovalRows,
       ApprovalStatus, NoApproval, AccessTyped, AccessDecided, Decider, DATypeOK, DASteps, Idle
  <2>3. RefundNeedsTwo'
    BY <1>0, <1>8, AccessJobs, AccessAssumption DEF MarkExecuted, SetApproval, ApprovalOf, ApprovalRows,
       ApprovalStatus, NoApproval, AccessTyped, AccessDecided, RefundNeedsTwo, DATypeOK, Refunding
  <2> QED BY <2>1, <2>2, <2>3
<1>9. ASSUME NEW p \in Procs, MarkExecutionFailed(p)
      PROVE  AccessTyped' /\ AccessDecided' /\ RefundNeedsTwo'
  <2>1. AccessTyped'
    BY <1>0, <1>9, AccessJobs, AccessAssumption DEF MarkExecutionFailed, SetApproval, ApprovalOf,
       ApprovalRows, ApprovalStatus, NoApproval, AccessTyped, AccessDecided, DATypeOK, DAJobs, DASteps, Idle
  <2>2. AccessDecided'
    BY <1>0, <1>9, AccessJobs, AccessAssumption DEF MarkExecutionFailed, SetApproval, ApprovalOf,
       ApprovalRows, ApprovalStatus, NoApproval, AccessTyped, AccessDecided, Decider, DATypeOK, DASteps,
       Idle
  <2>3. RefundNeedsTwo'
    BY <1>0, <1>9, AccessJobs, AccessAssumption DEF MarkExecutionFailed, SetApproval, ApprovalOf,
       ApprovalRows, ApprovalStatus, NoApproval, AccessTyped, AccessDecided, RefundNeedsTwo, DATypeOK,
       Refunding
  <2> QED BY <2>1, <2>2, <2>3
<1>10. ASSUME NEW p \in Procs, ExecutionError(p)
      PROVE  AccessTyped' /\ AccessDecided' /\ RefundNeedsTwo'
  <2>1. AccessTyped'
    BY <1>0, <1>10, AccessJobs, AccessAssumption DEF ExecutionError, DbError, AccessTyped, AccessDecided,
       DATypeOK, DAJobs, DASteps, Idle
  <2>2. AccessDecided'
    BY <1>0, <1>10, AccessJobs, AccessAssumption DEF ExecutionError, DbError, AccessTyped, AccessDecided,
       ApprovalOf, Decider, DATypeOK, DASteps, Idle
  <2>3. RefundNeedsTwo'
    BY <1>0, <1>10, AccessJobs, AccessAssumption DEF ExecutionError, DbError, AccessTyped, AccessDecided,
       RefundNeedsTwo, ApprovalOf, DATypeOK, Refunding
  <2> QED BY <2>1, <2>2, <2>3
<1>11. ASSUME NEW p \in Procs, Crash(p), UNCHANGED daVars
      PROVE  AccessTyped' /\ AccessDecided' /\ RefundNeedsTwo'
  <2>1. AccessTyped'
    BY <1>0, <1>11, AccessJobs, AccessAssumption DEF Crash, AccessTyped, AccessDecided, DATypeOK, DAJobs,
       DASteps, Idle
  <2>2. AccessDecided'
    BY <1>0, <1>11, AccessJobs, AccessAssumption DEF Crash, AccessTyped, AccessDecided, ApprovalOf, Decider,
       DATypeOK, DASteps, Idle
  <2>3. RefundNeedsTwo'
    BY <1>0, <1>11, AccessJobs, AccessAssumption DEF Crash, AccessTyped, AccessDecided, RefundNeedsTwo,
       ApprovalOf, DATypeOK, Refunding
  <2> QED BY <2>1, <2>2, <2>3
<1> QED
  BY <1>1, <1>2, <1>3, <1>4, <1>5, <1>6, <1>7, <1>8, <1>9, <1>10, <1>11 DEF DANext

LEMMA AccessInductive == AccessInv /\ [DANext]_<<daVars, handlers>> => AccessInv'
<1>1. CASE UNCHANGED <<daVars, handlers>>
  BY <1>1 DEF daVars, handlers, AccessInv, AccessTyped, DATypeOK, AccessDecided, RefundNeedsTwo,
     ApprovalOf, Decider
<1> QED BY <1>1, AccessStep

\* The inductive invariant behind RefundNeedsTwo holds in every behaviour.
THEOREM AccessInvariant == DASpec => []AccessInv
BY AccessStarts, AccessInductive, PTL DEF DASpec

\* ApprovalsService.decide: a price is given back only if one operator asked for
\* it and another decided, and never for a request that was fulfilled.
THEOREM RefundsNeedTwo == DASpec => []RefundNeedsTwo
<1>1. AccessInv => RefundNeedsTwo
  BY DEF AccessInv
<1> QED BY <1>1, AccessInvariant, PTL

-----------------------------------------------------------------------------
(* Payouts.                                                                *)

PayoutsTyped ==
    /\ pc \in [Procs -> POSteps \cup {"idle"}]
    /\ job \in [Procs -> POJobs \cup {Idle}]
    /\ POTypeOK

PayoutsWorking ==
    \A p \in Procs :
        /\ pc[p] # "idle" => job[p] \in POJobs
        /\ pc[p] # "idle" /\ job[p].op = "withdraw" => job[p].of \in Withdrawals
        /\ pc[p] # "idle" /\ job[p].op # "withdraw" => job[p].of \in Remittances
        /\ pc[p] \in {"claim", "debit"} => job[p].op = "remit"
        /\ pc[p] \notin {"idle", "update"} => job[p].op # "webhook"
        /\ pc[p] = "update" => job[p].op = "webhook"
        /\ pc[p] \in {"record", "update"} => job[p].got # "none"

\* While a withdrawal's fate is being learnt, it is held, and by one handler.
Withdrawing(p) == pc[p] \in {"send", "record", "safe", "ambiguous"} /\ job[p].op = "withdraw"
WithdrawalsHandled ==
    /\ \A p \in Procs : Withdrawing(p) =>
        /\ poStatus[job[p].of] = "HOLD"
        /\ \A q \in Procs : Withdrawing(q) /\ job[q].of = job[p].of => q = p
        /\ pc[p] = "record" => job[p].got = poProvider[job[p].of]
                               /\ job[p].got \in {"PROCESSING", "COMPLETED", "FAILED"}
        /\ pc[p] = "safe" => poProvider[job[p].of] = "rejected"
    /\ \A w \in Withdrawals : poStatus[w] = "NONE" => poEntries[w] = {}

\* A debit is about to come, or has come, of at most one remittance of a quote.
QuotesClaimed ==
    /\ \A r \in Remittances : poEntries[r] # {} => poQuote[PoQuote[r]] = "USED"
    /\ \A p \in Procs : pc[p] = "debit" =>
        /\ poQuote[PoQuote[job[p].of]] = "USED"
        /\ \A r \in Remittances : PoQuote[r] = PoQuote[job[p].of] => poEntries[r] = {}
        /\ \A q \in Procs : pc[q] = "debit" /\ PoQuote[job[q].of] = PoQuote[job[p].of] => q = p
    \* Only a withdrawal enters anything after the debit.
    /\ \A p \in Procs : pc[p] \in {"send", "record", "safe", "ambiguous"} /\ job[p].op = "remit" =>
        poEntries[job[p].of] # {}

PayoutsInv == PayoutsTyped /\ PayoutsWorking /\ WithdrawalsHandled /\ QuotesClaimed /\ PayoutsHonest

LEMMA PayoutsStart == POInit /\ HandlersInit => PayoutsInv
BY PayoutsAssumption
   DEF POInit, HandlersInit, PayoutsInv, PayoutsTyped, POTypeOK, PayoutStatus, PayoutFates, PayoutIds, 
       PayoutsWorking, Withdrawing, WithdrawalsHandled, QuotesClaimed, PayoutsHonest, Idle

\* A job names a payout.
LEMMA PayoutsJobs == \A j \in POJobs : j # Idle /\ j.of \in PayoutIds
BY DEF POJobs, Idle

LEMMA PayoutsStep ==
    ASSUME PayoutsInv, PONext
    PROVE  PayoutsInv'
<1> USE DEF Start, Goto, Learn, Return, Finish, At, poVars, poBooks, poExternal, handlers
<1>0. PayoutsTyped /\ PayoutsWorking /\ WithdrawalsHandled /\ QuotesClaimed /\ PayoutsHonest
  BY DEF PayoutsInv
<1> SUFFICES (PayoutsTyped /\ PayoutsWorking)' /\ WithdrawalsHandled' /\ QuotesClaimed' /\ PayoutsHonest'
  BY DEF PayoutsInv
<1>1. ASSUME NEW p \in Procs, NEW r \in Remittances, ReadQuote(p, r)
      PROVE  (PayoutsTyped /\ PayoutsWorking)' /\ WithdrawalsHandled' /\ QuotesClaimed' /\ PayoutsHonest'
  <2>1. (PayoutsTyped /\ PayoutsWorking)'
    BY <1>0, <1>1, PayoutsJobs DEF ReadQuote, PayoutsTyped, PayoutsWorking, POTypeOK, POJobs, POSteps,
       PayoutIds, PayoutStatus, PayoutFates, Reported, Idle
  <2>2. WithdrawalsHandled'
    BY <1>0, <1>1, PayoutsAssumption DEF ReadQuote, PayoutsTyped, PayoutsWorking, POTypeOK, POJobs,
       PayoutIds, Withdrawing, WithdrawalsHandled, PayoutsHonest, Idle
  <2>3. QuotesClaimed'
    BY <1>0, <1>1, PayoutsAssumption DEF ReadQuote, PayoutsTyped, PayoutsWorking, POTypeOK, POJobs,
       PayoutIds, QuotesClaimed, Idle
  <2>4. PayoutsHonest'
    BY <1>0, <1>1, PayoutsAssumption DEF ReadQuote, PayoutsTyped, PayoutsWorking, POTypeOK, POJobs,
       PayoutIds, Withdrawing, WithdrawalsHandled, QuotesClaimed, PayoutsHonest
  <2> QED BY <2>1, <2>2, <2>3, <2>4
<1>2. ASSUME NEW p \in Procs, ClaimQuote(p)
      PROVE  (PayoutsTyped /\ PayoutsWorking)' /\ WithdrawalsHandled' /\ QuotesClaimed' /\ PayoutsHonest'
  <2>1. (PayoutsTyped /\ PayoutsWorking)'
    BY <1>0, <1>2, PayoutsJobs DEF ClaimQuote, PayoutsTyped, PayoutsWorking, POTypeOK, POJobs, POSteps,
       PayoutIds, PayoutStatus, PayoutFates, Reported, Idle
  <2>2. WithdrawalsHandled'
    BY <1>0, <1>2, PayoutsAssumption DEF ClaimQuote, PayoutsTyped, PayoutsWorking, POTypeOK, POJobs,
       PayoutIds, Withdrawing, WithdrawalsHandled, PayoutsHonest, Idle
  <2>3. QuotesClaimed'
    BY <1>0, <1>2, PayoutsAssumption DEF ClaimQuote, PayoutsTyped, PayoutsWorking, POTypeOK, POJobs,
       PayoutIds, QuotesClaimed, Idle
  <2>4. PayoutsHonest'
    BY <1>0, <1>2, PayoutsAssumption DEF ClaimQuote, PayoutsTyped, PayoutsWorking, POTypeOK, POJobs,
       PayoutIds, Withdrawing, WithdrawalsHandled, QuotesClaimed, PayoutsHonest
  <2> QED BY <2>1, <2>2, <2>3, <2>4
<1>3. ASSUME NEW p \in Procs, DebitRemittance(p)
      PROVE  (PayoutsTyped /\ PayoutsWorking)' /\ WithdrawalsHandled' /\ QuotesClaimed' /\ PayoutsHonest'
  <2>1. (PayoutsTyped /\ PayoutsWorking)'
    BY <1>0, <1>3, PayoutsJobs DEF DebitRemittance, SetPayout, Enter, PayoutsTyped, PayoutsWorking,
       POTypeOK, POJobs, POSteps, PayoutIds, PayoutStatus, PayoutFates, Reported, Idle
  <2>2. WithdrawalsHandled'
    <3> DEFINE r == job[p].of
    <3>1. r \in Remittances /\ r \notin Withdrawals /\ pc[p] = "debit" /\ job[p].op = "remit"
      BY <1>0, <1>3, PayoutsAssumption DEF DebitRemittance, PayoutsWorking
    <3>2. \A w \in Withdrawals : poStatus'[w] = poStatus[w] /\ poEntries'[w] = poEntries[w]
      BY <1>0, <1>3, <3>1 DEF DebitRemittance, SetPayout, Enter, PayoutsTyped, POTypeOK, PayoutIds
    <3>3. poProvider' = poProvider
      BY <1>3 DEF DebitRemittance
    <3>4. \A q \in Procs : Withdrawing(q)' => Withdrawing(q) /\ job'[q] = job[q] /\ pc'[q] = pc[q]
      BY <1>0, <1>3, <3>1 DEF DebitRemittance, PayoutsTyped, Withdrawing, Idle
    <3>5. \A q \in Procs : Withdrawing(q) => job[q].of \in Withdrawals
      BY <1>0 DEF PayoutsWorking, Withdrawing
    <3> QED BY <1>0, <3>2, <3>3, <3>4, <3>5 DEF WithdrawalsHandled
  <2>3. QuotesClaimed'
    <3> DEFINE r == job[p].of
    <3>1. r \in Remittances /\ r \notin Withdrawals /\ pc[p] = "debit" /\ job[p].op = "remit"
      BY <1>0, <1>3, PayoutsAssumption DEF DebitRemittance, PayoutsWorking
    <3>2. CASE Return(p) /\ UNCHANGED poEntries
      BY <1>0, <1>3, <3>2 DEF DebitRemittance, PayoutsTyped, QuotesClaimed
    <3>3. CASE Enter(r, {"debit"}) /\ Goto(p, "send")
      <4>1. poEntries'[r] # {} /\ \A x \in Remittances \ {r} : poEntries'[x] = poEntries[x]
        BY <1>0, <3>1, <3>3 DEF Enter, PayoutsTyped, POTypeOK, PayoutIds
      <4>2. poQuote' = poQuote /\ job' = job /\ pc' = [pc EXCEPT ![p] = "send"]
        BY <1>3, <3>3 DEF DebitRemittance
      <4>3. \A q \in Procs : pc'[q] = "debit" => pc[q] = "debit" /\ q # p
        BY <1>0, <4>2 DEF PayoutsTyped
      <4>4. \A q \in Procs : pc[q] # "idle" /\ job[q].op = "remit" => job[q].of \in Remittances
        BY <1>0 DEF PayoutsWorking
      <4> HIDE DEF r
      <4>5. \A q \in Procs : pc'[q] = "debit" => PoQuote[job[q].of] # PoQuote[r]
        BY <1>0, <3>1, <4>3 DEF QuotesClaimed, r
      <4>6. \A q \in Procs : pc'[q] \in {"send", "record", "safe", "ambiguous"} /\ job[q].op = "remit" =>
                poEntries'[job[q].of] # {}
        BY <1>0, <3>1, <4>1, <4>2, <4>4 DEF QuotesClaimed, PayoutsTyped, r
      <4> QED BY <1>0, <3>1, <4>1, <4>2, <4>3, <4>5, <4>6 DEF QuotesClaimed, r
    <3> QED BY <1>3, <3>2, <3>3 DEF DebitRemittance
  <2>4. PayoutsHonest'
    BY <1>0, <1>3, PayoutsAssumption DEF DebitRemittance, SetPayout, Enter, PayoutsTyped, PayoutsWorking,
       POTypeOK, POJobs, PayoutIds, Withdrawing, WithdrawalsHandled, QuotesClaimed, PayoutsHonest
  <2> QED BY <2>1, <2>2, <2>3, <2>4
<1>4. ASSUME NEW p \in Procs, NEW w \in Withdrawals, RequestWithdrawal(p, w)
      PROVE  (PayoutsTyped /\ PayoutsWorking)' /\ WithdrawalsHandled' /\ QuotesClaimed' /\ PayoutsHonest'
  <2>1. (PayoutsTyped /\ PayoutsWorking)'
    BY <1>0, <1>4, PayoutsJobs DEF RequestWithdrawal, SetPayout, Enter, PayoutsTyped, PayoutsWorking,
       POTypeOK, POJobs, POSteps, PayoutIds, PayoutStatus, PayoutFates, Reported, Idle
  <2>2. WithdrawalsHandled'
    BY <1>0, <1>4, PayoutsAssumption DEF RequestWithdrawal, SetPayout, Enter, PayoutsTyped, PayoutsWorking,
       POTypeOK, POJobs, PayoutIds, Withdrawing, WithdrawalsHandled, PayoutsHonest, Idle
  <2>3. QuotesClaimed'
    BY <1>0, <1>4, PayoutsAssumption DEF RequestWithdrawal, SetPayout, Enter, PayoutsTyped, PayoutsWorking,
       POTypeOK, POJobs, PayoutIds, QuotesClaimed, Idle
  <2>4. PayoutsHonest'
    BY <1>0, <1>4, PayoutsAssumption DEF RequestWithdrawal, SetPayout, Enter, PayoutsTyped, PayoutsWorking,
       POTypeOK, POJobs, PayoutIds, Withdrawing, WithdrawalsHandled, QuotesClaimed, PayoutsHonest
  <2> QED BY <2>1, <2>2, <2>3, <2>4
<1>5. ASSUME NEW p \in Procs, SendTransfer(p)
      PROVE  (PayoutsTyped /\ PayoutsWorking)' /\ WithdrawalsHandled' /\ QuotesClaimed' /\ PayoutsHonest'
  <2>1. (PayoutsTyped /\ PayoutsWorking)'
    BY <1>0, <1>5, PayoutsJobs DEF SendTransfer, PayoutsTyped, PayoutsWorking, POTypeOK, POJobs, POSteps,
       PayoutIds, PayoutStatus, PayoutFates, Reported, Idle
  <2>2. WithdrawalsHandled'
    BY <1>0, <1>5, PayoutsAssumption DEF SendTransfer, PayoutsTyped, PayoutsWorking, POTypeOK, POJobs,
       PayoutIds, Withdrawing, WithdrawalsHandled, PayoutsHonest, Idle
  <2>3. QuotesClaimed'
    BY <1>0, <1>5, PayoutsAssumption DEF SendTransfer, PayoutsTyped, PayoutsWorking, POTypeOK, POJobs,
       PayoutIds, QuotesClaimed, Idle
  <2>4. PayoutsHonest'
    BY <1>0, <1>5, PayoutsAssumption DEF SendTransfer, PayoutsTyped, PayoutsWorking, POTypeOK, POJobs,
       PayoutIds, Withdrawing, WithdrawalsHandled, QuotesClaimed, PayoutsHonest
  <2> QED BY <2>1, <2>2, <2>3, <2>4
<1>6. ASSUME NEW p \in Procs, RecordTransfer(p)
      PROVE  (PayoutsTyped /\ PayoutsWorking)' /\ WithdrawalsHandled' /\ QuotesClaimed' /\ PayoutsHonest'
  <2>1. (PayoutsTyped /\ PayoutsWorking)'
    <3>1. job[p].of \in PayoutIds /\ job[p].got \in PayoutStatus
      BY <1>0, <1>6, PayoutsJobs DEF RecordTransfer, PayoutsWorking, POJobs, PayoutStatus, Reported
    <3>2. POTypeOK'
      BY <1>0, <1>6, <3>1 DEF RecordTransfer, SetPayout, Enter, PayoutsTyped, POTypeOK
    <3> QED BY <1>0, <1>6, <3>2 DEF RecordTransfer, PayoutsTyped, PayoutsWorking, POSteps, Idle
  <2>2. WithdrawalsHandled'
    BY <1>0, <1>6, PayoutsAssumption DEF RecordTransfer, SetPayout, Enter, PayoutsTyped, PayoutsWorking,
       POTypeOK, POJobs, PayoutIds, Withdrawing, WithdrawalsHandled, PayoutsHonest, Idle
  <2>3. QuotesClaimed'
    BY <1>0, <1>6, PayoutsAssumption DEF RecordTransfer, SetPayout, Enter, PayoutsTyped, PayoutsWorking,
       POTypeOK, POJobs, PayoutIds, QuotesClaimed, Idle
  <2>4. PayoutsHonest'
    BY <1>0, <1>6, PayoutsAssumption DEF RecordTransfer, SetPayout, Enter, PayoutsTyped, PayoutsWorking,
       POTypeOK, POJobs, PayoutIds, Withdrawing, WithdrawalsHandled, QuotesClaimed, PayoutsHonest
  <2> QED BY <2>1, <2>2, <2>3, <2>4
<1>7. ASSUME NEW p \in Procs, RecordFails(p)
      PROVE  (PayoutsTyped /\ PayoutsWorking)' /\ WithdrawalsHandled' /\ QuotesClaimed' /\ PayoutsHonest'
  <2>1. (PayoutsTyped /\ PayoutsWorking)'
    BY <1>0, <1>7, PayoutsJobs DEF RecordFails, DbError, PayoutsTyped, PayoutsWorking, POTypeOK, POJobs,
       POSteps, PayoutIds, PayoutStatus, PayoutFates, Reported, Idle
  <2>2. WithdrawalsHandled'
    BY <1>0, <1>7, PayoutsAssumption DEF RecordFails, DbError, PayoutsTyped, PayoutsWorking, POTypeOK,
       POJobs, PayoutIds, Withdrawing, WithdrawalsHandled, PayoutsHonest, Idle
  <2>3. QuotesClaimed'
    BY <1>0, <1>7, PayoutsAssumption DEF RecordFails, DbError, PayoutsTyped, PayoutsWorking, POTypeOK,
       POJobs, PayoutIds, QuotesClaimed, Idle
  <2>4. PayoutsHonest'
    BY <1>0, <1>7, PayoutsAssumption DEF RecordFails, DbError, PayoutsTyped, PayoutsWorking, POTypeOK,
       POJobs, PayoutIds, Withdrawing, WithdrawalsHandled, QuotesClaimed, PayoutsHonest
  <2> QED BY <2>1, <2>2, <2>3, <2>4
<1>8. ASSUME NEW p \in Procs, FailRejected(p)
      PROVE  (PayoutsTyped /\ PayoutsWorking)' /\ WithdrawalsHandled' /\ QuotesClaimed' /\ PayoutsHonest'
  <2>1. (PayoutsTyped /\ PayoutsWorking)'
    BY <1>0, <1>8, PayoutsJobs DEF FailRejected, SetPayout, Enter, PayoutsTyped, PayoutsWorking, POTypeOK,
       POJobs, POSteps, PayoutIds, PayoutStatus, PayoutFates, Reported, Idle
  <2>2. WithdrawalsHandled'
    BY <1>0, <1>8, PayoutsAssumption DEF FailRejected, SetPayout, Enter, PayoutsTyped, PayoutsWorking,
       POTypeOK, POJobs, PayoutIds, Withdrawing, WithdrawalsHandled, PayoutsHonest, Idle
  <2>3. QuotesClaimed'
    BY <1>0, <1>8, PayoutsAssumption DEF FailRejected, SetPayout, Enter, PayoutsTyped, PayoutsWorking,
       POTypeOK, POJobs, PayoutIds, QuotesClaimed, Idle
  <2>4. PayoutsHonest'
    BY <1>0, <1>8, PayoutsAssumption DEF FailRejected, SetPayout, Enter, PayoutsTyped, PayoutsWorking,
       POTypeOK, POJobs, PayoutIds, Withdrawing, WithdrawalsHandled, QuotesClaimed, PayoutsHonest
  <2> QED BY <2>1, <2>2, <2>3, <2>4
<1>9. ASSUME NEW p \in Procs, HoldAmbiguous(p)
      PROVE  (PayoutsTyped /\ PayoutsWorking)' /\ WithdrawalsHandled' /\ QuotesClaimed' /\ PayoutsHonest'
  <2>1. (PayoutsTyped /\ PayoutsWorking)'
    BY <1>0, <1>9, PayoutsJobs DEF HoldAmbiguous, SetPayout, PayoutsTyped, PayoutsWorking, POTypeOK, POJobs,
       POSteps, PayoutIds, PayoutStatus, PayoutFates, Reported, Idle
  <2>2. WithdrawalsHandled'
    BY <1>0, <1>9, PayoutsAssumption DEF HoldAmbiguous, SetPayout, PayoutsTyped, PayoutsWorking, POTypeOK,
       POJobs, PayoutIds, Withdrawing, WithdrawalsHandled, PayoutsHonest, Idle
  <2>3. QuotesClaimed'
    BY <1>0, <1>9, PayoutsAssumption DEF HoldAmbiguous, SetPayout, PayoutsTyped, PayoutsWorking, POTypeOK,
       POJobs, PayoutIds, QuotesClaimed, Idle
  <2>4. PayoutsHonest'
    BY <1>0, <1>9, PayoutsAssumption DEF HoldAmbiguous, SetPayout, PayoutsTyped, PayoutsWorking, POTypeOK,
       POJobs, PayoutIds, Withdrawing, WithdrawalsHandled, QuotesClaimed, PayoutsHonest
  <2> QED BY <2>1, <2>2, <2>3, <2>4
<1>10. ASSUME NEW p \in Procs, OpenException(p)
      PROVE  (PayoutsTyped /\ PayoutsWorking)' /\ WithdrawalsHandled' /\ QuotesClaimed' /\ PayoutsHonest'
  <2>1. (PayoutsTyped /\ PayoutsWorking)'
    BY <1>0, <1>10, PayoutsJobs DEF OpenException, PayoutsTyped, PayoutsWorking, POTypeOK, POJobs, POSteps,
       PayoutIds, PayoutStatus, PayoutFates, Reported, Idle
  <2>2. WithdrawalsHandled'
    BY <1>0, <1>10, PayoutsAssumption DEF OpenException, PayoutsTyped, PayoutsWorking, POTypeOK, POJobs,
       PayoutIds, Withdrawing, WithdrawalsHandled, PayoutsHonest, Idle
  <2>3. QuotesClaimed'
    BY <1>0, <1>10, PayoutsAssumption DEF OpenException, PayoutsTyped, PayoutsWorking, POTypeOK, POJobs,
       PayoutIds, QuotesClaimed, Idle
  <2>4. PayoutsHonest'
    BY <1>0, <1>10, PayoutsAssumption DEF OpenException, PayoutsTyped, PayoutsWorking, POTypeOK, POJobs,
       PayoutIds, Withdrawing, WithdrawalsHandled, QuotesClaimed, PayoutsHonest
  <2> QED BY <2>1, <2>2, <2>3, <2>4
<1>11. ASSUME NEW p \in Procs, NEW r \in Remittances, NEW s \in Reported, BeginTransferEvent(p, r, s)
      PROVE  (PayoutsTyped /\ PayoutsWorking)' /\ WithdrawalsHandled' /\ QuotesClaimed' /\ PayoutsHonest'
  <2>1. (PayoutsTyped /\ PayoutsWorking)'
    BY <1>0, <1>11, PayoutsJobs DEF BeginTransferEvent, ValidTransition, Reported, PayoutsTyped,
       PayoutsWorking, POTypeOK, POJobs, POSteps, PayoutIds, PayoutStatus, PayoutFates, Idle
  <2>2. WithdrawalsHandled'
    BY <1>0, <1>11, PayoutsAssumption DEF BeginTransferEvent, ValidTransition, Reported, PayoutsTyped,
       PayoutsWorking, POTypeOK, POJobs, PayoutIds, Withdrawing, WithdrawalsHandled, PayoutsHonest, Idle
  <2>3. QuotesClaimed'
    BY <1>0, <1>11, PayoutsAssumption DEF BeginTransferEvent, ValidTransition, Reported, PayoutsTyped,
       PayoutsWorking, POTypeOK, POJobs, PayoutIds, QuotesClaimed, Idle
  <2>4. PayoutsHonest'
    BY <1>0, <1>11, PayoutsAssumption DEF BeginTransferEvent, ValidTransition, Reported, PayoutsTyped,
       PayoutsWorking, POTypeOK, POJobs, PayoutIds, Withdrawing, WithdrawalsHandled, QuotesClaimed,
       PayoutsHonest
  <2> QED BY <2>1, <2>2, <2>3, <2>4
<1>12. ASSUME NEW p \in Procs, UpdateTransfer(p)
      PROVE  (PayoutsTyped /\ PayoutsWorking)' /\ WithdrawalsHandled' /\ QuotesClaimed' /\ PayoutsHonest'
  <2>1. (PayoutsTyped /\ PayoutsWorking)'
    <3>1. job[p].of \in PayoutIds /\ job[p].got \in PayoutStatus
      BY <1>0, <1>12, PayoutsJobs DEF UpdateTransfer, PayoutsWorking, POJobs, PayoutStatus, Reported
    <3>2. POTypeOK'
      BY <1>0, <1>12, <3>1 DEF UpdateTransfer, SetPayout, PayoutsTyped, POTypeOK
    <3> QED BY <1>0, <1>12, <3>2 DEF UpdateTransfer, PayoutsTyped, PayoutsWorking, POSteps, Idle
  <2>2. WithdrawalsHandled'
    BY <1>0, <1>12, PayoutsAssumption DEF UpdateTransfer, SetPayout, PayoutsTyped, PayoutsWorking, POTypeOK,
       POJobs, PayoutIds, Withdrawing, WithdrawalsHandled, PayoutsHonest, Idle
  <2>3. QuotesClaimed'
    BY <1>0, <1>12, PayoutsAssumption DEF UpdateTransfer, SetPayout, PayoutsTyped, PayoutsWorking, POTypeOK,
       POJobs, PayoutIds, QuotesClaimed, Idle
  <2>4. PayoutsHonest'
    BY <1>0, <1>12, PayoutsAssumption DEF UpdateTransfer, SetPayout, PayoutsTyped, PayoutsWorking, POTypeOK,
       POJobs, PayoutIds, Withdrawing, WithdrawalsHandled, QuotesClaimed, PayoutsHonest
  <2> QED BY <2>1, <2>2, <2>3, <2>4
<1>13. ASSUME NEW p \in Procs, Crash(p), UNCHANGED poVars
      PROVE  (PayoutsTyped /\ PayoutsWorking)' /\ WithdrawalsHandled' /\ QuotesClaimed' /\ PayoutsHonest'
  <2>1. (PayoutsTyped /\ PayoutsWorking)'
    BY <1>0, <1>13, PayoutsJobs DEF Crash, PayoutsTyped, PayoutsWorking, POTypeOK, POJobs, POSteps,
       PayoutIds, PayoutStatus, PayoutFates, Reported, Idle
  <2>2. WithdrawalsHandled'
    BY <1>0, <1>13, PayoutsAssumption DEF Crash, PayoutsTyped, PayoutsWorking, POTypeOK, POJobs, PayoutIds,
       Withdrawing, WithdrawalsHandled, PayoutsHonest, Idle
  <2>3. QuotesClaimed'
    BY <1>0, <1>13, PayoutsAssumption DEF Crash, PayoutsTyped, PayoutsWorking, POTypeOK, POJobs, PayoutIds,
       QuotesClaimed, Idle
  <2>4. PayoutsHonest'
    BY <1>0, <1>13, PayoutsAssumption DEF Crash, PayoutsTyped, PayoutsWorking, POTypeOK, POJobs, PayoutIds,
       Withdrawing, WithdrawalsHandled, QuotesClaimed, PayoutsHonest
  <2> QED BY <2>1, <2>2, <2>3, <2>4
<1>14. ASSUME NEW q \in Quotes, QuoteExpires(q)
      PROVE  (PayoutsTyped /\ PayoutsWorking)' /\ WithdrawalsHandled' /\ QuotesClaimed' /\ PayoutsHonest'
  <2>1. (PayoutsTyped /\ PayoutsWorking)'
    BY <1>0, <1>14, PayoutsJobs DEF QuoteExpires, PayoutsTyped, PayoutsWorking, POTypeOK, POJobs, POSteps,
       PayoutIds, PayoutStatus, PayoutFates, Reported, Idle
  <2>2. WithdrawalsHandled'
    BY <1>0, <1>14, PayoutsAssumption DEF QuoteExpires, PayoutsTyped, PayoutsWorking, POTypeOK, POJobs,
       PayoutIds, Withdrawing, WithdrawalsHandled, PayoutsHonest, Idle
  <2>3. QuotesClaimed'
    BY <1>0, <1>14, PayoutsAssumption DEF QuoteExpires, PayoutsTyped, PayoutsWorking, POTypeOK, POJobs,
       PayoutIds, QuotesClaimed, Idle
  <2>4. PayoutsHonest'
    BY <1>0, <1>14, PayoutsAssumption DEF QuoteExpires, PayoutsTyped, PayoutsWorking, POTypeOK, POJobs,
       PayoutIds, Withdrawing, WithdrawalsHandled, QuotesClaimed, PayoutsHonest
  <2> QED BY <2>1, <2>2, <2>3, <2>4
<1>15. ASSUME NEW r \in Remittances, ProviderMoves(r)
      PROVE  (PayoutsTyped /\ PayoutsWorking)' /\ WithdrawalsHandled' /\ QuotesClaimed' /\ PayoutsHonest'
  <2>1. (PayoutsTyped /\ PayoutsWorking)'
    BY <1>0, <1>15, PayoutsJobs DEF ProviderMoves, Reported, PayoutsTyped, PayoutsWorking, POTypeOK, POJobs,
       POSteps, PayoutIds, PayoutStatus, PayoutFates, Idle
  <2>2. WithdrawalsHandled'
    BY <1>0, <1>15, PayoutsAssumption DEF ProviderMoves, Reported, PayoutsTyped, PayoutsWorking, POTypeOK,
       POJobs, PayoutIds, Withdrawing, WithdrawalsHandled, PayoutsHonest, Idle
  <2>3. QuotesClaimed'
    BY <1>0, <1>15, PayoutsAssumption DEF ProviderMoves, Reported, PayoutsTyped, PayoutsWorking, POTypeOK,
       POJobs, PayoutIds, QuotesClaimed, Idle
  <2>4. PayoutsHonest'
    BY <1>0, <1>15, PayoutsAssumption DEF ProviderMoves, Reported, PayoutsTyped, PayoutsWorking, POTypeOK,
       POJobs, PayoutIds, Withdrawing, WithdrawalsHandled, QuotesClaimed, PayoutsHonest
  <2> QED BY <2>1, <2>2, <2>3, <2>4
<1> QED
  BY <1>1, <1>2, <1>3, <1>4, <1>5, <1>6, <1>7, <1>8, <1>9, <1>10, <1>11, <1>12, <1>13, <1>14, <1>15 DEF PONext

LEMMA PayoutsInductive == PayoutsInv /\ [PONext]_<<poVars, handlers>> => PayoutsInv'
<1>1. CASE UNCHANGED <<poVars, handlers>>
  BY <1>1 DEF poVars, poBooks, poExternal, handlers, PayoutsInv, PayoutsTyped, POTypeOK, PayoutsWorking,
     Withdrawing, WithdrawalsHandled, QuotesClaimed, PayoutsHonest
<1> QED BY <1>1, PayoutsStep

\* The inductive invariant behind PayoutsHonest holds in every behaviour.
THEOREM PayoutsInvariant == POSpec => []PayoutsInv
BY PayoutsStart, PayoutsInductive, PTL DEF POSpec

\* requestWithdrawal: an amount stays held as long as its withdrawal may have
\* happened.  consumeRemittanceQuote: a quote prices one debit at most.
THEOREM PayoutsAreHonest == POSpec => []PayoutsHonest
<1>1. PayoutsInv => PayoutsHonest
  BY DEF PayoutsInv
<1> QED BY <1>1, PayoutsInvariant, PTL
===============================================================================
