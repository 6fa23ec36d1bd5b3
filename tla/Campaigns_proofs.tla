--------------------------- MODULE Campaigns_proofs ---------------------------
(***************************************************************************)
(* Proofs about campaigns and rewards.  A review's campaign has its        *)
(* approvedAt from the moment the executor has run, whoever changes the    *)
(* campaign's status later; a hold's entries are written by the            *)
(* transaction that sets its status.  The entitlements there are, and      *)
(* those still to be written by a handler that has claimed a slot,         *)
(* together take no more slots than were claimed, counting the slots given *)
(* back.                                                                   *)
(***************************************************************************)
EXTENDS Campaigns, Rewards, FiniteSetTheorems, TLAPS

-----------------------------------------------------------------------------
(* Campaigns.                                                              *)

CampaignsTyped ==
    /\ pc \in [Procs -> CPSteps \cup {"idle"}]
    /\ job \in [Procs -> CPJobs \cup {Idle}]
    /\ CPTypeOK

\* A review being handled exists, and a handler past an approval has its approvedAt.
CampaignsWorking ==
    \A p \in Procs : pc[p] # "idle" =>
        /\ job[p] \in CPJobs
        /\ job[p].op \in {"approve", "reject"} => job[p].of \in Reviews /\ cpReview[job[p].of] # NoReview
        /\ job[p].op \notin {"approve", "reject"} => job[p].of \in Campaigns
        /\ pc[p] \in {"decide", "execute", "executed", "failed"} => job[p].op \in {"approve", "reject"}
        /\ pc[p] \in {"ask", "settle", "close"} => job[p].op \notin {"approve", "reject"}
        /\ pc[p] = "set" => job[p].got \in CPStatus /\ (job[p].op = "approve" => job[p].got = "APPROVED")
        /\ pc[p] = "hold" => job[p].got \in CPStatus
        /\ pc[p] = "sync" /\ job[p].got = "APPROVED" => job[p].of \in cpApproved
        /\ pc[p] = "executed" /\ job[p].op = "approve" => cpReview[job[p].of].of \in cpApproved

CampaignsInv == CampaignsTyped /\ CampaignsWorking /\ ReviewHonoured /\ HoldBacked

LEMMA CampaignsStart == CPInit /\ HandlersInit => CampaignsInv
BY DEF CPInit, HandlersInit, CampaignsInv, CampaignsTyped, CPTypeOK, CPStatus, CampaignsWorking, 
       ReviewHonoured, HoldBacked, NoReview, Idle

\* The operations of a client, as a job names them.
LEMMA ControlsKnown ==
    /\ DOMAIN Controls = {"pause", "resume", "changes", "stop", "start"}
    /\ \A op \in DOMAIN Controls : Controls[op].to \in CPStatus
BY DEF Controls, CPStatus

LEMMA CampaignsJobs ==
    /\ \A j \in CPJobs : j # Idle
    /\ NoReview \notin ReviewRows
    /\ \A row \in ReviewRows : row.of \in Campaigns
BY ControlsKnown DEF CPJobs, Idle, NoReview, ReviewRows

LEMMA CampaignsStep ==
    ASSUME CampaignsInv, CPNext
    PROVE  CampaignsInv'
<1> USE DEF Start, Goto, Learn, Return, Finish, At, cpVars, cpRow, cpWork, cpMoney, handlers
<1>0. CampaignsTyped /\ CampaignsWorking /\ ReviewHonoured /\ HoldBacked
  BY DEF CampaignsInv
<1> SUFFICES CampaignsTyped' /\ CampaignsWorking' /\ ReviewHonoured' /\ HoldBacked'
  BY DEF CampaignsInv
<1>1. ASSUME NEW p \in Procs, SetStatus(p)
      PROVE  CampaignsTyped' /\ CampaignsWorking' /\ ReviewHonoured' /\ HoldBacked'
  <2>1. CampaignsTyped'
    BY <1>0, <1>1, CampaignsJobs, ControlsKnown, CampaignsAssumption DEF SetStatus, AfterStatus, CampaignOf,
       CampaignsTyped, CampaignsWorking, CPTypeOK, CPJobs, CPSteps, CPStatus, HoldEntries, Live, Idle
  <2>2. CampaignsWorking'
    BY <1>0, <1>1, CampaignsJobs, ControlsKnown, CampaignsAssumption DEF SetStatus, AfterStatus, CampaignOf,
       CampaignsTyped, CampaignsWorking, CPTypeOK, CPJobs, CPStatus, Idle
  <2>3. ReviewHonoured'
    BY <1>0, <1>1, CampaignsJobs DEF SetStatus, AfterStatus, CampaignOf, CampaignsTyped, CampaignsWorking,
       CPTypeOK, ReviewHonoured
  <2>4. HoldBacked'
    BY <1>0, <1>1 DEF SetStatus, AfterStatus, CampaignOf, CampaignsTyped, CampaignsWorking, CPTypeOK, HoldBacked
  <2> QED BY <2>1, <2>2, <2>3, <2>4
<1>2. ASSUME NEW p \in Procs, Assess(p)
      PROVE  CampaignsTyped' /\ CampaignsWorking' /\ ReviewHonoured' /\ HoldBacked'
  <2>1. CampaignsTyped'
    <3>1. \A s \in CPStatus : [job[p] EXCEPT !.got = s] \in CPJobs
      BY <1>0, <1>2 DEF Assess, CampaignsWorking, CPJobs
    <3> QED BY <1>0, <1>2, <3>1 DEF Assess, CampaignsTyped, CPTypeOK, CPSteps, CPStatus
  <2>2. CampaignsWorking'
    BY <1>0, <1>2, CampaignsJobs, ControlsKnown, CampaignsAssumption DEF Assess, CampaignsTyped,
       CampaignsWorking, CPTypeOK, CPJobs, CPStatus, Idle
  <2>3. ReviewHonoured'
    BY <1>0, <1>2, CampaignsJobs DEF Assess, CampaignsTyped, CampaignsWorking, CPTypeOK, ReviewHonoured
  <2>4. HoldBacked'
    BY <1>0, <1>2 DEF Assess, CampaignsTyped, CampaignsWorking, CPTypeOK, HoldBacked
  <2> QED BY <2>1, <2>2, <2>3, <2>4
<1>3. ASSUME NEW p \in Procs, HoldBudget(p)
      PROVE  CampaignsTyped' /\ CampaignsWorking' /\ ReviewHonoured' /\ HoldBacked'
  <2>1. CampaignsTyped'
    BY <1>0, <1>3, CampaignsJobs, ControlsKnown, CampaignsAssumption DEF HoldBudget, CampaignsTyped,
       CampaignsWorking, CPTypeOK, CPJobs, CPSteps, CPStatus, HoldEntries, Live, Idle
  <2>2. CampaignsWorking'
    BY <1>0, <1>3, CampaignsJobs, ControlsKnown, CampaignsAssumption DEF HoldBudget, CampaignsTyped,
       CampaignsWorking, CPTypeOK, CPJobs, CPStatus, Idle
  <2>3. ReviewHonoured'
    BY <1>0, <1>3, CampaignsJobs DEF HoldBudget, CampaignsTyped, CampaignsWorking, CPTypeOK, ReviewHonoured
  <2>4. HoldBacked'
    BY <1>0, <1>3 DEF HoldBudget, CampaignsTyped, CampaignsWorking, CPTypeOK, HoldBacked
  <2> QED BY <2>1, <2>2, <2>3, <2>4
<1>4. ASSUME NEW p \in Procs, AskReview(p)
      PROVE  CampaignsTyped' /\ CampaignsWorking' /\ ReviewHonoured' /\ HoldBacked'
  <2>1. CampaignsTyped'
    BY <1>0, <1>4, CampaignsJobs, ControlsKnown, CampaignsAssumption DEF AskReview, ReviewRows, NoReview,
       CampaignsTyped, CampaignsWorking, CPTypeOK, CPJobs, CPSteps, CPStatus, HoldEntries, Live, Idle
  <2>2. CampaignsWorking'
    BY <1>0, <1>4, CampaignsJobs, ControlsKnown, CampaignsAssumption DEF AskReview, ReviewRows, NoReview,
       CampaignsTyped, CampaignsWorking, CPTypeOK, CPJobs, CPStatus, Idle
  <2>3. ReviewHonoured'
    BY <1>0, <1>4, CampaignsJobs DEF AskReview, ReviewRows, NoReview, CampaignsTyped, CampaignsWorking,
       CPTypeOK, ReviewHonoured
  <2>4. HoldBacked'
    BY <1>0, <1>4 DEF AskReview, ReviewRows, NoReview, CampaignsTyped, CampaignsWorking, CPTypeOK, HoldBacked
  <2> QED BY <2>1, <2>2, <2>3, <2>4
<1>5. ASSUME NEW p \in Procs, SyncReview(p)
      PROVE  CampaignsTyped' /\ CampaignsWorking' /\ ReviewHonoured' /\ HoldBacked'
  <2>1. CampaignsTyped'
    BY <1>0, <1>5, CampaignsJobs, ControlsKnown, CampaignsAssumption DEF SyncReview, SetReview, ReviewRows,
       NoReview, CampaignsTyped, CampaignsWorking, CPTypeOK, CPJobs, CPSteps, CPStatus, HoldEntries, Live,
       Idle
  <2>2. CampaignsWorking'
    BY <1>0, <1>5, CampaignsJobs, ControlsKnown, CampaignsAssumption DEF SyncReview, SetReview, ReviewRows,
       NoReview, CampaignsTyped, CampaignsWorking, CPTypeOK, CPJobs, CPStatus, Idle
  <2>3. ReviewHonoured'
    BY <1>0, <1>5, CampaignsJobs DEF SyncReview, SetReview, ReviewRows, NoReview, CampaignsTyped,
       CampaignsWorking, CPTypeOK, ReviewHonoured
  <2>4. HoldBacked'
    BY <1>0, <1>5 DEF SyncReview, SetReview, ReviewRows, NoReview, CampaignsTyped, CampaignsWorking,
       CPTypeOK, HoldBacked
  <2> QED BY <2>1, <2>2, <2>3, <2>4
<1>6. ASSUME NEW p \in Procs, DecideReview(p)
      PROVE  CampaignsTyped' /\ CampaignsWorking' /\ ReviewHonoured' /\ HoldBacked'
  <2>1. CampaignsTyped'
    <3> DEFINE a == job[p].of
    <3>1. a \in Reviews /\ cpReview[a] \in ReviewRows
      BY <1>0, <1>6 DEF DecideReview, CampaignsTyped, CampaignsWorking, CPTypeOK
    <3>2. cpReview' \in [Reviews -> ReviewRows \cup {NoReview}]
      BY <1>0, <1>6, <3>1 DEF DecideReview, SetReview, CampaignsTyped, CPTypeOK, ReviewRows
    <3>3. job[p] \in CPJobs /\ [job[p] EXCEPT !.got = "REJECTED"] \in CPJobs
      BY <1>0, <1>6 DEF DecideReview, CampaignsWorking, CPJobs, CPStatus
    <3> QED BY <1>0, <1>6, <3>2, <3>3 DEF DecideReview, CampaignsTyped, CPTypeOK, CPSteps
  <2>2. CampaignsWorking'
    BY <1>0, <1>6, CampaignsJobs, ControlsKnown, CampaignsAssumption DEF DecideReview, SetReview,
       ReviewRows, NoReview, CampaignsTyped, CampaignsWorking, CPTypeOK, CPJobs, CPStatus, Idle
  <2>3. ReviewHonoured'
    BY <1>0, <1>6, CampaignsJobs DEF DecideReview, SetReview, ReviewRows, NoReview, CampaignsTyped,
       CampaignsWorking, CPTypeOK, ReviewHonoured
  <2>4. HoldBacked'
    BY <1>0, <1>6 DEF DecideReview, SetReview, ReviewRows, NoReview, CampaignsTyped, CampaignsWorking,
       CPTypeOK, HoldBacked
  <2> QED BY <2>1, <2>2, <2>3, <2>4
<1>7. ASSUME NEW p \in Procs, ExecuteReview(p)
      PROVE  CampaignsTyped' /\ CampaignsWorking' /\ ReviewHonoured' /\ HoldBacked'
  <2>1. CampaignsTyped'
    BY <1>0, <1>7, CampaignsJobs, ControlsKnown, CampaignsAssumption DEF ExecuteReview, CampaignsTyped,
       CampaignsWorking, CPTypeOK, CPJobs, CPSteps, CPStatus, HoldEntries, Live, Idle
  <2>2. CampaignsWorking'
    BY <1>0, <1>7, CampaignsJobs, ControlsKnown, CampaignsAssumption DEF ExecuteReview, CampaignsTyped,
       CampaignsWorking, CPTypeOK, CPJobs, CPStatus, Idle
  <2>3. ReviewHonoured'
    BY <1>0, <1>7, CampaignsJobs DEF ExecuteReview, CampaignsTyped, CampaignsWorking, CPTypeOK, ReviewHonoured
  <2>4. HoldBacked'
    BY <1>0, <1>7 DEF ExecuteReview, CampaignsTyped, CampaignsWorking, CPTypeOK, HoldBacked
  <2> QED BY <2>1, <2>2, <2>3, <2>4
<1>8. ASSUME NEW p \in Procs, MarkReviewed(p)
      PROVE  CampaignsTyped' /\ CampaignsWorking' /\ ReviewHonoured' /\ HoldBacked'
  <2>1. CampaignsTyped'
    BY <1>0, <1>8, CampaignsJobs, ControlsKnown, CampaignsAssumption DEF MarkReviewed, SetReview,
       ReviewRows, NoReview, CampaignsTyped, CampaignsWorking, CPTypeOK, CPJobs, CPSteps, CPStatus,
       HoldEntries, Live, Idle
  <2>2. CampaignsWorking'
    BY <1>0, <1>8, CampaignsJobs, ControlsKnown, CampaignsAssumption DEF MarkReviewed, SetReview,
       ReviewRows, NoReview, CampaignsTyped, CampaignsWorking, CPTypeOK, CPJobs, CPStatus, Idle
  <2>3. ReviewHonoured'
    BY <1>0, <1>8, CampaignsJobs DEF MarkReviewed, SetReview, ReviewRows, NoReview, CampaignsTyped,
       CampaignsWorking, CPTypeOK, ReviewHonoured
  <2>4. HoldBacked'
    BY <1>0, <1>8 DEF MarkReviewed, SetReview, ReviewRows, NoReview, CampaignsTyped, CampaignsWorking,
       CPTypeOK, HoldBacked
  <2> QED BY <2>1, <2>2, <2>3, <2>4
<1>9. ASSUME NEW p \in Procs, Settle(p)
      PROVE  CampaignsTyped' /\ CampaignsWorking' /\ ReviewHonoured' /\ HoldBacked'
  <2>1. CampaignsTyped'
    BY <1>0, <1>9, CampaignsJobs, ControlsKnown, CampaignsAssumption DEF Settle, CampaignsTyped,
       CampaignsWorking, CPTypeOK, CPJobs, CPSteps, CPStatus, HoldEntries, Live, Idle
  <2>2. CampaignsWorking'
    BY <1>0, <1>9, CampaignsJobs, ControlsKnown, CampaignsAssumption DEF Settle, CampaignsTyped,
       CampaignsWorking, CPTypeOK, CPJobs, CPStatus, Idle
  <2>3. ReviewHonoured'
    BY <1>0, <1>9, CampaignsJobs DEF Settle, CampaignsTyped, CampaignsWorking, CPTypeOK, ReviewHonoured
  <2>4. HoldBacked'
    BY <1>0, <1>9 DEF Settle, CampaignsTyped, CampaignsWorking, CPTypeOK, HoldBacked
  <2> QED BY <2>1, <2>2, <2>3, <2>4
<1>10. ASSUME NEW p \in Procs, CloseCampaign(p)
      PROVE  CampaignsTyped' /\ CampaignsWorking' /\ ReviewHonoured' /\ HoldBacked'
  <2>1. CampaignsTyped'
    BY <1>0, <1>10, CampaignsJobs, ControlsKnown, CampaignsAssumption DEF CloseCampaign, CampaignsTyped,
       CampaignsWorking, CPTypeOK, CPJobs, CPSteps, CPStatus, HoldEntries, Live, Idle
  <2>2. CampaignsWorking'
    BY <1>0, <1>10, CampaignsJobs, ControlsKnown, CampaignsAssumption DEF CloseCampaign, CampaignsTyped,
       CampaignsWorking, CPTypeOK, CPJobs, CPStatus, Idle
  <2>3. ReviewHonoured'
    BY <1>0, <1>10, CampaignsJobs DEF CloseCampaign, CampaignsTyped, CampaignsWorking, CPTypeOK, ReviewHonoured
  <2>4. HoldBacked'
    BY <1>0, <1>10 DEF CloseCampaign, CampaignsTyped, CampaignsWorking, CPTypeOK, HoldBacked
  <2> QED BY <2>1, <2>2, <2>3, <2>4
<1>11. ASSUME NEW p \in Procs, NEW c \in Campaigns, NEW op \in DOMAIN Controls, BeginControl(p, c, op)
      PROVE  CampaignsTyped' /\ CampaignsWorking' /\ ReviewHonoured' /\ HoldBacked'
  <2>1. CampaignsTyped'
    BY <1>0, <1>11, CampaignsJobs, ControlsKnown, CampaignsAssumption DEF BeginControl, CampaignsTyped,
       CampaignsWorking, CPTypeOK, CPJobs, CPSteps, CPStatus, HoldEntries, Live, Idle
  <2>2. CampaignsWorking'
    BY <1>0, <1>11, CampaignsJobs, ControlsKnown, CampaignsAssumption DEF BeginControl, CampaignsTyped,
       CampaignsWorking, CPTypeOK, CPJobs, CPStatus, Idle
  <2>3. ReviewHonoured'
    BY <1>0, <1>11, CampaignsJobs DEF BeginControl, CampaignsTyped, CampaignsWorking, CPTypeOK, ReviewHonoured
  <2>4. HoldBacked'
    BY <1>0, <1>11 DEF BeginControl, CampaignsTyped, CampaignsWorking, CPTypeOK, HoldBacked
  <2> QED BY <2>1, <2>2, <2>3, <2>4
<1>12. ASSUME NEW p \in Procs, NEW c \in Campaigns, NEW s \in AdminStatuses, BeginAdminStatus(p, c, s)
      PROVE  CampaignsTyped' /\ CampaignsWorking' /\ ReviewHonoured' /\ HoldBacked'
  <2>1. CampaignsTyped'
    BY <1>0, <1>12, CampaignsJobs, ControlsKnown, CampaignsAssumption DEF BeginAdminStatus, CampaignsTyped,
       CampaignsWorking, CPTypeOK, CPJobs, CPSteps, CPStatus, HoldEntries, Live, Idle
  <2>2. CampaignsWorking'
    BY <1>0, <1>12, CampaignsJobs, ControlsKnown, CampaignsAssumption DEF BeginAdminStatus, CampaignsTyped,
       CampaignsWorking, CPTypeOK, CPJobs, CPStatus, Idle
  <2>3. ReviewHonoured'
    BY <1>0, <1>12, CampaignsJobs DEF BeginAdminStatus, CampaignsTyped, CampaignsWorking, CPTypeOK,
       ReviewHonoured
  <2>4. HoldBacked'
    BY <1>0, <1>12 DEF BeginAdminStatus, CampaignsTyped, CampaignsWorking, CPTypeOK, HoldBacked
  <2> QED BY <2>1, <2>2, <2>3, <2>4
<1>13. ASSUME NEW p \in Procs, NEW c \in Campaigns, BeginSubmit(p, c)
      PROVE  CampaignsTyped' /\ CampaignsWorking' /\ ReviewHonoured' /\ HoldBacked'
  <2>1. CampaignsTyped'
    BY <1>0, <1>13, CampaignsJobs, ControlsKnown, CampaignsAssumption DEF BeginSubmit, CampaignsTyped,
       CampaignsWorking, CPTypeOK, CPJobs, CPSteps, CPStatus, HoldEntries, Live, Idle
  <2>2. CampaignsWorking'
    BY <1>0, <1>13, CampaignsJobs, ControlsKnown, CampaignsAssumption DEF BeginSubmit, CampaignsTyped,
       CampaignsWorking, CPTypeOK, CPJobs, CPStatus, Idle
  <2>3. ReviewHonoured'
    BY <1>0, <1>13, CampaignsJobs DEF BeginSubmit, CampaignsTyped, CampaignsWorking, CPTypeOK, ReviewHonoured
  <2>4. HoldBacked'
    BY <1>0, <1>13 DEF BeginSubmit, CampaignsTyped, CampaignsWorking, CPTypeOK, HoldBacked
  <2> QED BY <2>1, <2>2, <2>3, <2>4
<1>14. ASSUME NEW p \in Procs, NEW c \in Campaigns, NEW op \in {"release", "capture"}, BeginSettle(p, c, op)
      PROVE  CampaignsTyped' /\ CampaignsWorking' /\ ReviewHonoured' /\ HoldBacked'
  <2>1. CampaignsTyped'
    BY <1>0, <1>14, CampaignsJobs, ControlsKnown, CampaignsAssumption DEF BeginSettle, CampaignsTyped,
       CampaignsWorking, CPTypeOK, CPJobs, CPSteps, CPStatus, HoldEntries, Live, Idle
  <2>2. CampaignsWorking'
    BY <1>0, <1>14, CampaignsJobs, ControlsKnown, CampaignsAssumption DEF BeginSettle, CampaignsTyped,
       CampaignsWorking, CPTypeOK, CPJobs, CPStatus, Idle
  <2>3. ReviewHonoured'
    BY <1>0, <1>14, CampaignsJobs DEF BeginSettle, CampaignsTyped, CampaignsWorking, CPTypeOK, ReviewHonoured
  <2>4. HoldBacked'
    BY <1>0, <1>14 DEF BeginSettle, CampaignsTyped, CampaignsWorking, CPTypeOK, HoldBacked
  <2> QED BY <2>1, <2>2, <2>3, <2>4
<1>15. ASSUME NEW p \in Procs, NEW c \in Campaigns, SweepCampaign(p, c)
      PROVE  CampaignsTyped' /\ CampaignsWorking' /\ ReviewHonoured' /\ HoldBacked'
  <2>1. CampaignsTyped'
    BY <1>0, <1>15, CampaignsJobs, ControlsKnown, CampaignsAssumption DEF SweepCampaign, CampaignsTyped,
       CampaignsWorking, CPTypeOK, CPJobs, CPSteps, CPStatus, HoldEntries, Live, Idle
  <2>2. CampaignsWorking'
    BY <1>0, <1>15, CampaignsJobs, ControlsKnown, CampaignsAssumption DEF SweepCampaign, CampaignsTyped,
       CampaignsWorking, CPTypeOK, CPJobs, CPStatus, Idle
  <2>3. ReviewHonoured'
    BY <1>0, <1>15, CampaignsJobs DEF SweepCampaign, CampaignsTyped, CampaignsWorking, CPTypeOK, ReviewHonoured
  <2>4. HoldBacked'
    BY <1>0, <1>15 DEF SweepCampaign, CampaignsTyped, CampaignsWorking, CPTypeOK, HoldBacked
  <2> QED BY <2>1, <2>2, <2>3, <2>4
<1>16. ASSUME NEW p \in Procs, NEW a \in Reviews, NEW op \in {"approve", "reject"}, BeginReview(p, a, op)
      PROVE  CampaignsTyped' /\ CampaignsWorking' /\ ReviewHonoured' /\ HoldBacked'
  <2>1. CampaignsTyped'
    BY <1>0, <1>16, CampaignsJobs, ControlsKnown, CampaignsAssumption DEF BeginReview, NoReview,
       CampaignsTyped, CampaignsWorking, CPTypeOK, CPJobs, CPSteps, CPStatus, HoldEntries, Live, Idle
  <2>2. CampaignsWorking'
    BY <1>0, <1>16, CampaignsJobs, ControlsKnown, CampaignsAssumption DEF BeginReview, NoReview,
       CampaignsTyped, CampaignsWorking, CPTypeOK, CPJobs, CPStatus, Idle
  <2>3. ReviewHonoured'
    BY <1>0, <1>16, CampaignsJobs DEF BeginReview, NoReview, CampaignsTyped, CampaignsWorking, CPTypeOK,
       ReviewHonoured
  <2>4. HoldBacked'
    BY <1>0, <1>16 DEF BeginReview, NoReview, CampaignsTyped, CampaignsWorking, CPTypeOK, HoldBacked
  <2> QED BY <2>1, <2>2, <2>3, <2>4
<1>17. ASSUME NEW p \in Procs, ReviewFails(p)
      PROVE  CampaignsTyped' /\ CampaignsWorking' /\ ReviewHonoured' /\ HoldBacked'
  <2>1. CampaignsTyped'
    BY <1>0, <1>17, CampaignsJobs, ControlsKnown, CampaignsAssumption DEF ReviewFails, DbError,
       CampaignsTyped, CampaignsWorking, CPTypeOK, CPJobs, CPSteps, CPStatus, HoldEntries, Live, Idle
  <2>2. CampaignsWorking'
    BY <1>0, <1>17, CampaignsJobs, ControlsKnown, CampaignsAssumption DEF ReviewFails, DbError,
       CampaignsTyped, CampaignsWorking, CPTypeOK, CPJobs, CPStatus, Idle
  <2>3. ReviewHonoured'
    BY <1>0, <1>17, CampaignsJobs DEF ReviewFails, DbError, CampaignsTyped, CampaignsWorking, CPTypeOK,
       ReviewHonoured
  <2>4. HoldBacked'
    BY <1>0, <1>17 DEF ReviewFails, DbError, CampaignsTyped, CampaignsWorking, CPTypeOK, HoldBacked
  <2> QED BY <2>1, <2>2, <2>3, <2>4
<1>18. ASSUME NEW p \in Procs, Crash(p), UNCHANGED cpVars
      PROVE  CampaignsTyped' /\ CampaignsWorking' /\ ReviewHonoured' /\ HoldBacked'
  <2>1. CampaignsTyped'
    BY <1>0, <1>18, CampaignsJobs, ControlsKnown, CampaignsAssumption DEF Crash, CampaignsTyped,
       CampaignsWorking, CPTypeOK, CPJobs, CPSteps, CPStatus, HoldEntries, Live, Idle
  <2>2. CampaignsWorking'
    BY <1>0, <1>18, CampaignsJobs, ControlsKnown, CampaignsAssumption DEF Crash, CampaignsTyped,
       CampaignsWorking, CPTypeOK, CPJobs, CPStatus, Idle
  <2>3. ReviewHonoured'
    BY <1>0, <1>18, CampaignsJobs DEF Crash, CampaignsTyped, CampaignsWorking, CPTypeOK, ReviewHonoured
  <2>4. HoldBacked'
    BY <1>0, <1>18 DEF Crash, CampaignsTyped, CampaignsWorking, CPTypeOK, HoldBacked
  <2> QED BY <2>1, <2>2, <2>3, <2>4
<1>19. ASSUME NEW c \in Campaigns, CreateManualPlacement(c) \/ AdvanceReport(c) \/ TermEnds(c) \/ PauseByWorkflow(c)
      PROVE  CampaignsTyped' /\ CampaignsWorking' /\ ReviewHonoured' /\ HoldBacked'
  <2>1. CampaignsTyped'
    BY <1>0, <1>19, CampaignsJobs, ControlsKnown, CampaignsAssumption DEF CreateManualPlacement,
       AdvanceReport, TermEnds, PauseByWorkflow, CampaignsTyped, CampaignsWorking, CPTypeOK, CPJobs, CPSteps, CPStatus,
       HoldEntries, Live, Idle
  <2>2. CampaignsWorking'
    BY <1>0, <1>19, CampaignsJobs, ControlsKnown, CampaignsAssumption DEF CreateManualPlacement,
       AdvanceReport, TermEnds, PauseByWorkflow, CampaignsTyped, CampaignsWorking, CPTypeOK, CPJobs, CPStatus, Idle
  <2>3. ReviewHonoured'
    BY <1>0, <1>19, CampaignsJobs DEF CreateManualPlacement, AdvanceReport, TermEnds, PauseByWorkflow, CampaignsTyped,
       CampaignsWorking, CPTypeOK, ReviewHonoured
  <2>4. HoldBacked'
    BY <1>0, <1>19 DEF CreateManualPlacement, AdvanceReport, TermEnds, PauseByWorkflow, CampaignsTyped, CampaignsWorking,
       CPTypeOK, HoldBacked
  <2> QED BY <2>1, <2>2, <2>3, <2>4
<1> QED
  BY <1>1, <1>2, <1>3, <1>4, <1>5, <1>6, <1>7, <1>8, <1>9, <1>10, <1>11, <1>12, <1>13, <1>14, <1>15, <1>16,
     <1>17, <1>18, <1>19 DEF CPNext, CPStep

LEMMA CampaignsInductive == CampaignsInv /\ [CPNext]_<<cpVars, handlers>> => CampaignsInv'
<1>1. CASE UNCHANGED <<cpVars, handlers>>
  BY <1>1 DEF cpVars, cpRow, cpWork, cpMoney, handlers, CampaignsInv, CampaignsTyped, CPTypeOK,
     CampaignsWorking, ReviewHonoured, HoldBacked
<1> QED BY <1>1, CampaignsStep

\* The inductive invariant of the campaigns holds in every behaviour.
THEOREM CampaignsInvariant == CPSpec => []CampaignsInv
BY CampaignsStart, CampaignsInductive, PTL DEF CPSpec

\* syncExternalDecision and execute: no review is EXECUTED unless its campaign
\* was approved.
THEOREM ReviewsHonoured == CPSpec => []ReviewHonoured
<1>1. CampaignsInv => ReviewHonoured
  BY DEF CampaignsInv
<1> QED BY <1>1, CampaignsInvariant, PTL

\* releaseBudgetHold, captureBudgetHold and the sweep: a settled hold has the
\* entries its status stands for.
THEOREM HoldsBacked == CPSpec => []HoldBacked
<1>1. CampaignsInv => HoldBacked
  BY DEF CampaignsInv
<1> QED BY <1>1, CampaignsInvariant, PTL

-----------------------------------------------------------------------------
(* Rewards.                                                                *)

Entitled == {u \in Participants : rwEntitled[u] # "NONE"}
Claimers == {p \in Procs : pc[p] \in {"count", "entitle"}}

RewardsTyped ==
    /\ pc \in [Procs -> RWSteps \cup {"idle"}]
    /\ job \in [Procs -> RWJobs \cup {Idle}]
    /\ RWTypeOK

\* A fulfil job is of somebody entitled, and what is credited is fulfilled.
RewardsWorking ==
    /\ \A p \in Procs : pc[p] # "idle" =>
        /\ job[p] \in RWJobs
        /\ job[p].op = "task" => job[p].of[1] \in RwTasks
        /\ job[p].op = "fulfil" => rwEntitled[WhoOf(p)] # "NONE"
    /\ \A u \in Participants : rwCredits[u] <= 1 /\ (rwCredits[u] = 1 => rwEntitled[u] # "NONE")

SlotsTaken == Cardinality(Entitled) + Cardinality(Claimers) <= rwClaimed + rwReturned

RewardsInv == RewardsTyped /\ RewardsWorking /\ SlotsTaken

\* A job names a participant, and at most a task, unless it is the owner's.
LEMMA RewardsJobs ==
    \A j \in RWJobs :
        /\ j # Idle
        /\ j.op # "update" => j.of[1] \in RwTasks \cup {None} /\ j.of[2] \in Participants
BY DEF RWJobs, Idle

\* Both kinds of holders of a slot can be counted.
LEMMA HoldersFinite ==
    /\ IsFiniteSet(Entitled) /\ Cardinality(Entitled) \in Nat
    /\ IsFiniteSet(Claimers) /\ Cardinality(Claimers) \in Nat
<1>1. IsFiniteSet(Entitled) /\ IsFiniteSet(Claimers)
  <2>1. Entitled \in SUBSET Participants /\ Claimers \in SUBSET Procs
    BY DEF Entitled, Claimers
  <2> QED BY <2>1, FS_Subset, RewardsAssumption, HandlersAssumption
<1> QED BY <1>1, FS_CardinalityType

LEMMA HoldersFiniteNext ==
    /\ IsFiniteSet(Entitled') /\ Cardinality(Entitled') \in Nat
    /\ IsFiniteSet(Claimers') /\ Cardinality(Claimers') \in Nat
<1>1. IsFiniteSet(Entitled') /\ IsFiniteSet(Claimers')
  <2>1. Entitled' \in SUBSET Participants /\ Claimers' \in SUBSET Procs
    BY DEF Entitled, Claimers
  <2> QED BY <2>1, FS_Subset, RewardsAssumption, HandlersAssumption
<1> QED BY <1>1, FS_CardinalityType

LEMMA SumsStay ==
    \A a, b, c, x, y, z, w \in Nat : a + b <= x + y /\ c <= b /\ x + y <= z + w => a + c <= z + w
OBVIOUS

\* A step that entitles nobody and claims no slot.
LEMMA SlotsStay ==
    ASSUME SlotsTaken, Entitled' = Entitled, Claimers' \in SUBSET Claimers,
           rwClaimed \in Nat, rwReturned \in Nat, rwClaimed' \in Nat, rwReturned' \in Nat,
           rwClaimed + rwReturned <= rwClaimed' + rwReturned'
    PROVE  SlotsTaken'
<1>1. Cardinality(Claimers') <= Cardinality(Claimers)
  BY HoldersFinite, FS_Subset
<1>2. Cardinality(Entitled') = Cardinality(Entitled)
  OBVIOUS
<1>3. Cardinality(Entitled) + Cardinality(Claimers) <= rwClaimed + rwReturned
  BY DEF SlotsTaken
<1>4. Cardinality(Entitled') + Cardinality(Claimers') <= rwClaimed' + rwReturned'
  BY <1>1, <1>2, <1>3, HoldersFinite, HoldersFiniteNext, SumsStay
<1> QED BY <1>4 DEF SlotsTaken

LEMMA RewardsStart == RWInit /\ HandlersInit => RewardsInv
<1> SUFFICES ASSUME RWInit, HandlersInit
             PROVE  RewardsInv
  OBVIOUS
<1>1. RewardsTyped /\ RewardsWorking
  BY RewardsAssumption DEF RWInit, HandlersInit, RewardsTyped, RWTypeOK, CampaignStatus, TaskStatus,
     EntitlementStatus,
     RewardsWorking, Idle
<1>2. Entitled = {} /\ Claimers = {}
  BY DEF RWInit, HandlersInit, Entitled, Claimers
<1>3. SlotsTaken
  BY <1>2, FS_EmptySet DEF SlotsTaken, RWInit
<1> QED BY <1>1, <1>3 DEF RewardsInv

LEMMA RewardsStep ==
    ASSUME RewardsInv, RWNext
    PROVE  RewardsInv'
<1> USE DEF Start, Goto, Learn, Return, Finish, At, rwVars, rwCampaign, rwPayment, handlers
<1>0. RewardsTyped /\ RewardsWorking /\ SlotsTaken
  BY DEF RewardsInv
<1>n. rwClaimed \in Nat /\ rwReturned \in Nat
  BY <1>0, RewardsAssumption DEF RewardsTyped, RWTypeOK
<1> SUFFICES RewardsTyped' /\ RewardsWorking' /\ SlotsTaken'
  BY DEF RewardsInv
<1>1. ASSUME NEW p \in Procs, NEW c \in RwTasks \X Participants, SubmitTask(p, c)
      PROVE  RewardsTyped' /\ RewardsWorking' /\ SlotsTaken'
  <2>1. RewardsTyped'
    BY <1>0, <1>1, RewardsJobs, RewardsAssumption DEF SubmitTask, RewardsTyped, RewardsWorking, RWTypeOK,
       RWJobs, RWSteps, CampaignStatus, TaskStatus, EntitlementStatus, Idle
  <2>2. RewardsWorking'
    BY <1>0, <1>1, RewardsJobs, RewardsAssumption DEF SubmitTask, RewardsTyped, RewardsWorking, RWTypeOK,
       RWJobs, WhoOf, Idle
  <2>3. Entitled' = Entitled /\ Claimers' \in SUBSET Claimers
    BY <1>0, <1>1, RewardsJobs DEF SubmitTask, Entitled, Claimers, RewardsTyped, RewardsWorking, RWTypeOK, WhoOf
  <2>4. rwClaimed' \in Nat /\ rwReturned' \in Nat /\ rwClaimed + rwReturned <= rwClaimed' + rwReturned'
    BY <1>n, <1>1 DEF SubmitTask
  <2> QED BY <1>0, <1>n, <2>1, <2>2, <2>3, <2>4, SlotsStay
<1>2. ASSUME NEW p \in Procs, NEW c \in RwTasks \X Participants, BeginResolveTask(p, c)
      PROVE  RewardsTyped' /\ RewardsWorking' /\ SlotsTaken'
  <2>1. RewardsTyped'
    BY <1>0, <1>2, RewardsJobs, RewardsAssumption DEF BeginResolveTask, RewardsTyped, RewardsWorking,
       RWTypeOK, RWJobs, RWSteps, CampaignStatus, TaskStatus, EntitlementStatus, Idle
  <2>2. RewardsWorking'
    BY <1>0, <1>2, RewardsJobs, RewardsAssumption DEF BeginResolveTask, RewardsTyped, RewardsWorking,
       RWTypeOK, RWJobs, WhoOf, Idle
  <2>3. Entitled' = Entitled /\ Claimers' \in SUBSET Claimers
    BY <1>0, <1>2, RewardsJobs DEF BeginResolveTask, Entitled, Claimers, RewardsTyped, RewardsWorking,
       RWTypeOK, WhoOf
  <2>4. rwClaimed' \in Nat /\ rwReturned' \in Nat /\ rwClaimed + rwReturned <= rwClaimed' + rwReturned'
    BY <1>n, <1>2 DEF BeginResolveTask
  <2> QED BY <1>0, <1>n, <2>1, <2>2, <2>3, <2>4, SlotsStay
<1>3. ASSUME NEW p \in Procs, NEW u \in Participants, BeginFulfil(p, u)
      PROVE  RewardsTyped' /\ RewardsWorking' /\ SlotsTaken'
  <2>1. RewardsTyped'
    <3>1. [op |-> "fulfil", of |-> <<None, u>>, saw |-> rwEntitled[u], got |-> "none"] \in RWJobs
      BY <1>3 DEF BeginFulfil, RWJobs
    <3> QED BY <1>0, <1>3, <3>1 DEF BeginFulfil, RewardsTyped, RWTypeOK, RWSteps
  <2>2. RewardsWorking'
    BY <1>0, <1>3, RewardsJobs, RewardsAssumption DEF BeginFulfil, RewardsTyped, RewardsWorking, RWTypeOK,
       RWJobs, WhoOf, Idle
  <2>3. Entitled' = Entitled /\ Claimers' \in SUBSET Claimers
    BY <1>0, <1>3, RewardsJobs DEF BeginFulfil, Entitled, Claimers, RewardsTyped, RewardsWorking, RWTypeOK,
       WhoOf
  <2>4. rwClaimed' \in Nat /\ rwReturned' \in Nat /\ rwClaimed + rwReturned <= rwClaimed' + rwReturned'
    BY <1>n, <1>3 DEF BeginFulfil
  <2> QED BY <1>0, <1>n, <2>1, <2>2, <2>3, <2>4, SlotsStay
<1>4. ASSUME NEW p \in Procs, VerifyTask(p)
      PROVE  RewardsTyped' /\ RewardsWorking' /\ SlotsTaken'
  <2>1. RewardsTyped'
    BY <1>0, <1>4, RewardsJobs, RewardsAssumption DEF VerifyTask, SetTask, TaskOf, RewardsTyped,
       RewardsWorking, RWTypeOK, RWJobs, RWSteps, CampaignStatus, TaskStatus, EntitlementStatus, Idle
  <2>2. RewardsWorking'
    BY <1>0, <1>4, RewardsJobs, RewardsAssumption DEF VerifyTask, SetTask, TaskOf, RewardsTyped,
       RewardsWorking, RWTypeOK, RWJobs, WhoOf, Idle
  <2>3. Entitled' = Entitled /\ Claimers' \in SUBSET Claimers
    BY <1>0, <1>4, RewardsJobs DEF VerifyTask, SetTask, TaskOf, Entitled, Claimers, RewardsTyped,
       RewardsWorking, RWTypeOK, WhoOf
  <2>4. rwClaimed' \in Nat /\ rwReturned' \in Nat /\ rwClaimed + rwReturned <= rwClaimed' + rwReturned'
    BY <1>n, <1>4 DEF VerifyTask, SetTask, TaskOf
  <2> QED BY <1>0, <1>n, <2>1, <2>2, <2>3, <2>4, SlotsStay
<1>5. ASSUME NEW p \in Procs, ResolveTask(p)
      PROVE  RewardsTyped' /\ RewardsWorking' /\ SlotsTaken'
  <2>1. RewardsTyped'
    BY <1>0, <1>5, RewardsJobs, RewardsAssumption DEF ResolveTask, SetTask, TaskOf, RewardsTyped,
       RewardsWorking, RWTypeOK, RWJobs, RWSteps, CampaignStatus, TaskStatus, EntitlementStatus, Idle
  <2>2. RewardsWorking'
    BY <1>0, <1>5, RewardsJobs, RewardsAssumption DEF ResolveTask, SetTask, TaskOf, RewardsTyped,
       RewardsWorking, RWTypeOK, RWJobs, WhoOf, Idle
  <2>3. Entitled' = Entitled /\ Claimers' \in SUBSET Claimers
    BY <1>0, <1>5, RewardsJobs DEF ResolveTask, SetTask, TaskOf, Entitled, Claimers, RewardsTyped,
       RewardsWorking, RWTypeOK, WhoOf
  <2>4. rwClaimed' \in Nat /\ rwReturned' \in Nat /\ rwClaimed + rwReturned <= rwClaimed' + rwReturned'
    BY <1>n, <1>5 DEF ResolveTask, SetTask, TaskOf
  <2> QED BY <1>0, <1>n, <2>1, <2>2, <2>3, <2>4, SlotsStay
<1>6. ASSUME NEW p \in Procs, Qualify(p)
      PROVE  RewardsTyped' /\ RewardsWorking' /\ SlotsTaken'
  <2>1. RewardsTyped'
    <3>1. RWTypeOK'
      BY <1>0, <1>6 DEF Qualify, RewardsTyped, RWTypeOK
    <3> QED BY <1>0, <1>6, <3>1 DEF Qualify, RewardsTyped, RWSteps, Idle
  <2>2. RewardsWorking'
    BY <1>0, <1>6, RewardsJobs, RewardsAssumption DEF Qualify, RewardsTyped, RewardsWorking, RWTypeOK,
       RWJobs, WhoOf, Idle
  <2>3. Entitled' = Entitled /\ Claimers' \in SUBSET Claimers
    BY <1>0, <1>6, RewardsJobs DEF Qualify, Entitled, Claimers, RewardsTyped, RewardsWorking, RWTypeOK, WhoOf
  <2>4. rwClaimed' \in Nat /\ rwReturned' \in Nat /\ rwClaimed + rwReturned <= rwClaimed' + rwReturned'
    BY <1>n, <1>6 DEF Qualify
  <2> QED BY <1>0, <1>n, <2>1, <2>2, <2>3, <2>4, SlotsStay
<1>7. ASSUME NEW p \in Procs, LookForEntitlement(p)
      PROVE  RewardsTyped' /\ RewardsWorking' /\ SlotsTaken'
  <2>1. RewardsTyped'
    BY <1>0, <1>7, RewardsJobs, RewardsAssumption DEF LookForEntitlement, RewardsTyped, RewardsWorking,
       RWTypeOK, RWJobs, RWSteps, CampaignStatus, TaskStatus, EntitlementStatus, Idle
  <2>2. RewardsWorking'
    BY <1>0, <1>7, RewardsJobs, RewardsAssumption DEF LookForEntitlement, RewardsTyped, RewardsWorking,
       RWTypeOK, RWJobs, WhoOf, Idle
  <2>3. Entitled' = Entitled /\ Claimers' \in SUBSET Claimers
    BY <1>0, <1>7, RewardsJobs DEF LookForEntitlement, Entitled, Claimers, RewardsTyped, RewardsWorking,
       RWTypeOK, WhoOf
  <2>4. rwClaimed' \in Nat /\ rwReturned' \in Nat /\ rwClaimed + rwReturned <= rwClaimed' + rwReturned'
    BY <1>n, <1>7 DEF LookForEntitlement
  <2> QED BY <1>0, <1>n, <2>1, <2>2, <2>3, <2>4, SlotsStay
<1>8. ASSUME NEW p \in Procs, ClaimSlot(p)
      PROVE  RewardsTyped' /\ RewardsWorking' /\ SlotsTaken'
  <2>1. RewardsTyped'
    <3>1. RWTypeOK'
      BY <1>0, <1>n, <1>8 DEF ClaimSlot, RewardsTyped, RWTypeOK
    <3> QED BY <1>0, <1>8, <3>1 DEF ClaimSlot, RewardsTyped, RWSteps
  <2>2. RewardsWorking'
    BY <1>0, <1>8, RewardsJobs, RewardsAssumption DEF ClaimSlot, RewardsTyped, RewardsWorking, RWTypeOK,
       RWJobs, WhoOf, Idle
  <2>3. CASE Goto(p, "count") /\ rwClaimed' = rwClaimed + 1
    <3>1. Entitled' = Entitled /\ rwReturned' = rwReturned
      BY <1>8 DEF ClaimSlot, Entitled
    <3>2. Claimers' = Claimers \cup {p} /\ p \notin Claimers
      BY <1>0, <1>8, <2>3 DEF ClaimSlot, Claimers, RewardsTyped
    <3>3. Cardinality(Claimers') = Cardinality(Claimers) + 1
      BY <3>2, HoldersFinite, FS_AddElement
    <3>4. SlotsTaken'
      BY <1>0, <1>n, <2>3, <3>1, <3>3, HoldersFinite DEF SlotsTaken
    <3> QED BY <2>1, <2>2, <3>4
  <2>4. CASE Return(p) /\ UNCHANGED rwClaimed
    <3>1. Entitled' = Entitled /\ Claimers' \in SUBSET Claimers
      BY <1>0, <1>8, <2>4 DEF ClaimSlot, Entitled, Claimers, RewardsTyped
    <3> QED BY <1>0, <1>n, <1>8, <2>1, <2>2, <2>4, <3>1, SlotsStay DEF ClaimSlot
  <2> QED BY <1>8, <2>3, <2>4 DEF ClaimSlot
<1>9. ASSUME NEW p \in Procs, CountSlots(p)
      PROVE  RewardsTyped' /\ RewardsWorking' /\ SlotsTaken'
  <2>1. RewardsTyped'
    BY <1>0, <1>9, RewardsJobs, RewardsAssumption DEF CountSlots, RewardsTyped, RewardsWorking, RWTypeOK,
       RWJobs, RWSteps, CampaignStatus, TaskStatus, EntitlementStatus, Idle
  <2>2. RewardsWorking'
    BY <1>0, <1>9, RewardsJobs, RewardsAssumption DEF CountSlots, RewardsTyped, RewardsWorking, RWTypeOK,
       RWJobs, WhoOf, Idle
  <2>3. Entitled' = Entitled /\ Claimers' \in SUBSET Claimers
    BY <1>0, <1>9, RewardsJobs DEF CountSlots, Entitled, Claimers, RewardsTyped, RewardsWorking, RWTypeOK, WhoOf
  <2>4. rwClaimed' \in Nat /\ rwReturned' \in Nat /\ rwClaimed + rwReturned <= rwClaimed' + rwReturned'
    BY <1>n, <1>9 DEF CountSlots
  <2> QED BY <1>0, <1>n, <2>1, <2>2, <2>3, <2>4, SlotsStay
<1>10. ASSUME NEW p \in Procs, CreateEntitlement(p)
      PROVE  RewardsTyped' /\ RewardsWorking' /\ SlotsTaken'
  <2>1. RewardsTyped'
    BY <1>0, <1>10, RewardsJobs, RewardsAssumption DEF CreateEntitlement, WhoOf, RewardsTyped,
       RewardsWorking, RWTypeOK, RWJobs, RWSteps, CampaignStatus, TaskStatus, EntitlementStatus, Idle
  <2>2. RewardsWorking'
    BY <1>0, <1>10, RewardsJobs, RewardsAssumption DEF CreateEntitlement, WhoOf, RewardsTyped,
       RewardsWorking, RWTypeOK, RWJobs, Idle
  <2>3. /\ p \in Claimers /\ Claimers' = Claimers \ {p}
        /\ WhoOf(p) \in Participants
    BY <1>0, <1>10, RewardsJobs DEF CreateEntitlement, Claimers, RewardsTyped, RewardsWorking, WhoOf
  <2>4. Entitled' = Entitled \cup {WhoOf(p)} \/ Entitled' = Entitled
    <3>1. CASE rwEntitled' = [rwEntitled EXCEPT ![WhoOf(p)] = "RESERVED"]
      <4>1. Entitled' = Entitled \cup {WhoOf(p)}
        BY <1>0, <2>3, <3>1 DEF Entitled, RewardsTyped, RWTypeOK
      <4> QED BY <4>1
    <3>2. CASE UNCHANGED rwEntitled
      BY <3>2 DEF Entitled
    <3> QED BY <1>10, <3>1, <3>2 DEF CreateEntitlement
  <2>5. Cardinality(Entitled') <= Cardinality(Entitled) + 1
    <3>1. CASE Entitled' = Entitled
      BY <3>1, HoldersFinite
    <3>2. CASE Entitled' = Entitled \cup {WhoOf(p)}
      <4>1. Cardinality(Entitled \cup {WhoOf(p)}) =
              IF WhoOf(p) \in Entitled THEN Cardinality(Entitled) ELSE Cardinality(Entitled) + 1
        BY HoldersFinite, FS_AddElement
      <4>2. Cardinality(Entitled') = Cardinality(Entitled) \/ Cardinality(Entitled') = Cardinality(Entitled) + 1
        BY <3>2, <4>1
      <4> QED BY <4>2, HoldersFinite
    <3> QED BY <2>4, <3>1, <3>2
  <2>6. Cardinality(Claimers') = Cardinality(Claimers) - 1
    BY <2>3, HoldersFinite, FS_RemoveElement
  <2>7. UNCHANGED <<rwClaimed, rwReturned>>
    BY <1>10 DEF CreateEntitlement
  <2>8. SlotsTaken'
    BY <1>0, <1>n, <2>5, <2>6, <2>7, HoldersFinite, HoldersFiniteNext DEF SlotsTaken
  <2> QED BY <2>1, <2>2, <2>8
<1>11. ASSUME NEW p \in Procs, CompleteCampaign(p)
      PROVE  RewardsTyped' /\ RewardsWorking' /\ SlotsTaken'
  <2>1. RewardsTyped'
    <3>1. RWTypeOK'
      BY <1>0, <1>11 DEF CompleteCampaign, RewardsTyped, RWTypeOK, CampaignStatus
    <3> QED BY <1>0, <1>11, <3>1 DEF CompleteCampaign, RewardsTyped, RWSteps
  <2>2. RewardsWorking'
    BY <1>0, <1>11, RewardsJobs, RewardsAssumption DEF CompleteCampaign, RewardsTyped, RewardsWorking,
       RWTypeOK, RWJobs, WhoOf, Idle
  <2>3. Entitled' = Entitled /\ Claimers' \in SUBSET Claimers
    BY <1>0, <1>11, RewardsJobs DEF CompleteCampaign, Entitled, Claimers, RewardsTyped, RewardsWorking,
       RWTypeOK, WhoOf
  <2>4. rwClaimed' \in Nat /\ rwReturned' \in Nat /\ rwClaimed + rwReturned <= rwClaimed' + rwReturned'
    BY <1>n, <1>11 DEF CompleteCampaign
  <2> QED BY <1>0, <1>n, <2>1, <2>2, <2>3, <2>4, SlotsStay
<1>12. ASSUME NEW p \in Procs, EnqueueFulfilment(p)
      PROVE  RewardsTyped' /\ RewardsWorking' /\ SlotsTaken'
  <2>1. RewardsTyped'
    BY <1>0, <1>12, RewardsJobs, RewardsAssumption DEF EnqueueFulfilment, WhoOf, RewardsTyped,
       RewardsWorking, RWTypeOK, RWJobs, RWSteps, CampaignStatus, TaskStatus, EntitlementStatus, Idle
  <2>2. RewardsWorking'
    BY <1>0, <1>12, RewardsJobs, RewardsAssumption DEF EnqueueFulfilment, WhoOf, RewardsTyped,
       RewardsWorking, RWTypeOK, RWJobs, Idle
  <2>3. Entitled' = Entitled /\ Claimers' \in SUBSET Claimers
    BY <1>0, <1>12, RewardsJobs DEF EnqueueFulfilment, WhoOf, Entitled, Claimers, RewardsTyped,
       RewardsWorking, RWTypeOK
  <2>4. rwClaimed' \in Nat /\ rwReturned' \in Nat /\ rwClaimed + rwReturned <= rwClaimed' + rwReturned'
    BY <1>n, <1>12 DEF EnqueueFulfilment, WhoOf
  <2> QED BY <1>0, <1>n, <2>1, <2>2, <2>3, <2>4, SlotsStay
<1>13. ASSUME NEW p \in Procs, PendFulfilment(p)
      PROVE  RewardsTyped' /\ RewardsWorking' /\ SlotsTaken'
  <2>1. RewardsTyped'
    BY <1>0, <1>13, RewardsJobs, RewardsAssumption DEF PendFulfilment, SetEntitlement, WhoOf, RewardsTyped,
       RewardsWorking, RWTypeOK, RWJobs, RWSteps, CampaignStatus, TaskStatus, EntitlementStatus, Idle
  <2>2. RewardsWorking'
    BY <1>0, <1>13, RewardsJobs, RewardsAssumption DEF PendFulfilment, SetEntitlement, WhoOf, RewardsTyped,
       RewardsWorking, RWTypeOK, RWJobs, Idle
  <2>3. Entitled' = Entitled /\ Claimers' \in SUBSET Claimers
    BY <1>0, <1>13, RewardsJobs DEF PendFulfilment, SetEntitlement, WhoOf, Entitled, Claimers, RewardsTyped,
       RewardsWorking, RWTypeOK
  <2>4. rwClaimed' \in Nat /\ rwReturned' \in Nat /\ rwClaimed + rwReturned <= rwClaimed' + rwReturned'
    BY <1>n, <1>13 DEF PendFulfilment, SetEntitlement, WhoOf
  <2> QED BY <1>0, <1>n, <2>1, <2>2, <2>3, <2>4, SlotsStay
<1>14. ASSUME NEW p \in Procs, CreditReward(p)
      PROVE  RewardsTyped' /\ RewardsWorking' /\ SlotsTaken'
  <2>1. RewardsTyped'
    <3>1. WhoOf(p) \in Participants
      BY <1>0, <1>14, RewardsJobs DEF CreditReward, RewardsWorking, WhoOf
    <3>2. RWTypeOK'
      BY <1>0, <1>14, <3>1 DEF CreditReward, SetEntitlement, RewardsTyped, RWTypeOK, EntitlementStatus
    <3> QED BY <1>0, <1>14, <3>2 DEF CreditReward, RewardsTyped, RWSteps
  <2>2. RewardsWorking'
    BY <1>0, <1>14, RewardsJobs, RewardsAssumption DEF CreditReward, SetEntitlement, WhoOf, RewardsTyped,
       RewardsWorking, RWTypeOK, RWJobs, Idle
  <2>3. Entitled' = Entitled /\ Claimers' \in SUBSET Claimers
    BY <1>0, <1>14, RewardsJobs DEF CreditReward, SetEntitlement, WhoOf, Entitled, Claimers, RewardsTyped,
       RewardsWorking, RWTypeOK
  <2>4. rwClaimed' \in Nat /\ rwReturned' \in Nat /\ rwClaimed + rwReturned <= rwClaimed' + rwReturned'
    BY <1>n, <1>14 DEF CreditReward, SetEntitlement, WhoOf
  <2> QED BY <1>0, <1>n, <2>1, <2>2, <2>3, <2>4, SlotsStay
<1>15. ASSUME NEW p \in Procs, MarkAmbiguous(p)
      PROVE  RewardsTyped' /\ RewardsWorking' /\ SlotsTaken'
  <2>1. RewardsTyped'
    BY <1>0, <1>15, RewardsJobs, RewardsAssumption DEF MarkAmbiguous, WhoOf, RewardsTyped, RewardsWorking,
       RWTypeOK, RWJobs, RWSteps, CampaignStatus, TaskStatus, EntitlementStatus, Idle
  <2>2. RewardsWorking'
    BY <1>0, <1>15, RewardsJobs, RewardsAssumption DEF MarkAmbiguous, WhoOf, RewardsTyped, RewardsWorking,
       RWTypeOK, RWJobs, Idle
  <2>3. Entitled' = Entitled /\ Claimers' \in SUBSET Claimers
    BY <1>0, <1>15, RewardsJobs DEF MarkAmbiguous, WhoOf, Entitled, Claimers, RewardsTyped, RewardsWorking,
       RWTypeOK
  <2>4. rwClaimed' \in Nat /\ rwReturned' \in Nat /\ rwClaimed + rwReturned <= rwClaimed' + rwReturned'
    BY <1>n, <1>15 DEF MarkAmbiguous, WhoOf
  <2> QED BY <1>0, <1>n, <2>1, <2>2, <2>3, <2>4, SlotsStay
<1>16. ASSUME NEW p \in Procs, FailEntitlement(p)
      PROVE  RewardsTyped' /\ RewardsWorking' /\ SlotsTaken'
  <2>1. RewardsTyped'
    BY <1>0, <1>16, RewardsJobs, RewardsAssumption DEF FailEntitlement, SetEntitlement, WhoOf, RewardsTyped,
       RewardsWorking, RWTypeOK, RWJobs, RWSteps, CampaignStatus, TaskStatus, EntitlementStatus, Idle
  <2>2. RewardsWorking'
    BY <1>0, <1>16, RewardsJobs, RewardsAssumption DEF FailEntitlement, SetEntitlement, WhoOf, RewardsTyped,
       RewardsWorking, RWTypeOK, RWJobs, Idle
  <2>3. Entitled' = Entitled /\ Claimers' \in SUBSET Claimers
    BY <1>0, <1>16, RewardsJobs DEF FailEntitlement, SetEntitlement, WhoOf, Entitled, Claimers,
       RewardsTyped, RewardsWorking, RWTypeOK
  <2>4. rwClaimed' \in Nat /\ rwReturned' \in Nat /\ rwClaimed + rwReturned <= rwClaimed' + rwReturned'
    BY <1>n, <1>16 DEF FailEntitlement, SetEntitlement, WhoOf
  <2> QED BY <1>0, <1>n, <2>1, <2>2, <2>3, <2>4, SlotsStay
<1>17. ASSUME NEW p \in Procs, Crash(p), UNCHANGED rwVars
      PROVE  RewardsTyped' /\ RewardsWorking' /\ SlotsTaken'
  <2>1. RewardsTyped'
    BY <1>0, <1>17, RewardsJobs, RewardsAssumption DEF Crash, RewardsTyped, RewardsWorking, RWTypeOK,
       RWJobs, RWSteps, CampaignStatus, TaskStatus, EntitlementStatus, Idle
  <2>2. RewardsWorking'
    BY <1>0, <1>17, RewardsJobs, RewardsAssumption DEF Crash, RewardsTyped, RewardsWorking, RWTypeOK,
       RWJobs, WhoOf, Idle
  <2>3. Entitled' = Entitled /\ Claimers' \in SUBSET Claimers
    BY <1>0, <1>17, RewardsJobs DEF Crash, Entitled, Claimers, RewardsTyped, RewardsWorking, RWTypeOK, WhoOf
  <2>4. rwClaimed' \in Nat /\ rwReturned' \in Nat /\ rwClaimed + rwReturned <= rwClaimed' + rwReturned'
    BY <1>n, <1>17 DEF Crash
  <2> QED BY <1>0, <1>n, <2>1, <2>2, <2>3, <2>4, SlotsStay
<1>18. ASSUME NEW u \in Participants, ResolveEntitlement(u)
      PROVE  RewardsTyped' /\ RewardsWorking' /\ SlotsTaken'
  <2>1. RewardsTyped'
    BY <1>0, <1>18, RewardsJobs, RewardsAssumption DEF ResolveEntitlement, SetEntitlement, RewardsTyped,
       RewardsWorking, RWTypeOK, RWJobs, RWSteps, CampaignStatus, TaskStatus, EntitlementStatus, Idle
  <2>2. RewardsWorking'
    BY <1>0, <1>18, RewardsJobs, RewardsAssumption DEF ResolveEntitlement, SetEntitlement, RewardsTyped,
       RewardsWorking, RWTypeOK, RWJobs, WhoOf, Idle
  <2>3. Entitled' = Entitled /\ Claimers' \in SUBSET Claimers
    BY <1>0, <1>18, RewardsJobs DEF ResolveEntitlement, SetEntitlement, Entitled, Claimers, RewardsTyped,
       RewardsWorking, RWTypeOK, WhoOf
  <2>4. rwClaimed' \in Nat /\ rwReturned' \in Nat /\ rwClaimed + rwReturned <= rwClaimed' + rwReturned'
    BY <1>n, <1>18 DEF ResolveEntitlement, SetEntitlement
  <2> QED BY <1>0, <1>n, <2>1, <2>2, <2>3, <2>4, SlotsStay
<1>19. ASSUME NEW p \in Procs, UpdateRewardCampaign(p)
      PROVE  RewardsTyped' /\ RewardsWorking' /\ SlotsTaken'
  <2>1. RewardsTyped'
    BY <1>0, <1>19, RewardsJobs, RewardsAssumption DEF UpdateRewardCampaign, RewardsTyped, RewardsWorking,
       RWTypeOK, RWJobs, RWSteps, CampaignStatus, TaskStatus, EntitlementStatus, Idle
  <2>2. RewardsWorking'
    BY <1>0, <1>19, RewardsJobs, RewardsAssumption DEF UpdateRewardCampaign, RewardsTyped, RewardsWorking,
       RWTypeOK, RWJobs, WhoOf, Idle
  <2>3. Entitled' = Entitled /\ Claimers' \in SUBSET Claimers
    BY <1>0, <1>19, RewardsJobs DEF UpdateRewardCampaign, Entitled, Claimers, RewardsTyped, RewardsWorking,
       RWTypeOK, WhoOf
  <2>4. rwClaimed' \in Nat /\ rwReturned' \in Nat /\ rwClaimed + rwReturned <= rwClaimed' + rwReturned'
    BY <1>n, <1>19 DEF UpdateRewardCampaign
  <2> QED BY <1>0, <1>n, <2>1, <2>2, <2>3, <2>4, SlotsStay
<1>20. ASSUME NEW p \in Procs, NEW s \in RwStatuses, BeginUpdateCampaign(p, s)
      PROVE  RewardsTyped' /\ RewardsWorking' /\ SlotsTaken'
  <2>0. [op |-> "update", of |-> None, saw |-> s, got |-> "none"] \in RWJobs
    BY RewardsAssumption DEF RWJobs, CampaignStatus
  <2>1. RewardsTyped'
    <3>1. RWTypeOK'
      BY <1>0, <1>20 DEF BeginUpdateCampaign, RewardsTyped, RWTypeOK
    <3> QED BY <1>0, <1>20, <2>0, <3>1 DEF BeginUpdateCampaign, RewardsTyped, RWSteps
  <2>2. RewardsWorking'
    BY <1>0, <1>20, <2>0 DEF BeginUpdateCampaign, RewardsTyped, RewardsWorking, WhoOf
  <2>3. Entitled' = Entitled /\ Claimers' \in SUBSET Claimers
    BY <1>0, <1>20, RewardsJobs DEF BeginUpdateCampaign, Entitled, Claimers, RewardsTyped, RewardsWorking,
       RWTypeOK, WhoOf
  <2>4. rwClaimed' \in Nat /\ rwReturned' \in Nat /\ rwClaimed + rwReturned <= rwClaimed' + rwReturned'
    BY <1>n, <1>20 DEF BeginUpdateCampaign
  <2> QED BY <1>0, <1>n, <2>1, <2>2, <2>3, <2>4, SlotsStay
<1> QED
  BY <1>1, <1>2, <1>3, <1>4, <1>5, <1>6, <1>7, <1>8, <1>9, <1>10, <1>11, <1>12, <1>13, <1>14, <1>15, <1>16,
     <1>17, <1>18, <1>19, <1>20 DEF RWNext

LEMMA RewardsInductive == RewardsInv /\ [RWNext]_<<rwVars, handlers>> => RewardsInv'
<1>1. CASE UNCHANGED <<rwVars, handlers>>
  BY <1>1 DEF rwVars, rwCampaign, rwPayment, handlers, RewardsInv, RewardsTyped, RWTypeOK, RewardsWorking,
     WhoOf, SlotsTaken, Entitled, Claimers
<1> QED BY <1>1, RewardsStep

\* The inductive invariant of the rewards holds in every behaviour.
THEOREM RewardsInvariant == RWSpec => []RewardsInv
BY RewardsStart, RewardsInductive, PTL DEF RWSpec

LEMMA RewardsHold == RewardsInv => RewardsCovered
<1> SUFFICES ASSUME RewardsInv
             PROVE  RewardsCovered
  OBVIOUS
<1>1. rwClaimed \in Nat /\ rwReturned \in Nat
  BY RewardsAssumption DEF RewardsInv, RewardsTyped, RWTypeOK
<1>2. Cardinality(Entitled) <= rwClaimed + rwReturned
  BY <1>1, HoldersFinite DEF RewardsInv, SlotsTaken
<1> QED BY <1>2 DEF RewardsInv, RewardsWorking, RewardsCovered, Entitled

\* tryReserveSlot: no more participants are entitled than slots were claimed, and
\* each is credited at most once.
THEOREM RewardsAreCovered == RWSpec => []RewardsCovered
BY RewardsHold, RewardsInvariant, PTL
===============================================================================
