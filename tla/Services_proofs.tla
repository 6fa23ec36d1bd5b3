---------------------------- MODULE Services_proofs ----------------------------
(***************************************************************************)
(* Proofs about the services whose rows settle without a lock: telecom,    *)
(* growth and RMB orders, vouchers, virtual numbers, guest purchases,      *)
(* invoices and payment links, each for any number of handlers, rows and   *)
(* failures.                                                               *)
(***************************************************************************)
EXTENDS Telecom, Growth, Vouchers, VirtualNumbers, RmbOrders, GuestCheckout, Receivables,
        FiniteSetTheorems, TLAPS

-----------------------------------------------------------------------------
(* Telecom orders.                                                         *)

TelecomTyped ==
    /\ pc \in [Procs -> TGSteps \cup {"idle"}]
    /\ job \in [Procs -> TGJobs \cup {Idle}]
    /\ TGTypeOK

\* Which handler is where, and that it has an order.
TelecomWorking ==
    \A p \in Procs :
        /\ pc[p] # "idle" => job[p] \in TGJobs /\ tgStatus[job[p].of] # "NONE"
        /\ pc[p] \in {"submit", "record", "unanswered", "reread", "ambiguous"} => job[p].op = "buy"
        /\ pc[p] \in {"ask", "unknown", "reverse", "write"} => job[p].op = "poll"
        /\ pc[p] = "ask" /\ tgProvider[job[p].of] = "none" => job[p].of \in ByRequestId

\* An order is submitted once: until then the provider has not heard of it.
SubmittedOnce ==
    /\ \A o \in TelecomOrders : tgStatus[o] = "NONE" => tgProvider[o] = "none"
    /\ \A p \in Procs : pc[p] = "submit" =>
        /\ tgStatus[job[p].of] # "NONE" /\ tgProvider[job[p].of] = "none"
        /\ \A q \in Procs : pc[q] = "submit" /\ job[q].of = job[p].of => q = p

\* Our own references are replaced only by those of orders the provider has.
KnownByProvider == \A o \in tgKnown : tgProvider[o] # "none"

\* What a handler was told of an outcome is so and stays so, but for the word of a
\* provider that did not have the order.
TelecomKnows ==
    \A p \in Procs :
        /\ pc[p] = "record" => job[p].got \in {"SUBMITTED", "DELIVERED", "AMBIGUOUS"}
        /\ pc[p] = "record" => tgProvider[job[p].of] # "none"
        /\ pc[p] \in {"record", "write"} /\ job[p].got = "DELIVERED" => tgProvider[job[p].of] = "DELIVERED"
        /\ pc[p] = "reverse" => job[p].got = "REVERSED"
        /\ pc[p] = "reverse" => tgProvider[job[p].of] = "FAILED" \/ job[p].of \in tgDenied
        /\ pc[p] = "write" => job[p].got \in {"SUBMITTED", "DELIVERED", "REVERSED"}
        /\ pc[p] = "write" /\ job[p].got = "REVERSED" => tgReversals[job[p].of] = 1

TelecomInv ==
    /\ TelecomTyped /\ TelecomWorking /\ SubmittedOnce
    /\ KnownByProvider /\ TelecomKnows /\ TelecomHonest

LEMMA TelecomStarts == TGInit /\ HandlersInit => TelecomInv
BY DEF TGInit, HandlersInit, TelecomInv, TelecomTyped, TGTypeOK, TelecomWorking, SubmittedOnce,
       KnownByProvider, TelecomKnows, TelecomHonest, Idle

LEMMA TelecomStep ==
    ASSUME TelecomInv, TGNext
    PROVE  TelecomInv'
<1> USE DEF TelecomInv, TelecomTyped, TGTypeOK, TelecomWorking, SubmittedOnce, KnownByProvider,
            TelecomKnows, TelecomHonest, TGJobs, TGSteps, TelecomStatus, Idle, Start, Goto, Learn, Return, Finish,
            At, SetTelecom, tgVars
<1>1. ASSUME NEW p \in Procs, NEW o \in TelecomOrders, BuyTelecom(p, o) PROVE TelecomInv'
    BY <1>1 DEF BuyTelecom
<1>2. ASSUME NEW p \in Procs, NEW o \in TelecomOrders, BeginPoll(p, o) PROVE TelecomInv'
    BY <1>2, TelecomAssumption DEF BeginPoll
<1>3. ASSUME NEW p \in Procs, SubmitTelecom(p) PROVE TelecomInv'
    BY <1>3 DEF SubmitTelecom, NoAnswer
<1>4. ASSUME NEW p \in Procs, RecordTelecom(p) PROVE TelecomInv'
    BY <1>4 DEF RecordTelecom
<1>13. ASSUME NEW p \in Procs, RecordUnanswered(p) PROVE TelecomInv'
    BY <1>13 DEF RecordUnanswered
<1>12. ASSUME NEW p \in Procs, RereadTelecom(p) PROVE TelecomInv'
    BY <1>12 DEF RereadTelecom
<1>5. ASSUME NEW p \in Procs, RecordTelecomFails(p) PROVE TelecomInv'
    BY <1>5 DEF RecordTelecomFails, DbError
<1>6. ASSUME NEW p \in Procs, MarkTelecomAmbiguous(p) PROVE TelecomInv'
    BY <1>6 DEF MarkTelecomAmbiguous
<1>7. ASSUME NEW p \in Procs, AskProvider(p) PROVE TelecomInv'
    BY <1>7 DEF AskProvider, Answers
<1>14. ASSUME NEW p \in Procs, AskFails(p) PROVE TelecomInv'
    BY <1>14 DEF AskFails
<1>8. ASSUME NEW p \in Procs, ReverseTelecom(p) PROVE TelecomInv'
    BY <1>8 DEF ReverseTelecom
<1>9. ASSUME NEW p \in Procs, WriteTelecom(p) PROVE TelecomInv'
    BY <1>9 DEF WriteTelecom
<1>10. ASSUME NEW p \in Procs, Crash(p), UNCHANGED tgVars PROVE TelecomInv'
    BY <1>10 DEF Crash
<1>11. ASSUME NEW o \in TelecomOrders, TelecomSettles(o) PROVE TelecomInv'
    BY <1>11 DEF TelecomSettles, handlers
<1> QED
    BY <1>1, <1>2, <1>3, <1>4, <1>5, <1>6, <1>7, <1>8, <1>9, <1>10, <1>11, <1>12, <1>13,
       <1>14 DEF TGNext

LEMMA TelecomInductive == TelecomInv /\ [TGNext]_<<tgVars, handlers>> => TelecomInv'
<1>1. CASE UNCHANGED <<tgVars, handlers>>
  BY <1>1 DEF tgVars, handlers, TelecomInv, TelecomTyped, TGTypeOK, TelecomWorking, SubmittedOnce,
              KnownByProvider, TelecomKnows, TelecomHonest
<1> QED BY <1>1, TelecomStep

\* The inductive invariant behind TelecomHonest holds in every behaviour.
THEOREM TelecomInvariant == TGSpec => []TelecomInv
BY TelecomStarts, TelecomInductive, PTL DEF TGSpec

\* getOrderStatus: whatever polls overlap with the purchase and with each other, an
\* order is given back at most once and only on the provider's word that it failed,
\* and its status says of delivery and reversal only what is so.
THEOREM TelecomOrdersHonest == TGSpec => []TelecomHonest
<1>1. TelecomInv => TelecomHonest
  BY DEF TelecomInv
<1> QED BY <1>1, TelecomInvariant, PTL

-----------------------------------------------------------------------------
(* Growth orders.                                                          *)

GrowthTyped ==
    /\ pc \in [Procs -> GRSteps \cup {"idle"}]
    /\ job \in [Procs -> GRJobs \cup {Idle}]
    /\ GRTypeOK

\* Whoever is past the reservation works on an order that was reserved; only a
\* request that creates an order is before it.
GrowthWorking ==
    \A p \in Procs :
        /\ pc[p] # "idle" => job[p] \in GRJobs
        /\ pc[p] = "reserve" => job[p].op = "order"
        /\ pc[p] = "apply" => job[p].got \in GrowthStatus
        /\ pc[p] \notin {"idle", "reserve"} => "reserve" \in grEntries[job[p].of]

\* An order is stored with its reservation and with a payment status.
GrowthStored ==
    \A o \in GrowthOrders :
        /\ "reserve" \in grEntries[o] => grStatus[o] # "NONE"
        /\ grStatus[o] # "NONE" => grPaid[o] # "NONE"

GrowthInv == GrowthTyped /\ GrowthWorking /\ GrowthStored /\ GrowthBacked

LEMMA GrowthStarts == GRInit /\ HandlersInit => GrowthInv
BY DEF GRInit, HandlersInit, GrowthInv, GrowthTyped, GRTypeOK, GrowthWorking, GrowthStored, GrowthBacked, Idle

\* What a status does to an order keeps types and backing, and takes nothing back.
LEMMA StatusBacked ==
    ASSUME GRTypeOK, GrowthStored, GrowthBacked, NEW o \in GrowthOrders, NEW s \in GrowthStatus, NEW saw,
           "reserve" \in grEntries[o], ApplyStatus(o, s, saw), grSupplier' = grSupplier
    PROVE  /\ grStatus' \in [GrowthOrders -> GrowthStatus \cup {"NONE"}]
           /\ grPaid' \in [GrowthOrders -> PaymentStatus \cup {"NONE"}]
           /\ grEntries' \in [GrowthOrders -> SUBSET GrowthEntries]
           /\ \A x \in GrowthOrders : grEntries[x] \subseteq grEntries'[x]
           /\ GrowthStored' /\ GrowthBacked'
<1>1. EntriesOf(s, saw) \subseteq GrowthEntries
  BY DEF EntriesOf, GrowthEntries
<1>2. \A x \in PaymentStatus \cup {"NONE"} : PaidAs(s, x) \in PaymentStatus \cup {"NONE"}
  BY DEF PaidAs, PaymentStatus
<1>3. /\ grStatus' \in [GrowthOrders -> GrowthStatus \cup {"NONE"}]
      /\ grPaid' \in [GrowthOrders -> PaymentStatus \cup {"NONE"}]
      /\ grEntries' \in [GrowthOrders -> SUBSET GrowthEntries]
      /\ \A x \in GrowthOrders : grEntries[x] \subseteq grEntries'[x]
  BY <1>1, <1>2 DEF ApplyStatus, GRTypeOK
<1>4. GrowthBacked'
  BY <1>3 DEF GrowthBacked, ApplyStatus, EntriesOf, GRTypeOK
<1>5. GrowthStored'
  BY <1>3 DEF GrowthStored, ApplyStatus, EntriesOf, PaidAs, GRTypeOK, GrowthStatus
<1> QED BY <1>3, <1>4, <1>5

LEMMA GrowthStep ==
    ASSUME GrowthInv, GRNext
    PROVE  GrowthInv'
<1> USE DEF GrowthInv, GrowthTyped, GrowthWorking, GrowthStored, GRJobs, GRSteps, Idle, Start, Goto, Learn, Return,
            Finish, At, grVars, grOrder
<1>1. ASSUME NEW p \in Procs, NEW o \in GrowthOrders, BeginGrowthOrder(p, o) PROVE GrowthInv'
  BY <1>1 DEF BeginGrowthOrder, GRTypeOK, GrowthBacked
<1>2. ASSUME NEW p \in Procs, NEW o \in GrowthOrders, BeginRefresh(p, o) PROVE GrowthInv'
  BY <1>2 DEF BeginRefresh, GRTypeOK, GrowthBacked, GrowthActive, GrowthStatus
<1>3. ASSUME NEW p \in Procs, NEW o \in GrowthOrders, NEW s \in GrowthStatus, BeginGrowthUpdate(p, o, s)
      PROVE  GrowthInv'
  BY <1>3 DEF BeginGrowthUpdate, GRTypeOK, GrowthBacked
<1>4. ASSUME NEW p \in Procs, ReserveFunds(p) PROVE GrowthInv'
  BY <1>4 DEF ReserveFunds, GRTypeOK, GrowthBacked, GrowthStatus, PaymentStatus, GrowthEntries
<1>5. ASSUME NEW p \in Procs, HoldForReview(p) PROVE GrowthInv'
  BY <1>5 DEF HoldForReview, GRTypeOK, GrowthBacked, PaymentStatus
<1>6. ASSUME NEW p \in Procs, SupplierCreates(p) PROVE GrowthInv'
  BY <1>6 DEF SupplierCreates, GRTypeOK, GrowthBacked, GrowthStatusOf, SmmStatus, GrowthStatus
<1>7. ASSUME NEW p \in Procs, FailGrowthOrder(p) PROVE GrowthInv'
  BY <1>7, StatusBacked DEF FailGrowthOrder, GRTypeOK, GrowthStatus
<1>8. ASSUME NEW p \in Procs, ApplyFails(p) PROVE GrowthInv'
  BY <1>8 DEF ApplyFails, DbError, GRTypeOK, GrowthBacked
<1>9. ASSUME NEW p \in Procs, ApplyTransition(p) PROVE GrowthInv'
  BY <1>9, StatusBacked DEF ApplyTransition, GRTypeOK
<1>10. ASSUME NEW p \in Procs, TakeSnapshot(p) PROVE GrowthInv'
  BY <1>10 DEF TakeSnapshot, GRTypeOK, GrowthBacked, GrowthStatusOf, SmmStatus, GrowthStatus
<1>11. ASSUME NEW p \in Procs, Crash(p), UNCHANGED grVars PROVE GrowthInv'
  BY <1>11 DEF Crash, GRTypeOK, GrowthBacked
<1>12. ASSUME NEW o \in GrowthOrders, SupplierMoves(o) PROVE GrowthInv'
  BY <1>12 DEF SupplierMoves, GRTypeOK, GrowthBacked, handlers, SmmStatus
<1> QED
  BY <1>1, <1>2, <1>3, <1>4, <1>5, <1>6, <1>7, <1>8, <1>9, <1>10, <1>11, <1>12 DEF GRNext

LEMMA GrowthInductive == GrowthInv /\ [GRNext]_<<grVars, handlers>> => GrowthInv'
<1>1. CASE UNCHANGED <<grVars, handlers>>
  BY <1>1 DEF grVars, grOrder, handlers, GrowthInv, GrowthTyped, GRTypeOK, GrowthWorking, GrowthStored,
     GrowthBacked
<1> QED BY <1>1, GrowthStep

\* The inductive invariant behind GrowthBacked holds in every behaviour.
THEOREM GrowthInvariant == GRSpec => []GrowthInv
BY GrowthStarts, GrowthInductive, PTL DEF GRSpec

\* createGrowthOrder and applyGrowthFinancialTransitionDb: the supplier is asked for
\* nothing that was not reserved, and a status about money has its entries.
THEOREM GrowthOrdersBacked == GRSpec => []GrowthBacked
<1>1. GrowthInv => GrowthBacked
  BY DEF GrowthInv
<1> QED BY <1>1, GrowthInvariant, PTL

-----------------------------------------------------------------------------
(* Vouchers.                                                               *)

VoucherTyped ==
    /\ pc \in [Procs -> VCSteps \cup {"idle"}]
    /\ job \in [Procs -> VCJobs \cup {Idle}]
    /\ VCTypeOK

VoucherWorking ==
    \A p \in Procs :
        /\ pc[p] # "idle" => job[p] \in VCJobs
        /\ pc[p] = "idle" => job[p] = Idle
        /\ pc[p] = "seal" => job[p].op \in VoucherKind
        /\ pc[p] \in {"reveal", "redeem"} => job[p].op = "owner"

\* A voucher being made is nobody else's work, has its PIN and no credit; one that
\* is not stored was never shared.
VoucherSealing ==
    /\ \A p \in Procs : pc[p] = "seal" =>
        /\ vcStatus[job[p].of] = "NONE"
        /\ vcPins[job[p].of] = (IF job[p].op = "PROVIDER_EPIN" THEN 1 ELSE 0)
        /\ \A q \in Procs : job[q].of = job[p].of => q = p
    /\ \A p \in Procs : pc[p] \in {"reveal", "redeem"} => vcStatus[job[p].of] # "NONE"
    /\ \A v \in VoucherIds :
        vcStatus[v] = "NONE" => vcToken[v] = "none" /\ vcCredits[v] = 0 /\ vcKind[v] = "none"

\* The kind of a voucher says which of the two it may have.
VoucherKinds ==
    \A v \in VoucherIds :
        /\ vcStatus[v] # "NONE" => vcKind[v] # "none"
        /\ vcKind[v] = "WALLET_CREDIT" => vcPins[v] = 0 /\ vcCredits[v] <= 1
        /\ vcKind[v] = "PROVIDER_EPIN" => vcPins[v] = 1 /\ vcCredits[v] = 0
        /\ vcKind[v] = "none" => vcCredits[v] = 0 /\ vcPins[v] <= 1

VoucherInv == VoucherTyped /\ VoucherWorking /\ VoucherSealing /\ VoucherKinds /\ VoucherHonest

LEMMA VoucherStarts == VCInit /\ HandlersInit => VoucherInv
BY VouchersAssumption DEF VCInit, HandlersInit, VoucherInv, VoucherTyped, VCTypeOK, VoucherWorking,
   VoucherSealing,
       VoucherKinds, VoucherHonest, Idle

LEMMA VoucherStep ==
    ASSUME VoucherInv, VCNext
    PROVE  VoucherInv'
<1> USE DEF Start, Goto, Return, Finish, At, SetVoucher, vcVars
<1>0. VoucherTyped /\ VoucherWorking /\ VoucherSealing /\ VoucherKinds /\ VoucherHonest
  BY DEF VoucherInv
<1> SUFFICES (VoucherTyped /\ VoucherWorking)' /\ VoucherSealing' /\ VoucherKinds' /\ VoucherHonest'
  BY DEF VoucherInv
<1>1. ASSUME NEW p \in Procs, NEW v \in VoucherIds, NEW kind \in VoucherKind, BeginVoucher(p, v, kind)
      PROVE  (VoucherTyped /\ VoucherWorking)' /\ VoucherSealing' /\ VoucherKinds' /\ VoucherHonest'
  <2>1. (VoucherTyped /\ VoucherWorking)'
    BY <1>0, <1>1 DEF BeginVoucher, VoucherTyped, VCTypeOK, VoucherWorking, VCJobs, VCSteps, VoucherStatus,
       VoucherKind, Idle
  <2>2. VoucherSealing'
    BY <1>0, <1>1, VouchersAssumption DEF BeginVoucher, VoucherSealing, VoucherTyped, VCTypeOK,
       VoucherWorking, VCJobs, VCSteps, VoucherStatus, VoucherKind, Idle
  <2>3. VoucherKinds'
    BY <1>0, <1>1 DEF BeginVoucher, VoucherSealing, VoucherKinds, VoucherTyped, VCTypeOK, VoucherWorking,
       VCJobs, VCSteps, VoucherStatus, VoucherKind, Idle
  <2>4. VoucherHonest'
    BY <1>0, <1>1 DEF BeginVoucher, VoucherSealing, VoucherKinds, VoucherHonest, VoucherTyped, VCTypeOK,
       VoucherWorking, VCJobs, VCSteps, VoucherStatus, VoucherKind, Idle
  <2> QED BY <2>1, <2>2, <2>3, <2>4
<1>2. ASSUME NEW p \in Procs, NEW v \in VoucherIds, BeginReveal(p, v) \/ BeginRedeem(p, v)
      PROVE  (VoucherTyped /\ VoucherWorking)' /\ VoucherSealing' /\ VoucherKinds' /\ VoucherHonest'
  <2>1. (VoucherTyped /\ VoucherWorking)'
    BY <1>0, <1>2 DEF BeginReveal, BeginRedeem, VoucherTyped, VCTypeOK, VoucherWorking, VCJobs, VCSteps,
       VoucherStatus, VoucherKind, Idle
  <2>2. VoucherSealing'
    BY <1>0, <1>2, VouchersAssumption DEF BeginReveal, BeginRedeem, VoucherSealing, VoucherTyped, VCTypeOK,
       VoucherWorking, VCJobs, VCSteps, VoucherStatus, VoucherKind, Idle
  <2>3. VoucherKinds'
    BY <1>0, <1>2 DEF BeginReveal, BeginRedeem, VoucherSealing, VoucherKinds, VoucherTyped, VCTypeOK,
       VoucherWorking, VCJobs, VCSteps, VoucherStatus, VoucherKind, Idle
  <2>4. VoucherHonest'
    BY <1>0, <1>2 DEF BeginReveal, BeginRedeem, VoucherSealing, VoucherKinds, VoucherHonest, VoucherTyped,
       VCTypeOK, VoucherWorking, VCJobs, VCSteps, VoucherStatus, VoucherKind, Idle
  <2> QED BY <2>1, <2>2, <2>3, <2>4
<1>3. ASSUME NEW p \in Procs, SealVoucher(p)
      PROVE  (VoucherTyped /\ VoucherWorking)' /\ VoucherSealing' /\ VoucherKinds' /\ VoucherHonest'
  <2>1. (VoucherTyped /\ VoucherWorking)'
    BY <1>0, <1>3 DEF SealVoucher, VoucherTyped, VCTypeOK, VoucherWorking, VCJobs, VCSteps, VoucherStatus,
       VoucherKind, Idle
  <2>2. VoucherSealing'
    BY <1>0, <1>3, VouchersAssumption DEF SealVoucher, VoucherSealing, VoucherTyped, VCTypeOK,
       VoucherWorking, VCJobs, VCSteps, VoucherStatus, VoucherKind, Idle
  <2>3. VoucherKinds'
    BY <1>0, <1>3 DEF SealVoucher, VoucherSealing, VoucherKinds, VoucherTyped, VCTypeOK, VoucherWorking,
       VCJobs, VCSteps, VoucherStatus, VoucherKind, Idle
  <2>4. VoucherHonest'
    BY <1>0, <1>3 DEF SealVoucher, VoucherSealing, VoucherKinds, VoucherHonest, VoucherTyped, VCTypeOK,
       VoucherWorking, VCJobs, VCSteps, VoucherStatus, VoucherKind, Idle
  <2> QED BY <2>1, <2>2, <2>3, <2>4
<1>4. ASSUME NEW p \in Procs, RevealVoucher(p)
      PROVE  (VoucherTyped /\ VoucherWorking)' /\ VoucherSealing' /\ VoucherKinds' /\ VoucherHonest'
  <2>1. (VoucherTyped /\ VoucherWorking)'
    BY <1>0, <1>4 DEF RevealVoucher, VoucherTyped, VCTypeOK, VoucherWorking, VCJobs, VCSteps, VoucherStatus,
       VoucherKind, Idle
  <2>2. VoucherSealing'
    BY <1>0, <1>4, VouchersAssumption DEF RevealVoucher, VoucherSealing, VoucherTyped, VCTypeOK,
       VoucherWorking, VCJobs, VCSteps, VoucherStatus, VoucherKind, Idle
  <2>3. VoucherKinds'
    BY <1>0, <1>4 DEF RevealVoucher, VoucherSealing, VoucherKinds, VoucherTyped, VCTypeOK, VoucherWorking,
       VCJobs, VCSteps, VoucherStatus, VoucherKind, Idle
  <2>4. VoucherHonest'
    BY <1>0, <1>4 DEF RevealVoucher, VoucherSealing, VoucherKinds, VoucherHonest, VoucherTyped, VCTypeOK,
       VoucherWorking, VCJobs, VCSteps, VoucherStatus, VoucherKind, Idle
  <2> QED BY <2>1, <2>2, <2>3, <2>4
<1>5. ASSUME NEW p \in Procs, RedeemVoucher(p)
      PROVE  (VoucherTyped /\ VoucherWorking)' /\ VoucherSealing' /\ VoucherKinds' /\ VoucherHonest'
  <2>1. (VoucherTyped /\ VoucherWorking)'
    BY <1>0, <1>5 DEF RedeemVoucher, VoucherTyped, VCTypeOK, VoucherWorking, VCJobs, VCSteps, VoucherStatus,
       VoucherKind, Idle
  <2>2. VoucherSealing'
    BY <1>0, <1>5, VouchersAssumption DEF RedeemVoucher, VoucherSealing, VoucherTyped, VCTypeOK,
       VoucherWorking, VCJobs, VCSteps, VoucherStatus, VoucherKind, Idle
  <2>3. VoucherKinds'
    BY <1>0, <1>5 DEF RedeemVoucher, VoucherSealing, VoucherKinds, VoucherTyped, VCTypeOK, VoucherWorking,
       VCJobs, VCSteps, VoucherStatus, VoucherKind, Idle
  <2>4. VoucherHonest'
    BY <1>0, <1>5 DEF RedeemVoucher, VoucherSealing, VoucherKinds, VoucherHonest, VoucherTyped, VCTypeOK,
       VoucherWorking, VCJobs, VCSteps, VoucherStatus, VoucherKind, Idle
  <2> QED BY <2>1, <2>2, <2>3, <2>4
<1>6. ASSUME NEW p \in Procs, Crash(p), UNCHANGED vcVars
      PROVE  (VoucherTyped /\ VoucherWorking)' /\ VoucherSealing' /\ VoucherKinds' /\ VoucherHonest'
  <2>1. (VoucherTyped /\ VoucherWorking)'
    BY <1>0, <1>6 DEF Crash, VoucherTyped, VCTypeOK, VoucherWorking, VCJobs, VCSteps, VoucherStatus,
       VoucherKind, Idle
  <2>2. VoucherSealing'
    BY <1>0, <1>6, VouchersAssumption DEF Crash, VoucherSealing, VoucherTyped, VCTypeOK, VoucherWorking,
       VCJobs, VCSteps, VoucherStatus, VoucherKind, Idle
  <2>3. VoucherKinds'
    BY <1>0, <1>6 DEF Crash, VoucherSealing, VoucherKinds, VoucherTyped, VCTypeOK, VoucherWorking, VCJobs,
       VCSteps, VoucherStatus, VoucherKind, Idle
  <2>4. VoucherHonest'
    BY <1>0, <1>6 DEF Crash, VoucherSealing, VoucherKinds, VoucherHonest, VoucherTyped, VCTypeOK,
       VoucherWorking, VCJobs, VCSteps, VoucherStatus, VoucherKind, Idle
  <2> QED BY <2>1, <2>2, <2>3, <2>4
<1>7. ASSUME NEW v \in VoucherIds, ShareVoucher(v) \/ ClaimVoucher(v)
      PROVE  (VoucherTyped /\ VoucherWorking)' /\ VoucherSealing' /\ VoucherKinds' /\ VoucherHonest'
  <2>1. (VoucherTyped /\ VoucherWorking)'
    BY <1>0, <1>7 DEF ShareVoucher, ClaimVoucher, handlers, VoucherTyped, VCTypeOK, VoucherWorking, VCJobs,
       VCSteps, VoucherStatus, VoucherKind, Idle
  <2>2. VoucherSealing'
    BY <1>0, <1>7, VouchersAssumption DEF ShareVoucher, ClaimVoucher, handlers, VoucherSealing,
       VoucherTyped, VCTypeOK, VoucherWorking, VCJobs, VCSteps, VoucherStatus, VoucherKind, Idle
  <2>3. VoucherKinds'
    BY <1>0, <1>7 DEF ShareVoucher, ClaimVoucher, handlers, VoucherSealing, VoucherKinds, VoucherTyped,
       VCTypeOK, VoucherWorking, VCJobs, VCSteps, VoucherStatus, VoucherKind, Idle
  <2>4. VoucherHonest'
    BY <1>0, <1>7 DEF ShareVoucher, ClaimVoucher, handlers, VoucherSealing, VoucherKinds, VoucherHonest,
       VoucherTyped, VCTypeOK, VoucherWorking, VCJobs, VCSteps, VoucherStatus, VoucherKind, Idle
  <2> QED BY <2>1, <2>2, <2>3, <2>4
<1> QED
  BY <1>1, <1>2, <1>3, <1>4, <1>5, <1>6, <1>7 DEF VCNext

LEMMA VoucherInductive == VoucherInv /\ [VCNext]_<<vcVars, handlers>> => VoucherInv'
<1>1. CASE UNCHANGED <<vcVars, handlers>>
  BY <1>1 DEF vcVars, handlers, VoucherInv, VoucherTyped, VCTypeOK, VoucherWorking, VoucherSealing,
              VoucherKinds, VoucherHonest
<1> QED BY <1>1, VoucherStep

\* The inductive invariant behind VoucherHonest holds in every behaviour.
THEOREM VoucherInvariant == VCSpec => []VoucherInv
BY VoucherStarts, VoucherInductive, PTL DEF VCSpec

\* redeemVoucher: a voucher is worth one credit or one PIN, however often it is
\* shared, claimed, revealed and redeemed.
THEOREM VouchersHonest == VCSpec => []VoucherHonest
<1>1. VoucherInv => VoucherHonest
  BY DEF VoucherInv
<1> QED BY <1>1, VoucherInvariant, PTL

-----------------------------------------------------------------------------
(* Virtual numbers.                                                        *)

NumbersTyped ==
    /\ pc \in [Procs -> VNSteps \cup {"idle"}]
    /\ job \in [Procs -> VNJobs \cup {Idle}]
    /\ VNTypeOK

\* Which handler is where; whatever it works on, the number was charged for.
NumbersWorking ==
    \A p \in Procs :
        /\ pc[p] # "idle" => job[p] \in VNJobs /\ vnOrder[NumberOf(job[p].of)] # "NONE"
        /\ pc[p] \in {"debit", "provision", "store", "fulfil", "margin", "compensate"} => job[p].op = "number"
        /\ pc[p] \in {"release", "released"} => job[p].op = "release" /\ job[p].of \in VNumbers

PastDebit == {"provision", "store", "fulfil", "margin", "compensate"}

\* Past the debit an order has one handler, which alone decides what becomes of it.
NumbersCharged ==
    \A p \in Procs : pc[p] \in PastDebit =>
        /\ vnOrder[job[p].of] \in {"CHARGED", "FULFILLED"}
        /\ \A q \in Procs : pc[q] \in PastDebit /\ job[q].of = job[p].of => q = p

NumbersInv == NumbersTyped /\ NumbersWorking /\ NumbersCharged /\ VNSettled

LEMMA NumbersStart == VNInit /\ HandlersInit => NumbersInv
BY VNAssumption DEF VNInit, HandlersInit, NumbersInv, NumbersTyped, VNTypeOK, VNOrderStatus, VNStatus,
       NumbersWorking, NumbersCharged, PastDebit, VNSettled, Idle

LEMMA NumberOfType ==
    /\ \A o \in VNOrders : NumberOf(o) \in VNumbers /\ NumberOf(o) \in VNOrders
    /\ \A n \in VNumbers : NumberOf(n) = n
    /\ \A r \in VNRenewals : NumberOf(r) = VNRenews[r]
BY VNAssumption DEF VNOrders, NumberOf

LEMMA NumbersStep ==
    ASSUME NumbersInv, VNNext
    PROVE  NumbersInv'
<1> USE DEF Start, Goto, Return, Finish, At, vnVars
<1>0. NumbersTyped /\ NumbersWorking /\ NumbersCharged /\ VNSettled
  BY DEF NumbersInv
<1> SUFFICES (NumbersTyped /\ NumbersWorking)' /\ NumbersCharged' /\ VNSettled'
  BY DEF NumbersInv
<1>1. ASSUME NEW p \in Procs, NEW n \in VNumbers, PurchaseNumber(p, n)
      PROVE  (NumbersTyped /\ NumbersWorking)' /\ NumbersCharged' /\ VNSettled'
  <2>1. (NumbersTyped /\ NumbersWorking)'
    BY <1>0, <1>1, NumberOfType, VNAssumption DEF PurchaseNumber, DebitNumber, VNOrders, VNSettled,
       NumbersTyped, VNTypeOK, NumbersWorking, VNJobs, VNSteps, VNOrderStatus, VNStatus, Idle
  <2>2. NumbersCharged'
    BY <1>0, <1>1, NumberOfType, VNAssumption DEF PurchaseNumber, DebitNumber, VNOrders, NumbersCharged,
       PastDebit, NumbersTyped, VNTypeOK, NumbersWorking, VNJobs, VNSteps, VNOrderStatus, VNStatus, Idle
  <2>3. VNSettled'
    BY <1>0, <1>1, NumberOfType, VNAssumption DEF PurchaseNumber, DebitNumber, VNOrders, NumbersCharged,
       PastDebit, VNSettled, NumbersTyped, VNTypeOK, NumbersWorking, VNJobs, VNSteps, VNOrderStatus,
       VNStatus, Idle
  <2> QED BY <2>1, <2>2, <2>3
<1>2. ASSUME NEW p \in Procs, NEW n \in VNumbers, ReleaseNumber(p, n) \/ ReleaseExpired(p, n)
      PROVE  (NumbersTyped /\ NumbersWorking)' /\ NumbersCharged' /\ VNSettled'
  <2>1. (NumbersTyped /\ NumbersWorking)'
    BY <1>0, <1>2, NumberOfType, VNAssumption DEF ReleaseNumber, ReleaseExpired, BeginRelease, VNOrders,
       VNSettled, NumbersTyped, VNTypeOK, NumbersWorking, VNJobs, VNSteps, VNOrderStatus, VNStatus, Idle
  <2>2. NumbersCharged'
    BY <1>0, <1>2, NumberOfType, VNAssumption DEF ReleaseNumber, ReleaseExpired, BeginRelease, VNOrders,
       NumbersCharged, PastDebit, NumbersTyped, VNTypeOK, NumbersWorking, VNJobs, VNSteps, VNOrderStatus,
       VNStatus, Idle
  <2>3. VNSettled'
    BY <1>0, <1>2, NumberOfType, VNAssumption DEF ReleaseNumber, ReleaseExpired, BeginRelease, VNOrders,
       NumbersCharged, PastDebit, VNSettled, NumbersTyped, VNTypeOK, NumbersWorking, VNJobs, VNSteps,
       VNOrderStatus, VNStatus, Idle
  <2> QED BY <2>1, <2>2, <2>3
<1>3. ASSUME NEW p \in Procs, NEW r \in VNRenewals, RenewNumber(p, r)
      PROVE  (NumbersTyped /\ NumbersWorking)' /\ NumbersCharged' /\ VNSettled'
  <2>1. (NumbersTyped /\ NumbersWorking)'
    BY <1>0, <1>3, NumberOfType, VNAssumption DEF RenewNumber, VNOrders, VNSettled, NumbersTyped, VNTypeOK,
       NumbersWorking, VNJobs, VNSteps, VNOrderStatus, VNStatus, Idle
  <2>2. NumbersCharged'
    BY <1>0, <1>3, NumberOfType, VNAssumption DEF RenewNumber, VNOrders, NumbersCharged, PastDebit,
       NumbersTyped, VNTypeOK, NumbersWorking, VNJobs, VNSteps, VNOrderStatus, VNStatus, Idle
  <2>3. VNSettled'
    BY <1>0, <1>3, NumberOfType, VNAssumption DEF RenewNumber, VNOrders, NumbersCharged, PastDebit,
       VNSettled, NumbersTyped, VNTypeOK, NumbersWorking, VNJobs, VNSteps, VNOrderStatus, VNStatus, Idle
  <2> QED BY <2>1, <2>2, <2>3
<1>4. ASSUME NEW p \in Procs, DebitRenewal(p)
      PROVE  (NumbersTyped /\ NumbersWorking)' /\ NumbersCharged' /\ VNSettled'
  <2>1. (NumbersTyped /\ NumbersWorking)'
    BY <1>0, <1>4, NumberOfType, VNAssumption DEF DebitRenewal, DebitNumber, VNOrders, VNSettled,
       NumbersTyped, VNTypeOK, NumbersWorking, VNJobs, VNSteps, VNOrderStatus, VNStatus, Idle
  <2>2. NumbersCharged'
    BY <1>0, <1>4, NumberOfType, VNAssumption DEF DebitRenewal, DebitNumber, VNOrders, NumbersCharged,
       PastDebit, NumbersTyped, VNTypeOK, NumbersWorking, VNJobs, VNSteps, VNOrderStatus, VNStatus, Idle
  <2>3. VNSettled'
    BY <1>0, <1>4, NumberOfType, VNAssumption DEF DebitRenewal, DebitNumber, VNOrders, NumbersCharged,
       PastDebit, VNSettled, NumbersTyped, VNTypeOK, NumbersWorking, VNJobs, VNSteps, VNOrderStatus,
       VNStatus, Idle
  <2> QED BY <2>1, <2>2, <2>3
<1>5. ASSUME NEW p \in Procs, Provision(p)
      PROVE  (NumbersTyped /\ NumbersWorking)' /\ NumbersCharged' /\ VNSettled'
  <2>1. (NumbersTyped /\ NumbersWorking)'
    BY <1>0, <1>5, NumberOfType, VNAssumption DEF Provision, VNOrders, VNSettled, NumbersTyped, VNTypeOK,
       NumbersWorking, VNJobs, VNSteps, VNOrderStatus, VNStatus, Idle
  <2>2. NumbersCharged'
    BY <1>0, <1>5, NumberOfType, VNAssumption DEF Provision, VNOrders, NumbersCharged, PastDebit,
       NumbersTyped, VNTypeOK, NumbersWorking, VNJobs, VNSteps, VNOrderStatus, VNStatus, Idle
  <2>3. VNSettled'
    BY <1>0, <1>5, NumberOfType, VNAssumption DEF Provision, VNOrders, NumbersCharged, PastDebit, VNSettled,
       NumbersTyped, VNTypeOK, NumbersWorking, VNJobs, VNSteps, VNOrderStatus, VNStatus, Idle
  <2> QED BY <2>1, <2>2, <2>3
<1>6. ASSUME NEW p \in Procs, StoreNumber(p)
      PROVE  (NumbersTyped /\ NumbersWorking)' /\ NumbersCharged' /\ VNSettled'
  <2>1. (NumbersTyped /\ NumbersWorking)'
    BY <1>0, <1>6, NumberOfType, VNAssumption DEF StoreNumber, VNOrders, VNSettled, NumbersTyped, VNTypeOK,
       NumbersWorking, VNJobs, VNSteps, VNOrderStatus, VNStatus, Idle
  <2>2. NumbersCharged'
    BY <1>0, <1>6, NumberOfType, VNAssumption DEF StoreNumber, VNOrders, NumbersCharged, PastDebit,
       NumbersTyped, VNTypeOK, NumbersWorking, VNJobs, VNSteps, VNOrderStatus, VNStatus, Idle
  <2>3. VNSettled'
    BY <1>0, <1>6, NumberOfType, VNAssumption DEF StoreNumber, VNOrders, NumbersCharged, PastDebit,
       VNSettled, NumbersTyped, VNTypeOK, NumbersWorking, VNJobs, VNSteps, VNOrderStatus, VNStatus, Idle
  <2> QED BY <2>1, <2>2, <2>3
<1>7. ASSUME NEW p \in Procs, FulfilOrder(p)
      PROVE  (NumbersTyped /\ NumbersWorking)' /\ NumbersCharged' /\ VNSettled'
  <2>1. (NumbersTyped /\ NumbersWorking)'
    BY <1>0, <1>7, NumberOfType, VNAssumption DEF FulfilOrder, VNOrders, VNSettled, NumbersTyped, VNTypeOK,
       NumbersWorking, VNJobs, VNSteps, VNOrderStatus, VNStatus, Idle
  <2>2. NumbersCharged'
    BY <1>0, <1>7, NumberOfType, VNAssumption DEF FulfilOrder, VNOrders, NumbersCharged, PastDebit,
       NumbersTyped, VNTypeOK, NumbersWorking, VNJobs, VNSteps, VNOrderStatus, VNStatus, Idle
  <2>3. VNSettled'
    BY <1>0, <1>7, NumberOfType, VNAssumption DEF FulfilOrder, VNOrders, NumbersCharged, PastDebit,
       VNSettled, NumbersTyped, VNTypeOK, NumbersWorking, VNJobs, VNSteps, VNOrderStatus, VNStatus, Idle
  <2> QED BY <2>1, <2>2, <2>3
<1>8. ASSUME NEW p \in Procs, TrackMargin(p)
      PROVE  (NumbersTyped /\ NumbersWorking)' /\ NumbersCharged' /\ VNSettled'
  <2>1. (NumbersTyped /\ NumbersWorking)'
    BY <1>0, <1>8, NumberOfType, VNAssumption DEF TrackMargin, VNOrders, VNSettled, NumbersTyped, VNTypeOK,
       NumbersWorking, VNJobs, VNSteps, VNOrderStatus, VNStatus, Idle
  <2>2. NumbersCharged'
    BY <1>0, <1>8, NumberOfType, VNAssumption DEF TrackMargin, VNOrders, NumbersCharged, PastDebit,
       NumbersTyped, VNTypeOK, NumbersWorking, VNJobs, VNSteps, VNOrderStatus, VNStatus, Idle
  <2>3. VNSettled'
    BY <1>0, <1>8, NumberOfType, VNAssumption DEF TrackMargin, VNOrders, NumbersCharged, PastDebit,
       VNSettled, NumbersTyped, VNTypeOK, NumbersWorking, VNJobs, VNSteps, VNOrderStatus, VNStatus, Idle
  <2> QED BY <2>1, <2>2, <2>3
<1>9. ASSUME NEW p \in Procs, CompensateNumber(p)
      PROVE  (NumbersTyped /\ NumbersWorking)' /\ NumbersCharged' /\ VNSettled'
  <2>1. (NumbersTyped /\ NumbersWorking)'
    BY <1>0, <1>9, NumberOfType, VNAssumption DEF CompensateNumber, VNOrders, VNSettled, NumbersTyped,
       VNTypeOK, NumbersWorking, VNJobs, VNSteps, VNOrderStatus, VNStatus, Idle
  <2>2. NumbersCharged'
    BY <1>0, <1>9, NumberOfType, VNAssumption DEF CompensateNumber, VNOrders, NumbersCharged, PastDebit,
       NumbersTyped, VNTypeOK, NumbersWorking, VNJobs, VNSteps, VNOrderStatus, VNStatus, Idle
  <2>3. VNSettled'
    BY <1>0, <1>9, NumberOfType, VNAssumption DEF CompensateNumber, VNOrders, NumbersCharged, PastDebit,
       VNSettled, NumbersTyped, VNTypeOK, NumbersWorking, VNJobs, VNSteps, VNOrderStatus, VNStatus, Idle
  <2> QED BY <2>1, <2>2, <2>3
<1>10. ASSUME NEW p \in Procs, ReleaseAtProvider(p)
      PROVE  (NumbersTyped /\ NumbersWorking)' /\ NumbersCharged' /\ VNSettled'
  <2>1. (NumbersTyped /\ NumbersWorking)'
    BY <1>0, <1>10, NumberOfType, VNAssumption DEF ReleaseAtProvider, VNOrders, VNSettled, NumbersTyped,
       VNTypeOK, NumbersWorking, VNJobs, VNSteps, VNOrderStatus, VNStatus, Idle
  <2>2. NumbersCharged'
    BY <1>0, <1>10, NumberOfType, VNAssumption DEF ReleaseAtProvider, VNOrders, NumbersCharged, PastDebit,
       NumbersTyped, VNTypeOK, NumbersWorking, VNJobs, VNSteps, VNOrderStatus, VNStatus, Idle
  <2>3. VNSettled'
    BY <1>0, <1>10, NumberOfType, VNAssumption DEF ReleaseAtProvider, VNOrders, NumbersCharged, PastDebit,
       VNSettled, NumbersTyped, VNTypeOK, NumbersWorking, VNJobs, VNSteps, VNOrderStatus, VNStatus, Idle
  <2> QED BY <2>1, <2>2, <2>3
<1>11. ASSUME NEW p \in Procs, MarkReleased(p)
      PROVE  (NumbersTyped /\ NumbersWorking)' /\ NumbersCharged' /\ VNSettled'
  <2>1. (NumbersTyped /\ NumbersWorking)'
    BY <1>0, <1>11, NumberOfType, VNAssumption DEF MarkReleased, VNOrders, VNSettled, NumbersTyped,
       VNTypeOK, NumbersWorking, VNJobs, VNSteps, VNOrderStatus, VNStatus, Idle
  <2>2. NumbersCharged'
    BY <1>0, <1>11, NumberOfType, VNAssumption DEF MarkReleased, VNOrders, NumbersCharged, PastDebit,
       NumbersTyped, VNTypeOK, NumbersWorking, VNJobs, VNSteps, VNOrderStatus, VNStatus, Idle
  <2>3. VNSettled'
    BY <1>0, <1>11, NumberOfType, VNAssumption DEF MarkReleased, VNOrders, NumbersCharged, PastDebit,
       VNSettled, NumbersTyped, VNTypeOK, NumbersWorking, VNJobs, VNSteps, VNOrderStatus, VNStatus, Idle
  <2> QED BY <2>1, <2>2, <2>3
<1>12. ASSUME NEW p \in Procs, ExecuteFails(p)
      PROVE  (NumbersTyped /\ NumbersWorking)' /\ NumbersCharged' /\ VNSettled'
  <2>1. (NumbersTyped /\ NumbersWorking)'
    BY <1>0, <1>12, NumberOfType, VNAssumption DEF ExecuteFails, DbError, VNOrders, VNSettled, NumbersTyped,
       VNTypeOK, NumbersWorking, VNJobs, VNSteps, VNOrderStatus, VNStatus, Idle
  <2>2. NumbersCharged'
    BY <1>0, <1>12, NumberOfType, VNAssumption DEF ExecuteFails, DbError, VNOrders, NumbersCharged,
       PastDebit, NumbersTyped, VNTypeOK, NumbersWorking, VNJobs, VNSteps, VNOrderStatus, VNStatus, Idle
  <2>3. VNSettled'
    BY <1>0, <1>12, NumberOfType, VNAssumption DEF ExecuteFails, DbError, VNOrders, NumbersCharged,
       PastDebit, VNSettled, NumbersTyped, VNTypeOK, NumbersWorking, VNJobs, VNSteps, VNOrderStatus,
       VNStatus, Idle
  <2> QED BY <2>1, <2>2, <2>3
<1>13. ASSUME NEW p \in Procs, Crash(p), UNCHANGED vnVars
      PROVE  (NumbersTyped /\ NumbersWorking)' /\ NumbersCharged' /\ VNSettled'
  <2>1. (NumbersTyped /\ NumbersWorking)'
    BY <1>0, <1>13, NumberOfType, VNAssumption DEF Crash, VNOrders, VNSettled, NumbersTyped, VNTypeOK,
       NumbersWorking, VNJobs, VNSteps, VNOrderStatus, VNStatus, Idle
  <2>2. NumbersCharged'
    BY <1>0, <1>13, NumberOfType, VNAssumption DEF Crash, VNOrders, NumbersCharged, PastDebit, NumbersTyped,
       VNTypeOK, NumbersWorking, VNJobs, VNSteps, VNOrderStatus, VNStatus, Idle
  <2>3. VNSettled'
    BY <1>0, <1>13, NumberOfType, VNAssumption DEF Crash, VNOrders, NumbersCharged, PastDebit, VNSettled,
       NumbersTyped, VNTypeOK, NumbersWorking, VNJobs, VNSteps, VNOrderStatus, VNStatus, Idle
  <2> QED BY <2>1, <2>2, <2>3
<1>14. ASSUME LifecycleSweep
      PROVE  (NumbersTyped /\ NumbersWorking)' /\ NumbersCharged' /\ VNSettled'
  <2>1. (NumbersTyped /\ NumbersWorking)'
    BY <1>0, <1>14, NumberOfType, VNAssumption DEF LifecycleSweep, handlers, VNOrders, VNSettled,
       NumbersTyped, VNTypeOK, NumbersWorking, VNJobs, VNSteps, VNOrderStatus, VNStatus, Idle
  <2>2. NumbersCharged'
    BY <1>0, <1>14, NumberOfType, VNAssumption DEF LifecycleSweep, handlers, VNOrders, NumbersCharged,
       PastDebit, NumbersTyped, VNTypeOK, NumbersWorking, VNJobs, VNSteps, VNOrderStatus, VNStatus, Idle
  <2>3. VNSettled'
    BY <1>0, <1>14, NumberOfType, VNAssumption DEF LifecycleSweep, handlers, VNOrders, NumbersCharged,
       PastDebit, VNSettled, NumbersTyped, VNTypeOK, NumbersWorking, VNJobs, VNSteps, VNOrderStatus,
       VNStatus, Idle
  <2> QED BY <2>1, <2>2, <2>3
<1>15. ASSUME NEW n \in VNumbers, TimePasses(n)
      PROVE  (NumbersTyped /\ NumbersWorking)' /\ NumbersCharged' /\ VNSettled'
  <2>1. (NumbersTyped /\ NumbersWorking)'
    BY <1>0, <1>15, NumberOfType, VNAssumption DEF TimePasses, handlers, VNOrders, VNSettled, NumbersTyped,
       VNTypeOK, NumbersWorking, VNJobs, VNSteps, VNOrderStatus, VNStatus, Idle
  <2>2. NumbersCharged'
    BY <1>0, <1>15, NumberOfType, VNAssumption DEF TimePasses, handlers, VNOrders, NumbersCharged,
       PastDebit, NumbersTyped, VNTypeOK, NumbersWorking, VNJobs, VNSteps, VNOrderStatus, VNStatus, Idle
  <2>3. VNSettled'
    BY <1>0, <1>15, NumberOfType, VNAssumption DEF TimePasses, handlers, VNOrders, NumbersCharged,
       PastDebit, VNSettled, NumbersTyped, VNTypeOK, NumbersWorking, VNJobs, VNSteps, VNOrderStatus,
       VNStatus, Idle
  <2> QED BY <2>1, <2>2, <2>3
<1> QED
  BY <1>1, <1>2, <1>3, <1>4, <1>5, <1>6, <1>7, <1>8, <1>9, <1>10, <1>11, <1>12, <1>13, <1>14, <1>15 DEF
     VNNext, VNStep

LEMMA NumbersInductive == NumbersInv /\ [VNNext]_<<vnVars, handlers>> => NumbersInv'
<1>1. CASE UNCHANGED <<vnVars, handlers>>
  BY <1>1 DEF vnVars, handlers, NumbersInv, NumbersTyped, VNTypeOK, NumbersWorking, NumbersCharged, VNSettled
<1> QED BY <1>1, NumbersStep

\* The inductive invariant behind VNSettled holds in every behaviour.
THEOREM NumbersInvariant == VNSpec => []NumbersInv
BY NumbersStart, NumbersInductive, PTL DEF VNSpec

\* runChargeSaga under "compensate": the price of a number is given back exactly
\* when its order says FAILED, at whatever step the purchase or renewal failed.
THEOREM NumbersSettled == VNSpec => []VNSettled
<1>1. NumbersInv => VNSettled
  BY DEF NumbersInv
<1> QED BY <1>1, NumbersInvariant, PTL

-----------------------------------------------------------------------------
(* RMB orders.                                                             *)

RmbTyped ==
    /\ pc \in [Procs -> RMSteps \cup {"idle"}]
    /\ job \in [Procs -> RMJobs \cup {Idle}]
    /\ RMTypeOK

RmbWorking ==
    \A p \in Procs :
        /\ pc[p] # "idle" => job[p] \in RMJobs
        /\ pc[p] \in {"submit", "reference", "reject"} => job[p].op = "create"
        /\ pc[p] \in {"read", "write"} => job[p].op \in {"cancelled", "refunded"}

\* An order is submitted once: until then Sogo has not heard of it.
RmbSubmittedOnce ==
    /\ \A o \in RmbOrderIds : rmStatus[o] = "NONE" => rmSogo[o] = "none"
    /\ \A p \in Procs : pc[p] = "submit" =>
        /\ rmStatus[job[p].of] # "NONE" /\ rmSogo[job[p].of] = "none"
        /\ \A q \in Procs : pc[q] = "submit" /\ job[q].of = job[p].of => q = p

\* What Sogo said, in an event or to a handler, was so and cannot be undone.
RmbTold ==
    /\ \A o \in RmbOrderIds :
        /\ <<o, "cancelled">> \in rmEvents => rmSogo[o] \in {"cancelled", "refunded"}
        /\ <<o, "refunded">> \in rmEvents => rmSogo[o] = "refunded"
    /\ \A p \in Procs :
        /\ pc[p] = "reject" => rmSogo[job[p].of] = "rejected"
        /\ pc[p] \in {"read", "write"} => rmSogo[job[p].of] \in {"cancelled", "refunded"}
        /\ pc[p] = "write" /\ job[p].got # "none" => rmReversals[job[p].of] # {}

RmbInv == RmbTyped /\ RmbWorking /\ RmbSubmittedOnce /\ RmbTold /\ RmbRefundJustified

LEMMA RmbStarts == RMInit /\ HandlersInit => RmbInv
BY DEF RMInit, HandlersInit, RmbInv, RmbTyped, RMTypeOK, RmbStatus, RmbWorking, RmbSubmittedOnce, RmbTold,
       RmbRefundJustified, Idle

LEMMA RmbStep ==
    ASSUME RmbInv, RMNext
    PROVE  RmbInv'
<1> USE DEF Start, Goto, Return, Finish, At, rmVars, rmBooks
<1>0. RmbTyped /\ RmbWorking /\ RmbSubmittedOnce /\ RmbTold /\ RmbRefundJustified
  BY DEF RmbInv
<1> SUFFICES (RmbTyped /\ RmbWorking)' /\ RmbSubmittedOnce' /\ RmbTold' /\ RmbRefundJustified'
  BY DEF RmbInv
<1>1. ASSUME NEW p \in Procs, NEW o \in RmbOrderIds, CreateRmbOrder(p, o)
      PROVE  (RmbTyped /\ RmbWorking)' /\ RmbSubmittedOnce' /\ RmbTold' /\ RmbRefundJustified'
  <2>1. (RmbTyped /\ RmbWorking)'
    BY <1>0, <1>1 DEF CreateRmbOrder, RmbTyped, RMTypeOK, RmbWorking, RMJobs, RMSteps, RmbStatus, RmbEvents,
       Idle
  <2>2. RmbSubmittedOnce'
    BY <1>0, <1>1 DEF CreateRmbOrder, RmbSubmittedOnce, RmbTold, RmbTyped, RMTypeOK, RmbWorking, RMJobs,
       RMSteps, RmbStatus, RmbEvents, Idle
  <2>3. RmbTold'
    BY <1>0, <1>1 DEF CreateRmbOrder, RmbSubmittedOnce, RmbTold, RmbRefundJustified, RmbTyped, RMTypeOK,
       RmbWorking, RMJobs, RMSteps, RmbStatus, RmbEvents, Idle
  <2>4. RmbRefundJustified'
    BY <1>0, <1>1 DEF CreateRmbOrder, RmbSubmittedOnce, RmbTold, RmbRefundJustified, RmbTyped, RMTypeOK,
       RmbWorking, RMJobs, RMSteps, RmbStatus, RmbEvents, Idle
  <2> QED BY <2>1, <2>2, <2>3, <2>4
<1>2. ASSUME NEW p \in Procs, NEW o \in RmbOrderIds, NEW event \in {"cancelled", "refunded"}, BeginRmbRefund(p, o, event)
      PROVE  (RmbTyped /\ RmbWorking)' /\ RmbSubmittedOnce' /\ RmbTold' /\ RmbRefundJustified'
  <2>1. (RmbTyped /\ RmbWorking)'
    BY <1>0, <1>2 DEF BeginRmbRefund, RmbTyped, RMTypeOK, RmbWorking, RMJobs, RMSteps, RmbStatus, RmbEvents,
       Idle
  <2>2. RmbSubmittedOnce'
    BY <1>0, <1>2 DEF BeginRmbRefund, RmbSubmittedOnce, RmbTold, RmbTyped, RMTypeOK, RmbWorking, RMJobs,
       RMSteps, RmbStatus, RmbEvents, Idle
  <2>3. RmbTold'
    <3>1. rmSogo[o] \in {"cancelled", "refunded"}
      BY <1>0, <1>2 DEF BeginRmbRefund, RmbTold
    <3> QED
      BY <1>0, <1>2, <3>1 DEF BeginRmbRefund, RmbTold, RmbTyped, RMTypeOK, RmbWorking, RMJobs, RMSteps, Idle
  <2>4. RmbRefundJustified'
    BY <1>0, <1>2 DEF BeginRmbRefund, RmbSubmittedOnce, RmbTold, RmbRefundJustified, RmbTyped, RMTypeOK,
       RmbWorking, RMJobs, RMSteps, RmbStatus, RmbEvents, Idle
  <2> QED BY <2>1, <2>2, <2>3, <2>4
<1>3. ASSUME NEW p \in Procs, SubmitRmbOrder(p)
      PROVE  (RmbTyped /\ RmbWorking)' /\ RmbSubmittedOnce' /\ RmbTold' /\ RmbRefundJustified'
  <2>1. (RmbTyped /\ RmbWorking)'
    BY <1>0, <1>3 DEF SubmitRmbOrder, RmbTyped, RMTypeOK, RmbWorking, RMJobs, RMSteps, RmbStatus, RmbEvents,
       Idle
  <2>2. RmbSubmittedOnce'
    BY <1>0, <1>3 DEF SubmitRmbOrder, RmbSubmittedOnce, RmbTold, RmbTyped, RMTypeOK, RmbWorking, RMJobs,
       RMSteps, RmbStatus, RmbEvents, Idle
  <2>3. RmbTold'
    BY <1>0, <1>3 DEF SubmitRmbOrder, RmbSubmittedOnce, RmbTold, RmbRefundJustified, RmbTyped, RMTypeOK,
       RmbWorking, RMJobs, RMSteps, RmbStatus, RmbEvents, Idle
  <2>4. RmbRefundJustified'
    BY <1>0, <1>3 DEF SubmitRmbOrder, RmbSubmittedOnce, RmbTold, RmbRefundJustified, RmbTyped, RMTypeOK,
       RmbWorking, RMJobs, RMSteps, RmbStatus, RmbEvents, Idle
  <2> QED BY <2>1, <2>2, <2>3, <2>4
<1>4. ASSUME NEW p \in Procs, StoreReference(p)
      PROVE  (RmbTyped /\ RmbWorking)' /\ RmbSubmittedOnce' /\ RmbTold' /\ RmbRefundJustified'
  <2>1. (RmbTyped /\ RmbWorking)'
    BY <1>0, <1>4 DEF StoreReference, RmbTyped, RMTypeOK, RmbWorking, RMJobs, RMSteps, RmbStatus, RmbEvents,
       Idle
  <2>2. RmbSubmittedOnce'
    BY <1>0, <1>4 DEF StoreReference, RmbSubmittedOnce, RmbTold, RmbTyped, RMTypeOK, RmbWorking, RMJobs,
       RMSteps, RmbStatus, RmbEvents, Idle
  <2>3. RmbTold'
    BY <1>0, <1>4 DEF StoreReference, RmbSubmittedOnce, RmbTold, RmbRefundJustified, RmbTyped, RMTypeOK,
       RmbWorking, RMJobs, RMSteps, RmbStatus, RmbEvents, Idle
  <2>4. RmbRefundJustified'
    BY <1>0, <1>4 DEF StoreReference, RmbSubmittedOnce, RmbTold, RmbRefundJustified, RmbTyped, RMTypeOK,
       RmbWorking, RMJobs, RMSteps, RmbStatus, RmbEvents, Idle
  <2> QED BY <2>1, <2>2, <2>3, <2>4
<1>5. ASSUME NEW p \in Procs, CancelRejected(p)
      PROVE  (RmbTyped /\ RmbWorking)' /\ RmbSubmittedOnce' /\ RmbTold' /\ RmbRefundJustified'
  <2>1. (RmbTyped /\ RmbWorking)'
    BY <1>0, <1>5 DEF CancelRejected, GiveBack, RmbTyped, RMTypeOK, RmbWorking, RMJobs, RMSteps, RmbStatus,
       RmbEvents, Idle
  <2>2. RmbSubmittedOnce'
    BY <1>0, <1>5 DEF CancelRejected, GiveBack, RmbSubmittedOnce, RmbTold, RmbTyped, RMTypeOK, RmbWorking,
       RMJobs, RMSteps, RmbStatus, RmbEvents, Idle
  <2>3. RmbTold'
    <3>1. \A x \in RmbOrderIds : rmReversals[x] \subseteq rmReversals'[x]
      BY <1>0, <1>5 DEF CancelRejected, GiveBack, RmbTyped, RMTypeOK
    <3> QED
      BY <1>0, <1>5, <3>1 DEF CancelRejected, GiveBack, RmbTold, RmbTyped, RMTypeOK, RmbWorking, RMJobs,
         RMSteps, Idle
  <2>4. RmbRefundJustified'
    <3> DEFINE o == job[p].of
    <3>1. o \in RmbOrderIds /\ rmSogo[o] = "rejected" /\ rmSogo' = rmSogo
      BY <1>0, <1>5 DEF CancelRejected, RmbTold, RmbTyped, RmbWorking, RMJobs, RMTypeOK
    <3>2. rmReversals'[o] = rmReversals[o] \cup {"cancel"} /\ rmRefund'[o] = "cancel"
      BY <1>0, <1>5, <3>1 DEF CancelRejected, GiveBack, RmbTyped, RMTypeOK
    <3>3. \A x \in RmbOrderIds \ {o} :
            rmStatus'[x] = rmStatus[x] /\ rmReversals'[x] = rmReversals[x] /\ rmRefund'[x] = rmRefund[x]
      BY <1>0, <1>5 DEF CancelRejected, GiveBack, RmbTyped, RMTypeOK
    <3> QED BY <1>0, <3>1, <3>2, <3>3 DEF RmbRefundJustified
  <2> QED BY <2>1, <2>2, <2>3, <2>4
<1>6. ASSUME NEW p \in Procs, ReadRmbOrder(p)
      PROVE  (RmbTyped /\ RmbWorking)' /\ RmbSubmittedOnce' /\ RmbTold' /\ RmbRefundJustified'
  <2>1. (RmbTyped /\ RmbWorking)'
    BY <1>0, <1>6 DEF ReadRmbOrder, RmbTyped, RMTypeOK, RmbWorking, RMJobs, RMSteps, RmbStatus, RmbEvents, Idle
  <2>2. RmbSubmittedOnce'
    BY <1>0, <1>6 DEF ReadRmbOrder, RmbSubmittedOnce, RmbTold, RmbTyped, RMTypeOK, RmbWorking, RMJobs,
       RMSteps, RmbStatus, RmbEvents, Idle
  <2>3. RmbTold'
    BY <1>0, <1>6 DEF ReadRmbOrder, RmbSubmittedOnce, RmbTold, RmbRefundJustified, RmbTyped, RMTypeOK,
       RmbWorking, RMJobs, RMSteps, RmbStatus, RmbEvents, Idle
  <2>4. RmbRefundJustified'
    BY <1>0, <1>6 DEF ReadRmbOrder, RmbSubmittedOnce, RmbTold, RmbRefundJustified, RmbTyped, RMTypeOK,
       RmbWorking, RMJobs, RMSteps, RmbStatus, RmbEvents, Idle
  <2> QED BY <2>1, <2>2, <2>3, <2>4
<1>7. ASSUME NEW p \in Procs, WriteRmbRefund(p)
      PROVE  (RmbTyped /\ RmbWorking)' /\ RmbSubmittedOnce' /\ RmbTold' /\ RmbRefundJustified'
  <2>1. (RmbTyped /\ RmbWorking)'
    BY <1>0, <1>7 DEF WriteRmbRefund, GiveBack, RmbTyped, RMTypeOK, RmbWorking, RMJobs, RMSteps, RmbStatus,
       RmbEvents, Idle
  <2>2. RmbSubmittedOnce'
    BY <1>0, <1>7 DEF WriteRmbRefund, GiveBack, RmbSubmittedOnce, RmbTold, RmbTyped, RMTypeOK, RmbWorking,
       RMJobs, RMSteps, RmbStatus, RmbEvents, Idle
  <2>3. RmbTold'
    BY <1>0, <1>7 DEF WriteRmbRefund, GiveBack, RmbSubmittedOnce, RmbTold, RmbRefundJustified, RmbTyped,
       RMTypeOK, RmbWorking, RMJobs, RMSteps, RmbStatus, RmbEvents, Idle
  <2>4. RmbRefundJustified'
    BY <1>0, <1>7 DEF WriteRmbRefund, GiveBack, RmbSubmittedOnce, RmbTold, RmbRefundJustified, RmbTyped,
       RMTypeOK, RmbWorking, RMJobs, RMSteps, RmbStatus, RmbEvents, Idle
  <2> QED BY <2>1, <2>2, <2>3, <2>4
<1>8. ASSUME NEW p \in Procs, Crash(p), UNCHANGED rmVars
      PROVE  (RmbTyped /\ RmbWorking)' /\ RmbSubmittedOnce' /\ RmbTold' /\ RmbRefundJustified'
  <2>1. (RmbTyped /\ RmbWorking)'
    BY <1>0, <1>8 DEF Crash, RmbTyped, RMTypeOK, RmbWorking, RMJobs, RMSteps, RmbStatus, RmbEvents, Idle
  <2>2. RmbSubmittedOnce'
    BY <1>0, <1>8 DEF Crash, RmbSubmittedOnce, RmbTold, RmbTyped, RMTypeOK, RmbWorking, RMJobs, RMSteps,
       RmbStatus, RmbEvents, Idle
  <2>3. RmbTold'
    BY <1>0, <1>8 DEF Crash, RmbSubmittedOnce, RmbTold, RmbRefundJustified, RmbTyped, RMTypeOK, RmbWorking,
       RMJobs, RMSteps, RmbStatus, RmbEvents, Idle
  <2>4. RmbRefundJustified'
    BY <1>0, <1>8 DEF Crash, RmbSubmittedOnce, RmbTold, RmbRefundJustified, RmbTyped, RMTypeOK, RmbWorking,
       RMJobs, RMSteps, RmbStatus, RmbEvents, Idle
  <2> QED BY <2>1, <2>2, <2>3, <2>4
<1>9. ASSUME NEW o \in RmbOrderIds, SogoMoves(o)
      PROVE  (RmbTyped /\ RmbWorking)' /\ RmbSubmittedOnce' /\ RmbTold' /\ RmbRefundJustified'
  <2>1. (RmbTyped /\ RmbWorking)'
    BY <1>0, <1>9 DEF SogoMoves, handlers, RmbTyped, RMTypeOK, RmbWorking, RMJobs, RMSteps, RmbStatus,
       RmbEvents, Idle
  <2>2. RmbSubmittedOnce'
    BY <1>0, <1>9 DEF SogoMoves, handlers, RmbSubmittedOnce, RmbTold, RmbTyped, RMTypeOK, RmbWorking,
       RMJobs, RMSteps, RmbStatus, RmbEvents, Idle
  <2>3. RmbTold'
    BY <1>0, <1>9 DEF SogoMoves, handlers, RmbSubmittedOnce, RmbTold, RmbRefundJustified, RmbTyped,
       RMTypeOK, RmbWorking, RMJobs, RMSteps, RmbStatus, RmbEvents, Idle
  <2>4. RmbRefundJustified'
    BY <1>0, <1>9 DEF SogoMoves, handlers, RmbSubmittedOnce, RmbTold, RmbRefundJustified, RmbTyped,
       RMTypeOK, RmbWorking, RMJobs, RMSteps, RmbStatus, RmbEvents, Idle
  <2> QED BY <2>1, <2>2, <2>3, <2>4
<1>10. ASSUME NEW o \in RmbOrderIds, RmbCompleted(o)
      PROVE  (RmbTyped /\ RmbWorking)' /\ RmbSubmittedOnce' /\ RmbTold' /\ RmbRefundJustified'
  <2>1. (RmbTyped /\ RmbWorking)'
    BY <1>0, <1>10 DEF RmbCompleted, handlers, RmbTyped, RMTypeOK, RmbWorking, RMJobs, RMSteps, RmbStatus,
       RmbEvents, Idle
  <2>2. RmbSubmittedOnce'
    BY <1>0, <1>10 DEF RmbCompleted, handlers, RmbSubmittedOnce, RmbTold, RmbTyped, RMTypeOK, RmbWorking,
       RMJobs, RMSteps, RmbStatus, RmbEvents, Idle
  <2>3. RmbTold'
    BY <1>0, <1>10 DEF RmbCompleted, handlers, RmbSubmittedOnce, RmbTold, RmbRefundJustified, RmbTyped,
       RMTypeOK, RmbWorking, RMJobs, RMSteps, RmbStatus, RmbEvents, Idle
  <2>4. RmbRefundJustified'
    BY <1>0, <1>10 DEF RmbCompleted, handlers, RmbSubmittedOnce, RmbTold, RmbRefundJustified, RmbTyped,
       RMTypeOK, RmbWorking, RMJobs, RMSteps, RmbStatus, RmbEvents, Idle
  <2> QED BY <2>1, <2>2, <2>3, <2>4
<1> QED
  BY <1>1, <1>2, <1>3, <1>4, <1>5, <1>6, <1>7, <1>8, <1>9, <1>10 DEF RMNext

LEMMA RmbInductive == RmbInv /\ [RMNext]_<<rmVars, handlers>> => RmbInv'
<1>1. CASE UNCHANGED <<rmVars, handlers>>
  BY <1>1 DEF rmVars, handlers, RmbInv, RmbTyped, RMTypeOK, RmbWorking, RmbSubmittedOnce, RmbTold,
              RmbRefundJustified
<1> QED BY <1>1, RmbStep

\* The inductive invariant behind RmbRefundJustified holds in every behaviour.
THEOREM RmbInvariant == RMSpec => []RmbInv
BY RmbStarts, RmbInductive, PTL DEF RMSpec

\* Sogo's webhooks: a price is given back only if Sogo rejected, cancelled or
\* refunded the order, and no order says so without it.
THEOREM RmbRefundsJustified == RMSpec => []RmbRefundJustified
<1>1. RmbInv => RmbRefundJustified
  BY DEF RmbInv
<1> QED BY <1>1, RmbInvariant, PTL
-----------------------------------------------------------------------------
(* Guest checkout.                                                         *)

GuestTyped ==
    /\ pc \in [Procs -> GTSteps \cup {"idle"}]
    /\ job \in [Procs -> GTJobs \cup {Idle}]
    /\ GTTypeOK

GuestWorking ==
    \A p \in Procs : pc[p] # "idle" =>
        /\ job[p] \in GTJobs
        /\ pc[p] = "attach" <=> job[p].op = "initiate"
        /\ job[p].op # "retry" => PaymentOf(p) \in Payments /\ gtOwner[PaymentOf(p)] = GuestOf(p)
        /\ job[p].op = "retry" => pc[p] \notin {"verify", "apply", "mark"}
        /\ pc[p] = "outcome" => job[p].got \in {"DELIVERED", "FAILED"}

\* A payment is new until its reference is stored, by the one handler that began it.
PaymentsOwned ==
    /\ \A m \in Payments : gtOwner[m] = None => gtGateway[m] = "NONE"
    /\ \A t \in Guests : gtReference[t] # None =>
        gtOwner[gtReference[t]] = t /\ gtGateway[gtReference[t]] # "NONE"
    /\ \A p \in Procs : pc[p] # "idle" /\ job[p].op = "webhook" => gtGateway[PaymentOf(p)] # "NONE"
    /\ \A p \in Procs : pc[p] = "attach" =>
        /\ gtGateway[PaymentOf(p)] = "NONE"
        /\ \A q \in Procs : pc[q] = "attach" /\ PaymentOf(q) = PaymentOf(p) => q = p

GuestPaid(t) == \E m \in Payments : gtOwner[m] = t /\ gtGateway[m] = "COMPLETED"

\* What a handler has read was so, and a completed payment stays completed.
PaymentsVerified ==
    \A p \in Procs :
        /\ pc[p] = "apply" /\ job[p].got = "COMPLETED" => gtGateway[PaymentOf(p)] = "COMPLETED"
        /\ pc[p] \in {"look", "begin", "purchase"} => GuestPaid(GuestOf(p))

GuestInv == GuestTyped /\ GuestWorking /\ PaymentsOwned /\ PaymentsVerified /\ GuestServedIsPaid

LEMMA GuestStarts == GTInit /\ HandlersInit => GuestInv
BY DEF GTInit, HandlersInit, GuestInv, GuestTyped, GTTypeOK, GuestWorking, PaymentsOwned, 
       PaymentsVerified, GuestServedIsPaid, Idle

\* A job names a transaction, and a payment unless it is a retry.
LEMMA GuestJobs ==
    \A j \in GTJobs : j # Idle /\ j.of[1] \in Guests /\ j.of[2] \in Payments \cup {None}
BY DEF GTJobs, Idle

\* A guest who has paid stays one, as no step takes a payment's completion back.
LEMMA PaidGuestsStay ==
    ASSUME GuestInv, GTNext
    PROVE  \A m \in Payments : gtGateway[m] = "COMPLETED" =>
                gtGateway'[m] = "COMPLETED" /\ gtOwner'[m] = gtOwner[m]
<1> USE DEF Start, Goto, Learn, Return, Finish, gtVars, gtOutside, handlers
<1>1. ASSUME NEW p \in Procs, AttachPayment(p)
      PROVE  \A m \in Payments : gtGateway[m] = "COMPLETED" =>
                gtGateway'[m] = "COMPLETED" /\ gtOwner'[m] = gtOwner[m]
  BY <1>1, GuestJobs, GuestAssumption DEF AttachPayment, GuestInv, GuestTyped, GTTypeOK, GuestWorking,
     PaymentsOwned, PaymentOf
<1>2. ASSUME NEW p \in Procs, VerifyPayment(p)
      PROVE  \A m \in Payments : gtGateway[m] = "COMPLETED" =>
                gtGateway'[m] = "COMPLETED" /\ gtOwner'[m] = gtOwner[m]
  BY <1>2, GuestJobs, GuestAssumption DEF VerifyPayment, GuestInv, GuestTyped, GTTypeOK, GuestWorking,
     PaymentsOwned, PaymentOf
<1>3. ASSUME NEW p \in Procs, ApplyPayment(p)
      PROVE  \A m \in Payments : gtGateway[m] = "COMPLETED" =>
                gtGateway'[m] = "COMPLETED" /\ gtOwner'[m] = gtOwner[m]
  BY <1>3, GuestJobs, GuestAssumption DEF ApplyPayment, GuestInv, GuestTyped, GTTypeOK, GuestWorking,
     PaymentsOwned, PaymentOf
<1>4. ASSUME NEW p \in Procs, MarkProcessed(p)
      PROVE  \A m \in Payments : gtGateway[m] = "COMPLETED" =>
                gtGateway'[m] = "COMPLETED" /\ gtOwner'[m] = gtOwner[m]
  BY <1>4, GuestJobs, GuestAssumption DEF MarkProcessed, GuestInv, GuestTyped, GTTypeOK, GuestWorking,
     PaymentsOwned, PaymentOf
<1>5. ASSUME NEW p \in Procs, LookAtFulfilment(p)
      PROVE  \A m \in Payments : gtGateway[m] = "COMPLETED" =>
                gtGateway'[m] = "COMPLETED" /\ gtOwner'[m] = gtOwner[m]
  BY <1>5, GuestJobs, GuestAssumption DEF LookAtFulfilment, Leave, GuestInv, GuestTyped, GTTypeOK,
     GuestWorking, PaymentsOwned, PaymentOf
<1>6. ASSUME NEW p \in Procs, BeginFulfilment(p)
      PROVE  \A m \in Payments : gtGateway[m] = "COMPLETED" =>
                gtGateway'[m] = "COMPLETED" /\ gtOwner'[m] = gtOwner[m]
  BY <1>6, GuestJobs, GuestAssumption DEF BeginFulfilment, SetFulfilment, GuestInv, GuestTyped, GTTypeOK,
     GuestWorking, PaymentsOwned, PaymentOf
<1>7. ASSUME NEW p \in Procs, PurchaseForGuest(p)
      PROVE  \A m \in Payments : gtGateway[m] = "COMPLETED" =>
                gtGateway'[m] = "COMPLETED" /\ gtOwner'[m] = gtOwner[m]
  BY <1>7, GuestJobs, GuestAssumption DEF PurchaseForGuest, GuestInv, GuestTyped, GTTypeOK, GuestWorking,
     PaymentsOwned, PaymentOf
<1>8. ASSUME NEW p \in Procs, RecordFulfilment(p)
      PROVE  \A m \in Payments : gtGateway[m] = "COMPLETED" =>
                gtGateway'[m] = "COMPLETED" /\ gtOwner'[m] = gtOwner[m]
  BY <1>8, GuestJobs, GuestAssumption DEF RecordFulfilment, Leave, SetFulfilment, GuestInv, GuestTyped,
     GTTypeOK, GuestWorking, PaymentsOwned, PaymentOf
<1>9. ASSUME NEW p \in Procs, NEW t \in Guests, NEW n \in Payments, InitiatePayment(p, t, n)
      PROVE  \A m \in Payments : gtGateway[m] = "COMPLETED" =>
                gtGateway'[m] = "COMPLETED" /\ gtOwner'[m] = gtOwner[m]
  BY <1>9, GuestJobs, GuestAssumption DEF InitiatePayment, GuestInv, GuestTyped, GTTypeOK, GuestWorking,
     PaymentsOwned, PaymentOf
<1>10. ASSUME NEW p \in Procs, NEW t \in Guests, NEW n \in Payments, BeginWebhook(p, t, n)
      PROVE  \A m \in Payments : gtGateway[m] = "COMPLETED" =>
                gtGateway'[m] = "COMPLETED" /\ gtOwner'[m] = gtOwner[m]
  BY <1>10, GuestJobs, GuestAssumption DEF BeginWebhook, GuestInv, GuestTyped, GTTypeOK, GuestWorking,
     PaymentsOwned, PaymentOf
<1>11. ASSUME NEW p \in Procs, NEW t \in Guests, RetryFulfilment(p, t)
      PROVE  \A m \in Payments : gtGateway[m] = "COMPLETED" =>
                gtGateway'[m] = "COMPLETED" /\ gtOwner'[m] = gtOwner[m]
  BY <1>11, GuestJobs, GuestAssumption DEF RetryFulfilment, GuestInv, GuestTyped, GTTypeOK, GuestWorking,
     PaymentsOwned, PaymentOf
<1>12. ASSUME NEW p \in Procs, Crash(p), UNCHANGED gtVars
      PROVE  \A m \in Payments : gtGateway[m] = "COMPLETED" =>
                gtGateway'[m] = "COMPLETED" /\ gtOwner'[m] = gtOwner[m]
  BY <1>12, GuestJobs, GuestAssumption DEF Crash, GuestInv, GuestTyped, GTTypeOK, GuestWorking,
     PaymentsOwned, PaymentOf
<1>13. ASSUME NEW n \in Payments, GuestPays(n)
      PROVE  \A m \in Payments : gtGateway[m] = "COMPLETED" =>
                gtGateway'[m] = "COMPLETED" /\ gtOwner'[m] = gtOwner[m]
  BY <1>13, GuestJobs, GuestAssumption DEF GuestPays, GuestInv, GuestTyped, GTTypeOK, GuestWorking,
     PaymentsOwned, PaymentOf
<1> QED
  BY <1>1, <1>2, <1>3, <1>4, <1>5, <1>6, <1>7, <1>8, <1>9, <1>10, <1>11, <1>12, <1>13 DEF GTNext, GTStep

LEMMA GuestStep ==
    ASSUME GuestInv, GTNext
    PROVE  GuestInv'
<1> USE DEF Start, Goto, Learn, Return, Finish, At, gtVars, gtOutside, handlers
<1>0. GuestTyped /\ GuestWorking /\ PaymentsOwned /\ PaymentsVerified /\ GuestServedIsPaid
  BY DEF GuestInv
<1>paid. \A t \in Guests : GuestPaid(t) => GuestPaid(t)'
  BY PaidGuestsStay DEF GuestPaid
<1> SUFFICES (GuestTyped /\ GuestWorking)' /\ PaymentsOwned' /\ PaymentsVerified' /\ GuestServedIsPaid'
  BY DEF GuestInv
<1>1. ASSUME NEW p \in Procs, AttachPayment(p)
      PROVE  (GuestTyped /\ GuestWorking)' /\ PaymentsOwned' /\ PaymentsVerified' /\ GuestServedIsPaid'
  <2>1. (GuestTyped /\ GuestWorking)'
    BY <1>0, <1>1, GuestJobs, GuestAssumption DEF AttachPayment, GuestTyped, GuestWorking, PaymentsOwned,
       GTTypeOK, GTJobs, GTSteps, GuestOf, PaymentOf, Idle
  <2>2. PaymentsOwned'
    BY <1>0, <1>1, GuestJobs, GuestAssumption DEF AttachPayment, GuestTyped, GuestWorking, PaymentsOwned,
       GTTypeOK, GuestOf, PaymentOf, Idle
  <2>3. PaymentsVerified'
    BY <1>0, <1>1, <1>paid, GuestJobs, GuestAssumption DEF AttachPayment, GuestTyped, GuestWorking,
       PaymentsOwned, PaymentsVerified, GuestServedIsPaid, GuestPaid, GTTypeOK, GuestOf, PaymentOf, Idle
  <2>4. GuestServedIsPaid'
    BY <1>0, <1>1, <1>paid, GuestJobs, GuestAssumption DEF AttachPayment, GuestTyped, GuestWorking,
       PaymentsOwned, PaymentsVerified, GuestServedIsPaid, GuestPaid, GTTypeOK, GuestOf, PaymentOf
  <2> QED BY <2>1, <2>2, <2>3, <2>4
<1>2. ASSUME NEW p \in Procs, VerifyPayment(p)
      PROVE  (GuestTyped /\ GuestWorking)' /\ PaymentsOwned' /\ PaymentsVerified' /\ GuestServedIsPaid'
  <2>1. (GuestTyped /\ GuestWorking)'
    BY <1>0, <1>2, GuestJobs, GuestAssumption DEF VerifyPayment, GuestTyped, GuestWorking, PaymentsOwned,
       GTTypeOK, GTJobs, GTSteps, GuestOf, PaymentOf, Idle
  <2>2. PaymentsOwned'
    BY <1>0, <1>2, GuestJobs, GuestAssumption DEF VerifyPayment, GuestTyped, GuestWorking, PaymentsOwned,
       GTTypeOK, GuestOf, PaymentOf, Idle
  <2>3. PaymentsVerified'
    BY <1>0, <1>2, <1>paid, GuestJobs, GuestAssumption DEF VerifyPayment, GuestTyped, GuestWorking,
       PaymentsOwned, PaymentsVerified, GuestServedIsPaid, GuestPaid, GTTypeOK, GuestOf, PaymentOf, Idle
  <2>4. GuestServedIsPaid'
    BY <1>0, <1>2, <1>paid, GuestJobs, GuestAssumption DEF VerifyPayment, GuestTyped, GuestWorking,
       PaymentsOwned, PaymentsVerified, GuestServedIsPaid, GuestPaid, GTTypeOK, GuestOf, PaymentOf
  <2> QED BY <2>1, <2>2, <2>3, <2>4
<1>3. ASSUME NEW p \in Procs, ApplyPayment(p)
      PROVE  (GuestTyped /\ GuestWorking)' /\ PaymentsOwned' /\ PaymentsVerified' /\ GuestServedIsPaid'
  <2>1. (GuestTyped /\ GuestWorking)'
    BY <1>0, <1>3, GuestJobs, GuestAssumption DEF ApplyPayment, GuestTyped, GuestWorking, PaymentsOwned,
       GTTypeOK, GTJobs, GTSteps, GuestOf, PaymentOf, Idle
  <2>2. PaymentsOwned'
    BY <1>0, <1>3, GuestJobs, GuestAssumption DEF ApplyPayment, GuestTyped, GuestWorking, PaymentsOwned,
       GTTypeOK, GuestOf, PaymentOf, Idle
  <2>3. PaymentsVerified'
    BY <1>0, <1>3, <1>paid, GuestJobs, GuestAssumption DEF ApplyPayment, GuestTyped, GuestWorking,
       PaymentsOwned, PaymentsVerified, GuestServedIsPaid, GuestPaid, GTTypeOK, GuestOf, PaymentOf, Idle
  <2>4. GuestServedIsPaid'
    BY <1>0, <1>3, <1>paid, GuestJobs, GuestAssumption DEF ApplyPayment, GuestTyped, GuestWorking,
       PaymentsOwned, PaymentsVerified, GuestServedIsPaid, GuestPaid, GTTypeOK, GuestOf, PaymentOf
  <2> QED BY <2>1, <2>2, <2>3, <2>4
<1>4. ASSUME NEW p \in Procs, MarkProcessed(p)
      PROVE  (GuestTyped /\ GuestWorking)' /\ PaymentsOwned' /\ PaymentsVerified' /\ GuestServedIsPaid'
  <2>1. (GuestTyped /\ GuestWorking)'
    BY <1>0, <1>4, GuestJobs, GuestAssumption DEF MarkProcessed, GuestTyped, GuestWorking, PaymentsOwned,
       GTTypeOK, GTJobs, GTSteps, GuestOf, PaymentOf, Idle
  <2>2. PaymentsOwned'
    BY <1>0, <1>4, GuestJobs, GuestAssumption DEF MarkProcessed, GuestTyped, GuestWorking, PaymentsOwned,
       GTTypeOK, GuestOf, PaymentOf, Idle
  <2>3. PaymentsVerified'
    BY <1>0, <1>4, <1>paid, GuestJobs, GuestAssumption DEF MarkProcessed, GuestTyped, GuestWorking,
       PaymentsOwned, PaymentsVerified, GuestServedIsPaid, GuestPaid, GTTypeOK, GuestOf, PaymentOf, Idle
  <2>4. GuestServedIsPaid'
    BY <1>0, <1>4, <1>paid, GuestJobs, GuestAssumption DEF MarkProcessed, GuestTyped, GuestWorking,
       PaymentsOwned, PaymentsVerified, GuestServedIsPaid, GuestPaid, GTTypeOK, GuestOf, PaymentOf
  <2> QED BY <2>1, <2>2, <2>3, <2>4
<1>5. ASSUME NEW p \in Procs, LookAtFulfilment(p)
      PROVE  (GuestTyped /\ GuestWorking)' /\ PaymentsOwned' /\ PaymentsVerified' /\ GuestServedIsPaid'
  <2>1. (GuestTyped /\ GuestWorking)'
    <3>1. GTTypeOK' /\ gtOwner' = gtOwner
      BY <1>0, <1>5 DEF LookAtFulfilment, GuestTyped, GTTypeOK
    <3>2. job[p].op \in {"webhook", "retry"}
      BY <1>0, <1>5 DEF LookAtFulfilment, GuestWorking, GTJobs
    <3>3. CASE Goto(p, "begin")
      BY <1>0, <1>5, <3>1, <3>2, <3>3 DEF LookAtFulfilment, GuestTyped, GuestWorking, GTSteps, GuestOf,
         PaymentOf
    <3>4. CASE Return(p)
      BY <1>0, <1>5, <3>1, <3>4 DEF LookAtFulfilment, GuestTyped, GuestWorking, GuestOf, PaymentOf
    <3>5. CASE job[p].op = "webhook" /\ Goto(p, "mark")
      BY <1>0, <1>5, <3>1, <3>5 DEF LookAtFulfilment, GuestTyped, GuestWorking, GTSteps, GuestOf, PaymentOf
    <3> QED BY <1>5, <3>3, <3>4, <3>5 DEF LookAtFulfilment, Leave
  <2>2. PaymentsOwned'
    BY <1>0, <1>5, GuestJobs, GuestAssumption DEF LookAtFulfilment, Leave, GuestTyped, GuestWorking,
       PaymentsOwned, GTTypeOK, GuestOf, PaymentOf, Idle
  <2>3. PaymentsVerified'
    BY <1>0, <1>5, <1>paid, GuestJobs, GuestAssumption DEF LookAtFulfilment, Leave, GuestTyped,
       GuestWorking, PaymentsOwned, PaymentsVerified, GuestServedIsPaid, GuestPaid, GTTypeOK, GuestOf,
       PaymentOf, Idle
  <2>4. GuestServedIsPaid'
    BY <1>0, <1>5, <1>paid, GuestJobs, GuestAssumption DEF LookAtFulfilment, Leave, GuestTyped,
       GuestWorking, PaymentsOwned, PaymentsVerified, GuestServedIsPaid, GuestPaid, GTTypeOK, GuestOf,
       PaymentOf
  <2> QED BY <2>1, <2>2, <2>3, <2>4
<1>6. ASSUME NEW p \in Procs, BeginFulfilment(p)
      PROVE  (GuestTyped /\ GuestWorking)' /\ PaymentsOwned' /\ PaymentsVerified' /\ GuestServedIsPaid'
  <2>1. (GuestTyped /\ GuestWorking)'
    BY <1>0, <1>6, GuestJobs, GuestAssumption DEF BeginFulfilment, SetFulfilment, GuestTyped, GuestWorking,
       PaymentsOwned, GTTypeOK, GTJobs, GTSteps, GuestOf, PaymentOf, Idle
  <2>2. PaymentsOwned'
    BY <1>0, <1>6, GuestJobs, GuestAssumption DEF BeginFulfilment, SetFulfilment, GuestTyped, GuestWorking,
       PaymentsOwned, GTTypeOK, GuestOf, PaymentOf, Idle
  <2>3. PaymentsVerified'
    BY <1>0, <1>6, <1>paid, GuestJobs, GuestAssumption DEF BeginFulfilment, SetFulfilment, GuestTyped,
       GuestWorking, PaymentsOwned, PaymentsVerified, GuestServedIsPaid, GuestPaid, GTTypeOK, GuestOf,
       PaymentOf, Idle
  <2>4. GuestServedIsPaid'
    BY <1>0, <1>6, <1>paid, GuestJobs, GuestAssumption DEF BeginFulfilment, SetFulfilment, GuestTyped,
       GuestWorking, PaymentsOwned, PaymentsVerified, GuestServedIsPaid, GuestPaid, GTTypeOK, GuestOf,
       PaymentOf
  <2> QED BY <2>1, <2>2, <2>3, <2>4
<1>7. ASSUME NEW p \in Procs, PurchaseForGuest(p)
      PROVE  (GuestTyped /\ GuestWorking)' /\ PaymentsOwned' /\ PaymentsVerified' /\ GuestServedIsPaid'
  <2>1. (GuestTyped /\ GuestWorking)'
    <3>1. GTTypeOK' /\ job[p] \in GTJobs
      BY <1>0, <1>7 DEF PurchaseForGuest, GuestTyped, GuestWorking, GTTypeOK, GuestOf, GTJobs
    <3>2. job' \in [Procs -> GTJobs \cup {Idle}]
      BY <1>0, <1>7, <3>1 DEF PurchaseForGuest, GuestTyped, GTJobs
    <3>3. pc' = [pc EXCEPT ![p] = "outcome"] /\ gtOwner' = gtOwner
      BY <1>7 DEF PurchaseForGuest
    <3>4. PICK a \in {"DELIVERED", "FAILED"} : job' = [job EXCEPT ![p].got = a]
      BY <1>7 DEF PurchaseForGuest
    <3>5. \A q \in Procs : job'[q].op = job[q].op /\ job'[q].of = job[q].of
      BY <1>0, <3>1, <3>4 DEF GuestTyped, GTJobs, Idle
    <3>6. job'[p].got = a
      BY <1>0, <3>1, <3>4 DEF GuestTyped, GTJobs
    <3>7. GuestTyped'
      BY <1>0, <3>1, <3>2, <3>3 DEF GuestTyped, GTSteps
    <3>8. \A q \in Procs : job'[q].got # job[q].got => q = p
      BY <1>0, <3>4 DEF GuestTyped
    <3>9. \A q \in Procs : pc'[q] # "idle" => job'[q] \in GTJobs /\ pc[q] # "idle"
      BY <1>0, <1>7, <3>1, <3>3, <3>4 DEF PurchaseForGuest, GuestTyped, GuestWorking, GTJobs
    <3> QED BY <1>0, <1>7, <3>3, <3>5, <3>6, <3>7, <3>8, <3>9 DEF PurchaseForGuest, GuestTyped,
       GuestWorking, GuestOf, PaymentOf
  <2>2. PaymentsOwned'
    <3>1. pc' = [pc EXCEPT ![p] = "outcome"] /\ UNCHANGED <<gtOwner, gtGateway, gtReference>>
      BY <1>7 DEF PurchaseForGuest
    <3>2. PICK a \in {"DELIVERED", "FAILED"} : job' = [job EXCEPT ![p].got = a]
      BY <1>7 DEF PurchaseForGuest
    <3>3. \A q \in Procs : job'[q].op = job[q].op /\ job'[q].of = job[q].of
      BY <1>0, <1>7, <3>2 DEF PurchaseForGuest, GuestTyped, GuestWorking, GTJobs
    <3> QED BY <1>0, <1>7, <3>1, <3>3 DEF PurchaseForGuest, GuestTyped, PaymentsOwned, PaymentOf
  <2>3. PaymentsVerified'
    BY <1>0, <1>7, <1>paid, GuestJobs, GuestAssumption DEF PurchaseForGuest, GuestTyped, GuestWorking,
       PaymentsOwned, PaymentsVerified, GuestServedIsPaid, GuestPaid, GTTypeOK, GuestOf, PaymentOf, Idle
  <2>4. GuestServedIsPaid'
    BY <1>0, <1>7, <1>paid, GuestJobs, GuestAssumption DEF PurchaseForGuest, GuestTyped, GuestWorking,
       PaymentsOwned, PaymentsVerified, GuestServedIsPaid, GuestPaid, GTTypeOK, GuestOf, PaymentOf
  <2> QED BY <2>1, <2>2, <2>3, <2>4
<1>8. ASSUME NEW p \in Procs, RecordFulfilment(p)
      PROVE  (GuestTyped /\ GuestWorking)' /\ PaymentsOwned' /\ PaymentsVerified' /\ GuestServedIsPaid'
  <2>1. (GuestTyped /\ GuestWorking)'
    <3>1. GuestOf(p) \in Guests /\ job[p].got \in {"DELIVERED", "FAILED"} /\ job[p] \in GTJobs
      BY <1>0, <1>8, GuestJobs DEF RecordFulfilment, GuestWorking, GuestOf
    <3>2. GTTypeOK'
      BY <1>0, <1>8, <3>1 DEF RecordFulfilment, SetFulfilment, Leave, GuestTyped, GTTypeOK
    <3>3. CASE job[p].op = "webhook"
      BY <1>0, <1>8, <3>2, <3>3 DEF RecordFulfilment, SetFulfilment, Leave, GuestTyped, GuestWorking,
         GTSteps, GuestOf, PaymentOf
    <3>4. CASE job[p].op # "webhook"
      BY <1>0, <1>8, <3>2, <3>4 DEF RecordFulfilment, SetFulfilment, Leave, GuestTyped, GuestWorking,
         GTSteps, GuestOf, PaymentOf
    <3> QED BY <3>3, <3>4
  <2>2. PaymentsOwned'
    BY <1>0, <1>8, GuestJobs, GuestAssumption DEF RecordFulfilment, Leave, SetFulfilment, GuestTyped,
       GuestWorking, PaymentsOwned, GTTypeOK, GuestOf, PaymentOf, Idle
  <2>3. PaymentsVerified'
    BY <1>0, <1>8, <1>paid, GuestJobs, GuestAssumption DEF RecordFulfilment, Leave, SetFulfilment,
       GuestTyped, GuestWorking, PaymentsOwned, PaymentsVerified, GuestServedIsPaid, GuestPaid, GTTypeOK,
       GuestOf, PaymentOf, Idle
  <2>4. GuestServedIsPaid'
    BY <1>0, <1>8, <1>paid, GuestJobs, GuestAssumption DEF RecordFulfilment, Leave, SetFulfilment,
       GuestTyped, GuestWorking, PaymentsOwned, PaymentsVerified, GuestServedIsPaid, GuestPaid, GTTypeOK,
       GuestOf, PaymentOf
  <2> QED BY <2>1, <2>2, <2>3, <2>4
<1>9. ASSUME NEW p \in Procs, NEW t \in Guests, NEW m \in Payments, InitiatePayment(p, t, m)
      PROVE  (GuestTyped /\ GuestWorking)' /\ PaymentsOwned' /\ PaymentsVerified' /\ GuestServedIsPaid'
  <2>1. (GuestTyped /\ GuestWorking)'
    BY <1>0, <1>9, GuestJobs, GuestAssumption DEF InitiatePayment, GuestTyped, GuestWorking, PaymentsOwned,
       GTTypeOK, GTJobs, GTSteps, GuestOf, PaymentOf, Idle
  <2>2. PaymentsOwned'
    BY <1>0, <1>9, GuestJobs, GuestAssumption DEF InitiatePayment, GuestTyped, GuestWorking, PaymentsOwned,
       GTTypeOK, GuestOf, PaymentOf, Idle
  <2>3. PaymentsVerified'
    BY <1>0, <1>9, <1>paid, GuestJobs, GuestAssumption DEF InitiatePayment, GuestTyped, GuestWorking,
       PaymentsOwned, PaymentsVerified, GuestServedIsPaid, GuestPaid, GTTypeOK, GuestOf, PaymentOf, Idle
  <2>4. GuestServedIsPaid'
    BY <1>0, <1>9, <1>paid, GuestJobs, GuestAssumption DEF InitiatePayment, GuestTyped, GuestWorking,
       PaymentsOwned, PaymentsVerified, GuestServedIsPaid, GuestPaid, GTTypeOK, GuestOf, PaymentOf
  <2> QED BY <2>1, <2>2, <2>3, <2>4
<1>10. ASSUME NEW p \in Procs, NEW t \in Guests, NEW m \in Payments, BeginWebhook(p, t, m)
      PROVE  (GuestTyped /\ GuestWorking)' /\ PaymentsOwned' /\ PaymentsVerified' /\ GuestServedIsPaid'
  <2>1. (GuestTyped /\ GuestWorking)'
    BY <1>0, <1>10, GuestJobs, GuestAssumption DEF BeginWebhook, GuestTyped, GuestWorking, PaymentsOwned,
       GTTypeOK, GTJobs, GTSteps, GuestOf, PaymentOf, Idle
  <2>2. PaymentsOwned'
    BY <1>0, <1>10, GuestJobs, GuestAssumption DEF BeginWebhook, GuestTyped, GuestWorking, PaymentsOwned,
       GTTypeOK, GuestOf, PaymentOf, Idle
  <2>3. PaymentsVerified'
    BY <1>0, <1>10, <1>paid, GuestJobs, GuestAssumption DEF BeginWebhook, GuestTyped, GuestWorking,
       PaymentsOwned, PaymentsVerified, GuestServedIsPaid, GuestPaid, GTTypeOK, GuestOf, PaymentOf, Idle
  <2>4. GuestServedIsPaid'
    BY <1>0, <1>10, <1>paid, GuestJobs, GuestAssumption DEF BeginWebhook, GuestTyped, GuestWorking,
       PaymentsOwned, PaymentsVerified, GuestServedIsPaid, GuestPaid, GTTypeOK, GuestOf, PaymentOf
  <2> QED BY <2>1, <2>2, <2>3, <2>4
<1>11. ASSUME NEW p \in Procs, NEW t \in Guests, RetryFulfilment(p, t)
      PROVE  (GuestTyped /\ GuestWorking)' /\ PaymentsOwned' /\ PaymentsVerified' /\ GuestServedIsPaid'
  <2>1. (GuestTyped /\ GuestWorking)'
    BY <1>0, <1>11, GuestJobs, GuestAssumption DEF RetryFulfilment, GuestTyped, GuestWorking, PaymentsOwned,
       GTTypeOK, GTJobs, GTSteps, GuestOf, PaymentOf, Idle
  <2>2. PaymentsOwned'
    BY <1>0, <1>11, GuestJobs, GuestAssumption DEF RetryFulfilment, GuestTyped, GuestWorking, PaymentsOwned,
       GTTypeOK, GuestOf, PaymentOf, Idle
  <2>3. PaymentsVerified'
    BY <1>0, <1>11, <1>paid, GuestJobs, GuestAssumption DEF RetryFulfilment, GuestTyped, GuestWorking,
       PaymentsOwned, PaymentsVerified, GuestServedIsPaid, GuestPaid, GTTypeOK, GuestOf, PaymentOf, Idle
  <2>4. GuestServedIsPaid'
    BY <1>0, <1>11, <1>paid, GuestJobs, GuestAssumption DEF RetryFulfilment, GuestTyped, GuestWorking,
       PaymentsOwned, PaymentsVerified, GuestServedIsPaid, GuestPaid, GTTypeOK, GuestOf, PaymentOf
  <2> QED BY <2>1, <2>2, <2>3, <2>4
<1>12. ASSUME NEW p \in Procs, Crash(p), UNCHANGED gtVars
      PROVE  (GuestTyped /\ GuestWorking)' /\ PaymentsOwned' /\ PaymentsVerified' /\ GuestServedIsPaid'
  <2>1. (GuestTyped /\ GuestWorking)'
    BY <1>0, <1>12, GuestJobs, GuestAssumption DEF Crash, GuestTyped, GuestWorking, PaymentsOwned, GTTypeOK,
       GTJobs, GTSteps, GuestOf, PaymentOf, Idle
  <2>2. PaymentsOwned'
    BY <1>0, <1>12, GuestJobs, GuestAssumption DEF Crash, GuestTyped, GuestWorking, PaymentsOwned, GTTypeOK,
       GuestOf, PaymentOf, Idle
  <2>3. PaymentsVerified'
    BY <1>0, <1>12, <1>paid, GuestJobs, GuestAssumption DEF Crash, GuestTyped, GuestWorking, PaymentsOwned,
       PaymentsVerified, GuestServedIsPaid, GuestPaid, GTTypeOK, GuestOf, PaymentOf, Idle
  <2>4. GuestServedIsPaid'
    BY <1>0, <1>12, <1>paid, GuestJobs, GuestAssumption DEF Crash, GuestTyped, GuestWorking, PaymentsOwned,
       PaymentsVerified, GuestServedIsPaid, GuestPaid, GTTypeOK, GuestOf, PaymentOf
  <2> QED BY <2>1, <2>2, <2>3, <2>4
<1>13. ASSUME NEW m \in Payments, GuestPays(m)
      PROVE  (GuestTyped /\ GuestWorking)' /\ PaymentsOwned' /\ PaymentsVerified' /\ GuestServedIsPaid'
  <2>1. (GuestTyped /\ GuestWorking)'
    BY <1>0, <1>13, GuestJobs, GuestAssumption DEF GuestPays, GuestTyped, GuestWorking, PaymentsOwned,
       GTTypeOK, GTJobs, GTSteps, GuestOf, PaymentOf, Idle
  <2>2. PaymentsOwned'
    BY <1>0, <1>13, GuestJobs, GuestAssumption DEF GuestPays, GuestTyped, GuestWorking, PaymentsOwned,
       GTTypeOK, GuestOf, PaymentOf, Idle
  <2>3. PaymentsVerified'
    BY <1>0, <1>13, <1>paid, GuestJobs, GuestAssumption DEF GuestPays, GuestTyped, GuestWorking,
       PaymentsOwned, PaymentsVerified, GuestServedIsPaid, GuestPaid, GTTypeOK, GuestOf, PaymentOf, Idle
  <2>4. GuestServedIsPaid'
    BY <1>0, <1>13, <1>paid, GuestJobs, GuestAssumption DEF GuestPays, GuestTyped, GuestWorking,
       PaymentsOwned, PaymentsVerified, GuestServedIsPaid, GuestPaid, GTTypeOK, GuestOf, PaymentOf
  <2> QED BY <2>1, <2>2, <2>3, <2>4
<1> QED
  BY <1>1, <1>2, <1>3, <1>4, <1>5, <1>6, <1>7, <1>8, <1>9, <1>10, <1>11, <1>12, <1>13 DEF GTNext, GTStep

LEMMA GuestInductive == GuestInv /\ [GTNext]_<<gtVars, handlers>> => GuestInv'
<1>1. CASE UNCHANGED <<gtVars, handlers>>
  BY <1>1 DEF gtVars, handlers, GuestInv, GuestTyped, GTTypeOK, GuestWorking, PaymentsOwned,
     PaymentsVerified, GuestPaid, GuestServedIsPaid, GuestOf, PaymentOf
<1> QED BY <1>1, GuestStep

\* The inductive invariant behind GuestServedIsPaid holds in every behaviour.
THEOREM GuestInvariant == GTSpec => []GuestInv
BY GuestStarts, GuestInductive, PTL DEF GTSpec

\* handleKorapayWebhook asks the gateway before it believes an event: nobody is
\* served whose payment the gateway has not confirmed.
THEOREM GuestsServedArePaid == GTSpec => []GuestServedIsPaid
<1>1. GuestInv => GuestServedIsPaid
  BY DEF GuestInv
<1> QED BY <1>1, GuestInvariant, PTL

-----------------------------------------------------------------------------
(* Invoices and payment links.                                             *)

ReceivablesTyped ==
    /\ pc \in [Procs -> RCSteps \cup {"idle"}]
    /\ job \in [Procs -> RCJobs \cup {Idle}]
    /\ RCTypeOK

ReceivablesWorking ==
    \A p \in Procs : pc[p] # "idle" =>
        /\ job[p] \in RCJobs
        /\ job[p].op # "owner" => job[p].of \in Charges /\ gwCharge[job[p].of] # "none"
        /\ job[p].op = "owner" => job[p].of \in Invoices
        /\ pc[p] \in {"send", "mark", "void"} <=> job[p].op = "owner"
        /\ pc[p] = "credit" => job[p].got = gwCharge[job[p].of] \/ job[p].got = "open"

\* A charge that was never opened pays for nothing, and only links' have rows.
ChargesOpened ==
    \A m \in Charges :
        /\ gwCharge[m] = "none" <=> gwFor[m] = None
        /\ lkStatus[m] # "NONE" => gwFor[m] \in Links
        /\ \A i \in Invoices : ivRef[i] = m => gwFor[m] = i

ChargesVerified ==
    /\ \A i \in ivOnline : \E m \in Charges : gwFor[m] = i /\ gwCharge[m] = "COMPLETED"
    /\ \A m \in Charges : lkStatus[m] = "PAID" => gwCharge[m] = "COMPLETED"

PaidOf(l) == {m \in Charges : gwFor[m] = l /\ lkStatus[m] = "PAID"}
PaymentsCounted == \A l \in Links : Cardinality(PaidOf(l)) <= lkTimes[l]

ReceivablesInv ==
    ReceivablesTyped /\ ReceivablesWorking /\ ChargesOpened /\ ChargesVerified /\ PaymentsCounted

LEMMA PaidFinite ==
    /\ \A l \in Links : IsFiniteSet(PaidOf(l)) /\ Cardinality(PaidOf(l)) \in Nat
    /\ \A l \in Links : IsFiniteSet(PaidOf(l)') /\ Cardinality(PaidOf(l)') \in Nat
<1>1. \A S \in SUBSET Charges : IsFiniteSet(S) /\ Cardinality(S) \in Nat
  BY FS_Subset, FS_CardinalityType, ReceivablesAssumption
<1> QED BY <1>1 DEF PaidOf

LEMMA ReceivablesStart == RCInit /\ HandlersInit => ReceivablesInv
<1> SUFFICES ASSUME RCInit, HandlersInit
             PROVE  ReceivablesInv
  OBVIOUS
<1>1. ReceivablesTyped /\ ReceivablesWorking /\ ChargesOpened /\ ChargesVerified
  BY ReceivablesAssumption DEF RCInit, HandlersInit, ReceivablesTyped, RCTypeOK, ReceivablesWorking,
     ChargesOpened, ChargesVerified, Idle
<1>2. \A l \in Links : PaidOf(l) = {} /\ lkTimes[l] = 0
  BY DEF RCInit, PaidOf
<1>3. PaymentsCounted
  BY <1>2, FS_EmptySet DEF PaymentsCounted
<1> QED BY <1>1, <1>3 DEF ReceivablesInv

LEMMA ReceivablesJobs == \A j \in RCJobs : j # Idle
BY DEF RCJobs, Idle

\* A step that makes no payment PAID.
LEMMA CountStays ==
    ASSUME PaymentsCounted, RCTypeOK, lkTimes' = lkTimes,
           \A l \in Links : PaidOf(l)' \in SUBSET PaidOf(l)
    PROVE  PaymentsCounted'
<1> SUFFICES ASSUME NEW l \in Links
             PROVE  Cardinality(PaidOf(l)') <= lkTimes[l]
  BY DEF PaymentsCounted
<1>1. Cardinality(PaidOf(l)') <= Cardinality(PaidOf(l))
  BY PaidFinite, FS_Subset
<1>2. Cardinality(PaidOf(l)) <= lkTimes[l] /\ lkTimes[l] \in Nat
  BY DEF PaymentsCounted, RCTypeOK
<1> QED BY <1>1, <1>2, PaidFinite

LEMMA ReceivablesStep ==
    ASSUME ReceivablesInv, RCNext
    PROVE  ReceivablesInv'
<1> USE DEF Start, Goto, Learn, Return, Finish, At, rcVars, ivVars, lkVars, gwVars, handlers
<1>0. ReceivablesTyped /\ ReceivablesWorking /\ ChargesOpened /\ ChargesVerified /\ PaymentsCounted
  BY DEF ReceivablesInv
<1>t. RCTypeOK
  BY <1>0 DEF ReceivablesTyped
<1> SUFFICES (ReceivablesTyped /\ ReceivablesWorking)' /\ ChargesOpened' /\ ChargesVerified' /\ PaymentsCounted'
  BY DEF ReceivablesInv
<1>1. ASSUME NEW p \in Procs, NEW i \in Invoices, NEW step \in {"send", "mark", "void"}, BeginOwner(p, i, step)
      PROVE  (ReceivablesTyped /\ ReceivablesWorking)' /\ ChargesOpened' /\ ChargesVerified' /\ PaymentsCounted'
  <2>1. (ReceivablesTyped /\ ReceivablesWorking)'
    BY <1>0, <1>1, ReceivablesJobs, ReceivablesAssumption DEF BeginOwner, ReceivablesTyped,
       ReceivablesWorking, ChargesOpened, RCTypeOK, RCJobs, RCSteps, Idle
  <2>2. ChargesOpened'
    BY <1>0, <1>1, ReceivablesAssumption DEF BeginOwner, ReceivablesTyped, ReceivablesWorking,
       ChargesOpened, RCTypeOK
  <2>3. ChargesVerified'
    BY <1>0, <1>1, ReceivablesAssumption DEF BeginOwner, ReceivablesTyped, ReceivablesWorking,
       ChargesOpened, ChargesVerified, RCTypeOK
  <2>4. lkTimes' = lkTimes /\ \A y \in Links : PaidOf(y)' \in SUBSET PaidOf(y)
    BY <1>0, <1>1, ReceivablesAssumption DEF BeginOwner, ReceivablesTyped, ReceivablesWorking,
       ChargesOpened, PaidOf, RCTypeOK
  <2> QED BY <1>0, <1>t, <2>1, <2>2, <2>3, <2>4, CountStays
<1>2. ASSUME NEW p \in Procs, NEW x \in Invoices \cup Links, NEW m \in Charges, OpenCharge(p, x, m)
      PROVE  (ReceivablesTyped /\ ReceivablesWorking)' /\ ChargesOpened' /\ ChargesVerified' /\ PaymentsCounted'
  <2>1. (ReceivablesTyped /\ ReceivablesWorking)'
    BY <1>0, <1>2, ReceivablesJobs, ReceivablesAssumption DEF OpenCharge, ReceivablesTyped,
       ReceivablesWorking, ChargesOpened, RCTypeOK, RCJobs, RCSteps, Idle
  <2>2. ChargesOpened'
    BY <1>0, <1>2, ReceivablesAssumption DEF OpenCharge, ReceivablesTyped, ReceivablesWorking,
       ChargesOpened, RCTypeOK
  <2>3. ChargesVerified'
    BY <1>0, <1>2, ReceivablesAssumption DEF OpenCharge, ReceivablesTyped, ReceivablesWorking,
       ChargesOpened, ChargesVerified, RCTypeOK
  <2>4. lkTimes' = lkTimes /\ \A y \in Links : PaidOf(y)' \in SUBSET PaidOf(y)
    BY <1>0, <1>2, ReceivablesAssumption DEF OpenCharge, ReceivablesTyped, ReceivablesWorking,
       ChargesOpened, PaidOf, RCTypeOK
  <2> QED BY <1>0, <1>t, <2>1, <2>2, <2>3, <2>4, CountStays
<1>3. ASSUME NEW p \in Procs, NEW m \in Charges, ReceiveEvent(p, m)
      PROVE  (ReceivablesTyped /\ ReceivablesWorking)' /\ ChargesOpened' /\ ChargesVerified' /\ PaymentsCounted'
  <2>1. (ReceivablesTyped /\ ReceivablesWorking)'
    BY <1>0, <1>3, ReceivablesJobs, ReceivablesAssumption DEF ReceiveEvent, ReceivablesTyped,
       ReceivablesWorking, ChargesOpened, RCTypeOK, RCJobs, RCSteps, Idle
  <2>2. ChargesOpened'
    BY <1>0, <1>3, ReceivablesAssumption DEF ReceiveEvent, ReceivablesTyped, ReceivablesWorking,
       ChargesOpened, RCTypeOK
  <2>3. ChargesVerified'
    BY <1>0, <1>3, ReceivablesAssumption DEF ReceiveEvent, ReceivablesTyped, ReceivablesWorking,
       ChargesOpened, ChargesVerified, RCTypeOK
  <2>4. lkTimes' = lkTimes /\ \A y \in Links : PaidOf(y)' \in SUBSET PaidOf(y)
    BY <1>0, <1>3, ReceivablesAssumption DEF ReceiveEvent, ReceivablesTyped, ReceivablesWorking,
       ChargesOpened, PaidOf, RCTypeOK
  <2> QED BY <1>0, <1>t, <2>1, <2>2, <2>3, <2>4, CountStays
<1>4. ASSUME NEW p \in Procs, SendInvoice(p)
      PROVE  (ReceivablesTyped /\ ReceivablesWorking)' /\ ChargesOpened' /\ ChargesVerified' /\ PaymentsCounted'
  <2>1. (ReceivablesTyped /\ ReceivablesWorking)'
    BY <1>0, <1>4, ReceivablesJobs, ReceivablesAssumption DEF SendInvoice, SetInvoice, ReceivablesTyped,
       ReceivablesWorking, ChargesOpened, RCTypeOK, RCJobs, RCSteps, Idle
  <2>2. ChargesOpened'
    BY <1>0, <1>4, ReceivablesAssumption DEF SendInvoice, SetInvoice, ReceivablesTyped, ReceivablesWorking,
       ChargesOpened, RCTypeOK
  <2>3. ChargesVerified'
    BY <1>0, <1>4, ReceivablesAssumption DEF SendInvoice, SetInvoice, ReceivablesTyped, ReceivablesWorking,
       ChargesOpened, ChargesVerified, RCTypeOK
  <2>4. lkTimes' = lkTimes /\ \A y \in Links : PaidOf(y)' \in SUBSET PaidOf(y)
    BY <1>0, <1>4, ReceivablesAssumption DEF SendInvoice, SetInvoice, ReceivablesTyped, ReceivablesWorking,
       ChargesOpened, PaidOf, RCTypeOK
  <2> QED BY <1>0, <1>t, <2>1, <2>2, <2>3, <2>4, CountStays
<1>5. ASSUME NEW p \in Procs, MarkPaid(p)
      PROVE  (ReceivablesTyped /\ ReceivablesWorking)' /\ ChargesOpened' /\ ChargesVerified' /\ PaymentsCounted'
  <2>1. (ReceivablesTyped /\ ReceivablesWorking)'
    BY <1>0, <1>5, ReceivablesJobs, ReceivablesAssumption DEF MarkPaid, SetInvoice, ReceivablesTyped,
       ReceivablesWorking, ChargesOpened, RCTypeOK, RCJobs, RCSteps, Idle
  <2>2. ChargesOpened'
    BY <1>0, <1>5, ReceivablesAssumption DEF MarkPaid, SetInvoice, ReceivablesTyped, ReceivablesWorking,
       ChargesOpened, RCTypeOK
  <2>3. ChargesVerified'
    BY <1>0, <1>5, ReceivablesAssumption DEF MarkPaid, SetInvoice, ReceivablesTyped, ReceivablesWorking,
       ChargesOpened, ChargesVerified, RCTypeOK
  <2>4. lkTimes' = lkTimes /\ \A y \in Links : PaidOf(y)' \in SUBSET PaidOf(y)
    BY <1>0, <1>5, ReceivablesAssumption DEF MarkPaid, SetInvoice, ReceivablesTyped, ReceivablesWorking,
       ChargesOpened, PaidOf, RCTypeOK
  <2> QED BY <1>0, <1>t, <2>1, <2>2, <2>3, <2>4, CountStays
<1>6. ASSUME NEW p \in Procs, VoidInvoice(p)
      PROVE  (ReceivablesTyped /\ ReceivablesWorking)' /\ ChargesOpened' /\ ChargesVerified' /\ PaymentsCounted'
  <2>1. (ReceivablesTyped /\ ReceivablesWorking)'
    BY <1>0, <1>6, ReceivablesJobs, ReceivablesAssumption DEF VoidInvoice, SetInvoice, ReceivablesTyped,
       ReceivablesWorking, ChargesOpened, RCTypeOK, RCJobs, RCSteps, Idle
  <2>2. ChargesOpened'
    BY <1>0, <1>6, ReceivablesAssumption DEF VoidInvoice, SetInvoice, ReceivablesTyped, ReceivablesWorking,
       ChargesOpened, RCTypeOK
  <2>3. ChargesVerified'
    BY <1>0, <1>6, ReceivablesAssumption DEF VoidInvoice, SetInvoice, ReceivablesTyped, ReceivablesWorking,
       ChargesOpened, ChargesVerified, RCTypeOK
  <2>4. lkTimes' = lkTimes /\ \A y \in Links : PaidOf(y)' \in SUBSET PaidOf(y)
    BY <1>0, <1>6, ReceivablesAssumption DEF VoidInvoice, SetInvoice, ReceivablesTyped, ReceivablesWorking,
       ChargesOpened, PaidOf, RCTypeOK
  <2> QED BY <1>0, <1>t, <2>1, <2>2, <2>3, <2>4, CountStays
<1>7. ASSUME NEW p \in Procs, StoreCharge(p)
      PROVE  (ReceivablesTyped /\ ReceivablesWorking)' /\ ChargesOpened' /\ ChargesVerified' /\ PaymentsCounted'
  <2>1. (ReceivablesTyped /\ ReceivablesWorking)'
    BY <1>0, <1>7, ReceivablesJobs, ReceivablesAssumption DEF StoreCharge, ReceivablesTyped,
       ReceivablesWorking, ChargesOpened, RCTypeOK, RCJobs, RCSteps, Idle
  <2>2. ChargesOpened'
    BY <1>0, <1>7, ReceivablesAssumption DEF StoreCharge, ReceivablesTyped, ReceivablesWorking,
       ChargesOpened, RCTypeOK
  <2>3. ChargesVerified'
    BY <1>0, <1>7, ReceivablesAssumption DEF StoreCharge, ReceivablesTyped, ReceivablesWorking,
       ChargesOpened, ChargesVerified, RCTypeOK
  <2>4. lkTimes' = lkTimes /\ \A y \in Links : PaidOf(y)' \in SUBSET PaidOf(y)
    BY <1>0, <1>7, ReceivablesAssumption DEF StoreCharge, ReceivablesTyped, ReceivablesWorking,
       ChargesOpened, PaidOf, RCTypeOK
  <2> QED BY <1>0, <1>t, <2>1, <2>2, <2>3, <2>4, CountStays
<1>8. ASSUME NEW p \in Procs, FindRow(p)
      PROVE  (ReceivablesTyped /\ ReceivablesWorking)' /\ ChargesOpened' /\ ChargesVerified' /\ PaymentsCounted'
  <2>1. (ReceivablesTyped /\ ReceivablesWorking)'
    <3> DEFINE m == job[p].of
               saw == IF gwFor[m] \in Links THEN lkStatus[m] ELSE ivStatus[gwFor[m]]
    <3>1. job[p] \in RCJobs /\ m \in Charges /\ gwFor[m] \in Invoices \cup Links
      BY <1>0, <1>8 DEF FindRow, ReceivablesWorking, ReceivablesTyped, RCTypeOK, ChargesOpened
    <3>2. CASE Return(p)
      BY <1>0, <1>8, <3>2, ReceivablesJobs DEF FindRow, ReceivablesTyped, ReceivablesWorking, RCTypeOK
    <3>3. CASE /\ lkStatus[m] # "NONE" \/ \E i \in Invoices : ivRef[i] = m
               /\ pc' = [pc EXCEPT ![p] = "verify"] /\ job' = [job EXCEPT ![p].saw = saw] /\ UNCHANGED faults
      <4>1. saw \in {"DRAFT", "SENT", "PAID", "VOID", "PENDING", "FAILED"}
        BY <1>0, <1>t, <3>1, <3>3, ReceivablesAssumption DEF ChargesOpened, RCTypeOK
      <4>2. [job[p] EXCEPT !.saw = saw] \in RCJobs
        BY <3>1, <4>1 DEF RCJobs
      <4> HIDE DEF saw
      <4> QED BY <1>0, <1>8, <3>1, <3>3, <4>2 DEF FindRow, ReceivablesTyped, ReceivablesWorking, RCTypeOK,
         RCJobs, RCSteps
    <3> QED BY <1>8, <3>2, <3>3 DEF FindRow
  <2>2. ChargesOpened'
    BY <1>0, <1>8, ReceivablesAssumption DEF FindRow, ReceivablesTyped, ReceivablesWorking, ChargesOpened,
       RCTypeOK
  <2>3. ChargesVerified'
    BY <1>0, <1>8, ReceivablesAssumption DEF FindRow, ReceivablesTyped, ReceivablesWorking, ChargesOpened,
       ChargesVerified, RCTypeOK
  <2>4. lkTimes' = lkTimes /\ \A y \in Links : PaidOf(y)' \in SUBSET PaidOf(y)
    BY <1>0, <1>8, ReceivablesAssumption DEF FindRow, ReceivablesTyped, ReceivablesWorking, ChargesOpened,
       PaidOf, RCTypeOK
  <2> QED BY <1>0, <1>t, <2>1, <2>2, <2>3, <2>4, CountStays
<1>9. ASSUME NEW p \in Procs, VerifyCharge(p)
      PROVE  (ReceivablesTyped /\ ReceivablesWorking)' /\ ChargesOpened' /\ ChargesVerified' /\ PaymentsCounted'
  <2>1. (ReceivablesTyped /\ ReceivablesWorking)'
    BY <1>0, <1>9, ReceivablesJobs, ReceivablesAssumption DEF VerifyCharge, ReceivablesTyped,
       ReceivablesWorking, ChargesOpened, RCTypeOK, RCJobs, RCSteps, Idle
  <2>2. ChargesOpened'
    BY <1>0, <1>9, ReceivablesAssumption DEF VerifyCharge, ReceivablesTyped, ReceivablesWorking,
       ChargesOpened, RCTypeOK
  <2>3. ChargesVerified'
    BY <1>0, <1>9, ReceivablesAssumption DEF VerifyCharge, ReceivablesTyped, ReceivablesWorking,
       ChargesOpened, ChargesVerified, RCTypeOK
  <2>4. lkTimes' = lkTimes /\ \A y \in Links : PaidOf(y)' \in SUBSET PaidOf(y)
    BY <1>0, <1>9, ReceivablesAssumption DEF VerifyCharge, ReceivablesTyped, ReceivablesWorking,
       ChargesOpened, PaidOf, RCTypeOK
  <2> QED BY <1>0, <1>t, <2>1, <2>2, <2>3, <2>4, CountStays
<1>10. ASSUME NEW p \in Procs, CreditRow(p)
      PROVE  (ReceivablesTyped /\ ReceivablesWorking)' /\ ChargesOpened' /\ ChargesVerified' /\ PaymentsCounted'
  <2>1. (ReceivablesTyped /\ ReceivablesWorking)'
    BY <1>0, <1>10, ReceivablesJobs, ReceivablesAssumption DEF CreditRow, Credit, ReceivablesTyped,
       ReceivablesWorking, ChargesOpened, RCTypeOK, RCJobs, RCSteps, Idle
  <2>2. ChargesOpened'
    BY <1>0, <1>10, ReceivablesAssumption DEF CreditRow, Credit, ReceivablesTyped, ReceivablesWorking,
       ChargesOpened, RCTypeOK
  <2>3. ChargesVerified'
    BY <1>0, <1>10, ReceivablesAssumption DEF CreditRow, Credit, ReceivablesTyped, ReceivablesWorking,
       ChargesOpened, ChargesVerified, RCTypeOK
  <2> DEFINE m == job[p].of
  <2>4. ASSUME Credit(p, "PAID", 1, "PAID", Invoices)
        PROVE  PaymentsCounted'
    <3> SUFFICES ASSUME NEW l \in Links
                 PROVE  Cardinality(PaidOf(l)') <= lkTimes'[l]
      BY DEF PaymentsCounted
    <3>1. lkTimes[l] \in Nat /\ Cardinality(PaidOf(l)) <= lkTimes[l]
      BY <1>0, <1>t DEF PaymentsCounted, RCTypeOK
    <3>2. CASE gwFor[m] = l
      <4>1. PaidOf(l)' = PaidOf(l) \cup {m}
        BY <1>0, <1>t, <1>10, <2>4, <3>2, ReceivablesAssumption DEF CreditRow, Credit, ReceivablesWorking,
           PaidOf, RCTypeOK
      <4>2. lkTimes'[l] = lkTimes[l] + 1
        BY <2>4, <3>2 DEF Credit
      <4>3. Cardinality(PaidOf(l) \cup {m}) = IF m \in PaidOf(l) THEN Cardinality(PaidOf(l)) ELSE Cardinality(PaidOf(l)) + 1
        BY PaidFinite, FS_AddElement
      <4> QED BY <3>1, <4>1, <4>2, <4>3, PaidFinite
    <3>3. CASE gwFor[m] # l
      <4>1. PaidOf(l)' = PaidOf(l)
        BY <1>0, <1>t, <1>10, <2>4, <3>3 DEF CreditRow, Credit, ReceivablesWorking, PaidOf, RCTypeOK
      <4>2. lkTimes'[l] = lkTimes[l]
        BY <2>4, <3>1, <3>3 DEF Credit
      <4> QED BY <3>1, <4>1, <4>2
    <3> QED BY <3>2, <3>3
  <2>6. ASSUME lkTimes' = lkTimes /\ lkStatus' \in {lkStatus, [lkStatus EXCEPT ![m] = "FAILED"]}
        PROVE  PaymentsCounted'
    <3>1. \A l \in Links : PaidOf(l)' \in SUBSET PaidOf(l)
      BY <1>0, <1>t, <1>10, <2>6 DEF CreditRow, ReceivablesWorking, PaidOf, RCTypeOK
    <3> QED BY <1>0, <1>t, <2>6, <3>1, CountStays
  <2>7. PaymentsCounted'
    BY <1>10, <2>4, <2>6 DEF CreditRow
  <2> QED BY <2>1, <2>2, <2>3, <2>7
<1>11. ASSUME NEW p \in Procs, ProcessEvent(p)
      PROVE  (ReceivablesTyped /\ ReceivablesWorking)' /\ ChargesOpened' /\ ChargesVerified' /\ PaymentsCounted'
  <2>1. (ReceivablesTyped /\ ReceivablesWorking)'
    BY <1>0, <1>11, ReceivablesJobs, ReceivablesAssumption DEF ProcessEvent, ReceivablesTyped,
       ReceivablesWorking, ChargesOpened, RCTypeOK, RCJobs, RCSteps, Idle
  <2>2. ChargesOpened'
    BY <1>0, <1>11, ReceivablesAssumption DEF ProcessEvent, ReceivablesTyped, ReceivablesWorking,
       ChargesOpened, RCTypeOK
  <2>3. ChargesVerified'
    BY <1>0, <1>11, ReceivablesAssumption DEF ProcessEvent, ReceivablesTyped, ReceivablesWorking,
       ChargesOpened, ChargesVerified, RCTypeOK
  <2>4. lkTimes' = lkTimes /\ \A y \in Links : PaidOf(y)' \in SUBSET PaidOf(y)
    BY <1>0, <1>11, ReceivablesAssumption DEF ProcessEvent, ReceivablesTyped, ReceivablesWorking,
       ChargesOpened, PaidOf, RCTypeOK
  <2> QED BY <1>0, <1>t, <2>1, <2>2, <2>3, <2>4, CountStays
<1>12. ASSUME NEW p \in Procs, Crash(p), UNCHANGED rcVars
      PROVE  (ReceivablesTyped /\ ReceivablesWorking)' /\ ChargesOpened' /\ ChargesVerified' /\ PaymentsCounted'
  <2>1. (ReceivablesTyped /\ ReceivablesWorking)'
    BY <1>0, <1>12, ReceivablesJobs, ReceivablesAssumption DEF Crash, ReceivablesTyped, ReceivablesWorking,
       ChargesOpened, RCTypeOK, RCJobs, RCSteps, Idle
  <2>2. ChargesOpened'
    BY <1>0, <1>12, ReceivablesAssumption DEF Crash, ReceivablesTyped, ReceivablesWorking, ChargesOpened,
       RCTypeOK
  <2>3. ChargesVerified'
    BY <1>0, <1>12, ReceivablesAssumption DEF Crash, ReceivablesTyped, ReceivablesWorking, ChargesOpened,
       ChargesVerified, RCTypeOK
  <2>4. lkTimes' = lkTimes /\ \A y \in Links : PaidOf(y)' \in SUBSET PaidOf(y)
    BY <1>0, <1>12, ReceivablesAssumption DEF Crash, ReceivablesTyped, ReceivablesWorking, ChargesOpened,
       PaidOf, RCTypeOK
  <2> QED BY <1>0, <1>t, <2>1, <2>2, <2>3, <2>4, CountStays
<1>13. ASSUME NEW l \in Links, DisableLink(l)
      PROVE  (ReceivablesTyped /\ ReceivablesWorking)' /\ ChargesOpened' /\ ChargesVerified' /\ PaymentsCounted'
  <2>1. (ReceivablesTyped /\ ReceivablesWorking)'
    BY <1>0, <1>13, ReceivablesJobs, ReceivablesAssumption DEF DisableLink, ReceivablesTyped,
       ReceivablesWorking, ChargesOpened, RCTypeOK, RCJobs, RCSteps, Idle
  <2>2. ChargesOpened'
    BY <1>0, <1>13, ReceivablesAssumption DEF DisableLink, ReceivablesTyped, ReceivablesWorking,
       ChargesOpened, RCTypeOK
  <2>3. ChargesVerified'
    BY <1>0, <1>13, ReceivablesAssumption DEF DisableLink, ReceivablesTyped, ReceivablesWorking,
       ChargesOpened, ChargesVerified, RCTypeOK
  <2>4. lkTimes' = lkTimes /\ \A y \in Links : PaidOf(y)' \in SUBSET PaidOf(y)
    BY <1>0, <1>13, ReceivablesAssumption DEF DisableLink, ReceivablesTyped, ReceivablesWorking,
       ChargesOpened, PaidOf, RCTypeOK
  <2> QED BY <1>0, <1>t, <2>1, <2>2, <2>3, <2>4, CountStays
<1>14. ASSUME NEW m \in Charges, ChargeSettles(m)
      PROVE  (ReceivablesTyped /\ ReceivablesWorking)' /\ ChargesOpened' /\ ChargesVerified' /\ PaymentsCounted'
  <2>1. (ReceivablesTyped /\ ReceivablesWorking)'
    BY <1>0, <1>14, ReceivablesJobs, ReceivablesAssumption DEF ChargeSettles, ReceivablesTyped,
       ReceivablesWorking, ChargesOpened, RCTypeOK, RCJobs, RCSteps, Idle
  <2>2. ChargesOpened'
    BY <1>0, <1>14, ReceivablesAssumption DEF ChargeSettles, ReceivablesTyped, ReceivablesWorking,
       ChargesOpened, RCTypeOK
  <2>3. ChargesVerified'
    BY <1>0, <1>14, ReceivablesAssumption DEF ChargeSettles, ReceivablesTyped, ReceivablesWorking,
       ChargesOpened, ChargesVerified, RCTypeOK
  <2>4. lkTimes' = lkTimes /\ \A y \in Links : PaidOf(y)' \in SUBSET PaidOf(y)
    BY <1>0, <1>14, ReceivablesAssumption DEF ChargeSettles, ReceivablesTyped, ReceivablesWorking,
       ChargesOpened, PaidOf, RCTypeOK
  <2> QED BY <1>0, <1>t, <2>1, <2>2, <2>3, <2>4, CountStays
<1> QED
  BY <1>1, <1>2, <1>3, <1>4, <1>5, <1>6, <1>7, <1>8, <1>9, <1>10, <1>11, <1>12, <1>13, <1>14 DEF RCNext

LEMMA ReceivablesInductive == ReceivablesInv /\ [RCNext]_<<rcVars, handlers>> => ReceivablesInv'
<1>1. CASE UNCHANGED <<rcVars, handlers>>
  BY <1>1 DEF rcVars, ivVars, lkVars, gwVars, handlers, ReceivablesInv, ReceivablesTyped, RCTypeOK,
     ReceivablesWorking, ChargesOpened, ChargesVerified, PaymentsCounted, PaidOf
<1> QED BY <1>1, ReceivablesStep

\* The inductive invariant of the receivables holds in every behaviour.
THEOREM ReceivablesInvariant == RCSpec => []ReceivablesInv
BY ReceivablesStart, ReceivablesInductive, PTL DEF RCSpec

LEMMA ReceivablesHold == ReceivablesInv => ReceivablesHonest
BY DEF ReceivablesInv, ChargesVerified, PaymentsCounted, PaidOf, ReceivablesHonest

\* The webhooks of invoices and links: nothing is paid by a charge that did not
\* complete, and no payment is missing from its link's count.
THEOREM ReceivablesAreHonest == RCSpec => []ReceivablesHonest
BY ReceivablesHold, ReceivablesInvariant, PTL
===============================================================================
