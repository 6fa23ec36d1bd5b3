-------------------------- MODULE CampaignFunds_proofs --------------------------
(* Proofs about CampaignFunds, for every set of requests, holds, invoices and   *)
(* payments and every amount.                                                   *)
EXTENDS CampaignFunds, TLAPS

\* Posting keeps the ledger a ledger.
LEMMA PostType ==
    ASSUME NEW l \in Ledgers, NEW key, NEW kind \in Kinds, NEW amount \in Nat
    PROVE  /\ Post(l, key, kind, amount) \in Ledgers
           /\ PostUnkeyed(l, kind, amount) \in Ledgers
<1>1. /\ l.total \in [Kinds -> Nat]
      /\ l.entry \in [Keys -> Nat]
      /\ l = [total |-> l.total, entry |-> l.entry]
  BY DEF Ledgers
<1>2. [l.total EXCEPT ![kind] = @ + amount] \in [Kinds -> Nat]
  BY <1>1
<1>3. [l.entry EXCEPT ![key] = amount] \in [Keys -> Nat]
  BY <1>1
<1>4. Post(l, key, kind, amount) \in Ledgers
  BY <1>1, <1>2, <1>3 DEF Post, Ledgers
<1>5. PostUnkeyed(l, kind, amount) = [total |-> [l.total EXCEPT ![kind] = @ + amount], entry |-> l.entry]
  BY <1>1 DEF PostUnkeyed
<1> QED
  BY <1>1, <1>2, <1>4, <1>5 DEF Ledgers

\* The initial state has the right types.
LEMMA TypeInit == Init => TypeOK
  BY FundsAssumption DEF Init, TypeOK, Ledgers, Jobs, Idle, GatewayStatus, PaymentStatus,
     HoldStatus, InvoiceStatus, Positive

\* Every step keeps the types.
LEMMA TypeStep == TypeOK /\ [Next]_vars => TypeOK'
<1> SUFFICES ASSUME TypeOK, [Next]_vars PROVE TypeOK'
  OBVIOUS
<1> USE FundsAssumption DEF TypeOK, wallet, external, locks, Positive
<1>1. ASSUME NEW p \in Procs, BeginRequest(p) PROVE TypeOK'
  <2> USE DEF Begin, BeginAt, GatewayStatus
  <2>1. CASE BeginAdjust(p)
    <3>1. PICK op \in {"adjust_credit", "adjust_debit"}, key \in Adjustments \cup {None}, a \in Amounts :
              Begin(p, op, key, a, "processing")
      BY <2>1 DEF BeginAdjust
    <3>2. [op |-> op, of |-> key, amount |-> a, status |-> "processing"] \in Jobs
      BY DEF Jobs, Request
    <3> QED BY <2>1, <3>1, <3>2 DEF BeginAdjust
  <2>2. CASE BeginHold(p)
    BY <2>2 DEF BeginHold, Jobs, Request
  <2>3. CASE BeginRelease(p)
    BY <2>3 DEF BeginRelease, Jobs, Request
  <2>4. CASE BeginCapture(p)
    <3>1. PICK h \in Holds, a \in Amounts : Begin(p, "capture", h, a, "processing")
      BY <2>4 DEF BeginCapture
    <3>2. [op |-> "capture", of |-> h, amount |-> a, status |-> "processing"] \in Jobs
      BY DEF Jobs, Request
    <3> QED BY <2>4, <3>1, <3>2 DEF BeginCapture
  <2>5. CASE BeginPayInvoice(p)
    BY <2>5 DEF BeginPayInvoice, Jobs, Request
  <2>6. CASE BeginIntent(p)
    BY <2>6 DEF BeginIntent, PaymentOps, Jobs, Request
  <2>7. CASE BeginVerify(p)
    BY <2>7 DEF BeginVerify, PaymentOps, Jobs, Request
  <2>8. ASSUME NEW e \in Events, BeginWebhook(p, e) PROVE TypeOK'
    BY <2>8 DEF BeginWebhook, PaymentOps, Events, Jobs, Request
  <2>9. CASE BeginPurchase(p)
    <3>1. PICK a \in Amounts : BeginAt("paying", p, "purchase", None, a, "processing")
      BY <2>9 DEF BeginPurchase
    <3>2. [op |-> "purchase", of |-> None, amount |-> a, status |-> "processing"] \in Jobs
      BY DEF Jobs, Request
    <3> QED BY <2>9, <3>1, <3>2 DEF BeginPurchase
  <2> QED BY <1>1, <2>1, <2>2, <2>3, <2>4, <2>5, <2>6, <2>7, <2>8, <2>9 DEF BeginRequest
<1>2. ASSUME NEW p \in Procs, Return(p) PROVE
        /\ walletLock' \in Procs \cup {None}
        /\ intentLock' \in [Intents -> Procs \cup {None}]
        /\ pc' \in [Procs -> {"idle", "open", "row", "locked", "admitted", "paying", "done"}]
        /\ job' \in [Procs -> Jobs]
  BY <1>2 DEF Return, Unlock, Jobs
<1>3. ASSUME NEW p \in Procs, ReturnPayment(p) PROVE
        /\ walletLock' \in Procs \cup {None}
        /\ intentLock' \in [Intents -> Procs \cup {None}]
        /\ pc' \in [Procs -> {"idle", "open", "row", "locked", "admitted", "paying", "done"}]
        /\ job' \in [Procs -> Jobs]
  BY <1>2, <1>3 DEF ReturnPayment, Unlock
<1>4. ASSUME NEW p \in Procs, Progress(p) PROVE TypeOK'
  <2> DEFINE of == job[p].of
  <2>0. /\ job[p].op \in HoldOps \cup {"hold"} => of \in Holds
        /\ job[p].op = "invoice" => of \in Invoices
        /\ job[p].op \in PaymentOps \cup {"intent"} => of \in Intents
        /\ job[p].amount \in Nat
        /\ job[p].status \in GatewayStatus
        /\ MapPaymentStatus(job[p].status) \in PaymentStatus
    BY DEF Jobs, Request, HoldOps, PaymentOps, Idle, GatewayStatus, MapPaymentStatus, PaymentStatus
  <2>1. CASE LockIntent(p)
    BY <2>1 DEF LockIntent
  <2>2. CASE LockWallet(p)
    BY <2>2 DEF LockWallet
  <2>3. CASE Admit(p)
    <3>1. Wanted(p) \in Nat
      BY <2>0, <2>3 DEF Admit, Admissible, Unsettled, Wanted, AmountDue
    <3>2. [job[p] EXCEPT !.amount = Wanted(p)] \in Jobs
      <4>1. CASE job[p].op = "invoice"
        <5>1. job[p] \in Request({"invoice"}, Invoices, Nat)
          BY <4>1 DEF Jobs, Request, Idle, PaymentOps
        <5> QED BY <3>1, <5>1 DEF Jobs, Request
      <4>2. CASE job[p].op # "invoice"
        <5>1. Wanted(p) = job[p].amount
          BY <4>2 DEF Wanted
        <5>2. [job[p] EXCEPT !.amount = job[p].amount] = job[p]
          BY DEF Jobs, Request, Idle
        <5> QED BY <5>1, <5>2
      <4> QED BY <4>1, <4>2
    <3> QED BY <2>3, <3>2 DEF Admit
  <2>4. CASE Refuse(p)
    BY <1>2, <2>4 DEF Refuse
  <2>5. CASE CommitAdjust(p)
    BY <1>2, <2>0, <2>5, PostType DEF CommitAdjust, Kinds, SecuredKinds
  <2>6. CASE CommitHold(p)
    <3>0. Post(ledger, <<"hold", of>>, "HOLD", job[p].amount) \in Ledgers
      BY <2>0, PostType DEF Kinds, SecuredKinds
    <3>1. ledger' \in Ledgers
      BY <2>6, <3>0 DEF CommitHold
    <3>2. hold' \in [Holds -> HoldStatus]
      BY <2>6 DEF CommitHold, HoldStatus
    <3> QED BY <1>2, <2>6, <3>1, <3>2 DEF CommitHold
  <2>7. CASE CommitRelease(p)
    BY <1>2, <2>0, <2>7, PostType DEF CommitRelease, Kinds, SecuredKinds, HoldStatus, HoldOps
  <2>8. CASE CommitCapture(p)
    <3> DEFINE freed == Post(ledger, <<"capture_release", of>>, "RELEASE", HoldAmount[of])
    <3>1. freed \in Ledgers
      BY <2>0, <2>8, PostType DEF CommitCapture, Kinds, SecuredKinds, HoldOps
    <3>2. Post(freed, <<"capture_debit", of>>, "DEBIT", job[p].amount) \in Ledgers
      BY <2>0, <3>1, PostType DEF Kinds, SecuredKinds
    <3> QED BY <1>2, <2>0, <2>8, <3>2 DEF CommitCapture, HoldStatus
  <2>9. CASE CommitInvoice(p)
    BY <1>2, <2>0, <2>9, PostType DEF CommitInvoice, Kinds, SecuredKinds, InvoiceStatus
  <2>10. CASE InsertIntent(p)
    <3>0. of \in Intents
      BY <2>0, <2>10 DEF InsertIntent
    <3>1. [intent[of] EXCEPT !.status = "PENDING"] \in [status : PaymentStatus \cup {"NONE"}, credited : BOOLEAN]
      BY <3>0 DEF PaymentStatus
    <3>2. intent' \in [Intents -> [status : PaymentStatus \cup {"NONE"}, credited : BOOLEAN]]
      <4>1. CASE intent[of].status = "NONE"
        <5>1. intent' = [intent EXCEPT ![of] = [@ EXCEPT !.status = "PENDING"]]
          BY <2>10, <4>1 DEF InsertIntent
        <5> QED BY <3>1, <5>1
      <4>2. CASE intent[of].status # "NONE"
        BY <2>10, <4>2 DEF InsertIntent
      <4> QED BY <4>1, <4>2
    <3> QED BY <1>2, <2>10, <3>2 DEF InsertIntent
  <2>11. CASE CommitPayment(p)
    <3> DEFINE credited == Post(ledger, <<"credit", of>>, "CREDIT", IntentAmount[of])
               settled == SettledBy(of)
               v == IntentInvoice[of]
    <3>1. of \in Intents
      BY <2>0, <2>11 DEF CommitPayment
    <3>2. credited \in Ledgers
      BY <3>1, PostType DEF Kinds, SecuredKinds
    <3>3. settled \in Nat /\ (settled > 0 => v \in Invoices)
      <4>1. IntentAmount[of] \in Nat /\ v \in Invoices \cup {None}
        BY <3>1
      <4>2. v # None => v \in Invoices /\ AmountDue(v) \in Int
        BY <4>1 DEF AmountDue
      <4>3. CASE v = None
        BY <4>3 DEF SettledBy
      <4>4. CASE v # None
        <5> DEFINE due == AmountDue(v)
        <5>1. settled = IF due <= 0 THEN 0 ELSE IF due < IntentAmount[of] THEN due ELSE IntentAmount[of]
          BY <4>4 DEF SettledBy
        <5>2. due \in Int /\ v \in Invoices
          BY <4>2, <4>4
        <5> HIDE DEF due, settled, v
        <5> QED BY <4>1, <5>1, <5>2
      <4> QED BY <4>3, <4>4
    <3>4. Post(credited, <<"invoice_debit", of>>, "DEBIT", settled) \in Ledgers
      BY <3>2, <3>3, PostType DEF Kinds, SecuredKinds
    <3>5. invoice' \in [Invoices -> [status : InvoiceStatus, paid : Nat]]
      <4>1. CASE settled > 0
        <5> DEFINE row == [status |-> IF invoice[v].paid + settled >= InvoiceTotal[v]
                                      THEN "PAID" ELSE "PARTIALLY_PAID",
                           paid |-> invoice[v].paid + settled]
        <5>1. invoice' = [invoice EXCEPT ![v] = row]
          BY <2>11, <4>1 DEF CommitPayment
        <5>2. v \in Invoices /\ invoice[v].paid + settled \in Nat
          BY <3>3, <4>1
        <5>3. row \in [status : InvoiceStatus, paid : Nat]
          BY <5>2 DEF InvoiceStatus
        <5> HIDE DEF row, settled, v
        <5> QED BY <5>1, <5>2, <5>3
      <4>2. CASE ~(settled > 0)
        BY <2>11, <4>2 DEF CommitPayment
      <4> QED BY <4>1, <4>2
    <3>6. ledger' \in Ledgers
      BY <2>11, <3>2, <3>4 DEF CommitPayment
    <3>7. intent' \in [Intents -> [status : PaymentStatus \cup {"NONE"}, credited : BOOLEAN]]
      BY <2>11 DEF CommitPayment, PaymentStatus
    <3> QED BY <1>3, <2>11, <3>5, <3>6, <3>7 DEF CommitPayment
  <2>12. CASE AlreadyCredited(p)
    BY <1>3, <2>12 DEF AlreadyCredited
  <2>13. CASE RecordStatus(p)
    <3> DEFINE s == MapPaymentStatus(job[p].status)
    <3>1. intent' = [intent EXCEPT ![of] = [@ EXCEPT !.status = s]]
      BY <2>13 DEF RecordStatus
    <3>2. of \in Intents => [intent[of] EXCEPT !.status = s] \in [status : PaymentStatus \cup {"NONE"}, credited : BOOLEAN]
      BY <2>0
    <3>3. intent' \in [Intents -> [status : PaymentStatus \cup {"NONE"}, credited : BOOLEAN]]
      BY <3>1, <3>2
    <3> QED BY <1>3, <2>13, <3>3 DEF RecordStatus
  <2>14. CASE MarkReceipt(p)
    BY <1>2, <2>14 DEF MarkReceipt
  <2>15. CASE CommitPurchase(p)
    <3>1. PostUnkeyed(ledger, "PURCHASE", job[p].amount) \in Ledgers
      BY <2>0, PostType DEF Kinds
    <3> QED BY <1>2, <2>15, <3>1 DEF CommitPurchase
  <2> QED BY <1>4, <2>1, <2>2, <2>3, <2>4, <2>5, <2>6, <2>7, <2>8, <2>9, <2>10, <2>11,
             <2>12, <2>13, <2>14, <2>15 DEF Progress
<1>5. ASSUME NEW p \in Procs, Crash(p) PROVE TypeOK'
  BY <1>2, <1>5 DEF Crash
<1>6. ASSUME NEW v \in Invoices, CreateInvoice(v) PROVE TypeOK'
  <2>1. [invoice[v] EXCEPT !.status = "ISSUED"] \in [status : InvoiceStatus, paid : Nat]
    BY DEF InvoiceStatus
  <2>2. invoice' = [invoice EXCEPT ![v] = [@ EXCEPT !.status = "ISSUED"]]
    BY <1>6 DEF CreateInvoice
  <2> QED BY <1>6, <2>1, <2>2 DEF CreateInvoice
<1>7. ASSUME NEW i \in Intents, GatewaySettles(i) PROVE TypeOK'
  BY <1>7 DEF GatewaySettles, GatewayStatus, Events
<1>8. CASE ReversePurchase
  <2>1. PICK a \in Amounts : ledger' = PostUnkeyed(ledger, "REVERSAL", a)
    BY <1>8 DEF ReversePurchase
  <2>2. ledger' \in Ledgers
    BY <2>1, PostType DEF Kinds, SecuredKinds
  <2> QED BY <1>8, <2>2 DEF ReversePurchase
<1>9. CASE UNCHANGED vars
  BY <1>9 DEF vars
<1> QED BY <1>1, <1>4, <1>5, <1>6, <1>7, <1>8, <1>9 DEF Next

\* In every reachable state every variable has its type.
THEOREM TypeCorrect == Spec => []TypeOK
  BY TypeInit, TypeStep, PTL DEF Spec

-----------------------------------------------------------------------------
(* What a posting does to the ledger.                                      *)

Additions == {"CREDIT", "RELEASE"}

\* A first posting under a key sets that entry, no other, and moves the balance
\* by its amount.
LEMMA PostEffect ==
    ASSUME NEW l \in Ledgers, NEW key \in Keys, NEW kind \in SecuredKinds, NEW amount \in Nat,
           ~Posted(l, key)
    PROVE  LET m == Post(l, key, kind, amount) IN
           /\ m \in Ledgers
           /\ m.entry[key] = amount
           /\ \A k \in Keys \ {key} : m.entry[k] = l.entry[k]
           /\ Secured(m) = IF kind \in Additions THEN Secured(l) + amount ELSE Secured(l) - amount
<1> DEFINE m == Post(l, key, kind, amount)
           total == [l.total EXCEPT ![kind] = @ + amount]
<1>1. /\ l.total \in [Kinds -> Nat]
      /\ l.entry \in [Keys -> Nat]
  BY DEF Ledgers
<1>2. /\ m.total = total
      /\ m.entry = [l.entry EXCEPT ![key] = amount]
  BY DEF Post
<1>3. \A k \in Kinds : total[k] = IF k = kind THEN l.total[k] + amount ELSE l.total[k]
  BY <1>1
<1>4. Secured(m) = IF kind \in Additions THEN Secured(l) + amount ELSE Secured(l) - amount
  <2>1. \A k \in SecuredKinds : l.total[k] \in Nat /\ m.total[k] = total[k]
    BY <1>1, <1>2 DEF Kinds
  <2>2. \A k \in SecuredKinds : total[k] = IF k = kind THEN l.total[k] + amount ELSE l.total[k]
    BY <1>3 DEF Kinds
  <2> QED BY <2>1, <2>2 DEF Secured, SecuredKinds, Additions
<1>5. m \in Ledgers
  BY PostType DEF Kinds
<1> QED BY <1>1, <1>2, <1>4, <1>5

\* A posting under any key only ever adds to the entries, and one that adds to the
\* balance never lowers it.
LEMMA PostSum ==
    ASSUME NEW l \in Ledgers, NEW key \in Keys, NEW kind \in SecuredKinds, NEW amount \in Nat
    PROVE  LET m == Post(l, key, kind, amount) IN
           /\ m \in Ledgers
           /\ \A k \in Keys \ {key} : m.entry[k] = l.entry[k]
           /\ Secured(m) \in Int
           /\ Secured(m) >= IF kind \in Additions THEN Secured(l) ELSE Secured(l) - amount
<1>1. Secured(l) \in Int
  BY DEF Secured, Ledgers, Kinds, SecuredKinds
<1>2. CASE Posted(l, key)
  BY <1>1, <1>2 DEF Post
<1>3. CASE ~Posted(l, key)
  BY <1>1, <1>3, PostEffect
<1> QED BY <1>2, <1>3

\* A posting leaves the entries under other keys alone.
LEMMA PostElsewhere ==
    ASSUME NEW l \in Ledgers, NEW key, NEW kind, NEW amount, NEW k \in Keys, k # key
    PROVE  Post(l, key, kind, amount).entry[k] = l.entry[k]
<1>1. l.entry \in [Keys -> Nat]
  BY DEF Ledgers
<1>2. Post(l, key, kind, amount) = l \/ Post(l, key, kind, amount).entry = [l.entry EXCEPT ![key] = amount]
  BY DEF Post
<1> QED BY <1>1, <1>2

\* An entry without a key leaves every keyed entry as it is.
LEMMA UnkeyedEffect ==
    ASSUME NEW l \in Ledgers, NEW kind \in Kinds, NEW amount \in Nat
    PROVE  LET m == PostUnkeyed(l, kind, amount) IN
           /\ m \in Ledgers
           /\ m.entry = l.entry
           /\ Secured(m) = IF kind \in Additions THEN Secured(l) + amount
                           ELSE IF kind \in SecuredKinds THEN Secured(l) - amount ELSE Secured(l)
<1> DEFINE m == PostUnkeyed(l, kind, amount)
           total == [l.total EXCEPT ![kind] = @ + amount]
<1>1. l.total \in [Kinds -> Nat]
  BY DEF Ledgers
<1>2. m.total = total /\ m.entry = l.entry
  BY DEF PostUnkeyed, Ledgers
<1>3. \A k \in Kinds : total[k] = IF k = kind THEN l.total[k] + amount ELSE l.total[k]
  BY <1>1
<1>4. Secured(m) = IF kind \in Additions THEN Secured(l) + amount
                   ELSE IF kind \in SecuredKinds THEN Secured(l) - amount ELSE Secured(l)
  BY <1>1, <1>2, <1>3 DEF Secured, Kinds, SecuredKinds, Additions
<1> QED BY <1>2, <1>4, PostType

-----------------------------------------------------------------------------
(* The requests.                                                           *)

\* What is known of a request's arguments.
LEMMA JobFacts ==
    ASSUME TypeOK, NEW p \in Procs
    PROVE  /\ job[p].op \in HoldOps \cup {"hold"} => job[p].of \in Holds
           /\ job[p].op = "invoice" => job[p].of \in Invoices
           /\ job[p].op \in PaymentOps \cup {"intent"} => job[p].of \in Intents
           /\ job[p].op \in {"adjust_credit", "adjust_debit"} => job[p].of \in Adjustments \cup {None}
           /\ job[p].amount \in Nat
           /\ job[p].op \in {"hold", "capture"} => job[p].amount > 0
  BY DEF TypeOK, Jobs, Request, HoldOps, PaymentOps, Idle, Positive

\* The end of a transaction leaves the other requests and their locks alone.
LEMMA Returned ==
    ASSUME TypeOK, NEW p \in Procs, Return(p) \/ ReturnPayment(p)
    PROVE  /\ pc'[p] \in {"idle", "done"}
           /\ \A q \in Procs \ {p} :
                /\ pc'[q] = pc[q]
                /\ job'[q] = job[q]
                /\ walletLock = q => walletLock' = q
                /\ \A i \in Intents : intentLock[i] = q => intentLock'[i] = q
  BY DEF TypeOK, Return, ReturnPayment, Unlock

Commit(p) ==
    \/ CommitAdjust(p) \/ CommitHold(p) \/ CommitRelease(p) \/ CommitCapture(p)
    \/ CommitInvoice(p) \/ CommitPayment(p)

\* Only commits, purchases and their reversals write to the ledger or a hold.
LEMMA LedgerSteps ==
    ASSUME [Next]_vars
    PROVE  \/ UNCHANGED <<ledger, hold>>
           \/ ReversePurchase
           \/ \E p \in Procs : Commit(p) \/ CommitPurchase(p)
  BY DEF Next, BeginRequest, Progress, Commit, vars, wallet, BeginAdjust, BeginHold, BeginRelease,
     BeginCapture, BeginPayInvoice, BeginIntent, BeginVerify, BeginPurchase, BeginAt, BeginWebhook, LockIntent, LockWallet,
     Admit, Refuse, InsertIntent, AlreadyCredited, RecordStatus, MarkReceipt, Crash, CreateInvoice,
     GatewaySettles

\* A request that opens its transaction disturbs no other request and no lock.
LEMMA Opened ==
    ASSUME TypeOK, NEW p \in Procs, BeginRequest(p)
    PROVE  /\ pc'[p] \in {"open", "paying"}
           /\ \A q \in Procs \ {p} : pc'[q] = pc[q] /\ job'[q] = job[q]
           /\ UNCHANGED <<ledger, hold, invoice, intent, walletLock, intentLock>>
  BY DEF TypeOK, BeginRequest, Begin, BeginAdjust, BeginHold, BeginRelease, BeginCapture,
     BeginPayInvoice, BeginIntent, BeginVerify, BeginPurchase, BeginAt, BeginWebhook, wallet, locks

\* Which steps end a request's transaction.
LEMMA Endings ==
    ASSUME NEW p \in Procs,
           Commit(p) \/ CommitPurchase(p) \/ Refuse(p) \/ InsertIntent(p) \/ AlreadyCredited(p)
               \/ RecordStatus(p) \/ MarkReceipt(p) \/ Crash(p)
    PROVE  Return(p) \/ ReturnPayment(p)
  BY DEF Commit, CommitAdjust, CommitHold, CommitRelease, CommitCapture, CommitInvoice,
     CommitPayment, CommitPurchase, Refuse, InsertIntent, AlreadyCredited, RecordStatus, MarkReceipt, Crash

\* A lock, once taken, is held to the end of the transaction.
LEMMA LocksStep == TypeOK /\ LocksHeld /\ [Next]_vars => LocksHeld'
<1> SUFFICES ASSUME TypeOK, LocksHeld, [Next]_vars PROVE LocksHeld'
  OBVIOUS
<1>1. ASSUME NEW p \in Procs, BeginRequest(p) PROVE LocksHeld'
  BY <1>1, Opened DEF LocksHeld
<1>2. ASSUME NEW p \in Procs, LockIntent(p) PROVE LocksHeld'
  <2> DEFINE i == job[p].of
  <2>1. i \in Intents /\ intentLock[i] = None /\ job[p].op \in PaymentOps
    BY <1>2, JobFacts DEF LockIntent
  <2>2. /\ pc' = [pc EXCEPT ![p] = "row"]
        /\ intentLock' = [intentLock EXCEPT ![i] = p]
        /\ UNCHANGED <<walletLock, job>>
    BY <1>2 DEF LockIntent
  <2>3. \A q \in Procs : q # None
    BY FundsAssumption
  <2>4. ASSUME NEW q \in Procs, job[q].op \in PaymentOps PROVE job[q].of \in Intents
    BY <2>4, JobFacts
  <2> QED BY <2>1, <2>2, <2>3, <2>4 DEF LocksHeld, TypeOK
<1>3. ASSUME NEW p \in Procs, LockWallet(p) PROVE LocksHeld'
  <2>1. /\ pc' = [pc EXCEPT ![p] = "locked"]
        /\ walletLock = None
        /\ walletLock' = p
        /\ UNCHANGED <<intentLock, job>>
        /\ WantsWallet(p)
    BY <1>3 DEF LockWallet
  <2>2. \A q \in Procs : q # None
    BY FundsAssumption
  <2> QED BY <2>1, <2>2 DEF LocksHeld, TypeOK, WantsWallet
<1>4. ASSUME NEW p \in Procs, Admit(p) PROVE LocksHeld'
  <2>1. /\ pc' = [pc EXCEPT ![p] = "admitted"]
        /\ pc[p] = "locked"
        /\ job' = [job EXCEPT ![p] = [@ EXCEPT !.amount = Wanted(p)]]
        /\ UNCHANGED <<walletLock, intentLock>>
    BY <1>4 DEF Admit, locks
  <2>2. \A q \in Procs : job'[q].op = job[q].op /\ job'[q].of = job[q].of
    BY <2>1 DEF TypeOK, Jobs, Request, Idle
  <2> QED BY <2>1, <2>2 DEF LocksHeld, TypeOK
<1>5. ASSUME NEW p \in Procs, Return(p) \/ ReturnPayment(p) PROVE LocksHeld'
  <2>1. ASSUME NEW q \in Procs, job[q].op \in PaymentOps PROVE job[q].of \in Intents
    BY <2>1, JobFacts
  <2> QED BY <1>5, <2>1, Returned DEF LocksHeld
<1>6. CASE UNCHANGED <<locks, pc, job>>
  BY <1>6 DEF LocksHeld, locks
<1>7. CASE \E p \in Procs : BeginRequest(p) \/ Progress(p) \/ Crash(p)
  BY <1>1, <1>2, <1>3, <1>4, <1>5, <1>7, Endings DEF Progress, Commit
<1>8. ASSUME NEW v \in Invoices, CreateInvoice(v) PROVE LocksHeld'
  BY <1>6, <1>8 DEF CreateInvoice
<1>9. ASSUME NEW i \in Intents, GatewaySettles(i) PROVE LocksHeld'
  BY <1>6, <1>9 DEF GatewaySettles
<1>10. CASE ReversePurchase
  BY <1>6, <1>10 DEF ReversePurchase
<1>11. CASE UNCHANGED vars
  BY <1>6, <1>11 DEF vars
<1> QED BY <1>7, <1>8, <1>9, <1>10, <1>11 DEF Next

\* Steps that write neither ledger, hold, invoice nor intent.
Quiet == UNCHANGED <<ledger, hold, invoice, intent>>

\* Only these steps are not quiet.
LEMMA WalletSteps ==
    ASSUME [Next]_vars
    PROVE  \/ Quiet
           \/ ReversePurchase
           \/ \E v \in Invoices : CreateInvoice(v)
           \/ \E p \in Procs : Commit(p) \/ CommitPurchase(p) \/ InsertIntent(p) \/ RecordStatus(p)
  BY DEF Next, BeginRequest, Progress, Commit, Quiet, vars, wallet, BeginAdjust, BeginHold,
     BeginRelease, BeginCapture, BeginPayInvoice, BeginIntent, BeginVerify, BeginPurchase, BeginAt, BeginWebhook,
     LockIntent, LockWallet, Admit, Refuse, AlreadyCredited, MarkReceipt, Crash, GatewaySettles

\* A process that commits is admitted, and so holds the wallet's lock.
LEMMA Committer ==
    ASSUME NEW p \in Procs, Commit(p)
    PROVE  pc[p] = "admitted" /\ job[p].op \notin {"intent", "none"}
  BY DEF Commit, CommitAdjust, CommitHold, CommitRelease, CommitCapture, CommitInvoice,
     CommitPayment, PaymentOps

\* How a request comes to hold the wallet, or to be admitted, in a step.
LEMMA Reaching ==
    ASSUME TypeOK, [Next]_vars, NEW q \in Procs, pc'[q] \in {"locked", "admitted"}
    PROVE  \/ LockWallet(q)
           \/ Admit(q)
           \/ pc'[q] = pc[q] /\ job'[q] = job[q]
<1> DEFINE Goal == LockWallet(q) \/ Admit(q) \/ (pc'[q] = pc[q] /\ job'[q] = job[q])
<1>1. ASSUME NEW p \in Procs, BeginRequest(p) PROVE Goal
  BY <1>1, Opened
<1>2. ASSUME NEW p \in Procs, Return(p) \/ ReturnPayment(p) PROVE Goal
  BY <1>2, Returned
<1>3. ASSUME NEW p \in Procs, LockIntent(p) PROVE Goal
  BY <1>3 DEF LockIntent, TypeOK
<1>4. ASSUME NEW p \in Procs, LockWallet(p) PROVE Goal
  BY <1>4 DEF LockWallet, TypeOK
<1>5. ASSUME NEW p \in Procs, Admit(p) PROVE Goal
  BY <1>5 DEF Admit, TypeOK
<1>6. CASE \E p \in Procs : BeginRequest(p) \/ Progress(p) \/ Crash(p)
  BY <1>1, <1>2, <1>3, <1>4, <1>5, <1>6, Endings DEF Progress, Commit
<1>7. CASE UNCHANGED <<pc, job>>
  BY <1>7
<1> QED BY <1>6, <1>7 DEF Next, CreateInvoice, GatewaySettles, ReversePurchase, vars

\* A payment is credited by the one request that holds its row.
LEMMA PaymentsStep ==
    TypeOK /\ LocksHeld /\ PaymentsUncredited /\ [Next]_vars => PaymentsUncredited'
<1> SUFFICES ASSUME TypeOK, LocksHeld, PaymentsUncredited, [Next]_vars,
                    NEW q \in Procs,
                    pc'[q] \in {"locked", "admitted"},
                    job'[q].op \in PaymentOps
             PROVE  ~intent'[job'[q].of].credited
  BY DEF PaymentsUncredited
<1>1. CASE ~\E p \in Procs : CommitPayment(p)
  <2>1. \A i \in Intents : intent'[i].credited = intent[i].credited
    <3>1. CASE Quiet
      BY <3>1 DEF Quiet
    <3>2. ASSUME NEW p \in Procs, Commit(p) PROVE UNCHANGED intent
      BY <1>1, <3>2 DEF Commit, CommitAdjust, CommitHold, CommitRelease, CommitCapture, CommitInvoice
    <3>3. ASSUME NEW p \in Procs, InsertIntent(p) PROVE \A i \in Intents : intent'[i].credited = intent[i].credited
      BY <3>3 DEF InsertIntent, TypeOK
    <3>4. ASSUME NEW p \in Procs, RecordStatus(p) PROVE \A i \in Intents : intent'[i].credited = intent[i].credited
      BY <3>4 DEF RecordStatus, TypeOK
    <3>5. CASE ReversePurchase
      BY <3>5 DEF ReversePurchase
    <3>6. ASSUME NEW v \in Invoices, CreateInvoice(v) PROVE UNCHANGED intent
      BY <3>6 DEF CreateInvoice
    <3>7. ASSUME NEW p \in Procs, CommitPurchase(p) PROVE UNCHANGED intent
      BY <3>7 DEF CommitPurchase
    <3> QED BY <3>1, <3>2, <3>3, <3>4, <3>5, <3>6, <3>7, WalletSteps
  <2>2. CASE LockWallet(q)
    <3>1. job'[q] = job[q] /\ ~intent[job[q].of].credited
      BY <2>2 DEF LockWallet, WantsWallet
    <3> QED BY <2>1, <3>1, JobFacts
  <2>3. CASE Admit(q)
    <3>1. job' = [job EXCEPT ![q] = [@ EXCEPT !.amount = Wanted(q)]] /\ pc[q] = "locked"
      BY <2>3 DEF Admit
    <3>2. job'[q].op = job[q].op /\ job'[q].of = job[q].of
      BY <3>1 DEF TypeOK, Jobs, Request, Idle
    <3> QED BY <2>1, <3>1, <3>2, JobFacts DEF PaymentsUncredited
  <2>4. CASE pc'[q] = pc[q] /\ job'[q] = job[q]
    BY <2>1, <2>4, JobFacts DEF PaymentsUncredited
  <2> QED BY <2>2, <2>3, <2>4, Reaching
<1>2. ASSUME NEW p \in Procs, CommitPayment(p) PROVE ~intent'[job'[q].of].credited
  <2> DEFINE i == job[p].of
  <2>1. pc[p] = "admitted" /\ job[p].op \in PaymentOps /\ i \in Intents /\ intentLock[i] = p
    BY <1>2, JobFacts DEF CommitPayment, LocksHeld
  <2>2. Return(p) \/ ReturnPayment(p)
    BY <1>2 DEF CommitPayment
  <2>3. q # p /\ pc'[q] = pc[q] /\ job'[q] = job[q]
    BY <2>2, Returned
  <2>4. job[q].of \in Intents /\ job[q].of # i
    BY <2>1, <2>3, JobFacts DEF LocksHeld
  <2>5. intent' = [intent EXCEPT ![i] = [status |-> "COMPLETED", credited |-> TRUE]]
    BY <1>2 DEF CommitPayment
  <2> QED BY <2>3, <2>4, <2>5 DEF PaymentsUncredited, TypeOK
<1> QED BY <1>1, <1>2

\* What an admitted request saw under the lock cannot change before it commits.
LEMMA CheckedStep ==
    TypeOK /\ RefundsBounded /\ LocksHeld /\ CheckedStillHolds /\ [Next]_vars => CheckedStillHolds'
<1> SUFFICES ASSUME TypeOK, RefundsBounded, LocksHeld, CheckedStillHolds, [Next]_vars,
                    NEW q \in Procs, pc'[q] = "admitted"
             PROVE  Checked(q)'
  BY DEF CheckedStillHolds
<1>1. CASE Admit(q)
  <2>1. /\ job' = [job EXCEPT ![q] = [@ EXCEPT !.amount = Wanted(q)]]
        /\ Admissible(q)
        /\ UNCHANGED <<ledger, hold, invoice>>
    BY <1>1 DEF Admit, wallet
  <2>2. /\ job'[q].op = job[q].op
        /\ job'[q].of = job[q].of
        /\ job'[q].amount = Wanted(q)
    BY <2>1 DEF TypeOK, Jobs, Request, Idle
  <2>3. Wanted(q)' = Wanted(q)
    BY <2>1, <2>2 DEF Wanted, AmountDue
  <2>4. job[q].op \in FundsOps => Secured(ledger) >= Wanted(q)
    <3>1. Wanted(q) \in Int
      <4>1. job[q].op = "invoice" => AmountDue(job[q].of) \in Int
        BY JobFacts, FundsAssumption DEF TypeOK, AmountDue, Positive
      <4> QED BY <4>1, JobFacts DEF Wanted
    <3>2. /\ Secured(ledger) \in Int
          /\ ledger.total["PURCHASE"] \in Nat /\ ledger.total["REVERSAL"] \in Nat
          /\ ledger.total["REVERSAL"] <= ledger.total["PURCHASE"]
      BY DEF TypeOK, Ledgers, Secured, Kinds, SecuredKinds, RefundsBounded
    <3>3. job[q].op \in FundsOps =>
              Secured(ledger) - ledger.total["PURCHASE"] + ledger.total["REVERSAL"] >= Wanted(q)
      BY <2>1 DEF Admissible, Available, Balance
    <3> QED BY <3>1, <3>2, <3>3
  <2>5. Unsettled(q)'
    BY <2>1, <2>2, <2>3 DEF Admissible, Unsettled, Wanted, AmountDue, HoldOps
  <2> QED BY <2>1, <2>2, <2>3, <2>4, <2>5 DEF Checked
<1>2. CASE ~Admit(q)
  <2>1. pc[q] = "admitted" /\ job'[q] = job[q]
    BY <1>2, Reaching DEF LockWallet, TypeOK
  <2>2. Checked(q)
    BY <2>1 DEF CheckedStillHolds
  <2>3. ASSUME UNCHANGED <<hold, invoice>>, Secured(ledger') = Secured(ledger)
        PROVE  Checked(q)'
    BY <2>1, <2>2, <2>3 DEF Checked, Unsettled, Wanted, AmountDue
  <2>4. CASE ReversePurchase
    <3>1. PICK a \in Amounts : ledger' = PostUnkeyed(ledger, "REVERSAL", a) /\ UNCHANGED <<hold, invoice>>
      BY <2>4 DEF ReversePurchase
    <3>2. a \in Nat
      BY FundsAssumption DEF Positive
    <3>3. Secured(ledger') = Secured(ledger)
      BY <3>1, <3>2, UnkeyedEffect DEF TypeOK, Kinds, SecuredKinds, Additions
    <3> QED BY <2>3, <3>1, <3>3
  <2>5. ASSUME NEW v \in Invoices, CreateInvoice(v) PROVE Checked(q)'
    <3>1. invoice' = [invoice EXCEPT ![v] = [@ EXCEPT !.status = "ISSUED"]]
      BY <2>5 DEF CreateInvoice
    <3>2. \A w \in Invoices : invoice'[w].paid = invoice[w].paid
                                 /\ (invoice'[w].status = "PAID" => invoice[w].status = "PAID")
      BY <3>1 DEF TypeOK
    <3>3. UNCHANGED <<ledger, hold>>
      BY <2>5 DEF CreateInvoice
    <3>4. job[q].op = "invoice" => job[q].of \in Invoices
      BY JobFacts
    <3>5. Wanted(q)' = Wanted(q)
      BY <2>1, <3>2, <3>4 DEF Wanted, AmountDue
    <3>6. Unsettled(q)'
      BY <2>1, <2>2, <3>2, <3>3, <3>4 DEF Checked, Unsettled, AmountDue
    <3> QED BY <2>1, <2>2, <3>3, <3>5, <3>6 DEF Checked
  <2>6. ASSUME NEW p \in Procs, Commit(p) PROVE FALSE
    <3>1. pc[p] = "admitted" /\ (Return(p) \/ ReturnPayment(p))
      BY <2>6, Committer, Endings
    <3>2. p = q
      BY <2>1, <3>1 DEF LocksHeld
    <3> QED BY <3>1, <3>2, Returned
  <2>7. ASSUME NEW p \in Procs, InsertIntent(p) \/ RecordStatus(p) PROVE UNCHANGED <<ledger, hold, invoice>>
    BY <2>7 DEF InsertIntent, RecordStatus
  <2>8. ASSUME NEW p \in Procs, CommitPurchase(p)
        PROVE  UNCHANGED <<hold, invoice>> /\ Secured(ledger') = Secured(ledger)
    <3>1. job[p].amount \in Nat /\ ledger \in Ledgers
      BY JobFacts DEF TypeOK
    <3> QED BY <2>8, <3>1, UnkeyedEffect DEF CommitPurchase, Kinds, SecuredKinds, Additions
  <2> QED BY <2>3, <2>4, <2>5, <2>6, <2>7, <2>8, WalletSteps DEF Quiet
<1> QED BY <1>1, <1>2

\* The keys of the entries that belong to holds.
HoldKeys == {"hold", "release", "capture_release", "capture_debit"} \X Holds

\* A hold and its ledger entries change together.
LEMMA HoldsStep ==
    TypeOK /\ CheckedStillHolds /\ HoldSettledOnce /\ [Next]_vars => HoldSettledOnce'
<1> SUFFICES ASSUME TypeOK, CheckedStillHolds, HoldSettledOnce, [Next]_vars
             PROVE  HoldSettledOnce'
  OBVIOUS
<1>0. ledger \in Ledgers /\ HoldKeys \subseteq Keys
  BY DEF TypeOK, HoldKeys, Keys
<1>1. CASE UNCHANGED hold /\ (\A k \in HoldKeys : ledger'.entry[k] = ledger.entry[k])
  <2>1. \A h \in Holds, t \in {"hold", "release", "capture_release", "capture_debit"} :
            ledger'.entry[<<t, h>>] = ledger.entry[<<t, h>>]
    BY <1>1 DEF HoldKeys
  <2> QED BY <1>1, <2>1 DEF HoldSettledOnce, Settled, Posted
<1>2. CASE UNCHANGED <<ledger, hold>>
  BY <1>1, <1>2
<1>3. CASE ReversePurchase
  <2>1. PICK a \in Amounts : ledger' = PostUnkeyed(ledger, "REVERSAL", a) /\ UNCHANGED hold
    BY <1>3 DEF ReversePurchase
  <2>2. a \in Nat
    BY FundsAssumption DEF Positive
  <2> QED BY <1>0, <1>1, <2>1, <2>2, UnkeyedEffect DEF Kinds, SecuredKinds
<1>10. ASSUME NEW h \in Holds, hold'[h] = hold[h],
              \A t \in {"hold", "release", "capture_release", "capture_debit"} :
                  ledger'.entry[<<t, h>>] = ledger.entry[<<t, h>>]
       PROVE  Settled(h)'
  BY <1>10 DEF HoldSettledOnce, Settled, Posted
<1>4. ASSUME NEW p \in Procs, CommitAdjust(p) PROVE HoldSettledOnce'
  <2>1. job[p].amount \in Nat /\ job[p].of \in Adjustments \cup {None}
    BY <1>4, JobFacts DEF CommitAdjust
  <2>2. PICK kind \in Kinds :
          ledger' = IF job[p].of = None THEN PostUnkeyed(ledger, kind, job[p].amount)
                    ELSE Post(ledger, <<"adjustment", job[p].of>>, kind, job[p].amount)
    BY <1>4 DEF CommitAdjust, Kinds, SecuredKinds
  <2>3. job[p].of # None => <<"adjustment", job[p].of>> \in Keys \ HoldKeys
    BY <2>1 DEF Keys, HoldKeys
  <2>4. \A k \in HoldKeys : ledger'.entry[k] = ledger.entry[k]
    <3> TAKE k \in HoldKeys
    <3>1. CASE job[p].of = None
      BY <1>0, <2>1, <2>2, <3>1, UnkeyedEffect
    <3>2. CASE job[p].of # None
      <4>1. k \in Keys /\ k # <<"adjustment", job[p].of>>
        BY <1>0, <2>3, <3>2
      <4> QED BY <1>0, <2>2, <3>2, <4>1, PostElsewhere
    <3> QED BY <3>1, <3>2
  <2> QED BY <1>1, <1>4, <2>4 DEF CommitAdjust
<1>5. ASSUME NEW p \in Procs, CommitInvoice(p) PROVE HoldSettledOnce'
  <2>1. job[p].amount \in Nat /\ job[p].of \in Invoices
    BY <1>5, JobFacts DEF CommitInvoice
  <2>2. <<"wallet_payment", job[p].of>> \in Keys \ HoldKeys
    BY <2>1 DEF Keys, HoldKeys
  <2>3. ledger' = Post(ledger, <<"wallet_payment", job[p].of>>, "DEBIT", job[p].amount)
    BY <1>5 DEF CommitInvoice
  <2>4. \A k \in HoldKeys : ledger'.entry[k] = ledger.entry[k]
    <3> TAKE k \in HoldKeys
    <3>1. k \in Keys /\ k # <<"wallet_payment", job[p].of>>
      BY <1>0, <2>2
    <3> QED BY <1>0, <2>3, <3>1, PostElsewhere
  <2> QED BY <1>1, <1>5, <2>4 DEF CommitInvoice
<1>6. ASSUME NEW p \in Procs, CommitPayment(p) PROVE HoldSettledOnce'
  <2> DEFINE i == job[p].of
             credited == Post(ledger, <<"credit", i>>, "CREDIT", IntentAmount[i])
             settled == SettledBy(i)
  <2>1. i \in Intents /\ IntentAmount[i] \in Nat
    BY <1>6, JobFacts, FundsAssumption DEF CommitPayment, Positive
  <2>2. settled \in Nat
    BY <2>1, FundsAssumption DEF SettledBy, AmountDue, Positive, TypeOK
  <2>3. <<"credit", i>> \in Keys \ HoldKeys /\ <<"invoice_debit", i>> \in Keys \ HoldKeys
    BY <2>1 DEF Keys, HoldKeys
  <2>4. credited \in Ledgers
    BY <1>0, <2>1, PostType DEF Kinds, SecuredKinds
  <2>5. ASSUME NEW k \in HoldKeys PROVE
          /\ credited.entry[k] = ledger.entry[k]
          /\ Post(credited, <<"invoice_debit", i>>, "DEBIT", settled).entry[k] = ledger.entry[k]
    <3>1. k \in Keys /\ k # <<"credit", i>> /\ k # <<"invoice_debit", i>>
      BY <1>0, <2>3
    <3>2. credited.entry[k] = ledger.entry[k]
      BY <1>0, <3>1, PostElsewhere
    <3>3. Post(credited, <<"invoice_debit", i>>, "DEBIT", settled).entry[k] = credited.entry[k]
      BY <2>4, <3>1, PostElsewhere
    <3> QED BY <3>2, <3>3
  <2>6. UNCHANGED hold /\ (ledger' = credited \/ ledger' = Post(credited, <<"invoice_debit", i>>, "DEBIT", settled))
    BY <1>6 DEF CommitPayment
  <2>7. \A k \in HoldKeys : ledger'.entry[k] = ledger.entry[k]
    BY <2>5, <2>6
  <2> QED BY <1>1, <2>6, <2>7

<1>7. ASSUME NEW p \in Procs, CommitHold(p) PROVE HoldSettledOnce'
  <2>0. PICK h \in Holds : h = job[p].of
    BY <1>7, JobFacts DEF CommitHold
  <2>1. h \in Holds /\ job[p].amount \in Nat /\ job[p].amount > 0
    BY <1>7, <2>0, JobFacts DEF CommitHold
  <2>2. CASE hold[h] # "NONE"
    BY <1>2, <1>7, <2>0, <2>2 DEF CommitHold
  <2>3. CASE hold[h] = "NONE"
    <3>1. /\ ledger' = Post(ledger, <<"hold", h>>, "HOLD", job[p].amount)
          /\ hold' = [hold EXCEPT ![h] = "ACTIVE"]
      BY <1>7, <2>0, <2>3 DEF CommitHold
    <3>2. <<"hold", h>> \in Keys /\ ~Posted(ledger, <<"hold", h>>)
      BY <2>1, <2>3 DEF HoldSettledOnce, Settled, Keys
    <3>3. ledger'.entry[<<"hold", h>>] = job[p].amount
      BY <1>0, <2>1, <3>1, <3>2, PostEffect DEF Kinds, SecuredKinds
    <3>4. ASSUME NEW k \in HoldKeys, k # <<"hold", h>> PROVE ledger'.entry[k] = ledger.entry[k]
      BY <1>0, <3>1, <3>4, PostElsewhere
    <3>5. Settled(h)'
      <4>1. <<"release", h>> \in HoldKeys /\ <<"capture_release", h>> \in HoldKeys /\ <<"capture_debit", h>> \in HoldKeys
        BY <2>1 DEF HoldKeys
      <4> QED BY <2>1, <2>3, <3>1, <3>3, <3>4, <4>1 DEF HoldSettledOnce, Settled, Posted, TypeOK
    <3>6. ASSUME NEW g \in Holds, g # h PROVE Settled(g)'
      BY <3>1, <3>4, <3>6, <1>10 DEF HoldKeys, TypeOK
    <3> QED BY <3>5, <3>6 DEF HoldSettledOnce
  <2> QED BY <2>2, <2>3
<1>8. ASSUME NEW p \in Procs, CommitRelease(p) PROVE HoldSettledOnce'
  <2>0. PICK h \in Holds : h = job[p].of
    BY <1>8, JobFacts DEF CommitRelease, HoldOps
  <2>1. h \in Holds /\ HoldAmount[h] \in Nat /\ HoldAmount[h] > 0
    BY <1>8, <2>0, JobFacts, FundsAssumption DEF CommitRelease, HoldOps, Positive
  <2>2. hold[h] = "ACTIVE"
    BY <1>8, <2>0 DEF CommitRelease, CheckedStillHolds, Checked, Unsettled, HoldOps
  <2>3. /\ ledger' = Post(ledger, <<"release", h>>, "RELEASE", HoldAmount[h])
        /\ hold' = [hold EXCEPT ![h] = "RELEASED"]
    BY <1>8, <2>0 DEF CommitRelease
  <2>4. <<"release", h>> \in Keys /\ ~Posted(ledger, <<"release", h>>)
    BY <2>1, <2>2 DEF HoldSettledOnce, Settled, Keys
  <2>5. ledger'.entry[<<"release", h>>] = HoldAmount[h]
    BY <1>0, <2>1, <2>3, <2>4, PostEffect DEF Kinds, SecuredKinds
  <2>6. ASSUME NEW k \in HoldKeys, k # <<"release", h>> PROVE ledger'.entry[k] = ledger.entry[k]
    BY <1>0, <2>3, <2>6, PostElsewhere
  <2>7. Settled(h)'
    <3>1. <<"hold", h>> \in HoldKeys /\ <<"capture_release", h>> \in HoldKeys /\ <<"capture_debit", h>> \in HoldKeys
      BY <2>1 DEF HoldKeys
    <3> QED BY <2>1, <2>2, <2>3, <2>5, <2>6, <3>1 DEF HoldSettledOnce, Settled, Posted, TypeOK
  <2>8. ASSUME NEW g \in Holds, g # h PROVE Settled(g)'
    BY <2>3, <2>6, <2>8, <1>10 DEF HoldKeys, TypeOK
  <2> QED BY <2>7, <2>8 DEF HoldSettledOnce
<1>9. ASSUME NEW p \in Procs, CommitCapture(p) PROVE HoldSettledOnce'
  <2>0. PICK h \in Holds : h = job[p].of
    BY <1>9, JobFacts DEF CommitCapture, HoldOps
  <2> DEFINE freed == Post(ledger, <<"capture_release", h>>, "RELEASE", HoldAmount[h])
  <2>1. h \in Holds /\ HoldAmount[h] \in Nat /\ HoldAmount[h] > 0
    BY <1>9, <2>0, JobFacts, FundsAssumption DEF CommitCapture, HoldOps, Positive
  <2>2. /\ hold[h] = "ACTIVE"
        /\ job[p].amount \in Nat
        /\ job[p].amount > 0
        /\ job[p].amount <= HoldAmount[h]
    BY <1>9, <2>0, JobFacts DEF CommitCapture, CheckedStillHolds, Checked, Unsettled, HoldOps
  <2>3. /\ ledger' = Post(freed, <<"capture_debit", h>>, "DEBIT", job[p].amount)
        /\ hold' = [hold EXCEPT ![h] = "CAPTURED"]
    BY <1>9, <2>0 DEF CommitCapture
  <2>4. /\ <<"capture_release", h>> \in Keys /\ ~Posted(ledger, <<"capture_release", h>>)
        /\ <<"capture_debit", h>> \in Keys /\ ~Posted(ledger, <<"capture_debit", h>>)
    BY <2>1, <2>2 DEF HoldSettledOnce, Settled, Keys
  <2>5. /\ freed \in Ledgers
        /\ freed.entry[<<"capture_release", h>>] = HoldAmount[h]
    BY <1>0, <2>1, <2>4, PostEffect DEF Kinds, SecuredKinds
  <2>6. freed.entry[<<"capture_debit", h>>] = ledger.entry[<<"capture_debit", h>>]
    BY <1>0, <2>4, PostElsewhere
  <2>7. ~Posted(freed, <<"capture_debit", h>>)
    BY <2>4, <2>6 DEF Posted
  <2>8. ledger'.entry[<<"capture_debit", h>>] = job[p].amount
    BY <2>2, <2>3, <2>4, <2>5, <2>7, PostEffect DEF Kinds, SecuredKinds
  <2>9. ledger'.entry[<<"capture_release", h>>] = HoldAmount[h]
    BY <2>3, <2>4, <2>5, PostElsewhere
  <2>10. ASSUME NEW k \in HoldKeys, k # <<"capture_release", h>>, k # <<"capture_debit", h>>
         PROVE  ledger'.entry[k] = ledger.entry[k]
    <3>1. freed.entry[k] = ledger.entry[k]
      BY <1>0, <2>10, PostElsewhere
    <3>2. ledger'.entry[k] = freed.entry[k]
      BY <1>0, <2>3, <2>5, <2>10, PostElsewhere
    <3> QED BY <3>1, <3>2
  <2>11. Settled(h)'
    <3>1. <<"hold", h>> \in HoldKeys /\ <<"release", h>> \in HoldKeys
      BY <2>1 DEF HoldKeys
    <3> QED BY <2>1, <2>2, <2>3, <2>8, <2>9, <2>10, <3>1 DEF HoldSettledOnce, Settled, Posted, TypeOK
  <2>12. ASSUME NEW g \in Holds, g # h PROVE Settled(g)'
    BY <2>3, <2>10, <2>12, <1>10 DEF HoldKeys, TypeOK
  <2> QED BY <2>11, <2>12 DEF HoldSettledOnce
<1>11. ASSUME NEW p \in Procs, CommitPurchase(p) PROVE HoldSettledOnce'
  <2>1. ledger'.entry = ledger.entry /\ UNCHANGED hold
    BY <1>0, <1>11, JobFacts, UnkeyedEffect DEF CommitPurchase, Kinds
  <2> QED BY <1>1, <2>1
<1> QED BY <1>2, <1>3, <1>4, <1>5, <1>6, <1>7, <1>8, <1>9, <1>11, LedgerSteps DEF Commit

\* Commits other than a payment's leave the entries that credit payments alone.
LEMMA CreditsElsewhere ==
    ASSUME TypeOK, NEW p \in Procs, Commit(p), ~CommitPayment(p), NEW i \in Intents
    PROVE  ledger'.entry[<<"credit", i>>] = ledger.entry[<<"credit", i>>]
<1> DEFINE k == <<"credit", i>>
           of == job[p].of
<1>0. ledger \in Ledgers /\ k \in Keys /\ job[p].amount \in Nat
  BY JobFacts DEF TypeOK, Keys
<1>1. CASE CommitAdjust(p)
  <2>1. PICK kind \in Kinds :
          ledger' = IF of = None THEN PostUnkeyed(ledger, kind, job[p].amount)
                    ELSE Post(ledger, <<"adjustment", of>>, kind, job[p].amount)
    BY <1>1 DEF CommitAdjust, Kinds, SecuredKinds
  <2>2. PostUnkeyed(ledger, kind, job[p].amount).entry = ledger.entry
    BY <1>0, UnkeyedEffect
  <2> QED BY <1>0, <2>1, <2>2, PostElsewhere
<1>2. CASE CommitHold(p)
  BY <1>0, <1>2, PostElsewhere DEF CommitHold
<1>3. CASE CommitRelease(p)
  BY <1>0, <1>3, PostElsewhere DEF CommitRelease
<1>4. CASE CommitCapture(p)
  <2> DEFINE freed == Post(ledger, <<"capture_release", of>>, "RELEASE", HoldAmount[of])
  <2>1. HoldAmount[of] \in Nat
    BY <1>4, JobFacts, FundsAssumption DEF CommitCapture, HoldOps, Positive
  <2>2. freed \in Ledgers
    BY <1>0, <2>1, PostType DEF Kinds, SecuredKinds
  <2>3. freed.entry[k] = ledger.entry[k]
    BY <1>0, PostElsewhere
  <2>4. Post(freed, <<"capture_debit", of>>, "DEBIT", job[p].amount).entry[k] = freed.entry[k]
    BY <1>0, <2>2, PostElsewhere
  <2> QED BY <1>4, <2>3, <2>4 DEF CommitCapture
<1>5. CASE CommitInvoice(p)
  BY <1>0, <1>5, PostElsewhere DEF CommitInvoice
<1> QED BY <1>1, <1>2, <1>3, <1>4, <1>5 DEF Commit

\* A payment, its creditedAt and the credit in the ledger change together, once.
LEMMA CreditStep ==
    TypeOK /\ PaymentsUncredited /\ CreditedOnce /\ [Next]_vars => CreditedOnce'
<1> SUFFICES ASSUME TypeOK, PaymentsUncredited, CreditedOnce, [Next]_vars, NEW i \in Intents
             PROVE  /\ intent'[i].credited <=> intent'[i].status = "COMPLETED"
                    /\ ledger'.entry[<<"credit", i>>] = IF intent'[i].credited THEN IntentAmount[i] ELSE 0
  BY DEF CreditedOnce
<1> DEFINE k == <<"credit", i>>
<1>0. ledger \in Ledgers /\ k \in Keys /\ IntentAmount[i] \in Nat /\ IntentAmount[i] > 0
  BY FundsAssumption DEF TypeOK, Keys, Positive
<1>1. CASE intent'[i] = intent[i] /\ ledger'.entry[k] = ledger.entry[k]
  BY <1>1 DEF CreditedOnce
<1>2. CASE Quiet
  BY <1>1, <1>2 DEF Quiet
<1>3. CASE ReversePurchase
  <2>1. PICK a \in Amounts : ledger' = PostUnkeyed(ledger, "REVERSAL", a) /\ UNCHANGED intent
    BY <1>3 DEF ReversePurchase
  <2>2. a \in Nat
    BY FundsAssumption DEF Positive
  <2>3. ledger'.entry = ledger.entry
    BY <1>0, <2>1, <2>2, UnkeyedEffect DEF Kinds, SecuredKinds
  <2> QED BY <1>1, <2>1, <2>3
<1>4. ASSUME NEW v \in Invoices, CreateInvoice(v) PROVE UNCHANGED <<intent, ledger>>
  BY <1>4 DEF CreateInvoice
<1>5. ASSUME NEW p \in Procs, Commit(p), ~CommitPayment(p) PROVE intent'[i] = intent[i] /\ ledger'.entry[k] = ledger.entry[k]
  <2>1. UNCHANGED intent
    BY <1>5 DEF Commit, CommitAdjust, CommitHold, CommitRelease, CommitCapture, CommitInvoice
  <2> QED BY <1>5, <2>1, CreditsElsewhere
<1>6. ASSUME NEW p \in Procs, InsertIntent(p) \/ RecordStatus(p)
      PROVE  /\ UNCHANGED ledger
             /\ intent'[i].credited = intent[i].credited
             /\ (intent'[i].status = "COMPLETED") = (intent[i].status = "COMPLETED")
  <2>1. CASE InsertIntent(p)
    <3>1. /\ UNCHANGED ledger
          /\ \/ UNCHANGED intent
             \/ /\ intent[job[p].of].status = "NONE"
                /\ intent' = [intent EXCEPT ![job[p].of] = [@ EXCEPT !.status = "PENDING"]]
      BY <2>1 DEF InsertIntent
    <3>2. CASE UNCHANGED intent
      BY <3>1, <3>2
    <3>3. CASE ~UNCHANGED intent /\ i = job[p].of
      BY <3>1, <3>3 DEF TypeOK
    <3>4. CASE ~UNCHANGED intent /\ i # job[p].of
      BY <3>1, <3>4 DEF TypeOK
    <3> QED BY <3>2, <3>3, <3>4
  <2>2. CASE RecordStatus(p)
    <3> DEFINE s == MapPaymentStatus(job[p].status)
    <3>1. /\ intent' = [intent EXCEPT ![job[p].of] = [@ EXCEPT !.status = s]]
          /\ s # "COMPLETED"
          /\ ~intent[job[p].of].credited
          /\ UNCHANGED ledger
      BY <2>2 DEF RecordStatus
    <3>2. CASE i = job[p].of
      <4>1. intent[i].status # "COMPLETED"
        BY <3>1, <3>2 DEF CreditedOnce
      <4>2. intent'[i] = [intent[i] EXCEPT !.status = s]
        BY <3>1, <3>2 DEF TypeOK
      <4>3. intent'[i].status = s /\ intent'[i].credited = intent[i].credited
        BY <4>2 DEF TypeOK
      <4> QED BY <3>1, <4>1, <4>3
    <3>3. CASE i # job[p].of
      BY <3>1, <3>3 DEF TypeOK
    <3> QED BY <3>1, <3>2, <3>3
  <2> QED BY <1>6, <2>1, <2>2
<1>7. ASSUME NEW p \in Procs, CommitPayment(p)
      PROVE  /\ intent'[i].credited <=> intent'[i].status = "COMPLETED"
             /\ ledger'.entry[k] = IF intent'[i].credited THEN IntentAmount[i] ELSE 0
  <2>0. PICK j \in Intents : j = job[p].of
    BY <1>7, JobFacts DEF CommitPayment
  <2> DEFINE credited == Post(ledger, <<"credit", j>>, "CREDIT", IntentAmount[j])
             settled == SettledBy(j)
  <2>1. /\ intent' = [intent EXCEPT ![j] = [status |-> "COMPLETED", credited |-> TRUE]]
        /\ ledger' = credited \/ ledger' = Post(credited, <<"invoice_debit", j>>, "DEBIT", settled)
        /\ ~intent[j].credited
    BY <1>7, <2>0 DEF CommitPayment, PaymentsUncredited
  <2>2. IntentAmount[j] \in Nat /\ <<"credit", j>> \in Keys /\ ~Posted(ledger, <<"credit", j>>)
    BY <2>1, FundsAssumption DEF CreditedOnce, Posted, Keys, Positive
  <2>3. credited \in Ledgers /\ credited.entry[<<"credit", j>>] = IntentAmount[j]
    BY <1>0, <2>2, PostEffect DEF Kinds, SecuredKinds
  <2>4. ledger'.entry[k] = credited.entry[k]
    BY <1>0, <2>1, <2>3, PostElsewhere
  <2>5. CASE i = j
    BY <2>1, <2>3, <2>4, <2>5 DEF TypeOK
  <2>6. CASE i # j
    <3>1. credited.entry[k] = ledger.entry[k]
      BY <1>0, <2>6, PostElsewhere
    <3> QED BY <2>1, <2>4, <2>6, <3>1 DEF TypeOK, CreditedOnce
  <2> QED BY <2>5, <2>6
<1>8. ASSUME NEW p \in Procs, CommitPurchase(p) PROVE UNCHANGED intent /\ ledger'.entry = ledger.entry
  BY <1>0, <1>8, JobFacts, UnkeyedEffect DEF CommitPurchase, Kinds
<1> QED BY <1>1, <1>2, <1>3, <1>4, <1>5, <1>6, <1>7, <1>8, WalletSteps DEF CreditedOnce

\* No step but a purchase's takes money that is not there.
LEMMA BalanceStep ==
    TypeOK /\ CheckedStillHolds /\ PaymentsUncredited /\ HoldSettledOnce /\ CreditedOnce
        /\ LockedSpendingCovered /\ [Next]_vars => LockedSpendingCovered'
<1> SUFFICES ASSUME TypeOK, CheckedStillHolds, PaymentsUncredited, HoldSettledOnce, CreditedOnce,
                    LockedSpendingCovered, [Next]_vars
             PROVE  Secured(ledger') >= 0
  BY DEF LockedSpendingCovered
<1>0. ledger \in Ledgers /\ Secured(ledger) \in Int /\ Secured(ledger) >= 0
  BY DEF TypeOK, LockedSpendingCovered, Secured, Ledgers, Kinds, SecuredKinds
<1>1. CASE UNCHANGED ledger
  BY <1>0, <1>1
<1>2. CASE ReversePurchase
  <2>1. PICK a \in Amounts : ledger' = PostUnkeyed(ledger, "REVERSAL", a)
    BY <1>2 DEF ReversePurchase
  <2>2. a \in Nat
    BY FundsAssumption DEF Positive
  <2> QED BY <1>0, <2>1, <2>2, UnkeyedEffect DEF Kinds, SecuredKinds, Additions
<1>3. ASSUME NEW p \in Procs, CommitAdjust(p) PROVE Secured(ledger') >= 0
  <2> DEFINE kind == IF job[p].op = "adjust_credit" THEN "CREDIT" ELSE "DEBIT"
  <2>1. job[p].amount \in Nat /\ (kind = "DEBIT" => Secured(ledger) >= job[p].amount)
    BY <1>3, JobFacts DEF CommitAdjust, CheckedStillHolds, Checked, FundsOps
  <2>2. kind \in SecuredKinds /\ kind \in Kinds /\ (kind \in Additions <=> kind = "CREDIT")
    BY DEF Kinds, SecuredKinds, Additions
  <2>3. CASE job[p].of = None
    <3>1. ledger' = PostUnkeyed(ledger, kind, job[p].amount)
      BY <1>3, <2>3 DEF CommitAdjust
    <3> HIDE DEF kind
    <3>2. Secured(ledger') = IF kind \in Additions THEN Secured(ledger) + job[p].amount ELSE Secured(ledger) - job[p].amount
      BY <1>0, <2>1, <2>2, <3>1, UnkeyedEffect
    <3> QED BY <1>0, <2>1, <2>2, <3>2 DEF kind
  <2>4. CASE job[p].of # None
    <3>1. ledger' = Post(ledger, <<"adjustment", job[p].of>>, kind, job[p].amount)
      BY <1>3, <2>4 DEF CommitAdjust
    <3>2. <<"adjustment", job[p].of>> \in Keys
      BY <1>3, <2>4, JobFacts DEF CommitAdjust, Keys
    <3> HIDE DEF kind
    <3>3. Secured(ledger') \in Int /\ Secured(ledger') >= IF kind \in Additions THEN Secured(ledger) ELSE Secured(ledger) - job[p].amount
      BY <1>0, <2>1, <2>2, <3>1, <3>2, PostSum
    <3> QED BY <1>0, <2>1, <2>2, <3>3 DEF kind
  <2> QED BY <2>3, <2>4
<1>4. ASSUME NEW p \in Procs, CommitHold(p) PROVE Secured(ledger') >= 0
  <2>1. /\ job[p].amount \in Nat
        /\ Secured(ledger) >= job[p].amount
        /\ <<"hold", job[p].of>> \in Keys
    BY <1>4, JobFacts DEF CommitHold, CheckedStillHolds, Checked, FundsOps, Keys
  <2>2. ledger' = ledger \/ ledger' = Post(ledger, <<"hold", job[p].of>>, "HOLD", job[p].amount)
    BY <1>4 DEF CommitHold
  <2>3. LET m == Post(ledger, <<"hold", job[p].of>>, "HOLD", job[p].amount) IN
          Secured(m) \in Int /\ Secured(m) >= Secured(ledger) - job[p].amount
    BY <1>0, <2>1, PostSum DEF Kinds, SecuredKinds, Additions
  <2> QED BY <1>0, <2>1, <2>2, <2>3
<1>5. ASSUME NEW p \in Procs, CommitInvoice(p) PROVE Secured(ledger') >= 0
  <2>1. /\ job[p].amount \in Nat
        /\ Secured(ledger) >= job[p].amount
        /\ <<"wallet_payment", job[p].of>> \in Keys
    BY <1>5, JobFacts DEF CommitInvoice, CheckedStillHolds, Checked, FundsOps, Keys
  <2>2. ledger' = Post(ledger, <<"wallet_payment", job[p].of>>, "DEBIT", job[p].amount)
    BY <1>5 DEF CommitInvoice
  <2>3. Secured(ledger') \in Int /\ Secured(ledger') >= Secured(ledger) - job[p].amount
    BY <1>0, <2>1, <2>2, PostSum DEF Kinds, SecuredKinds, Additions
  <2> QED BY <1>0, <2>1, <2>3
<1>6. ASSUME NEW p \in Procs, CommitRelease(p) PROVE Secured(ledger') >= 0
  <2>1. HoldAmount[job[p].of] \in Nat /\ <<"release", job[p].of>> \in Keys
    BY <1>6, JobFacts, FundsAssumption DEF CommitRelease, HoldOps, Positive, Keys
  <2>2. ledger' = Post(ledger, <<"release", job[p].of>>, "RELEASE", HoldAmount[job[p].of])
    BY <1>6 DEF CommitRelease
  <2>3. Secured(ledger') \in Int /\ Secured(ledger') >= Secured(ledger)
    BY <1>0, <2>1, <2>2, PostSum DEF Kinds, SecuredKinds, Additions
  <2> QED BY <1>0, <2>3
<1>7. ASSUME NEW p \in Procs, CommitCapture(p) PROVE Secured(ledger') >= 0
  <2>0. PICK h \in Holds : h = job[p].of
    BY <1>7, JobFacts DEF CommitCapture, HoldOps
  <2> DEFINE freed == Post(ledger, <<"capture_release", h>>, "RELEASE", HoldAmount[h])
  <2>1. /\ HoldAmount[h] \in Nat
        /\ job[p].amount \in Nat
        /\ job[p].amount <= HoldAmount[h]
        /\ hold[h] = "ACTIVE"
    BY <1>7, <2>0, JobFacts, FundsAssumption DEF CommitCapture, CheckedStillHolds, Checked, Unsettled, HoldOps, Positive
  <2>2. /\ <<"capture_release", h>> \in Keys /\ ~Posted(ledger, <<"capture_release", h>>)
        /\ <<"capture_debit", h>> \in Keys
    BY <2>1 DEF HoldSettledOnce, Settled, Keys
  <2>3. freed \in Ledgers /\ Secured(freed) = Secured(ledger) + HoldAmount[h]
    BY <1>0, <2>1, <2>2, PostEffect DEF Kinds, SecuredKinds, Additions
  <2>4. ledger' = Post(freed, <<"capture_debit", h>>, "DEBIT", job[p].amount)
    BY <1>7, <2>0 DEF CommitCapture
  <2>5. Secured(ledger') \in Int /\ Secured(ledger') >= Secured(freed) - job[p].amount
    BY <2>1, <2>2, <2>3, <2>4, PostSum DEF Kinds, SecuredKinds, Additions
  <2> QED BY <1>0, <2>1, <2>3, <2>5
<1>8. ASSUME NEW p \in Procs, CommitPayment(p) PROVE Secured(ledger') >= 0
  <2>0. PICK i \in Intents : i = job[p].of
    BY <1>8, JobFacts DEF CommitPayment
  <2> DEFINE credited == Post(ledger, <<"credit", i>>, "CREDIT", IntentAmount[i])
             settled == SettledBy(i)
  <2>1. IntentAmount[i] \in Nat /\ settled \in Nat /\ settled <= IntentAmount[i]
    BY FundsAssumption DEF SettledBy, AmountDue, Positive, TypeOK
  <2>2. /\ <<"credit", i>> \in Keys /\ ~Posted(ledger, <<"credit", i>>)
        /\ <<"invoice_debit", i>> \in Keys
    BY <1>8, <2>0 DEF CommitPayment, PaymentsUncredited, CreditedOnce, Posted, Keys
  <2>3. credited \in Ledgers /\ Secured(credited) = Secured(ledger) + IntentAmount[i]
    BY <1>0, <2>1, <2>2, PostEffect DEF Kinds, SecuredKinds, Additions
  <2>4. ledger' = credited \/ ledger' = Post(credited, <<"invoice_debit", i>>, "DEBIT", settled)
    BY <1>8, <2>0 DEF CommitPayment
  <2>5. LET m == Post(credited, <<"invoice_debit", i>>, "DEBIT", settled) IN
          Secured(m) \in Int /\ Secured(m) >= Secured(credited) - settled
    BY <2>1, <2>2, <2>3, PostSum DEF Kinds, SecuredKinds, Additions
  <2> HIDE DEF settled, credited
  <2> QED BY <1>0, <2>1, <2>3, <2>4, <2>5
<1>9. ASSUME NEW p \in Procs, CommitPurchase(p) PROVE Secured(ledger') >= 0
  BY <1>0, <1>9, JobFacts, UnkeyedEffect DEF CommitPurchase, Kinds, SecuredKinds, Additions
<1> QED BY <1>1, <1>2, <1>3, <1>4, <1>5, <1>6, <1>7, <1>8, <1>9, LedgerSteps DEF Commit

\* What each kind of entry does to the totals of purchases and refunds.
LEMMA RefundTotals ==
    ASSUME NEW l \in Ledgers, NEW key, NEW kind \in SecuredKinds, NEW amount \in Nat,
           NEW k \in {"PURCHASE", "REVERSAL"}
    PROVE  /\ Post(l, key, kind, amount).total[k] = l.total[k]
           /\ PostUnkeyed(l, kind, amount).total[k] = l.total[k]
<1>1. l.total \in [Kinds -> Nat] /\ k \in Kinds /\ k # kind
  BY DEF Ledgers, Kinds, SecuredKinds
<1>2. Post(l, key, kind, amount).total \in {l.total, [l.total EXCEPT ![kind] = @ + amount]}
  BY DEF Post
<1>3. PostUnkeyed(l, kind, amount).total = [l.total EXCEPT ![kind] = @ + amount]
  BY DEF PostUnkeyed, Ledgers
<1> QED BY <1>1, <1>2, <1>3

\* The commits under the wallet's lock leave purchases and refunds alone.
LEMMA CommitsRefundNothing ==
    ASSUME TypeOK, NEW p \in Procs, Commit(p), NEW k \in {"PURCHASE", "REVERSAL"}
    PROVE  ledger'.total[k] = ledger.total[k]
<1> DEFINE of == job[p].of
           amount == job[p].amount
<1>0. ledger \in Ledgers /\ amount \in Nat
  BY JobFacts DEF TypeOK
<1>1. CASE CommitAdjust(p)
  <2>1. PICK kind \in SecuredKinds :
          ledger' = IF of = None THEN PostUnkeyed(ledger, kind, amount)
                    ELSE Post(ledger, <<"adjustment", of>>, kind, amount)
    BY <1>1 DEF CommitAdjust, SecuredKinds
  <2> QED BY <1>0, <2>1, RefundTotals
<1>2. CASE CommitHold(p)
  BY <1>0, <1>2, RefundTotals DEF CommitHold, SecuredKinds
<1>3. CASE CommitRelease(p)
  <2>1. HoldAmount[of] \in Nat
    BY <1>3, JobFacts, FundsAssumption DEF CommitRelease, HoldOps, Positive
  <2> QED BY <1>0, <1>3, <2>1, RefundTotals DEF CommitRelease, SecuredKinds
<1>4. CASE CommitCapture(p)
  <2> DEFINE freed == Post(ledger, <<"capture_release", of>>, "RELEASE", HoldAmount[of])
  <2>1. HoldAmount[of] \in Nat
    BY <1>4, JobFacts, FundsAssumption DEF CommitCapture, HoldOps, Positive
  <2>2. freed \in Ledgers
    BY <1>0, <2>1, PostType DEF Kinds, SecuredKinds
  <2>3. freed.total[k] = ledger.total[k]
    BY <1>0, <2>1, RefundTotals DEF SecuredKinds
  <2>4. Post(freed, <<"capture_debit", of>>, "DEBIT", amount).total[k] = freed.total[k]
    <3> HIDE DEF freed, amount, of
    <3> QED BY <1>0, <2>2, RefundTotals DEF SecuredKinds
  <2>5. ledger' = Post(freed, <<"capture_debit", of>>, "DEBIT", amount)
    BY <1>4 DEF CommitCapture
  <2> QED BY <2>3, <2>4, <2>5
<1>5. CASE CommitInvoice(p)
  BY <1>0, <1>5, RefundTotals DEF CommitInvoice, SecuredKinds
<1>6. CASE CommitPayment(p)
  <2> DEFINE credited == Post(ledger, <<"credit", of>>, "CREDIT", IntentAmount[of])
             settled == SettledBy(of)
  <2>1. of \in Intents /\ IntentAmount[of] \in Nat
    BY <1>6, JobFacts, FundsAssumption DEF CommitPayment, Positive
  <2>2. settled \in Nat
    BY <2>1, FundsAssumption DEF SettledBy, AmountDue, Positive, TypeOK
  <2>3. credited \in Ledgers
    BY <1>0, <2>1, PostType DEF Kinds, SecuredKinds
  <2>4. credited.total[k] = ledger.total[k]
    BY <1>0, <2>1, RefundTotals DEF SecuredKinds
  <2>5. Post(credited, <<"invoice_debit", of>>, "DEBIT", settled).total[k] = credited.total[k]
    BY <2>2, <2>3, RefundTotals DEF SecuredKinds
  <2> QED BY <1>6, <2>4, <2>5 DEF CommitPayment
<1> QED BY <1>1, <1>2, <1>3, <1>4, <1>5, <1>6 DEF Commit

\* Refunds never outgrow purchases.
LEMMA RefundStep == TypeOK /\ RefundsBounded /\ [Next]_vars => RefundsBounded'
<1> SUFFICES ASSUME TypeOK, RefundsBounded, [Next]_vars
             PROVE  ledger'.total["REVERSAL"] <= ledger'.total["PURCHASE"]
  BY DEF RefundsBounded
<1>0. /\ ledger \in Ledgers
      /\ ledger.total \in [Kinds -> Nat]
      /\ ledger.total["REVERSAL"] <= ledger.total["PURCHASE"]
      /\ {"PURCHASE", "REVERSAL"} \subseteq Kinds
  BY DEF TypeOK, Ledgers, RefundsBounded, Kinds
<1>1. CASE UNCHANGED ledger
  BY <1>0, <1>1
<1>2. CASE ReversePurchase
  <2>1. PICK a \in Amounts : /\ ledger.total["REVERSAL"] + a <= ledger.total["PURCHASE"]
                             /\ ledger' = PostUnkeyed(ledger, "REVERSAL", a)
    BY <1>2 DEF ReversePurchase
  <2>2. ledger'.total = [ledger.total EXCEPT !["REVERSAL"] = @ + a]
    BY <1>0, <2>1 DEF PostUnkeyed, Ledgers
  <2>3. /\ ledger'.total["REVERSAL"] = ledger.total["REVERSAL"] + a
        /\ ledger'.total["PURCHASE"] = ledger.total["PURCHASE"]
    BY <1>0, <2>2
  <2> QED BY <1>0, <2>1, <2>3
<1>3. ASSUME NEW p \in Procs, CommitPurchase(p) PROVE ledger'.total["REVERSAL"] <= ledger'.total["PURCHASE"]
  <2>1. ledger'.total = [ledger.total EXCEPT !["PURCHASE"] = @ + job[p].amount]
    BY <1>0, <1>3 DEF CommitPurchase, PostUnkeyed, Ledgers
  <2>2. job[p].amount \in Nat
    BY JobFacts
  <2>3. /\ ledger'.total["PURCHASE"] = ledger.total["PURCHASE"] + job[p].amount
        /\ ledger'.total["REVERSAL"] = ledger.total["REVERSAL"]
    BY <1>0, <2>1
  <2>4. ledger.total["PURCHASE"] \in Nat /\ ledger.total["REVERSAL"] \in Nat
    BY <1>0
  <2> QED BY <1>0, <2>2, <2>3, <2>4
<1>4. ASSUME NEW p \in Procs, Commit(p) PROVE ledger'.total["REVERSAL"] <= ledger'.total["PURCHASE"]
  BY <1>0, <1>4, CommitsRefundNothing
<1> QED BY <1>1, <1>2, <1>3, <1>4, LedgerSteps

-----------------------------------------------------------------------------
(* The theorems.                                                           *)

\* The inductive invariant holds at the start.
LEMMA FundsInit == Init => FundsInv
<1> SUFFICES ASSUME Init PROVE FundsInv
  OBVIOUS
<1>1. TypeOK
  BY TypeInit
<1>2. LocksHeld /\ PaymentsUncredited /\ CheckedStillHolds
  BY DEF Init, LocksHeld, PaymentsUncredited, CheckedStillHolds
<1>3. HoldSettledOnce
  BY FundsAssumption DEF Init, HoldSettledOnce, Settled, Posted, Keys, Positive
<1>4. CreditedOnce
  BY DEF Init, CreditedOnce, Keys
<1>5. LockedSpendingCovered /\ RefundsBounded
  BY DEF Init, LockedSpendingCovered, RefundsBounded, Secured, Kinds, SecuredKinds
<1> QED BY <1>1, <1>2, <1>3, <1>4, <1>5 DEF FundsInv

\* Every step keeps the inductive invariant.
LEMMA FundsStep == FundsInv /\ [Next]_vars => FundsInv'
  BY TypeStep, LocksStep, PaymentsStep, CheckedStep, HoldsStep, CreditStep, BalanceStep, RefundStep DEF FundsInv

\* The inductive invariant holds in every reachable state.
THEOREM FundsInvariant == Spec => []FundsInv
  BY FundsInit, FundsStep, PTL DEF Spec

\* Purchases and their refunds set aside, the wallet is never overdrawn, however
\* many requests race for it.
THEOREM LockedSpendersCovered == Spec => []LockedSpendingCovered
  BY FundsInvariant, PTL DEF FundsInv

\* A hold is released or captured once, never both.
THEOREM HoldsSettledOnce == Spec => []HoldSettledOnce
  BY FundsInvariant, PTL DEF FundsInv

\* A payment is credited once, in full, exactly when it is COMPLETED.
THEOREM PaymentsCreditedOnce == Spec => []CreditedOnce
  BY FundsInvariant, PTL DEF FundsInv

\* What a request checked under the wallet's lock holds until it commits.
THEOREM ChecksHold == Spec => []CheckedStillHolds
  BY FundsInvariant, PTL DEF FundsInv
=================================================================================
