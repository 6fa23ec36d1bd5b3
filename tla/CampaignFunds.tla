------------------------------ MODULE CampaignFunds ------------------------------
(***************************************************************************)
(* The money of one managed-ads workspace: the wallet ledger, the campaign *)
(* budget holds, the campaign invoices and the payment intents of          *)
(* managed-ads.service.ts, all in the currency of one wallet.              *)
(*                                                                         *)
(* Every process of Procs is one HTTP request.  A request reads what it    *)
(* needs without a lock (Begin...), takes the row lock of the wallet, and  *)
(* for a payment first that of the intent (LockIntent, LockWallet),        *)
(* re-reads under the lock (Admit or Refuse) and commits (Commit...).  A   *)
(* process may crash, or its transaction be rolled back, at any point.     *)
(* The VTU purchases of the same workspace debit the same wallet without   *)
(* its lock.  The payment gateway is external: it settles a payment and    *)
(* delivers its webhook any number of times and in any order.              *)
(***************************************************************************)
EXTENDS Integers, FiniteSets, FiniteSetsExt

CONSTANTS
    Procs,          \* concurrent requests
    Holds,          \* idempotency keys of budget holds
    Invoices,       \* campaign invoices
    Intents,        \* idempotency keys of payment intents
    Adjustments,    \* idempotency keys of operator adjustments
    HoldAmount,     \* [Holds -> amounts]
    InvoiceTotal,   \* [Invoices -> amounts]
    IntentAmount,   \* [Intents -> amounts]
    IntentInvoice,  \* [Intents -> Invoices or None]: the invoice an intent pays
    Amounts,        \* amounts an operator or a capture may name
    LedgerCap,      \* bound on each total an unkeyed entry adds to
    MaxCrashes,     \* bound on the number of crashes
    None            \* no process, no invoice, no key

Positive == Nat \ {0}

ASSUME FundsAssumption ==
    /\ HoldAmount \in [Holds -> Positive]
    /\ InvoiceTotal \in [Invoices -> Positive]
    /\ IntentAmount \in [Intents -> Positive]
    /\ IntentInvoice \in [Intents -> Invoices \cup {None}]
    /\ \A v \in Invoices : IsFiniteSet({i \in Intents : IntentInvoice[i] = v})
    /\ Amounts \subseteq Positive
    /\ LedgerCap \in Nat
    /\ MaxCrashes \in Nat
    /\ None \notin Procs \cup Invoices \cup Adjustments

VARIABLES
    ledger,     \* LedgerEntry rows: the total of each kind and the keyed entries
    hold,       \* CampaignBudgetHold.status by idempotency key
    invoice,    \* CampaignInvoice.status and amountPaidMinor
    intent,     \* PaymentIntent.status and whether creditedAt is set
    gateway,    \* the gateway's own status of the payment (external)
    events,     \* webhook events the gateway has sent and may send again
    receipt,    \* EventOutbox row of each webhook event
    walletLock, \* holder of the wallet's FOR UPDATE lock
    intentLock, \* holder of each payment intent's FOR UPDATE lock
    pc,         \* where each request is
    job,        \* what each request was asked for, and its local reads
    crashes     \* how many crashes there have been

wallet == <<ledger, hold, invoice, intent>>
external == <<gateway, events>>
locks == <<walletLock, intentLock>>
vars == <<wallet, external, receipt, locks, pc, job, crashes>>

-----------------------------------------------------------------------------
(* The ledger.                                                             *)

SecuredKinds == {"CREDIT", "DEBIT", "HOLD", "RELEASE"}

\* The DEBIT entries of VTU purchases are kept apart, by their sourceType; their
\* refunds are the REVERSAL entries.
Kinds == SecuredKinds \cup {"PURCHASE", "REVERSAL"}

Keys ==
    ({"hold", "release", "capture_release", "capture_debit"} \X Holds)
        \cup ({"credit", "invoice_debit"} \X Intents)
        \cup ({"wallet_payment"} \X Invoices)
        \cup ({"adjustment"} \X Adjustments)

Ledgers == [total : [Kinds -> Nat], entry : [Keys -> Nat]]

\* The balance, purchases and their refunds set aside.
Secured(l) ==
    l.total["CREDIT"] + l.total["RELEASE"] - l.total["DEBIT"] - l.total["HOLD"]

\* What calculateAvailableBalance folds out of the entries.
Balance(l) == Secured(l) - l.total["PURCHASE"] + l.total["REVERSAL"]

Posted(l, key) == l.entry[key] > 0

PostUnkeyed(l, kind, amount) == [l EXCEPT !.total[kind] = @ + amount]

\* The upsert by idempotency key: an entry already there is left as it is.
Post(l, key, kind, amount) ==
    IF Posted(l, key)
    THEN l
    ELSE [total |-> [l.total EXCEPT ![kind] = @ + amount],
          entry |-> [l.entry EXCEPT ![key] = amount]]

Available == Balance(ledger)

AmountDue(v) == InvoiceTotal[v] - invoice[v].paid

-----------------------------------------------------------------------------
(* Requests.                                                               *)

FundsOps == {"adjust_debit", "hold", "invoice"}
HoldOps == {"release", "capture"}
PaymentOps == {"webhook", "verify"}

HoldStatus == {"NONE", "ACTIVE", "RELEASED", "CAPTURED"}
InvoiceStatus == {"NONE", "ISSUED", "PARTIALLY_PAID", "PAID"}
PaymentStatus == {"PENDING", "COMPLETED", "FAILED"}

\* The gateway's own words, one for each outcome that mapPaymentStatus tells apart
\* (a cancelled payment is treated like a failed one everywhere).
GatewayStatus == {"processing", "success", "failed"}

\* Mutant: the gateway's status is stored as it came.
RawPaymentStatus(s) == s

MapPaymentStatus(s) ==
    IF s = "success" THEN "COMPLETED" ELSE IF s = "processing" THEN "PENDING" ELSE "FAILED"

Events == Intents \X GatewayStatus

Idle == [op |-> "none", of |-> None, amount |-> 0, status |-> "processing"]

Request(ops, targets, amounts) ==
    [op : ops, of : targets, amount : amounts, status : GatewayStatus]

Jobs ==
    Request({"adjust_credit", "adjust_debit"}, Adjustments \cup {None}, Positive)
        \cup Request({"hold", "capture"}, Holds, Positive)
        \cup Request({"release"}, Holds, Nat)
        \cup Request({"purchase"}, {None}, Positive)
        \cup Request({"invoice"}, Invoices, Nat)
        \cup Request(PaymentOps \cup {"intent"}, Intents, Nat)
        \cup {Idle}

TypeOK ==
    /\ ledger \in Ledgers
    /\ hold \in [Holds -> HoldStatus]
    /\ invoice \in [Invoices -> [status : InvoiceStatus, paid : Nat]]
    /\ intent \in [Intents -> [status : PaymentStatus \cup {"NONE"}, credited : BOOLEAN]]
    /\ gateway \in [Intents -> GatewayStatus]
    /\ events \subseteq Events
    /\ receipt \in [Events -> {"NONE", "PENDING", "PROCESSED"}]
    /\ walletLock \in Procs \cup {None}
    /\ intentLock \in [Intents -> Procs \cup {None}]
    /\ pc \in [Procs -> {"idle", "open", "row", "locked", "admitted", "paying", "done"}]
    /\ job \in [Procs -> Jobs]
    /\ crashes \in 0..MaxCrashes

Init ==
    /\ ledger = [total |-> [k \in Kinds |-> 0], entry |-> [k \in Keys |-> 0]]
    /\ hold = [h \in Holds |-> "NONE"]
    /\ invoice = [v \in Invoices |-> [status |-> "NONE", paid |-> 0]]
    /\ intent = [i \in Intents |-> [status |-> "NONE", credited |-> FALSE]]
    /\ gateway = [i \in Intents |-> "processing"]
    /\ events = {}
    /\ receipt = [e \in Events |-> "NONE"]
    /\ walletLock = None
    /\ intentLock = [i \in Intents |-> None]
    /\ pc = [p \in Procs |-> "idle"]
    /\ job = [p \in Procs |-> Idle]
    /\ crashes = 0

BeginAt(step, p, op, of, amount, status) ==
    /\ pc[p] = "idle"
    /\ pc' = [pc EXCEPT ![p] = step]
    /\ job' = [job EXCEPT ![p] = [op |-> op, of |-> of, amount |-> amount, status |-> status]]

Begin(p, op, of, amount, status) == BeginAt("open", p, op, of, amount, status)

\* Commit or rollback: PostgreSQL drops every row lock of the transaction.
Unlock(p) ==
    /\ walletLock' = IF walletLock = p THEN None ELSE walletLock
    /\ intentLock' = [i \in Intents |-> IF intentLock[i] = p THEN None ELSE intentLock[i]]

Return(p) ==
    /\ pc' = [pc EXCEPT ![p] = "idle"]
    /\ job' = [job EXCEPT ![p] = Idle]
    /\ Unlock(p)

\* completePaymentIntent returns to the webhook handler or to verifyPayment.
ReturnPayment(p) ==
    IF job[p].op = "webhook"
    THEN /\ pc' = [pc EXCEPT ![p] = "done"]
         /\ UNCHANGED job
         /\ Unlock(p)
    ELSE Return(p)

-----------------------------------------------------------------------------
(* The first, unlocked part of each request.                               *)

BeginAdjust(p) ==
    /\ \E op \in {"adjust_credit", "adjust_debit"}, key \in Adjustments \cup {None}, a \in Amounts :
        /\ key = None => ledger.total[IF op = "adjust_credit" THEN "CREDIT" ELSE "DEBIT"] + a <= LedgerCap
        /\ Begin(p, op, key, a, "processing")
    /\ UNCHANGED <<wallet, external, receipt, locks, crashes>>

BeginHold(p) ==
    /\ \E h \in Holds : hold[h] = "NONE" /\ Begin(p, "hold", h, HoldAmount[h], "processing")
    /\ UNCHANGED <<wallet, external, receipt, locks, crashes>>

BeginRelease(p) ==
    /\ \E h \in Holds : hold[h] = "ACTIVE" /\ Begin(p, "release", h, 0, "processing")
    /\ UNCHANGED <<wallet, external, receipt, locks, crashes>>

BeginCapture(p) ==
    /\ \E h \in Holds, a \in Amounts : hold[h] = "ACTIVE" /\ Begin(p, "capture", h, a, "processing")
    /\ UNCHANGED <<wallet, external, receipt, locks, crashes>>

BeginPayInvoice(p) ==
    /\ \E v \in Invoices :
        /\ invoice[v].status \in {"ISSUED", "PARTIALLY_PAID"}
        /\ AmountDue(v) > 0
        /\ Begin(p, "invoice", v, 0, "processing")
    /\ UNCHANGED <<wallet, external, receipt, locks, crashes>>

BeginIntent(p) ==
    /\ \E i \in Intents :
        /\ intent[i].status = "NONE"
        /\ IntentInvoice[i] # None => invoice[IntentInvoice[i]].status # "NONE"
        /\ Begin(p, "intent", i, 0, "processing")
    /\ UNCHANGED <<wallet, external, receipt, locks, crashes>>

\* verifyPayment asks the gateway before it opens the transaction.
BeginVerify(p) ==
    /\ \E i \in Intents :
        intent[i].status # "NONE" /\ Begin(p, "verify", i, 0, gateway[i])
    /\ UNCHANGED <<wallet, external, receipt, locks, crashes>>

\* Mutant: the receipt is marked processed before the payment is completed.
BeginWebhookMarked(p, e) ==
    /\ e \in events
    /\ receipt[e] # "PROCESSED"
    /\ receipt' = [receipt EXCEPT ![e] = "PROCESSED"]
    /\ Begin(p, "webhook", e[1], 0, e[2])
    /\ UNCHANGED <<wallet, external, locks, crashes>>

\* A webhook whose receipt is already processed is acknowledged and dropped.
BeginWebhook(p, e) ==
    /\ e \in events
    /\ receipt[e] # "PROCESSED"
    /\ receipt' = [receipt EXCEPT ![e] = "PENDING"]
    /\ Begin(p, "webhook", e[1], 0, e[2])
    /\ UNCHANGED <<wallet, external, locks, crashes>>

\* The debit step of a VTU purchase adds up the entries, and locks nothing.
BeginPurchase(p) ==
    /\ \E a \in Amounts :
        /\ ledger.total["PURCHASE"] + a <= LedgerCap
        /\ Available >= a
        /\ BeginAt("paying", p, "purchase", None, a, "processing")
    /\ UNCHANGED <<wallet, external, receipt, locks, crashes>>

CreateInvoice(v) ==
    /\ invoice[v].status = "NONE"
    /\ invoice' = [invoice EXCEPT ![v].status = "ISSUED"]
    /\ UNCHANGED <<ledger, hold, intent, external, receipt, locks, pc, job, crashes>>

-----------------------------------------------------------------------------
(* Locks and the checks made under them.                                   *)

LockIntent(p) ==
    LET i == job[p].of IN
    /\ pc[p] = "open"
    /\ job[p].op \in PaymentOps
    /\ intentLock[i] = None
    /\ intentLock' = [intentLock EXCEPT ![i] = p]
    /\ pc' = [pc EXCEPT ![p] = "row"]
    /\ UNCHANGED <<wallet, external, receipt, walletLock, job, crashes>>

\* Which requests wait for the wallet row: a payment does so only to credit it.
WantsWallet(p) ==
    \/ pc[p] = "open" /\ job[p].op \notin PaymentOps \cup {"intent"}
    \/ pc[p] = "row" /\ MapPaymentStatus(job[p].status) = "COMPLETED" /\ ~intent[job[p].of].credited

\* Mutant: the wallet row is read without FOR UPDATE.
LockWalletShared(p) ==
    /\ WantsWallet(p)
    /\ walletLock' = p
    /\ pc' = [pc EXCEPT ![p] = "locked"]
    /\ UNCHANGED <<wallet, external, receipt, intentLock, job, crashes>>

LockWallet(p) ==
    /\ WantsWallet(p)
    /\ walletLock = None
    /\ walletLock' = p
    /\ pc' = [pc EXCEPT ![p] = "locked"]
    /\ UNCHANGED <<wallet, external, receipt, intentLock, job, crashes>>

\* What the request wants to take from the wallet, as re-read under the lock.
Wanted(p) ==
    IF job[p].op = "invoice" THEN AmountDue(job[p].of) ELSE job[p].amount

\* What else than the money a request re-reads under the lock.
Unsettled(p) ==
    LET of == job[p].of IN
    /\ job[p].op \in HoldOps => hold[of] = "ACTIVE"
    /\ job[p].op = "capture" => job[p].amount <= HoldAmount[of]
    /\ job[p].op = "invoice" => invoice[of].status # "PAID" /\ AmountDue(of) > 0

\* Mutant: the hold is not read again once the wallet is locked.
AdmissibleStaleHold(p) ==
    LET of == job[p].of IN
    /\ job[p].op \in FundsOps => Available >= Wanted(p)
    /\ job[p].op = "capture" => job[p].amount <= HoldAmount[of]
    /\ job[p].op = "invoice" => invoice[of].status # "PAID" /\ AmountDue(of) > 0

\* Mutant: a capture may exceed its hold.
AdmissibleOverCapture(p) ==
    LET of == job[p].of IN
    /\ job[p].op \in FundsOps => Available >= Wanted(p)
    /\ job[p].op \in HoldOps => hold[of] = "ACTIVE"
    /\ job[p].op = "invoice" => invoice[of].status # "PAID" /\ AmountDue(of) > 0

Admissible(p) ==
    /\ job[p].op \in FundsOps => Available >= Wanted(p)
    /\ Unsettled(p)

Admit(p) ==
    /\ pc[p] = "locked"
    /\ Admissible(p)
    /\ pc' = [pc EXCEPT ![p] = "admitted"]
    /\ job' = [job EXCEPT ![p].amount = Wanted(p)]
    /\ UNCHANGED <<wallet, external, receipt, locks, crashes>>

\* Mutant: the error path forgets to end its transaction.
RefuseHoldingLock(p) ==
    /\ pc[p] = "locked"
    /\ ~Admissible(p)
    /\ pc' = [pc EXCEPT ![p] = "idle"]
    /\ job' = [job EXCEPT ![p] = Idle]
    /\ UNCHANGED <<wallet, external, receipt, locks, crashes>>

Refuse(p) ==
    /\ pc[p] = "locked"
    /\ ~Admissible(p)
    /\ Return(p)
    /\ UNCHANGED <<wallet, external, receipt, crashes>>

-----------------------------------------------------------------------------
(* Commits.                                                                *)

CommitAdjust(p) ==
    LET kind == IF job[p].op = "adjust_credit" THEN "CREDIT" ELSE "DEBIT"
        key == job[p].of
    IN
    /\ pc[p] = "admitted"
    /\ job[p].op \in {"adjust_credit", "adjust_debit"}
    /\ ledger' = IF key = None
                 THEN PostUnkeyed(ledger, kind, job[p].amount)
                 ELSE Post(ledger, <<"adjustment", key>>, kind, job[p].amount)
    /\ Return(p)
    /\ UNCHANGED <<hold, invoice, intent, external, receipt, crashes>>

\* The unique key of the hold row: the second of two creators is rolled back.
CommitHold(p) ==
    LET h == job[p].of IN
    /\ pc[p] = "admitted"
    /\ job[p].op = "hold"
    /\ IF hold[h] = "NONE"
       THEN /\ ledger' = Post(ledger, <<"hold", h>>, "HOLD", job[p].amount)
            /\ hold' = [hold EXCEPT ![h] = "ACTIVE"]
       ELSE UNCHANGED <<ledger, hold>>
    /\ Return(p)
    /\ UNCHANGED <<invoice, intent, external, receipt, crashes>>

CommitRelease(p) ==
    LET h == job[p].of IN
    /\ pc[p] = "admitted"
    /\ job[p].op = "release"
    /\ ledger' = Post(ledger, <<"release", h>>, "RELEASE", HoldAmount[h])
    /\ hold' = [hold EXCEPT ![h] = "RELEASED"]
    /\ Return(p)
    /\ UNCHANGED <<invoice, intent, external, receipt, crashes>>

\* Mutant: a capture debits the spend and does not release what was held.
CommitCaptureDebitOnly(p) ==
    LET h == job[p].of IN
    /\ pc[p] = "admitted"
    /\ job[p].op = "capture"
    /\ ledger' = Post(ledger, <<"capture_debit", h>>, "DEBIT", job[p].amount)
    /\ hold' = [hold EXCEPT ![h] = "CAPTURED"]
    /\ Return(p)
    /\ UNCHANGED <<invoice, intent, external, receipt, crashes>>

CommitCapture(p) ==
    LET h == job[p].of
        freed == Post(ledger, <<"capture_release", h>>, "RELEASE", HoldAmount[h])
    IN
    /\ pc[p] = "admitted"
    /\ job[p].op = "capture"
    /\ ledger' = Post(freed, <<"capture_debit", h>>, "DEBIT", job[p].amount)
    /\ hold' = [hold EXCEPT ![h] = "CAPTURED"]
    /\ Return(p)
    /\ UNCHANGED <<invoice, intent, external, receipt, crashes>>

CommitPurchase(p) ==
    /\ pc[p] = "paying"
    /\ ledger' = PostUnkeyed(ledger, "PURCHASE", job[p].amount)
    /\ Return(p)
    /\ UNCHANGED <<hold, invoice, intent, external, receipt, crashes>>

CommitInvoice(p) ==
    LET v == job[p].of IN
    /\ pc[p] = "admitted"
    /\ job[p].op = "invoice"
    /\ ledger' = Post(ledger, <<"wallet_payment", v>>, "DEBIT", job[p].amount)
    /\ invoice' = [invoice EXCEPT ![v] = [status |-> "PAID", paid |-> InvoiceTotal[v]]]
    /\ Return(p)
    /\ UNCHANGED <<hold, intent, external, receipt, crashes>>

\* createPaymentIntent's insert, after the gateway opened a checkout; the loser
\* of two inserts of one key fails on it, and so has no row.
InsertIntent(p) ==
    LET i == job[p].of IN
    /\ pc[p] = "open"
    /\ job[p].op = "intent"
    /\ IF intent[i].status = "NONE"
       THEN intent' = [intent EXCEPT ![i].status = "PENDING"]
       ELSE UNCHANGED intent
    /\ Return(p)
    /\ UNCHANGED <<ledger, hold, invoice, external, receipt, crashes>>

\* Mutant: the whole payment is put towards the invoice, whatever is still due.
SettledInFull(i) == IF IntentInvoice[i] = None THEN 0 ELSE IntentAmount[i]

SettledBy(i) ==
    LET v == IntentInvoice[i] IN
    IF v = None \/ AmountDue(v) <= 0 THEN 0
    ELSE IF AmountDue(v) < IntentAmount[i] THEN AmountDue(v) ELSE IntentAmount[i]

\* Mutant: creditedAt is not stored, and the next webhook credits again.
CommitPaymentUnmarked(p) ==
    LET i == job[p].of IN
    /\ pc[p] = "admitted"
    /\ job[p].op \in PaymentOps
    /\ ledger' = Post(ledger, <<"credit", i>>, "CREDIT", IntentAmount[i])
    /\ intent' = [intent EXCEPT ![i].status = "COMPLETED"]
    /\ ReturnPayment(p)
    /\ UNCHANGED <<hold, invoice, external, receipt, crashes>>

\* completePaymentIntent, first completion: credit the wallet and let the
\* payment settle as much of its invoice as is still due.
CommitPayment(p) ==
    LET i == job[p].of
        v == IntentInvoice[i]
        settled == SettledBy(i)
        credited == Post(ledger, <<"credit", i>>, "CREDIT", IntentAmount[i])
    IN
    /\ pc[p] = "admitted"
    /\ job[p].op \in PaymentOps
    /\ IF settled > 0
       THEN /\ ledger' = Post(credited, <<"invoice_debit", i>>, "DEBIT", settled)
            /\ invoice' = [invoice EXCEPT ![v] =
                   [status |-> IF @.paid + settled >= InvoiceTotal[v] THEN "PAID" ELSE "PARTIALLY_PAID",
                    paid |-> @.paid + settled]]
       ELSE /\ ledger' = credited
            /\ UNCHANGED invoice
    /\ intent' = [intent EXCEPT ![i] = [status |-> "COMPLETED", credited |-> TRUE]]
    /\ ReturnPayment(p)
    /\ UNCHANGED <<hold, external, receipt, crashes>>

\* completePaymentIntent on an intent already credited: nothing is written.
AlreadyCredited(p) ==
    /\ pc[p] = "row"
    /\ intent[job[p].of].credited
    /\ ReturnPayment(p)
    /\ UNCHANGED <<wallet, external, receipt, crashes>>

\* Mutant: the status is written whether or not the payment was credited.
RecordAnyStatus(p) ==
    LET i == job[p].of IN
    /\ pc[p] = "row"
    /\ MapPaymentStatus(job[p].status) # "COMPLETED"
    /\ intent' = [intent EXCEPT ![i].status = MapPaymentStatus(job[p].status)]
    /\ ReturnPayment(p)
    /\ UNCHANGED <<ledger, hold, invoice, external, receipt, crashes>>

\* completePaymentIntent with any other status: only the status is written.
RecordStatus(p) ==
    LET i == job[p].of IN
    /\ pc[p] = "row"
    /\ ~intent[i].credited
    /\ MapPaymentStatus(job[p].status) # "COMPLETED"
    /\ intent' = [intent EXCEPT ![i].status = MapPaymentStatus(job[p].status)]
    /\ ReturnPayment(p)
    /\ UNCHANGED <<ledger, hold, invoice, external, receipt, crashes>>

\* The webhook handler marks its receipt once the payment is complete.
MarkReceipt(p) ==
    /\ pc[p] = "done"
    /\ receipt' = [receipt EXCEPT ![<<job[p].of, job[p].status>>] = "PROCESSED"]
    /\ Return(p)
    /\ UNCHANGED <<wallet, external, crashes>>

-----------------------------------------------------------------------------
(* The environment.                                                        *)

\* The process dies, the connection drops or the transaction times out.
Crash(p) ==
    /\ pc[p] # "idle"
    /\ crashes < MaxCrashes
    /\ crashes' = crashes + 1
    /\ Return(p)
    /\ UNCHANGED <<wallet, external, receipt>>

\* The customer may try a failed payment again at the same checkout.
GatewaySettles(i) ==
    /\ intent[i].status # "NONE"
    /\ \E s \in {"success", "failed"} :
        /\ gateway[i] \in {"processing", "failed"}
        /\ gateway[i] # s
        /\ gateway' = [gateway EXCEPT ![i] = s]
        /\ events' = events \cup {<<i, s>>}
    /\ UNCHANGED <<wallet, receipt, locks, pc, job, crashes>>

\* reverseVtuCharge gives the price of a purchase back, without the lock.
ReversePurchase ==
    /\ \E a \in Amounts :
        /\ ledger.total["REVERSAL"] + a <= ledger.total["PURCHASE"]
        /\ ledger' = PostUnkeyed(ledger, "REVERSAL", a)
    /\ UNCHANGED <<hold, invoice, intent, external, receipt, locks, pc, job, crashes>>

-----------------------------------------------------------------------------

BeginRequest(p) ==
    \/ BeginAdjust(p) \/ BeginHold(p) \/ BeginRelease(p) \/ BeginCapture(p)
    \/ BeginPayInvoice(p) \/ BeginIntent(p) \/ BeginVerify(p) \/ BeginPurchase(p)
    \/ \E e \in Events : BeginWebhook(p, e)

Progress(p) ==
    \/ LockIntent(p) \/ LockWallet(p) \/ Admit(p) \/ Refuse(p)
    \/ CommitAdjust(p) \/ CommitHold(p) \/ CommitRelease(p) \/ CommitCapture(p)
    \/ CommitInvoice(p) \/ InsertIntent(p) \/ CommitPurchase(p)
    \/ CommitPayment(p) \/ AlreadyCredited(p) \/ RecordStatus(p) \/ MarkReceipt(p)

Next ==
    \/ \E p \in Procs : BeginRequest(p) \/ Progress(p) \/ Crash(p)
    \/ \E v \in Invoices : CreateInvoice(v)
    \/ \E i \in Intents : GatewaySettles(i)
    \/ ReversePurchase

Spec == Init /\ [][Next]_vars

\* PostgreSQL grants a row lock in the order it was asked for and a handler runs
\* to its end, so a request that can go on time and again goes on; the gateway
\* sends an event again until it is acknowledged.
Fairness ==
    /\ \A p \in Procs : SF_vars(Progress(p))
    /\ \A e \in Events : SF_vars(\E p \in Procs : BeginWebhook(p, e))

FairSpec == Spec /\ Fairness

-----------------------------------------------------------------------------
(* Properties.                                                             *)

\* Two requests that each saw enough money before the lock cannot both take it:
\* purchases and their refunds set aside, the wallet is never overdrawn.
LockedSpendingCovered == Secured(ledger) >= 0

\* The guard of a purchase, "Insufficient balance": nobody spends more than the
\* wallet holds, purchases included.
SpendableFromBalanceOnly == Available >= 0

Settled(h) ==
    /\ Posted(ledger, <<"hold", h>>) <=> hold[h] # "NONE"
    /\ Posted(ledger, <<"release", h>>) <=> hold[h] = "RELEASED"
    /\ Posted(ledger, <<"capture_release", h>>) <=> hold[h] = "CAPTURED"
    /\ Posted(ledger, <<"capture_debit", h>>) <=> hold[h] = "CAPTURED"
    /\ ledger.entry[<<"capture_debit", h>>] <= HoldAmount[h]

\* A hold is settled exactly once: the ledger has the release of a RELEASED hold,
\* the release and the debit of a CAPTURED one, never both and never neither,
\* and a capture spends no more than was held.
HoldSettledOnce == \A h \in Holds : Settled(h)

\* getWallet reports the ACTIVE holds as the held balance: it is what the ledger
\* withholds, whatever was held, released and captured before.
HeldBalanceMatchesLedger ==
    ledger.total["HOLD"] - ledger.total["RELEASE"] =
        MapThenSumSet(LAMBDA h : HoldAmount[h], {h \in Holds : hold[h] = "ACTIVE"})

\* The paid amount of an invoice is the sum of the debits made for it, from the
\* wallet and from payments, and never exceeds its total; PAID means in full.
InvoiceMatchesLedger ==
    \A v \in Invoices :
        /\ invoice[v].paid =
               ledger.entry[<<"wallet_payment", v>>]
                   + MapThenSumSet(LAMBDA i : ledger.entry[<<"invoice_debit", i>>],
                                   {i \in Intents : IntentInvoice[i] = v})
        /\ invoice[v].paid <= InvoiceTotal[v]
        /\ invoice[v].status = "PAID" <=> invoice[v].paid = InvoiceTotal[v]

\* A payment is credited exactly when it is COMPLETED, once and in full, however
\* often and in whatever order its webhooks and verifications arrive.
CreditedOnce ==
    \A i \in Intents :
        /\ intent[i].credited <=> intent[i].status = "COMPLETED"
        /\ ledger.entry[<<"credit", i>>] = IF intent[i].credited THEN IntentAmount[i] ELSE 0

\* A late PENDING or FAILED answer never takes a completed payment back.
CompletedIsFinal ==
    [][\A i \in Intents : intent[i].credited => intent'[i] = intent[i]]_vars

\* The webhook of a completed payment is marked processed only after the money is
\* in the wallet, so a crash in between leaves it to be delivered again.
ReceiptHonoured ==
    \A i \in Intents : receipt[<<i, "success">>] = "PROCESSED" => intent[i].credited

\* What a request read under the lock, purchases set aside.
Checked(p) ==
    /\ job[p].op \in FundsOps => Secured(ledger) >= Wanted(p)
    /\ Unsettled(p)
    /\ job[p].amount = Wanted(p)

\* What a request re-read under the wallet's lock is still so when it commits: the
\* money is there, but for what a purchase took meanwhile, the hold is still ACTIVE
\* and the amount due of the invoice the same.
CheckedStillHolds == \A p \in Procs : pc[p] = "admitted" => Checked(p)

\* No request waits for a row lock for ever: intents and wallet are always locked
\* in that order, and every transaction lets go of both.
RequestsFinish == \A p \in Procs : pc[p] # "idle" ~> pc[p] = "idle"

\* Money the customer paid reaches the wallet despite crashes of the handler.
PaidIsCredited ==
    \A i \in Intents : <<i, "success">> \in events ~> intent[i].credited

-----------------------------------------------------------------------------
(* The inductive invariant behind the safety properties.                   *)

\* Past its Lock step a request holds the lock.
LocksHeld ==
    \A p \in Procs :
        /\ pc[p] \in {"locked", "admitted"} => walletLock = p
        /\ pc[p] = "row" => job[p].op \in PaymentOps
        /\ pc[p] \in {"row", "locked", "admitted"} /\ job[p].op \in PaymentOps
               => intentLock[job[p].of] = p

\* A payment that has gone for the wallet was not credited by another request.
PaymentsUncredited ==
    \A p \in Procs :
        pc[p] \in {"locked", "admitted"} /\ job[p].op \in PaymentOps
            => ~intent[job[p].of].credited

\* No more is given back for purchases than they took.
RefundsBounded == ledger.total["REVERSAL"] <= ledger.total["PURCHASE"]

FundsInv ==
    /\ TypeOK
    /\ RefundsBounded
    /\ LocksHeld
    /\ PaymentsUncredited
    /\ CheckedStillHolds
    /\ HoldSettledOnce
    /\ CreditedOnce
    /\ LockedSpendingCovered

-----------------------------------------------------------------------------

\* The requests, with their locks, stale reads, retries and crashes, implement the
\* account the workspace is promised, purchases set aside.
Account ==
    INSTANCE WalletAccount WITH
        balance <- Secured(ledger),
        reserved <- hold,
        banked <- {i \in Intents : intent[i].credited}

ImplementsAccount == Account!Spec
=============================================================================
