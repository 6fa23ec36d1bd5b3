------------------------------ MODULE Receivables ------------------------------
(***************************************************************************)
(* Invoices and payment links, paid by people outside the workspace at the *)
(* gateway, which tells a webhook.  The owner also sends, voids and        *)
(* settles invoices by hand.  Every handler reads the row, waits and       *)
(* writes it, and nothing is locked meanwhile.                             *)
(***************************************************************************)
EXTENDS Handlers

CONSTANTS
    Invoices,
    Links,          \* PaymentLink rows
    Charges         \* payments that may be opened at the gateway

ASSUME ReceivablesAssumption ==
    IsFiniteSet(Charges) /\ Invoices \cap Links = {} /\ None \notin Invoices \cup Links \cup Charges

VARIABLES
    ivStatus,       \* Invoice.status
    ivRef,          \* Invoice.paymentReference
    ivOnline,       \* invoices whose paidVia says they were paid at the gateway
    lkActive,       \* links that are ACTIVE
    lkStatus,       \* PaymentLinkPayment.status
    lkTimes,        \* PaymentLink.timesPaid
    lkReceipt,      \* charges whose webhook receipt is PROCESSED
    gwCharge,       \* each charge at the gateway (external)
    gwFor           \* what each charge pays for (external)

ivVars == <<ivStatus, ivRef, ivOnline>>
lkVars == <<lkActive, lkStatus, lkTimes>>
gwVars == <<gwCharge, gwFor>>
rcVars == <<ivVars, lkVars, lkReceipt, gwVars>>

RCSteps == {"send", "mark", "void", "store", "find", "verify", "credit", "receipt"}
RCJobs == [op : {"owner", "pay", "webhook"}, of : Invoices \cup Charges,
           saw : {"none", "DRAFT", "SENT", "PAID", "VOID", "PENDING", "FAILED"},
           got : {"none", "open", "COMPLETED", "FAILED"}]

RCTypeOK ==
    /\ ivStatus \in [Invoices -> {"DRAFT", "SENT", "PAID", "VOID"}]
    /\ ivRef \in [Invoices -> Charges \cup {None}]
    /\ ivOnline \subseteq Invoices
    /\ lkActive \subseteq Links
    /\ lkStatus \in [Charges -> {"NONE", "PENDING", "PAID", "FAILED"}]
    /\ lkTimes \in [Links -> Nat]
    /\ lkReceipt \subseteq Charges
    /\ gwCharge \in [Charges -> {"none", "open", "COMPLETED", "FAILED"}]
    /\ gwFor \in [Charges -> Invoices \cup Links \cup {None}]

RCInit ==
    /\ ivStatus = [i \in Invoices |-> "DRAFT"]
    /\ ivRef = [i \in Invoices |-> None]
    /\ ivOnline = {}
    /\ lkActive = Links
    /\ lkStatus = [m \in Charges |-> "NONE"]
    /\ lkTimes = [l \in Links |-> 0]
    /\ lkReceipt = {}
    /\ gwCharge = [m \in Charges |-> "none"]
    /\ gwFor = [m \in Charges |-> None]

-----------------------------------------------------------------------------
(* The owner.                                                              *)

\* send, markPaid and void check the status they read.
BeginOwner(p, i, step) ==
    /\ \/ step = "send" /\ ivStatus[i] = "DRAFT"
       \/ step = "mark" /\ ivStatus[i] \in {"DRAFT", "SENT"}
       \/ step = "void" /\ ivStatus[i] # "PAID"
    /\ Start(p, "owner", i, ivStatus[i], step)
    /\ UNCHANGED rcVars

SetInvoice(i, s) ==
    /\ ivStatus' = [ivStatus EXCEPT ![i] = s]
    /\ UNCHANGED <<ivRef, lkVars, lkReceipt, gwVars>>

SendInvoice(p) ==
    /\ At(p, "owner", "send")
    /\ Return(p)
    /\ SetInvoice(job[p].of, "SENT") /\ UNCHANGED ivOnline

MarkPaid(p) ==
    /\ At(p, "owner", "mark")
    /\ Return(p)
    /\ SetInvoice(job[p].of, "PAID") /\ ivOnline' = ivOnline \ {job[p].of}

VoidInvoice(p) ==
    /\ At(p, "owner", "void")
    /\ Return(p)
    /\ SetInvoice(job[p].of, "VOID") /\ UNCHANGED ivOnline

DisableLink(l) ==
    /\ l \in lkActive
    /\ lkActive' = lkActive \ {l}
    /\ UNCHANGED <<ivVars, lkStatus, lkTimes, lkReceipt, gwVars, handlers>>

-----------------------------------------------------------------------------
(* The payer: a charge is opened, and its reference stored afterwards.     *)

OpenCharge(p, x, m) ==
    /\ x \in lkActive \/ (x \in Invoices /\ ivStatus[x] = "SENT")
    /\ gwCharge[m] = "none"
    /\ Start(p, "pay", m, "none", "store")
    /\ gwCharge' = [gwCharge EXCEPT ![m] = "open"]
    /\ gwFor' = [gwFor EXCEPT ![m] = x]
    /\ UNCHANGED <<ivVars, lkVars, lkReceipt>>

\* An invoice has one reference, the latest; a link gets a payment of its own.
StoreCharge(p) ==
    LET m == job[p].of IN
    /\ At(p, "pay", "store")
    /\ Return(p)
    /\ \/ /\ gwFor[m] \in Invoices
          /\ ivRef' = [ivRef EXCEPT ![gwFor[m]] = m]
          /\ UNCHANGED lkStatus
       \/ /\ gwFor[m] \in Links
          /\ lkStatus' = [lkStatus EXCEPT ![m] = "PENDING"]
          /\ UNCHANGED ivRef
    /\ UNCHANGED <<ivStatus, ivOnline, lkActive, lkTimes, lkReceipt, gwVars>>

ChargeSettles(m) ==
    /\ gwCharge[m] = "open"
    /\ \E s \in {"COMPLETED", "FAILED"} : gwCharge' = [gwCharge EXCEPT ![m] = s]
    /\ UNCHANGED <<ivVars, lkVars, lkReceipt, gwFor, handlers>>

-----------------------------------------------------------------------------
(* The webhook, delivered any number of times.                             *)

ReceiveEvent(p, m) ==
    /\ gwCharge[m] # "none"
    /\ m \notin lkReceipt
    /\ Start(p, "webhook", m, "none", "find")
    /\ UNCHANGED rcVars

\* The row with the reference; without one the event is acknowledged and left.
FindRow(p) ==
    LET m == job[p].of
        saw == IF gwFor[m] \in Links THEN lkStatus[m] ELSE ivStatus[gwFor[m]] IN
    /\ At(p, "webhook", "find")
    /\ IF lkStatus[m] # "NONE" \/ \E i \in Invoices : ivRef[i] = m
       THEN /\ pc' = [pc EXCEPT ![p] = "verify"]
            /\ job' = [job EXCEPT ![p].saw = saw]
            /\ UNCHANGED faults
       ELSE Return(p)
    /\ UNCHANGED rcVars

\* Mutant: the event's own word is taken.
TakeWord(p) ==
    /\ At(p, "webhook", "verify")
    /\ \E s \in {"open", "COMPLETED", "FAILED"} : Learn(p, s, "credit")
    /\ UNCHANGED rcVars

\* The gateway is asked, or, by Payscribe's handler, its signed event believed.
VerifyCharge(p) ==
    /\ At(p, "webhook", "verify")
    /\ Learn(p, gwCharge[job[p].of], "credit")
    /\ UNCHANGED rcVars

Credit(p, status, times, invoice, online) ==
    LET m == job[p].of IN
    /\ lkStatus' = [lkStatus EXCEPT ![m] = IF gwFor[m] \in Links THEN status ELSE @]
    /\ lkTimes' = [l \in Links |-> lkTimes[l] + IF gwFor[m] = l THEN times ELSE 0]
    /\ ivStatus' = [i \in Invoices |-> IF gwFor[m] = i THEN invoice ELSE ivStatus[i]]
    /\ ivOnline' = ivOnline \cup ({gwFor[m]} \cap online)

\* A row that was read as PAID is left alone; a link's payment and its count are
\* one transaction; an invoice does not fail.
CreditRow(p) ==
    LET m == job[p].of IN
    /\ At(p, "webhook", "credit")
    /\ Goto(p, "receipt")
    /\ \/ /\ job[p].got = "COMPLETED" /\ job[p].saw # "PAID"
          /\ Credit(p, "PAID", 1, "PAID", Invoices)
       \/ /\ job[p].got = "FAILED" /\ job[p].saw # "PAID" /\ gwFor[m] \in Links
          /\ lkStatus' = [lkStatus EXCEPT ![m] = "FAILED"]
          /\ UNCHANGED <<lkTimes, ivStatus, ivOnline>>
       \/ /\ job[p].got = "open" \/ job[p].saw = "PAID" \/ (job[p].got = "FAILED" /\ gwFor[m] \in Invoices)
          /\ UNCHANGED <<lkStatus, lkTimes, ivStatus, ivOnline>>
    /\ UNCHANGED <<ivRef, lkActive, lkReceipt, gwVars>>

ProcessEvent(p) ==
    /\ At(p, "webhook", "receipt")
    /\ Return(p)
    /\ lkReceipt' = lkReceipt \cup {job[p].of}
    /\ UNCHANGED <<ivVars, lkVars, gwVars>>

RCNext ==
    \/ \E p \in Procs :
        \/ \E i \in Invoices, step \in {"send", "mark", "void"} : BeginOwner(p, i, step)
        \/ \E x \in Invoices \cup Links, m \in Charges : OpenCharge(p, x, m)
        \/ \E m \in Charges : ReceiveEvent(p, m)
        \/ SendInvoice(p)
        \/ MarkPaid(p)
        \/ VoidInvoice(p)
        \/ StoreCharge(p)
        \/ FindRow(p)
        \/ VerifyCharge(p)
        \/ CreditRow(p)
        \/ ProcessEvent(p)
        \/ Crash(p) /\ UNCHANGED rcVars
    \/ \E l \in Links : DisableLink(l)
    \/ \E m \in Charges : ChargeSettles(m)

RCSpec == RCInit /\ HandlersInit /\ [][RCNext]_<<rcVars, handlers>>

-----------------------------------------------------------------------------
\* "Never trust the webhook payload status alone": whatever replaces a reference
\* and however webhooks overlap, an invoice is paid online only by a charge of its
\* own that completed, a link's payment is PAID only if its charge completed, and
\* no PAID payment is missing from the link's count.
ReceivablesHonest ==
    /\ \A i \in ivOnline : \E m \in Charges : gwFor[m] = i /\ gwCharge[m] = "COMPLETED"
    /\ \A m \in Charges : lkStatus[m] = "PAID" => gwCharge[m] = "COMPLETED"
    /\ \A l \in Links :
        Cardinality({m \in Charges : gwFor[m] = l /\ lkStatus[m] = "PAID"}) <= lkTimes[l]
===============================================================================
