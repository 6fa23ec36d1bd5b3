------------------------------ MODULE VtuOrders ------------------------------
(***************************************************************************)
(* A VTU order (airtime, data, bills, printed PINs) from the debit of its  *)
(* price to its delivery or its refund.                                    *)
(*                                                                         *)
(* Five kinds of handler work on the same VtuOrder and VtuWalletCharge     *)
(* rows without a lock: the purchase request, the poll_status job and the  *)
(* reconcile sweep of the worker, the provider's webhook, and the operator *)
(* who resolves an AMBIGUOUS order.  Each is a process of Procs that reads *)
(* the order, asks the provider or reverses the charge, and writes; every  *)
(* database call is a step of its own.  The provider is external.          *)
(***************************************************************************)
EXTENDS Integers, FiniteSets

CONSTANTS
    Procs,          \* handlers that can run at once
    Orders,         \* orders a customer may place
    Product,        \* [Orders -> Products]
    MaxPolls,       \* POLL_MAX_ATTEMPTS
    MaxCrashes,     \* bound on the number of crashes
    None            \* the order of an idle process

Products == {"direct", "airtime_epin", "data_epin"}

ASSUME VtuAssumption ==
    /\ Product \in [Orders -> Products]
    /\ MaxPolls \in Nat \ {0}
    /\ MaxCrashes \in Nat
    /\ None \notin Orders

VARIABLES
    order,      \* VtuOrder.status
    charge,     \* VtuWalletCharge.status
    refunds,    \* REVERSAL entries of each order in the wallet's ledger
    polls,      \* attempts left of each order's poll_status job, 0 when there is none
    stale,      \* orders whose updatedAt is older than the reconcile window
    processed,  \* webhook events whose ProviderWebhookEvent is processed
    provider,   \* what became of the order at the provider (external)
    events,     \* status_changed events the provider sends, any number of times
    pc,         \* where each handler is
    job,        \* what each handler works on, and its local reads
    crashes     \* how many crashes there have been

rows == <<order, charge, refunds>>
work == <<polls, stale, processed>>
external == <<provider, events>>
vars == <<rows, work, external, pc, job, crashes>>

OrderStatus == {"NONE", "SUBMITTED", "DELIVERED", "AMBIGUOUS", "REVERSED"}
ProviderStatus == {"NONE", "PROCESSING", "DELIVERED", "FAILED"}
Answers == {"NONE", "SUBMITTED", "DELIVERED", "AMBIGUOUS", "FAILED", "THROWN"}
Outcomes == {"DELIVERED", "FAILED"}
Ops == {"buy", "poll", "reconcile", "webhook", "resolve"}
Steps == {"idle", "calling", "asking", "answered", "enqueue", "handling",
          "refund", "post", "mark", "refunded", "done", "resolving"}

Events == Orders \X Outcomes

Idle == [op |-> "none", of |-> None, saw |-> "NONE", answer |-> "NONE"]

Jobs == [op : Ops, of : Orders, saw : OrderStatus, answer : Answers] \cup {Idle}

TypeOK ==
    /\ order \in [Orders -> OrderStatus]
    /\ charge \in [Orders -> {"NONE", "CHARGED", "REFUNDED"}]
    /\ refunds \in [Orders -> Nat]
    /\ polls \in [Orders -> 0..MaxPolls]
    /\ stale \subseteq Orders
    /\ processed \subseteq Events
    /\ provider \in [Orders -> ProviderStatus]
    /\ events \subseteq Events
    /\ pc \in [Procs -> Steps]
    /\ job \in [Procs -> Jobs]
    /\ crashes \in 0..MaxCrashes

Init ==
    /\ order = [o \in Orders |-> "NONE"]
    /\ charge = [o \in Orders |-> "NONE"]
    /\ refunds = [o \in Orders |-> 0]
    /\ polls = [o \in Orders |-> 0]
    /\ stale = {}
    /\ processed = {}
    /\ provider = [o \in Orders |-> "NONE"]
    /\ events = {}
    /\ pc = [p \in Procs |-> "idle"]
    /\ job = [p \in Procs |-> Idle]
    /\ crashes = 0

-----------------------------------------------------------------------------
(* Steps every handler is made of.                                         *)

Begin(p, op, o, answer, step) ==
    /\ pc[p] = "idle"
    /\ job' = [job EXCEPT ![p] = [op |-> op, of |-> o, saw |-> order[o], answer |-> answer]]
    /\ pc' = [pc EXCEPT ![p] = step]

Goto(p, step) == pc' = [pc EXCEPT ![p] = step] /\ UNCHANGED job

Return(p) ==
    /\ pc' = [pc EXCEPT ![p] = "idle"]
    /\ job' = [job EXCEPT ![p] = Idle]

\* vtuOrder.update: whatever the row holds by now, and its updatedAt is renewed.
SetStatus(o, s) ==
    /\ order' = [order EXCEPT ![o] = s]
    /\ stale' = stale \ {o}

KeepStatus == UNCHANGED <<order, stale>>

-----------------------------------------------------------------------------
(* The purchase.                                                           *)

\* One transaction: the order, the DEBIT entry and the charge.
Charge(p, o) ==
    /\ order[o] = "NONE"
    /\ job' = [job EXCEPT ![p] = [op |-> "buy", of |-> o, saw |-> "SUBMITTED", answer |-> "NONE"]]
    /\ pc[p] = "idle"
    /\ pc' = [pc EXCEPT ![p] = "calling"]
    /\ SetStatus(o, "SUBMITTED")
    /\ charge' = [charge EXCEPT ![o] = "CHARGED"]
    /\ UNCHANGED <<refunds, polls, processed, external, crashes>>

Reply(outcome) ==
    CASE outcome = "NONE" -> {}
      [] outcome = "PROCESSING" -> {"SUBMITTED", "AMBIGUOUS"}
      [] OTHER -> {outcome}

\* What the adapter makes of a request or a reply that got lost: the PIN
\* adapters may catch the error and report FAILED.
Lost(product) == IF product = "direct" THEN {"THROWN"} ELSE {"THROWN", "FAILED"}

\* The provider takes the order or never hears of it, and its reply may be lost.
Purchase(p) ==
    LET o == job[p].of IN
    /\ pc[p] = "calling"
    /\ \E outcome \in ProviderStatus :
        /\ provider' = [provider EXCEPT ![o] = outcome]
        /\ events' = events \cup (IF outcome \in Outcomes THEN {<<o, outcome>>} ELSE {})
        /\ \E a \in Reply(outcome) \cup Lost(Product[o]) :
               job' = [job EXCEPT ![p].answer = a]
    /\ pc' = [pc EXCEPT ![p] = "answered"]
    /\ UNCHANGED <<rows, work, crashes>>

\* Mutant: any purchase that was not accepted is refunded at once.
RejectedAny(p) == job[p].answer \notin {"DELIVERED", "SUBMITTED"}

\* A PIN that did not come is refunded at once, unless its fate is unknown.
Rejected(p) ==
    LET o == job[p].of
        a == job[p].answer
    IN
    \/ Product[o] = "airtime_epin" /\ a \notin {"DELIVERED", "THROWN"}
    \/ Product[o] = "data_epin" /\ a \notin {"DELIVERED", "THROWN", "SUBMITTED"}

\* Mutant: anything the provider accepted counts as delivered.
FinalStatusTrusting(a) == IF a = "SUBMITTED" THEN "DELIVERED" ELSE IF a = "DELIVERED" THEN a ELSE "AMBIGUOUS"

\* Mutant: the provider's answer is stored as it came.
FinalStatusRaw(a) == a

\* A saga that failed or was held leaves the order to the operators.
FinalStatus(a) == IF a \in {"DELIVERED", "SUBMITTED"} THEN a ELSE "AMBIGUOUS"

RecordPurchase(p) ==
    LET s == FinalStatus(job[p].answer) IN
    /\ pc[p] = "answered"
    /\ job[p].op = "buy"
    /\ ~Rejected(p)
    /\ SetStatus(job[p].of, s)
    /\ IF s = "SUBMITTED" THEN Goto(p, "enqueue") ELSE Return(p)
    /\ UNCHANGED <<charge, refunds, polls, processed, external, crashes>>

RejectPurchase(p) ==
    /\ pc[p] = "answered"
    /\ job[p].op = "buy"
    /\ Rejected(p)
    /\ Goto(p, "refund")
    /\ UNCHANGED <<rows, work, external, crashes>>

\* Without Redis the producer logs, returns, and there is no job.
EnqueuePoll(p) ==
    LET o == job[p].of IN
    /\ pc[p] = "enqueue"
    /\ polls' = [polls EXCEPT ![o] = MaxPolls] \/ UNCHANGED polls
    /\ Return(p)
    /\ UNCHANGED <<rows, stale, processed, external, crashes>>

-----------------------------------------------------------------------------
(* The worker.                                                             *)

\* A job runs on one worker at a time, and is done when the order is resolved.
BeginPoll(p, o) ==
    /\ polls[o] > 0
    /\ order[o] = "SUBMITTED"
    /\ \A q \in Procs : job[q].op = "poll" => job[q].of # o
    /\ Begin(p, "poll", o, "NONE", "asking")
    /\ UNCHANGED <<rows, work, external, crashes>>

FinishPoll(o) ==
    /\ polls[o] > 0
    /\ order[o] # "SUBMITTED"
    /\ \A q \in Procs : job[q].op = "poll" => job[q].of # o
    /\ polls' = [polls EXCEPT ![o] = 0]
    /\ UNCHANGED <<rows, stale, processed, external, pc, job, crashes>>

BeginReconcile(p, o) ==
    /\ o \in stale
    /\ order[o] \in {"SUBMITTED", "AMBIGUOUS"}
    /\ Begin(p, "reconcile", o, "NONE", "asking")
    /\ UNCHANGED <<rows, work, external, crashes>>

\* getOrderStatus; a reference the provider never saw is FAILED or unclear.
Snapshot(o) == IF provider[o] = "NONE" THEN {"FAILED", "AMBIGUOUS"} ELSE Reply(provider[o])

Answer(p) ==
    /\ pc[p] = "asking"
    /\ \E a \in Snapshot(job[p].of) : job' = [job EXCEPT ![p].answer = a]
    /\ pc' = [pc EXCEPT ![p] = "answered"]
    /\ UNCHANGED <<rows, work, external, crashes>>

NoAnswer(p) ==
    /\ pc[p] = "asking"
    /\ job' = [job EXCEPT ![p].answer = "THROWN"]
    /\ pc' = [pc EXCEPT ![p] = "answered"]
    /\ UNCHANGED <<rows, work, external, crashes>>

\* The last attempt of the job hands the order to the operators.
RecordPoll(p) ==
    LET o == job[p].of
        a == job[p].answer
    IN
    /\ pc[p] = "answered"
    /\ job[p].op = "poll"
    /\ IF a \in Outcomes \/ polls[o] = 1
       THEN /\ SetStatus(o, IF a = "DELIVERED" THEN a ELSE "AMBIGUOUS")
            /\ polls' = [polls EXCEPT ![o] = 0]
       ELSE /\ KeepStatus
            /\ polls' = [polls EXCEPT ![o] = @ - 1]
    /\ Return(p)
    /\ UNCHANGED <<charge, refunds, processed, external, crashes>>

\* Mutant: the sweep leaves SUBMITTED orders to their poll job.
RecordReconcileAmbiguousOnly(p) ==
    LET o == job[p].of IN
    /\ pc[p] = "answered"
    /\ job[p].op = "reconcile"
    /\ IF job[p].answer = "DELIVERED" /\ job[p].saw = "AMBIGUOUS"
       THEN SetStatus(o, "DELIVERED")
       ELSE KeepStatus
    /\ Return(p)
    /\ UNCHANGED <<charge, refunds, polls, processed, external, crashes>>

\* Mutant: a failure the provider reports to the sweep is not handed to anyone.
RecordReconcileDeliveredOnly(p) ==
    LET o == job[p].of IN
    /\ pc[p] = "answered"
    /\ job[p].op = "reconcile"
    /\ IF job[p].answer = "DELIVERED" THEN SetStatus(o, "DELIVERED") ELSE KeepStatus
    /\ Return(p)
    /\ UNCHANGED <<charge, refunds, polls, processed, external, crashes>>

RecordReconcile(p) ==
    LET o == job[p].of
        a == job[p].answer
    IN
    /\ pc[p] = "answered"
    /\ job[p].op = "reconcile"
    /\ IF a = "DELIVERED" THEN SetStatus(o, "DELIVERED")
       ELSE IF a = "FAILED" /\ job[p].saw = "SUBMITTED" THEN SetStatus(o, "AMBIGUOUS")
       ELSE KeepStatus
    /\ Return(p)
    /\ UNCHANGED <<charge, refunds, polls, processed, external, crashes>>

-----------------------------------------------------------------------------
(* The webhook.                                                            *)

BeginWebhook(p, e) ==
    /\ e \in events \ processed
    /\ Begin(p, "webhook", e[1], e[2], "handling")
    /\ UNCHANGED <<rows, work, external, crashes>>

\* completed-api: the order is delivered, unless it already was when read.
HandleCompleted(p) ==
    LET o == job[p].of IN
    /\ pc[p] = "handling"
    /\ job[p].answer = "DELIVERED"
    /\ IF job[p].saw # "DELIVERED" THEN SetStatus(o, "DELIVERED") ELSE KeepStatus
    /\ Goto(p, "done")
    /\ UNCHANGED <<charge, refunds, polls, processed, external, crashes>>

\* refunded-api: the charge is reversed before the status is written.
HandleRefunded(p) ==
    /\ pc[p] = "handling"
    /\ job[p].answer = "FAILED"
    /\ Goto(p, "refund")
    /\ UNCHANGED <<rows, work, external, crashes>>

MarkProcessed(p) ==
    /\ pc[p] = "done"
    /\ processed' = processed \cup {<<job[p].of, job[p].answer>>}
    /\ Return(p)
    /\ UNCHANGED <<rows, polls, stale, external, crashes>>

-----------------------------------------------------------------------------
(* reverseVtuCharge: three calls, no transaction.                          *)

FindCharge(p) ==
    /\ pc[p] = "refund"
    /\ Goto(p, IF charge[job[p].of] = "CHARGED" THEN "post" ELSE "refunded")
    /\ UNCHANGED <<rows, work, external, crashes>>

\* Mutant: the REVERSAL entry has no unique key.
PostReversalUnkeyed(p) ==
    /\ pc[p] = "post"
    /\ refunds[job[p].of] < 2
    /\ refunds' = [refunds EXCEPT ![job[p].of] = @ + 1]
    /\ Goto(p, "mark")
    /\ UNCHANGED <<order, charge, work, external, crashes>>

PostReversal(p) ==
    /\ pc[p] = "post"
    /\ refunds[job[p].of] = 0
    /\ refunds' = [refunds EXCEPT ![job[p].of] = @ + 1]
    /\ Goto(p, "mark")
    /\ UNCHANGED <<order, charge, work, external, crashes>>

\* The unique key of the REVERSAL entry is taken: the purchase leaves the order
\* to the operators, the webhook leaves its event unprocessed.
FailReversal(p) ==
    LET o == job[p].of IN
    /\ pc[p] = "post"
    /\ refunds[o] > 0
    /\ IF job[p].op = "buy" THEN SetStatus(o, "AMBIGUOUS") ELSE KeepStatus
    /\ Return(p)
    /\ UNCHANGED <<charge, refunds, polls, processed, external, crashes>>

MarkRefunded(p) ==
    /\ pc[p] = "mark"
    /\ charge' = [charge EXCEPT ![job[p].of] = "REFUNDED"]
    /\ Goto(p, "refunded")
    /\ UNCHANGED <<order, refunds, work, external, crashes>>

\* The caller of reverseVtuCharge writes the status.
WriteReversed(p) ==
    LET o == job[p].of IN
    /\ pc[p] = "refunded"
    /\ IF job[p].op = "buy" \/ job[p].saw # "REVERSED" THEN SetStatus(o, "REVERSED") ELSE KeepStatus
    /\ IF job[p].op = "buy" THEN Return(p) ELSE Goto(p, "done")
    /\ UNCHANGED <<charge, refunds, polls, processed, external, crashes>>

-----------------------------------------------------------------------------
(* The operator.                                                           *)

\* The operator resolves by the provider's own record, once that is final.
BeginResolve(p, o) ==
    /\ order[o] = "AMBIGUOUS"
    /\ provider[o] # "PROCESSING"
    /\ Begin(p, "resolve", o, IF provider[o] = "DELIVERED" THEN "DELIVERED" ELSE "FAILED", "resolving")
    /\ UNCHANGED <<rows, work, external, crashes>>

ResolveDelivered(p) ==
    /\ pc[p] = "resolving"
    /\ job[p].answer = "DELIVERED"
    /\ SetStatus(job[p].of, "DELIVERED")
    /\ Return(p)
    /\ UNCHANGED <<charge, refunds, polls, processed, external, crashes>>

\* One transaction: the status, and the reversal unless the charge was reversed.
ResolveReversed(p) ==
    LET o == job[p].of IN
    /\ pc[p] = "resolving"
    /\ job[p].answer = "FAILED"
    /\ IF charge[o] = "CHARGED"
       THEN /\ refunds[o] = 0
            /\ refunds' = [refunds EXCEPT ![o] = @ + 1]
            /\ charge' = [charge EXCEPT ![o] = "REFUNDED"]
       ELSE UNCHANGED <<charge, refunds>>
    /\ SetStatus(o, "REVERSED")
    /\ Return(p)
    /\ UNCHANGED <<polls, processed, external, crashes>>

\* The unique key of the REVERSAL entry is taken: the transaction is rolled back.
RollBackResolve(p) ==
    LET o == job[p].of IN
    /\ pc[p] = "resolving"
    /\ job[p].answer = "FAILED"
    /\ charge[o] = "CHARGED"
    /\ refunds[o] > 0
    /\ Return(p)
    /\ UNCHANGED <<rows, work, external, crashes>>

-----------------------------------------------------------------------------
(* The environment.                                                        *)

ProviderSettles(o) ==
    /\ provider[o] = "PROCESSING"
    /\ \E outcome \in Outcomes :
        /\ provider' = [provider EXCEPT ![o] = outcome]
        /\ events' = events \cup {<<o, outcome>>}
    /\ UNCHANGED <<rows, work, pc, job, crashes>>

\* A quarter of an hour passes; no request takes that long.
Age(o) ==
    /\ order[o] \in {"SUBMITTED", "AMBIGUOUS"}
    /\ \A p \in Procs : job[p].op = "buy" => job[p].of # o
    /\ o \notin stale
    /\ stale' = stale \cup {o}
    /\ UNCHANGED <<rows, polls, processed, external, pc, job, crashes>>

\* A process dies or a database call fails; a poll job may or may not be run again.
Crash(p) ==
    /\ pc[p] # "idle"
    /\ crashes < MaxCrashes
    /\ crashes' = crashes + 1
    /\ IF job[p].op = "poll"
       THEN polls' \in {polls, [polls EXCEPT ![job[p].of] = 0]}
       ELSE UNCHANGED polls
    /\ Return(p)
    /\ UNCHANGED <<rows, stale, processed, external>>

-----------------------------------------------------------------------------

Reversal(p) ==
    \/ FindCharge(p) \/ PostReversal(p) \/ FailReversal(p)
    \/ MarkRefunded(p) \/ WriteReversed(p)

\* What a handler does once it has begun.
Handle(p) ==
    \/ Purchase(p) \/ RecordPurchase(p) \/ RejectPurchase(p) \/ EnqueuePoll(p)
    \/ Answer(p) \/ RecordPoll(p) \/ RecordReconcile(p)
    \/ HandleCompleted(p) \/ HandleRefunded(p) \/ MarkProcessed(p)
    \/ Reversal(p)
    \/ ResolveDelivered(p) \/ ResolveReversed(p) \/ RollBackResolve(p)

Next ==
    \/ \E p \in Procs : Handle(p) \/ NoAnswer(p) \/ Crash(p)
    \/ \E p \in Procs, o \in Orders :
        Charge(p, o) \/ BeginPoll(p, o) \/ BeginReconcile(p, o) \/ BeginResolve(p, o)
    \/ \E p \in Procs, e \in Events : BeginWebhook(p, e)
    \/ \E o \in Orders : FinishPoll(o) \/ ProviderSettles(o) \/ Age(o)

Spec == Init /\ [][Next]_vars

\* A handler that has begun runs to its end, and the provider answers time and
\* again; the sweep and the worker come back to every order, and so does an
\* operator.  The provider need not ever settle an order or send its webhook.
Fairness ==
    /\ \A p \in Procs : WF_vars(Handle(p)) /\ SF_vars(Answer(p))
    /\ \A o \in Orders :
        /\ WF_vars(Age(o))
        /\ WF_vars(FinishPoll(o))
        /\ SF_vars(\E p \in Procs : BeginPoll(p, o))
        /\ SF_vars(\E p \in Procs : BeginReconcile(p, o))
        /\ SF_vars(\E p \in Procs : BeginResolve(p, o))

FairSpec == Spec /\ Fairness

-----------------------------------------------------------------------------
(* Properties.                                                             *)

\* However many handlers reverse one charge at once, and wherever they crash, the
\* price is given back at most once, and always when the charge says REFUNDED or the
\* order is shown as REVERSED.
RefundedOnce ==
    \A o \in Orders :
        /\ refunds[o] <= 1
        /\ charge[o] = "REFUNDED" \/ order[o] = "REVERSED" => refunds[o] = 1

\* What the provider delivers is not given back as well, whatever was lost, late or
\* resolved by hand in between.  Printed PINs are excepted: their adapters report a
\* lost reply as a failure, which is refunded at once.
DeliveredIsKept ==
    \A o \in Orders :
        Product[o] = "direct" => ~(provider[o] = "DELIVERED" /\ refunds[o] > 0)

\* An order shown as DELIVERED was delivered: no lost reply, stale read or crash
\* makes a customer pay for nothing and stop looking.
DeliveredIsDelivered ==
    \A o \in Orders : order[o] = "DELIVERED" => provider[o] = "DELIVERED"

\* What the provider delivered ends up DELIVERED and stays so, whatever a late poll,
\* a lost webhook or a crash made of it in between.
DeliverySticks ==
    \A o \in Orders : provider[o] = "DELIVERED" ~> [](order[o] = "DELIVERED")

\* What the provider failed to deliver is paid back in the end.
FailureRefunded ==
    \A o \in Orders : provider[o] = "FAILED" ~> refunds[o] = 1

-----------------------------------------------------------------------------
(* The inductive invariant behind the safety properties.                   *)

\* A handler works on an order that was charged; only one request buys it, before
\* the provider has seen it, and one poll job follows it while it has attempts left.
Working ==
    /\ \A o \in Orders : order[o] = "NONE" <=> charge[o] = "NONE"
    /\ \A p \in Procs :
        /\ pc[p] = "idle" <=> job[p].op = "none"
        /\ pc[p] # "idle" => order[job[p].of] # "NONE"
        /\ pc[p] = "calling" => job[p].op = "buy" /\ provider[job[p].of] = "NONE"
        /\ pc[p] = "asking" => job[p].op \in {"poll", "reconcile"}
        /\ pc[p] \in {"handling", "done"} => job[p].op = "webhook"
        /\ pc[p] \in {"refund", "post", "mark", "refunded"} => job[p].op \in {"buy", "webhook"}
        /\ job[p].op = "webhook" => job[p].answer \in Outcomes
        /\ job[p].op = "poll" => polls[job[p].of] > 0
    /\ \A p, q \in Procs :
        p # q /\ job[p].op \in {"buy", "poll"} /\ job[p].op = job[q].op => job[p].of # job[q].of

\* A charge marked REFUNDED has its one reversal in the ledger.
ChargesReversed ==
    \A o \in Orders :
        /\ refunds[o] <= 1
        /\ charge[o] = "REFUNDED" => refunds[o] = 1

\* So has an order shown as REVERSED.
ReversedIsRefunded ==
    \A o \in Orders : order[o] = "REVERSED" => refunds[o] = 1

\* While its purchase is with the provider, nobody else has reason to touch an order.
CallingAlone ==
    /\ \A o \in Orders : order[o] = "NONE" => refunds[o] = 0 /\ polls[o] = 0
    /\ \A p \in Procs : pc[p] = "calling" =>
        LET o == job[p].of IN
        /\ order[o] = "SUBMITTED" /\ o \notin stale
        /\ refunds[o] = 0 /\ polls[o] = 0
        /\ \A q \in Procs \ {p} : job[q].of # o

\* The provider failed what is given back, or never heard of it: a webhook says so, an
\* operator has looked, and a purchase is refunded for printed PINs only.
FailuresTrue ==
    \A p \in Procs :
        /\ pc[p] = "resolving" => job[p].op = "resolve"
        /\ job[p].op = "webhook" /\ job[p].answer = "FAILED" => provider[job[p].of] = "FAILED"
        /\ job[p].op = "resolve" /\ job[p].answer = "FAILED" => provider[job[p].of] \in {"NONE", "FAILED"}
        /\ pc[p] \in {"refund", "post", "mark", "refunded"} =>
              IF job[p].op = "buy" THEN Product[job[p].of] # "direct" ELSE job[p].answer = "FAILED"

\* Only what failed is given back, printed PINs excepted.
RefundsJustified ==
    \A o \in Orders :
        Product[o] = "direct" /\ refunds[o] > 0 => provider[o] \in {"NONE", "FAILED"}

\* Past its posting, or with nothing left to post, the reversal is in the ledger.
ReversalsPosted ==
    \A p \in Procs : pc[p] \in {"mark", "refunded"} => refunds[job[p].of] = 1

\* The provider has only heard of orders that were charged, and whatever a handler
\* was told of a delivery is still so when it acts on it.
AnswersTrue ==
    /\ \A o \in Orders : order[o] = "NONE" => provider[o] = "NONE"
    /\ \A e \in events : provider[e[1]] = e[2]
    /\ \A p \in Procs : job[p].answer = "DELIVERED" => provider[job[p].of] = "DELIVERED"

VtuInv ==
    /\ TypeOK
    /\ Working
    /\ ReversalsPosted
    /\ AnswersTrue
    /\ ChargesReversed
    /\ ReversedIsRefunded
    /\ DeliveredIsDelivered
    /\ CallingAlone
    /\ FailuresTrue
    /\ RefundsJustified
=============================================================================
