----------------------------- MODULE GuestCheckout -----------------------------
(***************************************************************************)
(* A purchase without an account: the guest pays through the Korapay       *)
(* gateway, whose webhook makes the transaction PAID and has the provider  *)
(* fulfil it.  Every payment the guest begins replaces the reference the   *)
(* webhook is matched by.                                                  *)
(***************************************************************************)
EXTENDS Handlers

CONSTANTS
    Guests,     \* guest transactions
    Payments    \* payments the gateway may be asked for

ASSUME GuestAssumption == None \notin Guests \cup Payments

VARIABLES
    gtPayment,      \* GuestTransaction.paymentStatus
    gtFulfilment,   \* GuestTransaction.fulfilmentStatus
    gtReference,    \* GuestTransaction.paymentReference
    gtReceipts,     \* webhook events whose receipt is processed
    gtOwner,        \* whose payment each is (external)
    gtGateway,      \* what became of each payment at the gateway (external)
    gtServed        \* transactions the provider took an order for (external)

gtVars == <<gtPayment, gtFulfilment, gtReference, gtReceipts, gtOwner, gtGateway, gtServed>>

GTSteps == {"attach", "verify", "apply", "look", "begin", "purchase", "outcome", "mark"}
GTJobs == [op : {"initiate", "webhook", "retry"}, of : Guests \X (Payments \cup {None}),
           saw : {"UNPAID", "PAID", "FAILED"},
           got : {"none", "OPEN", "COMPLETED", "FAILED", "DELIVERED"}]

GTTypeOK ==
    /\ gtPayment \in [Guests -> {"UNPAID", "PAID", "FAILED"}]
    /\ gtFulfilment \in [Guests -> {"PENDING", "PROCESSING", "DELIVERED", "FAILED"}]
    /\ gtReference \in [Guests -> Payments \cup {None}]
    /\ gtReceipts \subseteq Payments
    /\ gtOwner \in [Payments -> Guests \cup {None}]
    /\ gtGateway \in [Payments -> {"NONE", "OPEN", "COMPLETED", "FAILED"}]
    /\ gtServed \subseteq Guests

\* checkout has created the transactions.
GTInit ==
    /\ gtPayment = [t \in Guests |-> "UNPAID"]
    /\ gtFulfilment = [t \in Guests |-> "PENDING"]
    /\ gtReference = [t \in Guests |-> None]
    /\ gtReceipts = {}
    /\ gtOwner = [m \in Payments |-> None]
    /\ gtGateway = [m \in Payments |-> "NONE"]
    /\ gtServed = {}

GuestOf(p) == job[p].of[1]
PaymentOf(p) == job[p].of[2]
gtOutside == <<gtOwner, gtGateway, gtServed>>

-----------------------------------------------------------------------------

InitiatePayment(p, t, m) ==
    /\ gtPayment[t] # "PAID"
    /\ gtOwner[m] = None
    /\ Start(p, "initiate", <<t, m>>, gtPayment[t], "attach")
    /\ gtOwner' = [gtOwner EXCEPT ![m] = t]
    /\ UNCHANGED <<gtPayment, gtFulfilment, gtReference, gtReceipts, gtGateway, gtServed>>

\* From here on the guest has the checkout's address.
AttachPayment(p) ==
    /\ pc[p] = "attach"
    /\ Return(p)
    /\ gtReference' = [gtReference EXCEPT ![GuestOf(p)] = PaymentOf(p)]
    /\ gtGateway' = [gtGateway EXCEPT ![PaymentOf(p)] = "OPEN"]
    /\ UNCHANGED <<gtPayment, gtFulfilment, gtReceipts, gtOwner, gtServed>>

GuestPays(m) ==
    /\ gtGateway[m] = "OPEN"
    /\ \E outcome \in {"COMPLETED", "FAILED"} : gtGateway' = [gtGateway EXCEPT ![m] = outcome]
    /\ UNCHANGED <<gtPayment, gtFulfilment, gtReference, gtReceipts, gtOwner, gtServed, handlers>>

\* Mutant: the receipt is marked when the event comes in.
ReceiveWebhook(p, t, m) ==
    /\ gtGateway[m] \in {"COMPLETED", "FAILED"}
    /\ m \notin gtReceipts
    /\ gtReference[t] = m
    /\ Start(p, "webhook", <<t, m>>, gtPayment[t], "verify")
    /\ gtReceipts' = gtReceipts \cup {m}
    /\ UNCHANGED <<gtPayment, gtFulfilment, gtReference, gtOwner, gtGateway, gtServed>>

\* The event of a payment that ended, sent any number of times.  Without a
\* transaction of that reference it is accepted and forgotten.
BeginWebhook(p, t, m) ==
    /\ gtGateway[m] \in {"COMPLETED", "FAILED"}
    /\ m \notin gtReceipts
    /\ gtReference[t] = m
    /\ Start(p, "webhook", <<t, m>>, gtPayment[t], "verify")
    /\ UNCHANGED gtVars

\* Mutant: the webhook's word is taken for the gateway's.
TrustWebhook(p) ==
    /\ pc[p] = "verify"
    /\ Learn(p, "COMPLETED", "apply")
    /\ UNCHANGED gtVars

VerifyPayment(p) ==
    /\ pc[p] = "verify"
    /\ Learn(p, gtGateway[PaymentOf(p)], "apply")
    /\ UNCHANGED gtVars

\* PAID by the status read before the gateway answered, FAILED whatever it is.
ApplyPayment(p) ==
    LET t == GuestOf(p) IN
    /\ pc[p] = "apply"
    /\ \/ /\ job[p].got = "COMPLETED" /\ job[p].saw # "PAID"
          /\ gtPayment' = [gtPayment EXCEPT ![t] = "PAID"]
          /\ Goto(p, "look")
       \/ /\ job[p].got = "COMPLETED" /\ job[p].saw = "PAID"
          /\ Goto(p, "mark") /\ UNCHANGED gtPayment
       \/ /\ job[p].got = "FAILED"
          /\ gtPayment' = [gtPayment EXCEPT ![t] = "FAILED"]
          /\ Goto(p, "mark")
    /\ UNCHANGED <<gtFulfilment, gtReference, gtReceipts, gtOutside>>

MarkProcessed(p) ==
    /\ pc[p] = "mark"
    /\ Return(p)
    /\ gtReceipts' = gtReceipts \cup {PaymentOf(p)}
    /\ UNCHANGED <<gtPayment, gtFulfilment, gtReference, gtOutside>>

-----------------------------------------------------------------------------
(* Fulfilment, by the webhook or by an operator's retry.                   *)

RetryFulfilment(p, t) ==
    /\ gtPayment[t] = "PAID"
    /\ gtFulfilment[t] # "DELIVERED"
    /\ Start(p, "retry", <<t, None>>, "PAID", "look")
    /\ UNCHANGED gtVars

Leave(p) == IF job[p].op = "webhook" THEN Goto(p, "mark") ELSE Return(p)

LookAtFulfilment(p) ==
    /\ pc[p] = "look"
    /\ IF gtFulfilment[GuestOf(p)] = "DELIVERED" THEN Leave(p) ELSE Goto(p, "begin")
    /\ UNCHANGED gtVars

SetFulfilment(t, s) ==
    /\ gtFulfilment' = [gtFulfilment EXCEPT ![t] = s]
    /\ UNCHANGED <<gtPayment, gtReference, gtReceipts, gtOutside>>

BeginFulfilment(p) ==
    /\ pc[p] = "begin"
    /\ Goto(p, "purchase")
    /\ SetFulfilment(GuestOf(p), "PROCESSING")

\* An order the provider took may be reported as failed when the reply is lost;
\* one it is still working on is reported as delivered.
PurchaseForGuest(p) ==
    /\ pc[p] = "purchase"
    /\ \/ /\ gtServed' = gtServed \cup {GuestOf(p)}
          /\ \E a \in {"DELIVERED", "FAILED"} : Learn(p, a, "outcome")
       \/ Learn(p, "FAILED", "outcome") /\ UNCHANGED gtServed
    /\ UNCHANGED <<gtPayment, gtFulfilment, gtReference, gtReceipts, gtOwner, gtGateway>>

RecordFulfilment(p) ==
    /\ pc[p] = "outcome"
    /\ Leave(p)
    /\ SetFulfilment(GuestOf(p), job[p].got)

GTStep(p) ==
    \/ AttachPayment(p)
    \/ VerifyPayment(p)
    \/ ApplyPayment(p)
    \/ MarkProcessed(p)
    \/ LookAtFulfilment(p)
    \/ BeginFulfilment(p)
    \/ PurchaseForGuest(p)
    \/ RecordFulfilment(p)

GTNext ==
    \/ \E p \in Procs :
        \/ GTStep(p)
        \/ \E t \in Guests, m \in Payments : InitiatePayment(p, t, m) \/ BeginWebhook(p, t, m)
        \/ \E t \in Guests : RetryFulfilment(p, t)
        \/ Crash(p) /\ UNCHANGED gtVars
    \/ \E m \in Payments : GuestPays(m)

GTSpec == GTInit /\ HandlersInit /\ [][GTNext]_<<gtVars, handlers>>

\* A handler goes on, and the gateway sends an event until it is answered.
GTFairness ==
    /\ \A p \in Procs : WF_<<gtVars, handlers>>(GTStep(p))
    /\ \A t \in Guests, m \in Payments :
            SF_<<gtVars, handlers>>(\E p \in Procs : BeginWebhook(p, t, m))

-----------------------------------------------------------------------------
\* "Never trust the frontend/webhook payload": the provider is asked for nothing
\* the gateway has not confirmed the payment of, whatever webhooks and retries of
\* old and new payments overlap.
GuestServedIsPaid ==
    \A t \in Guests :
        t \in gtServed \/ gtPayment[t] = "PAID" =>
            \E m \in Payments : gtOwner[m] = t /\ gtGateway[m] = "COMPLETED"

\* A completed payment is noticed, despite a crash, unless the guest has begun
\* another payment since, whose reference replaced its own, or another payment of
\* the guest failed, whose webhook may overwrite PAID.
GuestPaymentNoticed ==
    \A t \in Guests, m \in Payments :
        gtGateway[m] = "COMPLETED" /\ gtReference[t] = m ~>
            \/ gtPayment[t] = "PAID"
            \/ gtReference[t] # m
            \/ \E other \in Payments : gtOwner[other] = t /\ gtGateway[other] = "FAILED"
===============================================================================
