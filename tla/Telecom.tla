-------------------------------- MODULE Telecom --------------------------------
(***************************************************************************)
(* Airtime and data of the telecom gateway: debited with the order, sent   *)
(* to the provider, and looked up whenever the customer asks for the       *)
(* order's status, from the moment the row is there.  Nothing but that     *)
(* question settles an order whose answer left it open, and nothing is     *)
(* locked meanwhile.                                                       *)
(***************************************************************************)
EXTENDS Handlers

CONSTANTS
    TelecomOrders,
    ByRequestId     \* those of ClubKonnect, which is asked by our own reference;
                    \* the others are Reloadly's, asked by its transactionId

ASSUME TelecomAssumption == ByRequestId \subseteq TelecomOrders

VARIABLES
    tgStatus,       \* TelecomOrder.status
    tgReversals,    \* REVERSAL entries of each order; its DEBIT comes with the row
    tgKnown,        \* orders whose providerReference is the provider's own id
    tgProvider,     \* the provider's status of each order (external)
    tgDenied        \* history: called FAILED by a provider that did not have it yet

tgVars == <<tgStatus, tgReversals, tgKnown, tgProvider, tgDenied>>

TelecomStatus == {"SUBMITTED", "DELIVERED", "FAILED", "AMBIGUOUS", "REVERSED"}

TGSteps == {"submit", "record", "unanswered", "reread", "ambiguous", "ask", "unknown", "reverse", "write"}
TGJobs == [op : {"buy", "poll"}, of : TelecomOrders, saw : TelecomStatus \cup {"none"},
           got : TelecomStatus \cup {"none"}]

TGTypeOK ==
    /\ tgStatus \in [TelecomOrders -> TelecomStatus \cup {"NONE"}]
    /\ tgReversals \in [TelecomOrders -> Nat]
    /\ tgKnown \subseteq TelecomOrders
    /\ tgProvider \in [TelecomOrders -> {"none", "SUBMITTED", "DELIVERED", "FAILED"}]
    /\ tgDenied \subseteq ByRequestId

TGInit ==
    /\ tgStatus = [o \in TelecomOrders |-> "NONE"]
    /\ tgReversals = [o \in TelecomOrders |-> 0]
    /\ tgKnown = {}
    /\ tgProvider = [o \in TelecomOrders |-> "none"]
    /\ tgDenied = {}

SetTelecom(o, s) == tgStatus' = [tgStatus EXCEPT ![o] = s]

-----------------------------------------------------------------------------
(* buyAirtime and buyData.                                                 *)

\* One transaction: the order, with our own reference as its providerReference,
\* the DEBIT entry and the link between them.
BuyTelecom(p, o) ==
    /\ tgStatus[o] = "NONE"
    /\ Start(p, "buy", o, "none", "submit")
    /\ SetTelecom(o, "SUBMITTED")
    /\ UNCHANGED <<tgReversals, tgKnown, tgProvider, tgDenied>>

\* No answer: ClubKonnect's adapter throws, Reloadly's calls it FAILED under our
\* own reference.
NoAnswer(p, o) == Goto(p, IF o \in ByRequestId THEN "ambiguous" ELSE "unanswered")

\* The provider's verdict comes back or is lost, whatever it decided, or the order
\* never reaches it; an answer that is neither DELIVERED nor SUBMITTED is kept as
\* AMBIGUOUS.
SubmitTelecom(p) ==
    LET o == job[p].of IN
    /\ At(p, "buy", "submit")
    /\ \/ \E s \in {"SUBMITTED", "DELIVERED", "FAILED"} :
            /\ tgProvider' = [tgProvider EXCEPT ![o] = s]
            /\ \/ Learn(p, IF s = "FAILED" THEN "AMBIGUOUS" ELSE s, "record")
               \/ Learn(p, "AMBIGUOUS", "record")
               \/ NoAnswer(p, o)
       \/ NoAnswer(p, o) /\ UNCHANGED tgProvider
    /\ UNCHANGED <<tgStatus, tgReversals, tgKnown, tgDenied>>

\* The answer is stored, whatever a poll has written meanwhile, and the provider's
\* reference in the place of ours; then the row is read again.
RecordTelecom(p) ==
    /\ At(p, "buy", "record")
    /\ Goto(p, "reread")
    /\ SetTelecom(job[p].of, job[p].got)
    /\ tgKnown' = tgKnown \cup {job[p].of}
    /\ UNCHANGED <<tgReversals, tgProvider, tgDenied>>

\* The same write, with our own reference.
RecordUnanswered(p) ==
    /\ At(p, "buy", "unanswered")
    /\ Goto(p, "reread")
    /\ SetTelecom(job[p].of, "AMBIGUOUS")
    /\ UNCHANGED <<tgReversals, tgKnown, tgProvider, tgDenied>>

RereadTelecom(p) ==
    /\ At(p, "buy", "reread")
    /\ Return(p)
    /\ UNCHANGED tgVars

RecordTelecomFails(p) ==
    /\ job[p].op = "buy"
    /\ pc[p] \in {"record", "unanswered", "reread"}
    /\ DbError(p, "ambiguous")
    /\ UNCHANGED tgVars

\* Whatever the status is by now.
MarkTelecomAmbiguous(p) ==
    /\ At(p, "buy", "ambiguous")
    /\ Return(p)
    /\ SetTelecom(job[p].of, "AMBIGUOUS")
    /\ UNCHANGED <<tgReversals, tgKnown, tgProvider, tgDenied>>

-----------------------------------------------------------------------------
(* getOrderStatus.                                                         *)

\* Every row has a providerReference.  Reloadly does not know ours.
BeginPoll(p, o) ==
    /\ tgStatus[o] \notin {"NONE", "DELIVERED", "FAILED"}
    /\ Start(p, "poll", o, tgStatus[o], IF o \in ByRequestId \cup tgKnown THEN "ask" ELSE "unknown")
    /\ UNCHANGED tgVars

\* The question ends in an error, which nothing catches.
AskFails(p) ==
    /\ At(p, "poll", "ask") \/ At(p, "poll", "unknown")
    /\ Return(p)
    /\ UNCHANGED tgVars

\* What the provider says of an order: that it cannot tell, or what is so; of an
\* order that has not reached it, ClubKonnect may also say that it failed.
Answers(o) ==
    {"AMBIGUOUS"} \cup (IF tgProvider[o] = "none" THEN {"FAILED"} ELSE {tgProvider[o]})

\* Mutant: an answer that settles nothing counts as a failure.
AskBluntly(p) ==
    LET o == job[p].of IN
    /\ At(p, "poll", "ask")
    /\ \E s \in Answers(o) :
        /\ IF s = job[p].saw THEN Return(p)
           ELSE IF s \in {"FAILED", "AMBIGUOUS"} THEN Learn(p, "REVERSED", "reverse")
           ELSE Learn(p, s, "write")
        /\ tgDenied' = IF s = "FAILED" /\ tgProvider[o] = "none" THEN tgDenied \cup {o} ELSE tgDenied
    /\ UNCHANGED <<tgStatus, tgReversals, tgKnown, tgProvider>>

\* Nothing is done unless the answer settles something the row did not say.
AskProvider(p) ==
    LET o == job[p].of IN
    /\ At(p, "poll", "ask")
    /\ \E s \in Answers(o) :
        /\ IF s \in {"AMBIGUOUS", job[p].saw} THEN Return(p)
           ELSE IF s = "FAILED" THEN Learn(p, "REVERSED", "reverse")
           ELSE Learn(p, s, "write")
        /\ tgDenied' = IF s = "FAILED" /\ tgProvider[o] = "none" THEN tgDenied \cup {o} ELSE tgDenied
    /\ UNCHANGED <<tgStatus, tgReversals, tgKnown, tgProvider>>

\* reverseCharge: a second REVERSAL with the key is refused, and the error ends
\* the poll before its status is written.
ReverseTelecom(p) ==
    LET o == job[p].of IN
    /\ At(p, "poll", "reverse")
    /\ IF tgReversals[o] = 0
       THEN Goto(p, "write") /\ tgReversals' = [tgReversals EXCEPT ![o] = @ + 1]
       ELSE Return(p) /\ UNCHANGED tgReversals
    /\ UNCHANGED <<tgStatus, tgKnown, tgProvider, tgDenied>>

WriteTelecom(p) ==
    /\ At(p, "poll", "write")
    /\ Return(p)
    /\ SetTelecom(job[p].of, job[p].got)
    /\ UNCHANGED <<tgReversals, tgKnown, tgProvider, tgDenied>>

TelecomSettles(o) ==
    /\ tgProvider[o] = "SUBMITTED"
    /\ \E s \in {"DELIVERED", "FAILED"} : tgProvider' = [tgProvider EXCEPT ![o] = s]
    /\ UNCHANGED <<tgStatus, tgReversals, tgKnown, tgDenied, handlers>>

TGNext ==
    \/ \E p \in Procs :
        \/ \E o \in TelecomOrders : BuyTelecom(p, o) \/ BeginPoll(p, o)
        \/ SubmitTelecom(p)
        \/ RecordTelecom(p)
        \/ RecordUnanswered(p)
        \/ RereadTelecom(p)
        \/ RecordTelecomFails(p)
        \/ MarkTelecomAmbiguous(p)
        \/ AskProvider(p)
        \/ AskFails(p)
        \/ ReverseTelecom(p)
        \/ WriteTelecom(p)
        \/ Crash(p) /\ UNCHANGED tgVars
    \/ \E o \in TelecomOrders : TelecomSettles(o)

TGSpec == TGInit /\ HandlersInit /\ [][TGNext]_<<tgVars, handlers>>

-----------------------------------------------------------------------------
\* However polls overlap with the purchase, with each other and with a purchase that
\* fails late, and whatever crash separates the reversal from the status: an order is
\* given back at most once and only on the provider's word that it failed, says
\* REVERSED only if it was given back, and says DELIVERED only if the provider
\* delivered it.  ClubKonnect's word counts also before it has the order: such an
\* order can be given back and delivered afterwards.
TelecomHonest ==
    \A o \in TelecomOrders :
        /\ tgReversals[o] <= 1
        /\ tgReversals[o] = 1 => tgProvider[o] = "FAILED" \/ o \in tgDenied
        /\ tgStatus[o] = "REVERSED" => tgReversals[o] = 1
        /\ tgStatus[o] = "DELIVERED" => tgProvider[o] = "DELIVERED"
===============================================================================
