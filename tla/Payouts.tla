-------------------------------- MODULE Payouts --------------------------------
(***************************************************************************)
(* Money sent to a bank account: remittances, which use a quote and debit  *)
(* the wallet at once, and withdrawals, which hold the amount until the    *)
(* provider has answered.  An answer that leaves the payout's fate unknown *)
(* opens a reconciliation exception and moves no money.                    *)
(***************************************************************************)
EXTENDS Handlers

CONSTANTS
    Remittances,
    Withdrawals,
    Quotes,         \* RemittanceQuote rows
    PoQuote         \* [Remittances -> Quotes]

ASSUME PayoutsAssumption ==
    /\ PoQuote \in [Remittances -> Quotes]
    /\ Remittances \cap Withdrawals = {}

VARIABLES
    poQuote,        \* RemittanceQuote.status
    poStatus,       \* RemittanceTransfer.status, WalletWithdrawal.status
    poEntries,      \* ledger entries of each payout
    poOpen,         \* payouts with a reconciliation exception
    poProvider,     \* what became of the payout at the provider (external)
    poEvents        \* status events the provider sends, in any order and number (external)

poVars == <<poQuote, poStatus, poEntries, poOpen, poProvider, poEvents>>
poBooks == <<poQuote, poEntries, poOpen>>

PayoutIds == Remittances \cup Withdrawals
PayoutStatus == {"NONE", "CHARGED", "HOLD", "PROCESSING", "COMPLETED", "FAILED", "DISPUTED",
                 "RECONCILIATION_REQUIRED"}
PayoutFates == {"none", "rejected", "PROCESSING", "DISPUTED", "COMPLETED", "FAILED"}
Reported == {"DISPUTED", "COMPLETED", "FAILED"}
POSteps == {"claim", "debit", "send", "record", "safe", "ambiguous", "exception", "update"}
POJobs == [op : {"remit", "withdraw", "webhook"}, of : PayoutIds, saw : PayoutStatus,
           got : {"none", "PROCESSING"} \cup Reported]

POTypeOK ==
    /\ poQuote \in [Quotes -> {"ACTIVE", "USED", "EXPIRED"}]
    /\ poStatus \in [PayoutIds -> PayoutStatus]
    /\ poEntries \in [PayoutIds -> SUBSET {"hold", "debit", "release"}]
    /\ poOpen \subseteq PayoutIds
    /\ poProvider \in [PayoutIds -> PayoutFates]
    /\ poEvents \subseteq Remittances \X Reported

POInit ==
    /\ poQuote = [q \in Quotes |-> "ACTIVE"]
    /\ poStatus = [x \in PayoutIds |-> "NONE"]
    /\ poEntries = [x \in PayoutIds |-> {}]
    /\ poOpen = {}
    /\ poProvider = [x \in PayoutIds |-> "none"]
    /\ poEvents = {}

SetPayout(x, s) == poStatus' = [poStatus EXCEPT ![x] = s]
Enter(x, kinds) == poEntries' = [poEntries EXCEPT ![x] = @ \cup kinds]
poExternal == <<poProvider, poEvents>>

-----------------------------------------------------------------------------
(* The quote, the debit or hold, and the provider.                         *)

ReadQuote(p, r) ==
    /\ poStatus[r] = "NONE"
    /\ poQuote[PoQuote[r]] = "ACTIVE"
    /\ Start(p, "remit", r, "NONE", "claim")
    /\ UNCHANGED poVars

\* Mutant: an update by id.
ClaimReadQuote(p) ==
    /\ At(p, "remit", "claim")
    /\ Goto(p, "debit")
    /\ poQuote' = [poQuote EXCEPT ![PoQuote[job[p].of]] = "USED"]
    /\ UNCHANGED <<poStatus, poEntries, poOpen, poExternal>>

\* An updateMany that counts the rows it changed.
ClaimQuote(p) ==
    LET q == PoQuote[job[p].of] IN
    /\ At(p, "remit", "claim")
    /\ IF poQuote[q] = "ACTIVE"
       THEN Goto(p, "debit") /\ poQuote' = [poQuote EXCEPT ![q] = "USED"]
       ELSE Return(p) /\ UNCHANGED poQuote
    /\ UNCHANGED <<poStatus, poEntries, poOpen, poExternal>>

\* Found expired when it is next looked at.
QuoteExpires(q) ==
    /\ poQuote[q] = "ACTIVE"
    /\ poQuote' = [poQuote EXCEPT ![q] = "EXPIRED"]
    /\ UNCHANGED <<poStatus, poEntries, poOpen, poExternal, handlers>>

\* A balance too low ends the request, with its quote used.
DebitRemittance(p) ==
    LET r == job[p].of IN
    /\ At(p, "remit", "debit")
    /\ \/ Goto(p, "send") /\ SetPayout(r, "CHARGED") /\ Enter(r, {"debit"})
       \/ Return(p) /\ UNCHANGED <<poStatus, poEntries>>
    /\ UNCHANGED <<poQuote, poOpen, poExternal>>

RequestWithdrawal(p, w) ==
    /\ poStatus[w] = "NONE"
    /\ Start(p, "withdraw", w, "NONE", "send")
    /\ SetPayout(w, "HOLD")
    /\ Enter(w, {"hold"})
    /\ UNCHANGED <<poQuote, poOpen, poExternal>>

\* The provider rejects the payout, or takes it; the answer says so, or is lost.
SendTransfer(p) ==
    LET x == job[p].of IN
    /\ pc[p] = "send"
    /\ \E fate \in {"none", "rejected", "PROCESSING", "COMPLETED", "FAILED"} :
        /\ poProvider' = [poProvider EXCEPT ![x] = fate]
        /\ \/ fate \in {"PROCESSING", "COMPLETED", "FAILED"} /\ Learn(p, fate, "record")
           \/ fate = "rejected" /\ Goto(p, "safe")
           \/ Goto(p, "ambiguous")
    /\ UNCHANGED <<poBooks, poStatus, poEvents>>

\* A completed withdrawal turns its hold into a debit, a failed one releases it,
\* in one transaction with the status; a remittance only takes the status.
RecordTransfer(p) ==
    LET x == job[p].of IN
    /\ pc[p] = "record"
    /\ Return(p)
    /\ SetPayout(x, job[p].got)
    /\ Enter(x, IF job[p].op = "remit" \/ job[p].got = "PROCESSING" THEN {}
                ELSE IF job[p].got = "COMPLETED" THEN {"release", "debit"} ELSE {"release"})
    /\ UNCHANGED <<poQuote, poOpen, poExternal>>

RecordFails(p) ==
    /\ pc[p] = "record"
    /\ DbError(p, "ambiguous")
    /\ UNCHANGED poVars

\* classifyFallbackSafety: SAFE_TO_RETRY.
FailRejected(p) ==
    /\ pc[p] = "safe"
    /\ Return(p)
    /\ SetPayout(job[p].of, "FAILED")
    /\ Enter(job[p].of, IF job[p].op = "remit" THEN {} ELSE {"release"})
    /\ UNCHANGED <<poQuote, poOpen, poExternal>>

\* Mutant: the status word of the VTU orders.
HoldUnderOldName(p) ==
    /\ pc[p] = "ambiguous"
    /\ Goto(p, "exception")
    /\ SetPayout(job[p].of, "AMBIGUOUS")
    /\ UNCHANGED <<poBooks, poExternal>>

\* classifyFallbackSafety: PROVIDER_TRANSACTION_MAY_EXIST.
HoldAmbiguous(p) ==
    /\ pc[p] = "ambiguous"
    /\ Goto(p, "exception")
    /\ SetPayout(job[p].of, "RECONCILIATION_REQUIRED")
    /\ UNCHANGED <<poBooks, poExternal>>

OpenException(p) ==
    /\ pc[p] = "exception"
    /\ Return(p)
    /\ poOpen' = poOpen \cup {job[p].of}
    /\ UNCHANGED <<poQuote, poStatus, poEntries, poExternal>>

-----------------------------------------------------------------------------
(* The provider goes on, and tells the webhook; of a withdrawal nothing     *)
(* hears that it went on.                                                  *)

ProviderMoves(r) ==
    /\ \E to \in Reported :
        /\ \/ poProvider[r] = "PROCESSING"
           \/ poProvider[r] = "DISPUTED" /\ to # "DISPUTED"
        /\ poProvider' = [poProvider EXCEPT ![r] = to]
        /\ poEvents' = poEvents \cup {<<r, to>>}
    /\ UNCHANGED <<poBooks, poStatus, handlers>>

ValidTransition(from, to) ==
    \/ from = "PROCESSING" /\ to \in Reported
    \/ from = "DISPUTED" /\ to \in {"COMPLETED", "FAILED"}

\* A transfer is known by the reference stored with the provider's first answer.
BeginTransferEvent(p, r, s) ==
    /\ <<r, s>> \in poEvents
    /\ ValidTransition(poStatus[r], s)
    /\ pc[p] = "idle"
    /\ pc' = [pc EXCEPT ![p] = "update"]
    /\ job' = [job EXCEPT ![p] = [op |-> "webhook", of |-> r, saw |-> poStatus[r], got |-> s]]
    /\ UNCHANGED <<faults, poVars>>

\* Whatever the status is by now.
UpdateTransfer(p) ==
    /\ At(p, "webhook", "update")
    /\ Return(p)
    /\ SetPayout(job[p].of, job[p].got)
    /\ UNCHANGED <<poBooks, poExternal>>

PONext ==
    \/ \E p \in Procs :
        \/ \E r \in Remittances : ReadQuote(p, r)
        \/ ClaimQuote(p)
        \/ DebitRemittance(p)
        \/ \E w \in Withdrawals : RequestWithdrawal(p, w)
        \/ SendTransfer(p)
        \/ RecordTransfer(p)
        \/ RecordFails(p)
        \/ FailRejected(p)
        \/ HoldAmbiguous(p)
        \/ OpenException(p)
        \/ \E r \in Remittances, s \in Reported : BeginTransferEvent(p, r, s)
        \/ UpdateTransfer(p)
        \/ Crash(p) /\ UNCHANGED poVars
    \/ \E q \in Quotes : QuoteExpires(q)
    \/ \E r \in Remittances : ProviderMoves(r)

POSpec == POInit /\ HandlersInit /\ [][PONext]_<<poVars, handlers>>

-----------------------------------------------------------------------------
\* A withdrawal as PaidOrder sees it.
WithdrawalPaid(w) ==
    CASE poStatus[w] = "NONE" -> "unpaid"
      [] poStatus[w] = "COMPLETED" -> "served"
      [] poStatus[w] = "FAILED" -> "refunded"
      [] OTHER -> "paid"

\* The FINANCIAL SAFETY comment of requestWithdrawal: as long as a withdrawal may
\* have happened its amount stays held; it is debited only when the provider
\* completed it, and released only when it failed or was rejected.  And
\* consumeRemittanceQuote: of all the remittances that read a quote while it was
\* ACTIVE, one at most is debited at its price.
PayoutsHonest ==
    /\ \A w \in Withdrawals :
        /\ poStatus[w] = "COMPLETED" =>
            poEntries[w] = {"hold", "release", "debit"} /\ poProvider[w] = "COMPLETED"
        /\ poStatus[w] = "FAILED" =>
            poEntries[w] = {"hold", "release"} /\ poProvider[w] \in {"rejected", "FAILED"}
        /\ poStatus[w] \notin {"NONE", "COMPLETED", "FAILED"} => poEntries[w] = {"hold"}
    /\ \A r1, r2 \in Remittances :
        poEntries[r1] # {} /\ poEntries[r2] # {} /\ PoQuote[r1] = PoQuote[r2] => r1 = r2
===============================================================================
