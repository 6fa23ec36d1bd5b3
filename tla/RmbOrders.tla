------------------------------- MODULE RmbOrders -------------------------------
(***************************************************************************)
(* Orders of Chinese currency: debited, submitted to the provider Sogo and *)
(* from then on moved by Sogo's webhooks alone.  The price comes back by   *)
(* one of two REVERSAL entries, "cancel" or "refund", each with a unique   *)
(* key of its own.                                                         *)
(***************************************************************************)
EXTENDS Handlers

CONSTANT RmbOrderIds

VARIABLES
    rmStatus,       \* RmbOrder.status
    rmRefund,       \* which entry RmbOrder.refundLedgerEntryId names
    rmReversals,    \* REVERSAL entries of each order
    rmKnown,        \* orders whose providerReference is stored
    rmSogo,         \* what became of the order at Sogo (external)
    rmEvents        \* events Sogo sends, any number of times (external)

rmVars == <<rmStatus, rmRefund, rmReversals, rmKnown, rmSogo, rmEvents>>

RmbStatus == {"NONE", "PROCESSING", "COMPLETED", "CANCELLED", "REFUNDED"}
RmbEvents == {"completed", "cancelled", "refunded"}
RMSteps == {"submit", "reference", "reject", "read", "write"}
RMJobs == [op : {"create", "cancelled", "refunded"}, of : RmbOrderIds,
           saw : RmbStatus \cup {"none"}, got : {"none", "cancel", "refund"}]

RMTypeOK ==
    /\ rmStatus \in [RmbOrderIds -> RmbStatus]
    /\ rmRefund \in [RmbOrderIds -> {"none", "cancel", "refund"}]
    /\ rmReversals \in [RmbOrderIds -> SUBSET {"cancel", "refund"}]
    /\ rmKnown \subseteq RmbOrderIds
    /\ rmSogo \in [RmbOrderIds -> RmbEvents \cup {"none", "rejected", "accepted"}]
    /\ rmEvents \subseteq RmbOrderIds \X RmbEvents

RMInit ==
    /\ rmStatus = [o \in RmbOrderIds |-> "NONE"]
    /\ rmRefund = [o \in RmbOrderIds |-> "none"]
    /\ rmReversals = [o \in RmbOrderIds |-> {}]
    /\ rmKnown = {}
    /\ rmSogo = [o \in RmbOrderIds |-> "none"]
    /\ rmEvents = {}

rmBooks == <<rmStatus, rmRefund, rmReversals>>

-----------------------------------------------------------------------------

\* One transaction: the DEBIT entry and the order.
CreateRmbOrder(p, o) ==
    /\ rmStatus[o] = "NONE"
    /\ Start(p, "create", o, "none", "submit")
    /\ rmStatus' = [rmStatus EXCEPT ![o] = "PROCESSING"]
    /\ UNCHANGED <<rmRefund, rmReversals, rmKnown, rmSogo, rmEvents>>

\* Mutant: every error is taken for a rejection.
SubmitOrReject(p) ==
    /\ At(p, "create", "submit")
    /\ \E outcome \in {"accepted", "rejected"} :
        /\ rmSogo' = [rmSogo EXCEPT ![job[p].of] = outcome]
        /\ \/ outcome = "accepted" /\ Goto(p, "reference")
           \/ Goto(p, "reject")
    /\ UNCHANGED <<rmBooks, rmKnown, rmEvents>>

\* Sogo takes the order or rejects it; when its answer is lost, or is not a
\* rejection for good, the order stays PROCESSING.
SubmitRmbOrder(p) ==
    /\ At(p, "create", "submit")
    /\ \E outcome \in {"accepted", "rejected"} :
        /\ rmSogo' = [rmSogo EXCEPT ![job[p].of] = outcome]
        /\ \/ Goto(p, IF outcome = "accepted" THEN "reference" ELSE "reject")
           \/ Return(p)
    /\ UNCHANGED <<rmBooks, rmKnown, rmEvents>>

StoreReference(p) ==
    /\ At(p, "create", "reference")
    /\ Return(p)
    /\ rmKnown' = rmKnown \cup {job[p].of}
    /\ UNCHANGED <<rmBooks, rmSogo, rmEvents>>

GiveBack(o, key, status) ==
    /\ rmStatus' = [rmStatus EXCEPT ![o] = status]
    /\ rmRefund' = [rmRefund EXCEPT ![o] = key]
    /\ rmReversals' = [rmReversals EXCEPT ![o] = @ \cup {key}]

CancelRejected(p) ==
    /\ At(p, "create", "reject")
    /\ Return(p)
    /\ GiveBack(job[p].of, "cancel", "CANCELLED")
    /\ UNCHANGED <<rmKnown, rmSogo, rmEvents>>

-----------------------------------------------------------------------------
(* Sogo, and its webhooks.                                                 *)

SogoMoves(o) ==
    /\ \E to \in RmbEvents :
        /\ \/ rmSogo[o] = "accepted" /\ to \in {"completed", "cancelled"}
           \/ rmSogo[o] \in {"completed", "cancelled"} /\ to = "refunded"
        /\ rmSogo' = [rmSogo EXCEPT ![o] = to]
        /\ rmEvents' = rmEvents \cup {<<o, to>>}
    /\ UNCHANGED <<rmBooks, rmKnown, handlers>>

\* updateMany, whatever the status is.
RmbCompleted(o) ==
    /\ <<o, "completed">> \in rmEvents
    /\ o \in rmKnown
    /\ rmStatus' = [rmStatus EXCEPT ![o] = "COMPLETED"]
    /\ UNCHANGED <<rmRefund, rmReversals, rmKnown, rmSogo, rmEvents, handlers>>

BeginRmbRefund(p, o, event) ==
    /\ <<o, event>> \in rmEvents
    /\ o \in rmKnown
    /\ event = "refunded" => rmStatus[o] # "REFUNDED"
    /\ Start(p, event, o, "none", "read")
    /\ UNCHANGED rmVars

\* In a READ COMMITTED transaction, which sees what others commit and locks no row.
ReadRmbOrder(p) ==
    LET o == job[p].of IN
    /\ pc[p] = "read"
    /\ IF job[p].op = "refunded" /\ rmStatus[o] = "REFUNDED"
       THEN Return(p)
       ELSE /\ pc' = [pc EXCEPT ![p] = "write"]
            /\ job' = [job EXCEPT ![p].saw = rmStatus[o], ![p].got = rmRefund[o]]
            /\ UNCHANGED faults
    /\ UNCHANGED rmVars

\* A REVERSAL entry is posted if none was seen.  Of two transactions that post
\* the same entry the second is rolled back, unless it finds the first one's.
WriteRmbRefund(p) ==
    LET o == job[p].of
        key == IF job[p].op = "cancelled" THEN "cancel" ELSE "refund"
        status == IF job[p].op = "cancelled" THEN "CANCELLED" ELSE "REFUNDED"
    IN
    /\ pc[p] = "write"
    /\ Return(p)
    /\ \/ job[p].got = "none" /\ GiveBack(o, key, status)
       \/ job[p].got = "none" /\ key \in rmReversals[o] /\ UNCHANGED rmBooks
       \/ /\ job[p].got # "none"
          /\ rmStatus' = [rmStatus EXCEPT ![o] =
                IF job[p].op = "cancelled" /\ job[p].saw = "REFUNDED" THEN @ ELSE status]
          /\ UNCHANGED <<rmRefund, rmReversals>>
    /\ UNCHANGED <<rmKnown, rmSogo, rmEvents>>

RMNext ==
    \/ \E p \in Procs :
        \/ \E o \in RmbOrderIds :
            \/ CreateRmbOrder(p, o)
            \/ \E event \in {"cancelled", "refunded"} : BeginRmbRefund(p, o, event)
        \/ SubmitRmbOrder(p)
        \/ StoreReference(p)
        \/ CancelRejected(p)
        \/ ReadRmbOrder(p)
        \/ WriteRmbRefund(p)
        \/ Crash(p) /\ UNCHANGED rmVars
    \/ \E o \in RmbOrderIds : SogoMoves(o) \/ RmbCompleted(o)

RMSpec == RMInit /\ HandlersInit /\ [][RMNext]_<<rmVars, handlers>>

-----------------------------------------------------------------------------
\* An order is shown as cancelled or refunded only if its price was given back,
\* and it is given back only if Sogo rejected, cancelled or refunded it, in
\* whatever order the webhooks come.
RmbRefundJustified ==
    \A o \in RmbOrderIds :
        /\ rmStatus[o] \in {"CANCELLED", "REFUNDED"} => rmReversals[o] # {}
        /\ rmReversals[o] # {} => rmSogo[o] \in {"rejected", "cancelled", "refunded"}
        /\ rmRefund[o] # "none" => rmRefund[o] \in rmReversals[o]
===============================================================================
