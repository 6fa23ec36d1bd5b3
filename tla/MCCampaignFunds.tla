---------------------------- MODULE MCCampaignFunds ----------------------------
(* Small instances of CampaignFunds for TLC. *)
EXTENDS CampaignFunds, TLC

CONSTANTS h1, i1

\* Two holds of different amounts: h1 can be captured in part.
MCHoldAmount == [h \in Holds |-> IF h = h1 THEN 2 ELSE 1]

MCInvoiceTotal == [v \in Invoices |-> 2]

\* i1 pays part of the invoice, any other intent the whole of it.
MCIntentAmount == [i \in Intents |-> IF i = i1 THEN 1 ELSE 2]

MCIntentInvoice ==
    [i \in Intents |-> IF Invoices = {} THEN None ELSE CHOOSE v \in Invoices : TRUE]

Symmetry == Permutations(Procs)
================================================================================
