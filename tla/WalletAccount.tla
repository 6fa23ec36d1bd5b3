------------------------------ MODULE WalletAccount ------------------------------
(***************************************************************************)
(* What a workspace is promised of its wallet, with no requests, locks or  *)
(* ledger in sight: money put in can be taken out once, a reservation is   *)
(* given back or spent once and never for more than was reserved, and a    *)
(* payment is banked once.                                                 *)
(***************************************************************************)
EXTENDS Integers

CONSTANTS Holds, HoldAmount, Intents, IntentAmount

VARIABLES
    balance,    \* what the workspace can spend
    reserved,   \* state of each reservation
    banked      \* payments that have reached the account

account == <<balance, reserved, banked>>

Init ==
    /\ balance = 0
    /\ reserved = [h \in Holds |-> "NONE"]
    /\ banked = {}

Deposit ==
    /\ balance' \in Nat
    /\ balance' > balance
    /\ UNCHANGED <<reserved, banked>>

Withdraw ==
    /\ balance' \in Nat
    /\ balance' < balance
    /\ UNCHANGED <<reserved, banked>>

Reserve(h) ==
    /\ reserved[h] = "NONE"
    /\ HoldAmount[h] <= balance
    /\ balance' = balance - HoldAmount[h]
    /\ reserved' = [reserved EXCEPT ![h] = "ACTIVE"]
    /\ UNCHANGED banked

GiveBack(h) ==
    /\ reserved[h] = "ACTIVE"
    /\ balance' = balance + HoldAmount[h]
    /\ reserved' = [reserved EXCEPT ![h] = "RELEASED"]
    /\ UNCHANGED banked

Spend(h) ==
    /\ reserved[h] = "ACTIVE"
    /\ \E spent \in 1..HoldAmount[h] : balance' = balance + HoldAmount[h] - spent
    /\ reserved' = [reserved EXCEPT ![h] = "CAPTURED"]
    /\ UNCHANGED banked

\* A payment may settle a bill on its way in, and never costs the account money.
Bank(i) ==
    /\ i \notin banked
    /\ \E billed \in 0..IntentAmount[i] : balance' = balance + IntentAmount[i] - billed
    /\ banked' = banked \cup {i}
    /\ UNCHANGED reserved

Next ==
    \/ Deposit \/ Withdraw
    \/ \E h \in Holds : Reserve(h) \/ GiveBack(h) \/ Spend(h)
    \/ \E i \in Intents : Bank(i)

Spec == Init /\ [][Next]_account
=============================================================================
