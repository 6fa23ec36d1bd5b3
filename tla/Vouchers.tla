-------------------------------- MODULE Vouchers --------------------------------
(***************************************************************************)
(* Vouchers: sealed, shared by a claim link, revealed, and redeemed for a  *)
(* credit of the wallet, or for the PIN that was bought when they were     *)
(* made.  Only redemption looks at the status.                             *)
(***************************************************************************)
EXTENDS Handlers

CONSTANT VoucherIds

ASSUME VouchersAssumption == None \notin VoucherIds

VARIABLES
    vcStatus,       \* Voucher.status
    vcKind,         \* VoucherProduct.handler
    vcToken,        \* the claim link
    vcCredits,      \* CREDIT entries of each voucher
    vcPins          \* PINs bought for each voucher (external: an order of the VTU module)

vcVars == <<vcStatus, vcKind, vcToken, vcCredits, vcPins>>

VoucherStatus == {"SEALED", "CLAIMED", "REVEALED", "REDEEMED"}
VoucherKind == {"WALLET_CREDIT", "PROVIDER_EPIN"}

VCSteps == {"seal", "reveal", "redeem"}
VCJobs == [op : VoucherKind \cup {"owner"}, of : VoucherIds, saw : VoucherStatus \cup {"none"}, got : {"none"}]

VCTypeOK ==
    /\ vcStatus \in [VoucherIds -> VoucherStatus \cup {"NONE"}]
    /\ vcKind \in [VoucherIds -> VoucherKind \cup {"none"}]
    /\ vcToken \in [VoucherIds -> {"none", "open", "claimed"}]
    /\ vcCredits \in [VoucherIds -> Nat]
    /\ vcPins \in [VoucherIds -> Nat]

VCInit ==
    /\ vcStatus = [v \in VoucherIds |-> "NONE"]
    /\ vcKind = [v \in VoucherIds |-> "none"]
    /\ vcToken = [v \in VoucherIds |-> "none"]
    /\ vcCredits = [v \in VoucherIds |-> 0]
    /\ vcPins = [v \in VoucherIds |-> 0]

SetVoucher(v, s) == vcStatus' = [vcStatus EXCEPT ![v] = s]

-----------------------------------------------------------------------------

\* createVoucher: a PIN is bought first, or the request fails with its order.
BeginVoucher(p, v, kind) ==
    /\ vcStatus[v] = "NONE" /\ vcPins[v] = 0
    /\ \A q \in Procs : job[q].of # v
    /\ Start(p, kind, v, "none", "seal")
    /\ vcPins' = [vcPins EXCEPT ![v] = IF kind = "PROVIDER_EPIN" THEN 1 ELSE 0]
    /\ UNCHANGED <<vcStatus, vcKind, vcToken, vcCredits>>

SealVoucher(p) ==
    LET v == job[p].of IN
    /\ pc[p] = "seal"
    /\ Return(p)
    /\ SetVoucher(v, "SEALED")
    /\ vcKind' = [vcKind EXCEPT ![v] = job[p].op]
    /\ UNCHANGED <<vcToken, vcCredits, vcPins>>

\* An open link is found again; a new one follows a claimed one.
ShareVoucher(v) ==
    /\ vcStatus[v] # "NONE"
    /\ vcToken[v] # "open"
    /\ vcToken' = [vcToken EXCEPT ![v] = "open"]
    /\ UNCHANGED <<vcStatus, vcKind, vcCredits, vcPins, handlers>>

\* One transaction, whatever the voucher's status.
ClaimVoucher(v) ==
    /\ vcToken[v] = "open"
    /\ vcToken' = [vcToken EXCEPT ![v] = "claimed"]
    /\ SetVoucher(v, "CLAIMED")
    /\ UNCHANGED <<vcKind, vcCredits, vcPins, handlers>>

\* revealVoucher demands no status, redeemVoucher one of these two.
BeginReveal(p, v) ==
    /\ vcStatus[v] # "NONE"
    /\ Start(p, "owner", v, vcStatus[v], "reveal")
    /\ UNCHANGED vcVars

BeginRedeem(p, v) ==
    /\ vcStatus[v] \in {"REVEALED", "CLAIMED"}
    /\ Start(p, "owner", v, vcStatus[v], "redeem")
    /\ UNCHANGED vcVars

RevealVoucher(p) ==
    /\ At(p, "owner", "reveal")
    /\ Return(p)
    /\ SetVoucher(job[p].of, "REVEALED")
    /\ UNCHANGED <<vcKind, vcToken, vcCredits, vcPins>>

\* Mutant: the credit has no key.
RedeemUnkeyed(p) ==
    LET v == job[p].of IN
    /\ At(p, "owner", "redeem")
    /\ Return(p)
    /\ SetVoucher(v, "REDEEMED")
    /\ vcCredits' = [vcCredits EXCEPT ![v] = @ + IF vcKind[v] = "WALLET_CREDIT" THEN 1 ELSE 0]
    /\ UNCHANGED <<vcKind, vcToken, vcPins>>

\* One transaction, which the key of the CREDIT entry makes fail the second time.
RedeemVoucher(p) ==
    LET v == job[p].of IN
    /\ At(p, "owner", "redeem")
    /\ Return(p)
    /\ \/ /\ vcKind[v] = "WALLET_CREDIT" /\ vcCredits[v] = 0
          /\ vcCredits' = [vcCredits EXCEPT ![v] = 1]
          /\ SetVoucher(v, "REDEEMED")
       \/ vcKind[v] = "PROVIDER_EPIN" /\ SetVoucher(v, "REDEEMED") /\ UNCHANGED vcCredits
       \/ vcKind[v] = "WALLET_CREDIT" /\ vcCredits[v] > 0 /\ UNCHANGED <<vcStatus, vcCredits>>
    /\ UNCHANGED <<vcKind, vcToken, vcPins>>

VCNext ==
    \/ \E p \in Procs :
        \/ \E v \in VoucherIds :
            \/ \E kind \in VoucherKind : BeginVoucher(p, v, kind)
            \/ BeginReveal(p, v)
            \/ BeginRedeem(p, v)
        \/ SealVoucher(p)
        \/ RevealVoucher(p)
        \/ RedeemVoucher(p)
        \/ Crash(p) /\ UNCHANGED vcVars
    \/ \E v \in VoucherIds : ShareVoucher(v) \/ ClaimVoucher(v)

VCSpec == VCInit /\ HandlersInit /\ [][VCNext]_<<vcVars, handlers>>

-----------------------------------------------------------------------------
\* redeemVoucher reads the status before its transaction, and sharing, claiming and
\* revealing reopen a redeemed voucher: still the wallet is credited at most once,
\* a REDEEMED voucher was credited, or holds a PIN that was bought for it alone.
VoucherHonest ==
    \A v \in VoucherIds :
        /\ vcCredits[v] + vcPins[v] <= 1
        /\ vcStatus[v] = "REDEEMED" => vcCredits[v] + vcPins[v] = 1
===============================================================================
