------------------------- MODULE CampaignLedger_proofs -------------------------
(***************************************************************************)
(* What the ledger of CampaignFunds adds up to, what becomes of a payment  *)
(* once it is credited, and the proof that the requests implement          *)
(* WalletAccount.  MapThenSumSet is a recursive function on the subsets of *)
(* a finite set: what it computes is proved by taking a smallest set for   *)
(* which it would not (Smallest).                                          *)
(***************************************************************************)
EXTENDS CampaignFunds_proofs, FiniteSetTheorems

-----------------------------------------------------------------------------
(* Sums over finite sets, as MapThenSumSet adds them up.                   *)

Pick(s) == CHOOSE x \in s : TRUE

SumFcn(w, A) ==
    CHOOSE g : g = [s \in SUBSET A |-> IF s = {} THEN 0 ELSE w[Pick(s)] + g[s \ {Pick(s)}]]

SumOf(w, A) == SumFcn(w, A)[A]

Adds(g, w, A) == g = [s \in SUBSET A |-> IF s = {} THEN 0 ELSE w[Pick(s)] + g[s \ {Pick(s)}]]

\* A nonempty set of finite sets has one that contains no other of them.
LEMMA Smallest ==
    ASSUME NEW A, IsFiniteSet(A), NEW T, T \subseteq SUBSET A, T # {}
    PROVE  \E B \in T : \A C \in T : C \subseteq B => C = B
<1>1. IsWellFoundedOn(StrictSubsetOrdering(A), SUBSET A)
  BY FS_StrictSubsetOrderingWellFounded, FS_FiniteSubsetsOfFinite
<1>2. PICK B \in T : \A C \in T : ~(<<C, B>> \in StrictSubsetOrdering(A))
  <2> DEFINE R == StrictSubsetOrdering(A)
             S == SUBSET A
  <2> HIDE DEF R, S
  <2>1. IsWellFoundedOn(R, S) /\ T \subseteq S
    BY <1>1 DEF R, S
  <2>2. \E B \in T : \A C \in T : ~(<<C, B>> \in R)
    BY <2>1, WFMin
  <2> QED BY <2>2 DEF R
<1> QED BY <1>2 DEF StrictSubsetOrdering

\* Two ways to add up the same weights agree where both are defined.
LEMMA SumUnique ==
    ASSUME NEW w, NEW A, NEW B, NEW g, NEW h, IsFiniteSet(B), B \subseteq A,
           Adds(g, w, A), Adds(h, w, B)
    PROVE  \A s \in SUBSET B : g[s] = h[s]
<1> DEFINE Bad == {s \in SUBSET B : g[s] # h[s]}
<1>1. SUFFICES ASSUME Bad # {} PROVE FALSE
  OBVIOUS
<1>2. PICK s \in Bad : \A t \in Bad : t \subseteq s => t = s
  <2> HIDE DEF Bad
  <2>1. Bad \subseteq SUBSET B
    BY DEF Bad
  <2> QED BY <1>1, <2>1, Smallest
<1>3. /\ g[s] = IF s = {} THEN 0 ELSE w[Pick(s)] + g[s \ {Pick(s)}]
      /\ h[s] = IF s = {} THEN 0 ELSE w[Pick(s)] + h[s \ {Pick(s)}]
  BY <1>2 DEF Adds
<1>4. s # {}
  BY <1>2, <1>3
<1>5. Pick(s) \in s
  BY <1>4 DEF Pick
<1>6. g[s \ {Pick(s)}] = h[s \ {Pick(s)}]
  BY <1>2, <1>5
<1> QED BY <1>2, <1>3, <1>6

\* Every finite set has its sums.
LEMMA SumExists ==
    ASSUME NEW w, NEW A, IsFiniteSet(A)
    PROVE  Adds(SumFcn(w, A), w, A)
<1> DEFINE Good(B) == \E g : Adds(g, w, B)
           Bad == {B \in SUBSET A : ~Good(B)}
<1>1. ASSUME NEW B, Good(B) PROVE Adds(SumFcn(w, B), w, B)
  BY <1>1 DEF SumFcn, Adds
<1>2. SUFFICES ASSUME Bad # {} PROVE FALSE
  BY <1>1
<1>3. PICK B \in Bad : \A C \in Bad : C \subseteq B => C = B
  <2> HIDE DEF Bad
  <2>1. Bad \subseteq SUBSET A
    BY DEF Bad
  <2> QED BY <1>2, <2>1, Smallest
<1>4. ASSUME NEW C \in SUBSET B, C # B PROVE Adds(SumFcn(w, C), w, C)
  BY <1>1, <1>3, <1>4
<1> DEFINE Rest(s) == s \ {Pick(s)}
           h == [s \in SUBSET B |-> IF s = {} THEN 0 ELSE w[Pick(s)] + SumOf(w, Rest(s))]
<1>5. ASSUME NEW s \in SUBSET B, s # {}
      PROVE  Rest(s) \in SUBSET B /\ Rest(s) # B /\ Rest(s) # s /\ Pick(s) \in s
  BY <1>5 DEF Pick
<1>6. ASSUME NEW C \in SUBSET B, C # B PROVE h[C] = SumOf(w, C)
  <2>1. SumOf(w, C) = IF C = {} THEN 0 ELSE w[Pick(C)] + SumFcn(w, C)[Rest(C)]
    BY <1>4, <1>6 DEF SumOf, Adds
  <2>2. CASE C = {}
    BY <2>1, <2>2
  <2>3. CASE C # {}
    <3>1. Rest(C) \in SUBSET C /\ Rest(C) \in SUBSET B /\ Rest(C) # B
      BY <1>5, <2>3
    <3>2. IsFiniteSet(Rest(C))
      <4>1. Rest(C) \in SUBSET A
        BY <1>3, <3>1
      <4> HIDE DEF Rest
      <4> QED BY <4>1, FS_Subset
    <3>3. SumFcn(w, C)[Rest(C)] = SumFcn(w, Rest(C))[Rest(C)]
      <4> DEFINE D == Rest(C)
      <4>1. Adds(SumFcn(w, C), w, C) /\ Adds(SumFcn(w, D), w, D) /\ D \in SUBSET C /\ IsFiniteSet(D)
        BY <1>4, <1>6, <3>1, <3>2
      <4> HIDE DEF D
      <4>2. SumFcn(w, C)[D] = SumFcn(w, D)[D]
        BY <4>1, SumUnique
      <4> QED BY <4>2 DEF D
    <3> QED BY <2>1, <2>3, <3>3 DEF SumOf
  <2> QED BY <2>2, <2>3
<1>7. Adds(h, w, B)
  <2>1. \A s \in SUBSET B : s # {} => h[Rest(s)] = SumOf(w, Rest(s))
    BY <1>5, <1>6
  <2>2. h = [s \in SUBSET B |-> IF s = {} THEN 0 ELSE w[Pick(s)] + h[s \ {Pick(s)}]]
    <3>1. \A s \in SUBSET B : h[s] = IF s = {} THEN 0 ELSE w[Pick(s)] + h[Rest(s)]
      BY <2>1
    <3> HIDE DEF h
    <3>2. h = [s \in SUBSET B |-> h[s]]
      BY DEF h
    <3> QED BY <3>1, <3>2
  <2> QED BY <2>2 DEF Adds
<1> QED BY <1>3, <1>7

\* A sum is one weight and the sum of the rest.
LEMMA SumStep ==
    ASSUME NEW w, NEW A, IsFiniteSet(A)
    PROVE  SumOf(w, A) = IF A = {} THEN 0 ELSE w[Pick(A)] + SumOf(w, A \ {Pick(A)})
<1>1. Adds(SumFcn(w, A), w, A)
  BY SumExists
<1>2. SumOf(w, A) = IF A = {} THEN 0 ELSE w[Pick(A)] + SumFcn(w, A)[A \ {Pick(A)}]
  BY <1>1 DEF SumOf, Adds
<1> DEFINE B == A \ {Pick(A)}
<1>3. IsFiniteSet(B) /\ B \in SUBSET A
  BY FS_RemoveElement
<1>4. Adds(SumFcn(w, B), w, B)
  <2> HIDE DEF B
  <2> QED BY <1>3, SumExists
<1>5. SumFcn(w, A)[B] = SumFcn(w, B)[B]
  <2> HIDE DEF B
  <2> QED BY <1>1, <1>3, <1>4, SumUnique
<1> QED BY <1>2, <1>5 DEF SumOf

\* A sum of natural weights is natural.
LEMMA SumType ==
    ASSUME NEW D, NEW w \in [D -> Nat], NEW A \in SUBSET D, IsFiniteSet(A)
    PROVE  SumOf(w, A) \in Nat
<1> DEFINE Bad == {B \in SUBSET A : SumOf(w, B) \notin Nat}
<1>1. SUFFICES ASSUME Bad # {} PROVE FALSE
  OBVIOUS
<1>2. PICK B \in Bad : \A C \in Bad : C \subseteq B => C = B
  <2> HIDE DEF Bad
  <2>1. Bad \subseteq SUBSET A
    BY DEF Bad
  <2> QED BY <1>1, <2>1, Smallest
<1>3. IsFiniteSet(B)
  BY <1>2, FS_Subset
<1>4. SumOf(w, B) = IF B = {} THEN 0 ELSE w[Pick(B)] + SumOf(w, B \ {Pick(B)})
  BY <1>3, SumStep
<1>5. B # {} => Pick(B) \in B
  BY DEF Pick
<1>6. B # {} => SumOf(w, B \ {Pick(B)}) \in Nat
  BY <1>2, <1>5
<1> QED BY <1>2, <1>4, <1>5, <1>6

\* Adding an element adds its weight, whichever element the sum picks first.
LEMMA SumAdd ==
    ASSUME NEW D, NEW w \in [D -> Nat], NEW A \in SUBSET D, IsFiniteSet(A), NEW x \in D \ A
    PROVE  SumOf(w, A \cup {x}) = SumOf(w, A) + w[x]
<1> DEFINE Good(B, y) == SumOf(w, B \cup {y}) = SumOf(w, B) + w[y]
           Bad == {B \in SUBSET A : \E y \in D \ B : ~Good(B, y)}
<1>1. SUFFICES ASSUME Bad # {} PROVE FALSE
  OBVIOUS
<1>2. PICK B \in Bad : \A C \in Bad : C \subseteq B => C = B
  <2> HIDE DEF Bad
  <2>1. Bad \subseteq SUBSET A
    BY DEF Bad
  <2> QED BY <1>1, <2>1, Smallest
<1>3. PICK y \in D \ B : ~Good(B, y)
  BY <1>2
<1> DEFINE E == B \cup {y}
           c == Pick(E)
           C == B \ {c}
<1>4. /\ B \in SUBSET A /\ IsFiniteSet(B) /\ IsFiniteSet(E) /\ IsFiniteSet(C)
      /\ c \in E
  BY <1>2, FS_Subset, FS_AddElement, FS_RemoveElement DEF Pick
<1>5. SumOf(w, E) = w[c] + SumOf(w, E \ {c})
  <2>1. E # {}
    OBVIOUS
  <2> HIDE DEF E
  <2> QED BY <1>4, <2>1, SumStep
<1>6. SumOf(w, B) \in Nat /\ SumOf(w, C) \in Nat /\ w[c] \in Nat /\ w[y] \in Nat
  <2>1. B \in SUBSET D /\ C \in SUBSET D /\ c \in D
    BY <1>4
  <2> HIDE DEF C, c
  <2> QED BY <1>4, <2>1, SumType
<1>7. CASE c = y
  <2>1. E \ {c} = B
    BY <1>7
  <2>2. SumOf(w, E) = w[y] + SumOf(w, B)
    BY <1>5, <1>7, <2>1
  <2> HIDE DEF E, c, C
  <2>3. SumOf(w, E) = SumOf(w, B) + w[y]
    BY <1>6, <2>2
  <2> QED BY <1>3, <2>3 DEF E
<1>8. CASE c # y
  <2>1. c \in D \ C /\ y \in D \ C /\ C \in SUBSET A /\ C \subseteq B /\ C # B
    BY <1>4, <1>8
  <2>2. Good(C, c) /\ Good(C, y)
    BY <1>2, <2>1
  <2>3. C \cup {c} = B /\ C \cup {y} = E \ {c}
    BY <1>4, <1>8
  <2>4. SumOf(w, B) = SumOf(w, C) + w[c] /\ SumOf(w, E \ {c}) = SumOf(w, C) + w[y]
    BY <2>2, <2>3
  <2> HIDE DEF E, c, C
  <2>5. SumOf(w, E) = SumOf(w, B) + w[y]
    BY <1>5, <1>6, <2>4
  <2> QED BY <1>3, <2>5 DEF E
<1> QED BY <1>7, <1>8

\* Removing an element takes its weight away.
LEMMA SumRemove ==
    ASSUME NEW D, NEW w \in [D -> Nat], NEW A \in SUBSET D, IsFiniteSet(A), NEW x \in A
    PROVE  SumOf(w, A) = SumOf(w, A \ {x}) + w[x]
<1> DEFINE B == A \ {x}
<1>1. B \in SUBSET D /\ IsFiniteSet(B) /\ x \in D \ B /\ B \cup {x} = A
  BY FS_RemoveElement
<1> HIDE DEF B
<1>2. SumOf(w, B \cup {x}) = SumOf(w, B) + w[x]
  BY <1>1, SumAdd
<1> QED BY <1>1, <1>2 DEF B

\* Equal weights add up to equal sums.
LEMMA SumSame ==
    ASSUME NEW w, NEW v, NEW A, IsFiniteSet(A), \A x \in A : w[x] = v[x]
    PROVE  SumOf(w, A) = SumOf(v, A)
<1> DEFINE Bad == {B \in SUBSET A : SumOf(w, B) # SumOf(v, B)}
<1>1. SUFFICES ASSUME Bad # {} PROVE FALSE
  OBVIOUS
<1>2. PICK B \in Bad : \A C \in Bad : C \subseteq B => C = B
  <2> HIDE DEF Bad
  <2>1. Bad \subseteq SUBSET A
    BY DEF Bad
  <2> QED BY <1>1, <2>1, Smallest
<1>3. IsFiniteSet(B)
  BY <1>2, FS_Subset
<1>4. /\ SumOf(w, B) = IF B = {} THEN 0 ELSE w[Pick(B)] + SumOf(w, B \ {Pick(B)})
      /\ SumOf(v, B) = IF B = {} THEN 0 ELSE v[Pick(B)] + SumOf(v, B \ {Pick(B)})
  BY <1>3, SumStep
<1>5. B # {} => Pick(B) \in B
  BY DEF Pick
<1>6. B # {} => SumOf(w, B \ {Pick(B)}) = SumOf(v, B \ {Pick(B)})
  BY <1>2, <1>5
<1> QED BY <1>2, <1>4, <1>5, <1>6

\* No weight, no sum.
LEMMA SumZero ==
    ASSUME NEW w, NEW A, IsFiniteSet(A), \A x \in A : w[x] = 0
    PROVE  SumOf(w, A) = 0
<1> DEFINE Bad == {B \in SUBSET A : SumOf(w, B) # 0}
<1>1. SUFFICES ASSUME Bad # {} PROVE FALSE
  OBVIOUS
<1>2. PICK B \in Bad : \A C \in Bad : C \subseteq B => C = B
  <2> HIDE DEF Bad
  <2>1. Bad \subseteq SUBSET A
    BY DEF Bad
  <2> QED BY <1>1, <2>1, Smallest
<1>3. SumOf(w, B) = IF B = {} THEN 0 ELSE w[Pick(B)] + SumOf(w, B \ {Pick(B)})
  BY <1>2, FS_Subset, SumStep
<1>4. B # {} => Pick(B) \in B
  BY DEF Pick
<1>5. B # {} => SumOf(w, B \ {Pick(B)}) = 0
  BY <1>2, <1>4
<1> QED BY <1>2, <1>3, <1>4, <1>5

-----------------------------------------------------------------------------
(* The held balance.                                                       *)

Withheld(l) == l.total["HOLD"] - l.total["RELEASE"]

ActiveHolds == {h \in Holds : hold[h] = "ACTIVE"}

HeldMatches ==
    /\ IsFiniteSet(ActiveHolds)
    /\ Withheld(ledger) = SumOf(HoldAmount, ActiveHolds)

\* A request for a hold asks for the amount of the hold.
HoldsAsAsked ==
    \A p \in Procs : job[p].op = "hold" => job[p].amount = HoldAmount[job[p].of]

\* The sum of the property is the sum the lemmas are about.
LEMMA HeldBalanceIsSum ==
    HeldBalanceMatchesLedger <=> Withheld(ledger) = SumOf(HoldAmount, ActiveHolds)
  BY Zenon DEF HeldBalanceMatchesLedger, Withheld, ActiveHolds, SumOf, SumFcn, Pick,
     MapThenSumSet, MapThenFoldSet

\* Only holds and releases change what is withheld.
LEMMA WithheldEffect ==
    ASSUME NEW l \in Ledgers, NEW key, NEW kind \in Kinds, NEW amount \in Nat
    PROVE  /\ Withheld(l) \in Int
           /\ kind \notin {"HOLD", "RELEASE"} =>
                /\ Withheld(Post(l, key, kind, amount)) = Withheld(l)
                /\ Withheld(PostUnkeyed(l, kind, amount)) = Withheld(l)
           /\ ~Posted(l, key) =>
                /\ kind = "HOLD" => Withheld(Post(l, key, kind, amount)) = Withheld(l) + amount
                /\ kind = "RELEASE" => Withheld(Post(l, key, kind, amount)) = Withheld(l) - amount
<1> DEFINE total == [l.total EXCEPT ![kind] = @ + amount]
<1>1. l.total \in [Kinds -> Nat] /\ "HOLD" \in Kinds /\ "RELEASE" \in Kinds
  BY DEF Ledgers, Kinds, SecuredKinds
<1>2. /\ Post(l, key, kind, amount).total \in {l.total, total}
      /\ ~Posted(l, key) => Post(l, key, kind, amount).total = total
      /\ PostUnkeyed(l, kind, amount).total = total
  BY DEF Post, PostUnkeyed, Ledgers
<1>3. \A k \in Kinds : total[k] = IF k = kind THEN l.total[k] + amount ELSE l.total[k]
  BY <1>1
<1>4. /\ total["HOLD"] = IF kind = "HOLD" THEN l.total["HOLD"] + amount ELSE l.total["HOLD"]
      /\ total["RELEASE"] = IF kind = "RELEASE" THEN l.total["RELEASE"] + amount ELSE l.total["RELEASE"]
      /\ l.total["HOLD"] \in Nat /\ l.total["RELEASE"] \in Nat
  BY <1>1, <1>3
<1> HIDE DEF total
<1> QED BY <1>2, <1>4 DEF Withheld

\* The initial state.
LEMMA HeldInit == Init => HeldMatches /\ HoldsAsAsked
<1> SUFFICES ASSUME Init PROVE HeldMatches /\ HoldsAsAsked
  OBVIOUS
<1>1. ActiveHolds = {}
  BY DEF Init, ActiveHolds
<1>2. Withheld(ledger) = 0
  BY DEF Init, Withheld, Kinds, SecuredKinds
<1>3. SumOf(HoldAmount, {}) = 0
  BY FS_EmptySet, SumStep
<1>4. HoldsAsAsked
  BY DEF Init, HoldsAsAsked, Idle
<1> QED BY <1>1, <1>2, <1>3, <1>4, FS_EmptySet DEF HeldMatches

\* A request keeps what it was asked for.
LEMMA AskedStep == TypeOK /\ HoldsAsAsked /\ [Next]_vars => HoldsAsAsked'
<1> SUFFICES ASSUME TypeOK, HoldsAsAsked, [Next]_vars, NEW q \in Procs, job'[q].op = "hold"
             PROVE  job'[q].amount = HoldAmount[job'[q].of]
  BY DEF HoldsAsAsked
<1>1. CASE job'[q] = job[q]
  BY <1>1 DEF HoldsAsAsked
<1>2. ASSUME NEW p \in Procs, BeginRequest(p) PROVE job'[q].amount = HoldAmount[job'[q].of]
  <2>1. CASE q # p
    BY <1>1, <1>2, <2>1, Opened
  <2>2. CASE q = p
    <3>1. CASE BeginHold(p)
      BY <2>2, <3>1 DEF BeginHold, Begin, BeginAt, TypeOK
    <3>2. CASE ~BeginHold(p)
      <4>1. job'[p].op # "hold"
        BY <1>2, <3>2 DEF BeginRequest, BeginAdjust, BeginRelease, BeginCapture, BeginPayInvoice, BeginIntent,
           BeginVerify, BeginPurchase, BeginWebhook, Begin, BeginAt, TypeOK
      <4> QED BY <2>2, <4>1
    <3> QED BY <3>1, <3>2
  <2> QED BY <2>1, <2>2
<1>3. ASSUME NEW p \in Procs, Return(p) \/ ReturnPayment(p) PROVE job'[q] = job[q] \/ job'[q] = Idle
  BY <1>3 DEF Return, ReturnPayment, TypeOK
<1>4. Idle.op # "hold"
  BY DEF Idle
<1>5. ASSUME NEW p \in Procs, Admit(p) PROVE job'[q].amount = HoldAmount[job'[q].of]
  <2>1. job' = [job EXCEPT ![p] = [@ EXCEPT !.amount = Wanted(p)]]
    BY <1>5 DEF Admit
  <2>2. CASE q = p
    <3>1. job'[p].op = job[p].op /\ job'[p].of = job[p].of /\ job'[p].amount = Wanted(p)
      BY <2>1 DEF TypeOK, Jobs, Request, Idle
    <3> QED BY <2>2, <3>1 DEF Wanted, HoldsAsAsked
  <2>3. CASE q # p
    BY <1>1, <2>1, <2>3 DEF TypeOK
  <2> QED BY <2>2, <2>3
<1>6. CASE \E p \in Procs : BeginRequest(p) \/ Progress(p) \/ Crash(p)
  <2>1. PICK p \in Procs : BeginRequest(p) \/ Progress(p) \/ Crash(p)
    BY <1>6
  <2>2. CASE LockIntent(p) \/ LockWallet(p)
    BY <1>1, <2>2 DEF LockIntent, LockWallet
  <2> QED BY <1>1, <1>2, <1>3, <1>4, <1>5, <2>1, <2>2, Endings DEF Progress, Commit
<1>7. CASE UNCHANGED job
  BY <1>1, <1>7
<1> QED BY <1>6, <1>7 DEF Next, CreateInvoice, GatewaySettles, ReversePurchase, vars

\* What is withheld and what is held change together.
LEMMA HeldStep == FundsInv /\ HoldsAsAsked /\ HeldMatches /\ [Next]_vars => HeldMatches'
<1> SUFFICES ASSUME FundsInv, HoldsAsAsked, HeldMatches, [Next]_vars PROVE HeldMatches'
  OBVIOUS
<1> DEFINE A == ActiveHolds
<1>0. /\ ledger \in Ledgers /\ A \in SUBSET Holds /\ IsFiniteSet(A)
      /\ HoldAmount \in [Holds -> Nat]
      /\ Withheld(ledger) = SumOf(HoldAmount, A)
      /\ SumOf(HoldAmount, A) \in Nat
  <2>1. ledger \in Ledgers /\ A \in SUBSET Holds /\ IsFiniteSet(A) /\ Withheld(ledger) = SumOf(HoldAmount, A)
    BY DEF FundsInv, TypeOK, HeldMatches, ActiveHolds
  <2>2. HoldAmount \in [Holds -> Nat]
    BY FundsAssumption DEF Positive
  <2> QED BY <2>1, <2>2, SumType
<1>1. CASE hold' = hold /\ Withheld(ledger') = Withheld(ledger)
  <2>1. ActiveHolds' = ActiveHolds
    BY <1>1 DEF ActiveHolds
  <2> QED BY <1>1, <2>1 DEF HeldMatches
<1>2. ASSUME NEW p \in Procs, CommitHold(p) PROVE HeldMatches'
  <2>0. PICK h \in Holds : h = job[p].of
    BY <1>2, JobFacts DEF CommitHold, FundsInv
  <2>1. job[p].amount = HoldAmount[h] /\ HoldAmount[h] \in Nat
    BY <1>0, <1>2, <2>0 DEF CommitHold, HoldsAsAsked
  <2>2. CASE hold[h] # "NONE"
    BY <1>1, <1>2, <2>0, <2>2 DEF CommitHold
  <2>3. CASE hold[h] = "NONE"
    <3>1. /\ ledger' = Post(ledger, <<"hold", h>>, "HOLD", HoldAmount[h])
          /\ hold' = [hold EXCEPT ![h] = "ACTIVE"]
      BY <1>2, <2>0, <2>1, <2>3 DEF CommitHold
    <3>2. ~Posted(ledger, <<"hold", h>>)
      BY <2>3 DEF FundsInv, HoldSettledOnce, Settled
    <3>3. Withheld(ledger') = Withheld(ledger) + HoldAmount[h]
      BY <1>0, <2>1, <3>1, <3>2, WithheldEffect DEF Kinds, SecuredKinds
    <3>4. ActiveHolds' = A \cup {h} /\ h \in Holds \ A
      BY <2>3, <3>1 DEF ActiveHolds, FundsInv, TypeOK
    <3> HIDE DEF A
    <3>5. SumOf(HoldAmount, A \cup {h}) = SumOf(HoldAmount, A) + HoldAmount[h] /\ IsFiniteSet(A \cup {h})
      BY <1>0, <3>4, SumAdd, FS_AddElement
    <3> QED BY <1>0, <3>3, <3>4, <3>5 DEF HeldMatches
  <2> QED BY <2>2, <2>3
<1>3. ASSUME NEW h \in Holds, NEW s \in {"RELEASED", "CAPTURED"},
             hold[h] = "ACTIVE", hold' = [hold EXCEPT ![h] = s],
             Withheld(ledger') = Withheld(ledger) - HoldAmount[h]
      PROVE  HeldMatches'
  <2>1. ActiveHolds' = A \ {h} /\ h \in A
    BY <1>3 DEF ActiveHolds, FundsInv, TypeOK
  <2> HIDE DEF A
  <2>2. /\ SumOf(HoldAmount, A) = SumOf(HoldAmount, A \ {h}) + HoldAmount[h]
        /\ IsFiniteSet(A \ {h})
    BY <1>0, <2>1, SumRemove, FS_RemoveElement
  <2>3. SumOf(HoldAmount, A \ {h}) \in Nat /\ HoldAmount[h] \in Nat
    BY <1>0, <2>2, SumType
  <2> QED BY <1>0, <1>3, <2>1, <2>2, <2>3 DEF HeldMatches
<1>4. ASSUME NEW p \in Procs, CommitRelease(p) PROVE HeldMatches'
  <2>0. PICK h \in Holds : h = job[p].of
    BY <1>4, JobFacts DEF CommitRelease, HoldOps, FundsInv
  <2>1. /\ ledger' = Post(ledger, <<"release", h>>, "RELEASE", HoldAmount[h])
        /\ hold' = [hold EXCEPT ![h] = "RELEASED"]
        /\ hold[h] = "ACTIVE"
    BY <1>4, <2>0 DEF CommitRelease, FundsInv, CheckedStillHolds, Checked, Unsettled, HoldOps
  <2>2. ~Posted(ledger, <<"release", h>>)
    BY <2>1 DEF FundsInv, HoldSettledOnce, Settled
  <2>3. Withheld(ledger') = Withheld(ledger) - HoldAmount[h]
    BY <1>0, <2>1, <2>2, WithheldEffect DEF Kinds, SecuredKinds
  <2> QED BY <1>3, <2>1, <2>3
<1>5. ASSUME NEW p \in Procs, CommitCapture(p) PROVE HeldMatches'
  <2>0. PICK h \in Holds : h = job[p].of
    BY <1>5, JobFacts DEF CommitCapture, HoldOps, FundsInv
  <2> DEFINE freed == Post(ledger, <<"capture_release", h>>, "RELEASE", HoldAmount[h])
  <2>1. /\ ledger' = Post(freed, <<"capture_debit", h>>, "DEBIT", job[p].amount)
        /\ hold' = [hold EXCEPT ![h] = "CAPTURED"]
        /\ hold[h] = "ACTIVE"
    BY <1>5, <2>0 DEF CommitCapture, FundsInv, CheckedStillHolds, Checked, Unsettled, HoldOps
  <2>2. ~Posted(ledger, <<"capture_release", h>>)
    BY <2>1 DEF FundsInv, HoldSettledOnce, Settled
  <2>3. Withheld(freed) = Withheld(ledger) - HoldAmount[h] /\ freed \in Ledgers
    BY <1>0, <2>2, WithheldEffect, PostType DEF Kinds, SecuredKinds
  <2>4. job[p].amount \in Nat
    BY JobFacts DEF FundsInv
  <2>5. Withheld(ledger') = Withheld(freed)
    <3> DEFINE amount == job[p].amount
    <3>1. "DEBIT" \in Kinds /\ "DEBIT" \notin {"HOLD", "RELEASE"} /\ freed \in Ledgers /\ amount \in Nat
      BY <2>3, <2>4 DEF Kinds, SecuredKinds
    <3> HIDE DEF freed, amount
    <3>2. Withheld(Post(freed, <<"capture_debit", h>>, "DEBIT", amount)) = Withheld(freed)
      BY <3>1, WithheldEffect
    <3> QED BY <2>1, <3>2 DEF amount
  <2> QED
    <3> HIDE DEF freed
    <3> QED BY <1>3, <2>1, <2>3, <2>5
<1>6. ASSUME NEW p \in Procs, CommitAdjust(p) PROVE HeldMatches'
  <2> DEFINE kind == IF job[p].op = "adjust_credit" THEN "CREDIT" ELSE "DEBIT"
  <2>1. /\ ledger' = IF job[p].of = None THEN PostUnkeyed(ledger, kind, job[p].amount)
                     ELSE Post(ledger, <<"adjustment", job[p].of>>, kind, job[p].amount)
        /\ UNCHANGED hold
    BY <1>6 DEF CommitAdjust
  <2>2. job[p].amount \in Nat /\ kind \in Kinds /\ kind \notin {"HOLD", "RELEASE"}
    BY JobFacts DEF FundsInv, Kinds, SecuredKinds
  <2> HIDE DEF kind
  <2>3. Withheld(ledger') = Withheld(ledger)
    BY <1>0, <2>1, <2>2, WithheldEffect
  <2> QED BY <1>1, <2>1, <2>3
<1>7. ASSUME NEW p \in Procs, CommitInvoice(p) PROVE HeldMatches'
  <2>1. job[p].amount \in Nat
    BY JobFacts DEF FundsInv
  <2> QED BY <1>0, <1>1, <1>7, <2>1, WithheldEffect DEF CommitInvoice, Kinds, SecuredKinds
<1>8. ASSUME NEW p \in Procs, CommitPayment(p) PROVE HeldMatches'
  <2>0. PICK i \in Intents : i = job[p].of
    BY <1>8, JobFacts DEF CommitPayment, FundsInv
  <2> DEFINE credited == Post(ledger, <<"credit", i>>, "CREDIT", IntentAmount[i])
             settled == SettledBy(i)
  <2>1. IntentAmount[i] \in Nat /\ settled \in Nat
    BY FundsAssumption DEF SettledBy, AmountDue, Positive, FundsInv, TypeOK
  <2>2. /\ ledger' = credited \/ ledger' = Post(credited, <<"invoice_debit", i>>, "DEBIT", settled)
        /\ UNCHANGED hold
    BY <1>8, <2>0 DEF CommitPayment
  <2>3. credited \in Ledgers /\ Withheld(credited) = Withheld(ledger)
    BY <1>0, <2>1, WithheldEffect, PostType DEF Kinds, SecuredKinds
  <2>4. Withheld(Post(credited, <<"invoice_debit", i>>, "DEBIT", settled)) = Withheld(credited)
    <3>1. "DEBIT" \in Kinds /\ "DEBIT" \notin {"HOLD", "RELEASE"} /\ credited \in Ledgers /\ settled \in Nat
      BY <2>1, <2>3 DEF Kinds, SecuredKinds
    <3> HIDE DEF credited, settled
    <3> QED BY <3>1, WithheldEffect
  <2> QED BY <1>1, <2>2, <2>3, <2>4
<1>9. ASSUME NEW p \in Procs, CommitPurchase(p) PROVE HeldMatches'
  <2>1. job[p].amount \in Nat
    BY JobFacts DEF FundsInv
  <2> QED BY <1>0, <1>1, <1>9, <2>1, WithheldEffect DEF CommitPurchase, Kinds
<1>10. CASE ReversePurchase
  <2>1. PICK a \in Amounts : ledger' = PostUnkeyed(ledger, "REVERSAL", a) /\ UNCHANGED hold
    BY <1>10 DEF ReversePurchase
  <2>2. a \in Nat
    BY FundsAssumption DEF Positive
  <2> QED BY <1>0, <1>1, <2>1, <2>2, WithheldEffect DEF Kinds
<1>11. CASE UNCHANGED <<ledger, hold>>
  BY <1>1, <1>11
<1> QED BY <1>2, <1>4, <1>5, <1>6, <1>7, <1>8, <1>9, <1>10, <1>11, LedgerSteps DEF Commit

-----------------------------------------------------------------------------
(* Payments once they are credited.                                        *)

\* A request finds a credited payment and leaves it as it is.
LEMMA CreditedStays ==
    ASSUME FundsInv, [Next]_vars, NEW i \in Intents, intent[i].credited
    PROVE  intent'[i] = intent[i]
<1>0. /\ intent \in [Intents -> [status : PaymentStatus \cup {"NONE"}, credited : BOOLEAN]]
      /\ intent[i].status = "COMPLETED"
  BY DEF FundsInv, TypeOK, CreditedOnce
<1>1. ASSUME NEW p \in Procs, CommitPayment(p) PROVE intent'[i] = intent[i]
  <2>1. job[p].of # i
    BY <1>1 DEF CommitPayment, FundsInv, PaymentsUncredited
  <2> QED BY <1>0, <1>1, <2>1 DEF CommitPayment
<1>2. ASSUME NEW p \in Procs, Commit(p), ~CommitPayment(p) PROVE UNCHANGED intent
  BY <1>2 DEF Commit, CommitAdjust, CommitHold, CommitRelease, CommitCapture, CommitInvoice
<1>3. ASSUME NEW p \in Procs, InsertIntent(p) PROVE intent'[i] = intent[i]
  BY <1>0, <1>3 DEF InsertIntent
<1>4. ASSUME NEW p \in Procs, RecordStatus(p) PROVE intent'[i] = intent[i]
  BY <1>0, <1>4 DEF RecordStatus
<1>5. ASSUME NEW p \in Procs, CommitPurchase(p) PROVE UNCHANGED intent
  BY <1>5 DEF CommitPurchase
<1>6. ASSUME NEW v \in Invoices, CreateInvoice(v) PROVE UNCHANGED intent
  BY <1>6 DEF CreateInvoice
<1>7. CASE ReversePurchase \/ Quiet
  BY <1>7 DEF ReversePurchase, Quiet
<1> QED BY <1>1, <1>2, <1>3, <1>4, <1>5, <1>6, <1>7, WalletSteps

\* Past the payment a webhook's request has only its receipt to mark, and if the
\* gateway said success the payment is credited.
DoneIsCredited ==
    \A p \in Procs : pc[p] = "done" =>
        /\ job[p].op \in PaymentOps
        /\ job[p].status = "success" => intent[job[p].of].credited

\* How a request comes to have only its receipt to mark.
LEMMA Finishing ==
    ASSUME TypeOK, [Next]_vars, NEW q \in Procs, pc'[q] = "done"
    PROVE  /\ job'[q] = job[q]
           /\ pc[q] = "done" \/ CommitPayment(q) \/ AlreadyCredited(q) \/ RecordStatus(q)
<1> DEFINE Goal == /\ job'[q] = job[q]
                   /\ pc[q] = "done" \/ CommitPayment(q) \/ AlreadyCredited(q) \/ RecordStatus(q)
<1>1. ASSUME NEW p \in Procs, p # q, BeginRequest(p) \/ Return(p) \/ ReturnPayment(p) PROVE Goal
  BY <1>1, Opened, Returned
<1>2. CASE Return(q)
  BY <1>2 DEF Return, TypeOK
<1>3. CASE CommitPayment(q) \/ AlreadyCredited(q) \/ RecordStatus(q)
  <2>1. ReturnPayment(q)
    BY <1>3 DEF CommitPayment, AlreadyCredited, RecordStatus
  <2>2. UNCHANGED job
    BY <1>2, <2>1 DEF ReturnPayment, Return, TypeOK
  <2> QED BY <1>3, <2>2
<1>4. CASE BeginRequest(q)
  BY <1>4, Opened
<1>5. ASSUME NEW p \in Procs, LockIntent(p) \/ LockWallet(p) PROVE Goal
  BY <1>5 DEF LockIntent, LockWallet, TypeOK
<1>6. ASSUME NEW p \in Procs, Admit(p) PROVE Goal
  BY <1>6 DEF Admit, TypeOK
<1>7. ASSUME NEW p \in Procs, Progress(p) \/ Crash(p), ~LockIntent(p), ~LockWallet(p), ~Admit(p)
      PROVE  Goal
  <2>1. Return(p) \/ ReturnPayment(p)
    BY <1>7, Endings DEF Progress, Commit
  <2>2. CASE p = q
    <3>1. Return(q) \/ CommitPayment(q) \/ AlreadyCredited(q) \/ RecordStatus(q)
      BY <1>7, <2>2 DEF Progress, Crash, Refuse, CommitAdjust, CommitHold, CommitRelease, CommitCapture,
         CommitInvoice, InsertIntent, CommitPurchase, MarkReceipt
    <3> QED BY <1>2, <1>3, <3>1
  <2> QED BY <1>1, <2>1, <2>2
<1>8. CASE UNCHANGED <<pc, job>>
  BY <1>8
<1>9. CASE \E p \in Procs : BeginRequest(p) \/ Progress(p) \/ Crash(p)
  BY <1>1, <1>4, <1>5, <1>6, <1>7, <1>9
<1> QED BY <1>8, <1>9 DEF Next, CreateInvoice, GatewaySettles, ReversePurchase, vars

\* The payment is completed before its receipt is marked.
LEMMA DoneStep == FundsInv /\ DoneIsCredited /\ [Next]_vars => DoneIsCredited'
<1> SUFFICES ASSUME FundsInv, DoneIsCredited, [Next]_vars, NEW q \in Procs, pc'[q] = "done"
             PROVE  /\ job'[q].op \in PaymentOps
                    /\ job'[q].status = "success" => intent'[job'[q].of].credited
  BY DEF DoneIsCredited
<1> DEFINE i == job[q].of
<1>0. TypeOK /\ job'[q] = job[q]
  BY Finishing DEF FundsInv
<1>1. job[q].op \in PaymentOps => i \in Intents
  BY <1>0, JobFacts
<1>2. CASE pc[q] = "done"
  BY <1>0, <1>1, <1>2, CreditedStays DEF DoneIsCredited
<1>3. CASE CommitPayment(q)
  <2>1. job[q].op \in PaymentOps /\ intent' = [intent EXCEPT ![i] = [status |-> "COMPLETED", credited |-> TRUE]]
    BY <1>3 DEF CommitPayment
  <2> QED BY <1>0, <1>1, <2>1 DEF TypeOK
<1>4. CASE AlreadyCredited(q)
  <2>1. pc[q] = "row" /\ intent[i].credited
    BY <1>4 DEF AlreadyCredited
  <2>2. job[q].op \in PaymentOps
    BY <2>1 DEF FundsInv, LocksHeld
  <2> QED BY <1>0, <1>1, <2>1, <2>2, CreditedStays
<1>5. CASE RecordStatus(q)
  <2>1. pc[q] = "row" /\ job[q].status # "success"
    BY <1>5 DEF RecordStatus, MapPaymentStatus
  <2>2. job[q].op \in PaymentOps
    BY <2>1 DEF FundsInv, LocksHeld
  <2> QED BY <1>0, <2>1, <2>2
<1> QED BY <1>0, <1>2, <1>3, <1>4, <1>5, Finishing

\* A receipt is marked only by a request that is past the payment.
LEMMA ReceiptStep == FundsInv /\ DoneIsCredited /\ ReceiptHonoured /\ [Next]_vars => ReceiptHonoured'
<1> SUFFICES ASSUME FundsInv, DoneIsCredited, ReceiptHonoured, [Next]_vars,
                    NEW i \in Intents, receipt'[<<i, "success">>] = "PROCESSED"
             PROVE  intent'[i].credited
  BY DEF ReceiptHonoured
<1> DEFINE e == <<i, "success">>
<1>0. TypeOK /\ e \in Events
  BY DEF FundsInv, Events, GatewayStatus
<1>1. CASE receipt[e] = "PROCESSED"
  BY <1>1, CreditedStays DEF ReceiptHonoured
<1>2. ASSUME NEW p \in Procs, MarkReceipt(p), receipt[e] # "PROCESSED" PROVE intent[i].credited
  <2>1. pc[p] = "done" /\ <<job[p].of, job[p].status>> = e
    BY <1>0, <1>2 DEF MarkReceipt, TypeOK
  <2> QED BY <2>1 DEF DoneIsCredited
<1>3. ASSUME NEW p \in Procs, BeginRequest(p) PROVE receipt[e] = "PROCESSED"
  BY <1>0, <1>3 DEF BeginRequest, BeginAdjust, BeginHold, BeginRelease, BeginCapture, BeginPayInvoice,
     BeginIntent, BeginVerify, BeginPurchase, BeginWebhook, TypeOK
<1>4. CASE ~(\E p \in Procs : MarkReceipt(p) \/ BeginRequest(p))
  <2>1. UNCHANGED receipt
    BY <1>4 DEF Next, Progress, Crash, Refuse, CommitAdjust, CommitHold, CommitRelease, CommitCapture,
       CommitInvoice, InsertIntent, CommitPurchase, CommitPayment, AlreadyCredited, RecordStatus, LockIntent,
       LockWallet, Admit, CreateInvoice, GatewaySettles, ReversePurchase, vars
  <2> QED BY <1>1, <2>1
<1> QED BY <1>1, <1>2, <1>3, <1>4, CreditedStays

-----------------------------------------------------------------------------
(* The invoices.                                                           *)

BillKeys == ({"invoice_debit"} \X Intents) \cup ({"wallet_payment"} \X Invoices)

Billed(v) == {i \in Intents : IntentInvoice[i] = v}

Debits(l) == [i \in Intents |-> l.entry[<<"invoice_debit", i>>]]

InvoicePaid(v) ==
    /\ invoice[v].paid = ledger.entry[<<"wallet_payment", v>>] + SumOf(Debits(ledger), Billed(v))
    /\ invoice[v].paid <= InvoiceTotal[v]
    /\ invoice[v].status = "PAID" <=> invoice[v].paid = InvoiceTotal[v]

\* The debit of an invoice is only posted with the step that records it: from the
\* wallet when it is paid in full, from a payment when that is credited.
BillsRecorded ==
    /\ \A v \in Invoices : Posted(ledger, <<"wallet_payment", v>>) => invoice[v].status = "PAID"
    /\ \A i \in Intents : Posted(ledger, <<"invoice_debit", i>>) => intent[i].credited

\* The sum of the property is the sum the lemmas are about.
LEMMA InvoiceMatchesIsSum == InvoiceMatchesLedger <=> \A v \in Invoices : InvoicePaid(v)
<1>1. ASSUME NEW v
      PROVE  MapThenSumSet(LAMBDA i : ledger.entry[<<"invoice_debit", i>>],
                           {i \in Intents : IntentInvoice[i] = v})
                 = SumOf(Debits(ledger), Billed(v))
  BY DEF MapThenSumSet, MapThenFoldSet, SumOf, SumFcn, Pick, Debits, Billed
<1> QED BY <1>1 DEF InvoiceMatchesLedger, InvoicePaid

\* An invoice no debit is posted for stays as it is.
LEMMA InvoiceKept ==
    ASSUME TypeOK, NEW v \in Invoices, InvoicePaid(v),
           invoice'[v].paid = invoice[v].paid,
           invoice'[v].status = "PAID" <=> invoice[v].status = "PAID",
           ledger'.entry[<<"wallet_payment", v>>] = ledger.entry[<<"wallet_payment", v>>],
           \A i \in Billed(v) : ledger'.entry[<<"invoice_debit", i>>] = ledger.entry[<<"invoice_debit", i>>]
    PROVE  InvoicePaid(v)'
<1> DEFINE w == Debits(ledger)
           u == Debits(ledger')
           B == Billed(v)
<1>1. IsFiniteSet(B) /\ \A i \in B : w[i] = u[i]
  BY FundsAssumption DEF Billed, Debits
<1>2. SumOf(w, B) = SumOf(u, B)
  <2> HIDE DEF w, u, B
  <2> QED BY <1>1, SumSame
<1> QED BY <1>2 DEF InvoicePaid, Billed

\* Only the steps that pay an invoice post a debit for one.
LEMMA BillsElsewhere ==
    ASSUME TypeOK, NEW k \in BillKeys, NEW p \in Procs,
           Commit(p), ~CommitInvoice(p), ~CommitPayment(p)
    PROVE  ledger'.entry[k] = ledger.entry[k]
<1> DEFINE of == job[p].of
<1>0. ledger \in Ledgers /\ k \in Keys /\ job[p].amount \in Nat
  BY JobFacts DEF TypeOK, Keys, BillKeys
<1>1. CASE CommitAdjust(p)
  <2>1. PICK kind \in Kinds :
          ledger' = IF of = None THEN PostUnkeyed(ledger, kind, job[p].amount)
                    ELSE Post(ledger, <<"adjustment", of>>, kind, job[p].amount)
    BY <1>1 DEF CommitAdjust, Kinds, SecuredKinds
  <2>2. PostUnkeyed(ledger, kind, job[p].amount).entry = ledger.entry
    BY <1>0, UnkeyedEffect
  <2>3. k # <<"adjustment", of>>
    BY DEF BillKeys
  <2> QED BY <1>0, <2>1, <2>2, <2>3, PostElsewhere
<1>2. CASE CommitHold(p)
  <2>1. k # <<"hold", of>>
    BY DEF BillKeys
  <2> QED BY <1>0, <1>2, <2>1, PostElsewhere DEF CommitHold
<1>3. CASE CommitRelease(p)
  <2>1. k # <<"release", of>>
    BY DEF BillKeys
  <2> QED BY <1>0, <1>3, <2>1, PostElsewhere DEF CommitRelease
<1>4. CASE CommitCapture(p)
  <2> DEFINE freed == Post(ledger, <<"capture_release", of>>, "RELEASE", HoldAmount[of])
  <2>1. HoldAmount[of] \in Nat
    BY <1>4, JobFacts, FundsAssumption DEF CommitCapture, HoldOps, Positive
  <2>2. freed \in Ledgers
    BY <1>0, <2>1, PostType DEF Kinds, SecuredKinds
  <2>3. k # <<"capture_release", of>> /\ k # <<"capture_debit", of>>
    BY DEF BillKeys
  <2>4. freed.entry[k] = ledger.entry[k]
    BY <1>0, <2>3, PostElsewhere
  <2>5. Post(freed, <<"capture_debit", of>>, "DEBIT", job[p].amount).entry[k] = freed.entry[k]
    BY <1>0, <2>2, <2>3, PostElsewhere
  <2> QED BY <1>4, <2>4, <2>5 DEF CommitCapture
<1> QED BY <1>1, <1>2, <1>3, <1>4 DEF Commit

\* What is paid of an invoice and the debits posted for it change together.
LEMMA BillStep ==
    ASSUME FundsInv, BillsRecorded, \A v \in Invoices : InvoicePaid(v), [Next]_vars
    PROVE  BillsRecorded' /\ \A v \in Invoices : InvoicePaid(v)'
<1> DEFINE Goal == BillsRecorded' /\ \A v \in Invoices : InvoicePaid(v)'
<1>0. /\ TypeOK
      /\ ledger \in Ledgers /\ ledger.entry \in [Keys -> Nat]
      /\ \A i \in Intents : <<"invoice_debit", i>> \in BillKeys
      /\ \A v \in Invoices : <<"wallet_payment", v>> \in BillKeys
      /\ BillKeys \subseteq Keys
  BY DEF FundsInv, TypeOK, Ledgers, BillKeys, Keys
<1>1. ASSUME \A k \in BillKeys : ledger'.entry[k] = ledger.entry[k],
             \A v \in Invoices : /\ invoice'[v].paid = invoice[v].paid
                                 /\ invoice'[v].status = "PAID" <=> invoice[v].status = "PAID"
      PROVE  Goal
  <2>1. ASSUME NEW v \in Invoices PROVE InvoicePaid(v)'
    BY <1>0, <1>1, InvoiceKept DEF Billed
  <2>2. \A i \in Intents : intent[i].credited => intent'[i].credited
    BY CreditedStays
  <2>3. BillsRecorded'
    BY <1>0, <1>1, <2>2 DEF BillsRecorded, Posted
  <2> QED BY <2>1, <2>3
<1>2. ASSUME NEW p \in Procs, CommitInvoice(p) PROVE Goal
  <2>0. PICK w \in Invoices : w = job[p].of
    BY <1>0, <1>2, JobFacts DEF CommitInvoice
  <2> DEFINE k == <<"wallet_payment", w>>
  <2>1. /\ job[p].amount \in Nat
        /\ job[p].amount = InvoiceTotal[w] - invoice[w].paid
        /\ invoice[w].status # "PAID"
        /\ ledger' = Post(ledger, k, "DEBIT", job[p].amount)
        /\ invoice' = [invoice EXCEPT ![w] = [status |-> "PAID", paid |-> InvoiceTotal[w]]]
    BY <1>0, <1>2, <2>0, JobFacts
       DEF CommitInvoice, FundsInv, CheckedStillHolds, Checked, Unsettled, Wanted, AmountDue
  <2>2. k \in Keys /\ ~Posted(ledger, k) /\ ledger.entry[k] = 0
    BY <1>0, <2>1 DEF BillsRecorded, Posted
  <2>3. /\ ledger'.entry[k] = job[p].amount
        /\ \A m \in Keys \ {k} : ledger'.entry[m] = ledger.entry[m]
    <3> DEFINE amount == job[p].amount
    <3>1. "DEBIT" \in SecuredKinds /\ amount \in Nat
      BY <2>1 DEF SecuredKinds
    <3>2. ledger' = Post(ledger, k, "DEBIT", amount)
      BY <2>1
    <3> HIDE DEF k, amount
    <3>3. ledger'.entry[k] = amount /\ \A m \in Keys \ {k} : ledger'.entry[m] = ledger.entry[m]
      BY <1>0, <2>2, <3>1, <3>2, PostEffect
    <3> QED BY <3>3 DEF amount
  <2>4. \A i \in Intents : ledger'.entry[<<"invoice_debit", i>>] = ledger.entry[<<"invoice_debit", i>>]
    BY <1>0, <2>3
  <2>5. \A v \in Invoices \ {w} : /\ ledger'.entry[<<"wallet_payment", v>>] = ledger.entry[<<"wallet_payment", v>>]
                                  /\ invoice'[v] = invoice[v]
    BY <1>0, <2>1, <2>3 DEF TypeOK
  <2>6. invoice'[w].status = "PAID" /\ invoice'[w].paid = InvoiceTotal[w]
    BY <1>0, <2>1 DEF TypeOK
  <2>7. InvoicePaid(w)'
    <3> DEFINE S == SumOf(Debits(ledger), Billed(w))
    <3>1. Debits(ledger') = Debits(ledger)
      BY <2>4 DEF Debits
    <3>2. invoice[w].paid = 0 + S /\ invoice[w].paid \in Nat /\ InvoiceTotal[w] \in Nat
      BY <1>0, <2>2, FundsAssumption DEF InvoicePaid, TypeOK, Positive
    <3>3. S \in Nat
      <4>1. Debits(ledger) \in [Intents -> Nat] /\ Billed(w) \in SUBSET Intents /\ IsFiniteSet(Billed(w))
        BY <1>0, FundsAssumption DEF Debits, Billed
      <4> QED BY <4>1, SumType
    <3>4. SumOf(Debits(ledger'), Billed(w)) = S
      BY <3>1
    <3> HIDE DEF S
    <3>5. ledger'.entry[k] + S = InvoiceTotal[w]
      BY <2>1, <2>3, <3>2, <3>3
    <3> QED BY <2>6, <3>2, <3>4, <3>5 DEF InvoicePaid, Billed
  <2>8. ASSUME NEW v \in Invoices, v # w PROVE InvoicePaid(v)'
    BY <1>0, <2>4, <2>5, <2>8, InvoiceKept DEF Billed
  <2>9. BillsRecorded'
    <3>1. UNCHANGED intent
      BY <1>2 DEF CommitInvoice
    <3> QED BY <2>4, <2>5, <2>6, <3>1 DEF BillsRecorded, Posted
  <2> QED BY <2>7, <2>8, <2>9
<1>3. ASSUME NEW p \in Procs, CommitPayment(p) PROVE Goal
  <2>0. PICK i \in Intents : i = job[p].of
    BY <1>0, <1>3, JobFacts DEF CommitPayment
  <2> DEFINE k == <<"invoice_debit", i>>
             w == IntentInvoice[i]
             credited == Post(ledger, <<"credit", i>>, "CREDIT", IntentAmount[i])
             settled == SettledBy(i)
  <2>1. /\ intent' = [intent EXCEPT ![i] = [status |-> "COMPLETED", credited |-> TRUE]]
        /\ ~intent[i].credited
    BY <1>3, <2>0 DEF CommitPayment, FundsInv, PaymentsUncredited
  <2>2. IntentAmount[i] \in Nat /\ <<"credit", i>> \in Keys /\ k \in Keys /\ <<"credit", i>> \notin BillKeys
    BY FundsAssumption DEF Positive, Keys, BillKeys
  <2>3. /\ credited \in Ledgers
        /\ \A m \in BillKeys : credited.entry[m] = ledger.entry[m]
    BY <1>0, <2>2, PostType, PostElsewhere DEF Kinds, SecuredKinds
  <2>4. CASE ~(settled > 0)
    <3>1. ledger' = credited /\ UNCHANGED invoice
      BY <1>3, <2>0, <2>4 DEF CommitPayment
    <3> HIDE DEF credited
    <3> QED BY <1>1, <2>3, <3>1
  <2>5. CASE settled > 0
    <3>1. /\ w \in Invoices
          /\ settled \in Nat /\ settled <= AmountDue(w)
          /\ settled > 0
      <4>1. IntentInvoice[i] \in Invoices \cup {None}
        BY FundsAssumption
      <4>2. w # None => AmountDue(w) \in Int
        BY <1>0, <4>1, FundsAssumption DEF AmountDue, TypeOK, Positive
      <4>3. settled = IF w = None \/ AmountDue(w) <= 0 THEN 0
                      ELSE IF AmountDue(w) < IntentAmount[i] THEN AmountDue(w) ELSE IntentAmount[i]
        BY DEF SettledBy
      <4> HIDE DEF settled, w
      <4> QED BY <2>2, <2>5, <4>1, <4>2, <4>3 DEF w
    <3>2. /\ ledger' = Post(credited, k, "DEBIT", settled)
          /\ invoice' = [invoice EXCEPT ![w] =
                [status |-> IF invoice[w].paid + settled >= InvoiceTotal[w] THEN "PAID" ELSE "PARTIALLY_PAID",
                 paid |-> invoice[w].paid + settled]]
      BY <1>3, <2>0, <2>5 DEF CommitPayment
    <3>3. ledger.entry[k] = 0 /\ ~Posted(credited, k)
      BY <1>0, <2>1, <2>3 DEF BillsRecorded, Posted
    <3>4. /\ ledger'.entry[k] = settled
          /\ \A m \in BillKeys \ {k} : ledger'.entry[m] = ledger.entry[m]
      <4> HIDE DEF credited, settled
      <4>1. ledger'.entry[k] = settled /\ \A m \in Keys \ {k} : ledger'.entry[m] = credited.entry[m]
        BY <2>2, <2>3, <3>1, <3>2, <3>3, PostEffect DEF SecuredKinds
      <4> QED BY <1>0, <2>3, <4>1
    <3> HIDE DEF settled, credited
    <3>5. /\ invoice'[w].paid = invoice[w].paid + settled
          /\ invoice'[w].status = IF invoice[w].paid + settled >= InvoiceTotal[w] THEN "PAID" ELSE "PARTIALLY_PAID"
          /\ \A v \in Invoices \ {w} : invoice'[v] = invoice[v]
      BY <1>0, <3>1, <3>2 DEF TypeOK
    <3>6. invoice[w].paid \in Nat /\ InvoiceTotal[w] \in Nat /\ invoice[w].paid + settled <= InvoiceTotal[w]
      BY <1>0, <3>1, FundsAssumption DEF AmountDue, TypeOK, Positive
    <3>7. invoice[w].status # "PAID"
      <4>1. InvoicePaid(w)
        BY <3>1
      <4> HIDE DEF w
      <4>2. invoice[w].status = "PAID" <=> invoice[w].paid = InvoiceTotal[w]
        BY <4>1 DEF InvoicePaid
      <4> QED BY <3>1, <3>6, <4>2
    <3>8. \A v \in Invoices : ledger'.entry[<<"wallet_payment", v>>] = ledger.entry[<<"wallet_payment", v>>]
      BY <1>0, <3>4
    <3>9. \A j \in Intents \ {i} : ledger'.entry[<<"invoice_debit", j>>] = ledger.entry[<<"invoice_debit", j>>]
      BY <1>0, <3>4
    <3>10. InvoicePaid(w)'
      <4> DEFINE d == Debits(ledger)
                 e == Debits(ledger')
                 B == Billed(w)
                 C == B \ {i}
      <4>1. /\ d \in [Intents -> Nat] /\ e \in [Intents -> Nat]
            /\ d[i] = 0 /\ e[i] = settled
            /\ \A j \in Intents \ {i} : d[j] = e[j]
        <5>1. \A j \in Intents : ledger'.entry[<<"invoice_debit", j>>] \in Nat
          BY <1>0, <3>1, <3>4, <3>9
        <5> QED BY <1>0, <3>3, <3>4, <3>9, <5>1 DEF Debits
      <4>2. /\ B \in SUBSET Intents /\ i \in B /\ IsFiniteSet(B)
            /\ C \in SUBSET Intents /\ IsFiniteSet(C)
        BY <3>1, FundsAssumption, FS_RemoveElement DEF Billed
      <4> HIDE DEF d, e, B, w
      <4>3. SumOf(d, B) = SumOf(d, C) + d[i] /\ SumOf(e, B) = SumOf(e, C) + e[i]
        BY <4>1, <4>2, SumRemove
      <4>4. SumOf(d, C) \in Nat
        BY <4>1, <4>2, SumType
      <4>5. SumOf(e, C) = SumOf(d, C)
        <5>1. \A j \in C : e[j] = d[j]
          BY <4>1, <4>2
        <5> HIDE DEF C
        <5> QED BY <4>2, <5>1, SumSame
      <4>6. SumOf(e, B) = SumOf(d, B) + settled /\ SumOf(d, B) \in Nat
        BY <3>1, <4>1, <4>3, <4>4, <4>5
      <4>7. invoice[w].paid = ledger.entry[<<"wallet_payment", w>>] + SumOf(d, B)
        BY <3>1 DEF InvoicePaid, d, B
      <4>8. ledger.entry[<<"wallet_payment", w>>] \in Nat
        BY <1>0, <3>1
      <4>9. invoice'[w].paid = ledger'.entry[<<"wallet_payment", w>>] + SumOf(e, B)
        BY <3>1, <3>5, <3>8, <4>6, <4>7, <4>8
      <4>10. /\ invoice'[w].paid <= InvoiceTotal[w]
             /\ invoice'[w].status = "PAID" <=> invoice'[w].paid = InvoiceTotal[w]
        BY <3>1, <3>5, <3>6
      <4> QED BY <4>9, <4>10 DEF InvoicePaid, Billed, e, B, w
    <3>11. ASSUME NEW v \in Invoices, v # w PROVE InvoicePaid(v)'
      <4>1. \A j \in Billed(v) : j \in Intents \ {i}
        BY <3>11 DEF Billed
      <4>2. \A j \in Billed(v) : ledger'.entry[<<"invoice_debit", j>>] = ledger.entry[<<"invoice_debit", j>>]
        BY <3>9, <4>1
      <4> QED BY <1>0, <3>5, <3>8, <3>11, <4>2, InvoiceKept
    <3>12. BillsRecorded'
      <4>1. \A j \in Intents : intent[j].credited => intent'[j].credited
        BY CreditedStays
      <4>2. intent'[i].credited
        BY <1>0, <2>1 DEF TypeOK
      <4>3. ASSUME NEW v \in Invoices, ledger'.entry[<<"wallet_payment", v>>] > 0 PROVE invoice'[v].status = "PAID"
        <5>1. invoice[v].status = "PAID"
          BY <3>8, <4>3 DEF BillsRecorded, Posted
        <5> QED BY <3>5, <3>7, <5>1
      <4>4. ASSUME NEW j \in Intents, ledger'.entry[<<"invoice_debit", j>>] > 0 PROVE intent'[j].credited
        BY <3>9, <4>1, <4>2, <4>4 DEF BillsRecorded, Posted
      <4> QED BY <4>3, <4>4 DEF BillsRecorded, Posted
    <3> QED BY <3>10, <3>11, <3>12
  <2> QED BY <2>4, <2>5
<1>4. ASSUME NEW p \in Procs, Commit(p), ~CommitInvoice(p), ~CommitPayment(p) PROVE Goal
  <2>1. UNCHANGED invoice
    BY <1>4 DEF Commit, CommitAdjust, CommitHold, CommitRelease, CommitCapture
  <2> QED BY <1>0, <1>1, <1>4, <2>1, BillsElsewhere
<1>5. ASSUME NEW p \in Procs, CommitPurchase(p) PROVE Goal
  <2>1. ledger'.entry = ledger.entry /\ UNCHANGED invoice
    BY <1>0, <1>5, JobFacts, UnkeyedEffect DEF CommitPurchase, Kinds
  <2> QED BY <1>1, <2>1
<1>6. CASE ReversePurchase
  <2>1. PICK a \in Amounts : ledger' = PostUnkeyed(ledger, "REVERSAL", a) /\ UNCHANGED invoice
    BY <1>6 DEF ReversePurchase
  <2>2. a \in Nat
    BY FundsAssumption DEF Positive
  <2>3. ledger'.entry = ledger.entry
    BY <1>0, <2>1, <2>2, UnkeyedEffect DEF Kinds
  <2> QED BY <1>1, <2>1, <2>3
<1>7. ASSUME NEW v \in Invoices, CreateInvoice(v) PROVE Goal
  <2>1. /\ UNCHANGED ledger
        /\ invoice[v].status = "NONE"
        /\ invoice' = [invoice EXCEPT ![v] = [@ EXCEPT !.status = "ISSUED"]]
    BY <1>7 DEF CreateInvoice
  <2>2. \A x \in Invoices : /\ invoice'[x].paid = invoice[x].paid
                            /\ invoice'[x].status = "PAID" <=> invoice[x].status = "PAID"
    BY <1>0, <2>1 DEF TypeOK
  <2> QED BY <1>1, <2>1, <2>2
<1>8. ASSUME NEW p \in Procs, InsertIntent(p) \/ RecordStatus(p) PROVE UNCHANGED <<ledger, invoice>>
  BY <1>8 DEF InsertIntent, RecordStatus
<1>9. CASE UNCHANGED <<ledger, invoice>>
  BY <1>1, <1>9
<1> QED BY <1>2, <1>3, <1>4, <1>5, <1>6, <1>7, <1>8, <1>9, WalletSteps DEF Quiet

\* At the start nothing is billed and nothing paid.
LEMMA BillInit == Init => BillsRecorded /\ \A v \in Invoices : InvoicePaid(v)
<1> SUFFICES ASSUME Init PROVE BillsRecorded /\ \A v \in Invoices : InvoicePaid(v)
  OBVIOUS
<1>1. \A k \in Keys : ledger.entry[k] = 0
  BY DEF Init
<1>2. /\ \A i \in Intents : <<"invoice_debit", i>> \in Keys
      /\ \A v \in Invoices : <<"wallet_payment", v>> \in Keys
  BY DEF Keys
<1>3. ASSUME NEW v \in Invoices PROVE InvoicePaid(v)
  <2>1. IsFiniteSet(Billed(v)) /\ \A i \in Billed(v) : Debits(ledger)[i] = 0
    BY <1>1, <1>2, FundsAssumption DEF Billed, Debits
  <2>2. SumOf(Debits(ledger), Billed(v)) = 0
    BY <2>1, SumZero
  <2>3. InvoiceTotal[v] \in Nat /\ InvoiceTotal[v] > 0
    BY FundsAssumption DEF Positive
  <2> QED BY <1>1, <1>2, <2>2, <2>3 DEF Init, InvoicePaid
<1> QED BY <1>1, <1>2, <1>3 DEF BillsRecorded, Posted

-----------------------------------------------------------------------------
(* The theorems.                                                           *)

\* What, beside FundsInv, holds at every step.
LedgerInv ==
    /\ FundsInv
    /\ HoldsAsAsked
    /\ HeldMatches
    /\ DoneIsCredited
    /\ ReceiptHonoured
    /\ BillsRecorded
    /\ \A v \in Invoices : InvoicePaid(v)

\* LedgerInv is inductive.
THEOREM LedgerInvariant == Spec => []LedgerInv
<1>1. Init => LedgerInv
  <2>1. Init => DoneIsCredited /\ ReceiptHonoured
    BY DEF Init, DoneIsCredited, ReceiptHonoured, Events, GatewayStatus
  <2> QED BY <2>1, FundsInit, HeldInit, BillInit DEF LedgerInv
<1>2. LedgerInv /\ [Next]_vars => LedgerInv'
  <2> SUFFICES ASSUME LedgerInv, [Next]_vars PROVE LedgerInv'
    OBVIOUS
  <2>1. FundsInv' /\ HoldsAsAsked' /\ HeldMatches' /\ DoneIsCredited' /\ ReceiptHonoured'
    BY FundsStep, AskedStep, HeldStep, DoneStep, ReceiptStep DEF LedgerInv, FundsInv
  <2>2. BillsRecorded' /\ \A v \in Invoices : InvoicePaid(v)'
    BY BillStep DEF LedgerInv
  <2> QED BY <2>1, <2>2 DEF LedgerInv
<1> QED BY <1>1, <1>2, PTL DEF Spec

\* The held balance getWallet reports is what the ledger withholds.
THEOREM HeldBalanceMatches == Spec => []HeldBalanceMatchesLedger
<1>1. LedgerInv => HeldBalanceMatchesLedger
  BY HeldBalanceIsSum DEF LedgerInv, HeldMatches
<1> QED BY <1>1, LedgerInvariant, PTL

\* What is paid of an invoice is the sum of the debits for it, and PAID is in full.
THEOREM InvoicesMatchLedger == Spec => []InvoiceMatchesLedger
<1>1. LedgerInv => InvoiceMatchesLedger
  BY InvoiceMatchesIsSum DEF LedgerInv
<1> QED BY <1>1, LedgerInvariant, PTL

\* The receipt of a successful payment is marked only once the money is in the wallet.
THEOREM ReceiptsHonoured == Spec => []ReceiptHonoured
<1>1. LedgerInv => ReceiptHonoured
  BY DEF LedgerInv
<1> QED BY <1>1, LedgerInvariant, PTL

\* A completed payment stays completed, whatever answer comes late.
THEOREM CompletedStaysFinal == Spec => CompletedIsFinal
<1>1. FundsInv /\ [Next]_vars => [\A i \in Intents : intent[i].credited => intent'[i] = intent[i]]_vars
  BY CreditedStays
<1> QED BY <1>1, FundsInvariant, PTL DEF Spec, CompletedIsFinal

-----------------------------------------------------------------------------
(* The requests implement the account.                                     *)

Credited == {i \in Intents : intent[i].credited}

\* A step that leaves the balance, the holds and the credited payments alone is
\* none of the account's.
LEMMA AccountStutters ==
    ASSUME Secured(ledger') = Secured(ledger), hold' = hold, Credited' = Credited
    PROVE  UNCHANGED Account!account
  BY DEF Account!account, Credited

\* Which steps the account does not see.
LEMMA UnseenSteps ==
    ASSUME FundsInv, [Next]_vars, ~\E p \in Procs : Commit(p)
    PROVE  UNCHANGED Account!account
<1>0. TypeOK /\ ledger \in Ledgers
  BY DEF FundsInv, TypeOK
<1>1. CASE Quiet
  BY <1>1, AccountStutters DEF Quiet, Credited
<1>2. CASE ReversePurchase
  <2>1. PICK a \in Amounts : ledger' = PostUnkeyed(ledger, "REVERSAL", a) /\ UNCHANGED <<hold, intent>>
    BY <1>2 DEF ReversePurchase
  <2>2. a \in Nat
    BY FundsAssumption DEF Positive
  <2>3. Secured(ledger') = Secured(ledger)
    BY <1>0, <2>1, <2>2, UnkeyedEffect DEF Kinds, SecuredKinds, Additions
  <2> QED BY <2>1, <2>3, AccountStutters DEF Credited
<1>3. ASSUME NEW v \in Invoices, CreateInvoice(v) PROVE UNCHANGED <<ledger, hold, intent>>
  BY <1>3 DEF CreateInvoice
<1>4. CASE \E v \in Invoices : CreateInvoice(v)
  BY <1>3, <1>4, AccountStutters DEF Credited
<1>5. ASSUME NEW p \in Procs, CommitPurchase(p) PROVE UNCHANGED Account!account
  <2>1. ledger' = PostUnkeyed(ledger, "PURCHASE", job[p].amount) /\ UNCHANGED <<hold, intent>>
    BY <1>5 DEF CommitPurchase
  <2>2. Secured(ledger') = Secured(ledger)
    BY <1>0, <2>1, JobFacts, UnkeyedEffect DEF Kinds, SecuredKinds, Additions
  <2> QED BY <2>1, <2>2, AccountStutters DEF Credited
<1>6. ASSUME NEW p \in Procs, InsertIntent(p) \/ RecordStatus(p) PROVE UNCHANGED Account!account
  <2>1. UNCHANGED <<ledger, hold>>
    BY <1>6 DEF InsertIntent, RecordStatus
  <2>2. \A i \in Intents : intent'[i].credited = intent[i].credited
    BY <1>0, <1>6 DEF InsertIntent, RecordStatus, TypeOK
  <2>3. Credited' = Credited
    BY <2>2 DEF Credited
  <2> QED BY <2>1, <2>3, AccountStutters
<1> QED BY <1>1, <1>2, <1>4, <1>5, <1>6, WalletSteps

\* A posting of a positive amount is a deposit or a withdrawal, or was made before.
LEMMA MoneyMoves ==
    ASSUME Secured(ledger) \in Nat, Secured(ledger') \in Nat, NEW kind \in SecuredKinds, NEW amount \in Positive,
           \/ Secured(ledger') = Secured(ledger)
           \/ Secured(ledger') = IF kind \in Additions THEN Secured(ledger) + amount ELSE Secured(ledger) - amount,
           hold' = hold, Credited' = Credited
    PROVE  [Account!Next]_(Account!account)
<1>1. CASE Secured(ledger') = Secured(ledger)
  BY <1>1, AccountStutters
<1>2. CASE Secured(ledger') > Secured(ledger)
  BY <1>2 DEF Account!Next, Account!Deposit, Credited
<1>3. CASE Secured(ledger') < Secured(ledger)
  BY <1>3 DEF Account!Next, Account!Withdraw, Credited
<1> QED BY <1>1, <1>2, <1>3

\* Every step of the requests is a step of the account, or none.
LEMMA AccountStep ==
    ASSUME LedgerInv, [Next]_vars
    PROVE  [Account!Next]_(Account!account)
<1> DEFINE Goal == [Account!Next]_(Account!account)
<1>0. /\ FundsInv /\ TypeOK /\ ledger \in Ledgers
      /\ Secured(ledger) \in Nat
      /\ Secured(ledger') \in Nat
  <2>1. FundsInv /\ FundsInv'
    BY FundsStep DEF LedgerInv
  <2>2. ASSUME NEW l \in Ledgers PROVE Secured(l) \in Int
    BY DEF Secured, Ledgers, Kinds, SecuredKinds
  <2>3. ledger \in Ledgers /\ ledger' \in Ledgers /\ Secured(ledger) >= 0 /\ Secured(ledger') >= 0
    BY <2>1 DEF FundsInv, TypeOK, LockedSpendingCovered
  <2> QED BY <2>1, <2>2, <2>3 DEF FundsInv
<1>1. ASSUME NEW p \in Procs, CommitAdjust(p) PROVE Goal
  <2> DEFINE kind == IF job[p].op = "adjust_credit" THEN "CREDIT" ELSE "DEBIT"
             key == <<"adjustment", job[p].of>>
             amount == job[p].amount
  <2>1. /\ ledger' = IF job[p].of = None THEN PostUnkeyed(ledger, kind, amount) ELSE Post(ledger, key, kind, amount)
        /\ UNCHANGED <<hold, intent>>
    BY <1>1 DEF CommitAdjust
  <2>2. /\ amount \in Positive
        /\ kind \in SecuredKinds /\ kind \in Kinds
        /\ job[p].of # None => key \in Keys
    <3>1. job[p].op \in {"adjust_credit", "adjust_debit"}
      BY <1>1 DEF CommitAdjust
    <3>2. job[p] \in Request({"adjust_credit", "adjust_debit"}, Adjustments \cup {None}, Positive)
      BY <1>0, <3>1 DEF TypeOK, Jobs, Request, Idle, PaymentOps
    <3> QED BY <3>2 DEF Request, Kinds, SecuredKinds, Keys
  <2>3. amount \in Nat
    BY <2>2 DEF Positive
  <2> HIDE DEF kind, key, amount
  <2>4. \/ Secured(ledger') = Secured(ledger)
        \/ Secured(ledger') = IF kind \in Additions THEN Secured(ledger) + amount ELSE Secured(ledger) - amount
    <3>1. CASE job[p].of = None
      BY <1>0, <2>1, <2>2, <2>3, <3>1, UnkeyedEffect
    <3>2. CASE job[p].of # None /\ Posted(ledger, key)
      BY <2>1, <3>2 DEF Post
    <3>3. CASE job[p].of # None /\ ~Posted(ledger, key)
      BY <1>0, <2>1, <2>2, <2>3, <3>3, PostEffect
    <3> QED BY <3>1, <3>2, <3>3
  <2>5. hold' = hold /\ Credited' = Credited
    BY <2>1 DEF Credited
  <2> QED BY <1>0, <2>2, <2>4, <2>5, MoneyMoves
<1>2. ASSUME NEW p \in Procs, CommitHold(p) PROVE Goal
  <2>0. PICK h \in Holds : h = job[p].of
    BY <1>0, <1>2, JobFacts DEF CommitHold
  <2>1. /\ job[p].amount = HoldAmount[h]
        /\ HoldAmount[h] \in Nat
        /\ Secured(ledger) >= HoldAmount[h]
        /\ UNCHANGED intent
    BY <1>0, <1>2, <2>0, FundsAssumption
       DEF CommitHold, LedgerInv, HoldsAsAsked, FundsInv, CheckedStillHolds, Checked, Wanted, FundsOps, Positive
  <2>2. CASE hold[h] # "NONE"
    BY <1>2, <2>0, <2>1, <2>2, AccountStutters DEF CommitHold, Credited
  <2>3. CASE hold[h] = "NONE"
    <3>1. /\ ledger' = Post(ledger, <<"hold", h>>, "HOLD", HoldAmount[h])
          /\ hold' = [hold EXCEPT ![h] = "ACTIVE"]
      BY <1>2, <2>0, <2>1, <2>3 DEF CommitHold
    <3>2. ~Posted(ledger, <<"hold", h>>) /\ <<"hold", h>> \in Keys
      BY <2>3 DEF FundsInv, LedgerInv, HoldSettledOnce, Settled, Keys
    <3>3. Secured(ledger') = Secured(ledger) - HoldAmount[h]
      BY <1>0, <2>1, <3>1, <3>2, PostEffect DEF SecuredKinds, Additions
    <3>4. Account!Reserve(h)
      BY <2>1, <2>3, <3>1, <3>3 DEF Account!Reserve
    <3> QED BY <3>4 DEF Account!Next
  <2> QED BY <2>2, <2>3
<1>3. ASSUME NEW p \in Procs, CommitRelease(p) PROVE Goal
  <2>0. PICK h \in Holds : h = job[p].of
    BY <1>0, <1>3, JobFacts DEF CommitRelease, HoldOps
  <2>1. /\ ledger' = Post(ledger, <<"release", h>>, "RELEASE", HoldAmount[h])
        /\ hold' = [hold EXCEPT ![h] = "RELEASED"]
        /\ UNCHANGED intent
        /\ hold[h] = "ACTIVE"
        /\ HoldAmount[h] \in Nat
    BY <1>0, <1>3, <2>0, FundsAssumption
       DEF CommitRelease, FundsInv, CheckedStillHolds, Checked, Unsettled, HoldOps, Positive
  <2>2. ~Posted(ledger, <<"release", h>>) /\ <<"release", h>> \in Keys
    BY <1>0, <2>1 DEF FundsInv, HoldSettledOnce, Settled, Keys
  <2>3. Secured(ledger') = Secured(ledger) + HoldAmount[h]
    BY <1>0, <2>1, <2>2, PostEffect DEF SecuredKinds, Additions
  <2>4. Account!GiveBack(h)
    BY <2>1, <2>3 DEF Account!GiveBack
  <2> QED BY <2>4 DEF Account!Next
<1>4. ASSUME NEW p \in Procs, CommitCapture(p) PROVE Goal
  <2>0. PICK h \in Holds : h = job[p].of
    BY <1>0, <1>4, JobFacts DEF CommitCapture, HoldOps
  <2> DEFINE freed == Post(ledger, <<"capture_release", h>>, "RELEASE", HoldAmount[h])
             debit == <<"capture_debit", h>>
             amount == job[p].amount
  <2>1. /\ ledger' = Post(freed, debit, "DEBIT", amount)
        /\ hold' = [hold EXCEPT ![h] = "CAPTURED"]
        /\ UNCHANGED intent
        /\ hold[h] = "ACTIVE"
        /\ HoldAmount[h] \in Nat
        /\ amount \in Nat /\ amount > 0 /\ amount <= HoldAmount[h]
    BY <1>0, <1>4, <2>0, JobFacts, FundsAssumption
       DEF CommitCapture, FundsInv, CheckedStillHolds, Checked, Unsettled, HoldOps, Positive
  <2>2. /\ ~Posted(ledger, <<"capture_release", h>>) /\ ~Posted(ledger, debit)
        /\ <<"capture_release", h>> \in Keys /\ debit \in Keys
    BY <1>0, <2>1 DEF FundsInv, HoldSettledOnce, Settled, Keys
  <2>3. freed \in Ledgers /\ Secured(freed) = Secured(ledger) + HoldAmount[h] /\ ~Posted(freed, debit)
    <3>1. "RELEASE" \in SecuredKinds \cap Additions
      BY DEF SecuredKinds, Additions
    <3>2. HoldAmount[h] \in Nat
      BY <2>1
    <3>3. freed \in Ledgers /\ Secured(freed) = Secured(ledger) + HoldAmount[h]
      BY ONLY <1>0, <2>2, <3>1, <3>2, PostEffect
    <3>4. freed.entry[debit] = ledger.entry[debit]
      BY <1>0, <2>2, PostElsewhere
    <3> QED BY <2>2, <3>3, <3>4 DEF Posted
  <2>4. Secured(ledger') = Secured(ledger) + HoldAmount[h] - amount
    <3>1. "DEBIT" \in SecuredKinds \ Additions
      BY DEF SecuredKinds, Additions
    <3> HIDE DEF freed, debit, amount
    <3>2. Secured(Post(freed, debit, "DEBIT", amount)) = Secured(freed) - amount
      BY <2>1, <2>2, <2>3, <3>1, PostEffect
    <3>3. Secured(ledger') = Secured(freed) - amount
      BY ONLY <2>1, <3>2
    <3> QED BY <1>0, <2>1, <2>3, <3>3
  <2> HIDE DEF amount
  <2>5. Account!Spend(h)
    <3>1. amount \in 1..HoldAmount[h]
      BY <2>1
    <3> QED BY <2>1, <2>4, <3>1 DEF Account!Spend
  <2> QED BY <2>5 DEF Account!Next
<1>5. ASSUME NEW p \in Procs, CommitInvoice(p) PROVE Goal
  <2>0. PICK v \in Invoices : v = job[p].of
    BY <1>0, <1>5, JobFacts DEF CommitInvoice
  <2> DEFINE key == <<"wallet_payment", v>>
             amount == job[p].amount
  <2>1. /\ ledger' = Post(ledger, key, "DEBIT", amount)
        /\ UNCHANGED <<hold, intent>>
        /\ amount \in Nat /\ amount > 0 /\ key \in Keys
    BY <1>0, <1>5, <2>0, JobFacts
       DEF CommitInvoice, FundsInv, CheckedStillHolds, Checked, Unsettled, Wanted, AmountDue, Keys
  <2>2. "DEBIT" \in SecuredKinds /\ amount \in Positive
    BY <2>1 DEF SecuredKinds, Positive
  <2>3. \/ Secured(ledger') = Secured(ledger)
        \/ Secured(ledger') = IF "DEBIT" \in Additions THEN Secured(ledger) + amount ELSE Secured(ledger) - amount
    <3> HIDE DEF key, amount
    <3>1. CASE Posted(ledger, key)
      BY <2>1, <3>1 DEF Post
    <3>2. CASE ~Posted(ledger, key)
      BY <1>0, <2>1, <2>2, <3>2, PostEffect
    <3> QED BY <3>1, <3>2
  <2>4. hold' = hold /\ Credited' = Credited
    BY <2>1 DEF Credited
  <2> HIDE DEF amount
  <2> QED BY <1>0, <2>2, <2>3, <2>4, MoneyMoves
<1>6. ASSUME NEW p \in Procs, CommitPayment(p) PROVE Goal
  <2>0. PICK i \in Intents : i = job[p].of
    BY <1>0, <1>6, JobFacts DEF CommitPayment
  <2> DEFINE credited == Post(ledger, <<"credit", i>>, "CREDIT", IntentAmount[i])
             settled == SettledBy(i)
             debit == <<"invoice_debit", i>>
  <2>1. IntentAmount[i] \in Nat /\ settled \in Nat /\ settled <= IntentAmount[i]
    BY <1>0, FundsAssumption DEF SettledBy, AmountDue, Positive, TypeOK
  <2>2. /\ ledger' = IF settled > 0 THEN Post(credited, debit, "DEBIT", settled) ELSE credited
        /\ intent' = [intent EXCEPT ![i] = [status |-> "COMPLETED", credited |-> TRUE]]
        /\ UNCHANGED hold
        /\ ~intent[i].credited
    BY <1>0, <1>6, <2>0 DEF CommitPayment, FundsInv, PaymentsUncredited
  <2>3. /\ <<"credit", i>> \in Keys /\ debit \in Keys
        /\ ~Posted(ledger, <<"credit", i>>) /\ ~Posted(ledger, debit)
    <3>1. ledger.entry[<<"credit", i>>] = 0
      BY <1>0, <2>2 DEF FundsInv, CreditedOnce
    <3> QED BY <2>2, <3>1 DEF LedgerInv, BillsRecorded, Posted, Keys
  <2>4. credited \in Ledgers /\ Secured(credited) = Secured(ledger) + IntentAmount[i] /\ ~Posted(credited, debit)
    <3>1. credited \in Ledgers /\ Secured(credited) = Secured(ledger) + IntentAmount[i]
      BY <1>0, <2>1, <2>3, PostEffect DEF SecuredKinds, Additions
    <3>2. credited.entry[debit] = ledger.entry[debit]
      BY <1>0, <2>3, PostElsewhere
    <3> QED BY <2>3, <3>1, <3>2 DEF Posted
  <2>5. Secured(ledger') = Secured(ledger) + IntentAmount[i] - settled
    <3>1. "DEBIT" \in SecuredKinds \ Additions
      BY DEF SecuredKinds, Additions
    <3> HIDE DEF credited, settled, debit
    <3>2. Secured(Post(credited, debit, "DEBIT", settled)) = Secured(credited) - settled
      BY <2>1, <2>3, <2>4, <3>1, PostEffect
    <3>3. CASE settled > 0
      <4>1. ledger' = Post(credited, debit, "DEBIT", settled)
        BY <2>2, <3>3
      <4>2. Secured(ledger') = Secured(credited) - settled
        BY ONLY <3>2, <4>1
      <4> QED BY <1>0, <2>1, <2>4, <4>2
    <3>4. CASE ~(settled > 0)
      <4>1. settled = 0 /\ ledger' = credited
        BY <2>1, <2>2, <3>4
      <4> QED BY <1>0, <2>1, <2>4, <4>1
    <3> QED BY <3>3, <3>4
  <2>6. i \notin Credited /\ Credited' = Credited \cup {i}
    BY <1>0, <2>2 DEF Credited, TypeOK
  <2>7. Account!Bank(i)
    <3>1. settled \in 0..IntentAmount[i]
      BY <2>1
    <3> HIDE DEF settled
    <3> QED BY <2>2, <2>5, <2>6, <3>1 DEF Account!Bank, Credited
  <2> QED BY <2>7 DEF Account!Next
<1>7. CASE ~\E p \in Procs : Commit(p)
  BY <1>0, <1>7, UnseenSteps
<1> QED BY <1>1, <1>2, <1>3, <1>4, <1>5, <1>6, <1>7 DEF Commit

\* However the requests are interleaved, retried or cut short, the workspace sees
\* the account it was promised: nothing is spent twice, a hold is given back or
\* spent once, and a payment is banked once.
THEOREM FundsImplementAccount == Spec => ImplementsAccount
<1>1. Init => Account!Init
  BY DEF Init, Account!Init, Secured, Kinds, SecuredKinds
<1>2. LedgerInv /\ [Next]_vars => [Account!Next]_(Account!account)
  BY AccountStep
<1> QED BY <1>1, <1>2, LedgerInvariant, PTL DEF Spec, ImplementsAccount, Account!Spec
=================================================================================
