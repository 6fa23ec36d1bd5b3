--------------------------- MODULE VtuOrders_proofs ---------------------------
(***************************************************************************)
(* Theorems about VtuOrders: types, the money given back and the statuses  *)
(* shown, for any number of orders and of handlers.                        *)
(***************************************************************************)
EXTENDS VtuOrders, TLAPS

\* A handler that is not idle has a job, on an order.
LEMMA JobFacts ==
    ASSUME TypeOK, Working, NEW p \in Procs, pc[p] # "idle"
    PROVE  /\ job[p] \in [op : Ops, of : Orders, saw : OrderStatus, answer : Answers]
           /\ job[p].op \in Ops /\ job[p].of \in Orders
           /\ job[p].saw \in OrderStatus /\ job[p].answer \in Answers
  BY DEF TypeOK, Working, Jobs, Idle, Ops

\* An adapter only ever gives one of the answers.
LEMMA AnswerType ==
    /\ \A outcome \in ProviderStatus : Reply(outcome) \subseteq Answers
    /\ \A product : Lost(product) \subseteq Answers
    /\ \A o \in Orders : TypeOK => Snapshot(o) \subseteq Answers
<1>1. \A outcome \in ProviderStatus : Reply(outcome) \subseteq Answers
  BY DEF Reply, ProviderStatus, Answers
<1>2. \A product : Lost(product) \subseteq Answers
  BY DEF Lost, Answers
<1>3. \A o \in Orders : TypeOK => Snapshot(o) \subseteq Answers
  BY <1>1 DEF Snapshot, Answers, TypeOK
<1> QED BY <1>1, <1>2, <1>3

\* The initial state satisfies the inductive invariant.
LEMMA VtuInit == Init => VtuInv
<1> SUFFICES ASSUME Init PROVE VtuInv
  OBVIOUS
<1>1. TypeOK
  BY VtuAssumption DEF Init, TypeOK, OrderStatus, ProviderStatus, Steps, Jobs
<1>2. Working
  BY DEF Init, Working, Idle
<1>3. ReversalsPosted /\ AnswersTrue
  BY DEF Init, ReversalsPosted, AnswersTrue, Idle
<1>4. ChargesReversed /\ ReversedIsRefunded /\ DeliveredIsDelivered
  BY DEF Init, ChargesReversed, ReversedIsRefunded, DeliveredIsDelivered
<1>5. CallingAlone /\ FailuresTrue /\ RefundsJustified
  BY DEF Init, CallingAlone, FailuresTrue, RefundsJustified, Idle
<1> QED BY <1>1, <1>2, <1>3, <1>4, <1>5 DEF VtuInv

-----------------------------------------------------------------------------
(* Types.                                                                  *)

\* The four ways a step changes where a handler is keep the types.
LEMMA ControlTypes ==
    ASSUME TypeOK, Working, NEW p \in Procs
    PROVE  /\ Return(p) => pc' \in [Procs -> Steps] /\ job' \in [Procs -> Jobs]
           /\ \A s \in Steps : Goto(p, s) => pc' \in [Procs -> Steps] /\ job' \in [Procs -> Jobs]
           /\ \A op \in Ops, o \in Orders, a \in Answers, s \in Steps :
                Begin(p, op, o, a, s) => pc' \in [Procs -> Steps] /\ job' \in [Procs -> Jobs]
           /\ \A a \in Answers : pc[p] # "idle" /\ job' = [job EXCEPT ![p].answer = a]
                => job' \in [Procs -> Jobs]
<1>1. Return(p) => pc' \in [Procs -> Steps] /\ job' \in [Procs -> Jobs]
  BY DEF Return, TypeOK, Steps, Jobs
<1>2. \A s \in Steps : Goto(p, s) => pc' \in [Procs -> Steps] /\ job' \in [Procs -> Jobs]
  BY DEF Goto, TypeOK
<1>3. \A op \in Ops, o \in Orders, a \in Answers, s \in Steps :
         Begin(p, op, o, a, s) => pc' \in [Procs -> Steps] /\ job' \in [Procs -> Jobs]
  BY DEF Begin, TypeOK, Jobs
<1>4. ASSUME NEW a \in Answers, pc[p] # "idle", job' = [job EXCEPT ![p].answer = a]
      PROVE  job' \in [Procs -> Jobs]
  <2>1. [job[p] EXCEPT !.answer = a] \in Jobs
    BY <1>4, JobFacts DEF Jobs
  <2> QED BY <1>4, <2>1 DEF TypeOK
<1> QED BY <1>1, <1>2, <1>3, <1>4

\* A status written to an order keeps the types.
LEMMA StatusTypes ==
    ASSUME TypeOK, NEW o, NEW s \in OrderStatus, SetStatus(o, s) \/ KeepStatus
    PROVE  order' \in [Orders -> OrderStatus] /\ stale' \subseteq Orders
  BY DEF TypeOK, SetStatus, KeepStatus

\* Every step keeps the types.
LEMMA TypeStep == TypeOK /\ Working /\ [Next]_vars => TypeOK'
<1> SUFFICES ASSUME TypeOK, Working, [Next]_vars PROVE TypeOK'
  OBVIOUS
<1> USE DEF rows, work, external
<1>1. CASE UNCHANGED vars
  BY <1>1 DEF vars, TypeOK
<1>2. ASSUME NEW p \in Procs, Handle(p) \/ NoAnswer(p) \/ Crash(p) PROVE TypeOK'
  <2> DEFINE o == job[p].of
  <2>0. pc[p] # "idle"
    BY <1>2 DEF Handle, NoAnswer, Crash, Purchase, RecordPurchase, RejectPurchase, EnqueuePoll, Answer,
         RecordPoll, RecordReconcile, HandleCompleted, HandleRefunded, MarkProcessed, Reversal, FindCharge,
         PostReversal, FailReversal, MarkRefunded, WriteReversed, ResolveDelivered, ResolveReversed, RollBackResolve
  <2>1. job[p].of \in Orders /\ job[p].op \in Ops /\ job[p].answer \in Answers
    BY <2>0, JobFacts
  <2>2. CASE Purchase(p)
    <3>1. PICK outcome \in ProviderStatus :
             /\ provider' = [provider EXCEPT ![job[p].of] = outcome]
             /\ events' = events \cup (IF outcome \in Outcomes THEN {<<job[p].of, outcome>>} ELSE {})
             /\ \E a \in Reply(outcome) \cup Lost(Product[job[p].of]) : job' = [job EXCEPT ![p].answer = a]
      BY <2>2 DEF Purchase
    <3>2. job' \in [Procs -> Jobs]
      BY <2>0, <3>1, AnswerType, ControlTypes
    <3>3. events' \subseteq Events
      BY <2>1, <3>1 DEF TypeOK, Events
    <3>4. pc' \in [Procs -> Steps]
      BY <2>2 DEF Purchase, TypeOK, Steps
    <3> QED BY <2>2, <3>1, <3>2, <3>3, <3>4 DEF Purchase, TypeOK
  <2>3. CASE RecordPurchase(p)
    <3>1. FinalStatus(job[p].answer) \in OrderStatus
      BY DEF FinalStatus, OrderStatus
    <3> QED BY <2>3, <3>1, ControlTypes, StatusTypes DEF RecordPurchase, TypeOK, Steps
  <2>4. CASE RejectPurchase(p)
    BY <2>4, ControlTypes DEF RejectPurchase, TypeOK, Steps
  <2>5. CASE EnqueuePoll(p)
    BY <2>5, ControlTypes, VtuAssumption DEF EnqueuePoll, TypeOK
  <2>6. CASE Answer(p) \/ NoAnswer(p)
    <3>1. PICK a \in Answers : job' = [job EXCEPT ![p].answer = a]
      BY <2>1, <2>6, AnswerType DEF Answer, NoAnswer, Answers
    <3>2. job' \in [Procs -> Jobs]
      BY <2>0, <3>1, ControlTypes
    <3> QED BY <2>6, <3>2 DEF Answer, NoAnswer, TypeOK, Steps
  <2>7. CASE RecordPoll(p)
    <3>1. order' \in [Orders -> OrderStatus] /\ stale' \subseteq Orders
      BY <2>7, StatusTypes DEF RecordPoll, OrderStatus, TypeOK
    <3>2. polls[job[p].of] \in 1..MaxPolls
      BY <2>1, <2>7 DEF RecordPoll, Working, TypeOK
    <3>3. polls' \in [Orders -> 0..MaxPolls]
      BY <2>7, <3>2, VtuAssumption DEF RecordPoll, TypeOK
    <3> QED BY <2>7, <3>1, <3>3, ControlTypes DEF RecordPoll, TypeOK
  <2>8. CASE RecordReconcile(p)
    BY <2>8, ControlTypes, StatusTypes DEF RecordReconcile, TypeOK, OrderStatus
  <2>9. CASE HandleCompleted(p)
    BY <2>9, ControlTypes, StatusTypes DEF HandleCompleted, TypeOK, OrderStatus, Steps
  <2>10. CASE HandleRefunded(p)
    BY <2>10, ControlTypes DEF HandleRefunded, TypeOK, Steps
  <2>11. CASE MarkProcessed(p)
    <3>1. job[p].answer \in Outcomes
      BY <2>11 DEF MarkProcessed, Working
    <3> QED BY <2>1, <2>11, <3>1, ControlTypes DEF MarkProcessed, TypeOK, Events
  <2>12. CASE FindCharge(p)
    BY <2>12, ControlTypes DEF FindCharge, TypeOK, Steps
  <2>13. CASE PostReversal(p)
    <3>1. refunds' \in [Orders -> Nat]
      BY <2>1, <2>13 DEF PostReversal, TypeOK
    <3> QED BY <2>13, <3>1, ControlTypes DEF PostReversal, TypeOK, Steps
  <2>14. CASE FailReversal(p)
    BY <2>14, ControlTypes, StatusTypes DEF FailReversal, TypeOK, OrderStatus
  <2>15. CASE MarkRefunded(p)
    BY <2>15, ControlTypes DEF MarkRefunded, TypeOK, Steps
  <2>16. CASE WriteReversed(p)
    <3>1. order' \in [Orders -> OrderStatus] /\ stale' \subseteq Orders
      BY <2>16, StatusTypes DEF WriteReversed, OrderStatus
    <3> QED BY <2>16, <3>1, ControlTypes DEF WriteReversed, TypeOK, Steps
  <2>17. CASE ResolveDelivered(p)
    BY <2>17, ControlTypes, StatusTypes DEF ResolveDelivered, TypeOK, OrderStatus
  <2>18. CASE ResolveReversed(p)
    <3>1. order' \in [Orders -> OrderStatus] /\ stale' \subseteq Orders
      BY <2>18, StatusTypes DEF ResolveReversed, OrderStatus
    <3> QED BY <2>18, <3>1, ControlTypes DEF ResolveReversed, TypeOK
  <2>19. CASE RollBackResolve(p)
    BY <2>19, ControlTypes DEF RollBackResolve, TypeOK
  <2>20. CASE Crash(p)
    BY <2>20, ControlTypes, VtuAssumption DEF Crash, TypeOK
  <2> QED BY <1>2, <2>2, <2>3, <2>4, <2>5, <2>6, <2>7, <2>8, <2>9, <2>10, <2>11, <2>12, <2>13, <2>14,
             <2>15, <2>16, <2>17, <2>18, <2>19, <2>20 DEF Handle, Reversal
<1>3. ASSUME NEW p \in Procs, NEW o \in Orders, Charge(p, o) PROVE TypeOK'
  <2>1. order' \in [Orders -> OrderStatus] /\ stale' \subseteq Orders
    BY <1>3, StatusTypes DEF Charge, OrderStatus
  <2>2. job' \in [Procs -> Jobs] /\ pc' \in [Procs -> Steps]
    BY <1>3 DEF Charge, TypeOK, Jobs, Ops, OrderStatus, Answers, Steps
  <2> QED BY <1>3, <2>1, <2>2 DEF Charge, TypeOK
<1>4. ASSUME NEW p \in Procs, NEW o \in Orders, BeginPoll(p, o) \/ BeginReconcile(p, o) \/ BeginResolve(p, o)
      PROVE  TypeOK'
  BY <1>4, ControlTypes DEF BeginPoll, BeginReconcile, BeginResolve, TypeOK, Ops, Answers, Steps
<1>5. ASSUME NEW p \in Procs, NEW e \in Events, BeginWebhook(p, e) PROVE TypeOK'
  BY <1>5, ControlTypes DEF BeginWebhook, TypeOK, Ops, Answers, Steps, Events, Outcomes
<1>6. ASSUME NEW o \in Orders, FinishPoll(o) \/ ProviderSettles(o) \/ Age(o) PROVE TypeOK'
  BY <1>6, VtuAssumption DEF FinishPoll, ProviderSettles, Age, TypeOK, Outcomes, ProviderStatus, Events
<1> QED BY <1>1, <1>2, <1>3, <1>4, <1>5, <1>6 DEF Next

-----------------------------------------------------------------------------
(* Handlers.                                                               *)

\* What a handler's own step does to the handlers: it goes on with its job, or is
\* idle again; a webhook's or an operator's answer is kept; no other handler notices.
LEMMA Handled ==
    ASSUME TypeOK, Working, NEW p \in Procs, Handle(p) \/ NoAnswer(p) \/ Crash(p)
    PROVE  /\ pc[p] # "idle"
           /\ \A q \in Procs \ {p} : pc'[q] = pc[q] /\ job'[q] = job[q]
           /\ \/ pc'[p] = "idle" /\ job'[p] = Idle
              \/ /\ pc'[p] \notin {"idle", "calling", "asking", "handling", "resolving"}
                 /\ job'[p].op = job[p].op /\ job'[p].of = job[p].of
                 /\ job[p].op \in {"webhook", "resolve"} => job'[p].answer = job[p].answer
                 /\ pc'[p] = "done" => job[p].op = "webhook"
                 /\ pc'[p] \in {"refund", "post", "mark", "refunded"} => job[p].op \in {"buy", "webhook"}
                 /\ job[p].op # "poll" \/ UNCHANGED polls
<1> DEFINE Back == pc' = [pc EXCEPT ![p] = "idle"] /\ job' = [job EXCEPT ![p] = Idle]
           On(s) == pc' = [pc EXCEPT ![p] = s] /\ UNCHANGED job
           Told == /\ pc' = [pc EXCEPT ![p] = "answered"]
                   /\ \E a : job' = [job EXCEPT ![p].answer = a]
                   /\ job[p].op \notin {"webhook", "resolve"}
                   /\ UNCHANGED polls
<1>1. pc[p] # "idle"
  BY DEF Handle, NoAnswer, Crash, Purchase, RecordPurchase, RejectPurchase, EnqueuePoll, Answer,
         RecordPoll, RecordReconcile, HandleCompleted, HandleRefunded, MarkProcessed, Reversal, FindCharge,
         PostReversal, FailReversal, MarkRefunded, WriteReversed, ResolveDelivered, ResolveReversed, RollBackResolve
<1>2. \/ Back
      \/ Told
      \/ On("enqueue") /\ job[p].op = "buy"
      \/ /\ On("refund") \/ On("post") \/ On("mark") \/ On("refunded")
         /\ job[p].op \in {"buy", "webhook"}
         /\ UNCHANGED polls
      \/ On("done") /\ job[p].op = "webhook"
  <2>1. CASE Purchase(p) \/ Answer(p) \/ NoAnswer(p)
    BY <2>1 DEF Purchase, Answer, NoAnswer, Working, work
  <2>2. CASE RecordPurchase(p)
    BY <2>2 DEF RecordPurchase, Goto, Return
  <2>3. CASE RejectPurchase(p) \/ HandleRefunded(p)
    BY <2>3 DEF RejectPurchase, HandleRefunded, Goto, Working, work
  <2>4. CASE EnqueuePoll(p) \/ RecordPoll(p) \/ RecordReconcile(p) \/ MarkProcessed(p) \/ FailReversal(p)
             \/ ResolveDelivered(p) \/ ResolveReversed(p) \/ RollBackResolve(p) \/ Crash(p)
    BY <2>4 DEF EnqueuePoll, RecordPoll, RecordReconcile, MarkProcessed, FailReversal, ResolveDelivered,
         ResolveReversed, RollBackResolve, Crash, Return
  <2>5. CASE HandleCompleted(p)
    BY <2>5 DEF HandleCompleted, Goto, Working
  <2>6. CASE FindCharge(p) \/ PostReversal(p) \/ MarkRefunded(p)
    BY <2>6 DEF FindCharge, PostReversal, MarkRefunded, Goto, Working, work
  <2>7. CASE WriteReversed(p)
    BY <2>7 DEF WriteReversed, Goto, Return, Working
  <2> QED BY <2>1, <2>2, <2>3, <2>4, <2>5, <2>6, <2>7 DEF Handle, Reversal
<1>3. CASE Back
  BY <1>1, <1>3 DEF TypeOK
<1>4. CASE Told
  <2>1. PICK a : job' = [job EXCEPT ![p].answer = a]
    BY <1>4
  <2>2. job[p] \in [op : Ops, of : Orders, saw : OrderStatus, answer : Answers]
    BY <1>1, JobFacts
  <2>3. job'[p] = [job[p] EXCEPT !.answer = a]
    BY <2>1 DEF TypeOK
  <2>4. job'[p].op = job[p].op /\ job'[p].of = job[p].of
    BY <2>2, <2>3
  <2> QED BY <1>1, <1>4, <2>1, <2>4 DEF TypeOK
<1>5. ASSUME NEW s \in {"enqueue", "refund", "post", "mark", "refunded", "done"}, On(s)
      PROVE  pc'[p] = s /\ (\A q \in Procs \ {p} : pc'[q] = pc[q]) /\ UNCHANGED job
  BY <1>5 DEF TypeOK
<1> QED BY <1>1, <1>2, <1>3, <1>4, <1>5

\* A handler's step changes at most the order it works on, and never undoes the
\* purchase; a poll job's attempts are its own.
LEMMA RowsHandled ==
    ASSUME TypeOK, Working, NEW p \in Procs, Handle(p) \/ NoAnswer(p) \/ Crash(p)
    PROVE  \A o \in Orders :
             /\ order'[o] = "NONE" <=> order[o] = "NONE"
             /\ charge'[o] = "NONE" <=> charge[o] = "NONE"
             /\ polls[o] > 0 /\ polls'[o] = 0 => job[p].op = "poll" /\ job[p].of = o /\ pc'[p] = "idle"
             /\ o # job[p].of => order'[o] = order[o] /\ refunds'[o] = refunds[o]
                                 /\ charge'[o] = charge[o] /\ provider'[o] = provider[o]
                                 /\ polls'[o] = polls[o] /\ (o \in stale' <=> o \in stale)
<1> USE DEF rows, work, external
<1>0. /\ pc[p] # "idle"
      /\ job[p].of \in Orders
      /\ order[job[p].of] # "NONE"
      /\ charge[job[p].of] # "NONE"
  BY Handled, JobFacts DEF Working
<1>1. CASE Purchase(p) \/ Answer(p) \/ NoAnswer(p) \/ RejectPurchase(p) \/ HandleRefunded(p)
           \/ FindCharge(p) \/ RollBackResolve(p) \/ MarkProcessed(p)
  BY <1>0, <1>1 DEF Purchase, Answer, NoAnswer, RejectPurchase, HandleRefunded, FindCharge,
       RollBackResolve, MarkProcessed, TypeOK
<1>2. CASE EnqueuePoll(p)
  BY <1>0, <1>2, VtuAssumption DEF EnqueuePoll, TypeOK
<1>3. CASE Crash(p)
  BY <1>0, <1>3 DEF Crash, TypeOK, Return
<1>4. CASE PostReversal(p) \/ MarkRefunded(p)
  BY <1>0, <1>4 DEF PostReversal, MarkRefunded, TypeOK
<1>5. CASE RecordPurchase(p)
  <2>1. FinalStatus(job[p].answer) # "NONE"
    BY DEF FinalStatus
  <2> QED BY <1>0, <1>5, <2>1 DEF RecordPurchase, SetStatus, TypeOK
<1>6. CASE RecordPoll(p)
  BY <1>0, <1>6 DEF RecordPoll, SetStatus, KeepStatus, Return, TypeOK, Outcomes
<1>7. CASE RecordReconcile(p)
  BY <1>0, <1>7 DEF RecordReconcile, SetStatus, KeepStatus, TypeOK
<1>8. CASE HandleCompleted(p) \/ FailReversal(p) \/ WriteReversed(p) \/ ResolveDelivered(p) \/ ResolveReversed(p)
  BY <1>0, <1>8 DEF HandleCompleted, FailReversal, WriteReversed, ResolveDelivered, ResolveReversed,
       SetStatus, KeepStatus, TypeOK
<1> QED BY <1>1, <1>2, <1>3, <1>4, <1>5, <1>6, <1>7, <1>8 DEF Handle, Reversal

-----------------------------------------------------------------------------
(* The parts of the invariant.                                             *)

\* Every step keeps what a handler may rely on about its job.
LEMMA WorkingStep == VtuInv /\ [Next]_vars => Working'
<1> SUFFICES ASSUME TypeOK, Working, AnswersTrue, [Next]_vars PROVE Working'
  BY DEF VtuInv
<1> USE DEF rows, work, external
<1>1. CASE UNCHANGED vars
  BY <1>1 DEF vars, Working
<1>2. ASSUME NEW p \in Procs, Handle(p) \/ NoAnswer(p) \/ Crash(p) PROVE Working'
  <2>0. /\ job[p].of \in Orders
        /\ pc[p] # "idle" /\ job[p].op # "none"
        /\ Idle.op = "none"
    BY <1>2, Handled, JobFacts DEF Idle, Ops
  <2>1. \A o \in Orders : order'[o] = "NONE" <=> charge'[o] = "NONE"
    BY <1>2, RowsHandled DEF Working
  <2>2. ASSUME NEW q \in Procs
        PROVE  /\ pc'[q] = "idle" <=> job'[q].op = "none"
               /\ pc'[q] # "idle" => order'[job'[q].of] # "NONE"
               /\ pc'[q] = "calling" => job'[q].op = "buy" /\ provider'[job'[q].of] = "NONE"
               /\ pc'[q] = "asking" => job'[q].op \in {"poll", "reconcile"}
               /\ pc'[q] \in {"handling", "done"} => job'[q].op = "webhook"
               /\ pc'[q] \in {"refund", "post", "mark", "refunded"} => job'[q].op \in {"buy", "webhook"}
               /\ job'[q].op = "webhook" => job'[q].answer \in Outcomes
               /\ job'[q].op = "poll" => polls'[job'[q].of] > 0
    <3>1. CASE q = p
      <4>1. CASE pc'[p] = "idle" /\ job'[p] = Idle
        BY <3>1, <4>1, <2>0
      <4>2. CASE pc'[p] # "idle"
        BY <1>2, <3>1, <4>2, <2>0, Handled, RowsHandled DEF Working
      <4> QED BY <1>2, <4>1, <4>2, Handled
    <3>2. CASE q # p
      <4>1. pc'[q] = pc[q] /\ job'[q] = job[q]
        BY <1>2, <3>2, Handled
      <4>2. pc[q] # "idle" => job[q].of \in Orders
        BY JobFacts
      <4>3. pc[q] = "calling" => provider'[job[q].of] = "NONE"
        <5>1. CASE job[q].of # job[p].of
          BY <1>2, <4>2, <5>1, RowsHandled DEF Working
        <5>2. CASE job[q].of = job[p].of /\ pc[q] = "calling"
          <6>1. ~Purchase(p)
            BY <3>2, <5>2 DEF Purchase, Working
          <6>2. UNCHANGED provider
            BY <1>2, <6>1 DEF Handle, NoAnswer, Crash, RecordPurchase, RejectPurchase, EnqueuePoll, Answer,
                 RecordPoll, RecordReconcile, HandleCompleted, HandleRefunded, MarkProcessed, Reversal, FindCharge,
                 PostReversal, FailReversal, MarkRefunded, WriteReversed, ResolveDelivered, ResolveReversed,
                 RollBackResolve
          <6> QED BY <5>2, <6>2 DEF Working
        <5> QED BY <5>1, <5>2
      <4>4. job[q].op = "poll" => pc[q] # "idle" /\ polls[job[q].of] > 0
        BY DEF Working
      <4>5. job[q].op = "poll" => polls'[job[q].of] > 0
        <5>1. TypeOK'
          BY TypeStep
        <5> QED BY <1>2, <3>2, <4>2, <4>4, <5>1, RowsHandled DEF Working, TypeOK
      <4> QED BY <1>2, <4>1, <4>2, <4>3, <4>4, <4>5, RowsHandled DEF Working
    <3> QED BY <3>1, <3>2
  <2>3. ASSUME NEW q \in Procs, NEW r \in Procs, q # r, job'[q].op \in {"buy", "poll"}, job'[q].op = job'[r].op
        PROVE  job'[q].of # job'[r].of
    <3>1. \A x \in {q, r} : job'[x].op = job[x].op /\ job'[x].of = job[x].of
      BY <1>2, <2>0, <2>3, Handled
    <3> QED BY <2>3, <3>1 DEF Working
  <2> QED BY <2>1, <2>2, <2>3 DEF Working
<1>3. ASSUME NEW p \in Procs, NEW o \in Orders, Charge(p, o) PROVE Working'
  <2> DEFINE j == [op |-> "buy", of |-> o, saw |-> "SUBMITTED", answer |-> "NONE"]
  <2>1. /\ pc[p] = "idle" /\ order[o] = "NONE" /\ charge[o] = "NONE"
        /\ job' = [job EXCEPT ![p] = j] /\ pc' = [pc EXCEPT ![p] = "calling"]
        /\ order' = [order EXCEPT ![o] = "SUBMITTED"] /\ charge' = [charge EXCEPT ![o] = "CHARGED"]
        /\ UNCHANGED <<polls, provider>>
    BY <1>3 DEF Charge, SetStatus, Working
  <2>2. /\ job'[p] = j /\ pc'[p] = "calling"
        /\ \A q \in Procs \ {p} : pc'[q] = pc[q] /\ job'[q] = job[q]
    BY <2>1 DEF TypeOK
  <2>3. \A x \in Orders : /\ order'[x] = "NONE" <=> charge'[x] = "NONE"
                          /\ order[x] # "NONE" => order'[x] # "NONE"
    BY <2>1 DEF TypeOK, Working
  <2>4. order'[o] = "SUBMITTED" /\ provider[o] = "NONE"
    BY <2>1 DEF TypeOK, AnswersTrue
  <2>5. \A q \in Procs : job[q].op # "none" => job[q].of # o /\ job[q].of \in Orders
    BY <2>1, JobFacts DEF Working
  <2> QED BY <2>1, <2>2, <2>3, <2>4, <2>5 DEF Working
<1>4. ASSUME NEW p \in Procs, NEW o \in Orders, NEW op \in {"poll", "reconcile", "webhook", "resolve"},
             NEW a \in Answers, NEW s \in {"asking", "handling", "resolving"},
             Begin(p, op, o, a, s), UNCHANGED <<order, charge, polls, provider>>,
             order[o] # "NONE",
             s = "asking" => op \in {"poll", "reconcile"},
             s = "handling" => op = "webhook",
             op = "webhook" => a \in Outcomes,
             op = "poll" => polls[o] > 0 /\ \A q \in Procs : job[q].op = "poll" => job[q].of # o
      PROVE  Working'
  <2>1. /\ pc[p] = "idle" /\ pc'[p] = s
        /\ job'[p].op = op /\ job'[p].of = o /\ job'[p].answer = a
        /\ \A q \in Procs \ {p} : pc'[q] = pc[q] /\ job'[q] = job[q]
    BY <1>4 DEF Begin, TypeOK
  <2> QED BY <1>4, <2>1 DEF Working
<1>5. ASSUME NEW p \in Procs, NEW o \in Orders, BeginPoll(p, o) \/ BeginReconcile(p, o) \/ BeginResolve(p, o)
      PROVE  Working'
  <2>1. CASE BeginPoll(p, o)
    BY <1>4, <2>1 DEF BeginPoll, Answers
  <2>2. CASE BeginReconcile(p, o)
    BY <1>4, <2>2 DEF BeginReconcile, Answers
  <2>3. CASE BeginResolve(p, o)
    BY <1>4, <2>3 DEF BeginResolve, Answers
  <2> QED BY <1>5, <2>1, <2>2, <2>3
<1>6. ASSUME NEW p \in Procs, NEW e \in Events, BeginWebhook(p, e) PROVE Working'
  <2>1. e[1] \in Orders /\ e[2] \in Outcomes /\ e[2] \in Answers
    BY DEF Events, Outcomes, Answers
  <2>2. provider[e[1]] = e[2]
    BY <1>6 DEF BeginWebhook, AnswersTrue
  <2>3. order[e[1]] # "NONE"
    BY <2>1, <2>2 DEF AnswersTrue, Outcomes
  <2> QED BY <1>4, <1>6, <2>1, <2>3 DEF BeginWebhook
<1>7. ASSUME NEW o \in Orders, FinishPoll(o) \/ ProviderSettles(o) \/ Age(o) PROVE Working'
  <2>1. UNCHANGED <<order, charge, pc, job>>
    BY <1>7 DEF FinishPoll, ProviderSettles, Age
  <2>2. \A x \in Orders : provider[x] = "NONE" => provider'[x] = "NONE"
    BY <1>7 DEF FinishPoll, ProviderSettles, Age, TypeOK
  <2>3. \A q \in Procs : pc[q] # "idle" => job[q].of \in Orders
    BY JobFacts
  <2>4. ASSUME NEW q \in Procs, job[q].op = "poll" PROVE polls'[job[q].of] > 0
    <3>1. job[q].of \in Orders /\ polls[job[q].of] > 0
      BY <2>3, <2>4 DEF Working
    <3>2. CASE FinishPoll(o)
      BY <2>4, <3>1, <3>2 DEF FinishPoll, TypeOK
    <3>3. CASE ProviderSettles(o) \/ Age(o)
      BY <3>1, <3>3 DEF ProviderSettles, Age
    <3> QED BY <1>7, <3>2, <3>3
  <2> QED BY <2>1, <2>2, <2>3, <2>4 DEF Working
<1> QED BY <1>1, <1>2, <1>3, <1>5, <1>6, <1>7 DEF Next

\* Only what a handler was refunding is posted, and only if it was not before.
LEMMA PostedStep == VtuInv /\ [Next]_vars => ChargesReversed' /\ ReversalsPosted'
<1> SUFFICES ASSUME TypeOK, Working, ReversalsPosted, ChargesReversed, [Next]_vars
             PROVE  ChargesReversed' /\ ReversalsPosted'
  BY DEF VtuInv
<1> USE DEF rows, work, external
<1>1. ASSUME UNCHANGED <<charge, refunds>>,
             \A p \in Procs : pc'[p] \in {"mark", "refunded"} => pc'[p] = pc[p] /\ job'[p] = job[p]
      PROVE  ChargesReversed' /\ ReversalsPosted'
  BY <1>1 DEF ChargesReversed, ReversalsPosted
<1>2. CASE UNCHANGED vars
  BY <1>1, <1>2 DEF vars
<1>3. ASSUME NEW p \in Procs, Handle(p) \/ NoAnswer(p) \/ Crash(p) PROVE ChargesReversed' /\ ReversalsPosted'
  <2> DEFINE o == job[p].of
  <2>0. /\ job[p].of \in Orders /\ charge[job[p].of] \in {"CHARGED", "REFUNDED"}
        /\ \A q \in Procs \ {p} : pc'[q] = pc[q] /\ job'[q] = job[q]
    BY <1>3, Handled, JobFacts DEF Working, TypeOK
  <2>1. CASE UNCHANGED <<charge, refunds>> /\ pc'[p] \notin {"mark", "refunded"}
    BY <1>1, <2>0, <2>1
  <2>2. CASE Purchase(p) \/ RecordPurchase(p) \/ RejectPurchase(p) \/ EnqueuePoll(p) \/ Answer(p)
             \/ NoAnswer(p) \/ RecordPoll(p) \/ RecordReconcile(p) \/ HandleCompleted(p)
             \/ HandleRefunded(p) \/ MarkProcessed(p) \/ FailReversal(p) \/ WriteReversed(p)
             \/ ResolveDelivered(p) \/ RollBackResolve(p) \/ Crash(p)
    <3>1. UNCHANGED <<charge, refunds>>
      BY <2>2 DEF Purchase, RecordPurchase, RejectPurchase, EnqueuePoll, Answer, NoAnswer, RecordPoll,
           RecordReconcile, HandleCompleted, HandleRefunded, MarkProcessed, FailReversal, WriteReversed,
           ResolveDelivered, RollBackResolve, Crash
    <3>2. pc'[p] \notin {"mark", "refunded"}
      BY <2>2 DEF Purchase, RecordPurchase, RejectPurchase, EnqueuePoll, Answer, NoAnswer, RecordPoll,
           RecordReconcile, HandleCompleted, HandleRefunded, MarkProcessed, FailReversal, WriteReversed,
           ResolveDelivered, RollBackResolve, Crash, Goto, Return, TypeOK
    <3> QED BY <2>1, <3>1, <3>2
  <2>3. CASE FindCharge(p)
    <3>1. /\ UNCHANGED <<charge, refunds, job>>
          /\ pc' = [pc EXCEPT ![p] = IF charge[job[p].of] = "CHARGED" THEN "post" ELSE "refunded"]
      BY <2>3 DEF FindCharge, Goto
    <3>2. pc'[p] \in {"mark", "refunded"} => refunds[job[p].of] = 1
      BY <2>0, <3>1 DEF ChargesReversed, TypeOK
    <3> QED BY <2>0, <3>1, <3>2 DEF ChargesReversed, ReversalsPosted
  <2>4. CASE PostReversal(p)
    <3>1. /\ UNCHANGED <<charge, job>>
          /\ refunds[job[p].of] = 0
          /\ refunds' = [refunds EXCEPT ![job[p].of] = 1]
      BY <2>0, <2>4 DEF PostReversal, Goto, TypeOK
    <3>2. refunds'[job[p].of] = 1 /\ \A x \in Orders : refunds[x] = 1 => refunds'[x] = 1
      BY <2>0, <3>1 DEF TypeOK
    <3>3. \A q \in Procs : pc[q] # "idle" => job[q].of \in Orders
      BY JobFacts
    <3>4. ChargesReversed'
      BY <2>0, <3>1 DEF ChargesReversed, TypeOK
    <3>5. ReversalsPosted'
      BY <2>0, <3>1, <3>2, <3>3 DEF ReversalsPosted
    <3> QED BY <3>4, <3>5
  <2>5. CASE MarkRefunded(p)
    <3>1. /\ UNCHANGED <<refunds, job>> /\ pc[p] = "mark"
          /\ charge' = [charge EXCEPT ![job[p].of] = "REFUNDED"]
      BY <2>5 DEF MarkRefunded, Goto
    <3>2. refunds[job[p].of] = 1
      BY <3>1 DEF ReversalsPosted
    <3> QED BY <2>0, <3>1, <3>2 DEF ChargesReversed, ReversalsPosted, TypeOK
  <2>6. CASE ResolveReversed(p)
    <3>1. \/ UNCHANGED <<charge, refunds>>
          \/ /\ refunds[job[p].of] = 0
             /\ refunds' = [refunds EXCEPT ![job[p].of] = 1]
             /\ charge' = [charge EXCEPT ![job[p].of] = "REFUNDED"]
      BY <2>0, <2>6 DEF ResolveReversed, TypeOK
    <3>2. pc'[p] \notin {"mark", "refunded"}
      BY <2>6 DEF ResolveReversed, Return, TypeOK
    <3>3. \A x \in Orders : refunds[x] = 1 => refunds'[x] = 1
      BY <2>0, <3>1 DEF TypeOK
    <3>4. \A q \in Procs : pc[q] # "idle" => job[q].of \in Orders
      BY JobFacts
    <3>5. ChargesReversed'
      BY <2>0, <3>1 DEF ChargesReversed, TypeOK
    <3> QED BY <2>0, <3>2, <3>3, <3>4, <3>5 DEF ReversalsPosted
  <2> QED BY <1>3, <2>2, <2>3, <2>4, <2>5, <2>6 DEF Handle, Reversal
<1>4. ASSUME NEW p \in Procs, NEW o \in Orders, Charge(p, o) PROVE ChargesReversed' /\ ReversalsPosted'
  <2>1. /\ UNCHANGED refunds /\ charge' = [charge EXCEPT ![o] = "CHARGED"]
        /\ \A q \in Procs : pc'[q] \in {"mark", "refunded"} => pc'[q] = pc[q] /\ job'[q] = job[q]
    BY <1>4 DEF Charge, TypeOK
  <2> QED BY <2>1 DEF ChargesReversed, ReversalsPosted, TypeOK
<1>5. ASSUME NEW p \in Procs, NEW o \in Orders, BeginPoll(p, o) \/ BeginReconcile(p, o) \/ BeginResolve(p, o)
      PROVE  ChargesReversed' /\ ReversalsPosted'
  BY <1>1, <1>5 DEF BeginPoll, BeginReconcile, BeginResolve, Begin, TypeOK
<1>6. ASSUME NEW p \in Procs, NEW e \in Events, BeginWebhook(p, e) PROVE ChargesReversed' /\ ReversalsPosted'
  BY <1>1, <1>6 DEF BeginWebhook, Begin, TypeOK
<1>7. ASSUME NEW o \in Orders, FinishPoll(o) \/ ProviderSettles(o) \/ Age(o) PROVE ChargesReversed' /\ ReversalsPosted'
  BY <1>1, <1>7 DEF FinishPoll, ProviderSettles, Age
<1> QED BY <1>2, <1>3, <1>4, <1>5, <1>6, <1>7 DEF Next

\* A refund is never taken back, nor what became of an order at the provider.
LEMMA Lasting ==
    ASSUME VtuInv, [Next]_vars, NEW o \in Orders
    PROVE  /\ refunds[o] = 1 => refunds'[o] = 1
           /\ provider[o] \in Outcomes => provider'[o] = provider[o]
<1> USE DEF VtuInv, rows, work, external
<1>1. CASE UNCHANGED <<refunds, provider>>
  BY <1>1
<1>2. ASSUME NEW p \in Procs, Purchase(p)
      PROVE  UNCHANGED refunds /\ (provider[o] \in Outcomes => provider'[o] = provider[o])
  <2>1. job[p].of \in Orders /\ provider[job[p].of] = "NONE"
    BY <1>2, JobFacts DEF Purchase, Working
  <2>2. UNCHANGED refunds /\ \E outcome : provider' = [provider EXCEPT ![job[p].of] = outcome]
    BY <1>2 DEF Purchase
  <2> QED BY <2>1, <2>2 DEF TypeOK, Outcomes
<1>3. ASSUME NEW x \in Orders, ProviderSettles(x)
      PROVE  UNCHANGED refunds /\ (provider[o] \in Outcomes => provider'[o] = provider[o])
  BY <1>3 DEF ProviderSettles, TypeOK, Outcomes
<1>4. ASSUME NEW p \in Procs, PostReversal(p) \/ ResolveReversed(p)
      PROVE  UNCHANGED provider /\ (refunds[o] = 1 => refunds'[o] = 1)
  <2>1. UNCHANGED provider
    BY <1>4 DEF PostReversal, ResolveReversed
  <2>2. UNCHANGED refunds \/ (refunds[job[p].of] = 0 /\ \E n : refunds' = [refunds EXCEPT ![job[p].of] = n])
    BY <1>4 DEF PostReversal, ResolveReversed
  <2> QED BY <2>1, <2>2 DEF TypeOK
<1>5. ASSUME NEW p \in Procs, Handle(p) \/ NoAnswer(p) \/ Crash(p),
             ~Purchase(p), ~PostReversal(p), ~ResolveReversed(p)
      PROVE  UNCHANGED <<refunds, provider>>
  BY <1>5 DEF Handle, NoAnswer, Crash, RecordPurchase, RejectPurchase, EnqueuePoll, Answer,
       RecordPoll, RecordReconcile, HandleCompleted, HandleRefunded, MarkProcessed, Reversal, FindCharge,
       FailReversal, MarkRefunded, WriteReversed, ResolveDelivered, RollBackResolve
<1>6. CASE UNCHANGED vars
  BY <1>1, <1>6 DEF vars
<1>7. ASSUME NEW p \in Procs, NEW x \in Orders,
             Charge(p, x) \/ BeginPoll(p, x) \/ BeginReconcile(p, x) \/ BeginResolve(p, x)
      PROVE  UNCHANGED <<refunds, provider>>
  BY <1>7 DEF Charge, BeginPoll, BeginReconcile, BeginResolve
<1>8. ASSUME NEW p \in Procs, NEW e \in Events, BeginWebhook(p, e) PROVE UNCHANGED <<refunds, provider>>
  BY <1>8 DEF BeginWebhook
<1>9. ASSUME NEW x \in Orders, FinishPoll(x) \/ Age(x) PROVE UNCHANGED <<refunds, provider>>
  BY <1>9 DEF FinishPoll, Age
<1> QED BY <1>1, <1>2, <1>3, <1>4, <1>5, <1>6, <1>7, <1>8, <1>9 DEF Next

\* Who shows an order as REVERSED has seen the reversal posted, and who shows it as
\* DELIVERED was told so.
LEMMA StatusWritten ==
    ASSUME VtuInv, NEW p \in Procs, Handle(p) \/ NoAnswer(p) \/ Crash(p), NEW o \in Orders
    PROVE  \/ order'[o] = order[o]
           \/ order'[o] \in {"SUBMITTED", "AMBIGUOUS"}
           \/ order'[o] = "DELIVERED" /\ job[p].answer = "DELIVERED" /\ o = job[p].of
           \/ order'[o] = "REVERSED" /\ refunds'[o] = 1
<1> USE DEF VtuInv, rows
<1>0. job[p].of \in Orders /\ charge[job[p].of] \in {"CHARGED", "REFUNDED"}
  BY Handled, JobFacts DEF Working, TypeOK
<1>1. CASE UNCHANGED order
  BY <1>1
<1>2. CASE RecordPurchase(p)
  BY <1>2 DEF RecordPurchase, FinalStatus, SetStatus, TypeOK
<1>3. CASE RecordPoll(p)
  BY <1>3 DEF RecordPoll, SetStatus, KeepStatus, TypeOK
<1>4. CASE RecordReconcile(p)
  BY <1>4 DEF RecordReconcile, SetStatus, KeepStatus, TypeOK
<1>5. CASE HandleCompleted(p) \/ ResolveDelivered(p)
  BY <1>5 DEF HandleCompleted, ResolveDelivered, SetStatus, KeepStatus, TypeOK
<1>6. CASE FailReversal(p)
  BY <1>6 DEF FailReversal, SetStatus, KeepStatus, TypeOK
<1>7. CASE WriteReversed(p)
  <2>1. refunds'[job[p].of] = 1
    BY <1>7 DEF WriteReversed, ReversalsPosted
  <2> QED BY <1>7, <2>1 DEF WriteReversed, SetStatus, KeepStatus, TypeOK
<1>8. CASE ResolveReversed(p)
  <2>1. refunds'[job[p].of] = 1
    BY <1>0, <1>8 DEF ResolveReversed, ChargesReversed, TypeOK
  <2> QED BY <1>8, <2>1 DEF ResolveReversed, SetStatus, TypeOK
<1>9. CASE Purchase(p) \/ RejectPurchase(p) \/ EnqueuePoll(p) \/ Answer(p) \/ NoAnswer(p) \/ HandleRefunded(p)
           \/ MarkProcessed(p) \/ FindCharge(p) \/ PostReversal(p) \/ MarkRefunded(p) \/ RollBackResolve(p)
           \/ Crash(p)
  BY <1>1, <1>9 DEF Purchase, RejectPurchase, EnqueuePoll, Answer, NoAnswer, HandleRefunded, MarkProcessed,
       FindCharge, PostReversal, MarkRefunded, RollBackResolve, Crash
<1> QED BY <1>2, <1>3, <1>4, <1>5, <1>6, <1>7, <1>8, <1>9 DEF Handle, Reversal

\* No step shows an order as REVERSED without its refund, or as DELIVERED without it.
LEMMA StatusStep == VtuInv /\ [Next]_vars => ReversedIsRefunded' /\ DeliveredIsDelivered'
<1> SUFFICES ASSUME VtuInv, [Next]_vars, NEW o \in Orders
             PROVE  /\ order'[o] = "REVERSED" => refunds'[o] = 1
                    /\ order'[o] = "DELIVERED" => provider'[o] = "DELIVERED"
  BY DEF ReversedIsRefunded, DeliveredIsDelivered
<1>1. CASE order'[o] = order[o] \/ order'[o] \in {"SUBMITTED", "AMBIGUOUS"}
  BY <1>1, Lasting DEF VtuInv, ReversedIsRefunded, DeliveredIsDelivered, Outcomes
<1>2. ASSUME NEW p \in Procs, Handle(p) \/ NoAnswer(p) \/ Crash(p)
      PROVE  /\ order'[o] = "REVERSED" => refunds'[o] = 1
             /\ order'[o] = "DELIVERED" => provider'[o] = "DELIVERED"
  <2>1. CASE order'[o] = "DELIVERED" /\ job[p].answer = "DELIVERED" /\ o = job[p].of
    <3>1. provider[o] = "DELIVERED"
      BY <2>1 DEF VtuInv, AnswersTrue
    <3> QED BY <2>1, <3>1, Lasting DEF Outcomes
  <2> QED BY <1>1, <1>2, <2>1, StatusWritten
<1>3. CASE UNCHANGED vars
  BY <1>1, <1>3 DEF vars, rows
<1>4. ASSUME NEW p \in Procs, NEW x \in Orders, Charge(p, x)
      PROVE  order'[o] = order[o] \/ order'[o] \in {"SUBMITTED", "AMBIGUOUS"}
  BY <1>4 DEF Charge, SetStatus, VtuInv, TypeOK
<1>5. ASSUME NEW p \in Procs, NEW x \in Orders, BeginPoll(p, x) \/ BeginReconcile(p, x) \/ BeginResolve(p, x)
      PROVE  UNCHANGED order
  BY <1>5 DEF BeginPoll, BeginReconcile, BeginResolve, rows
<1>6. ASSUME NEW p \in Procs, NEW e \in Events, BeginWebhook(p, e) PROVE UNCHANGED order
  BY <1>6 DEF BeginWebhook, rows
<1>7. ASSUME NEW x \in Orders, FinishPoll(x) \/ ProviderSettles(x) \/ Age(x) PROVE UNCHANGED order
  BY <1>7 DEF FinishPoll, ProviderSettles, Age, rows
<1> QED BY <1>1, <1>2, <1>3, <1>4, <1>5, <1>6, <1>7 DEF Next

\* What a handler was told of a delivery stays true.
LEMMA AnswersStep == VtuInv /\ [Next]_vars => AnswersTrue'
<1> SUFFICES ASSUME VtuInv, [Next]_vars PROVE AnswersTrue'
  OBVIOUS
<1> USE DEF VtuInv, rows, work, external
<1>0. /\ \A o \in Orders : provider[o] \in Outcomes => provider'[o] = provider[o]
      /\ \A p \in Procs : pc[p] # "idle" <=> job[p] # Idle
      /\ \A p \in Procs : pc[p] # "idle" => job[p].of \in Orders
      /\ Idle.answer = "NONE"
  BY Lasting, JobFacts DEF Working, TypeOK, Jobs, Idle, Ops
<1>1. ASSUME UNCHANGED events, UNCHANGED provider, \A o \in Orders : order[o] # "NONE" => order'[o] # "NONE",
             \A p \in Procs : \/ job'[p].answer # "DELIVERED"
                              \/ job'[p] = job[p]
                              \/ provider[job'[p].of] = "DELIVERED"
      PROVE  AnswersTrue'
  BY <1>1 DEF AnswersTrue
<1>2. CASE UNCHANGED vars
  BY <1>1, <1>2 DEF vars
<1>3. ASSUME NEW p \in Procs, Purchase(p) PROVE AnswersTrue'
  <2>1. PICK outcome \in ProviderStatus :
          /\ provider' = [provider EXCEPT ![job[p].of] = outcome]
          /\ events' = events \cup (IF outcome \in Outcomes THEN {<<job[p].of, outcome>>} ELSE {})
          /\ \E a \in Reply(outcome) \cup Lost(Product[job[p].of]) : job' = [job EXCEPT ![p].answer = a]
    BY <1>3 DEF Purchase
  <2>2. PICK a \in Reply(outcome) \cup Lost(Product[job[p].of]) : job' = [job EXCEPT ![p].answer = a]
    BY <2>1
  <2>3. a = "DELIVERED" => outcome = "DELIVERED"
    BY DEF Reply, Lost
  <2>4. /\ job[p] \in [op : Ops, of : Orders, saw : OrderStatus, answer : Answers]
        /\ provider[job[p].of] = "NONE" /\ order[job[p].of] # "NONE"
    BY <1>3, JobFacts DEF Purchase, Working
  <2>5. job'[p].of = job[p].of /\ job'[p].answer = a /\ \A q \in Procs \ {p} : job'[q] = job[q]
    BY <2>2, <2>4 DEF TypeOK
  <2>6. \A e \in events' : provider'[e[1]] = e[2]
    BY <2>1, <2>4 DEF AnswersTrue, TypeOK, Events, Outcomes
  <2>7. \A q \in Procs : job'[q].answer = "DELIVERED" => provider'[job'[q].of] = "DELIVERED"
    <3>1. \A q \in Procs \ {p} : job[q].answer = "DELIVERED" => job[q].of \in Orders
      BY <1>0
    <3> QED BY <1>0, <2>1, <2>3, <2>4, <2>5, <3>1 DEF AnswersTrue, TypeOK, Outcomes
  <2>8. \A o \in Orders : order'[o] = "NONE" => provider'[o] = "NONE"
    BY <1>3, <2>1, <2>4 DEF Purchase, AnswersTrue, TypeOK
  <2> QED BY <2>6, <2>7, <2>8 DEF AnswersTrue
<1>4. ASSUME NEW p \in Procs, Answer(p) \/ NoAnswer(p) PROVE AnswersTrue'
  <2>1. job[p] \in [op : Ops, of : Orders, saw : OrderStatus, answer : Answers]
    BY <1>4, JobFacts DEF Answer, NoAnswer
  <2>2. PICK a : job' = [job EXCEPT ![p].answer = a] /\ (a = "DELIVERED" => provider[job[p].of] = "DELIVERED")
    BY <1>4 DEF Answer, NoAnswer, Snapshot, Reply
  <2>3. job'[p].of = job[p].of /\ job'[p].answer = a /\ \A q \in Procs \ {p} : job'[q] = job[q]
    BY <2>1, <2>2 DEF TypeOK
  <2> QED BY <1>1, <1>4, <2>2, <2>3 DEF Answer, NoAnswer
<1>5. ASSUME NEW p \in Procs, Handle(p) \/ Crash(p), ~Purchase(p), ~Answer(p) PROVE AnswersTrue'
  <2>1. UNCHANGED <<events, provider>>
    BY <1>5 DEF Handle, Crash, RecordPurchase, RejectPurchase, EnqueuePoll,
       RecordPoll, RecordReconcile, HandleCompleted, HandleRefunded, MarkProcessed, Reversal, FindCharge,
       PostReversal, FailReversal, MarkRefunded, WriteReversed, ResolveDelivered, ResolveReversed, RollBackResolve
  <2>2. UNCHANGED job \/ job' = [job EXCEPT ![p] = Idle]
    BY <1>5 DEF Handle, Crash, RecordPurchase, RejectPurchase, EnqueuePoll,
       RecordPoll, RecordReconcile, HandleCompleted, HandleRefunded, MarkProcessed, Reversal, FindCharge,
       PostReversal, FailReversal, MarkRefunded, WriteReversed, ResolveDelivered, ResolveReversed, RollBackResolve,
       Return, Goto
  <2> QED BY <1>0, <1>1, <1>5, <2>1, <2>2, RowsHandled DEF TypeOK
<1>6. ASSUME NEW p \in Procs, NEW o \in Orders, Charge(p, o) PROVE AnswersTrue'
  <2>1. \A q \in Procs : job'[q].answer # "DELIVERED" \/ job'[q] = job[q]
    BY <1>6 DEF Charge, TypeOK
  <2>2. \A x \in Orders : order[x] # "NONE" => order'[x] # "NONE"
    BY <1>6 DEF Charge, SetStatus, TypeOK
  <2> QED BY <1>1, <1>6, <2>1, <2>2 DEF Charge
<1>7. ASSUME NEW p \in Procs, NEW o \in Orders, BeginPoll(p, o) \/ BeginReconcile(p, o) \/ BeginResolve(p, o)
      PROVE  AnswersTrue'
  <2>1. UNCHANGED <<events, provider, order>>
    BY <1>7 DEF BeginPoll, BeginReconcile, BeginResolve
  <2>2. \A q \in Procs : \/ job'[q].answer # "DELIVERED"
                         \/ job'[q] = job[q]
                         \/ provider[job'[q].of] = "DELIVERED"
    BY <1>7 DEF BeginPoll, BeginReconcile, BeginResolve, Begin, TypeOK
  <2> QED BY <1>1, <2>1, <2>2
<1>8. ASSUME NEW p \in Procs, NEW e \in Events, BeginWebhook(p, e) PROVE AnswersTrue'
  <2>1. provider[e[1]] = e[2] /\ UNCHANGED <<events, provider, order>>
    BY <1>8 DEF BeginWebhook, AnswersTrue
  <2>2. \A q \in Procs : \/ job'[q].answer # "DELIVERED"
                         \/ job'[q] = job[q]
                         \/ provider[job'[q].of] = "DELIVERED"
    BY <1>8, <2>1 DEF BeginWebhook, Begin, TypeOK
  <2> QED BY <1>1, <2>1, <2>2
<1>9. ASSUME NEW o \in Orders, FinishPoll(o) \/ Age(o) PROVE AnswersTrue'
  BY <1>1, <1>9 DEF FinishPoll, Age
<1>10. ASSUME NEW o \in Orders, ProviderSettles(o) PROVE AnswersTrue'
  <2>1. PICK outcome \in Outcomes : /\ provider' = [provider EXCEPT ![o] = outcome]
                                    /\ events' = events \cup {<<o, outcome>>}
                                    /\ provider[o] = "PROCESSING"
                                    /\ UNCHANGED <<order, job>>
    BY <1>10 DEF ProviderSettles
  <2>2. \A e \in events' : provider'[e[1]] = e[2]
    BY <2>1 DEF AnswersTrue, TypeOK, Events, Outcomes
  <2>3. \A q \in Procs : job[q].answer = "DELIVERED" => job[q].of \in Orders
    BY <1>0
  <2> QED BY <1>0, <2>1, <2>2, <2>3 DEF AnswersTrue, TypeOK, Outcomes
<1> QED BY <1>2, <1>3, <1>4, <1>5, <1>6, <1>7, <1>8, <1>9, <1>10 DEF Next

\* Nobody begins on an order whose purchase is with the provider, or touches it.
LEMMA AloneStep == VtuInv /\ [Next]_vars => CallingAlone'
<1> SUFFICES ASSUME VtuInv, [Next]_vars PROVE CallingAlone'
  OBVIOUS
<1> USE DEF VtuInv, rows, work, external
<1>0. /\ \A q \in Procs : pc[q] # "idle" => job[q].of \in Orders /\ order[job[q].of] # "NONE"
      /\ \A q \in Procs : pc[q] = "idle" => job[q] = Idle
      /\ Idle.of \notin Orders
      /\ \A q \in Procs : pc[q] = "calling" => provider[job[q].of] = "NONE"
  BY JobFacts, VtuAssumption DEF Working, TypeOK, Jobs, Idle, Ops
<1>1. CASE UNCHANGED vars
  BY <1>1 DEF vars, CallingAlone
<1>2. ASSUME NEW p \in Procs, Handle(p) \/ NoAnswer(p) \/ Crash(p) PROVE CallingAlone'
  <2>1. \A o \in Orders : order'[o] = "NONE" => refunds'[o] = 0 /\ polls'[o] = 0
    BY <1>0, <1>2, Handled, RowsHandled DEF CallingAlone
  <2>2. ASSUME NEW q \in Procs, pc'[q] = "calling"
        PROVE  LET o == job'[q].of IN
               /\ order'[o] = "SUBMITTED" /\ o \notin stale'
               /\ refunds'[o] = 0 /\ polls'[o] = 0
               /\ \A r \in Procs \ {q} : job'[r].of # o
    <3>1. q # p /\ pc[q] = "calling" /\ job'[q] = job[q] /\ job[q].of \in Orders
      BY <1>0, <1>2, <2>2, Handled
    <3>2. \A r \in Procs \ {q} : job[r].of # job[q].of
      BY <3>1 DEF CallingAlone
    <3>3. \A r \in Procs \ {q} : job'[r].of # job'[q].of
      BY <1>0, <1>2, <3>1, <3>2, Handled
    <3>4. job[q].of # job[p].of
      BY <3>1, <3>2
    <3> QED BY <1>2, <3>1, <3>3, <3>4, RowsHandled DEF CallingAlone
  <2> QED BY <2>1, <2>2 DEF CallingAlone
<1>3. ASSUME NEW p \in Procs, NEW o \in Orders, Charge(p, o) PROVE CallingAlone'
  <2>1. /\ pc[p] = "idle" /\ order[o] = "NONE" /\ refunds[o] = 0 /\ polls[o] = 0
        /\ order' = [order EXCEPT ![o] = "SUBMITTED"] /\ stale' = stale \ {o}
        /\ UNCHANGED <<refunds, polls>>
    BY <1>3 DEF Charge, SetStatus, CallingAlone
  <2>2. /\ job'[p].of = o /\ pc'[p] = "calling"
        /\ \A q \in Procs \ {p} : pc'[q] = pc[q] /\ job'[q] = job[q]
    BY <1>3 DEF Charge, TypeOK
  <2>3. \A q \in Procs : job[q].of # o
    BY <1>0, <2>1
  <2>4. \A x \in Orders : order'[x] = IF x = o THEN "SUBMITTED" ELSE order[x]
    BY <2>1 DEF TypeOK
  <2> QED BY <1>0, <2>1, <2>2, <2>3, <2>4 DEF CallingAlone
<1>4. ASSUME NEW p \in Procs, NEW op, NEW o \in Orders, NEW a, NEW s \in {"asking", "handling", "resolving"},
             Begin(p, op, o, a, s), UNCHANGED <<order, refunds, polls, stale>>,
             o \in stale \/ polls[o] > 0 \/ order[o] = "AMBIGUOUS" \/ provider[o] # "NONE"
      PROVE  CallingAlone'
  <2>1. /\ pc[p] = "idle" /\ pc'[p] = s /\ job'[p].of = o
        /\ \A q \in Procs \ {p} : pc'[q] = pc[q] /\ job'[q] = job[q]
    BY <1>4 DEF Begin, TypeOK
  <2>2. \A q \in Procs : pc[q] = "calling" => job[q].of # o
    BY <1>0, <1>4 DEF CallingAlone
  <2> QED BY <1>4, <2>1, <2>2 DEF CallingAlone
<1>5. ASSUME NEW p \in Procs, NEW o \in Orders, BeginPoll(p, o) \/ BeginReconcile(p, o) \/ BeginResolve(p, o)
      PROVE  CallingAlone'
  BY <1>4, <1>5 DEF BeginPoll, BeginReconcile, BeginResolve
<1>6. ASSUME NEW p \in Procs, NEW e \in Events, BeginWebhook(p, e) PROVE CallingAlone'
  <2>1. e[1] \in Orders /\ provider[e[1]] # "NONE"
    BY <1>6 DEF BeginWebhook, AnswersTrue, Events, Outcomes
  <2> QED BY <1>4, <1>6, <2>1 DEF BeginWebhook
<1>7. ASSUME NEW o \in Orders, FinishPoll(o) \/ ProviderSettles(o) \/ Age(o) PROVE CallingAlone'
  <2>1. UNCHANGED <<order, refunds, pc, job>>
    BY <1>7 DEF FinishPoll, ProviderSettles, Age
  <2>2. \A x \in Orders : polls[x] = 0 => polls'[x] = 0
    BY <1>7 DEF FinishPoll, ProviderSettles, Age, TypeOK
  <2>3. \A q \in Procs : pc[q] = "calling" => job[q].of \notin stale'
    BY <1>7 DEF FinishPoll, ProviderSettles, Age, CallingAlone, Working
  <2> QED BY <1>0, <2>1, <2>2, <2>3 DEF CallingAlone
<1> QED BY <1>1, <1>2, <1>3, <1>5, <1>6, <1>7 DEF Next

\* What failed stays failed, and what the provider never heard of it will not hear of.
LEMMA FailedStays ==
    ASSUME VtuInv, [Next]_vars, NEW q \in Procs, pc[q] # "idle", pc[q] # "calling"
    PROVE  /\ provider[job[q].of] = "FAILED" => provider'[job[q].of] = "FAILED"
           /\ provider[job[q].of] = "NONE" => provider'[job[q].of] = "NONE"
<1> USE DEF VtuInv, rows, work, external
<1>0. job[q].of \in Orders
  BY JobFacts
<1>1. CASE provider[job[q].of] = "FAILED"
  BY <1>0, <1>1, Lasting DEF Outcomes
<1>2. CASE UNCHANGED provider
  BY <1>2
<1>3. ASSUME NEW p \in Procs, Purchase(p) PROVE provider'[job[q].of] = provider[job[q].of]
  <2>1. pc[p] = "calling" /\ p # q /\ job[q].of # job[p].of
    BY <1>3 DEF Purchase, CallingAlone
  <2>2. \E outcome : provider' = [provider EXCEPT ![job[p].of] = outcome]
    BY <1>3 DEF Purchase
  <2> QED BY <1>0, <2>1, <2>2 DEF TypeOK
<1>4. ASSUME NEW x \in Orders, ProviderSettles(x)
      PROVE  provider[job[q].of] = "NONE" => provider'[job[q].of] = "NONE"
  BY <1>0, <1>4 DEF ProviderSettles, TypeOK
<1>5. ASSUME NEW p \in Procs, Handle(p) \/ NoAnswer(p) \/ Crash(p), ~Purchase(p) PROVE UNCHANGED provider
  BY <1>5 DEF Handle, NoAnswer, Crash, RecordPurchase, RejectPurchase, EnqueuePoll, Answer,
       RecordPoll, RecordReconcile, HandleCompleted, HandleRefunded, MarkProcessed, Reversal, FindCharge,
       PostReversal, FailReversal, MarkRefunded, WriteReversed, ResolveDelivered, ResolveReversed, RollBackResolve
<1>6. CASE UNCHANGED vars
  BY <1>2, <1>6 DEF vars
<1>7. ASSUME NEW p \in Procs, NEW x \in Orders,
             Charge(p, x) \/ BeginPoll(p, x) \/ BeginReconcile(p, x) \/ BeginResolve(p, x)
      PROVE  UNCHANGED provider
  BY <1>7 DEF Charge, BeginPoll, BeginReconcile, BeginResolve
<1>8. ASSUME NEW p \in Procs, NEW e \in Events, BeginWebhook(p, e) PROVE UNCHANGED provider
  BY <1>8 DEF BeginWebhook
<1>9. ASSUME NEW x \in Orders, FinishPoll(x) \/ Age(x) PROVE UNCHANGED provider
  BY <1>9 DEF FinishPoll, Age
<1> QED BY <1>1, <1>2, <1>3, <1>4, <1>5, <1>6, <1>7, <1>8, <1>9 DEF Next

\* Who is about to give money back was told that the provider failed, or sells PINs.
LEMMA FailuresStep == VtuInv /\ [Next]_vars => FailuresTrue'
<1> SUFFICES ASSUME VtuInv, [Next]_vars PROVE FailuresTrue'
  OBVIOUS
<1> DEFINE Right(q) ==
      /\ pc[q] = "resolving" => job[q].op = "resolve"
      /\ job[q].op = "webhook" /\ job[q].answer = "FAILED" => provider[job[q].of] = "FAILED"
      /\ job[q].op = "resolve" /\ job[q].answer = "FAILED" => provider[job[q].of] \in {"NONE", "FAILED"}
      /\ pc[q] \in {"refund", "post", "mark", "refunded"} =>
            IF job[q].op = "buy" THEN Product[job[q].of] # "direct" ELSE job[q].answer = "FAILED"
<1> USE DEF rows, work, external
<1>0. /\ \A q \in Procs : Right(q) /\ (pc[q] = "idle" <=> job[q].op = "none")
      /\ \A q \in Procs : pc[q] \in {"calling", "idle"} => job[q].op \in {"buy", "none"}
      /\ TypeOK /\ Working
  BY DEF VtuInv, FailuresTrue, Working
<1>1. ASSUME NEW q \in Procs, pc'[q] = pc[q], job'[q] = job[q] PROVE Right(q)'
  BY <1>0, <1>1, FailedStays
<1>2. CASE UNCHANGED vars
  BY <1>0, <1>2 DEF vars, FailuresTrue
<1>3. ASSUME NEW p \in Procs, Handle(p) \/ NoAnswer(p) \/ Crash(p) PROVE FailuresTrue'
  <2>1. \A q \in Procs \ {p} : Right(q)'
    BY <1>0, <1>1, <1>3, Handled
  <2>2. pc'[p] \in {"refund", "post", "mark", "refunded"} =>
           IF job'[p].op = "buy" THEN Product[job'[p].of] # "direct" ELSE job'[p].answer = "FAILED"
    <3>1. CASE RejectPurchase(p)
      BY <3>1 DEF RejectPurchase, Rejected, Goto
    <3>2. CASE HandleRefunded(p)
      BY <1>0, <3>2 DEF HandleRefunded, Goto, Working
    <3>3. CASE FindCharge(p) \/ PostReversal(p) \/ MarkRefunded(p)
      BY <1>0, <3>3 DEF FindCharge, PostReversal, MarkRefunded, Goto
    <3>4. CASE WriteReversed(p) \/ RecordPurchase(p) \/ HandleCompleted(p)
      BY <1>0, <3>4 DEF WriteReversed, RecordPurchase, HandleCompleted, Goto, Return, TypeOK
    <3>5. CASE Purchase(p) \/ Answer(p) \/ NoAnswer(p)
      BY <1>0, <3>5 DEF Purchase, Answer, NoAnswer, TypeOK
    <3>6. CASE EnqueuePoll(p) \/ RecordPoll(p) \/ RecordReconcile(p) \/ MarkProcessed(p) \/ FailReversal(p)
               \/ ResolveDelivered(p) \/ ResolveReversed(p) \/ RollBackResolve(p) \/ Crash(p)
      BY <1>0, <3>6 DEF EnqueuePoll, RecordPoll, RecordReconcile, MarkProcessed, FailReversal, ResolveDelivered,
           ResolveReversed, RollBackResolve, Crash, Return, TypeOK
    <3> QED BY <1>3, <3>1, <3>2, <3>3, <3>4, <3>5, <3>6 DEF Handle, Reversal
  <2>3. Right(p)'
    <3>1. CASE pc'[p] = "idle" /\ job'[p] = Idle
      BY <3>1 DEF Idle
    <3>2. CASE pc'[p] # "idle"
      BY <1>0, <1>3, <2>2, <3>2, Handled, FailedStays
    <3> QED BY <1>0, <1>3, <3>1, <3>2, Handled
  <2> QED BY <2>1, <2>3 DEF FailuresTrue
<1>4. ASSUME NEW p \in Procs, NEW op, NEW o \in Orders, NEW a, NEW s \in {"asking", "handling", "resolving"},
             Begin(p, op, o, a, s), UNCHANGED provider,
             s = "resolving" => op = "resolve",
             op = "webhook" /\ a = "FAILED" => provider[o] = "FAILED",
             op = "resolve" /\ a = "FAILED" => provider[o] \in {"NONE", "FAILED"}
      PROVE  FailuresTrue'
  <2>1. /\ pc'[p] = s /\ job'[p].op = op /\ job'[p].of = o /\ job'[p].answer = a
        /\ \A q \in Procs \ {p} : pc'[q] = pc[q] /\ job'[q] = job[q]
    BY <1>0, <1>4 DEF Begin, TypeOK
  <2>2. Right(p)'
    BY <1>4, <2>1
  <2> QED BY <1>1, <2>1, <2>2 DEF FailuresTrue
<1>5. ASSUME NEW p \in Procs, NEW o \in Orders, Charge(p, o) PROVE FailuresTrue'
  <2>1. /\ pc'[p] = "calling" /\ job'[p].op = "buy"
        /\ \A q \in Procs \ {p} : pc'[q] = pc[q] /\ job'[q] = job[q]
    BY <1>0, <1>5 DEF Charge, TypeOK
  <2>2. Right(p)'
    BY <2>1
  <2> QED BY <1>1, <2>1, <2>2 DEF FailuresTrue
<1>6. ASSUME NEW p \in Procs, NEW o \in Orders, BeginPoll(p, o) \/ BeginReconcile(p, o) \/ BeginResolve(p, o)
      PROVE  FailuresTrue'
  <2>1. CASE BeginPoll(p, o) \/ BeginReconcile(p, o)
    BY <1>4, <2>1 DEF BeginPoll, BeginReconcile
  <2>2. CASE BeginResolve(p, o)
    BY <1>0, <1>4, <2>2 DEF BeginResolve, TypeOK, ProviderStatus
  <2> QED BY <1>6, <2>1, <2>2
<1>7. ASSUME NEW p \in Procs, NEW e \in Events, BeginWebhook(p, e) PROVE FailuresTrue'
  <2>1. e[1] \in Orders /\ provider[e[1]] = e[2] /\ UNCHANGED provider
    BY <1>7 DEF BeginWebhook, VtuInv, AnswersTrue, Events
  <2> QED BY <1>4, <1>7, <2>1 DEF BeginWebhook
<1>8. ASSUME NEW o \in Orders, FinishPoll(o) \/ ProviderSettles(o) \/ Age(o) PROVE FailuresTrue'
  <2>1. UNCHANGED <<pc, job>>
    BY <1>8 DEF FinishPoll, ProviderSettles, Age
  <2> QED BY <1>1, <2>1 DEF FailuresTrue
<1> QED BY <1>2, <1>3, <1>5, <1>6, <1>7, <1>8 DEF Next

\* Money is given back for what failed only, and what failed is not delivered later.
LEMMA JustifiedStep == VtuInv /\ [Next]_vars => RefundsJustified'
<1> SUFFICES ASSUME VtuInv, [Next]_vars, NEW o \in Orders, Product[o] = "direct", refunds'[o] > 0
             PROVE  provider'[o] \in {"NONE", "FAILED"}
  BY DEF RefundsJustified
<1> USE DEF rows, work, external
<1>0. TypeOK /\ Working /\ RefundsJustified /\ CallingAlone /\ FailuresTrue
  BY DEF VtuInv
<1>1. CASE UNCHANGED <<refunds, provider>>
  BY <1>0, <1>1 DEF RefundsJustified
<1>2. ASSUME NEW p \in Procs, Purchase(p) PROVE provider'[o] \in {"NONE", "FAILED"}
  <2>1. UNCHANGED refunds /\ refunds[job[p].of] = 0
    BY <1>0, <1>2 DEF Purchase, CallingAlone
  <2>2. o # job[p].of
    BY <2>1
  <2>3. \E outcome : provider' = [provider EXCEPT ![job[p].of] = outcome]
    BY <1>2 DEF Purchase
  <2> QED BY <1>0, <2>1, <2>2, <2>3 DEF RefundsJustified, TypeOK
<1>3. ASSUME NEW x \in Orders, ProviderSettles(x) PROVE provider'[o] \in {"NONE", "FAILED"}
  BY <1>0, <1>3 DEF ProviderSettles, RefundsJustified, TypeOK
<1>4. ASSUME NEW p \in Procs, PostReversal(p) \/ ResolveReversed(p) PROVE provider'[o] \in {"NONE", "FAILED"}
  <2>1. UNCHANGED provider /\ job[p].of \in Orders
    BY <1>0, <1>4, JobFacts DEF PostReversal, ResolveReversed
  <2>2. CASE o # job[p].of
    <3>1. refunds'[o] = refunds[o]
      BY <1>0, <1>4, <2>2, RowsHandled DEF Handle, Reversal
    <3> QED BY <1>0, <2>1, <3>1 DEF RefundsJustified
  <2>3. CASE o = job[p].of /\ PostReversal(p)
    <3>1. job[p].op = "webhook" /\ job[p].answer = "FAILED"
      BY <1>0, <2>3 DEF PostReversal, FailuresTrue, Working
    <3> QED BY <1>0, <2>1, <2>3, <3>1 DEF FailuresTrue
  <2>4. CASE o = job[p].of /\ ResolveReversed(p)
    <3>1. job[p].op = "resolve" /\ job[p].answer = "FAILED"
      BY <1>0, <2>4 DEF ResolveReversed, FailuresTrue
    <3> QED BY <1>0, <2>1, <2>4, <3>1 DEF FailuresTrue
  <2> QED BY <1>4, <2>2, <2>3, <2>4
<1>5. ASSUME NEW p \in Procs, Handle(p) \/ NoAnswer(p) \/ Crash(p),
             ~Purchase(p), ~PostReversal(p), ~ResolveReversed(p)
      PROVE  UNCHANGED <<refunds, provider>>
  BY <1>5 DEF Handle, NoAnswer, Crash, RecordPurchase, RejectPurchase, EnqueuePoll, Answer,
       RecordPoll, RecordReconcile, HandleCompleted, HandleRefunded, MarkProcessed, Reversal, FindCharge,
       FailReversal, MarkRefunded, WriteReversed, ResolveDelivered, RollBackResolve
<1>6. CASE UNCHANGED vars
  BY <1>1, <1>6 DEF vars
<1>7. ASSUME NEW p \in Procs, NEW x \in Orders,
             Charge(p, x) \/ BeginPoll(p, x) \/ BeginReconcile(p, x) \/ BeginResolve(p, x)
      PROVE  UNCHANGED <<refunds, provider>>
  BY <1>7 DEF Charge, BeginPoll, BeginReconcile, BeginResolve
<1>8. ASSUME NEW p \in Procs, NEW e \in Events, BeginWebhook(p, e) PROVE UNCHANGED <<refunds, provider>>
  BY <1>8 DEF BeginWebhook
<1>9. ASSUME NEW x \in Orders, FinishPoll(x) \/ Age(x) PROVE UNCHANGED <<refunds, provider>>
  BY <1>9 DEF FinishPoll, Age
<1> QED BY <1>1, <1>2, <1>3, <1>4, <1>5, <1>6, <1>7, <1>8, <1>9 DEF Next

-----------------------------------------------------------------------------
(* The theorems.                                                           *)

\* The inductive invariant holds in every reachable state.
THEOREM VtuInvariant == Spec => []VtuInv
<1>1. VtuInv /\ [Next]_vars => VtuInv'
  BY TypeStep, WorkingStep, PostedStep, StatusStep, AnswersStep, AloneStep, FailuresStep, JustifiedStep
     DEF VtuInv
<1> QED BY <1>1, VtuInit, PTL DEF Spec

\* The types of VtuOrders.
THEOREM VtuTypeCorrect == Spec => []TypeOK
  BY VtuInvariant, PTL DEF VtuInv

\* The price of an order is given back at most once, whoever reverses it and wherever
\* a reversal breaks off, and an order shown as REVERSED has it back.
THEOREM OrdersRefundedOnce == Spec => []RefundedOnce
<1>1. VtuInv => RefundedOnce
  BY DEF VtuInv, ChargesReversed, ReversedIsRefunded, RefundedOnce
<1> QED BY <1>1, VtuInvariant, PTL

\* Unless it is a printed PIN, no order is both delivered and given back, whichever of
\* a lost reply, a late outcome, a webhook and an operator came in between.
THEOREM DeliveredOrdersKept == Spec => []DeliveredIsKept
<1>1. VtuInv => DeliveredIsKept
  BY DEF VtuInv, RefundsJustified, DeliveredIsKept
<1> QED BY <1>1, VtuInvariant, PTL

\* An order shown as DELIVERED was delivered by the provider.
THEOREM DeliveredOrdersDelivered == Spec => []DeliveredIsDelivered
  BY VtuInvariant, PTL DEF VtuInv
=================================================================================
