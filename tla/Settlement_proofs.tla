--------------------------- MODULE Settlement_proofs ---------------------------
(***************************************************************************)
(* Theorems about Settlement: types, what a failed instruction takes from  *)
(* the balance and the money paid for what arrived, for any number of      *)
(* instructions and of requests.                                           *)
(***************************************************************************)
EXTENDS Settlement, TLAPS

\* The provider's words are mapped to statuses.
LEMMA MapWordType == \A w : MapWord(w) \in {"PROCESSING", "COMPLETED", "FAILED"}
  BY DEF MapWord

\* What a request keeps of an instruction it read has the type of a job.
LEMMA ReadType ==
    ASSUME TypeOK, NEW op \in {"submit", "poll", "reconcile", "webhook"}, NEW s \in Settlements, NEW a \in Answers
    PROVE  Read(op, s, a) \in Jobs
  BY DEF Read, Jobs, TypeOK

\* A request that is under way has a job, on an instruction.
LEMMA JobFacts ==
    ASSUME TypeOK, AnswersTrue, NEW p \in Procs, pc[p] # "idle"
    PROVE  /\ job[p].of \in Settlements /\ job[p].answer \in Answers
           /\ job[p] \in [op : {"submit", "poll", "reconcile", "webhook"}, of : Settlements,
                          reported : TransferStatus \cup Words \cup {"NONE"}, failed : BOOLEAN,
                          completed : BOOLEAN, answer : Answers]
<1>1. job[p].of \in Settlements /\ job[p] \in Jobs
  BY DEF TypeOK, AnswersTrue, JobTrue
<1>2. job[p] # Idle
  BY <1>1, SettlementAssumption DEF Idle
<1> QED BY <1>1, <1>2 DEF Jobs

\* An answer written into a job keeps its type.
LEMMA AnswerJob ==
    ASSUME TypeOK, AnswersTrue, NEW p \in Procs, pc[p] # "idle", NEW a \in Answers,
           job' = [job EXCEPT ![p].answer = a]
    PROVE  /\ job' \in [Procs -> Jobs]
           /\ job'[p].of = job[p].of /\ job'[p].answer = a /\ job'[p].failed = job[p].failed
           /\ \A q \in Procs \ {p} : job'[q] = job[q]
<1>1. [job[p] EXCEPT !.answer = a] \in Jobs
  BY JobFacts DEF Jobs
<1> QED BY <1>1, JobFacts DEF TypeOK

\* A request that returns is idle, and the others are left as they are.
LEMMA Returned ==
    ASSUME TypeOK, NEW p \in Procs, Return(p)
    PROVE  /\ pc' \in [Procs -> Steps] /\ job' \in [Procs -> Jobs]
           /\ pc'[p] = "idle" /\ job'[p] = Idle
           /\ \A q \in Procs \ {p} : pc'[q] = pc[q] /\ job'[q] = job[q]
  BY DEF Return, TypeOK, Steps, Jobs

\* The initial state satisfies the inductive invariant.
LEMMA SettlementInit == Init => SettlementInv
<1> SUFFICES ASSUME Init PROVE SettlementInv
  OBVIOUS
<1>1. TypeOK
  BY SettlementAssumption DEF Init, TypeOK, Status, Steps, Jobs
<1>2. AnswersTrue /\ ReferencePaid /\ HeldFirst /\ FailuresReversed
  BY DEF Init, AnswersTrue, EventsTrue, JobTrue, ReferencePaid, HeldFirst, FailuresReversed, Idle
<1>3. FailedIsReversed /\ CompletedIsPaid
  BY DEF Init, FailedIsReversed, CompletedIsPaid
<1> QED BY <1>1, <1>2, <1>3 DEF SettlementInv

-----------------------------------------------------------------------------
(* What only grows.                                                        *)

\* Entries, references and failures are never taken back, and faults are counted.
LEMMA OnlyGrows ==
    ASSUME TypeOK, [Next]_vars
    PROVE  /\ entries \subseteq entries' /\ reference \subseteq reference' /\ failed \subseteq failed'
           /\ faults' = 0 => faults = 0
<1> USE DEF instruction, external, bounds
<1>1. CASE UNCHANGED vars
  BY <1>1 DEF vars
<1>2. ASSUME NEW p \in Procs, Submission(p) PROVE entries \subseteq entries' /\ reference \subseteq reference' /\ failed \subseteq failed' /\ UNCHANGED faults
  BY <1>2 DEF Submission, Transfer, RecordReply, Accept, Reject, FailSubmit, ReverseSubmit, RecordFailure, Enter
<1>3. ASSUME NEW p \in Procs, Handle(p) PROVE entries \subseteq entries' /\ reference \subseteq reference' /\ failed \subseteq failed' /\ UNCHANGED faults
  BY <1>2, <1>3 DEF Handle, Answer, RecordPollFailed, FailPoll, RecordPoll, RecordReconcile, FindInstruction,
     HandleFailed, FailWebhook, HandleWebhook, Enter
<1>4. ASSUME NEW p \in Procs, NoAnswer(p) \/ Crash(p) PROVE UNCHANGED <<entries, reference, failed, faults>>
  BY <1>4 DEF NoAnswer, Crash
<1>5. ASSUME NEW p \in Procs, LoseReversal(p) PROVE UNCHANGED <<entries, reference, failed>> /\ faults' # 0
  BY <1>5 DEF LoseReversal, TypeOK
<1>6. ASSUME NEW p \in Procs, NEW s \in Settlements, BeginSubmit(p, s) \/ BeginPoll(p, s) \/ BeginReconcile(p, s)
      PROVE  UNCHANGED <<entries, reference, failed, faults>>
  BY <1>6 DEF BeginSubmit, BeginPoll, BeginReconcile
<1>7. ASSUME NEW p \in Procs, NEW e \in Events, ReceiveWebhook(p, e) PROVE UNCHANGED <<entries, reference, failed, faults>>
  BY <1>7 DEF ReceiveWebhook
<1>8. ASSUME NEW s \in Settlements, Create(s) \/ ProviderMoves(s)
      PROVE  entries \subseteq entries' /\ UNCHANGED <<reference, failed, faults>>
  BY <1>8 DEF Create, ProviderMoves, Enter
<1>9. ASSUME NEW p \in Procs, BreakSubmit(p) PROVE entries \subseteq entries' /\ reference \subseteq reference' /\ failed \subseteq failed' /\ UNCHANGED faults
  BY <1>9 DEF BreakSubmit, Accept, Reject, Enter
<1> QED BY <1>1, <1>3, <1>4, <1>5, <1>6, <1>7, <1>8, <1>9 DEF Next

\* What has arrived or failed at the provider stays so.
LEMMA ProviderFinal ==
    ASSUME TypeOK, [Next]_vars, NEW s \in Settlements, provider[s] \in {"COMPLETED", "FAILED"}
    PROVE  provider'[s] = provider[s]
<1> USE DEF instruction, external, bounds
<1>1. ASSUME NEW p \in Procs, Transfer(p) PROVE provider'[s] = provider[s]
  BY <1>1 DEF Transfer, TypeOK
<1>2. ASSUME NEW t \in Settlements, ProviderMoves(t) PROVE provider'[s] = provider[s]
  BY <1>2 DEF ProviderMoves, TypeOK
<1>3. ASSUME NEW p \in Procs, Handle(p), ~Transfer(p) PROVE UNCHANGED provider
  BY <1>3 DEF Handle, Submission, RecordReply, FailSubmit, ReverseSubmit, RecordFailure,
     Answer, RecordPollFailed, FailPoll, RecordPoll, RecordReconcile, FindInstruction,
     HandleFailed, FailWebhook, HandleWebhook
<1>4. ASSUME NEW p \in Procs, BreakSubmit(p) \/ NoAnswer(p) \/ LoseReversal(p) \/ Crash(p) PROVE UNCHANGED provider
  BY <1>4 DEF BreakSubmit, NoAnswer, LoseReversal, Crash
<1>5. ASSUME NEW p \in Procs, NEW t \in Settlements, BeginSubmit(p, t) \/ BeginPoll(p, t) \/ BeginReconcile(p, t) \/ Create(t)
      PROVE  UNCHANGED provider
  BY <1>5 DEF BeginSubmit, BeginPoll, BeginReconcile, Create
<1>6. ASSUME NEW p \in Procs, NEW e \in Events, ReceiveWebhook(p, e) PROVE UNCHANGED provider
  BY <1>6 DEF ReceiveWebhook
<1>7. ASSUME NEW t \in Settlements, Create(t) PROVE UNCHANGED provider
  BY <1>7 DEF Create
<1> QED BY <1>1, <1>2, <1>3, <1>4, <1>5, <1>6, <1>7 DEF Next, vars

-----------------------------------------------------------------------------
(* Types.                                                                  *)

\* The words that may become an answer or a status.
LEMMA AnswerTypes ==
    /\ TransferStatus \subseteq Answers /\ Words \subseteq Answers
    /\ {"NONE", "REJECTED", "THROWN"} \subseteq Answers
    /\ TransferStatus \cup {"NONE"} \subseteq TransferStatus \cup Words \cup {"NONE"}
    /\ {"PROCESSING", "COMPLETED", "FAILED"} \subseteq Status
    /\ {"PROCESSING", "COMPLETED", "FAILED"} \subseteq TransferStatus
  BY DEF Answers, TransferStatus, Words, Status

\* A request that begins keeps the types.
LEMMA Begun ==
    ASSUME TypeOK, NEW p \in Procs, NEW s \in Settlements, NEW step \in Steps,
           NEW op \in {"submit", "poll", "reconcile", "webhook"}, Begin(p, op, s, step)
    PROVE  pc' \in [Procs -> Steps] /\ job' \in [Procs -> Jobs]
<1>1. Read(op, s, "NONE") \in Jobs
  BY ReadType, AnswerTypes
<1> QED BY <1>1 DEF Begin, TypeOK

\* Every step of a submission keeps the types.
LEMMA SubmissionType ==
    ASSUME TypeOK, AnswersTrue, NEW p \in Procs, Submission(p) \/ BreakSubmit(p)
    PROVE  TypeOK'
<1> USE DEF instruction, external, bounds
<1>1. CASE Transfer(p)
  <2>0. pc[p] # "idle" /\ job[p].of \in Settlements
    BY <1>1, JobFacts DEF Transfer
  <2>1. PICK outcome \in TransferStatus \cup {"NONE"} :
          /\ provider' = [provider EXCEPT ![job[p].of] = outcome]
          /\ events' = events \cup Telling(job[p].of, outcome)
          /\ \E a \in Reply(outcome) \cup {"THROWN"} : job' = [job EXCEPT ![p].answer = a]
    BY <1>1 DEF Transfer
  <2>7. PICK a \in Reply(outcome) \cup {"THROWN"} : job' = [job EXCEPT ![p].answer = a]
    BY <2>1
  <2>2. a \in Answers
    BY AnswerTypes DEF Reply, TransferStatus
  <2>3. job' \in [Procs -> Jobs]
    BY <2>0, <2>7, <2>2, AnswerJob
  <2>4. Telling(job[p].of, outcome) \subseteq Events
    BY <2>0 DEF Telling, Events
  <2>5. pc' \in [Procs -> Steps]
    BY <1>1 DEF Transfer, TypeOK, Steps
  <2>6. provider' \in [Settlements -> TransferStatus \cup {"NONE"}]
    BY <2>1, <2>0 DEF TypeOK
  <2> QED BY <1>1, <2>1, <2>3, <2>4, <2>5, <2>6 DEF Transfer, TypeOK
<1>2. CASE RecordReply(p) \/ BreakSubmit(p)
  <2>0. /\ job[p].of \in Settlements
        /\ Accept(p) \/ Reject(p) \/ UNCHANGED <<status, reference, reported, failed, entries>>
    BY <1>2, JobFacts DEF RecordReply, BreakSubmit
  <2>1. entries' \subseteq Settlements \X EntryKinds
    BY <2>0 DEF Accept, Reject, Enter, TypeOK, EntryKinds
  <2>2. reported' \in [Settlements -> TransferStatus \cup Words \cup {"NONE"}]
    BY <2>0, "FAILED" \in TransferStatus DEF Accept, Reject, TypeOK, TransferStatus
  <2>3. /\ status' \in [Settlements -> Status] /\ reference' \subseteq Settlements
        /\ failed' \subseteq Settlements
    BY <2>0 DEF Accept, Reject, TypeOK, Status
  <2>4. CASE RecordReply(p)
    BY <2>1, <2>2, <2>3, <2>4, Returned DEF RecordReply, TypeOK
  <2>5. CASE BreakSubmit(p)
    BY <2>1, <2>2, <2>3, <2>5, SettlementAssumption DEF BreakSubmit, Goto, TypeOK, Steps
  <2> QED BY <2>4, <2>5, <1>2
<1>3. CASE FailSubmit(p)
  BY <1>3 DEF FailSubmit, Goto, TypeOK, Steps
<1>4. CASE ReverseSubmit(p)
  BY <1>4, JobFacts DEF ReverseSubmit, Goto, TypeOK, Steps, EntryKinds
<1>5. CASE RecordFailure(p)
  BY <1>5, JobFacts, Returned DEF RecordFailure, TypeOK, Status
<1> QED BY <1>1, <1>2, <1>3, <1>4, <1>5 DEF Submission

\* Every step of a poll and of a reconciliation keeps the types.
LEMMA PollType ==
    ASSUME TypeOK, AnswersTrue, NEW p \in Procs,
           Answer(p) \/ NoAnswer(p) \/ RecordPollFailed(p) \/ FailPoll(p) \/ RecordPoll(p) \/ RecordReconcile(p)
    PROVE  TypeOK'
<1> USE DEF instruction, external, bounds
<1>1. job[p].of \in Settlements /\ pc[p] # "idle"
  BY JobFacts DEF Answer, NoAnswer, RecordPollFailed, FailPoll, RecordPoll, RecordReconcile
<1>2. pc[p] = "answered" => job[p].answer \in TransferStatus \cup {"NONE"}
  BY DEF AnswersTrue, JobTrue
<1>3. CASE Answer(p)
  <2>1. provider[job[p].of] \in Answers
    BY <1>1, AnswerTypes DEF TypeOK
  <2>2. job' \in [Procs -> Jobs]
    BY <1>1, <1>3, <2>1, AnswerJob DEF Answer
  <2> QED BY <1>3, <2>2 DEF Answer, TypeOK, Steps
<1>4. CASE NoAnswer(p) \/ FailPoll(p)
  BY <1>4, Returned DEF NoAnswer, FailPoll, TypeOK
<1>5. CASE RecordPollFailed(p)
  BY <1>5, <1>1, Returned DEF RecordPollFailed, Enter, TypeOK, Status, TransferStatus, EntryKinds
<1>6. CASE RecordPoll(p)
  <2>1. reported' \in [Settlements -> TransferStatus \cup Words \cup {"NONE"}]
    BY <1>1, <1>2, <1>6 DEF RecordPoll, TypeOK
  <2>2. status' \in [Settlements -> Status] /\ completed' \subseteq Settlements
    BY <1>1, <1>2, <1>6 DEF RecordPoll, TypeOK, Status
  <2> QED BY <1>6, <2>1, <2>2, Returned DEF RecordPoll, TypeOK
<1>7. CASE RecordReconcile(p)
  <2>1. status' \in [Settlements -> Status]
    BY <1>1, <1>7 DEF RecordReconcile, TypeOK, Status
  <2> QED BY <1>1, <1>7, <2>1, Returned DEF RecordReconcile, TypeOK
<1> QED BY <1>3, <1>4, <1>5, <1>6, <1>7

\* Every step of a webhook keeps the types.
LEMMA WebhookType ==
    ASSUME TypeOK, AnswersTrue, NEW p \in Procs,
           FindInstruction(p) \/ HandleFailed(p) \/ FailWebhook(p) \/ HandleWebhook(p)
    PROVE  TypeOK'
<1> USE DEF instruction, external, bounds
<1>1. job[p].of \in Settlements /\ pc[p] # "idle" /\ job[p].answer \in Answers
  BY JobFacts DEF FindInstruction, HandleFailed, FailWebhook, HandleWebhook
<1>2. pc[p] = "handling" => job[p].answer \in Words
  BY DEF AnswersTrue, JobTrue
<1>3. CASE FindInstruction(p)
  <2>1. Read("webhook", job[p].of, job[p].answer) \in Jobs
    BY <1>1, ReadType
  <2> QED BY <1>3, <2>1, Returned DEF FindInstruction, TypeOK, Steps
<1>4. CASE FailWebhook(p)
  BY <1>4, Returned DEF FailWebhook, TypeOK
<1>5. CASE HandleFailed(p)
  <2>1. entries' \subseteq Settlements \X EntryKinds /\ failed' \subseteq Settlements
    BY <1>1, <1>5 DEF HandleFailed, Enter, TypeOK, EntryKinds
  <2>2. status' \in [Settlements -> Status]
    BY <1>1, <1>5 DEF HandleFailed, TypeOK, Status
  <2>3. reported' \in [Settlements -> TransferStatus \cup Words \cup {"NONE"}]
    BY <1>1, <1>2, <1>5 DEF HandleFailed, TypeOK
  <2> QED BY <1>5, <2>1, <2>2, <2>3, Returned DEF HandleFailed, TypeOK
<1>6. CASE HandleWebhook(p)
  <2>1. status' \in [Settlements -> Status] /\ completed' \subseteq Settlements
    BY <1>1, <1>6, MapWordType, AnswerTypes DEF HandleWebhook, TypeOK
  <2>2. reported' \in [Settlements -> TransferStatus \cup Words \cup {"NONE"}]
    BY <1>1, <1>2, <1>6 DEF HandleWebhook, TypeOK
  <2> QED BY <1>6, <2>1, <2>2, Returned DEF HandleWebhook, TypeOK
<1> QED BY <1>3, <1>4, <1>5, <1>6

\* Every step keeps the types.
LEMMA TypeStep == TypeOK /\ AnswersTrue /\ [Next]_vars => TypeOK'
<1> SUFFICES ASSUME TypeOK, AnswersTrue, [Next]_vars PROVE TypeOK'
  OBVIOUS
<1> USE DEF instruction, external, bounds
<1>1. CASE UNCHANGED vars
  BY <1>1 DEF vars, TypeOK
<1>2. ASSUME NEW p \in Procs, Handle(p) \/ NoAnswer(p) \/ BreakSubmit(p) PROVE TypeOK'
  BY <1>2, SubmissionType, PollType, WebhookType DEF Handle
<1>3. ASSUME NEW p \in Procs, LoseReversal(p) PROVE TypeOK'
  BY <1>3, SettlementAssumption DEF LoseReversal, Goto, TypeOK, Steps
<1>4. ASSUME NEW p \in Procs, Crash(p) PROVE TypeOK'
  BY <1>4, Returned, SettlementAssumption DEF Crash, TypeOK
<1>5. ASSUME NEW p \in Procs, NEW s \in Settlements, BeginSubmit(p, s) \/ BeginPoll(p, s) \/ BeginReconcile(p, s)
      PROVE  TypeOK'
  <2>1. pc' \in [Procs -> Steps] /\ job' \in [Procs -> Jobs]
    BY <1>5, Begun DEF BeginSubmit, BeginPoll, BeginReconcile, Steps
  <2> QED BY <1>5, <2>1 DEF BeginSubmit, BeginPoll, BeginReconcile, TypeOK
<1>6. ASSUME NEW p \in Procs, NEW e \in Events, ReceiveWebhook(p, e) PROVE TypeOK'
  <2>1. [Idle EXCEPT !.op = "webhook", !.of = e[1], !.answer = e[2]] \in Jobs
    BY AnswerTypes DEF Jobs, Idle, Events, TransferStatus
  <2> QED BY <1>6, <2>1 DEF ReceiveWebhook, TypeOK, Steps
<1>7. ASSUME NEW s \in Settlements, Create(s) PROVE TypeOK'
  BY <1>7 DEF Create, Enter, TypeOK, Status, EntryKinds
<1>8. ASSUME NEW s \in Settlements, ProviderMoves(s) PROVE TypeOK'
  BY <1>8 DEF ProviderMoves, Telling, Events, TypeOK
<1> QED BY <1>1, <1>2, <1>3, <1>4, <1>5, <1>6, <1>7, <1>8 DEF Next

-----------------------------------------------------------------------------
(* What the requests learned.                                              *)

\* A request that does nothing, or returns, still knows only what is so.
LEMMA KeptJob ==
    ASSUME TypeOK, AnswersTrue, [Next]_vars, NEW p \in Procs,
           \/ pc'[p] = pc[p] /\ job'[p] = job[p]
           \/ pc'[p] = "idle" /\ job'[p] = Idle
    PROVE  JobTrue(p)'
<1>1. CASE pc'[p] = "idle" /\ job'[p] = Idle
  BY <1>1 DEF JobTrue, Idle
<1>2. CASE pc'[p] = pc[p] /\ job'[p] = job[p] /\ job[p] # Idle
  <2>1. JobTrue(p)
    BY DEF AnswersTrue
  <2>2. job[p].of \in Settlements
    BY <1>2, <2>1 DEF JobTrue
  <2>3. provider[job[p].of] \in {"COMPLETED", "FAILED"} => provider'[job[p].of] = provider[job[p].of]
    BY <2>2, ProviderFinal
  <2>4. reference \subseteq reference'
    BY OnlyGrows
  <2> QED BY <1>2, <2>1, <2>2, <2>3, <2>4 DEF JobTrue
<1>3. CASE pc'[p] = pc[p] /\ job'[p] = job[p] /\ job[p] = Idle
  <2>1. JobTrue(p)
    BY DEF AnswersTrue
  <2>2. pc[p] = "idle"
    BY <1>3, <2>1, SettlementAssumption DEF JobTrue, Idle
  <2> QED BY <1>3, <2>2 DEF JobTrue, Idle
<1> QED BY <1>1, <1>2, <1>3

\* A request that goes on without an answer still knows only what is so.
LEMMA GoneOn ==
    ASSUME TypeOK, AnswersTrue, [Next]_vars, NEW p \in Procs, pc[p] # "idle",
           NEW step \in {"failing", "recording"}, Goto(p, step)
    PROVE  \A q \in Procs : JobTrue(q)'
<1>1. ASSUME NEW q \in Procs \ {p} PROVE JobTrue(q)'
  BY <1>1, KeptJob DEF Goto, TypeOK
<1>2. JobTrue(p)'
  <2>1. JobTrue(p)
    BY DEF AnswersTrue
  <2>2. job[p].of \in Settlements
    BY <2>1 DEF JobTrue
  <2>3. provider[job[p].of] \in {"COMPLETED", "FAILED"} => provider'[job[p].of] = provider[job[p].of]
    BY <2>2, ProviderFinal
  <2>4. pc'[p] = step /\ job'[p] = job[p]
    BY DEF Goto, TypeOK
  <2> QED BY <2>1, <2>2, <2>3, <2>4 DEF JobTrue
<1> QED BY <1>1, <1>2

\* A request that returns leaves all of them knowing only what is so.
LEMMA GoneBack ==
    ASSUME TypeOK, AnswersTrue, [Next]_vars, NEW p \in Procs, Return(p)
    PROVE  \A q \in Procs : JobTrue(q)'
<1> TAKE q \in Procs
<1>1. CASE q = p
  BY <1>1, Returned, KeptJob
<1>2. CASE q # p
  BY <1>2, Returned, KeptJob
<1> QED BY <1>1, <1>2

\* What each step makes the requests learn is so.
LEMMA JobsStep == TypeOK /\ AnswersTrue /\ [Next]_vars => \A p \in Procs : JobTrue(p)'
<1> SUFFICES ASSUME TypeOK, AnswersTrue, [Next]_vars PROVE \A p \in Procs : JobTrue(p)'
  OBVIOUS
<1> USE DEF instruction, external, bounds
<1>0. ASSUME UNCHANGED <<pc, job>> PROVE \A p \in Procs : JobTrue(p)'
  BY <1>0, KeptJob
<1>1. CASE UNCHANGED vars
  BY <1>0, <1>1 DEF vars
<1>2. ASSUME NEW p \in Procs, Transfer(p) PROVE \A q \in Procs : JobTrue(q)'
  <2>0. pc[p] = "calling" /\ job[p].of \in Settlements
    BY <1>2, JobFacts DEF Transfer
  <2>1. PICK outcome \in TransferStatus \cup {"NONE"} :
          /\ provider' = [provider EXCEPT ![job[p].of] = outcome]
          /\ \E a \in Reply(outcome) \cup {"THROWN"} : job' = [job EXCEPT ![p].answer = a]
    BY <1>2 DEF Transfer
  <2>2. PICK a \in Reply(outcome) \cup {"THROWN"} : job' = [job EXCEPT ![p].answer = a]
    BY <2>1
  <2>3. a \in Answers
    BY AnswerTypes DEF Reply, TransferStatus
  <2>4. /\ job'[p].of = job[p].of /\ job'[p].answer = a
        /\ \A q \in Procs \ {p} : job'[q] = job[q]
    BY <2>0, <2>2, <2>3, AnswerJob
  <2>5. pc'[p] = "replied" /\ \A q \in Procs \ {p} : pc'[q] = pc[q]
    BY <1>2 DEF Transfer, TypeOK
  <2>6. provider'[job[p].of] = outcome
    BY <2>0, <2>1 DEF TypeOK
  <2>7. /\ a \in {"COMPLETED", "successful"} => outcome = "COMPLETED"
        /\ a \in {"FAILED", "REJECTED", "failed"} => outcome = "FAILED"
    BY DEF Reply, TransferStatus
  <2>8. JobTrue(p)'
    BY <2>0, <2>4, <2>5, <2>6, <2>7 DEF JobTrue
  <2> QED BY <2>4, <2>5, <2>8, KeptJob
<1>3. ASSUME NEW p \in Procs, Answer(p) PROVE \A q \in Procs : JobTrue(q)'
  <2>0. pc[p] = "asking" /\ job[p].of \in Settlements /\ job[p].of \in reference
    BY <1>3, JobFacts DEF Answer, AnswersTrue, JobTrue
  <2>1. provider[job[p].of] \in TransferStatus \cup {"NONE"} /\ provider[job[p].of] \in Answers
    BY <2>0, AnswerTypes DEF TypeOK
  <2>2. /\ job'[p].of = job[p].of /\ job'[p].answer = provider[job[p].of]
        /\ \A q \in Procs \ {p} : job'[q] = job[q]
    BY <1>3, <2>0, <2>1, AnswerJob DEF Answer
  <2>3. pc'[p] = "answered" /\ \A q \in Procs \ {p} : pc'[q] = pc[q]
    BY <1>3 DEF Answer, TypeOK
  <2>4. JobTrue(p)'
    BY <1>3, <2>0, <2>1, <2>2, <2>3 DEF JobTrue, Answer, TransferStatus
  <2> QED BY <2>2, <2>3, <2>4, KeptJob
<1>4. ASSUME NEW p \in Procs, FindInstruction(p) PROVE \A q \in Procs : JobTrue(q)'
  <2>1. CASE job[p].of \in reference
    <3>0. pc[p] = "finding" /\ job[p].of \in Settlements /\ JobTrue(p)
      BY <1>4, JobFacts DEF FindInstruction, AnswersTrue
    <3>1. /\ pc'[p] = "handling" /\ job'[p] = Read("webhook", job[p].of, job[p].answer)
          /\ \A q \in Procs \ {p} : pc'[q] = pc[q] /\ job'[q] = job[q]
      BY <1>4, <2>1 DEF FindInstruction, TypeOK
    <3>2. JobTrue(p)'
      BY <1>4, <2>1, <3>0, <3>1 DEF FindInstruction, JobTrue, Read
    <3> QED BY <3>1, <3>2, KeptJob
  <2>2. CASE job[p].of \notin reference
    BY <1>4, <2>2, GoneBack DEF FindInstruction
  <2> QED BY <2>1, <2>2
<1>5. ASSUME NEW p \in Procs, FailSubmit(p) \/ ReverseSubmit(p) \/ BreakSubmit(p) \/ LoseReversal(p)
      PROVE  \A q \in Procs : JobTrue(q)'
  BY <1>5, GoneOn DEF FailSubmit, ReverseSubmit, BreakSubmit, LoseReversal
<1>6. ASSUME NEW p \in Procs, \/ RecordReply(p) \/ RecordFailure(p) \/ RecordPollFailed(p) \/ FailPoll(p) \/ RecordPoll(p)
                              \/ RecordReconcile(p) \/ HandleFailed(p) \/ FailWebhook(p) \/ HandleWebhook(p)
                              \/ NoAnswer(p) \/ Crash(p)
      PROVE  \A q \in Procs : JobTrue(q)'
  <2>1. Return(p)
    BY <1>6 DEF RecordReply, RecordFailure, RecordPollFailed, FailPoll, RecordPoll, RecordReconcile,
       HandleFailed, FailWebhook, HandleWebhook, NoAnswer, Crash
  <2> QED BY <2>1, GoneBack
<1>7. ASSUME NEW p \in Procs, NEW s \in Settlements, BeginSubmit(p, s) \/ BeginPoll(p, s) \/ BeginReconcile(p, s)
      PROVE  \A q \in Procs : JobTrue(q)'
  <2>1. /\ pc'[p] \in {"calling", "asking"} /\ job'[p].of = s /\ job'[p].answer = "NONE"
        /\ \A q \in Procs \ {p} : pc'[q] = pc[q] /\ job'[q] = job[q]
    BY <1>7 DEF BeginSubmit, BeginPoll, BeginReconcile, Begin, Read, TypeOK
  <2>2. pc'[p] = "asking" => s \in reference'
    BY <1>7 DEF BeginSubmit, BeginPoll, BeginReconcile, Begin, TypeOK
  <2>3. JobTrue(p)'
    BY <1>7, <2>1, <2>2 DEF JobTrue
  <2> QED BY <2>1, <2>3, KeptJob
<1>8. ASSUME NEW p \in Procs, NEW e \in Events, ReceiveWebhook(p, e) PROVE \A q \in Procs : JobTrue(q)'
  <2>1. /\ pc'[p] = "finding" /\ job'[p].of = e[1] /\ job'[p].answer = e[2]
        /\ \A q \in Procs \ {p} : pc'[q] = pc[q] /\ job'[q] = job[q]
    BY <1>8 DEF ReceiveWebhook, TypeOK, Idle
  <2>2. /\ e[2] = "successful" => provider'[e[1]] = "COMPLETED"
        /\ e[2] = "failed" => provider'[e[1]] = "FAILED"
    BY <1>8 DEF ReceiveWebhook, AnswersTrue, EventsTrue, MapWord
  <2>3. e[1] \in Settlements /\ e[2] \in Words
    BY DEF Events
  <2>4. JobTrue(p)'
    BY <2>1, <2>2, <2>3 DEF JobTrue, Words
  <2> QED BY <2>1, <2>4, KeptJob
<1>9. ASSUME NEW s \in Settlements, Create(s) \/ ProviderMoves(s) PROVE \A q \in Procs : JobTrue(q)'
  BY <1>0, <1>9 DEF Create, ProviderMoves
<1> QED BY <1>1, <1>2, <1>3, <1>4, <1>5, <1>6, <1>7, <1>8, <1>9 DEF Next, Handle, Submission

\* What the provider told of an end stays so, and it tells only what is so.
LEMMA EventsStep == TypeOK /\ AnswersTrue /\ [Next]_vars => EventsTrue'
<1> SUFFICES ASSUME TypeOK, AnswersTrue, [Next]_vars,
                    NEW e \in events', MapWord(e[2]) \in {"COMPLETED", "FAILED"}
             PROVE  provider'[e[1]] = MapWord(e[2])
  BY DEF EventsTrue
<1> USE DEF instruction, external, bounds
<1>1. CASE e \in events
  <2>1. e[1] \in Settlements /\ provider[e[1]] = MapWord(e[2])
    BY <1>1 DEF TypeOK, Events, AnswersTrue, EventsTrue
  <2> QED BY <2>1, ProviderFinal
<1>2. ASSUME NEW p \in Procs, Transfer(p), e \notin events PROVE provider'[e[1]] = MapWord(e[2])
  <2>1. PICK outcome \in TransferStatus \cup {"NONE"} :
          /\ provider' = [provider EXCEPT ![job[p].of] = outcome]
          /\ events' = events \cup Telling(job[p].of, outcome)
    BY <1>2 DEF Transfer
  <2>2. job[p].of \in Settlements
    BY <1>2, JobFacts DEF Transfer
  <2>3. e \in Telling(job[p].of, outcome)
    BY <1>2, <2>1
  <2> QED BY <2>1, <2>2, <2>3 DEF Telling, TypeOK
<1>3. ASSUME NEW s \in Settlements, ProviderMoves(s), e \notin events PROVE provider'[e[1]] = MapWord(e[2])
  <2>1. PICK outcome \in TransferStatus \ {"PENDING"} :
          /\ provider' = [provider EXCEPT ![s] = outcome]
          /\ events' = events \cup Telling(s, outcome)
    BY <1>3 DEF ProviderMoves
  <2>2. e \in Telling(s, outcome)
    BY <1>3, <2>1
  <2> QED BY <2>1, <2>2 DEF Telling, TypeOK
<1>4. ASSUME NEW p \in Procs, Handle(p) \/ BreakSubmit(p) \/ LoseReversal(p) \/ NoAnswer(p) \/ Crash(p), ~Transfer(p)
      PROVE  UNCHANGED events
  BY <1>4 DEF Handle, Submission, BreakSubmit, LoseReversal, NoAnswer, Crash, RecordReply, FailSubmit, ReverseSubmit,
     RecordFailure, Answer, RecordPollFailed, FailPoll, RecordPoll, RecordReconcile, FindInstruction,
     HandleFailed, FailWebhook, HandleWebhook
<1>5. ASSUME NEW p \in Procs, NEW s \in Settlements, BeginSubmit(p, s) \/ BeginPoll(p, s) \/ BeginReconcile(p, s) \/ Create(s)
      PROVE  UNCHANGED events
  BY <1>5 DEF BeginSubmit, BeginPoll, BeginReconcile, Create
<1>6. ASSUME NEW p \in Procs, NEW f \in Events, ReceiveWebhook(p, f) PROVE UNCHANGED events
  BY <1>6 DEF ReceiveWebhook
<1>7. ASSUME NEW s \in Settlements, Create(s) PROVE UNCHANGED events
  BY <1>7 DEF Create
<1> QED BY <1>1, <1>2, <1>3, <1>4, <1>5, <1>6, <1>7 DEF Next, vars

-----------------------------------------------------------------------------
(* The money.                                                              *)

\* A reference becomes known with the debit, or with the news of a failure.
LEMMA PaidStep == TypeOK /\ AnswersTrue /\ ReferencePaid /\ [Next]_vars => ReferencePaid'
<1> SUFFICES ASSUME TypeOK, AnswersTrue, ReferencePaid, [Next]_vars, NEW s \in reference'
             PROVE  <<s, "debit">> \in entries' \/ provider'[s] = "FAILED"
  BY DEF ReferencePaid, Entered
<1> USE DEF instruction, external, bounds
<1>1. CASE s \in reference
  <2>1. s \in Settlements
    BY <1>1 DEF TypeOK
  <2> QED BY <1>1, <2>1, OnlyGrows, ProviderFinal DEF ReferencePaid, Entered
<1>2. ASSUME NEW p \in Procs, RecordReply(p) \/ BreakSubmit(p), s \notin reference
      PROVE  <<s, "debit">> \in entries' \/ provider'[s] = "FAILED"
  <2>1. Accept(p) \/ Reject(p)
    BY <1>2 DEF RecordReply, BreakSubmit
  <2>2. s = job[p].of /\ UNCHANGED provider
    BY <1>2, <2>1 DEF Accept, Reject, RecordReply, BreakSubmit
  <2> QED BY <2>1, <2>2 DEF Accept, Reject, Enter, AnswersTrue, JobTrue
<1>3. ASSUME NEW p \in Procs, Handle(p) \/ LoseReversal(p) \/ NoAnswer(p) \/ Crash(p), ~RecordReply(p)
      PROVE  UNCHANGED reference
  BY <1>3 DEF Handle, Submission, LoseReversal, NoAnswer, Crash, Transfer, FailSubmit, ReverseSubmit,
     RecordFailure, Answer, RecordPollFailed, FailPoll, RecordPoll, RecordReconcile, FindInstruction,
     HandleFailed, FailWebhook, HandleWebhook
<1>4. ASSUME NEW p \in Procs, NEW t \in Settlements, BeginSubmit(p, t) \/ BeginPoll(p, t) \/ BeginReconcile(p, t)
      PROVE  UNCHANGED reference
  BY <1>4 DEF BeginSubmit, BeginPoll, BeginReconcile
<1>5. ASSUME NEW p \in Procs, NEW f \in Events, ReceiveWebhook(p, f) PROVE UNCHANGED reference
  BY <1>5 DEF ReceiveWebhook
<1>6. ASSUME NEW t \in Settlements, Create(t) \/ ProviderMoves(t) PROVE UNCHANGED reference
  BY <1>6 DEF Create, ProviderMoves
<1> QED BY <1>1, <1>2, <1>3, <1>4, <1>5, <1>6 DEF Next, vars

\* The HOLD is posted with the row, and everything else happens to rows.
LEMMA HeldStep == TypeOK /\ AnswersTrue /\ HeldFirst /\ [Next]_vars => HeldFirst'
<1> SUFFICES ASSUME TypeOK, AnswersTrue, HeldFirst, [Next]_vars
             PROVE  HeldFirst'
  OBVIOUS
<1> USE DEF instruction, external, bounds
<1> DEFINE Held(s) == <<s, "hold">> \in entries
<1>a. /\ \A s \in Settlements : status[s] # "NONE" \/ s \in reference \/ provider[s] # "NONE" => Held(s)
      /\ \A e \in events : Held(e[1])
      /\ \A p \in Procs : pc[p] # "idle" => Held(job[p].of)
  BY DEF HeldFirst, Entered
<1>b. entries \subseteq entries'
  BY OnlyGrows
<1> DEFINE Rows == \A s \in Settlements :
                      status'[s] # "NONE" \/ s \in reference' \/ provider'[s] # "NONE" => <<s, "hold">> \in entries'
           Told == \A e \in events' : <<e[1], "hold">> \in entries'
           Working == \A p \in Procs : pc'[p] # "idle" => <<job'[p].of, "hold">> \in entries'
<1>c. ASSUME Rows, Told, Working PROVE HeldFirst'
  BY <1>c DEF HeldFirst, Entered
\* A step of one request on its instruction.
<1>d. ASSUME NEW p \in Procs, pc[p] # "idle", NEW v, status' = status \/ status' = [status EXCEPT ![job[p].of] = v],
             reference' \subseteq reference \cup {job[p].of}, UNCHANGED external
      PROVE  Rows /\ Told
  BY <1>a, <1>b, <1>d DEF TypeOK
<1>e. ASSUME NEW p \in Procs, pc[p] # "idle", job'[p].of = job[p].of \/ pc'[p] = "idle",
             \A q \in Procs \ {p} : pc'[q] = pc[q] /\ job'[q] = job[q]
      PROVE  Working
  BY <1>a, <1>b, <1>e
<1>1. CASE UNCHANGED vars
  BY <1>1, <1>a, <1>c DEF vars
<1>2. ASSUME NEW p \in Procs, Transfer(p) PROVE HeldFirst'
  <2>0. pc[p] = "calling" /\ Held(job[p].of) /\ job[p].of \in Settlements
    BY <1>2, <1>a, JobFacts DEF Transfer
  <2>1. PICK outcome \in TransferStatus \cup {"NONE"} :
            /\ provider' = [provider EXCEPT ![job[p].of] = outcome]
            /\ events' = events \cup Telling(job[p].of, outcome)
            /\ \E a \in Reply(outcome) \cup {"THROWN"} : job' = [job EXCEPT ![p].answer = a]
    BY <1>2 DEF Transfer
  <2>2. PICK a \in Reply(outcome) \cup {"THROWN"} : job' = [job EXCEPT ![p].answer = a]
    BY <2>1
  <2>3. a \in Answers
    BY AnswerTypes DEF Reply, TransferStatus
  <2>4. job'[p].of = job[p].of /\ \A q \in Procs \ {p} : job'[q] = job[q]
    BY <2>0, <2>2, <2>3, AnswerJob
  <2>5. \A q \in Procs \ {p} : pc'[q] = pc[q]
    BY <1>2 DEF Transfer, TypeOK
  <2>6. Rows /\ Told
    BY <1>2, <1>a, <1>b, <2>0, <2>1 DEF Transfer, Telling, TypeOK
  <2> QED BY <1>c, <1>e, <2>0, <2>4, <2>5, <2>6
<1>3. ASSUME NEW p \in Procs, Answer(p) PROVE HeldFirst'
  <2>0. pc[p] = "asking" /\ job[p].of \in Settlements
    BY <1>3, JobFacts DEF Answer
  <2>1. provider[job[p].of] \in Answers
    BY <2>0, AnswerTypes DEF TypeOK
  <2>2. job'[p].of = job[p].of /\ \A q \in Procs \ {p} : job'[q] = job[q]
    BY <1>3, <2>0, <2>1, AnswerJob DEF Answer
  <2>3. (\A q \in Procs \ {p} : pc'[q] = pc[q]) /\ UNCHANGED <<status, reference, external>>
    BY <1>3 DEF Answer, TypeOK
  <2> QED BY <1>c, <1>d, <1>e, <2>0, <2>2, <2>3
<1>4. ASSUME NEW p \in Procs, FindInstruction(p) PROVE HeldFirst'
  <2>0. pc[p] # "idle" /\ UNCHANGED <<status, reference, external>>
    BY <1>4 DEF FindInstruction
  <2>1. /\ job'[p].of = job[p].of \/ pc'[p] = "idle"
        /\ \A q \in Procs \ {p} : pc'[q] = pc[q] /\ job'[q] = job[q]
    BY <1>4 DEF FindInstruction, Read, Return, TypeOK
  <2> QED BY <1>c, <1>d, <1>e, <2>0, <2>1
<1>5. ASSUME NEW p \in Procs, FailSubmit(p) \/ ReverseSubmit(p) \/ LoseReversal(p) \/ BreakSubmit(p) PROVE HeldFirst'
  <2>0. pc[p] # "idle" /\ UNCHANGED <<job, external>> /\ \A q \in Procs \ {p} : pc'[q] = pc[q]
    BY <1>5 DEF FailSubmit, ReverseSubmit, LoseReversal, BreakSubmit, Goto, TypeOK
  <2>1. /\ \E v \in Status : status' = status \/ status' = [status EXCEPT ![job[p].of] = v]
        /\ reference' \subseteq reference \cup {job[p].of}
    BY <1>5 DEF FailSubmit, ReverseSubmit, LoseReversal, BreakSubmit, Accept, Reject, Status
  <2> QED BY <1>c, <1>d, <1>e, <2>0, <2>1
<1>6. ASSUME NEW p \in Procs,
             \/ RecordReply(p) \/ RecordFailure(p) \/ RecordPollFailed(p) \/ FailPoll(p) \/ RecordPoll(p)
             \/ RecordReconcile(p) \/ HandleFailed(p) \/ FailWebhook(p) \/ HandleWebhook(p)
             \/ NoAnswer(p) \/ Crash(p)
      PROVE  HeldFirst'
  <2>0. pc[p] # "idle" /\ Return(p) /\ UNCHANGED external
    BY <1>6 DEF RecordReply, RecordFailure, RecordPollFailed, FailPoll, RecordPoll, RecordReconcile,
       HandleFailed, FailWebhook, HandleWebhook, NoAnswer, Crash
  <2>1. /\ \E v : status' = status \/ status' = [status EXCEPT ![job[p].of] = v]
        /\ reference' \subseteq reference \cup {job[p].of}
    BY <1>6 DEF RecordReply, Accept, Reject, RecordFailure, RecordPollFailed, FailPoll, RecordPoll,
       RecordReconcile, HandleFailed, FailWebhook, HandleWebhook, NoAnswer, Crash
  <2> QED BY <1>c, <1>d, <1>e, <2>0, <2>1, Returned
<1>7. ASSUME NEW p \in Procs, NEW s \in Settlements, BeginSubmit(p, s) \/ BeginPoll(p, s) \/ BeginReconcile(p, s)
      PROVE  HeldFirst'
  <2>1. /\ job'[p].of = s /\ \A q \in Procs \ {p} : pc'[q] = pc[q] /\ job'[q] = job[q]
        /\ UNCHANGED <<status, reference, external>>
    BY <1>7 DEF BeginSubmit, BeginPoll, BeginReconcile, Begin, Read, TypeOK
  <2>2. Held(s)
    BY <1>7, <1>a DEF BeginSubmit, BeginPoll, BeginReconcile
  <2> QED BY <1>a, <1>b, <1>c, <2>1, <2>2
<1>8. ASSUME NEW p \in Procs, NEW e \in Events, ReceiveWebhook(p, e) PROVE HeldFirst'
  <2>1. /\ job'[p].of = e[1] /\ \A q \in Procs \ {p} : pc'[q] = pc[q] /\ job'[q] = job[q]
        /\ e \in events /\ UNCHANGED <<status, reference, external>>
    BY <1>8 DEF ReceiveWebhook, Idle, TypeOK
  <2> QED BY <1>a, <1>b, <1>c, <2>1
<1>9. ASSUME NEW s \in Settlements, Create(s) \/ ProviderMoves(s) PROVE HeldFirst'
  <2>1. UNCHANGED <<reference, pc, job>> /\ Working
    BY <1>9, <1>a, <1>b DEF Create, ProviderMoves
  <2>2. CASE Create(s)
    BY <1>a, <1>b, <1>c, <2>1, <2>2 DEF Create, Enter, TypeOK
  <2>3. CASE ProviderMoves(s)
    <3>1. Held(s) /\ UNCHANGED <<status, entries>>
      BY <1>a, <2>3 DEF ProviderMoves
    <3>2. Rows /\ Told
      BY <1>a, <2>1, <2>3, <3>1 DEF ProviderMoves, Telling, TypeOK
    <3> QED BY <1>c, <2>1, <3>2
  <2> QED BY <1>9, <2>2, <2>3
<1> QED BY <1>1, <1>2, <1>3, <1>4, <1>5, <1>6, <1>7, <1>8, <1>9 DEF Next, Handle, Submission

\* The reversal that comes before failedAt, and before the news of it is read, is kept.
LEMMA ReversedStep == TypeOK /\ AnswersTrue /\ FailuresReversed /\ [Next]_vars => FailuresReversed'
<1> SUFFICES ASSUME TypeOK, AnswersTrue, FailuresReversed, [Next]_vars, faults' = 0
             PROVE  /\ \A s \in failed' : <<s, "reversal">> \in entries'
                    /\ \A q \in Procs : pc'[q] = "recording" \/ job'[q].failed => <<job'[q].of, "reversal">> \in entries'
  BY DEF FailuresReversed, Entered
<1> DEFINE FailedGiven == \A s \in failed' : <<s, "reversal">> \in entries'
           JobsGiven == \A q \in Procs : pc'[q] = "recording" \/ job'[q].failed => <<job'[q].of, "reversal">> \in entries'
<1> USE DEF instruction, external, bounds
<1>a. /\ \A s \in failed : <<s, "reversal">> \in entries'
      /\ \A p \in Procs : pc[p] = "recording" \/ job[p].failed => <<job[p].of, "reversal">> \in entries'
  BY OnlyGrows DEF FailuresReversed, Entered
<1>b. ~Idle.failed
  BY DEF Idle
\* A step that leaves failedAt alone and makes one request return.
<1>c. ASSUME NEW p \in Procs, Return(p)
      PROVE  JobsGiven
  <2> TAKE q \in Procs
  <2>1. CASE q = p
    BY <1>b, <1>c, <2>1, Returned
  <2>2. CASE q # p
    BY <1>a, <1>c, <2>2, Returned
  <2> QED BY <2>1, <2>2
<1>1. CASE UNCHANGED vars
  BY <1>1, <1>a DEF vars
<1>2. ASSUME NEW p \in Procs, Transfer(p) PROVE UNCHANGED failed /\ JobsGiven
  <2>0. pc[p] = "calling"
    BY <1>2 DEF Transfer
  <2>1. PICK outcome \in TransferStatus \cup {"NONE"} : \E a \in Reply(outcome) \cup {"THROWN"} : job' = [job EXCEPT ![p].answer = a]
    BY <1>2 DEF Transfer
  <2>2. PICK a \in Reply(outcome) \cup {"THROWN"} : job' = [job EXCEPT ![p].answer = a]
    BY <2>1
  <2>3. a \in Answers
    BY AnswerTypes DEF Reply, TransferStatus
  <2>4. /\ job'[p].of = job[p].of /\ job'[p].failed = job[p].failed
        /\ \A q \in Procs \ {p} : job'[q] = job[q]
    BY <2>0, <2>2, <2>3, AnswerJob
  <2>5. pc'[p] = "replied" /\ \A q \in Procs \ {p} : pc'[q] = pc[q]
    BY <1>2 DEF Transfer, TypeOK
  <2> QED BY <1>2, <1>a, <2>4, <2>5 DEF Transfer
<1>3. ASSUME NEW p \in Procs, Answer(p) PROVE UNCHANGED failed /\ JobsGiven
  <2>0. pc[p] = "asking" /\ job[p].of \in Settlements
    BY <1>3, JobFacts DEF Answer
  <2>1. provider[job[p].of] \in Answers
    BY <2>0, AnswerTypes DEF TypeOK
  <2>2. /\ job'[p].of = job[p].of /\ job'[p].failed = job[p].failed
        /\ \A q \in Procs \ {p} : job'[q] = job[q]
    BY <1>3, <2>0, <2>1, AnswerJob DEF Answer
  <2>3. pc'[p] = "answered" /\ \A q \in Procs \ {p} : pc'[q] = pc[q]
    BY <1>3 DEF Answer, TypeOK
  <2> QED BY <1>3, <1>a, <2>2, <2>3 DEF Answer
<1>4. ASSUME NEW p \in Procs, FindInstruction(p) PROVE UNCHANGED failed /\ JobsGiven
  <2>1. CASE job[p].of \in reference
    <3>1. /\ pc'[p] = "handling" /\ job'[p].of = job[p].of /\ job'[p].failed = (job[p].of \in failed)
          /\ \A q \in Procs \ {p} : pc'[q] = pc[q] /\ job'[q] = job[q]
      BY <1>4, <2>1 DEF FindInstruction, Read, TypeOK
    <3> QED BY <1>4, <1>a, <3>1 DEF FindInstruction
  <2>2. CASE job[p].of \notin reference
    BY <1>4, <1>c, <2>2 DEF FindInstruction
  <2> QED BY <2>1, <2>2
<1>5. ASSUME NEW p \in Procs, FailSubmit(p) \/ ReverseSubmit(p) \/ BreakSubmit(p)
      PROVE  FailedGiven /\ JobsGiven
  <2>1. CASE FailSubmit(p)
    BY <1>a, <2>1 DEF FailSubmit, Goto, TypeOK
  <2>2. CASE ReverseSubmit(p)
    BY <1>a, <2>2 DEF ReverseSubmit, Goto, TypeOK
  <2>3. CASE BreakSubmit(p)
    <3>1. UNCHANGED job /\ \A q \in Procs : pc'[q] = "recording" => pc[q] = "recording"
      BY <2>3 DEF BreakSubmit, Goto, TypeOK
    <3>2. FailedGiven
      BY <1>a, <2>3 DEF BreakSubmit, Accept, Reject, Enter
    <3> QED BY <1>a, <3>1, <3>2
  <2> QED BY <1>5, <2>1, <2>2, <2>3
<1>6. ASSUME NEW p \in Procs, RecordReply(p) \/ RecordFailure(p) \/ RecordPollFailed(p) \/ HandleFailed(p)
      PROVE  FailedGiven /\ JobsGiven
  <2>1. Return(p)
    BY <1>6 DEF RecordReply, RecordFailure, RecordPollFailed, HandleFailed
  <2>2. failed' = failed \/ (failed' = failed \cup {job[p].of} /\ <<job[p].of, "reversal">> \in entries')
    BY <1>6, <1>a DEF RecordReply, Accept, Reject, RecordFailure, RecordPollFailed, HandleFailed, Enter
  <2> QED BY <1>a, <1>c, <2>1, <2>2
<1>7. ASSUME NEW p \in Procs, \/ FailPoll(p) \/ RecordPoll(p) \/ RecordReconcile(p) \/ FailWebhook(p) \/ HandleWebhook(p)
                              \/ NoAnswer(p) \/ Crash(p)
      PROVE  UNCHANGED failed /\ JobsGiven
  <2>1. Return(p) /\ UNCHANGED failed
    BY <1>7 DEF FailPoll, RecordPoll, RecordReconcile, FailWebhook, HandleWebhook, NoAnswer, Crash
  <2> QED BY <1>c, <2>1
<1>8. ASSUME NEW p \in Procs, LoseReversal(p) PROVE FALSE
  BY <1>8, OnlyGrows DEF LoseReversal, TypeOK
<1>9. ASSUME NEW p \in Procs, NEW s \in Settlements, BeginSubmit(p, s) \/ BeginPoll(p, s) \/ BeginReconcile(p, s)
      PROVE  UNCHANGED failed /\ JobsGiven
  <2>1. /\ pc'[p] \in {"calling", "asking"} /\ job'[p].of = s /\ job'[p].failed = (s \in failed)
        /\ \A q \in Procs \ {p} : pc'[q] = pc[q] /\ job'[q] = job[q]
    BY <1>9 DEF BeginSubmit, BeginPoll, BeginReconcile, Begin, Read, TypeOK
  <2> QED BY <1>9, <1>a, <2>1 DEF BeginSubmit, BeginPoll, BeginReconcile
<1>10. ASSUME NEW p \in Procs, NEW e \in Events, ReceiveWebhook(p, e)
       PROVE  UNCHANGED failed /\ JobsGiven
  <2>1. /\ pc'[p] = "finding" /\ job'[p].failed = FALSE
        /\ \A q \in Procs \ {p} : pc'[q] = pc[q] /\ job'[q] = job[q]
    BY <1>10 DEF ReceiveWebhook, TypeOK, Idle
  <2> QED BY <1>10, <1>a, <2>1 DEF ReceiveWebhook
<1>11. ASSUME NEW s \in Settlements, Create(s) \/ ProviderMoves(s) PROVE UNCHANGED <<failed, pc, job>>
  BY <1>11 DEF Create, ProviderMoves
<1> QED BY <1>a, <1>1, <1>2, <1>3, <1>4, <1>5, <1>6, <1>7, <1>8, <1>9, <1>10, <1>11 DEF Next, Handle, Submission

\* Whoever shows an instruction as FAILED posted its REVERSAL, or read that it was posted.
LEMMA FailedStep ==
    TypeOK /\ AnswersTrue /\ FailuresReversed /\ FailedIsReversed /\ [Next]_vars => FailedIsReversed'
<1> SUFFICES ASSUME TypeOK, AnswersTrue, FailuresReversed, FailedIsReversed, [Next]_vars, faults' = 0,
                    NEW s \in Settlements, status'[s] = "FAILED", <<s, "reversal">> \notin entries'
             PROVE  FALSE
  BY DEF FailedIsReversed, Entered
<1> USE DEF instruction, external, bounds
<1>1. /\ status[s] # "FAILED" /\ <<s, "reversal">> \notin entries
      /\ \A p \in Procs : pc[p] = "recording" \/ job[p].failed => job[p].of # s
  BY OnlyGrows DEF FailedIsReversed, FailuresReversed, Entered
<1>2. ASSUME NEW p \in Procs, RecordReply(p) \/ BreakSubmit(p) PROVE FALSE
  BY <1>1, <1>2 DEF RecordReply, BreakSubmit, Accept, Reject, Enter, TypeOK
<1>3. ASSUME NEW p \in Procs, RecordFailure(p) PROVE FALSE
  BY <1>1, <1>3 DEF RecordFailure, TypeOK
<1>4. ASSUME NEW p \in Procs, RecordPollFailed(p) \/ HandleFailed(p) PROVE FALSE
  BY <1>1, <1>4 DEF RecordPollFailed, HandleFailed, Enter, TypeOK
<1>5. ASSUME NEW p \in Procs, RecordPoll(p) \/ RecordReconcile(p) PROVE FALSE
  BY <1>1, <1>5 DEF RecordPoll, RecordReconcile, TypeOK
<1>6. ASSUME NEW p \in Procs, HandleWebhook(p) PROVE FALSE
  BY <1>1, <1>6 DEF HandleWebhook, NewsOfFailure, TypeOK
<1>7. ASSUME NEW p \in Procs, \/ Transfer(p) \/ FailSubmit(p) \/ ReverseSubmit(p) \/ Answer(p) \/ FailPoll(p)
                              \/ FindInstruction(p) \/ FailWebhook(p) \/ LoseReversal(p) \/ NoAnswer(p) \/ Crash(p)
      PROVE  FALSE
  BY <1>1, <1>7 DEF Transfer, FailSubmit, ReverseSubmit, Answer, FailPoll, FindInstruction, FailWebhook,
     LoseReversal, NoAnswer, Crash
<1>8. ASSUME NEW p \in Procs, NEW t \in Settlements, BeginSubmit(p, t) \/ BeginPoll(p, t) \/ BeginReconcile(p, t)
      PROVE  FALSE
  BY <1>1, <1>8 DEF BeginSubmit, BeginPoll, BeginReconcile
<1>9. ASSUME NEW p \in Procs, NEW e \in Events, ReceiveWebhook(p, e) PROVE FALSE
  BY <1>1, <1>9 DEF ReceiveWebhook
<1>10. ASSUME NEW t \in Settlements, Create(t) \/ ProviderMoves(t) PROVE FALSE
  BY <1>1, <1>10 DEF Create, ProviderMoves, TypeOK
<1> QED BY <1>1, <1>2, <1>3, <1>4, <1>5, <1>6, <1>7, <1>8, <1>9, <1>10 DEF Next, Handle, Submission, vars

\* Whoever shows an instruction as COMPLETED learned it of a transfer that was paid for.
LEMMA CompletedStep ==
    TypeOK /\ AnswersTrue /\ ReferencePaid /\ CompletedIsPaid /\ [Next]_vars => CompletedIsPaid'
<1> SUFFICES ASSUME TypeOK, AnswersTrue, ReferencePaid, CompletedIsPaid, [Next]_vars,
                    NEW s \in Settlements, status'[s] = "COMPLETED"
             PROVE  provider'[s] = "COMPLETED" /\ <<s, "debit">> \in entries'
  BY DEF CompletedIsPaid, Entered
<1> USE DEF instruction, external, bounds
<1>1. CASE status[s] = "COMPLETED"
  BY <1>1, OnlyGrows, ProviderFinal DEF CompletedIsPaid, Entered
<1>2. ASSUME NEW p \in Procs, RecordPoll(p) \/ HandleWebhook(p), status[s] # "COMPLETED"
      PROVE  provider'[s] = "COMPLETED" /\ <<s, "debit">> \in entries'
  <2>1. s = job[p].of /\ UNCHANGED <<provider, entries>>
    BY <1>2 DEF RecordPoll, HandleWebhook, TypeOK
  <2>2. job[p].answer \in {"COMPLETED", "successful"}
    BY <1>2, <2>1 DEF RecordPoll, HandleWebhook, MapWord, TypeOK
  <2>3. provider[s] = "COMPLETED" /\ s \in reference
    BY <1>2, <2>1, <2>2 DEF RecordPoll, HandleWebhook, AnswersTrue, JobTrue
  <2> QED BY <2>1, <2>3 DEF ReferencePaid, Entered
<1>3. ASSUME NEW p \in Procs, \/ RecordReply(p) \/ BreakSubmit(p) \/ RecordFailure(p) \/ RecordPollFailed(p)
                              \/ HandleFailed(p) \/ RecordReconcile(p)
      PROVE  status[s] = "COMPLETED"
  BY <1>3 DEF RecordReply, BreakSubmit, Accept, Reject, RecordFailure, RecordPollFailed, HandleFailed,
     RecordReconcile, TypeOK
<1>4. ASSUME NEW p \in Procs, \/ Transfer(p) \/ FailSubmit(p) \/ ReverseSubmit(p) \/ Answer(p) \/ FailPoll(p)
                              \/ FindInstruction(p) \/ FailWebhook(p) \/ LoseReversal(p) \/ NoAnswer(p) \/ Crash(p)
      PROVE  status[s] = "COMPLETED"
  BY <1>4 DEF Transfer, FailSubmit, ReverseSubmit, Answer, FailPoll, FindInstruction, FailWebhook,
     LoseReversal, NoAnswer, Crash
<1>5. ASSUME NEW p \in Procs, NEW t \in Settlements, BeginSubmit(p, t) \/ BeginPoll(p, t) \/ BeginReconcile(p, t)
      PROVE  status[s] = "COMPLETED"
  BY <1>5 DEF BeginSubmit, BeginPoll, BeginReconcile
<1>6. ASSUME NEW p \in Procs, NEW e \in Events, ReceiveWebhook(p, e) PROVE status[s] = "COMPLETED"
  BY <1>6 DEF ReceiveWebhook
<1>7. ASSUME NEW t \in Settlements, Create(t) \/ ProviderMoves(t) PROVE status[s] = "COMPLETED"
  BY <1>7 DEF Create, ProviderMoves, TypeOK
<1>8. CASE UNCHANGED vars
  BY <1>1, <1>8 DEF vars
<1> QED BY <1>1, <1>2, <1>3, <1>4, <1>5, <1>6, <1>7, <1>8 DEF Next, Handle, Submission

-----------------------------------------------------------------------------
(* The theorems.                                                           *)

\* The inductive invariant: what the requests learned is so, the HOLD comes first, a
\* known transfer was paid for, and a REVERSAL was posted before anybody was told of a
\* failure.
THEOREM SettlementInvariant == Spec => []SettlementInv
<1>1. SettlementInv /\ [Next]_vars => SettlementInv'
  BY TypeStep, JobsStep, EventsStep, PaidStep, HeldStep, ReversedStep, FailedStep, CompletedStep
     DEF SettlementInv, AnswersTrue
<1> QED BY <1>1, SettlementInit, PTL DEF Spec

\* Every variable keeps its type, whatever the requests and the provider do.
THEOREM SettlementTypeCorrect == Spec => []TypeOK
<1>1. SettlementInv => TypeOK
  BY DEF SettlementInv
<1> QED BY <1>1, SettlementInvariant, PTL

\* Of a FAILED instruction the balance keeps nothing if its transfer was never accepted,
\* and one amount if it was, unless the reversal was lost: the HOLD, the DEBIT and the
\* REVERSAL are each posted once, and only the last of them gives anything back.
THEOREM FailedSettlementsGiveBack == Spec => []FailedGivesBack
<1>1. SettlementInv => FailedGivesBack
  <2> SUFFICES ASSUME SettlementInv, faults = 0, NEW s \in Settlements, status[s] = "FAILED"
               PROVE  Taken(s) = Amounts(s, "debit")
    BY DEF FailedGivesBack
  <2>1. Entered(s, "hold") /\ Entered(s, "reversal")
    BY DEF SettlementInv, HeldFirst, FailedIsReversed
  <2> QED BY <2>1 DEF Taken, Amounts
<1> QED BY <1>1, SettlementInvariant, PTL

\* An instruction shown as COMPLETED has arrived, and was paid for.
THEOREM CompletedSettlementsPaid == Spec => []CompletedIsPaid
<1>1. SettlementInv => CompletedIsPaid
  BY DEF SettlementInv
<1> QED BY <1>1, SettlementInvariant, PTL
=============================================================================
