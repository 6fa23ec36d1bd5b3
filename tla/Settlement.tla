------------------------------ MODULE Settlement ------------------------------
(***************************************************************************)
(* Foreign-exchange settlements: an instruction holds the source amount in *)
(* the workspace's wallet, is submitted to the provider as a transfer, and *)
(* learns what became of it from polls, webhooks and reconciliations.      *)
(*                                                                         *)
(* Every process of Procs is one request or one turn of the scheduled      *)
(* reconciliation.  It reads the instruction, talks to the provider and    *)
(* writes, without a lock: each transaction and each call made outside one *)
(* is a step.  All ledger entries of an instruction carry its amount, and  *)
(* one key per kind.  The provider is external: it takes a transfer once   *)
(* per idempotency key and sends its webhooks any number of times.         *)
(***************************************************************************)
EXTENDS Integers

CONSTANTS
    Procs,          \* requests that can run at once
    Settlements,    \* settlement instructions that may be created
    Exact,          \* those whose amount the provider reports as the instruction has it
    MaxCrashes,     \* bound on the number of crashes and failed database calls
    MaxFaults,      \* bound on the number of reversals that could not be written
    None            \* the instruction of an idle process

ASSUME SettlementAssumption ==
    /\ Exact \subseteq Settlements
    /\ MaxCrashes \in Nat
    /\ MaxFaults \in Nat
    /\ None \notin Settlements

VARIABLES
    status,     \* SettlementInstruction.status
    reference,  \* instructions whose providerReference is known
    reported,   \* SettlementInstruction.providerStatus, in whoever's words wrote it
    failed,     \* instructions whose failedAt is set
    completed,  \* instructions whose completedAt is set
    recon,      \* SettlementInstruction.reconciliationState
    entries,    \* LedgerEntry rows
    received,   \* SettlementWebhookEvent rows
    provider,   \* the transfer at the provider (external)
    events,     \* webhooks the provider sends, any number of times
    pc,         \* where each request is
    job,        \* what each request works on, and its local reads
    crashes,    \* how many crashes and failed calls there have been
    faults      \* how many reversals could not be written

instruction == <<status, reference, reported, failed, completed, recon>>
external == <<provider, events>>
bounds == <<crashes, faults>>
vars == <<instruction, entries, received, external, pc, job, bounds>>

Status == {"NONE", "PENDING", "SUBMITTED", "PROCESSING", "COMPLETED", "FAILED", "REQUIRES_REVIEW"}
TransferStatus == {"PENDING", "PROCESSING", "COMPLETED", "FAILED"}
EntryKinds == {"hold", "debit", "reversal"}

\* The provider's own words in its webhooks.
Words == {"processing", "successful", "failed"}

MapWord(w) ==
    IF w = "successful" THEN "COMPLETED" ELSE IF w = "failed" THEN "FAILED" ELSE "PROCESSING"

Events == Settlements \X Words

\* REJECTED is FAILED with an errorReason, THROWN no answer at all.
Answers == TransferStatus \cup {"NONE", "REJECTED", "THROWN"} \cup Words

Steps == {"idle", "calling", "replied", "failing", "recording", "asking", "answered", "finding", "handling"}

Idle == [op |-> "none", of |-> None, reported |-> "NONE", failed |-> FALSE, completed |-> FALSE, answer |-> "NONE"]

Jobs ==
    [op : {"submit", "poll", "reconcile", "webhook"}, of : Settlements,
     reported : TransferStatus \cup Words \cup {"NONE"}, failed : BOOLEAN, completed : BOOLEAN,
     answer : Answers] \cup {Idle}

TypeOK ==
    /\ status \in [Settlements -> Status]
    /\ reference \subseteq Settlements
    /\ reported \in [Settlements -> TransferStatus \cup Words \cup {"NONE"}]
    /\ failed \subseteq Settlements
    /\ completed \subseteq Settlements
    /\ recon \in [Settlements -> {"UNRECONCILED", "SYNCED", "DIVERGED"}]
    /\ entries \subseteq Settlements \X EntryKinds
    /\ received \subseteq Events
    /\ provider \in [Settlements -> TransferStatus \cup {"NONE"}]
    /\ events \subseteq Events
    /\ pc \in [Procs -> Steps]
    /\ job \in [Procs -> Jobs]
    /\ crashes \in 0..MaxCrashes
    /\ faults \in 0..MaxFaults

Init ==
    /\ status = [s \in Settlements |-> "NONE"]
    /\ reference = {}
    /\ reported = [s \in Settlements |-> "NONE"]
    /\ failed = {}
    /\ completed = {}
    /\ recon = [s \in Settlements |-> "UNRECONCILED"]
    /\ entries = {}
    /\ received = {}
    /\ provider = [s \in Settlements |-> "NONE"]
    /\ events = {}
    /\ pc = [p \in Procs |-> "idle"]
    /\ job = [p \in Procs |-> Idle]
    /\ crashes = 0
    /\ faults = 0

-----------------------------------------------------------------------------
(* Steps every request is made of.                                         *)

\* What a request keeps of the instruction it read.
Read(op, s, answer) ==
    [op |-> op, of |-> s, reported |-> reported[s], failed |-> s \in failed,
     completed |-> s \in completed, answer |-> answer]

Begin(p, op, s, step) ==
    /\ pc[p] = "idle"
    /\ pc' = [pc EXCEPT ![p] = step]
    /\ job' = [job EXCEPT ![p] = Read(op, s, "NONE")]

Goto(p, step) == pc' = [pc EXCEPT ![p] = step] /\ UNCHANGED job

Return(p) ==
    /\ pc' = [pc EXCEPT ![p] = "idle"]
    /\ job' = [job EXCEPT ![p] = Idle]

Entered(s, kind) == <<s, kind>> \in entries

\* ledgerEntry.create: the transaction around it fails if the key is taken.
Enter(s, kind) == ~Entered(s, kind) /\ entries' = entries \cup {<<s, kind>>}

-----------------------------------------------------------------------------
(* Creation and submission.                                                *)

\* One transaction; the balance of the wallet is not looked at.
Create(s) ==
    /\ status[s] = "NONE"
    /\ status' = [status EXCEPT ![s] = "PENDING"]
    /\ Enter(s, "hold")
    /\ UNCHANGED <<reference, reported, failed, completed, recon, received, external, pc, job, bounds>>

BeginSubmit(p, s) ==
    /\ status[s] = "PENDING"
    /\ Begin(p, "submit", s, "calling")
    /\ UNCHANGED <<instruction, entries, received, external, bounds>>

\* A transfer that failed at once may come with a reason or without.
Reply(outcome) ==
    CASE outcome = "NONE" -> {}
      [] outcome = "FAILED" -> {"FAILED", "REJECTED"}
      [] OTHER -> {outcome}

\* The webhooks that tell of a transfer's status.
Telling(s, outcome) == {<<s, w>> : w \in {v \in Words : MapWord(v) = outcome}}

\* createTransfer: the provider makes one transfer per idempotency key, or none
\* at all, and its reply may be lost.
Transfer(p) ==
    LET s == job[p].of IN
    /\ pc[p] = "calling"
    /\ \E outcome \in TransferStatus \cup {"NONE"} :
        /\ provider[s] # "NONE" => outcome = provider[s]
        /\ provider' = [provider EXCEPT ![s] = outcome]
        /\ events' = events \cup Telling(s, outcome)
        /\ \E a \in Reply(outcome) \cup {"THROWN"} : job' = [job EXCEPT ![p].answer = a]
    /\ pc' = [pc EXCEPT ![p] = "replied"]
    /\ UNCHANGED <<instruction, entries, received, bounds>>

\* The transaction of a transfer that was accepted.
Accept(p) ==
    LET s == job[p].of IN
    /\ job[p].answer \in TransferStatus
    /\ Enter(s, "debit")
    /\ status' = [status EXCEPT ![s] = "SUBMITTED"]
    /\ reference' = reference \cup {s}
    /\ reported' = [reported EXCEPT ![s] = job[p].answer]
    /\ UNCHANGED failed

\* Mutant: a rejected transfer keeps its hold.
RejectHeld(p) ==
    LET s == job[p].of IN
    /\ job[p].answer = "REJECTED"
    /\ status' = [status EXCEPT ![s] = "FAILED"]
    /\ reference' = reference \cup {s}
    /\ reported' = [reported EXCEPT ![s] = "FAILED"]
    /\ failed' = failed \cup {s}
    /\ UNCHANGED entries

\* The transaction of a transfer that was rejected with a reason.
Reject(p) ==
    LET s == job[p].of IN
    /\ job[p].answer = "REJECTED"
    /\ Enter(s, "reversal")
    /\ status' = [status EXCEPT ![s] = "FAILED"]
    /\ reference' = reference \cup {s}
    /\ reported' = [reported EXCEPT ![s] = "FAILED"]
    /\ failed' = failed \cup {s}

RecordReply(p) ==
    /\ pc[p] = "replied"
    /\ Accept(p) \/ Reject(p)
    /\ Return(p)
    /\ UNCHANGED <<completed, recon, received, external, bounds>>

\* A database call fails: the one of the transaction, or the one that follows it.
BreakSubmit(p) ==
    /\ pc[p] = "replied"
    /\ crashes < MaxCrashes
    /\ crashes' = crashes + 1
    /\ \/ Accept(p)
       \/ Reject(p)
       \/ UNCHANGED <<status, reference, reported, failed, entries>>
    /\ Goto(p, "failing")
    /\ UNCHANGED <<completed, recon, received, external, faults>>

\* No answer, or the key of the entry to post is taken and the transaction fails.
FailSubmit(p) ==
    LET s == job[p].of IN
    /\ pc[p] = "replied"
    /\ \/ job[p].answer = "THROWN"
       \/ job[p].answer \in TransferStatus /\ Entered(s, "debit")
       \/ job[p].answer = "REJECTED" /\ Entered(s, "reversal")
    /\ Goto(p, "failing")
    /\ UNCHANGED <<instruction, entries, received, external, bounds>>

\* The best-effort reversal: an entry already there is left as it is.
ReverseSubmit(p) ==
    /\ pc[p] = "failing"
    /\ entries' = entries \cup {<<job[p].of, "reversal">>}
    /\ Goto(p, "recording")
    /\ UNCHANGED <<instruction, received, external, bounds>>

\* The database refuses the reversal; only a line in the log tells of it.
LoseReversal(p) ==
    /\ pc[p] = "failing"
    /\ faults < MaxFaults
    /\ faults' = faults + 1
    /\ Goto(p, "recording")
    /\ UNCHANGED <<instruction, entries, received, external, crashes>>

RecordFailure(p) ==
    LET s == job[p].of IN
    /\ pc[p] = "recording"
    /\ status' = [status EXCEPT ![s] = "FAILED"]
    /\ failed' = failed \cup {s}
    /\ Return(p)
    /\ UNCHANGED <<reference, reported, completed, recon, entries, received, external, bounds>>

-----------------------------------------------------------------------------
(* Poll and reconciliation.                                                *)

BeginPoll(p, s) ==
    /\ s \in reference
    /\ Begin(p, "poll", s, "asking")
    /\ UNCHANGED <<instruction, entries, received, external, bounds>>

\* By an operator, or by the schedule.
BeginReconcile(p, s) ==
    /\ s \in reference
    /\ Begin(p, "reconcile", s, "asking")
    /\ UNCHANGED <<instruction, entries, received, external, bounds>>

\* What the schedule looks for every ten minutes.
InFlight(s) == status[s] \in {"SUBMITTED", "PROCESSING"} /\ recon[s] # "SYNCED"

ScheduledReconcile(p, s) == InFlight(s) /\ BeginReconcile(p, s)

\* getTransferStatus.
Answer(p) ==
    /\ pc[p] = "asking"
    /\ job' = [job EXCEPT ![p].answer = provider[job[p].of]]
    /\ pc' = [pc EXCEPT ![p] = "answered"]
    /\ UNCHANGED <<instruction, entries, received, external, bounds>>

NoAnswer(p) ==
    /\ pc[p] = "asking"
    /\ Return(p)
    /\ UNCHANGED <<instruction, entries, received, external, bounds>>

\* The answer, or the webhook, is the first news of a failure.
NewsOfFailure(p, answer) == answer = "FAILED" /\ ~job[p].failed

RecordPollFailed(p) ==
    LET s == job[p].of IN
    /\ pc[p] = "answered"
    /\ job[p].op = "poll"
    /\ NewsOfFailure(p, job[p].answer)
    /\ Enter(s, "reversal")
    /\ status' = [status EXCEPT ![s] = "FAILED"]
    /\ reported' = [reported EXCEPT ![s] = "FAILED"]
    /\ failed' = failed \cup {s}
    /\ Return(p)
    /\ UNCHANGED <<reference, completed, recon, received, external, bounds>>

\* The key of the reversal is taken: the transaction fails, and the request.
FailPoll(p) ==
    /\ pc[p] = "answered"
    /\ job[p].op = "poll"
    /\ NewsOfFailure(p, job[p].answer)
    /\ Entered(job[p].of, "reversal")
    /\ Return(p)
    /\ UNCHANGED <<instruction, entries, received, external, bounds>>

\* Mutant: money that is on its way counts as arrived.
RecordPollOptimistic(p) ==
    LET s == job[p].of
        arrived == job[p].answer \in {"PROCESSING", "COMPLETED"}
    IN
    /\ pc[p] = "answered"
    /\ job[p].op = "poll"
    /\ ~NewsOfFailure(p, job[p].answer)
    /\ reported' = [reported EXCEPT ![s] = job[p].answer]
    /\ status' = [status EXCEPT ![s] = IF arrived THEN "COMPLETED" ELSE @]
    /\ completed' = IF arrived THEN completed \cup {s} ELSE completed
    /\ Return(p)
    /\ UNCHANGED <<reference, failed, recon, entries, received, external, bounds>>

\* Whatever the row holds by now.
RecordPoll(p) ==
    LET s == job[p].of
        a == job[p].answer
        arrived == a = "COMPLETED" /\ ~job[p].completed
    IN
    /\ pc[p] = "answered"
    /\ job[p].op = "poll"
    /\ ~NewsOfFailure(p, a)
    /\ reported' = [reported EXCEPT ![s] = a]
    /\ status' = [status EXCEPT ![s] = IF arrived \/ a = "PROCESSING" THEN a ELSE @]
    /\ completed' = IF arrived THEN completed \cup {s} ELSE completed
    /\ Return(p)
    /\ UNCHANGED <<reference, failed, recon, entries, received, external, bounds>>

\* Mutant: only a divergence is written.
RecordDivergence(p) ==
    LET s == job[p].of
        agrees == job[p].reported = job[p].answer /\ s \in Exact
    IN
    /\ pc[p] = "answered"
    /\ job[p].op = "reconcile"
    /\ recon' = [recon EXCEPT ![s] = IF agrees THEN @ ELSE "DIVERGED"]
    /\ status' = [status EXCEPT ![s] = IF agrees THEN @ ELSE "REQUIRES_REVIEW"]
    /\ Return(p)
    /\ UNCHANGED <<reference, reported, failed, completed, entries, received, external, bounds>>

\* The provider's status is compared with the word that was stored, as it was read.
RecordReconcile(p) ==
    LET s == job[p].of
        agrees == job[p].reported = job[p].answer /\ s \in Exact
    IN
    /\ pc[p] = "answered"
    /\ job[p].op = "reconcile"
    /\ recon' = [recon EXCEPT ![s] = IF agrees THEN "SYNCED" ELSE "DIVERGED"]
    /\ status' = [status EXCEPT ![s] = IF agrees THEN @ ELSE "REQUIRES_REVIEW"]
    /\ Return(p)
    /\ UNCHANGED <<reference, reported, failed, completed, entries, received, external, bounds>>

-----------------------------------------------------------------------------
(* The webhook.                                                            *)

\* The event is stored first, under the reference of its transfer: the next one
\* of the same transfer is refused.
ReceiveWebhook(p, e) ==
    /\ e \in events
    /\ \A w \in Words : <<e[1], w>> \notin received
    /\ pc[p] = "idle"
    /\ received' = received \cup {e}
    /\ pc' = [pc EXCEPT ![p] = "finding"]
    /\ job' = [job EXCEPT ![p] = [Idle EXCEPT !.op = "webhook", !.of = e[1], !.answer = e[2]]]
    /\ UNCHANGED <<instruction, entries, external, bounds>>

FindInstruction(p) ==
    LET s == job[p].of IN
    /\ pc[p] = "finding"
    /\ IF s \in reference
       THEN /\ job' = [job EXCEPT ![p] = Read("webhook", s, job[p].answer)]
            /\ pc' = [pc EXCEPT ![p] = "handling"]
       ELSE Return(p)
    /\ UNCHANGED <<instruction, entries, received, external, bounds>>

HandleFailed(p) ==
    LET s == job[p].of IN
    /\ pc[p] = "handling"
    /\ NewsOfFailure(p, MapWord(job[p].answer))
    /\ Enter(s, "reversal")
    /\ status' = [status EXCEPT ![s] = "FAILED"]
    /\ reported' = [reported EXCEPT ![s] = job[p].answer]
    /\ failed' = failed \cup {s}
    /\ Return(p)
    /\ UNCHANGED <<reference, completed, recon, received, external, bounds>>

\* The key of the reversal is taken: the transaction fails, and the event is lost.
FailWebhook(p) ==
    /\ pc[p] = "handling"
    /\ NewsOfFailure(p, MapWord(job[p].answer))
    /\ Entered(job[p].of, "reversal")
    /\ Return(p)
    /\ UNCHANGED <<instruction, entries, received, external, bounds>>

\* Mutant: the status, too, is stored in the provider's word.
HandleWebhookRaw(p) ==
    LET s == job[p].of IN
    /\ pc[p] = "handling"
    /\ status' = [status EXCEPT ![s] = job[p].answer]
    /\ reported' = [reported EXCEPT ![s] = job[p].answer]
    /\ Return(p)
    /\ UNCHANGED <<reference, failed, completed, recon, entries, received, external, bounds>>

\* Whatever the row holds by now, in the provider's word.
HandleWebhook(p) ==
    LET s == job[p].of
        mapped == MapWord(job[p].answer)
    IN
    /\ pc[p] = "handling"
    /\ ~NewsOfFailure(p, mapped)
    /\ status' = [status EXCEPT ![s] = mapped]
    /\ reported' = [reported EXCEPT ![s] = job[p].answer]
    /\ completed' = IF mapped = "COMPLETED" /\ ~job[p].completed THEN completed \cup {s} ELSE completed
    /\ Return(p)
    /\ UNCHANGED <<reference, failed, recon, entries, received, external, bounds>>

-----------------------------------------------------------------------------
(* The environment.                                                        *)

\* The transfer moves on; what has failed or arrived is final.
ProviderMoves(s) ==
    /\ \E outcome \in TransferStatus \ {"PENDING"} :
        /\ provider[s] \in {"PENDING", "PROCESSING"}
        /\ provider[s] # outcome
        /\ provider' = [provider EXCEPT ![s] = outcome]
        /\ events' = events \cup Telling(s, outcome)
    /\ UNCHANGED <<instruction, entries, received, pc, job, bounds>>

\* The process dies, or a database call outside a submission fails.
Crash(p) ==
    /\ pc[p] # "idle"
    /\ crashes < MaxCrashes
    /\ crashes' = crashes + 1
    /\ Return(p)
    /\ UNCHANGED <<instruction, entries, received, external, faults>>

-----------------------------------------------------------------------------

Submission(p) ==
    Transfer(p) \/ RecordReply(p) \/ FailSubmit(p) \/ ReverseSubmit(p) \/ RecordFailure(p)

\* What a request does once it has begun.
Handle(p) ==
    \/ Submission(p)
    \/ Answer(p) \/ RecordPollFailed(p) \/ FailPoll(p) \/ RecordPoll(p) \/ RecordReconcile(p)
    \/ FindInstruction(p) \/ HandleFailed(p) \/ FailWebhook(p) \/ HandleWebhook(p)

Next ==
    \/ \E p \in Procs : Handle(p) \/ BreakSubmit(p) \/ LoseReversal(p) \/ NoAnswer(p) \/ Crash(p)
    \/ \E p \in Procs, s \in Settlements : BeginSubmit(p, s) \/ BeginPoll(p, s) \/ BeginReconcile(p, s)
    \/ \E p \in Procs, e \in Events : ReceiveWebhook(p, e)
    \/ \E s \in Settlements : Create(s) \/ ProviderMoves(s)

Spec == Init /\ [][Next]_vars

\* A request that has begun runs to its end, the schedule takes up every instruction
\* that stays in flight, and the provider answers it time and again.  Operators need
\* not poll, nor the provider send its webhooks.
Scheduling ==
    /\ \A p \in Procs : WF_vars(Handle(p))
    /\ \A s \in Settlements :
        /\ SF_vars(\E p \in Procs : ScheduledReconcile(p, s))
        /\ SF_vars(\E p \in Procs : job[p].op = "reconcile" /\ job[p].of = s /\ Answer(p))

ScheduledSpec == Spec /\ Scheduling

-----------------------------------------------------------------------------
(* Properties.                                                             *)

\* calculateAvailableBalance subtracts a HOLD and a DEBIT and adds a REVERSAL: the
\* amounts by which an instruction lowers the balance.
Amounts(s, kind) == IF Entered(s, kind) THEN 1 ELSE 0
Taken(s) == Amounts(s, "hold") + Amounts(s, "debit") - Amounts(s, "reversal")

\* An instruction shown as FAILED has taken nothing from the balance if its transfer was
\* never accepted, and one amount if it was, for one REVERSAL stands against a HOLD and a
\* DEBIT; whichever of submission, poll and webhook found out first, however often each
\* did, unless the best-effort reversal was lost.
FailedGivesBack ==
    faults = 0 =>
        \A s \in Settlements : status[s] = "FAILED" => Taken(s) = Amounts(s, "debit")

\* What the webhook's comment says: a failed payout's funds are back in the balance.
FailedRestoresBalance ==
    faults = 0 => \A s \in Settlements : status[s] = "FAILED" => Taken(s) = 0

\* An instruction shown as COMPLETED has reached its beneficiary and was paid for:
\* no stale answer, late webhook or repeated submission makes it so otherwise.
CompletedIsPaid ==
    \A s \in Settlements :
        status[s] = "COMPLETED" => provider[s] = "COMPLETED" /\ Entered(s, "debit")

\* An instruction in flight is compared with the provider in the end, and marked as
\* SYNCED or taken out of flight, however polls, webhooks and other reconciliations
\* write over each other and although a crash may end a turn of the schedule.
InFlightReconciled ==
    \A s \in Settlements : s \in reference /\ InFlight(s) ~> ~InFlight(s)

-----------------------------------------------------------------------------
(* The inductive invariant behind the safety properties.                   *)

\* Who learned of a transfer knows its reference, and what it learned of its end is so.
JobTrue(p) ==
    LET a == job[p].answer
        s == job[p].of
    IN
    /\ IF pc[p] = "idle" THEN job[p] = Idle ELSE s \in Settlements
    /\ a \in {"COMPLETED", "successful"} => provider[s] = "COMPLETED"
    /\ a \in {"FAILED", "REJECTED", "failed"} => provider[s] = "FAILED"
    /\ pc[p] \in {"asking", "answered", "handling"} => s \in reference
    /\ pc[p] \in {"finding", "handling"} => a \in Words
    /\ pc[p] = "answered" => a \in TransferStatus \cup {"NONE"}

\* What the provider tells of a transfer's end is so.
EventsTrue ==
    \A e \in events : MapWord(e[2]) \in {"COMPLETED", "FAILED"} => provider[e[1]] = MapWord(e[2])

AnswersTrue == EventsTrue /\ \A p \in Procs : JobTrue(p)

\* A transfer whose reference is known was paid for, or failed.
ReferencePaid ==
    \A s \in reference : Entered(s, "debit") \/ provider[s] = "FAILED"

\* Every instruction has its HOLD before anybody works on it.
HeldFirst ==
    /\ \A s \in Settlements :
        status[s] # "NONE" \/ s \in reference \/ provider[s] # "NONE" => Entered(s, "hold")
    /\ \A e \in events : Entered(e[1], "hold")
    /\ \A p \in Procs : pc[p] # "idle" => Entered(job[p].of, "hold")

\* Whoever set failedAt, or is about to, has posted the REVERSAL, and so has whoever
\* shows the instruction as FAILED.
FailuresReversed ==
    faults = 0 =>
        /\ \A s \in failed : Entered(s, "reversal")
        /\ \A p \in Procs :
            pc[p] = "recording" \/ job[p].failed => Entered(job[p].of, "reversal")

FailedIsReversed ==
    faults = 0 => \A s \in Settlements : status[s] = "FAILED" => Entered(s, "reversal")

SettlementInv ==
    /\ TypeOK
    /\ AnswersTrue
    /\ ReferencePaid
    /\ HeldFirst
    /\ FailuresReversed
    /\ FailedIsReversed
    /\ CompletedIsPaid
=============================================================================
