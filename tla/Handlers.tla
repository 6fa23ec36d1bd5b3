------------------------------- MODULE Handlers -------------------------------
(***************************************************************************)
(* What the request handlers, webhooks and worker jobs of the smaller      *)
(* services have in common.  Each is an asynchronous function that reads   *)
(* rows, waits for a provider or for the database, and writes; between two *)
(* awaits other handlers run.  A process of Procs runs one at a time.      *)
(***************************************************************************)
EXTENDS Integers, FiniteSets

CONSTANTS
    Procs,      \* handlers that can run at once
    MaxFaults,  \* bound on the number of crashes and failed database calls
    None        \* what an idle process works on

ASSUME HandlersAssumption == IsFiniteSet(Procs) /\ MaxFaults \in Nat

VARIABLES
    pc,         \* where each handler is
    job,        \* what each handler does, to what, and its local reads
    faults      \* crashes and failed database calls so far

handlers == <<pc, job, faults>>

Idle == [op |-> "none", of |-> None, saw |-> "none", got |-> "none"]

HandlersInit ==
    /\ pc = [p \in Procs |-> "idle"]
    /\ job = [p \in Procs |-> Idle]
    /\ faults = 0

HandlersTypeOK(steps, jobs) ==
    /\ pc \in [Procs -> steps \cup {"idle"}]
    /\ job \in [Procs -> jobs \cup {Idle}]
    /\ faults \in 0..MaxFaults

At(p, op, step) == pc[p] = step /\ job[p].op = op

Start(p, op, x, saw, step) ==
    /\ pc[p] = "idle"
    /\ pc' = [pc EXCEPT ![p] = step]
    /\ job' = [job EXCEPT ![p] = [op |-> op, of |-> x, saw |-> saw, got |-> "none"]]
    /\ UNCHANGED faults

Goto(p, step) == pc' = [pc EXCEPT ![p] = step] /\ UNCHANGED <<job, faults>>

\* An answer arrives.
Learn(p, answer, step) ==
    /\ pc' = [pc EXCEPT ![p] = step]
    /\ job' = [job EXCEPT ![p].got = answer]
    /\ UNCHANGED faults

Finish(p) ==
    /\ pc' = [pc EXCEPT ![p] = "idle"]
    /\ job' = [job EXCEPT ![p] = Idle]

Return(p) == Finish(p) /\ UNCHANGED faults

\* The process dies, or a database call fails where nothing catches the error:
\* what was committed stays, and the handler goes no further.
Crash(p) ==
    /\ pc[p] # "idle"
    /\ faults < MaxFaults
    /\ faults' = faults + 1
    /\ Finish(p)

\* A database call fails and the error is caught.
DbError(p, step) ==
    /\ faults < MaxFaults
    /\ faults' = faults + 1
    /\ pc' = [pc EXCEPT ![p] = step]
    /\ UNCHANGED job
===============================================================================
