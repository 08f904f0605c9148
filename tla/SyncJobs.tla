------------------------------ MODULE SyncJobs ------------------------------
(***************************************************************************)
(* The table of sync jobs, the QuickBooks webhook handler that fills it    *)
(* and the workers that drain it (src/jobs/syncJobs.ts and                 *)
(* handleQuickBooksWebhook of the QuickBooks service).                     *)
(*                                                                         *)
(* A worker is one timer loop of scheduleSyncJobWorker: an API process     *)
(* with the worker enabled, or the daemon script.  Every database call of  *)
(* a run is a step of its own, because another worker may run between two  *)
(* awaits.  A database call may also raise, with its effect (the reply is  *)
(* lost) or without it, and a worker's process may die at any step.        *)
(***************************************************************************)
EXTENDS Integers, Sequences, FiniteSets

CONSTANTS
    Worker,         \* timer loops that call processPendingSyncJobs
    Receiver,       \* request handlers that may run the webhook route at once
    Event,          \* webhook bodies; equal bodies have equal payloads
    MaxJobs,        \* bound: rows of the sync job table
    MaxDeliveries,  \* bound: deliveries of one event that find no queued row
    BatchSize,      \* cfg batchSize
    MaxAttempts,    \* cfg maxAttempts
    RetryBase,      \* cfg retryBaseMs, in ticks of the clock
    MaxLag,         \* bound: ticks for which an overdue job still ages
    MaxFaults,      \* bound: database calls that raise
    MaxCrashes,     \* bound: worker processes that die
    NoEvent, NoJob

Job == 1 .. MaxJobs     \* rows in the order of createdAt

\* The delay before attempt number attempt + 1.
RetryDelay(attempt) ==
    RetryBase * 2 ^ (IF attempt > 1 THEN attempt - 1 ELSE 0)

ASSUME BoundsAssumption ==
    /\ MaxJobs \in Nat /\ MaxDeliveries \in Nat /\ MaxLag \in Nat
    /\ MaxFaults \in Nat /\ MaxCrashes \in Nat

\* The configuration schema demands positive integers.
ASSUME ConfigAssumption ==
    /\ BatchSize \in Nat \ {0} /\ MaxAttempts \in Nat \ {0}
    /\ \A n \in 0 .. MaxAttempts : RetryDelay(n) \in Nat \ {0}

ASSUME NullAssumption ==
    NoEvent \notin Event /\ NoJob \notin Job /\ NoJob \notin Worker

VARIABLES
    status,     \* SyncJob.status of each row, "NONE" where no row exists yet
    event,      \* SyncJob.payload
    attempts,   \* SyncJob.attempts
    wait,       \* scheduledAt of a PENDING row, as ticks from now (<= 0: due)
    pc,         \* the database call a worker makes next
    batch,      \* candidates its run has not reached yet
    cur,        \* the job it has claimed
    tries,      \* job.attempts as the run read it back after the claim
    rpc,        \* the database call a webhook request makes next
    revent,     \* the event the request carries
    delivered,  \* deliveries of each event that passed the look-up
    applied,    \* how often lastSyncAt was moved for each event
    faults, crashes

jobVars    == <<status, event, attempts, wait>>
workerVars == <<pc, batch, cur, tries>>
hookVars   == <<rpc, revent, delivered>>
envVars    == <<faults, crashes>>
vars       == <<jobVars, workerVars, hookVars, applied, envVars>>

Status == {"NONE", "PENDING", "PROCESSING", "COMPLETED", "FAILED"}
Step   == {"idle", "claim", "read", "dedup", "apply", "complete", "fail"}
Held   == {"read", "dedup", "apply", "complete", "fail"}

TypeOK ==
    /\ status \in [Job -> Status]
    /\ event \in [Job -> Event \cup {NoEvent}]
    /\ attempts \in [Job -> Nat]
    /\ wait \in [Job -> Int]
    /\ pc \in [Worker -> Step]
    /\ batch \in [Worker -> Seq(Job)]
    /\ cur \in [Worker -> Job \cup {NoJob}]
    /\ tries \in [Worker -> Nat]
    /\ rpc \in [Receiver -> {"idle", "create"}]
    /\ revent \in [Receiver -> Event \cup {NoEvent}]
    /\ delivered \in [Event -> Nat]
    /\ applied \in [Event -> Nat]
    /\ faults \in Nat /\ crashes \in Nat

Init ==
    /\ status = [j \in Job |-> "NONE"]
    /\ event = [j \in Job |-> NoEvent]
    /\ attempts = [j \in Job |-> 0]
    /\ wait = [j \in Job |-> 0]
    /\ pc = [w \in Worker |-> "idle"]
    /\ batch = [w \in Worker |-> <<>>]
    /\ cur = [w \in Worker |-> NoJob]
    /\ tries = [w \in Worker |-> 0]
    /\ rpc = [r \in Receiver |-> "idle"]
    /\ revent = [r \in Receiver |-> NoEvent]
    /\ delivered = [e \in Event |-> 0]
    /\ applied = [e \in Event |-> 0]
    /\ faults = 0 /\ crashes = 0

-----------------------------------------------------------------------------
(* The webhook route.  Signature, realm and connection checks that fail     *)
(* answer without touching the table: those requests are stutter steps.     *)

\* A row that makes the route answer queued: false.
Queued(e) ==
    \E j \in Job : /\ event[j] = e
                   /\ status[j] \in {"PENDING", "PROCESSING", "COMPLETED"}

\* The request looks for an existing job of the same payload.
Receive(r, e) ==
    /\ rpc[r] = "idle"
    /\ delivered[e] < MaxDeliveries
    /\ delivered' = [delivered EXCEPT ![e] = @ + 1]
    /\ ~ Queued(e)
    /\ rpc' = [rpc EXCEPT ![r] = "create"]
    /\ revent' = [revent EXCEPT ![r] = e]
    /\ UNCHANGED <<jobVars, workerVars, applied, envVars>>

\* Having found none, it inserts a row that is due at once.
Create(r) ==
    /\ rpc[r] = "create"
    /\ \E j \in Job :
        /\ status[j] = "NONE"
        /\ \A i \in Job : i < j => status[i] # "NONE"
        /\ status' = [status EXCEPT ![j] = "PENDING"]
        /\ event' = [event EXCEPT ![j] = revent[r]]
    /\ rpc' = [rpc EXCEPT ![r] = "idle"]
    /\ revent' = [revent EXCEPT ![r] = NoEvent]
    /\ UNCHANGED <<attempts, wait, workerVars, delivered, applied, envVars>>

\* The request fails between the look-up and the insert.
HookAborts(r) ==
    /\ rpc[r] = "create"
    /\ faults < MaxFaults
    /\ faults' = faults + 1
    /\ rpc' = [rpc EXCEPT ![r] = "idle"]
    /\ revent' = [revent EXCEPT ![r] = NoEvent]
    /\ UNCHANGED <<jobVars, workerVars, delivered, applied, crashes>>

-----------------------------------------------------------------------------
(* A worker's run.                                                          *)

\* Faulty variants, each kept beside the definition it stands in for, show
\* that the properties can fail.  Here: the delay is not looked at; a retried
\* row is never fetched.
DueWhenPending == {j \in Job : status[j] = "PENDING"}
DueWhenNew == {j \in Job : status[j] = "PENDING" /\ attempts[j] = 0 /\ wait[j] <= 0}

Due == {j \in Job : status[j] = "PENDING" /\ wait[j] <= 0}

\* orderBy scheduledAt, createdAt
Precedes(i, j) == wait[i] < wait[j] \/ (wait[i] = wait[j] /\ i < j)

\* b is what findMany returns: the first BatchSize due rows, in order.
IsBatch(b) ==
    /\ \A m, n \in DOMAIN b : m < n => Precedes(b[m], b[n])
    /\ \A j \in Due : \/ \E n \in DOMAIN b : b[n] = j
                      \/ /\ Len(b) = BatchSize
                         /\ \A n \in DOMAIN b : Precedes(b[n], j)

\* The next step of a run once the current candidate is dealt with.
Resume(rest) == IF rest = <<>> THEN "idle" ELSE "claim"

\* The start of a run; one that finds no due row ends at once (a stutter).
Fetch(w) ==
    /\ pc[w] = "idle"
    /\ \E n \in 1 .. BatchSize : \E b \in [1 .. n -> Due] :
        /\ IsBatch(b)
        /\ batch' = [batch EXCEPT ![w] = b]
    /\ pc' = [pc EXCEPT ![w] = "claim"]
    /\ UNCHANGED <<jobVars, cur, tries, hookVars, applied, envVars>>

\* Faulty variant: the claim updates by id alone.
ClaimById(j) ==
    /\ status' = [status EXCEPT ![j] = "PROCESSING"]
    /\ attempts' = [attempts EXCEPT ![j] = @ + 1]
    /\ wait' = [wait EXCEPT ![j] = 0]
    /\ UNCHANGED event

\* updateMany where status PENDING: PROCESSING and one more attempt.
ClaimRow(j) ==
    /\ status[j] = "PENDING"
    /\ status' = [status EXCEPT ![j] = "PROCESSING"]
    /\ attempts' = [attempts EXCEPT ![j] = @ + 1]
    /\ wait' = [wait EXCEPT ![j] = 0]
    /\ UNCHANGED event

Claim(w) ==
    /\ pc[w] = "claim"
    /\ ClaimRow(Head(batch[w]))
    /\ pc' = [pc EXCEPT ![w] = "read"]
    /\ cur' = [cur EXCEPT ![w] = Head(batch[w])]
    /\ batch' = [batch EXCEPT ![w] = Tail(@)]
    /\ UNCHANGED <<tries, hookVars, applied, envVars>>

\* claim.count = 0: another worker was first.
Skip(w) ==
    /\ pc[w] = "claim"
    /\ status[Head(batch[w])] # "PENDING"
    /\ pc' = [pc EXCEPT ![w] = Resume(Tail(batch[w]))]
    /\ batch' = [batch EXCEPT ![w] = Tail(@)]
    /\ UNCHANGED <<jobVars, cur, tries, hookVars, applied, envVars>>

\* findUnique: the row as it is after the claim.
Read(w) ==
    /\ pc[w] = "read"
    /\ tries' = [tries EXCEPT ![w] = attempts[cur[w]]]
    /\ pc' = [pc EXCEPT ![w] = "dedup"]
    /\ UNCHANGED <<jobVars, batch, cur, hookVars, applied, envVars>>

\* Faulty variant: a job still PROCESSING counts as the first of the two.
DuplicateRunning(j) ==
    \E i \in Job \ {j} : status[i] = "PROCESSING" /\ event[i] = event[j]

\* Another COMPLETED job of the same payload makes this one a duplicate.
Duplicate(j) ==
    \E i \in Job \ {j} : status[i] = "COMPLETED" /\ event[i] = event[j]

Dedup(w) ==
    /\ pc[w] = "dedup"
    /\ pc' = [pc EXCEPT ![w] = IF Duplicate(cur[w]) THEN "complete" ELSE "apply"]
    /\ UNCHANGED <<jobVars, batch, cur, tries, hookVars, applied, envVars>>

MoveLastSync(j) == applied' = [applied EXCEPT ![event[j]] = @ + 1]

Apply(w) ==
    /\ pc[w] = "apply"
    /\ MoveLastSync(cur[w])
    /\ pc' = [pc EXCEPT ![w] = "complete"]
    /\ UNCHANGED <<jobVars, batch, cur, tries, hookVars, envVars>>

\* The run lets go of its job and turns to the next candidate.
Release(w) ==
    /\ pc' = [pc EXCEPT ![w] = Resume(batch[w])]
    /\ cur' = [cur EXCEPT ![w] = NoJob]
    /\ UNCHANGED <<batch, tries>>

\* markCompleted: by id, whatever the status is.
MarkCompleted(j) ==
    /\ status' = [status EXCEPT ![j] = "COMPLETED"]
    /\ UNCHANGED <<event, attempts, wait>>

Complete(w) ==
    /\ pc[w] = "complete"
    /\ MarkCompleted(cur[w])
    /\ Release(w)
    /\ UNCHANGED <<hookVars, applied, envVars>>

\* Faulty variants: one retry too many; an unknown status.
MarkFailedLate(j, n) ==
    /\ IF n <= MaxAttempts
         THEN /\ status' = [status EXCEPT ![j] = "PENDING"]
              /\ wait' = [wait EXCEPT ![j] = RetryDelay(n)]
         ELSE /\ status' = [status EXCEPT ![j] = "FAILED"]
              /\ UNCHANGED wait
    /\ UNCHANGED <<event, attempts>>
MarkError(j, n) ==
    /\ status' = [status EXCEPT ![j] = IF n < MaxAttempts THEN "PENDING" ELSE "ERROR"]
    /\ UNCHANGED <<event, attempts, wait>>

\* markFailed: back to PENDING after a delay, or FAILED for good; by id.
MarkFailed(j, n) ==
    /\ IF n < MaxAttempts
         THEN /\ status' = [status EXCEPT ![j] = "PENDING"]
              /\ wait' = [wait EXCEPT ![j] = RetryDelay(n)]
         ELSE /\ status' = [status EXCEPT ![j] = "FAILED"]
              /\ UNCHANGED wait
    /\ UNCHANGED <<event, attempts>>

Fail(w) ==
    /\ pc[w] = "fail"
    /\ MarkFailed(cur[w], tries[w])
    /\ Release(w)
    /\ UNCHANGED <<hookVars, applied, envVars>>

\* A call outside the try block raises, or the process dies: the run is over
\* and nobody remembers its job.
Forget(w) ==
    /\ pc' = [pc EXCEPT ![w] = "idle"]
    /\ cur' = [cur EXCEPT ![w] = NoJob]
    /\ batch' = [batch EXCEPT ![w] = <<>>]
    /\ UNCHANGED <<jobVars, tries, hookVars, applied>>

RunAborts(w) ==
    /\ pc[w] \in {"claim", "read", "fail"}
    /\ faults < MaxFaults
    /\ faults' = faults + 1
    /\ Forget(w)
    /\ UNCHANGED crashes

Crash(w) ==
    /\ pc[w] # "idle"
    /\ crashes < MaxCrashes
    /\ crashes' = crashes + 1
    /\ Forget(w)
    /\ UNCHANGED faults

\* A call inside the try block raises, its effect applied or not.
StepRaises(w) ==
    /\ pc[w] \in {"dedup", "apply", "complete"}
    /\ faults < MaxFaults
    /\ faults' = faults + 1
    /\ pc' = [pc EXCEPT ![w] = "fail"]
    /\ \/ UNCHANGED <<jobVars, applied>>
       \/ pc[w] = "apply" /\ MoveLastSync(cur[w]) /\ UNCHANGED jobVars
       \/ pc[w] = "complete" /\ MarkCompleted(cur[w]) /\ UNCHANGED applied
    /\ UNCHANGED <<batch, cur, tries, hookVars, crashes>>

-----------------------------------------------------------------------------
\* The clock.  A row overdue by MaxLag ticks ages no further.
Tick ==
    /\ wait' = [j \in Job |-> IF status[j] = "PENDING" /\ wait[j] > -MaxLag
                                THEN wait[j] - 1 ELSE wait[j]]
    /\ UNCHANGED <<status, event, attempts, workerVars, hookVars, applied, envVars>>

WorkerStep(w) ==
    \/ Fetch(w) \/ Claim(w) \/ Skip(w) \/ Read(w)
    \/ Dedup(w) \/ Apply(w) \/ Complete(w) \/ Fail(w)

Next ==
    \/ \E w \in Worker : WorkerStep(w) \/ StepRaises(w) \/ RunAborts(w) \/ Crash(w)
    \/ \E r \in Receiver : Create(r) \/ HookAborts(r)
    \/ \E r \in Receiver, e \in Event : Receive(r, e)
    \/ Tick

Spec == Init /\ [][Next]_vars

\* setInterval starts a run again and again and a run that started goes on;
\* a request that found no row goes on to insert one; time passes.
Fairness ==
    /\ \A w \in Worker : WF_vars(WorkerStep(w))
    /\ \A r \in Receiver : WF_vars(Create(r))
    /\ WF_vars(Tick)

FairSpec == Spec /\ Fairness

-----------------------------------------------------------------------------
Holds(w, j) == pc[w] \in Held /\ cur[w] = j

Orphan(j) == status[j] = "PROCESSING" /\ \A w \in Worker : ~ Holds(w, j)

Settled(j) ==
    /\ status[j] \in {"COMPLETED", "FAILED"}
    /\ \A w \in Worker : ~ Holds(w, j)

(***************************************************************************)
(* Two workers never run the same job at once, although both may have      *)
(* fetched it as a candidate: the conditional updateMany of the claim is   *)
(* the only lock there is.                                                 *)
(***************************************************************************)
NoJobRunTwiceAtOnce ==
    \A w1, w2 \in Worker, j \in Job : Holds(w1, j) /\ Holds(w2, j) => w1 = w2

(***************************************************************************)
(* The attempts of a job stay within maxAttempts, a job waiting for a run  *)
(* has one left, and a job is given up (FAILED) only after the last one:   *)
(* markFailed decides on the attempts of a row read some awaits earlier.   *)
(***************************************************************************)
AttemptsBudget ==
    \A j \in Job : /\ attempts[j] <= MaxAttempts
                   /\ status[j] = "PENDING" => attempts[j] < MaxAttempts
                   /\ status[j] = "FAILED" => attempts[j] = MaxAttempts

(***************************************************************************)
(* Once a job is COMPLETED or FAILED and no run holds it any more, nothing *)
(* brings it back: neither the blind updates by id of a slow worker nor a  *)
(* claim from a stale batch.                                               *)
(***************************************************************************)
SettledForGood ==
    [][\A j \in Job : Settled(j) => status'[j] = status[j]]_vars

(***************************************************************************)
(* A job marked COMPLETED had its event applied, by its own run or, for a  *)
(* duplicate, by the run of the job it duplicates.                         *)
(***************************************************************************)
CompletedMeansApplied ==
    \A j \in Job : status[j] = "COMPLETED" => applied[event[j]] > 0

(***************************************************************************)
(* A job returned to PENDING with a retry delay is claimed only after the  *)
(* delay (markFailed: scheduledAt = now + retryDelayMs).                   *)
(***************************************************************************)
RetryDelayKept ==
    [][\A j \in Job : attempts'[j] > attempts[j] => wait[j] <= 0]_vars

(***************************************************************************)
(* An accepted event reaches its connection unless some job of it used up  *)
(* its attempts or was orphaned; a duplicate never ends COMPLETED instead  *)
(* of the job it duplicates.                                               *)
(***************************************************************************)
AcceptedIsApplied ==
    \A e \in Event :
        (\E j \in Job : event[j] = e)
          ~> \/ applied[e] > 0
             \/ \E j \in Job : event[j] = e /\ (status[j] = "FAILED" \/ Orphan(j))

(***************************************************************************)
(* Whatever fails, a queued job is finally COMPLETED, FAILED after its     *)
(* attempts, or orphaned in PROCESSING by a run that was cut short.        *)
(***************************************************************************)
SettlesOrOrphaned ==
    \A j \in Job : status[j] = "PENDING" ~> (Settled(j) \/ Orphan(j))

(***************************************************************************)
(* The inductive invariant behind the safety properties: a worker past its *)
(* claim holds the row in PROCESSING (or has completed it and not heard    *)
(* so), remembers its attempts as they are, and has applied the event of a *)
(* job it is about to complete.                                            *)
(***************************************************************************)
HeldRows ==
    \A w \in Worker :
        /\ pc[w] \in Held <=> cur[w] # NoJob
        /\ pc[w] \in Held => \/ status[cur[w]] = "PROCESSING"
                             \/ pc[w] = "fail" /\ status[cur[w]] = "COMPLETED"
        /\ pc[w] \in Held \ {"read"} => tries[w] = attempts[cur[w]]
        /\ pc[w] = "complete" => applied[event[cur[w]]] > 0
        /\ pc[w] = "claim" => batch[w] # <<>>

Rows ==
    \A j \in Job : /\ status[j] = "NONE" => attempts[j] = 0
                   /\ status[j] # "NONE" => event[j] \in Event

Requests == \A r \in Receiver : rpc[r] = "create" => revent[r] \in Event

Inductive ==
    /\ TypeOK /\ HeldRows /\ Rows /\ Requests
    /\ NoJobRunTwiceAtOnce /\ AttemptsBudget /\ CompletedMeansApplied

(***************************************************************************)
(* The job table implements JobLease: a job is leased from the claim until *)
(* its run lets go of it, whatever the row says in between, and a row left *)
(* in PROCESSING by a run that was cut short is a lost lease.              *)
(***************************************************************************)
HolderOf(j) ==
    IF \E w \in Worker : cur[w] = j THEN CHOOSE w \in Worker : cur[w] = j ELSE NoJob

\* The phase of a job that no run is on.
FreePhase ==
    [NONE |-> "absent", PENDING |-> "queued", PROCESSING |-> "lost",
     COMPLETED |-> "done", FAILED |-> "dead"]

PhaseOf(j) == IF HolderOf(j) # NoJob THEN "running" ELSE FreePhase[status[j]]

LeaseOf == INSTANCE JobLease WITH
    Jobs <- Job, Runners <- Worker, MaxRuns <- MaxAttempts, Nobody <- NoJob,
    phase <- [j \in Job |-> PhaseOf(j)],
    runner <- [j \in Job |-> HolderOf(j)],
    runs <- attempts

\* Every behaviour of the table, the workers and the webhook is one of JobLease.
ImplementsLease == LeaseOf!LeaseSpec
=============================================================================
