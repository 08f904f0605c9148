------------------------- MODULE SyncJobsRefinement -------------------------
(* SyncJobs implements JobLease, for every value of the constants.          *)
EXTENDS SyncJobsProofs

\* What JobLease sees of a job that a run is on, and of one that none is on.
HeldView ==
  \A w \in Worker, j \in Job :
    cur[w] = j => HolderOf(j) = w /\ PhaseOf(j) = "running"

FreeView ==
  \A j \in Job : (\A w \in Worker : cur[w] # j)
                => HolderOf(j) = NoJob /\ PhaseOf(j) = FreePhase[status[j]]

\* The holder is well defined because runs exclude each other.
LEMMA Views == Inductive => HeldView /\ FreeView
<1> SUFFICES ASSUME Inductive PROVE HeldView /\ FreeView
  OBVIOUS
<1>1. ASSUME NEW w \in Worker, NEW j \in Job, cur[w] = j
      PROVE  HolderOf(j) = w /\ PhaseOf(j) = "running"
  <2>1. \A v \in Worker : cur[v] = j => v = w
    BY <1>1, NullAssumption DEF Inductive, HeldRows, NoJobRunTwiceAtOnce, Holds
  <2>2. HolderOf(j) = w
    BY <1>1, <2>1 DEF HolderOf
  <2>3. w # NoJob
    BY NullAssumption
  <2> QED
    BY <2>2, <2>3 DEF PhaseOf
<1>2. ASSUME NEW j \in Job, \A w \in Worker : cur[w] # j
      PROVE  HolderOf(j) = NoJob /\ PhaseOf(j) = FreePhase[status[j]]
  BY <1>2 DEF HolderOf, PhaseOf
<1> QED
  BY <1>1, <1>2 DEF HeldView, FreeView

\* A job keeps its phase and its holder when its row keeps its status, or a run
\* stays on it, and no run takes it or lets go of it.
LEMMA SamePhase ==
  ASSUME NEW j \in Job, \A w \in Worker : cur'[w] = j <=> cur[w] = j,
         HeldView, HeldView', FreeView, FreeView',
         \/ status'[j] = status[j]
         \/ \E w \in Worker : cur[w] = j
  PROVE  HolderOf(j)' = HolderOf(j) /\ PhaseOf(j)' = PhaseOf(j)
<1>1. CASE \E w \in Worker : cur[w] = j
  BY <1>1 DEF HeldView
<1>2. CASE \A w \in Worker : cur[w] # j
  <2>1. status'[j] = status[j]
    BY <1>2
  <2>2. HolderOf(j) = NoJob /\ PhaseOf(j) = FreePhase[status[j]]
    BY <1>2 DEF FreeView
  <2>3. HolderOf(j)' = NoJob /\ PhaseOf(j)' = FreePhase[status'[j]]
    BY <1>2 DEF FreeView, FreePhase
  <2> QED
    BY <2>1, <2>2, <2>3
<1> QED
  BY <1>1, <1>2

\* The other jobs stay as they are while something happens to j.
OthersKept(j) ==
  \A i \in Job \ {j} : HolderOf(i)' = HolderOf(i) /\ PhaseOf(i)' = PhaseOf(i)

LEMMA OthersKeep ==
  ASSUME NEW j \in Job, HeldView, HeldView', FreeView, FreeView',
         \A i \in Job \ {j} : /\ status'[i] = status[i]
                              /\ \A w \in Worker : cur'[w] = i <=> cur[w] = i
  PROVE  OthersKept(j)
  BY SamePhase DEF OthersKept

\* A run that lets go of its job ends a lease.
LEMMA LeaseEnds ==
  ASSUME NEW w \in Worker, NEW j \in Job, cur[w] = j, \A v \in Worker : cur'[v] # j,
         HeldView, FreeView', OthersKept(j), UNCHANGED attempts
  PROVE  LeaseOf!EndLease(j, FreePhase[status'[j]])
<1>1. PhaseOf(j) = "running" /\ HolderOf(j)' = NoJob
  BY DEF HeldView, FreeView
<1>2. PhaseOf(j)' = FreePhase[status'[j]]
  BY DEF FreeView, FreePhase
<1> QED
  BY <1>1, <1>2 DEF LeaseOf!EndLease, OthersKept

\* Nobody runs a job: each maps to a state of JobLease as it is.
LEMMA LeaseInitial == Init => LeaseOf!LeaseInit
<1> SUFFICES ASSUME Init PROVE LeaseOf!LeaseInit
  OBVIOUS
<1>1. HeldView /\ FreeView
  BY InitInductive, Views
<1>2. \A j \in Job : \A w \in Worker : cur[w] # j
  BY NullAssumption DEF Init
<1>3. \A j \in Job : HolderOf(j) = NoJob /\ PhaseOf(j) = "absent"
  BY <1>1, <1>2 DEF Init, FreeView, FreePhase
<1> QED
  BY <1>3 DEF Init, LeaseOf!LeaseInit

\* A claim is the start of a lease.
LEMMA ClaimLeases ==
  ASSUME Inductive, HeldView, HeldView', FreeView, FreeView', TypeOK',
         NEW w \in Worker, Claim(w)
  PROVE  \E j \in Job : LeaseOf!Lease(j, w)
<1>0. PICK j \in Job : j = Head(batch[w])
  BY CandidateIsRow DEF Claim
<1>1. status[j] = "PENDING" /\ pc[w] = "claim"
  BY <1>0 DEF Claim, ClaimRow
<1>2. TypeOK /\ HeldRows /\ AttemptsBudget
  BY DEF Inductive
<1>3. /\ status' = [status EXCEPT ![j] = "PROCESSING"]
      /\ attempts' = [attempts EXCEPT ![j] = @ + 1]
      /\ cur' = [cur EXCEPT ![w] = j]
  BY <1>0 DEF Claim, ClaimRow
<1>4. cur[w] = NoJob
  BY <1>1, <1>2 DEF HeldRows, Held
<1>5. ASSUME NEW v \in Worker PROVE cur[v] # j
  BY <1>1, <1>2, NullAssumption DEF HeldRows
<1>6. PhaseOf(j) = "queued"
  BY <1>1, <1>5 DEF FreeView, FreePhase
<1>7. ASSUME NEW i \in Job PROVE HolderOf(i) # w
  BY <1>4, NullAssumption DEF HeldView, FreeView
<1>8. cur'[w] = j
  BY <1>2, <1>3 DEF TypeOK
<1>9. HolderOf(j)' = w /\ PhaseOf(j)' = "running"
  BY <1>1, <1>8 DEF HeldView
<1>10. OthersKept(j)
  <2>1. ASSUME NEW i \in Job \ {j} PROVE status'[i] = status[i]
    BY <1>2, <1>3 DEF TypeOK
  <2>2. ASSUME NEW i \in Job \ {j}, NEW v \in Worker PROVE cur'[v] = i <=> cur[v] = i
    <3>1. CASE v = w
      BY <1>4, <1>8, <3>1, NullAssumption
    <3>2. CASE v # w
      BY <1>2, <1>3, <3>2 DEF TypeOK
    <3> QED
      BY <3>1, <3>2
  <2> QED
    BY <2>1, <2>2, OthersKeep
<1>11. attempts[j] < MaxAttempts
  BY <1>1, <1>2 DEF AttemptsBudget
<1> DEFINE phase == [i \in Job |-> PhaseOf(i)]
           runner == [i \in Job |-> HolderOf(i)]
<1>12. phase' = [phase EXCEPT ![j] = "running"] /\ runner' = [runner EXCEPT ![j] = w]
  BY <1>9, <1>10 DEF OthersKept
<1>13. phase[j] = "queued" /\ \A i \in Job : runner[i] # w
  BY <1>6, <1>7
<1> QED
  BY <1>3, <1>11, <1>12, <1>13 DEF LeaseOf!Lease

\* What each step of a run does to the row and to the run's hold on it.
LEMMA RunEnds ==
  ASSUME Inductive, HeldView, HeldView', FreeView, FreeView', Inductive',
         NEW w \in Worker, NEW j \in Job, cur[w] = j, UNCHANGED attempts,
         cur' = [cur EXCEPT ![w] = NoJob],
         \A i \in Job \ {j} : status'[i] = status[i]
  PROVE  LeaseOf!EndLease(j, FreePhase[status'[j]])
<1>1. TypeOK /\ HeldRows /\ NoJobRunTwiceAtOnce
  BY DEF Inductive
<1>2. \A v \in Worker : cur'[v] # j
  BY <1>1, NullAssumption DEF TypeOK, HeldRows, NoJobRunTwiceAtOnce, Holds
<1>3. ASSUME NEW i \in Job \ {j}, NEW v \in Worker PROVE cur'[v] = i <=> cur[v] = i
  BY <1>1, NullAssumption DEF TypeOK
<1>4. OthersKept(j)
  BY <1>3, OthersKeep
<1> QED
  BY <1>2, <1>4, LeaseEnds

LEMMA NoRunNoChange ==
  ASSUME HeldView, HeldView', FreeView, FreeView', UNCHANGED <<cur, attempts>>,
         \A i \in Job : status'[i] = status[i] \/ \E w \in Worker : cur[w] = i
  PROVE  UNCHANGED LeaseOf!leaseVars
<1>1. \A j \in Job : HolderOf(j)' = HolderOf(j) /\ PhaseOf(j)' = PhaseOf(j)
  BY SamePhase
<1> QED
  BY <1>1 DEF LeaseOf!leaseVars

\* Every step of SyncJobs is a step of JobLease or changes nothing it sees.
LEMMA LeaseStep ==
  ASSUME Inductive, Inductive', [Next]_vars
  PROVE  [LeaseOf!LeaseNext]_(LeaseOf!leaseVars)
<1>0. HeldView /\ FreeView /\ HeldView' /\ FreeView'
  <2>1. Inductive => HeldView /\ FreeView
    BY Views
  <2>2. Inductive' => HeldView' /\ FreeView'
    BY <2>1, Views, PTL
  <2> QED
    BY <2>1, <2>2
<1>1. TypeOK /\ TypeOK' /\ HeldRows /\ AttemptsBudget /\ AttemptsBudget'
  BY DEF Inductive
<1>2. CASE UNCHANGED <<status, attempts, cur>>
  BY <1>0, <1>2, NoRunNoChange
<1>3. ASSUME NEW w \in Worker, Claim(w) PROVE LeaseOf!LeaseNext
  BY <1>0, <1>1, <1>3, ClaimLeases DEF LeaseOf!LeaseNext
<1>4. ASSUME NEW w \in Worker, StepRaises(w) PROVE UNCHANGED LeaseOf!leaseVars
  <2>1. cur[w] \in Job /\ UNCHANGED <<cur, attempts>>
    BY <1>1, <1>4, HeldRowFacts DEF StepRaises, MarkCompleted, jobVars, Held
  <2>2. \A i \in Job : status'[i] = status[i] \/ \E v \in Worker : cur[v] = i
    BY <1>1, <1>4, <2>1 DEF StepRaises, MarkCompleted, jobVars, TypeOK
  <2> QED
    BY <1>0, <2>1, <2>2, NoRunNoChange
<1>5. ASSUME NEW w \in Worker, Complete(w) PROVE LeaseOf!LeaseNext
  <2>1. PICK j \in Job : cur[w] = j
    BY <1>5, HeldRowFacts DEF Complete, Held
  <2>2. /\ status' = [status EXCEPT ![j] = "COMPLETED"]
        /\ cur' = [cur EXCEPT ![w] = NoJob] /\ UNCHANGED attempts
    BY <1>5, <2>1 DEF Complete, MarkCompleted, Release
  <2>3. FreePhase[status'[j]] = "done" /\ \A i \in Job \ {j} : status'[i] = status[i]
    BY <1>1, <2>2 DEF TypeOK, FreePhase
  <2>4. LeaseOf!Finish(j)
    BY <1>0, <2>1, <2>2, <2>3, RunEnds DEF LeaseOf!Finish
  <2> QED
    BY <2>4 DEF LeaseOf!LeaseNext
<1>6. ASSUME NEW w \in Worker, Fail(w) PROVE LeaseOf!LeaseNext
  <2>1. PICK j \in Job : cur[w] = j
    BY <1>6, HeldRowFacts DEF Fail, Held
  <2>2. tries[w] = attempts[j] /\ attempts[j] \in 0 .. MaxAttempts
    BY <1>6, <2>1, HeldRowFacts DEF Fail, Held
  <2>3. cur' = [cur EXCEPT ![w] = NoJob] /\ UNCHANGED attempts
    BY <1>6 DEF Fail, MarkFailed, Release
  <2>4. CASE tries[w] < MaxAttempts
    <3>1. status' = [status EXCEPT ![j] = "PENDING"]
      BY <1>6, <2>1, <2>4 DEF Fail, MarkFailed
    <3>2. FreePhase[status'[j]] = "queued" /\ \A i \in Job \ {j} : status'[i] = status[i]
      BY <1>1, <3>1 DEF TypeOK, FreePhase
    <3>3. LeaseOf!Requeue(j)
      BY <1>0, <2>1, <2>2, <2>3, <2>4, <3>2, RunEnds DEF LeaseOf!Requeue
    <3> QED
      BY <3>3 DEF LeaseOf!LeaseNext
  <2>5. CASE ~ (tries[w] < MaxAttempts)
    <3>1. status' = [status EXCEPT ![j] = "FAILED"]
      BY <1>6, <2>1, <2>5 DEF Fail, MarkFailed
    <3>2. FreePhase[status'[j]] = "dead" /\ \A i \in Job \ {j} : status'[i] = status[i]
      BY <1>1, <3>1 DEF TypeOK, FreePhase
    <3>3. attempts[j] = MaxAttempts
      BY <2>2, <2>5, ConfigAssumption
    <3>4. LeaseOf!GiveUp(j)
      BY <1>0, <2>1, <2>3, <3>2, <3>3, RunEnds DEF LeaseOf!GiveUp
    <3> QED
      BY <3>4 DEF LeaseOf!LeaseNext
  <2> QED
    BY <2>4, <2>5
<1>7. ASSUME NEW w \in Worker, Forget(w) PROVE [LeaseOf!LeaseNext]_(LeaseOf!leaseVars)
  <2>1. /\ cur' = [cur EXCEPT ![w] = NoJob]
        /\ UNCHANGED <<status, attempts>>
    BY <1>7 DEF Forget, jobVars
  <2>2. CASE cur[w] = NoJob
    BY <1>0, <1>1, <2>1, <2>2, NoRunNoChange DEF TypeOK
  <2>3. CASE cur[w] # NoJob
    <3>1. PICK j \in Job : cur[w] = j
      BY <1>1, <2>3 DEF TypeOK
    <3>2. status'[j] = "PROCESSING" \/ status'[j] = "COMPLETED"
      BY <1>1, <2>1, <2>3, <3>1 DEF HeldRows
    <3>3. LeaseOf!EndLease(j, FreePhase[status'[j]])
      BY <1>0, <2>1, <3>1, RunEnds
    <3>4. LeaseOf!Lose(j) \/ LeaseOf!Finish(j)
      BY <3>2, <3>3 DEF LeaseOf!Lose, LeaseOf!Finish, FreePhase
    <3> QED
      BY <3>4 DEF LeaseOf!LeaseNext
  <2> QED
    BY <2>2, <2>3
<1>8. ASSUME NEW r \in Receiver, Create(r) PROVE LeaseOf!LeaseNext
  <2>1. PICK j \in Job : /\ status[j] = "NONE"
                         /\ status' = [status EXCEPT ![j] = "PENDING"]
    BY <1>8 DEF Create
  <2>2. UNCHANGED <<cur, attempts>>
    BY <1>8 DEF Create, workerVars
  <2>3. \A w \in Worker : cur[w] # j
    BY <1>1, <2>1, NullAssumption DEF HeldRows
  <2>4. PhaseOf(j) = "absent" /\ HolderOf(j) = NoJob
    BY <1>0, <2>1, <2>3 DEF FreeView, FreePhase
  <2>5. PhaseOf(j)' = "queued" /\ HolderOf(j)' = NoJob
    <3>1. status'[j] = "PENDING" /\ \A w \in Worker : cur'[w] # j
      BY <1>1, <2>1, <2>2, <2>3 DEF TypeOK
    <3> QED
      BY <1>0, <3>1 DEF FreeView, FreePhase
  <2>6. OthersKept(j)
    <3>1. \A i \in Job \ {j} : status'[i] = status[i]
      BY <1>1, <2>1 DEF TypeOK
    <3> QED
      BY <1>0, <2>2, <3>1, OthersKeep
  <2>7. LeaseOf!Submit(j)
    BY <2>2, <2>4, <2>5, <2>6 DEF LeaseOf!Submit, OthersKept
  <2> QED
    BY <2>7 DEF LeaseOf!LeaseNext
<1> QED
  BY <1>2, <1>3, <1>4, <1>5, <1>6, <1>7, <1>8
     DEF Next, WorkerStep, vars, jobVars, workerVars, Fetch, Skip, Read, Dedup,
         Apply, RunAborts, Crash, HookAborts, Receive, Tick

\* The job table, its workers and the webhook implement exclusive, bounded leases.
THEOREM LeaseImplemented == Spec => ImplementsLease
<1>1. Init => LeaseOf!LeaseInit
  BY LeaseInitial
<1>2. Inductive /\ Inductive' /\ [Next]_vars => [LeaseOf!LeaseNext]_(LeaseOf!leaseVars)
  BY LeaseStep
<1> QED
  BY <1>1, <1>2, InductiveInvariant, PTL DEF Spec, ImplementsLease, LeaseOf!LeaseSpec
=============================================================================
