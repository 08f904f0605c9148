--------------------------- MODULE SyncJobsProofs ---------------------------
(* Theorems about SyncJobs for every set of workers, receivers and events   *)
(* and every value of the bounds.                                           *)
EXTENDS SyncJobs, TLAPS

\* Init establishes the inductive invariant.
LEMMA InitInductive == Init => Inductive
  BY NullAssumption, ConfigAssumption
  DEF Init, Inductive, TypeOK, HeldRows, Rows, Requests, Holds,
      NoJobRunTwiceAtOnce, AttemptsBudget, CompletedMeansApplied,
      Status, Step, Held

\* The candidate a worker is about to claim is a row, and so are the others.
LEMMA CandidateIsRow ==
  ASSUME Inductive, NEW w \in Worker, pc[w] = "claim"
  PROVE  Head(batch[w]) \in Job /\ Tail(batch[w]) \in Seq(Job)
  BY DEF Inductive, TypeOK, HeldRows

\* A held row exists, its event is real and its attempts are in range.
LEMMA HeldRowFacts ==
  ASSUME Inductive, NEW w \in Worker, pc[w] \in Held
  PROVE  /\ cur[w] \in Job /\ event[cur[w]] \in Event
         /\ status[cur[w]] # "PENDING" /\ attempts[cur[w]] \in 0 .. MaxAttempts
         /\ pc[w] # "read" => tries[w] = attempts[cur[w]]
  BY NullAssumption, ConfigAssumption
  DEF Inductive, TypeOK, HeldRows, Rows, AttemptsBudget, Held

\* Each step of a worker, a request or the clock keeps it.
LEMMA NextInductive == Inductive /\ [Next]_vars => Inductive'
<1> SUFFICES ASSUME Inductive, [Next]_vars PROVE Inductive'
  OBVIOUS
<1> USE NullAssumption
     DEF Inductive, HeldRows, Rows, Requests, Holds, NoJobRunTwiceAtOnce,
         AttemptsBudget, CompletedMeansApplied, Held,
         jobVars, workerVars, hookVars, envVars
<1>1. CASE UNCHANGED vars
  BY <1>1 DEF vars, TypeOK
<1>2. ASSUME NEW w \in Worker, Fetch(w) PROVE Inductive'
  BY <1>2 DEF Fetch, Due, TypeOK, Step
<1>3. ASSUME NEW w \in Worker, Claim(w) PROVE Inductive'
  <2> USE <1>3 DEF Claim, ClaimRow
  <2>0. Head(batch[w]) \in Job /\ Tail(batch[w]) \in Seq(Job)
    BY CandidateIsRow
  <2>1. TypeOK'
    BY <2>0 DEF TypeOK, Step, Status
  <2>2. HeldRows'
    <3>1. TypeOK /\ HeldRows /\ status[Head(batch[w])] = "PENDING"
      OBVIOUS
    <3> HIDE DEF Inductive, Rows, Requests, NoJobRunTwiceAtOnce, AttemptsBudget,
                 CompletedMeansApplied
    <3>2. ASSUME NEW v \in Worker, v # w, pc[v] \in Held PROVE cur[v] # Head(batch[w])
      BY <3>1, <3>2
    <3> QED
      BY <2>0, <3>1, <3>2 DEF TypeOK
  <2>3. Rows' /\ Requests'
    BY <2>0 DEF TypeOK
  <2>4. NoJobRunTwiceAtOnce'
    BY <2>0 DEF TypeOK
  <2>5. AttemptsBudget'
    BY <2>0, ConfigAssumption DEF TypeOK
  <2>6. CompletedMeansApplied'
    BY <2>0 DEF TypeOK
  <2> QED
    BY <2>1, <2>2, <2>3, <2>4, <2>5, <2>6
<1>4. ASSUME NEW w \in Worker, Skip(w) PROVE Inductive'
  <2>0. Tail(batch[w]) \in Seq(Job)
    BY <1>4, CandidateIsRow DEF Skip
  <2>1. TypeOK /\ HeldRows
    OBVIOUS
  <2>2. TypeOK' /\ HeldRows'
    <3> HIDE DEF Inductive, Rows, Requests, NoJobRunTwiceAtOnce, AttemptsBudget,
                 CompletedMeansApplied
    <3>1. TypeOK'
      BY <1>4, <2>0, <2>1 DEF Skip, Resume, TypeOK, Step
    <3>2. /\ batch' = [batch EXCEPT ![w] = Tail(batch[w])]
          /\ pc' = [pc EXCEPT ![w] = IF Tail(batch[w]) = <<>> THEN "idle" ELSE "claim"]
          /\ cur[w] = NoJob
      BY <1>4, <2>1 DEF Skip, Resume
    <3>3. UNCHANGED <<status, event, attempts, cur, tries, applied>>
      BY <1>4 DEF Skip
    <3> HIDE <1>4
    <3> QED
      BY <2>1, <3>1, <3>2, <3>3 DEF TypeOK
  <2>3. (Rows /\ Requests /\ NoJobRunTwiceAtOnce)'
    BY <1>4 DEF Skip, Resume, TypeOK
  <2>4. (AttemptsBudget /\ CompletedMeansApplied)'
    BY <1>4 DEF Skip, TypeOK
  <2> QED
    BY <2>2, <2>3, <2>4
<1>5. ASSUME NEW w \in Worker, Read(w) PROVE Inductive'
  BY <1>5 DEF Read, TypeOK, Step
<1>6. ASSUME NEW w \in Worker, Dedup(w) PROVE Inductive'
  BY <1>6 DEF Dedup, Duplicate, TypeOK, Step
<1>7. ASSUME NEW w \in Worker, Apply(w) PROVE Inductive'
  <2> USE <1>7 DEF Apply, MoveLastSync
  <2>0. /\ cur[w] \in Job /\ event[cur[w]] \in Event
        /\ attempts[cur[w]] \in 0 .. MaxAttempts
        /\ pc[w] # "read" => tries[w] = attempts[cur[w]]
    BY HeldRowFacts
  <2>1. TypeOK'
    BY <2>0 DEF TypeOK, Step
  <2>2. HeldRows'
    BY <2>0 DEF TypeOK
  <2>3. Rows' /\ Requests'
    BY <2>0 DEF TypeOK
  <2>4. NoJobRunTwiceAtOnce'
    BY <2>0 DEF TypeOK
  <2>5. AttemptsBudget'
    BY <2>0, ConfigAssumption DEF TypeOK
  <2>6. CompletedMeansApplied'
    BY <2>0 DEF TypeOK
  <2> QED
    BY <2>1, <2>2, <2>3, <2>4, <2>5, <2>6
<1>8. ASSUME NEW w \in Worker, Complete(w) PROVE Inductive'
  BY <1>8 DEF Complete, MarkCompleted, Release, Resume, TypeOK, Step, Status
<1>9. ASSUME NEW w \in Worker, Fail(w) PROVE Inductive'
  <2> USE <1>9 DEF Fail, MarkFailed, Release, Resume
  <2>0. /\ cur[w] \in Job /\ event[cur[w]] \in Event
        /\ attempts[cur[w]] \in 0 .. MaxAttempts
        /\ pc[w] # "read" => tries[w] = attempts[cur[w]]
    BY HeldRowFacts
  <2>1. TypeOK'
    <3> HIDE DEF Inductive, HeldRows, Rows, Requests, NoJobRunTwiceAtOnce,
                 AttemptsBudget, CompletedMeansApplied
    <3>1. TypeOK /\ tries[w] \in 0 .. MaxAttempts
      BY <2>0 DEF Inductive
    <3>2. RetryDelay(tries[w]) \in Int
      BY <3>1, ConfigAssumption
    <3>3. wait' \in [Job -> Int] /\ status' \in [Job -> Status]
      BY <2>0, <3>1, <3>2 DEF TypeOK, Status
    <3> QED
      BY <3>1, <3>3 DEF TypeOK, Step
  <2>2. HeldRows'
    BY <2>0 DEF TypeOK
  <2>3. Rows' /\ Requests'
    BY <2>0 DEF TypeOK
  <2>4. NoJobRunTwiceAtOnce'
    BY <2>0 DEF TypeOK
  <2>5. AttemptsBudget'
    BY <2>0, ConfigAssumption DEF TypeOK
  <2>6. CompletedMeansApplied'
    BY <2>0 DEF TypeOK
  <2> QED
    BY <2>1, <2>2, <2>3, <2>4, <2>5, <2>6
<1>10. ASSUME NEW w \in Worker, StepRaises(w) PROVE Inductive'
  <2> USE <1>10 DEF StepRaises
  <2>0. /\ cur[w] \in Job /\ event[cur[w]] \in Event
        /\ attempts[cur[w]] \in 0 .. MaxAttempts
        /\ pc[w] # "read" => tries[w] = attempts[cur[w]]
    BY HeldRowFacts
  <2>1. CASE UNCHANGED <<jobVars, applied>>
    BY <2>0, <2>1 DEF TypeOK, Step
  <2>2. CASE pc[w] = "apply" /\ MoveLastSync(cur[w]) /\ UNCHANGED jobVars
    BY <2>0, <2>2 DEF TypeOK, Step, MoveLastSync
  <2>3. CASE pc[w] = "complete" /\ MarkCompleted(cur[w]) /\ UNCHANGED applied
    BY <2>0, <2>3 DEF TypeOK, Step, Status, MarkCompleted
  <2> QED
    BY <2>1, <2>2, <2>3
<1>11. ASSUME NEW w \in Worker, RunAborts(w) PROVE Inductive'
  BY <1>11 DEF RunAborts, Forget, TypeOK, Step
<1>12. ASSUME NEW w \in Worker, Crash(w) PROVE Inductive'
  BY <1>12 DEF Crash, Forget, TypeOK, Step
<1>13. ASSUME NEW r \in Receiver, Create(r) PROVE Inductive'
  <2> USE <1>13 DEF Create
  <2>1. TypeOK'
    BY DEF TypeOK, Status
  <2>2. HeldRows'
    BY DEF TypeOK
  <2>3. Rows' /\ Requests'
    BY DEF TypeOK
  <2>4. NoJobRunTwiceAtOnce'
    BY DEF TypeOK
  <2>5. AttemptsBudget'
    BY ConfigAssumption DEF TypeOK
  <2>6. CompletedMeansApplied'
    BY DEF TypeOK
  <2> QED
    BY <2>1, <2>2, <2>3, <2>4, <2>5, <2>6
<1>14. ASSUME NEW r \in Receiver, HookAborts(r) PROVE Inductive'
  BY <1>14 DEF HookAborts, TypeOK
<1>15. ASSUME NEW r \in Receiver, NEW e \in Event, Receive(r, e) PROVE Inductive'
  BY <1>15 DEF Receive, TypeOK
<1>16. CASE Tick
  BY <1>16 DEF Tick, TypeOK
<1> QED
  BY <1>1, <1>2, <1>3, <1>4, <1>5, <1>6, <1>7, <1>8, <1>9, <1>10, <1>11,
     <1>12, <1>13, <1>14, <1>15, <1>16 DEF Next, WorkerStep

\* The inductive invariant holds in every reachable state.
THEOREM InductiveInvariant == Spec => []Inductive
  BY InitInductive, NextInductive, PTL DEF Spec

\* Type correctness of the table, the workers and the requests.
THEOREM TypeCorrect == Spec => []TypeOK
<1>1. Inductive => TypeOK
  BY DEF Inductive
<1> QED
  BY <1>1, InductiveInvariant, PTL

\* The conditional claim alone keeps two workers from running one job at once.
THEOREM ExclusiveRuns == Spec => []NoJobRunTwiceAtOnce
<1>1. Inductive => NoJobRunTwiceAtOnce
  BY DEF Inductive
<1> QED
  BY <1>1, InductiveInvariant, PTL

\* No job is run more than maxAttempts times or given up before that.
THEOREM BudgetKept == Spec => []AttemptsBudget
<1>1. Inductive => AttemptsBudget
  BY DEF Inductive
<1> QED
  BY <1>1, InductiveInvariant, PTL

\* COMPLETED is never written for an event that was not applied.
THEOREM CompletionSound == Spec => []CompletedMeansApplied
<1>1. Inductive => CompletedMeansApplied
  BY DEF Inductive
<1> QED
  BY <1>1, InductiveInvariant, PTL

\* A settled row keeps its status whatever stale run is still under way: each
\* step writes either a PENDING row, a held one or one that is not there yet.
LEMMA SettledStep ==
  ASSUME Inductive, [Next]_vars, NEW j \in Job, Settled(j)
  PROVE  status'[j] = status[j]
<1>1. TypeOK /\ HeldRows
  BY DEF Inductive
<1>2. status[j] \in {"COMPLETED", "FAILED"} /\ \A w \in Worker : ~ Holds(w, j)
  BY DEF Settled
<1>3. CASE UNCHANGED status
  BY <1>3
<1>4. ASSUME NEW w \in Worker, Claim(w) PROVE status'[j] = status[j]
  BY <1>1, <1>2, <1>4 DEF Claim, ClaimRow, TypeOK
<1>5. ASSUME NEW w \in Worker, Complete(w) PROVE status'[j] = status[j]
  BY <1>1, <1>2, <1>5 DEF Complete, MarkCompleted, Holds, Held, TypeOK
<1>6. ASSUME NEW w \in Worker, Fail(w) PROVE status'[j] = status[j]
  BY <1>1, <1>2, <1>6 DEF Fail, MarkFailed, Holds, Held, TypeOK
<1>7. ASSUME NEW w \in Worker, StepRaises(w) PROVE status'[j] = status[j]
  BY <1>1, <1>2, <1>7
     DEF StepRaises, MarkCompleted, Holds, Held, TypeOK, jobVars
<1>8. ASSUME NEW r \in Receiver, Create(r) PROVE status'[j] = status[j]
  BY <1>1, <1>2, <1>8 DEF Create, TypeOK
<1> QED
  BY <1>3, <1>4, <1>5, <1>6, <1>7, <1>8
     DEF Next, WorkerStep, vars, jobVars, Fetch, Skip, Read, Dedup, Apply,
         RunAborts, Crash, Forget, HookAborts, Receive, Tick

\* COMPLETED and FAILED are final once the run that wrote them is over.
THEOREM SettledIsFinal == Spec => SettledForGood
<1>1. Inductive /\ [Next]_vars
        => [\A j \in Job : Settled(j) => status'[j] = status[j]]_vars
  BY SettledStep
<1> QED
  BY <1>1, InductiveInvariant, PTL DEF Spec, SettledForGood
=============================================================================
