------------------------------ MODULE JobLease ------------------------------
(***************************************************************************)
(* What the sync-job table promises, without batches, claims or database   *)
(* calls: a queued job is leased to one runner at a time, at most MaxRuns  *)
(* times; a lease ends with the job done, queued again, dead after the     *)
(* last run, or lost with its runner; nothing follows done, dead and lost. *)
(***************************************************************************)
EXTENDS Naturals

CONSTANTS Jobs, Runners, MaxRuns, Nobody

VARIABLES
    phase,      \* of each job
    runner,     \* who holds its lease
    runs        \* leases given so far

leaseVars == <<phase, runner, runs>>

LeaseInit ==
    /\ phase = [j \in Jobs |-> "absent"]
    /\ runner = [j \in Jobs |-> Nobody]
    /\ runs = [j \in Jobs |-> 0]

Submit(j) ==
    /\ phase[j] = "absent"
    /\ phase' = [phase EXCEPT ![j] = "queued"]
    /\ UNCHANGED <<runner, runs>>

\* A runner holds one lease at a time.
Lease(j, r) ==
    /\ phase[j] = "queued"
    /\ runs[j] < MaxRuns
    /\ \A i \in Jobs : runner[i] # r
    /\ phase' = [phase EXCEPT ![j] = "running"]
    /\ runner' = [runner EXCEPT ![j] = r]
    /\ runs' = [runs EXCEPT ![j] = @ + 1]

EndLease(j, to) ==
    /\ phase[j] = "running"
    /\ phase' = [phase EXCEPT ![j] = to]
    /\ runner' = [runner EXCEPT ![j] = Nobody]
    /\ UNCHANGED runs

Finish(j)  == EndLease(j, "done")
Requeue(j) == runs[j] < MaxRuns /\ EndLease(j, "queued")
GiveUp(j)  == runs[j] = MaxRuns /\ EndLease(j, "dead")
Lose(j)    == EndLease(j, "lost")

LeaseNext ==
    \E j \in Jobs :
        \/ Submit(j) \/ Finish(j) \/ Requeue(j) \/ GiveUp(j) \/ Lose(j)
        \/ \E r \in Runners : Lease(j, r)

LeaseSpec == LeaseInit /\ [][LeaseNext]_leaseVars
=============================================================================
