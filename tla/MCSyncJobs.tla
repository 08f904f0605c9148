----------------------------- MODULE MCSyncJobs -----------------------------
(* SyncJobs for TLC: workers and receivers are interchangeable.             *)
EXTENDS SyncJobs, TLC

Symmetric == Permutations(Worker) \cup Permutations(Receiver)
=============================================================================
