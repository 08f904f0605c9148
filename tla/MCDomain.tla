------------------------------ MODULE MCDomain ------------------------------
(***************************************************************************)
(* The domain services in one run.  The specifications abstract from what  *)
(* the others do to their rows, so they share no state, and an interleaving*)
(* of two would show nothing that the steps of each do not: a behaviour    *)
(* exercises one of them, and part, which never changes, tells which.  The *)
(* others keep one initial state.                                          *)
(***************************************************************************)
EXTENDS Tenants, Occurrences, WorkOrderTasks, Bookings, ResourceSkills, Paging

VARIABLE part

MCRules == {[start |-> 1, step |-> 1, until |-> 9], [start |-> 0, step |-> 2, until |-> 5],
            [start |-> 3, step |-> 1, until |-> 2]}

TypeOK ==
    TenantsTypeOK /\ OccTypeOK /\ TaskTypeOK /\ BookTypeOK /\ SkillsTypeOK /\ PagingTypeOK

Init ==
    /\ part \in {"tenants", "occurrences", "tasks", "bookings", "skills", "paging"}
    /\ IF part = "tenants" THEN TenantsInit ELSE rows = {} /\ refs = {}
    /\ BookInit /\ SkillsInit
    /\ OccInit    /\ (part # "occurrences" => rule.start = 1)
    /\ TaskInit   /\ (part # "tasks" => template = {})
    /\ PagingInit /\ (part # "paging" => distinct)

Next ==
    \/ /\ part = "tenants" /\ TenantsNext
       /\ UNCHANGED <<part, occVars, taskVars, bookVars, skillVars, pagingVars>>
    \/ /\ part = "occurrences" /\ OccNext
       /\ UNCHANGED <<part, tenantVars, taskVars, bookVars, skillVars, pagingVars>>
    \/ /\ part = "tasks" /\ TaskNext
       /\ UNCHANGED <<part, tenantVars, occVars, bookVars, skillVars, pagingVars>>
    \/ /\ part = "bookings" /\ BookNext
       /\ UNCHANGED <<part, tenantVars, occVars, taskVars, skillVars, pagingVars>>
    \/ /\ part = "skills" /\ SkillsNext
       /\ UNCHANGED <<part, tenantVars, occVars, taskVars, bookVars, pagingVars>>
    \/ /\ part = "paging" /\ PagingNext
       /\ UNCHANGED <<part, tenantVars, occVars, taskVars, bookVars, skillVars>>

Spec == Init /\ [][Next]_<<part, tenantVars, occVars, taskVars, bookVars, skillVars, pagingVars>>
=============================================================================
