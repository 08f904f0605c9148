--------------------------- MODULE WorkOrderTasks ---------------------------
(***************************************************************************)
(* Incidents of a work order, the tasks that are instantiated for them     *)
(* from a template, and the readiness computed from the tasks              *)
(* (src/modules/work-orders/workOrders.service.ts), with the template as   *)
(* src/modules/work-templates/workTemplates.service.ts replaces it.        *)
(*                                                                         *)
(* Instantiating counts the tasks, reads the template and inserts copies,  *)
(* in three calls outside any transaction and with no index behind them.   *)
(***************************************************************************)
EXTENDS Naturals, FiniteSets

CONSTANTS
    Incident,       \* pool of incidents of the work order
    Title,          \* titles of template tasks
    TaskRequest,    \* requests that may be in progress at once
    MaxVersions     \* bound: replacements of the template's tasks

ASSUME TasksAssumption ==
    /\ MaxVersions \in Nat /\ Incident # {}
    /\ IsFiniteSet(Incident) /\ IsFiniteSet(Title) /\ IsFiniteSet(TaskRequest)

VARIABLES
    template,   \* titles of the template's tasks, as they are now
    versions,   \* history: every set of titles it ever had
    order,      \* sortOrder of each incident there is, 0 for none
    copies,     \* how many tasks with a title each incident has
    open,       \* those of them that are neither DONE nor SKIPPED
    batches,    \* history: inserts of tasks into each incident
    answer,     \* history: the readiness last answered, "none" when it is void
    tpc, ti,    \* what a request does next, and for which incident
    read        \* the titles, or the highest sortOrder, it has read

tasksOfVars == <<copies, open, batches>>
taskReqVars == <<tpc, ti, read>>
taskVars    == <<template, versions, order, tasksOfVars, answer, taskReqVars>>

Known == {i \in Incident : order[i] > 0}

TaskTypeOK ==
    /\ template \subseteq Title /\ versions \subseteq SUBSET Title
    /\ order \in [Incident -> Nat]
    /\ copies \in [Incident -> [Title -> Nat]] /\ open \in [Incident -> [Title -> Nat]]
    /\ \A i \in Incident, t \in Title : open[i][t] <= copies[i][t]
    /\ batches \in [Incident -> Nat]
    /\ tpc \in [TaskRequest -> {"idle", "add", "template", "insert", "readiness"}]
    /\ answer \in {"none", "ready", "notReady"}
    /\ ti \in [TaskRequest -> Incident]
    /\ read \in [TaskRequest -> [titles : SUBSET Title, last : Nat]]

NothingRead == [titles |-> {}, last |-> 0]

TaskInit ==
    /\ template \in SUBSET Title /\ versions = {template}
    /\ order = [i \in Incident |-> 0]
    /\ copies = [i \in Incident |-> [t \in Title |-> 0]]
    /\ open = [i \in Incident |-> [t \in Title |-> 0]]
    /\ batches = [i \in Incident |-> 0]
    /\ answer = "none"
    /\ tpc = [q \in TaskRequest |-> "idle"]
    /\ ti = [q \in TaskRequest |-> CHOOSE i \in Incident : TRUE]
    /\ read = [q \in TaskRequest |-> NothingRead]

TaskStep(q, step, i, r) ==
    /\ tpc' = [tpc EXCEPT ![q] = step]
    /\ ti' = [ti EXCEPT ![q] = i]
    /\ read' = [read EXCEPT ![q] = r]

TaskEnd(q) == TaskStep(q, "idle", CHOOSE i \in Incident : TRUE, NothingRead)

-----------------------------------------------------------------------------
(* Incidents                                                                *)

\* Without a sortOrder in the input the highest one is read; order holds
\* sortOrder + 1, so that 0 can stand for no incident.
AddIncidentRead(q) ==
    /\ tpc[q] = "idle"
    /\ \E i \in Incident \ Known :
        TaskStep(q, "add", i,
            [NothingRead EXCEPT !.last = CHOOSE n \in {order[j] : j \in Incident} :
                                            \A j \in Incident : order[j] <= n])
    /\ UNCHANGED <<template, versions, order, tasksOfVars, answer>>

AddIncidentCreate(q) ==
    /\ tpc[q] = "add" /\ ti[q] \notin Known
    /\ order' = [order EXCEPT ![ti[q]] = read[q].last + 1]
    /\ TaskEnd(q)
    /\ UNCHANGED <<template, versions, tasksOfVars, answer>>

-----------------------------------------------------------------------------
(* Instantiation                                                            *)

\* Faulty variant: nothing is counted.
CountNone(i) == 0

\* workOrderTask.count { incidentId }
ExistingCount(i) == Cardinality({t \in Title : copies[i][t] > 0})

\* TASKS_ALREADY_INSTANTIATED when the incident has tasks.
InstantiateCount(q, i) ==
    /\ tpc[q] = "idle" /\ i \in Known
    /\ IF ExistingCount(i) > 0 THEN UNCHANGED taskReqVars
       ELSE TaskStep(q, "template", i, NothingRead)
    /\ UNCHANGED <<template, versions, order, tasksOfVars, answer>>

InstantiateTemplate(q) ==
    /\ tpc[q] = "template"
    /\ IF template = {} THEN TaskEnd(q)
       ELSE TaskStep(q, "insert", ti[q], [NothingRead EXCEPT !.titles = template])
    /\ UNCHANGED <<template, versions, order, tasksOfVars, answer>>

AddCopies(f, T) == [t \in Title |-> IF t \in T THEN f[t] + 1 ELSE f[t]]

\* createMany: a TODO task for each title that was read.
InstantiateInsert(q) ==
    /\ tpc[q] = "insert"
    /\ copies' = [copies EXCEPT ![ti[q]] = AddCopies(@, read[q].titles)]
    /\ open' = [open EXCEPT ![ti[q]] = AddCopies(@, read[q].titles)]
    /\ batches' = [batches EXCEPT ![ti[q]] = @ + 1]
    /\ answer' = "none"
    /\ TaskEnd(q)
    /\ UNCHANGED <<template, versions, order>>

-----------------------------------------------------------------------------
(* Task status, template, failures                                          *)

\* Faulty variant: the tasks of one incident decide.
ReadyOfOne ==
    \E i \in Incident :
        (\E t \in Title : copies[i][t] > 0) /\ \A t \in Title : open[i][t] = 0

\* computeCompletionReadiness over the tasks of all incidents: there are some,
\* and none is pending.
IsReady ==
    /\ \E i \in Incident, t \in Title : copies[i][t] > 0
    /\ \A i \in Incident, t \in Title : open[i][t] = 0

\* A task becomes DONE or SKIPPED, or is opened again (TODO, IN_PROGRESS) ...
UpdateTaskStatus(q, i, t) ==
    /\ tpc[q] = "idle"
    /\ \/ open[i][t] > 0 /\ open' = [open EXCEPT ![i][t] = @ - 1]
       \/ open[i][t] < copies[i][t] /\ open' = [open EXCEPT ![i][t] = @ + 1]
    /\ TaskStep(q, "readiness", i, NothingRead)
    /\ UNCHANGED <<template, versions, order, copies, batches, answer>>

\* ... and the answer tells the readiness that is read after it.
AnswerReadiness(q) ==
    /\ tpc[q] = "readiness"
    /\ answer' = IF IsReady THEN "ready" ELSE "notReady"
    /\ TaskEnd(q)
    /\ UNCHANGED <<template, versions, order, tasksOfVars>>

\* One transaction deletes the template's tasks and inserts the new ones.
ReplaceTasks(T) ==
    /\ template' = T
    /\ versions' = versions \cup {T}

UpdateTemplate(T) ==
    /\ Cardinality(versions \cup {T}) <= MaxVersions + 1
    /\ ReplaceTasks(T)
    /\ UNCHANGED <<order, tasksOfVars, answer, taskReqVars>>

AbortTaskRequest(q) ==
    /\ tpc[q] # "idle"
    /\ answer' = IF tpc[q] = "readiness" THEN "none" ELSE answer
    /\ TaskEnd(q)
    /\ UNCHANGED <<template, versions, order, tasksOfVars>>

TaskNext ==
    \/ \E q \in TaskRequest :
        \/ AddIncidentRead(q) \/ AddIncidentCreate(q)
        \/ InstantiateTemplate(q) \/ InstantiateInsert(q)
        \/ AnswerReadiness(q) \/ AbortTaskRequest(q)
        \/ \E i \in Incident : InstantiateCount(q, i)
        \/ \E i \in Incident, t \in Title : UpdateTaskStatus(q, i, t)
    \/ \E T \in SUBSET Title : UpdateTemplate(T)

TaskSpec == TaskInit /\ [][TaskNext]_taskVars

-----------------------------------------------------------------------------
Titles(i) == {t \in Title : copies[i][t] > 0}

(***************************************************************************)
(* The tasks of an incident are copies of its template: those of one       *)
(* version exactly when they were inserted once, and they are inserted     *)
(* again only by requests that overlap.                                    *)
(***************************************************************************)
TasksAreCopies ==
    \A i \in Incident :
        /\ batches[i] <= Cardinality(TaskRequest)
        /\ batches[i] = 1 => Titles(i) \in versions

(***************************************************************************)
(* Whoever closes the last task learns that the work order is ready: once  *)
(* every status change has been answered, the last answer tells whether    *)
(* tasks are pending, unless tasks were added since or an answer was lost. *)
(***************************************************************************)
LastAnswerTells ==
    answer # "none" /\ (\A q \in TaskRequest : tpc[q] # "readiness")
        => (answer = "ready" <=> {i \in Incident : \E t \in Title : open[i][t] > 0} = {})
=============================================================================
