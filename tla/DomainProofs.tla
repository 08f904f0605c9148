---------------------------- MODULE DomainProofs ----------------------------
(***************************************************************************)
(* Proofs about the domain services that MCDomain runs together, for every *)
(* value of their constants: each by itself, and at the end all of them.   *)
(***************************************************************************)
EXTENDS MCDomain, TenantsProofs, FiniteSetTheorems, TLAPS

(***************************************************************************)
(* Skills of a resource                                                    *)
(***************************************************************************)

\* A replacement still single has no other one beside it.
SingleAlone ==
    \A q \in SkillRequest : spc[q] # "idle" /\ single[q] =>
        \A p \in SkillRequest : p # q => spc[p] = "idle"

\* ... so that it has deleted every row there is when it inserts its own.
SingleSawAll ==
    \A q \in SkillRequest : spc[q] = "insert" /\ single[q] => owned \subseteq deleted[q]

\* A skill that the last list named and that is gone never comes back.
AskedKnown == ~asked.unclear => asked.list \subseteq skills \cup removed

SkillsInductive ==
    SkillsTypeOK /\ SingleAlone /\ SingleSawAll /\ AskedKnown /\ SkillsAsAsked

\* It holds at the start.
LEMMA SkillsInductiveInit == SkillsInit => SkillsInductive
  <1> SUFFICES ASSUME SkillsInit PROVE SkillsInductive
    OBVIOUS
  <1>1. asked = Clear({}) /\ ~asked.unclear /\ asked.list = {}
    BY DEF SkillsInit, Clear
  <1>2. SkillsTypeOK
    BY <1>1 DEF SkillsInit, SkillsTypeOK
  <1>3. SingleAlone /\ SingleSawAll
    BY DEF SkillsInit, SingleAlone, SingleSawAll
  <1>4. AskedKnown /\ SkillsAsAsked
    BY <1>1 DEF SkillsInit, AskedKnown, SkillsAsAsked
  <1> QED BY <1>2, <1>3, <1>4 DEF SkillsInductive

\* Skills that come and go.
LEMMA SkillsComeAndGo ==
    ASSUME SkillsInductive, NEW s \in Skill, SkillCreated(s) \/ SkillDeleted(s)
    PROVE  SkillsInductive'
  <1>0. SkillsTypeOK /\ SingleAlone /\ SingleSawAll /\ AskedKnown /\ SkillsAsAsked
    BY DEF SkillsInductive
  <1>1. UNCHANGED <<spc, list, deleted, single, asked>>
    BY DEF SkillCreated, SkillDeleted, skillReqVars
  <1>2. CASE SkillCreated(s)
    <2>1. s \notin removed /\ skills' = skills \cup {s} /\ UNCHANGED <<removed, owned>>
      BY <1>2 DEF SkillCreated
    <2>2. SkillsTypeOK'
      BY <1>0, <1>1, <2>1 DEF SkillsTypeOK
    <2>3. SingleAlone' /\ SingleSawAll'
      BY <1>0, <1>1, <2>1 DEF SingleAlone, SingleSawAll
    <2>4. AskedKnown' /\ SkillsAsAsked'
      BY <1>0, <1>1, <2>1 DEF AskedKnown, SkillsAsAsked
    <2> QED BY <2>2, <2>3, <2>4 DEF SkillsInductive
  <1>3. CASE SkillDeleted(s)
    <2>1. /\ skills' = skills \ {s} /\ removed' = removed \cup {s}
          /\ owned' = owned \ {s}
      BY <1>3 DEF SkillDeleted
    <2>2. SkillsTypeOK'
      BY <1>0, <1>1, <2>1 DEF SkillsTypeOK
    <2>3. SingleAlone' /\ SingleSawAll'
      BY <1>0, <1>1, <2>1 DEF SingleAlone, SingleSawAll
    <2>4. AskedKnown' /\ SkillsAsAsked'
      BY <1>0, <1>1, <2>1 DEF AskedKnown, SkillsAsAsked
    <2> QED BY <2>2, <2>3, <2>4 DEF SkillsInductive
  <1> QED BY <1>2, <1>3

\* A replacement begins: those in progress are no longer single.
LEMMA ReplacementBegins ==
    ASSUME SkillsInductive, NEW q \in SkillRequest, NEW S \in SUBSET Skill, ReplaceCheck(q, S)
    PROVE  SkillsInductive'
  <1>0. SkillsTypeOK /\ SingleAlone /\ SingleSawAll /\ AskedKnown /\ SkillsAsAsked
    BY DEF SkillsInductive
  <1>1. /\ spc[q] = "idle"
        /\ spc' = [spc EXCEPT ![q] = "delete"] /\ list' = [list EXCEPT ![q] = S]
        /\ single' = [p \in SkillRequest |->
                        IF p = q THEN {r \in SkillRequest : spc[r] # "idle"} = {}
                        ELSE single[p] /\ p \notin {r \in SkillRequest : spc[r] # "idle"}]
        /\ UNCHANGED <<skills, removed, owned, deleted, asked>>
    BY DEF ReplaceCheck
  <1>2. spc' \in [SkillRequest -> {"idle", "delete", "insert"}]
        /\ list' \in [SkillRequest -> SUBSET Skill]
    BY <1>0, <1>1 DEF SkillsTypeOK
  <1>3. single' \in [SkillRequest -> BOOLEAN]
    BY <1>0, <1>1 DEF SkillsTypeOK
  <1>4. SkillsTypeOK'
    BY <1>0, <1>1, <1>2, <1>3 DEF SkillsTypeOK
  <1>5. /\ spc'[q] = "delete"
        /\ \A p \in SkillRequest : p # q => spc'[p] = spc[p]
        /\ single'[q] => \A p \in SkillRequest : spc[p] = "idle"
        /\ \A p \in SkillRequest : p # q /\ single'[p] => spc[p] = "idle"
    BY <1>0, <1>1 DEF SkillsTypeOK
  <1>6. SingleAlone'
    BY <1>5 DEF SingleAlone
  <1>7. SingleSawAll'
    BY <1>5 DEF SingleSawAll
  <1>8. AskedKnown' /\ SkillsAsAsked'
    BY <1>0, <1>1 DEF AskedKnown, SkillsAsAsked
  <1> QED BY <1>4, <1>6, <1>7, <1>8 DEF SkillsInductive

\* It deletes the rows it sees.
LEMMA ReplacementDeletes ==
    ASSUME SkillsInductive, NEW q \in SkillRequest, ReplaceDelete(q)
    PROVE  SkillsInductive'
  <1>0. SkillsTypeOK /\ SingleAlone /\ SingleSawAll /\ AskedKnown /\ SkillsAsAsked
    BY DEF SkillsInductive
  <1>1. /\ spc[q] = "delete"
        /\ spc' = [spc EXCEPT ![q] = "insert"] /\ deleted' = [deleted EXCEPT ![q] = owned]
        /\ UNCHANGED <<skills, removed, owned, list, single, asked>>
    BY DEF ReplaceDelete, DeleteSeen
  <1>2. SkillsTypeOK'
    BY <1>0, <1>1 DEF SkillsTypeOK
  <1>3. /\ spc'[q] = "insert" /\ deleted'[q] = owned
        /\ \A p \in SkillRequest : p # q => spc'[p] = spc[p] /\ deleted'[p] = deleted[p]
    BY <1>0, <1>1 DEF SkillsTypeOK
  <1>4. SingleAlone'
    BY <1>0, <1>1, <1>3 DEF SingleAlone
  <1>5. SingleSawAll'
    BY <1>0, <1>1, <1>3 DEF SingleSawAll
  <1>6. AskedKnown' /\ SkillsAsAsked'
    BY <1>0, <1>1 DEF AskedKnown, SkillsAsAsked
  <1> QED BY <1>2, <1>4, <1>5, <1>6 DEF SkillsInductive

\* It commits, is refused, or is rolled back.
LEMMA ReplacementEnds ==
    ASSUME SkillsInductive, NEW q \in SkillRequest, ReplaceCommit(q) \/ AbortReplace(q)
    PROVE  SkillsInductive'
  <1>0. SkillsTypeOK /\ SingleAlone /\ SingleSawAll /\ AskedKnown /\ SkillsAsAsked
    BY DEF SkillsInductive
  <1>1. /\ spc[q] # "idle" /\ UNCHANGED <<skills, removed>>
        /\ spc' = [spc EXCEPT ![q] = "idle"] /\ list' = [list EXCEPT ![q] = {}]
        /\ deleted' = [deleted EXCEPT ![q] = {}] /\ single' = [single EXCEPT ![q] = TRUE]
    BY DEF ReplaceCommit, AbortReplace, SkillsEnd
  <1>2. \/ UNCHANGED <<owned, asked>>
        \/ /\ spc[q] = "insert" /\ list[q] \subseteq skills
           /\ owned' = (owned \ deleted[q]) \cup list[q]
           /\ asked' = IF single[q] THEN Clear(list[q]) ELSE Unclear
    BY DEF ReplaceCommit, AbortReplace
  <1>3. /\ spc' \in [SkillRequest -> {"idle", "delete", "insert"}]
        /\ list' \in [SkillRequest -> SUBSET Skill]
        /\ deleted' \in [SkillRequest -> SUBSET Skill]
        /\ single' \in [SkillRequest -> BOOLEAN]
    BY <1>0, <1>1 DEF SkillsTypeOK
  <1>4. /\ spc'[q] = "idle"
        /\ \A p \in SkillRequest : p # q =>
              spc'[p] = spc[p] /\ deleted'[p] = deleted[p] /\ single'[p] = single[p]
    BY <1>0, <1>1 DEF SkillsTypeOK
  <1>5. SingleAlone'
    BY <1>0, <1>4 DEF SingleAlone
  <1>6. SingleSawAll'
    <2> SUFFICES ASSUME NEW p \in SkillRequest, spc'[p] = "insert", single'[p]
                 PROVE  owned' \subseteq deleted'[p]
      BY DEF SingleSawAll
    <2>1. p # q /\ spc[p] = "insert" /\ single[p]
      BY <1>4
    <2>2. spc[q] = "idle"
      BY <1>0, <2>1 DEF SingleAlone
    <2> QED BY <1>1, <2>2
  <1>7. CASE UNCHANGED <<owned, asked>>
    <2>1. SkillsTypeOK'
      BY <1>0, <1>1, <1>3, <1>7 DEF SkillsTypeOK
    <2>2. AskedKnown' /\ SkillsAsAsked'
      BY <1>0, <1>1, <1>7 DEF AskedKnown, SkillsAsAsked
    <2> QED BY <1>5, <1>6, <2>1, <2>2 DEF SkillsInductive
  <1>8. CASE /\ spc[q] = "insert" /\ list[q] \subseteq skills
             /\ owned' = (owned \ deleted[q]) \cup list[q]
             /\ asked' = IF single[q] THEN Clear(list[q]) ELSE Unclear
    <2>1. owned' \subseteq skills'
      BY <1>0, <1>1, <1>8 DEF SkillsTypeOK
    <2>2. asked' \in {Unclear} \cup {Clear(S) : S \in SUBSET Skill}
      BY <1>0, <1>8 DEF SkillsTypeOK
    <2>3. SkillsTypeOK'
      BY <1>0, <1>1, <1>3, <2>1, <2>2 DEF SkillsTypeOK
    <2>4. single[q] => owned' = list[q]
      BY <1>0, <1>8 DEF SingleSawAll
    <2>5. AskedKnown' /\ SkillsAsAsked'
      BY <1>1, <1>8, <2>4 DEF AskedKnown, SkillsAsAsked, Clear, Unclear
    <2> QED BY <1>5, <1>6, <2>3, <2>5 DEF SkillsInductive
  <1> QED BY <1>2, <1>7, <1>8

\* The inductive invariant of the replacements.
THEOREM SkillsInductiveInvariant == SkillsSpec => []SkillsInductive
  <1>1. SkillsInductive /\ [SkillsNext]_skillVars => SkillsInductive'
    <2> SUFFICES ASSUME SkillsInductive, [SkillsNext]_skillVars PROVE SkillsInductive'
      OBVIOUS
    <2>1. ASSUME NEW s \in Skill, SkillCreated(s) \/ SkillDeleted(s) PROVE SkillsInductive'
      BY <2>1, SkillsComeAndGo
    <2>2. ASSUME NEW q \in SkillRequest, NEW S \in SUBSET Skill, ReplaceCheck(q, S)
          PROVE  SkillsInductive'
      BY <2>2, ReplacementBegins
    <2>3. ASSUME NEW q \in SkillRequest, ReplaceDelete(q) PROVE SkillsInductive'
      BY <2>3, ReplacementDeletes
    <2>4. ASSUME NEW q \in SkillRequest, ReplaceCommit(q) \/ AbortReplace(q)
          PROVE  SkillsInductive'
      BY <2>4, ReplacementEnds
    <2>5. CASE UNCHANGED skillVars
      BY <2>5 DEF skillVars, skillReqVars, SkillsInductive, SkillsTypeOK, SingleAlone,
                  SingleSawAll, AskedKnown, SkillsAsAsked
    <2> QED BY <2>1, <2>2, <2>3, <2>4, <2>5 DEF SkillsNext
  <1> QED BY <1>1, SkillsInductiveInit, PTL DEF SkillsSpec

(***************************************************************************)
(* After a replacement that no other one overlapped, a resource has of the *)
(* list that was asked for whatever still exists, and nothing else, with   *)
(* any number of skills and replacements (skills.service.ts).              *)
(***************************************************************************)
THEOREM SkillsReplaced == SkillsSpec => []SkillsAsAsked
  <1>1. SkillsInductive => SkillsAsAsked
    BY DEF SkillsInductive
  <1> QED BY <1>1, SkillsInductiveInvariant, PTL

(***************************************************************************)
(* Numbers                                                                 *)
(***************************************************************************)

\* A nonempty finite set of naturals has a highest element.
LEMMA HighestElement ==
    ASSUME NEW S \in SUBSET Nat, S # {}, IsFiniteSet(S)
    PROVE  \E h \in S : \A x \in S : x <= h
  <1> DEFINE Above(x) == {y \in S : y > x}
             T == {Above(x) : x \in S}
  <1>1. T \subseteq FiniteSubsetsOf(S) /\ T # {}
    <2>1. \A x \in S : Above(x) \in SUBSET S
      OBVIOUS
    <2>2. \A B \in SUBSET S : B \in FiniteSubsetsOf(S)
      BY FS_Subset DEF FiniteSubsetsOf
    <2> HIDE DEF Above
    <2> QED BY <2>1, <2>2
  <1>2. PICK A \in T : \A B \in T : <<B, A>> \notin StrictSubsetOrdering(S)
    <2> HIDE DEF T
    <2> QED BY <1>1, FS_StrictSubsetOrderingWellFounded, WFMin
  <1>3. PICK h \in S : A = Above(h)
    BY <1>2
  <1>4. ASSUME NEW x \in S, x > h PROVE FALSE
    <2>1. \A y \in S : y \in Nat
      OBVIOUS
    <2>2. Above(x) \subseteq Above(h) /\ x \in Above(h) /\ x \notin Above(x)
      <3>1. x \in Nat /\ h \in Nat /\ ~(x > x)
        BY <2>1
      <3>2. \A y \in S : y > x => y > h
        BY <1>4, <2>1
      <3> QED BY <1>4, <3>1, <3>2
    <2>3. Above(x) \in T /\ Above(x) \in SUBSET S /\ Above(h) \in SUBSET S
      OBVIOUS
    <2>4. <<Above(x), Above(h)>> \in StrictSubsetOrdering(S)
      <3> HIDE DEF Above
      <3> QED BY <2>2, <2>3 DEF StrictSubsetOrdering
    <2> QED BY <1>2, <1>3, <2>3, <2>4
  <1>5. \A x \in S : x \in Nat /\ ~(x > h)
    <2>1. \A x \in S : x \in Nat
      OBVIOUS
    <2> QED BY <1>4, <2>1
  <1> QED BY <1>5

(***************************************************************************)
(* Tasks of a work order                                                   *)
(***************************************************************************)

\* What a request inserts is a version of the template that has tasks.
InsertsVersion ==
    /\ template \in versions
    /\ \A q \in TaskRequest : tpc[q] = "insert" =>
            read[q].titles \in versions /\ read[q].titles # {}

\* An incident has tasks from its first insert on.
FilledByInserts == \A i \in Incident : batches[i] = 0 <=> Titles(i) = {}

\* Requests that have found an incident empty and may still insert into it.
Filling(i) == {q \in TaskRequest : tpc[q] \in {"template", "insert"} /\ ti[q] = i}

InsertsBounded ==
    \A i \in Incident : batches[i] + Cardinality(Filling(i)) <= Cardinality(TaskRequest)

InsertedOnce == \A i \in Incident : batches[i] = 1 => Titles(i) \in versions

\* A status has been changed, so that there is a task.
TaskChanged ==
    (\E q \in TaskRequest : tpc[q] = "readiness") => \E i \in Incident : Titles(i) # {}

TasksInductive ==
    /\ TaskTypeOK /\ InsertsVersion /\ FilledByInserts /\ InsertsBounded /\ InsertedOnce
    /\ TaskChanged /\ LastAnswerTells

\* One request moves on, and the others stay where they are.
LEMMA TaskStepFacts ==
    ASSUME TaskTypeOK, NEW q \in TaskRequest, NEW i \in Incident,
           NEW step \in {"idle", "add", "template", "insert", "readiness"},
           NEW r \in [titles : SUBSET Title, last : Nat], TaskStep(q, step, i, r)
    PROVE  /\ tpc' \in [TaskRequest -> {"idle", "add", "template", "insert", "readiness"}]
           /\ ti' \in [TaskRequest -> Incident]
           /\ read' \in [TaskRequest -> [titles : SUBSET Title, last : Nat]]
           /\ tpc'[q] = step /\ ti'[q] = i /\ read'[q] = r
           /\ \A p \in TaskRequest : p # q =>
                 tpc'[p] = tpc[p] /\ ti'[p] = ti[p] /\ read'[p] = read[p]
  <1>1. TaskTypeOK /\ TaskStep(q, step, i, r)
    OBVIOUS
  <1> QED BY <1>1 DEF TaskTypeOK, TaskStep

\* What a request that ends leaves behind.
LEMMA TaskEndFacts ==
    ASSUME TaskTypeOK, NEW q \in TaskRequest, TaskEnd(q)
    PROVE  /\ tpc' \in [TaskRequest -> {"idle", "add", "template", "insert", "readiness"}]
           /\ ti' \in [TaskRequest -> Incident]
           /\ read' \in [TaskRequest -> [titles : SUBSET Title, last : Nat]]
           /\ tpc'[q] = "idle"
           /\ \A p \in TaskRequest : p # q =>
                 tpc'[p] = tpc[p] /\ ti'[p] = ti[p] /\ read'[p] = read[p]
  <1>1. (CHOOSE i \in Incident : TRUE) \in Incident
    BY TasksAssumption
  <1>2. NothingRead \in [titles : SUBSET Title, last : Nat]
    BY DEF NothingRead
  <1>3. TaskStep(q, "idle", CHOOSE i \in Incident : TRUE, NothingRead)
    BY DEF TaskEnd
  <1> HIDE DEF NothingRead
  <1> DEFINE c == CHOOSE i \in Incident : TRUE
  <1>4. c \in Incident /\ TaskStep(q, "idle", c, NothingRead)
    BY <1>1, <1>3
  <1> HIDE DEF c
  <1> QED BY <1>2, <1>4, TaskStepFacts

\* The requests are finitely many, and so are those that fill an incident.
LEMMA FillingFinite ==
    ASSUME NEW i
    PROVE  /\ Filling(i) \subseteq TaskRequest /\ IsFiniteSet(Filling(i))
           /\ Cardinality(TaskRequest) \in Nat
           /\ \A S \in SUBSET TaskRequest :
                 IsFiniteSet(S) /\ Cardinality(S) \in Nat
                 /\ Cardinality(S) <= Cardinality(TaskRequest)
           /\ \A S \in SUBSET Filling(i) : Cardinality(S) <= Cardinality(Filling(i))
  <1>1. Filling(i) \in SUBSET TaskRequest
    BY DEF Filling
  <1>2. \A S \in SUBSET TaskRequest :
            IsFiniteSet(S) /\ Cardinality(S) \in Nat
            /\ Cardinality(S) <= Cardinality(TaskRequest)
    BY TasksAssumption, FS_Subset, FS_CardinalityType
  <1>3. Cardinality(TaskRequest) \in Nat
    BY TasksAssumption, FS_CardinalityType
  <1> QED BY <1>1, <1>2, <1>3, FS_Subset

\* Requests that only leave an incident do not bring it nearer to the bound.
LEMMA BoundKept ==
    ASSUME TaskTypeOK, InsertsBounded, UNCHANGED batches,
           \A i \in Incident : Filling(i)' \subseteq Filling(i)
    PROVE  InsertsBounded'
  <1> SUFFICES ASSUME NEW i \in Incident
               PROVE  batches[i] + Cardinality(Filling(i)') <= Cardinality(TaskRequest)
    BY DEF InsertsBounded
  <1>1. Filling(i)' \in SUBSET Filling(i) /\ Filling(i)' \in SUBSET TaskRequest
    BY FillingFinite
  <1> DEFINE F == Filling(i)
             G == Filling(i)'
  <1>2. /\ Cardinality(G) <= Cardinality(F) /\ Cardinality(G) \in Nat
        /\ Cardinality(F) \in Nat /\ Cardinality(TaskRequest) \in Nat
    BY <1>1, FillingFinite
  <1>3. batches[i] \in Nat /\ batches[i] + Cardinality(F) <= Cardinality(TaskRequest)
    BY DEF TaskTypeOK, InsertsBounded
  <1> HIDE DEF F, G
  <1>4. batches[i] + Cardinality(G) <= Cardinality(TaskRequest)
    BY <1>2, <1>3
  <1> QED BY <1>4 DEF G

\* IsReady tells, once there is a task, that none is pending.
LEMMA ReadyFacts ==
    ASSUME TaskTypeOK, NEW i \in Incident, Titles(i) # {}
    PROVE  IsReady <=> {j \in Incident : \E t \in Title : open[j][t] > 0} = {}
  <1>1. \A j \in Incident, t \in Title : open[j][t] \in Nat
    BY DEF TaskTypeOK
  <1>2. \E j \in Incident, t \in Title : copies[j][t] > 0
    BY DEF Titles
  <1>3. (\A j \in Incident, t \in Title : open[j][t] = 0)
            <=> \A j \in Incident, t \in Title : ~(open[j][t] > 0)
    BY <1>1
  <1> QED BY <1>2, <1>3 DEF IsReady

\* A step of one request that leaves the tasks alone keeps the invariant.
LEMMA TasksUntouched ==
    ASSUME TasksInductive, TaskTypeOK', NEW q \in TaskRequest,
           UNCHANGED <<template, versions, copies, open, batches>>,
           InsertsBounded',
           \A p \in TaskRequest : p # q => tpc'[p] = tpc[p] /\ read'[p] = read[p],
           tpc'[q] # "readiness",
           tpc'[q] = "insert" => read'[q].titles \in versions /\ read'[q].titles # {},
           \/ answer' = answer /\ tpc[q] # "readiness"
           \/ answer' = "none"
           \/ answer' = (IF IsReady THEN "ready" ELSE "notReady") /\ tpc[q] = "readiness"
    PROVE  TasksInductive'
  <1>0. /\ TaskTypeOK /\ InsertsVersion /\ FilledByInserts /\ InsertedOnce /\ TaskChanged
        /\ LastAnswerTells
    BY DEF TasksInductive
  <1>1. \A i \in Incident : Titles(i)' = Titles(i)
    BY DEF Titles
  <1>2. InsertsVersion'
    BY <1>0 DEF InsertsVersion
  <1>3. FilledByInserts' /\ InsertedOnce'
    BY <1>0, <1>1 DEF FilledByInserts, InsertedOnce
  <1>4. TaskChanged'
    BY <1>0, <1>1 DEF TaskChanged
  <1>5. LastAnswerTells'
    <2>1. CASE answer' = answer /\ tpc[q] # "readiness"
      <3>1. (\A p \in TaskRequest : tpc'[p] # "readiness")
                => \A p \in TaskRequest : tpc[p] # "readiness"
        BY <2>1
      <3> QED BY <1>0, <2>1, <3>1 DEF LastAnswerTells
    <2>2. CASE answer' = "none"
      BY <2>2 DEF LastAnswerTells
    <2>3. CASE answer' = (IF IsReady THEN "ready" ELSE "notReady") /\ tpc[q] = "readiness"
      <3>1. PICK i \in Incident : Titles(i) # {}
        BY <1>0, <2>3 DEF TaskChanged
      <3>2. IsReady <=> {j \in Incident : \E t \in Title : open[j][t] > 0} = {}
        BY <1>0, <3>1, ReadyFacts
      <3> QED BY <2>3, <3>2 DEF LastAnswerTells
    <2> QED BY <2>1, <2>2, <2>3
  <1> QED BY <1>2, <1>3, <1>4, <1>5 DEF TasksInductive

\* A request that stops being one that fills an incident, or that is none.
LEMMA FillingLeft ==
    ASSUME TasksInductive, UNCHANGED batches, NEW q \in TaskRequest,
           \A p \in TaskRequest : p # q => tpc'[p] = tpc[p] /\ ti'[p] = ti[p],
           tpc'[q] \in {"template", "insert"} =>
                tpc[q] \in {"template", "insert"} /\ ti'[q] = ti[q]
    PROVE  InsertsBounded'
  <1>1. \A i \in Incident : Filling(i)' \subseteq Filling(i)
    BY DEF Filling
  <1>2. TaskTypeOK /\ InsertsBounded
    BY DEF TasksInductive
  <1> QED BY <1>1, <1>2, BoundKept

\* Requests that read, answer or give up.
LEMMA TasksReadInductive ==
    ASSUME TasksInductive, NEW q \in TaskRequest,
           \/ AddIncidentRead(q) \/ AddIncidentCreate(q)
           \/ InstantiateTemplate(q) \/ AnswerReadiness(q) \/ AbortTaskRequest(q)
    PROVE  TasksInductive'
  <1>0. TaskTypeOK /\ InsertsVersion
    BY DEF TasksInductive
  <1>t. /\ template \subseteq Title /\ order \in [Incident -> Nat]
        /\ answer \in {"none", "ready", "notReady"}
        /\ ti[q] \in Incident /\ read[q] \in [titles : SUBSET Title, last : Nat]
    BY <1>0 DEF TaskTypeOK
  <1>1. CASE AddIncidentRead(q)
    <2> DEFINE N == {order[j] : j \in Incident}
               last == CHOOSE n \in N : \A j \in Incident : order[j] <= n
    <2>1. N \in SUBSET Nat /\ N # {} /\ IsFiniteSet(N)
      <3>1. [j \in Incident |-> order[j]] \in Surjection(Incident, N)
        BY DEF Surjection
      <3>2. IsFiniteSet(N)
        BY <3>1, FS_Surjection, TasksAssumption
      <3> QED BY <1>t, <3>2, TasksAssumption
    <2>2. \E n \in N : \A x \in N : x <= n
      BY <2>1, HighestElement
    <2>3. \E n \in N : \A j \in Incident : order[j] <= n
      BY <2>2
    <2>4. last \in N
      BY <2>3
    <2>5. last \in Nat
      BY <2>1, <2>4
    <2>6. [NothingRead EXCEPT !.last = last] = [titles |-> {}, last |-> last]
      <3> HIDE DEF last
      <3> QED BY DEF NothingRead
    <2>7. /\ tpc[q] = "idle"
          /\ \E i \in Incident : TaskStep(q, "add", i, [titles |-> {}, last |-> last])
          /\ UNCHANGED <<template, versions, order, copies, open, batches, answer>>
      BY <1>1, <2>6 DEF AddIncidentRead, tasksOfVars
    <2> HIDE DEF last
    <2>8. PICK i \in Incident : TaskStep(q, "add", i, [titles |-> {}, last |-> last])
      BY <2>7
    <2>9. [titles |-> {}, last |-> last] \in [titles : SUBSET Title, last : Nat]
      BY <2>5
    <2> DEFINE r == [titles |-> {}, last |-> last]
    <2>10. TaskStep(q, "add", i, r) /\ r \in [titles : SUBSET Title, last : Nat]
      BY <2>8, <2>9
    <2> HIDE DEF r
    <2>11. /\ tpc' \in [TaskRequest -> {"idle", "add", "template", "insert", "readiness"}]
           /\ ti' \in [TaskRequest -> Incident]
           /\ read' \in [TaskRequest -> [titles : SUBSET Title, last : Nat]]
           /\ tpc'[q] = "add"
           /\ \A p \in TaskRequest : p # q =>
                 tpc'[p] = tpc[p] /\ ti'[p] = ti[p] /\ read'[p] = read[p]
      BY <1>0, <2>10, TaskStepFacts
    <2>12. TaskTypeOK'
      BY <1>0, <2>7, <2>11 DEF TaskTypeOK
    <2>13. InsertsBounded'
      BY <2>7, <2>11, FillingLeft
    <2> QED BY <2>7, <2>11, <2>12, <2>13, TasksUntouched
  <1>2. CASE AddIncidentCreate(q)
    <2>1. /\ tpc[q] = "add" /\ TaskEnd(q)
          /\ order' = [order EXCEPT ![ti[q]] = read[q].last + 1]
          /\ UNCHANGED <<template, versions, copies, open, batches, answer>>
      BY <1>2 DEF AddIncidentCreate, tasksOfVars
    <2>2. order' \in [Incident -> Nat]
      BY <1>t, <2>1
    <2>3. TaskTypeOK'
      BY <1>0, <2>1, <2>2, TaskEndFacts DEF TaskTypeOK
    <2>4. InsertsBounded'
      BY <1>0, <2>1, TaskEndFacts, FillingLeft
    <2> QED BY <1>0, <2>1, <2>3, <2>4, TaskEndFacts, TasksUntouched
  <1>3. CASE InstantiateTemplate(q)
    <2>1. /\ tpc[q] = "template"
          /\ UNCHANGED <<template, versions, order, copies, open, batches, answer>>
      BY <1>3 DEF InstantiateTemplate, tasksOfVars
    <2>2. CASE template = {}
      <3>1. TaskEnd(q)
        BY <1>3, <2>2 DEF InstantiateTemplate
      <3>2. TaskTypeOK'
        BY <1>0, <2>1, <3>1, TaskEndFacts DEF TaskTypeOK
      <3>3. InsertsBounded'
        BY <1>0, <2>1, <3>1, TaskEndFacts, FillingLeft
      <3> QED BY <1>0, <2>1, <3>1, <3>2, <3>3, TaskEndFacts, TasksUntouched
    <2>3. CASE template # {}
      <3> DEFINE r == [titles |-> template, last |-> 0]
      <3>1. TaskStep(q, "insert", ti[q], r)
        BY <1>3, <2>3 DEF InstantiateTemplate, NothingRead
      <3>2. r \in [titles : SUBSET Title, last : Nat] /\ r.titles = template
        BY <1>t
      <3> HIDE DEF r
      <3>3. /\ tpc' \in [TaskRequest -> {"idle", "add", "template", "insert", "readiness"}]
            /\ ti' \in [TaskRequest -> Incident]
            /\ read' \in [TaskRequest -> [titles : SUBSET Title, last : Nat]]
            /\ tpc'[q] = "insert" /\ ti'[q] = ti[q] /\ read'[q] = r
            /\ \A p \in TaskRequest : p # q =>
                  tpc'[p] = tpc[p] /\ ti'[p] = ti[p] /\ read'[p] = read[p]
        BY <1>0, <1>t, <3>1, <3>2, TaskStepFacts
      <3>4. TaskTypeOK'
        BY <1>0, <2>1, <3>3 DEF TaskTypeOK
      <3>5. InsertsBounded'
        BY <2>1, <3>3, FillingLeft
      <3>6. read'[q].titles \in versions /\ read'[q].titles # {}
        BY <1>0, <2>3, <3>2, <3>3 DEF InsertsVersion
      <3> QED BY <2>1, <3>3, <3>4, <3>5, <3>6, TasksUntouched
    <2> QED BY <2>2, <2>3
  <1>4. CASE AnswerReadiness(q)
    <2>1. /\ tpc[q] = "readiness" /\ TaskEnd(q)
          /\ answer' = IF IsReady THEN "ready" ELSE "notReady"
          /\ UNCHANGED <<template, versions, order, copies, open, batches>>
      BY <1>4 DEF AnswerReadiness, tasksOfVars
    <2>2. answer' \in {"none", "ready", "notReady"}
      BY <2>1
    <2>3. TaskTypeOK'
      BY <1>0, <2>1, <2>2, TaskEndFacts DEF TaskTypeOK
    <2>4. InsertsBounded'
      BY <1>0, <2>1, TaskEndFacts, FillingLeft
    <2> QED BY <1>0, <2>1, <2>3, <2>4, TaskEndFacts, TasksUntouched
  <1>5. CASE AbortTaskRequest(q)
    <2>1. /\ TaskEnd(q)
          /\ answer' = IF tpc[q] = "readiness" THEN "none" ELSE answer
          /\ UNCHANGED <<template, versions, order, copies, open, batches>>
      BY <1>5 DEF AbortTaskRequest, tasksOfVars
    <2>2. answer' \in {"none", "ready", "notReady"}
      BY <1>t, <2>1
    <2>3. TaskTypeOK'
      BY <1>0, <2>1, <2>2, TaskEndFacts DEF TaskTypeOK
    <2>4. InsertsBounded'
      BY <1>0, <2>1, TaskEndFacts, FillingLeft
    <2>5. \/ answer' = answer /\ tpc[q] # "readiness"
          \/ answer' = "none"
      <3>1. CASE tpc[q] = "readiness"
        BY <2>1, <3>1
      <3>2. CASE tpc[q] # "readiness"
        BY <2>1, <3>2
      <3> QED BY <3>1, <3>2
    <2>6. /\ tpc'[q] = "idle"
          /\ \A p \in TaskRequest : p # q => tpc'[p] = tpc[p] /\ read'[p] = read[p]
      BY <1>0, <2>1, TaskEndFacts
    <2> QED BY <2>1, <2>3, <2>4, <2>5, <2>6, TasksUntouched
  <1> QED BY <1>1, <1>2, <1>3, <1>4, <1>5

\* A request finds an incident without tasks: nothing has been inserted into it.
LEMMA InstantiateCountInductive ==
    ASSUME TasksInductive, NEW q \in TaskRequest, NEW i \in Incident, InstantiateCount(q, i)
    PROVE  TasksInductive'
  <1>0. /\ TaskTypeOK /\ InsertsVersion /\ FilledByInserts /\ InsertsBounded
        /\ InsertedOnce /\ TaskChanged /\ LastAnswerTells
    BY DEF TasksInductive
  <1>1. tpc[q] = "idle" /\ UNCHANGED <<template, versions, order, copies, open, batches, answer>>
    BY DEF InstantiateCount, tasksOfVars
  <1>2. CASE UNCHANGED <<tpc, ti, read>>
    BY <1>0, <1>1, <1>2 DEF TasksInductive, TaskTypeOK, InsertsVersion, FilledByInserts, Titles,
       InsertsBounded, Filling, InsertedOnce, TaskChanged, LastAnswerTells
  <1>3. CASE ExistingCount(i) = 0 /\ TaskStep(q, "template", i, NothingRead)
    <2>1. NothingRead \in [titles : SUBSET Title, last : Nat]
      BY DEF NothingRead
    <2>2. /\ tpc' \in [TaskRequest -> {"idle", "add", "template", "insert", "readiness"}]
          /\ ti' \in [TaskRequest -> Incident]
          /\ read' \in [TaskRequest -> [titles : SUBSET Title, last : Nat]]
          /\ tpc'[q] = "template" /\ ti'[q] = i
          /\ \A p \in TaskRequest : p # q =>
                tpc'[p] = tpc[p] /\ ti'[p] = ti[p] /\ read'[p] = read[p]
      BY <1>0, <1>3, <2>1, TaskStepFacts
    <2>3. TaskTypeOK'
      BY <1>0, <1>1, <2>2 DEF TaskTypeOK
    <2>4. batches[i] = 0
      <3>1. Titles(i) \in SUBSET Title /\ ExistingCount(i) = Cardinality(Titles(i))
        BY DEF Titles, ExistingCount
      <3>2. IsFiniteSet(Titles(i))
        BY <3>1, TasksAssumption, FS_Subset
      <3>3. Titles(i) = {}
        BY <1>3, <3>1, <3>2, FS_EmptySet
      <3> QED BY <1>0, <3>3 DEF FilledByInserts
    <2>5. InsertsBounded'
      <3> SUFFICES ASSUME NEW j \in Incident
                   PROVE  batches[j] + Cardinality(Filling(j)') <= Cardinality(TaskRequest)
        BY <1>1 DEF InsertsBounded
      <3>1. Filling(j)' \in SUBSET TaskRequest
        BY DEF Filling
      <3>2. CASE j = i
        <4>1. Cardinality(Filling(j)') \in Nat /\ Cardinality(Filling(j)') <= Cardinality(TaskRequest)
          BY <3>1, FillingFinite
        <4> QED BY <2>4, <3>2, <4>1
      <3>3. CASE j # i
        <4>1. Filling(j)' = Filling(j)
          BY <1>1, <2>2, <3>3 DEF Filling
        <4> QED BY <1>0, <4>1 DEF InsertsBounded
      <3> QED BY <3>2, <3>3
    <2> QED BY <1>1, <2>2, <2>3, <2>5, TasksUntouched
  <1>4. \/ UNCHANGED <<tpc, ti, read>>
        \/ ~(ExistingCount(i) > 0) /\ TaskStep(q, "template", i, NothingRead)
    <2>1. CASE ExistingCount(i) > 0
      BY <2>1 DEF InstantiateCount, taskReqVars
    <2>2. CASE ~(ExistingCount(i) > 0)
      BY <2>2 DEF InstantiateCount
    <2> QED BY <2>1, <2>2
  <1>5. ExistingCount(i) \in Nat
    <2>1. {t \in Title : copies[i][t] > 0} \in SUBSET Title
      OBVIOUS
    <2> QED BY <2>1, TasksAssumption, FS_Subset, FS_CardinalityType DEF ExistingCount
  <1> QED BY <1>2, <1>3, <1>4, <1>5

\* Tasks are inserted: once more into one incident, by a request that leaves.
LEMMA InstantiateInsertInductive ==
    ASSUME TasksInductive, NEW q \in TaskRequest, InstantiateInsert(q)
    PROVE  TasksInductive'
  <1>0. /\ TaskTypeOK /\ InsertsVersion /\ FilledByInserts /\ InsertsBounded
        /\ InsertedOnce /\ TaskChanged /\ LastAnswerTells
    BY DEF TasksInductive
  <1>1. PICK k \in Incident : k = ti[q]
    BY <1>0 DEF TaskTypeOK
  <1>2. PICK T \in SUBSET Title : T = read[q].titles
    BY <1>0 DEF TaskTypeOK
  <1>3. /\ tpc[q] = "insert" /\ TaskEnd(q)
        /\ copies' = [copies EXCEPT ![k] = AddCopies(copies[k], T)]
        /\ open' = [open EXCEPT ![k] = AddCopies(open[k], T)]
        /\ batches' = [batches EXCEPT ![k] = batches[k] + 1]
        /\ answer' = "none" /\ UNCHANGED <<template, versions, order>>
    BY <1>1, <1>2 DEF InstantiateInsert
  <1>4. T \in versions /\ T # {}
    BY <1>0, <1>2, <1>3 DEF InsertsVersion
  <1>5. /\ \A i \in Incident, t \in Title :
              copies[i][t] \in Nat /\ open[i][t] \in Nat /\ open[i][t] <= copies[i][t]
        /\ \A i \in Incident : batches[i] \in Nat
    BY <1>0 DEF TaskTypeOK
  <1>6. AddCopies(copies[k], T) \in [Title -> Nat] /\ AddCopies(open[k], T) \in [Title -> Nat]
    BY <1>5 DEF AddCopies
  <1>7. /\ copies' \in [Incident -> [Title -> Nat]] /\ open' \in [Incident -> [Title -> Nat]]
        /\ batches' \in [Incident -> Nat]
    BY <1>0, <1>3, <1>5, <1>6 DEF TaskTypeOK
  <1>8. /\ \A i \in Incident : i # k =>
              copies'[i] = copies[i] /\ open'[i] = open[i] /\ batches'[i] = batches[i]
        /\ copies'[k] = AddCopies(copies[k], T) /\ open'[k] = AddCopies(open[k], T)
        /\ batches'[k] = batches[k] + 1
    BY <1>0, <1>3 DEF TaskTypeOK
  <1>9. \A t \in Title :
            /\ copies'[k][t] = IF t \in T THEN copies[k][t] + 1 ELSE copies[k][t]
            /\ open'[k][t] = IF t \in T THEN open[k][t] + 1 ELSE open[k][t]
    BY <1>8 DEF AddCopies
  <1>10. \A i \in Incident, t \in Title : open'[i][t] <= copies'[i][t]
    <2> SUFFICES ASSUME NEW i \in Incident, NEW t \in Title PROVE open'[i][t] <= copies'[i][t]
      OBVIOUS
    <2>1. CASE i = k
      BY <1>5, <1>9, <2>1
    <2>2. CASE i # k
      BY <1>5, <1>8, <2>2
    <2> QED BY <2>1, <2>2
  <1>11. /\ tpc' \in [TaskRequest -> {"idle", "add", "template", "insert", "readiness"}]
         /\ ti' \in [TaskRequest -> Incident]
         /\ read' \in [TaskRequest -> [titles : SUBSET Title, last : Nat]]
         /\ tpc'[q] = "idle"
         /\ \A p \in TaskRequest : p # q =>
               tpc'[p] = tpc[p] /\ ti'[p] = ti[p] /\ read'[p] = read[p]
    BY <1>0, <1>3, TaskEndFacts
  <1>12. TaskTypeOK'
    BY <1>0, <1>3, <1>7, <1>10, <1>11 DEF TaskTypeOK
  <1>13. /\ \A i \in Incident : i # k => Titles(i)' = Titles(i)
         /\ Titles(k)' = Titles(k) \cup T
    <2>1. \A i \in Incident : i # k => Titles(i)' = Titles(i)
      BY <1>8 DEF Titles
    <2>2. \A t \in Title : copies'[k][t] > 0 <=> copies[k][t] > 0 \/ t \in T
      BY <1>5, <1>9
    <2>3. Titles(k)' = Titles(k) \cup T
      BY <2>2 DEF Titles
    <2> QED BY <2>1, <2>3
  <1>14. InsertsVersion'
    BY <1>0, <1>3, <1>11 DEF InsertsVersion
  <1>15. FilledByInserts'
    <2>1. batches'[k] # 0
      BY <1>5, <1>8
    <2> QED BY <1>0, <1>4, <1>8, <1>13, <2>1 DEF FilledByInserts
  <1>16. InsertsBounded'
    <2> SUFFICES ASSUME NEW i \in Incident
                 PROVE  batches'[i] + Cardinality(Filling(i)') <= Cardinality(TaskRequest)
      BY DEF InsertsBounded
    <2>1. /\ Cardinality(Filling(i)) \in Nat /\ IsFiniteSet(Filling(i))
          /\ Cardinality(TaskRequest) \in Nat
          /\ batches[i] + Cardinality(Filling(i)) <= Cardinality(TaskRequest)
      BY <1>0, FillingFinite DEF InsertsBounded
    <2>2. CASE i = k
      <3>1. Filling(i)' = Filling(i) \ {q} /\ q \in Filling(i)
        BY <1>1, <1>3, <1>11, <2>2 DEF Filling
      <3>2. Cardinality(Filling(i)') = Cardinality(Filling(i)) - 1
        BY <2>1, <3>1, FS_RemoveElement
      <3> QED BY <1>5, <1>8, <2>1, <2>2, <3>2
    <2>3. CASE i # k
      <3>1. Filling(i)' = Filling(i)
        BY <1>1, <1>11, <2>3 DEF Filling
      <3> QED BY <1>8, <2>1, <2>3, <3>1
    <2> QED BY <2>2, <2>3
  <1>17. InsertedOnce'
    <2> SUFFICES ASSUME NEW i \in Incident, batches'[i] = 1 PROVE Titles(i)' \in versions'
      BY DEF InsertedOnce
    <2>1. CASE i = k
      <3>1. batches[k] = 0
        BY <1>5, <1>8, <2>1
      <3>2. Titles(k)' = T
        BY <1>0, <1>13, <3>1 DEF FilledByInserts
      <3> QED BY <1>3, <1>4, <2>1, <3>2
    <2>2. CASE i # k
      BY <1>0, <1>3, <1>8, <1>13, <2>2 DEF InsertedOnce
    <2> QED BY <2>1, <2>2
  <1>18. TaskChanged'
    <2>1. Titles(k)' # {}
      BY <1>4, <1>13
    <2> QED BY <2>1 DEF TaskChanged
  <1>19. LastAnswerTells'
    BY <1>3 DEF LastAnswerTells
  <1> QED BY <1>12, <1>14, <1>15, <1>16, <1>17, <1>18, <1>19 DEF TasksInductive

\* The status of a task changes; the answer is still to come.
LEMMA UpdateTaskStatusInductive ==
    ASSUME TasksInductive, NEW q \in TaskRequest, NEW i \in Incident, NEW t \in Title,
           UpdateTaskStatus(q, i, t)
    PROVE  TasksInductive'
  <1>0. /\ TaskTypeOK /\ InsertsVersion /\ FilledByInserts /\ InsertsBounded
        /\ InsertedOnce /\ TaskChanged /\ LastAnswerTells
    BY DEF TasksInductive
  <1>1. /\ tpc[q] = "idle" /\ TaskStep(q, "readiness", i, NothingRead)
        /\ UNCHANGED <<template, versions, order, copies, batches, answer>>
        /\ \/ open[i][t] > 0 /\ open' = [open EXCEPT ![i][t] = open[i][t] - 1]
           \/ open[i][t] < copies[i][t] /\ open' = [open EXCEPT ![i][t] = open[i][t] + 1]
    BY DEF UpdateTaskStatus
  <1>2. \A j \in Incident, s \in Title :
            copies[j][s] \in Nat /\ open[j][s] \in Nat /\ open[j][s] <= copies[j][s]
    BY <1>0 DEF TaskTypeOK
  <1>3. PICK n \in Nat : n <= copies[i][t] /\ open' = [open EXCEPT ![i][t] = n]
    <2>1. CASE open[i][t] > 0 /\ open' = [open EXCEPT ![i][t] = open[i][t] - 1]
      <3>1. open[i][t] - 1 \in Nat /\ open[i][t] - 1 <= copies[i][t]
        BY <1>2, <2>1
      <3> QED BY <2>1, <3>1
    <2>2. CASE open[i][t] < copies[i][t] /\ open' = [open EXCEPT ![i][t] = open[i][t] + 1]
      <3>1. open[i][t] + 1 \in Nat /\ open[i][t] + 1 <= copies[i][t]
        BY <1>2, <2>2
      <3> QED BY <2>2, <3>1
    <2> QED BY <1>1, <2>1, <2>2
  <1>4. copies[i][t] > 0
    BY <1>1, <1>2
  <1>5. open' \in [Incident -> [Title -> Nat]]
    BY <1>0, <1>3 DEF TaskTypeOK
  <1>6. \A j \in Incident, s \in Title :
            open'[j][s] = IF j = i /\ s = t THEN n ELSE open[j][s]
    BY <1>0, <1>3 DEF TaskTypeOK
  <1>7. \A j \in Incident, s \in Title : open'[j][s] <= copies[j][s]
    BY <1>2, <1>3, <1>6
  <1>8. NothingRead \in [titles : SUBSET Title, last : Nat]
    BY DEF NothingRead
  <1>9. /\ tpc' \in [TaskRequest -> {"idle", "add", "template", "insert", "readiness"}]
        /\ ti' \in [TaskRequest -> Incident]
        /\ read' \in [TaskRequest -> [titles : SUBSET Title, last : Nat]]
        /\ tpc'[q] = "readiness"
        /\ \A p \in TaskRequest : p # q =>
              tpc'[p] = tpc[p] /\ ti'[p] = ti[p] /\ read'[p] = read[p]
    BY <1>0, <1>1, <1>8, TaskStepFacts
  <1>10. TaskTypeOK'
    BY <1>0, <1>1, <1>5, <1>7, <1>9 DEF TaskTypeOK
  <1>11. \A j \in Incident : Titles(j)' = Titles(j)
    BY <1>1 DEF Titles
  <1>12. InsertsVersion' /\ FilledByInserts' /\ InsertedOnce'
    BY <1>0, <1>1, <1>9, <1>11 DEF InsertsVersion, FilledByInserts, InsertedOnce
  <1>13. InsertsBounded'
    BY <1>1, <1>9, FillingLeft
  <1>14. TaskChanged'
    <2>1. Titles(i) # {}
      BY <1>4 DEF Titles
    <2> QED BY <1>11, <2>1 DEF TaskChanged
  <1>15. LastAnswerTells'
    BY <1>9 DEF LastAnswerTells
  <1> QED BY <1>10, <1>12, <1>13, <1>14, <1>15 DEF TasksInductive

\* The tasks of the template are replaced.
LEMMA UpdateTemplateInductive ==
    ASSUME TasksInductive, NEW T \in SUBSET Title, UpdateTemplate(T)
    PROVE  TasksInductive'
  <1>0. /\ TaskTypeOK /\ InsertsVersion /\ FilledByInserts /\ InsertsBounded
        /\ InsertedOnce /\ TaskChanged /\ LastAnswerTells
    BY DEF TasksInductive
  <1>1. /\ template' = T /\ versions' = versions \cup {T}
        /\ UNCHANGED <<order, copies, open, batches, answer, tpc, ti, read>>
    BY DEF UpdateTemplate, ReplaceTasks, tasksOfVars, taskReqVars
  <1>2. TaskTypeOK'
    BY <1>0, <1>1 DEF TaskTypeOK
  <1>3. InsertsVersion' /\ FilledByInserts' /\ InsertedOnce'
    BY <1>0, <1>1 DEF InsertsVersion, FilledByInserts, InsertedOnce, Titles
  <1>4. InsertsBounded'
    BY <1>0, <1>1 DEF InsertsBounded, Filling
  <1>5. TaskChanged' /\ LastAnswerTells'
    BY <1>0, <1>1 DEF TaskChanged, LastAnswerTells, Titles
  <1> QED BY <1>2, <1>3, <1>4, <1>5 DEF TasksInductive

\* It holds at the start.
LEMMA TasksInductiveInit == TaskInit => TasksInductive
  <1> SUFFICES ASSUME TaskInit PROVE TasksInductive
    OBVIOUS
  <1>1. /\ template \in SUBSET Title /\ versions = {template}
        /\ order = [i \in Incident |-> 0] /\ answer = "none"
        /\ copies = [i \in Incident |-> [t \in Title |-> 0]]
        /\ open = [i \in Incident |-> [t \in Title |-> 0]]
        /\ batches = [i \in Incident |-> 0]
        /\ tpc = [q \in TaskRequest |-> "idle"]
        /\ read = [q \in TaskRequest |-> NothingRead]
    BY DEF TaskInit
  <1>2. ti \in [TaskRequest -> Incident]
    <2>1. (CHOOSE i \in Incident : TRUE) \in Incident
      BY TasksAssumption
    <2> QED BY <2>1 DEF TaskInit
  <1>3. read \in [TaskRequest -> [titles : SUBSET Title, last : Nat]]
    <2>1. NothingRead \in [titles : SUBSET Title, last : Nat]
      BY DEF NothingRead
    <2> QED BY <1>1, <2>1
  <1>4. \A i \in Incident, t \in Title : copies[i][t] = 0 /\ open[i][t] = 0
    BY <1>1
  <1>5. TaskTypeOK
    BY <1>1, <1>2, <1>3, <1>4 DEF TaskTypeOK
  <1>6. \A i \in Incident : Titles(i) = {} /\ batches[i] = 0 /\ Filling(i) = {}
    BY <1>1, <1>4 DEF Titles, Filling
  <1>7. InsertsVersion /\ FilledByInserts /\ InsertedOnce /\ TaskChanged /\ LastAnswerTells
    BY <1>1, <1>6 DEF InsertsVersion, FilledByInserts, InsertedOnce, TaskChanged, LastAnswerTells
  <1>8. InsertsBounded
    <2>1. Cardinality(TaskRequest) \in Nat
      BY TasksAssumption, FS_CardinalityType
    <2>2. \A i \in Incident : Cardinality(Filling(i)) = 0
      BY <1>6, FS_EmptySet
    <2> QED BY <1>6, <2>1, <2>2 DEF InsertsBounded
  <1> QED BY <1>5, <1>7, <1>8 DEF TasksInductive

\* The inductive invariant of the tasks.
THEOREM TasksInductiveInvariant == TaskSpec => []TasksInductive
  <1>1. TasksInductive /\ [TaskNext]_taskVars => TasksInductive'
    <2> SUFFICES ASSUME TasksInductive, [TaskNext]_taskVars PROVE TasksInductive'
      OBVIOUS
    <2>1. ASSUME NEW q \in TaskRequest,
                 \/ AddIncidentRead(q) \/ AddIncidentCreate(q)
                 \/ InstantiateTemplate(q) \/ AnswerReadiness(q) \/ AbortTaskRequest(q)
          PROVE  TasksInductive'
      BY <2>1, TasksReadInductive
    <2>2. ASSUME NEW q \in TaskRequest, InstantiateInsert(q) PROVE TasksInductive'
      BY <2>2, InstantiateInsertInductive
    <2>3. ASSUME NEW q \in TaskRequest, NEW i \in Incident, InstantiateCount(q, i)
          PROVE  TasksInductive'
      BY <2>3, InstantiateCountInductive
    <2>4. ASSUME NEW q \in TaskRequest, NEW i \in Incident, NEW t \in Title,
                 UpdateTaskStatus(q, i, t)
          PROVE  TasksInductive'
      BY <2>4, UpdateTaskStatusInductive
    <2>5. ASSUME NEW T \in SUBSET Title, UpdateTemplate(T) PROVE TasksInductive'
      BY <2>5, UpdateTemplateInductive
    <2>6. CASE UNCHANGED taskVars
      BY <2>6 DEF taskVars, tasksOfVars, taskReqVars, TasksInductive, TaskTypeOK, InsertsVersion,
                  FilledByInserts, InsertsBounded, Filling, InsertedOnce, TaskChanged, Titles,
                  LastAnswerTells
    <2> QED BY <2>1, <2>2, <2>3, <2>4, <2>5, <2>6 DEF TaskNext
  <1> QED BY <1>1, TasksInductiveInit, PTL DEF TaskSpec

(***************************************************************************)
(* However many requests instantiate a template at once, without a         *)
(* transaction or an index to part them: an incident is filled at most     *)
(* once by each, and what was inserted once is one version of the template.*)
(***************************************************************************)
THEOREM TasksCopied == TaskSpec => []TasksAreCopies
  <1>1. TasksInductive => TasksAreCopies
    <2> SUFFICES ASSUME TasksInductive, NEW i \in Incident
                 PROVE  /\ batches[i] <= Cardinality(TaskRequest)
                        /\ batches[i] = 1 => Titles(i) \in versions
      BY DEF TasksAreCopies
    <2>1. /\ batches[i] + Cardinality(Filling(i)) <= Cardinality(TaskRequest)
          /\ batches[i] \in Nat
          /\ batches[i] = 1 => Titles(i) \in versions
      BY DEF TasksInductive, TaskTypeOK, InsertsBounded, InsertedOnce
    <2>2. Cardinality(Filling(i)) \in Nat /\ Cardinality(TaskRequest) \in Nat
      BY FillingFinite
    <2> QED BY <2>1, <2>2
  <1> QED BY <1>1, TasksInductiveInvariant, PTL

(***************************************************************************)
(* Whoever is answered last has been told whether tasks are pending, with  *)
(* any number of incidents, titles and requests (updateTaskStatus).        *)
(***************************************************************************)
THEOREM LastAnswerTrue == TaskSpec => []LastAnswerTells
  <1>1. TasksInductive => LastAnswerTells
    BY DEF TasksInductive
  <1> QED BY <1>1, TasksInductiveInvariant, PTL

(***************************************************************************)
(* Bookings                                                                *)
(***************************************************************************)

BookPc == {"idle", "default", "create", "resolve", "change"}

Changing(q) == bpc[q] \in {"resolve", "change"}

\* What a request is about to write is a status that exists, and for a change
\* another one than the booking had when it was read.
Resolved ==
    \A q \in BookRequest :
        /\ bpc[q] = "default" => target[q] \in Status
        /\ bpc[q] \in {"create", "change"} => target[q] \in present
        /\ bpc[q] = "change" => target[q] \notin seen[q]

\* Before there is a booking, nothing has changed it or is about to.
BookedFirst ==
    /\ booking = NoStatus =>
        log = <<>> /\ first = NoStatus /\ \A q \in BookRequest : ~Changing(q)
    /\ booking # NoStatus => first # NoStatus

\* A change that no other one overlaps has read the present status.
ApartHasRead ==
    apart => \A q \in BookRequest : Changing(q) =>
        seen[q] = {booking} /\ \A p \in BookRequest : Changing(p) => p = q

\* Each default can be told the request that made it: a request has made one at
\* most, which it sees when it makes the next one.
Makes(maker) ==
    \A q \in BookRequest, s \in default :
        bpc[q] = "default" /\ maker[s] = q => s \in seen[q] \cup {target[q]}

DefaultsMade ==
    \E maker \in [default -> BookRequest] :
        /\ \A s, t \in default : maker[s] = maker[t] => s = t
        /\ Makes(maker)

BookInductive ==
    /\ BookTypeOK /\ Resolved /\ BookedFirst /\ ApartHasRead /\ DefaultsMade
    /\ LogFollowsBooking

\* One request moves on, and the others stay where they are.
LEMMA BookStepFacts ==
    ASSUME BookTypeOK, NEW q \in BookRequest, NEW step \in BookPc,
           NEW s \in Status \cup {NoStatus}, NEW S \in SUBSET Status, BookStep(q, step, s, S)
    PROVE  /\ bpc' \in [BookRequest -> BookPc]
           /\ target' \in [BookRequest -> Status \cup {NoStatus}]
           /\ seen' \in [BookRequest -> SUBSET Status]
           /\ bpc'[q] = step /\ target'[q] = s /\ seen'[q] = S
           /\ \A p \in BookRequest : p # q =>
                 bpc'[p] = bpc[p] /\ target'[p] = target[p] /\ seen'[p] = seen[p]
  <1>1. BookTypeOK /\ BookStep(q, step, s, S)
    OBVIOUS
  <1> QED BY <1>1 DEF BookTypeOK, BookStep, BookPc

\* What a request that ends leaves behind.
LEMMA BookEndFacts ==
    ASSUME BookTypeOK, NEW q \in BookRequest, BookEnd(q)
    PROVE  /\ bpc' \in [BookRequest -> BookPc]
           /\ target' \in [BookRequest -> Status \cup {NoStatus}]
           /\ seen' \in [BookRequest -> SUBSET Status]
           /\ bpc'[q] = "idle"
           /\ \A p \in BookRequest : p # q =>
                 bpc'[p] = bpc[p] /\ target'[p] = target[p] /\ seen'[p] = seen[p]
  <1>1. BookStep(q, "idle", NoStatus, {})
    BY DEF BookEnd
  <1>2. "idle" \in BookPc /\ NoStatus \in Status \cup {NoStatus} /\ {} \in SUBSET Status
    BY DEF BookPc
  <1> QED BY <1>1, <1>2, BookStepFacts

\* The story of a booking: what it was created with, and then its log.
LEMMA StoryFacts ==
    ASSUME BookTypeOK, booking # NoStatus
    PROVE  /\ Len(log) \in Nat /\ Len(Story) = Len(log) + 1
           /\ Story[1] = first
           /\ \A i \in 1 .. Len(log) : Story[i + 1] = log[i]
  <1>1. log \in Seq(present)
    BY DEF BookTypeOK
  <1>2. Story = <<first>> \o log
    BY DEF Story
  <1> QED BY <1>1, <1>2

\* While the log and what the story begins with stay, so does the story.
LEMMA StoryKept ==
    ASSUME LogFollowsBooking, UNCHANGED <<booking, log, first>>, apart' => apart
    PROVE  LogFollowsBooking'
  <1>1. Story' = Story
    BY DEF Story
  <1> QED BY <1>1 DEF LogFollowsBooking

\* Statuses change, but none that is not one any more becomes a default.
LEMMA StatusesInductive ==
    ASSUME BookInductive, UNCHANGED <<booking, log, first, bpc, target, seen, apart>>,
           present \subseteq present', default' \subseteq default, active' \subseteq present',
           present' \subseteq Status
    PROVE  BookInductive'
  <1>0. BookTypeOK /\ Resolved /\ BookedFirst /\ ApartHasRead /\ DefaultsMade /\ LogFollowsBooking
    BY DEF BookInductive
  <1>1. BookTypeOK'
    <2>1. log \in Seq(present')
      BY <1>0 DEF BookTypeOK
    <2> QED BY <1>0, <2>1 DEF BookTypeOK
  <1>2. Resolved' /\ BookedFirst' /\ ApartHasRead'
    BY <1>0 DEF Resolved, BookedFirst, ApartHasRead, Changing
  <1>3. DefaultsMade'
    <2>1. PICK maker \in [default -> BookRequest] :
              /\ \A s, t \in default : maker[s] = maker[t] => s = t
              /\ Makes(maker)
      BY <1>0 DEF DefaultsMade
    <2>2. PICK m \in [default' -> BookRequest] : \A s \in default' : m[s] = maker[s]
      <3>1. [s \in default' |-> maker[s]] \in [default' -> BookRequest]
        OBVIOUS
      <3> QED BY <3>1
    <2>3. Makes(m)'
      BY <2>1, <2>2 DEF Makes
    <2>4. \A s, t \in default' : m[s] = m[t] => s = t
      BY <2>1, <2>2
    <2> QED BY <2>2, <2>3, <2>4 DEF DefaultsMade
  <1>4. LogFollowsBooking'
    BY <1>0, StoryKept
  <1> QED BY <1>1, <1>2, <1>3, <1>4 DEF BookInductive

\* A request moves on without touching a table.
LEMMA BookReadsInductive ==
    ASSUME BookInductive, NEW q \in BookRequest,
           UNCHANGED <<present, default, active, booking, log, first>>,
           bpc' \in [BookRequest -> BookPc],
           target' \in [BookRequest -> Status \cup {NoStatus}],
           seen' \in [BookRequest -> SUBSET Status],
           \A p \in BookRequest : p # q =>
                 bpc'[p] = bpc[p] /\ target'[p] = target[p] /\ seen'[p] = seen[p],
           apart' \in BOOLEAN, apart' => apart,
           bpc'[q] = "default" => target'[q] \in Status /\ default \subseteq seen'[q] \cup {target'[q]},
           bpc'[q] \in {"create", "change"} => target'[q] \in present,
           bpc'[q] = "change" => target'[q] \notin seen'[q],
           bpc'[q] \in {"resolve", "change"} =>
                /\ booking # NoStatus
                /\ \/ Changing(q) /\ seen'[q] = seen[q]
                   \/ seen'[q] = {booking} /\ (apart' => \A p \in BookRequest : ~Changing(p))
    PROVE  BookInductive'
  <1>0. BookTypeOK /\ Resolved /\ BookedFirst /\ ApartHasRead /\ DefaultsMade /\ LogFollowsBooking
    BY DEF BookInductive
  <1>1. BookTypeOK'
    BY <1>0 DEF BookTypeOK, BookPc
  <1>2. Resolved'
    BY <1>0 DEF Resolved
  <1>3. BookedFirst'
    BY <1>0 DEF BookedFirst, Changing
  <1>4. ApartHasRead'
    <2> SUFFICES ASSUME apart', NEW p \in BookRequest, Changing(p)'
                 PROVE  /\ seen'[p] = {booking}
                        /\ \A r \in BookRequest : Changing(r)' => r = p
      BY DEF ApartHasRead
    <2>1. CASE Changing(q)'
      <3>1. \/ Changing(q) /\ seen'[q] = seen[q]
            \/ seen'[q] = {booking} /\ \A r \in BookRequest : ~Changing(r)
        BY <2>1 DEF Changing
      <3>2. seen'[q] = {booking} /\ \A r \in BookRequest : r # q => ~Changing(r)
        BY <1>0, <3>1 DEF ApartHasRead
      <3> QED BY <3>2 DEF Changing
    <2>2. CASE ~Changing(q)'
      <3>1. p # q /\ Changing(p) /\ seen'[p] = seen[p]
        BY <2>2 DEF Changing
      <3>2. \A r \in BookRequest : Changing(r)' => Changing(r)
        BY <2>2 DEF Changing
      <3> QED BY <1>0, <3>1, <3>2 DEF ApartHasRead
    <2> QED BY <2>1, <2>2
  <1>5. DefaultsMade'
    <2>1. PICK maker \in [default -> BookRequest] :
              /\ \A s, t \in default : maker[s] = maker[t] => s = t
              /\ Makes(maker)
      BY <1>0 DEF DefaultsMade
    <2>2. Makes(maker)'
      BY <2>1 DEF Makes
    <2> QED BY <2>1, <2>2 DEF DefaultsMade
  <1>6. LogFollowsBooking'
    BY <1>0, StoryKept
  <1> QED BY <1>1, <1>2, <1>3, <1>4, <1>5, <1>6 DEF BookInductive

\* The statuses a request may resolve to exist.
LEMMA ResolvesToPresent ==
    ASSUME BookTypeOK
    PROVE  ResolveStatus \subseteq present /\ present \subseteq Status /\ NoStatus \notin present
  BY BookingsAssumption DEF BookTypeOK, ResolveStatus

\* Requests that read, resolve or give up.
LEMMA BookReads ==
    ASSUME BookInductive, NEW q \in BookRequest,
           \/ \E s \in Status : ClearDefaults(q, s)
           \/ CreateBookingResolve(q) \/ ChangeRead(q) \/ ChangeResolve(q) \/ AbortBooking(q)
    PROVE  BookInductive'
  <1>0. BookTypeOK /\ Resolved /\ BookedFirst /\ ApartHasRead
    BY DEF BookInductive
  <1>1. /\ present \subseteq Status /\ default \subseteq Status /\ apart \in BOOLEAN
        /\ booking \in present \cup {NoStatus} /\ seen[q] \in SUBSET Status
    BY <1>0 DEF BookTypeOK
  <1>2. ASSUME NEW s \in Status, ClearDefaults(q, s) PROVE BookInductive'
    <2>1. /\ UNCHANGED <<present, default, active, booking, log, first, apart>>
          /\ BookStep(q, "default", s, default \ {s})
      BY <1>2 DEF ClearDefaults, statusVars, bookingVars
    <2>2. default \ {s} \in SUBSET Status /\ "default" \in BookPc /\ s \in Status \cup {NoStatus}
      BY <1>1 DEF BookPc
    <2>3. /\ bpc' \in [BookRequest -> BookPc]
          /\ target' \in [BookRequest -> Status \cup {NoStatus}]
          /\ seen' \in [BookRequest -> SUBSET Status]
          /\ bpc'[q] = "default" /\ target'[q] = s /\ seen'[q] = default \ {s}
          /\ \A p \in BookRequest : p # q =>
                bpc'[p] = bpc[p] /\ target'[p] = target[p] /\ seen'[p] = seen[p]
      BY <1>0, <2>1, <2>2, BookStepFacts
    <2>4. default \subseteq seen'[q] \cup {target'[q]}
      BY <2>3
    <2> QED BY <1>1, <2>1, <2>3, <2>4, BookReadsInductive
  <1>3. CASE CreateBookingResolve(q)
    <2>1. PICK s \in ResolveStatus : BookStep(q, "create", s, {})
      BY <1>3 DEF CreateBookingResolve
    <2>2. UNCHANGED <<present, default, active, booking, log, first, apart>>
      BY <1>3 DEF CreateBookingResolve, statusVars, bookingVars
    <2>3. s \in present /\ s \in Status \cup {NoStatus} /\ "create" \in BookPc
          /\ {} \in SUBSET Status
      BY <1>0, ResolvesToPresent DEF BookPc
    <2>4. /\ bpc' \in [BookRequest -> BookPc]
          /\ target' \in [BookRequest -> Status \cup {NoStatus}]
          /\ seen' \in [BookRequest -> SUBSET Status]
          /\ bpc'[q] = "create" /\ target'[q] = s
          /\ \A p \in BookRequest : p # q =>
                bpc'[p] = bpc[p] /\ target'[p] = target[p] /\ seen'[p] = seen[p]
      BY <1>0, <2>1, <2>3, BookStepFacts
    <2> QED BY <1>1, <2>2, <2>3, <2>4, BookReadsInductive
  <1>4. CASE ChangeRead(q)
    <2>1. /\ booking # NoStatus /\ BookStep(q, "resolve", NoStatus, {booking})
          /\ UNCHANGED <<present, default, active, booking, log, first>>
          /\ apart' = (apart /\ \A p \in BookRequest : bpc[p] \notin {"resolve", "change"})
      BY <1>4 DEF ChangeRead, statusVars, bookingVars
    <2>2. {booking} \in SUBSET Status /\ "resolve" \in BookPc
          /\ NoStatus \in Status \cup {NoStatus}
      BY <1>1, <2>1 DEF BookPc
    <2>3. /\ bpc' \in [BookRequest -> BookPc]
          /\ target' \in [BookRequest -> Status \cup {NoStatus}]
          /\ seen' \in [BookRequest -> SUBSET Status]
          /\ bpc'[q] = "resolve" /\ seen'[q] = {booking}
          /\ \A p \in BookRequest : p # q =>
                bpc'[p] = bpc[p] /\ target'[p] = target[p] /\ seen'[p] = seen[p]
      BY <1>0, <2>1, <2>2, BookStepFacts
    <2>4. apart' \in BOOLEAN
      BY <2>1
    <2>5. apart' => apart /\ \A p \in BookRequest : ~Changing(p)
      BY <2>1 DEF Changing
    <2> QED BY <2>1, <2>3, <2>4, <2>5, BookReadsInductive
  <1>5. CASE ChangeResolve(q)
    <2>1. PICK s \in ResolveStatus :
              IF s \in seen[q] THEN BookEnd(q) ELSE BookStep(q, "change", s, seen[q])
      BY <1>5 DEF ChangeResolve
    <2>2. UNCHANGED <<present, default, active, booking, log, first, apart>> /\ bpc[q] = "resolve"
      BY <1>5 DEF ChangeResolve, statusVars, bookingVars
    <2>3. CASE s \in seen[q]
      <3>1. BookEnd(q)
        BY <2>1, <2>3
      <3>2. /\ bpc' \in [BookRequest -> BookPc]
            /\ target' \in [BookRequest -> Status \cup {NoStatus}]
            /\ seen' \in [BookRequest -> SUBSET Status]
            /\ bpc'[q] = "idle"
            /\ \A p \in BookRequest : p # q =>
                  bpc'[p] = bpc[p] /\ target'[p] = target[p] /\ seen'[p] = seen[p]
        BY <1>0, <3>1, BookEndFacts
      <3> QED BY <1>1, <2>2, <3>2, BookReadsInductive
    <2>4. CASE s \notin seen[q]
      <3>1. BookStep(q, "change", s, seen[q])
        BY <2>1, <2>4
      <3>2. s \in present /\ s \in Status \cup {NoStatus} /\ "change" \in BookPc
        BY <1>0, ResolvesToPresent DEF BookPc
      <3>3. /\ bpc' \in [BookRequest -> BookPc]
            /\ target' \in [BookRequest -> Status \cup {NoStatus}]
            /\ seen' \in [BookRequest -> SUBSET Status]
            /\ bpc'[q] = "change" /\ target'[q] = s /\ seen'[q] = seen[q]
            /\ \A p \in BookRequest : p # q =>
                  bpc'[p] = bpc[p] /\ target'[p] = target[p] /\ seen'[p] = seen[p]
        BY <1>0, <1>1, <3>1, <3>2, BookStepFacts
      <3>4. Changing(q) /\ booking # NoStatus
        BY <1>0, <2>2 DEF Changing, BookedFirst
      <3> QED BY <1>1, <2>2, <2>4, <3>2, <3>3, <3>4, BookReadsInductive
    <2> QED BY <2>3, <2>4
  <1>6. CASE AbortBooking(q)
    <2>1. UNCHANGED <<present, default, active, booking, log, first, apart>> /\ BookEnd(q)
      BY <1>6 DEF AbortBooking, statusVars, bookingVars
    <2>2. /\ bpc' \in [BookRequest -> BookPc]
          /\ target' \in [BookRequest -> Status \cup {NoStatus}]
          /\ seen' \in [BookRequest -> SUBSET Status]
          /\ bpc'[q] = "idle"
          /\ \A p \in BookRequest : p # q =>
                bpc'[p] = bpc[p] /\ target'[p] = target[p] /\ seen'[p] = seen[p]
      BY <1>0, <2>1, BookEndFacts
    <2> QED BY <1>1, <2>1, <2>2, BookReadsInductive
  <1> QED BY <1>2, <1>3, <1>4, <1>5, <1>6

\* A status is written without being made the default.
LEMMA WriteStatusInductive ==
    ASSUME BookInductive, NEW s \in Status, WriteStatus(s)
    PROVE  BookInductive'
  <1>1. /\ present' = present \cup {s} /\ default' \subseteq default
        /\ active' \in {active \cup {s}, active \ {s}}
        /\ UNCHANGED <<booking, log, first, bpc, target, seen, apart>>
    BY DEF WriteStatus, SetActive, bookingVars, bookReqVars
  <1>2. present \subseteq Status /\ active \subseteq present
    BY DEF BookInductive, BookTypeOK
  <1> QED BY <1>1, <1>2, StatusesInductive

\* A default is made: the request that makes it has seen those it made before.
LEMMA MakeDefaultInductive ==
    ASSUME BookInductive, NEW q \in BookRequest, MakeDefault(q)
    PROVE  BookInductive'
  <1>0. BookTypeOK /\ Resolved /\ BookedFirst /\ ApartHasRead /\ DefaultsMade /\ LogFollowsBooking
    BY DEF BookInductive
  <1>1. PICK d \in Status : d = target[q]
    BY <1>0 DEF MakeDefault, Resolved
  <1>2. /\ bpc[q] = "default" /\ BookEnd(q)
        /\ present' = present \cup {d} /\ default' = (default \ seen[q]) \cup {d}
        /\ active' \in {active \cup {d}, active \ {d}}
        /\ UNCHANGED <<booking, log, first, apart>>
    BY <1>1 DEF MakeDefault, DefaultsAfter, SetActive, bookingVars
  <1>3. /\ bpc' \in [BookRequest -> BookPc]
        /\ target' \in [BookRequest -> Status \cup {NoStatus}]
        /\ seen' \in [BookRequest -> SUBSET Status]
        /\ bpc'[q] = "idle"
        /\ \A p \in BookRequest : p # q =>
              bpc'[p] = bpc[p] /\ target'[p] = target[p] /\ seen'[p] = seen[p]
    BY <1>0, <1>2, BookEndFacts
  <1>4. BookTypeOK'
    <2>1. /\ present' \subseteq Status /\ default' \subseteq present' /\ active' \subseteq present'
          /\ booking' \in present' \cup {NoStatus} /\ first' \in present' \cup {NoStatus}
      BY <1>0, <1>2 DEF BookTypeOK
    <2>2. log' \in Seq(present') /\ Len(log') <= MaxLog
      BY <1>0, <1>2 DEF BookTypeOK
    <2> QED BY <1>0, <1>2, <1>3, <2>1, <2>2 DEF BookTypeOK, BookPc
  <1>5. Resolved'
    BY <1>0, <1>2, <1>3 DEF Resolved
  <1>6. BookedFirst'
    BY <1>0, <1>2, <1>3 DEF BookedFirst, Changing
  <1>7. ApartHasRead'
    BY <1>0, <1>2, <1>3 DEF ApartHasRead, Changing
  <1>8. DefaultsMade'
    <2>1. PICK maker \in [default -> BookRequest] :
              /\ \A s, t \in default : maker[s] = maker[t] => s = t
              /\ Makes(maker)
      BY <1>0 DEF DefaultsMade
    <2>2. PICK m \in [default' -> BookRequest] :
              \A s \in default' : m[s] = IF s = d THEN q ELSE maker[s]
      <3>1. \A s \in default' : s # d => s \in default
        BY <1>2
      <3>2. [s \in default' |-> IF s = d THEN q ELSE maker[s]] \in [default' -> BookRequest]
        BY <3>1
      <3> QED BY <3>2
    <2>3. \A s \in default' : s # d => s \in default /\ s \notin seen[q] /\ m[s] = maker[s]
      BY <1>2, <2>2
    <2>4. \A s \in default' : s # d => m[s] # q
      BY <1>1, <1>2, <2>1, <2>3 DEF Makes
    <2>5. d \in default' /\ m[d] = q
      BY <1>2, <2>2
    <2>6. \A s, t \in default' : m[s] = m[t] => s = t
      BY <2>1, <2>3, <2>4, <2>5
    <2>7. Makes(m)'
      <3> SUFFICES ASSUME NEW p \in BookRequest, NEW s \in default', bpc'[p] = "default", m[s] = p
                   PROVE  s \in seen'[p] \cup {target'[p]}
        BY DEF Makes
      <3>1. p # q /\ bpc[p] = "default" /\ s # d
        BY <1>3, <2>5
      <3>2. s \in default /\ maker[s] = p
        BY <2>3, <3>1
      <3> QED BY <1>3, <2>1, <3>1, <3>2 DEF Makes
    <2> QED BY <2>6, <2>7 DEF DefaultsMade
  <1>9. LogFollowsBooking'
    BY <1>0, <1>2, StoryKept
  <1> QED BY <1>4, <1>5, <1>6, <1>7, <1>8, <1>9 DEF BookInductive

\* Makes speaks of the defaults and of the requests that are about to make one.
LEMMA DefaultsMadeKept ==
    ASSUME DefaultsMade, UNCHANGED default, NEW q \in BookRequest, bpc'[q] # "default",
           \A p \in BookRequest : p # q =>
                 bpc'[p] = bpc[p] /\ target'[p] = target[p] /\ seen'[p] = seen[p]
    PROVE  DefaultsMade'
  <1>1. PICK maker \in [default -> BookRequest] :
            /\ \A s, t \in default : maker[s] = maker[t] => s = t
            /\ Makes(maker)
    BY DEF DefaultsMade
  <1>2. Makes(maker)'
    BY <1>1 DEF Makes
  <1> QED BY <1>1, <1>2 DEF DefaultsMade

\* The booking is created, unless there is one by now.
LEMMA CreateBookingInsertInductive ==
    ASSUME BookInductive, NEW q \in BookRequest, CreateBookingInsert(q)
    PROVE  BookInductive'
  <1>0. BookTypeOK /\ Resolved /\ BookedFirst /\ ApartHasRead /\ DefaultsMade /\ LogFollowsBooking
    BY DEF BookInductive
  <1>1. /\ bpc[q] = "create" /\ BookEnd(q)
        /\ UNCHANGED <<present, default, active, log, apart>>
    BY DEF CreateBookingInsert, statusVars
  <1>2. /\ bpc' \in [BookRequest -> BookPc]
        /\ target' \in [BookRequest -> Status \cup {NoStatus}]
        /\ seen' \in [BookRequest -> SUBSET Status]
        /\ bpc'[q] = "idle"
        /\ \A p \in BookRequest : p # q =>
              bpc'[p] = bpc[p] /\ target'[p] = target[p] /\ seen'[p] = seen[p]
    BY <1>0, <1>1, BookEndFacts
  <1>3. Resolved'
    BY <1>0, <1>1, <1>2 DEF Resolved
  <1>4. DefaultsMade'
    BY <1>0, <1>1, <1>2, DefaultsMadeKept
  <1>5. CASE booking # NoStatus
    <2>1. UNCHANGED <<booking, first>>
      BY <1>5 DEF CreateBookingInsert
    <2>2. BookTypeOK'
      BY <1>0, <1>1, <1>2, <2>1 DEF BookTypeOK, BookPc
    <2>3. BookedFirst' /\ ApartHasRead'
      BY <1>0, <1>1, <1>2, <2>1 DEF BookedFirst, ApartHasRead, Changing
    <2>4. LogFollowsBooking'
      BY <1>0, <1>1, <2>1, StoryKept
    <2> QED BY <1>3, <1>4, <2>2, <2>3, <2>4 DEF BookInductive
  <1>6. CASE booking = NoStatus
    <2>1. /\ booking' = target[q] /\ first' = target[q]
          /\ target[q] \in present /\ target[q] # NoStatus
      BY <1>0, <1>1, <1>6, ResolvesToPresent DEF CreateBookingInsert, Resolved
    <2>2. log = <<>> /\ \A p \in BookRequest : ~Changing(p)
      BY <1>0, <1>6 DEF BookedFirst
    <2>3. BookTypeOK'
      BY <1>0, <1>1, <1>2, <2>1 DEF BookTypeOK, BookPc
    <2>4. \A p \in BookRequest : ~Changing(p)'
      BY <1>2, <2>2 DEF Changing
    <2>5. BookedFirst' /\ ApartHasRead'
      BY <2>1, <2>4 DEF BookedFirst, ApartHasRead
    <2>6. LogFollowsBooking'
      <3>1. Story' = <<target[q]>>
        BY <1>1, <2>1, <2>2 DEF Story
      <3>2. Len(Story') = 1 /\ Story'[1] = target[q]
        BY <3>1
      <3> QED BY <2>1, <3>2 DEF LogFollowsBooking
    <2> QED BY <1>3, <1>4, <2>3, <2>5, <2>6 DEF BookInductive
  <1> QED BY <1>5, <1>6

\* A change is committed: the story ends with it.
LEMMA ChangeCommitInductive ==
    ASSUME BookInductive, NEW q \in BookRequest, ChangeCommit(q)
    PROVE  BookInductive'
  <1>0. BookTypeOK /\ Resolved /\ BookedFirst /\ ApartHasRead /\ DefaultsMade /\ LogFollowsBooking
    BY DEF BookInductive
  <1>1. PICK t \in present : t = target[q]
    BY <1>0 DEF ChangeCommit, Resolved
  <1>2. /\ bpc[q] = "change" /\ Len(log) < MaxLog /\ BookEnd(q)
        /\ booking' = t /\ log' = Append(log, t)
        /\ UNCHANGED <<present, default, active, first, apart>>
    BY <1>1 DEF ChangeCommit, statusVars
  <1>3. /\ bpc' \in [BookRequest -> BookPc]
        /\ target' \in [BookRequest -> Status \cup {NoStatus}]
        /\ seen' \in [BookRequest -> SUBSET Status]
        /\ bpc'[q] = "idle"
        /\ \A p \in BookRequest : p # q =>
              bpc'[p] = bpc[p] /\ target'[p] = target[p] /\ seen'[p] = seen[p]
    BY <1>0, <1>2, BookEndFacts
  <1>4. t # NoStatus /\ Changing(q) /\ booking # NoStatus /\ first # NoStatus
    BY <1>0, <1>2, ResolvesToPresent DEF Changing, BookedFirst
  <1>5. /\ log' \in Seq(present) /\ Len(log') = Len(log) + 1 /\ Len(log) \in Nat
        /\ log'[Len(log) + 1] = t
        /\ \A i \in 1 .. Len(log) : log'[i] = log[i]
    BY <1>0, <1>2 DEF BookTypeOK
  <1>6. BookTypeOK'
    <2>1. Len(log') <= MaxLog
      BY <1>2, <1>5, BookingsAssumption
    <2> QED BY <1>0, <1>2, <1>3, <1>5, <2>1 DEF BookTypeOK, BookPc
  <1>7. Resolved'
    BY <1>0, <1>2, <1>3 DEF Resolved
  <1>8. BookedFirst'
    BY <1>2, <1>4 DEF BookedFirst
  <1>9. ApartHasRead'
    <2> SUFFICES ASSUME apart', NEW p \in BookRequest, Changing(p)' PROVE FALSE
      BY DEF ApartHasRead
    <2>1. p # q /\ Changing(p)
      BY <1>3 DEF Changing
    <2> QED BY <1>0, <1>2, <1>4, <2>1 DEF ApartHasRead
  <1>10. DefaultsMade'
    BY <1>0, <1>2, <1>3, DefaultsMadeKept
  <1>11. LogFollowsBooking'
    <2>1. /\ Len(Story) = Len(log) + 1 /\ Story[1] = first
          /\ \A i \in 1 .. Len(log) : Story[i + 1] = log[i]
      BY <1>0, <1>4, StoryFacts
    <2>2. /\ Len(Story') = Len(log') + 1 /\ Story'[1] = first
          /\ \A i \in 1 .. Len(log') : Story'[i + 1] = log'[i]
      <3>1. Story' = <<first>> \o log'
        BY <1>2, <1>4 DEF Story
      <3> QED BY <1>5, <3>1
    <2> DEFINE n == Len(log)
    <2>3. n \in Nat /\ Len(Story) = n + 1 /\ Len(Story') = n + 2
      BY <1>5, <2>1, <2>2
    <2>4. Story'[n + 2] = t
      <3>1. n + 1 \in 1 .. Len(log') /\ (n + 1) + 1 = n + 2
        BY <1>5
      <3> HIDE DEF n
      <3>2. Story'[(n + 1) + 1] = log'[n + 1]
        BY <2>2, <3>1
      <3> QED BY <1>5, <3>1, <3>2 DEF n
    <2>5. \A i \in 1 .. n + 1 : Story'[i] = Story[i]
      <3> SUFFICES ASSUME NEW i \in 1 .. n + 1 PROVE Story'[i] = Story[i]
        OBVIOUS
      <3>1. CASE i = 1
        BY <2>1, <2>2, <3>1
      <3>2. CASE i # 1
        <4>1. i - 1 \in 1 .. n /\ i - 1 \in 1 .. Len(log') /\ (i - 1) + 1 = i
          BY <1>5, <3>2
        <4>2. Story'[(i - 1) + 1] = log'[i - 1] /\ Story[(i - 1) + 1] = log[i - 1]
          BY <2>1, <2>2, <4>1
        <4> QED BY <1>5, <4>1, <4>2
      <3> QED BY <3>1, <3>2
    <2>6. booking' = Story'[Len(Story')]
      BY <1>2, <2>3, <2>4
    <2>7. ASSUME apart', NEW i \in 1 .. Len(Story') - 1 PROVE Story'[i] # Story'[i + 1]
      <3>1. i \in 1 .. n + 1
        BY <2>3
      <3>2. CASE i = n + 1
        <4>1. booking = Story[n + 1]
          BY <1>0, <1>4, <2>3 DEF LogFollowsBooking
        <4>2. seen[q] = {booking} /\ t \notin seen[q]
          BY <1>0, <1>1, <1>2, <1>4, <2>7 DEF ApartHasRead, Resolved
        <4>3. Story'[n + 1] = booking /\ (n + 1) + 1 = n + 2
          BY <2>3, <2>5, <3>1, <3>2, <4>1
        <4> QED BY <2>4, <3>2, <4>2, <4>3
      <3>3. CASE i # n + 1
        <4>1. i \in 1 .. Len(Story) - 1 /\ i + 1 \in 1 .. n + 1
          BY <2>3, <3>1, <3>3
        <4>2. Story[i] # Story[i + 1]
          BY <1>0, <1>2, <2>7, <4>1 DEF LogFollowsBooking
        <4> QED BY <2>5, <3>1, <4>1, <4>2
      <3> QED BY <3>2, <3>3
    <2> QED BY <2>6, <2>7 DEF LogFollowsBooking
  <1> QED BY <1>6, <1>7, <1>8, <1>9, <1>10, <1>11 DEF BookInductive

\* It holds at the start.
LEMMA BookInductiveInit == BookInit => BookInductive
  <1> SUFFICES ASSUME BookInit PROVE BookInductive
    OBVIOUS
  <1>1. BookTypeOK
    <2>1. log \in Seq(present) /\ Len(log) = 0
      BY DEF BookInit
    <2> QED BY <2>1, BookingsAssumption DEF BookInit, BookTypeOK
  <1>2. Resolved /\ BookedFirst /\ ApartHasRead
    BY DEF BookInit, Resolved, BookedFirst, ApartHasRead, Changing
  <1>3. DefaultsMade
    <2>1. PICK maker \in [default -> BookRequest] : TRUE
      <3>1. [s \in default |-> CHOOSE q \in BookRequest : TRUE] \in [default -> BookRequest]
        BY DEF BookInit
      <3> QED BY <3>1
    <2> QED BY <2>1 DEF BookInit, DefaultsMade, Makes
  <1>4. LogFollowsBooking
    <2>1. Story = <<>> /\ Len(Story) = 0
      BY DEF BookInit, Story
    <2> QED BY <2>1 DEF BookInit, LogFollowsBooking
  <1> QED BY <1>1, <1>2, <1>3, <1>4 DEF BookInductive

\* The inductive invariant of the bookings.
THEOREM BookInductiveInvariant == BookSpec => []BookInductive
  <1>1. BookInductive /\ [BookNext]_bookVars => BookInductive'
    <2> SUFFICES ASSUME BookInductive, [BookNext]_bookVars PROVE BookInductive'
      OBVIOUS
    <2>1. ASSUME NEW s \in Status, WriteStatus(s) PROVE BookInductive'
      BY <2>1, WriteStatusInductive
    <2>2. ASSUME NEW q \in BookRequest,
                 \/ \E s \in Status : ClearDefaults(q, s)
                 \/ CreateBookingResolve(q) \/ ChangeRead(q) \/ ChangeResolve(q) \/ AbortBooking(q)
          PROVE  BookInductive'
      BY <2>2, BookReads
    <2>3. ASSUME NEW q \in BookRequest, MakeDefault(q) PROVE BookInductive'
      BY <2>3, MakeDefaultInductive
    <2>4. ASSUME NEW q \in BookRequest, CreateBookingInsert(q) PROVE BookInductive'
      BY <2>4, CreateBookingInsertInductive
    <2>5. ASSUME NEW q \in BookRequest, ChangeCommit(q) PROVE BookInductive'
      BY <2>5, ChangeCommitInductive
    <2>6. CASE UNCHANGED bookVars
      <3>1. UNCHANGED <<present, default, active, booking, log, first, bpc, target, seen, apart>>
        BY <2>6 DEF bookVars, statusVars, bookingVars, bookReqVars
      <3>2. present \subseteq Status /\ active \subseteq present
        BY DEF BookInductive, BookTypeOK
      <3> QED BY <3>1, <3>2, StatusesInductive
    <2> QED BY <2>1, <2>2, <2>3, <2>4, <2>5, <2>6 DEF BookNext
  <1> QED BY <1>1, BookInductiveInit, PTL DEF BookSpec

(***************************************************************************)
(* Transactions that clear the defaults they see leave no more defaults    *)
(* than requests, however many overlap and however often: one is left by   *)
(* each at most (statuses.service.ts).                                     *)
(***************************************************************************)
THEOREM DefaultsFew == BookSpec => []DefaultsOverlap
  <1>1. BookInductive => DefaultsOverlap
    <2> SUFFICES ASSUME BookInductive PROVE Cardinality(default) <= Cardinality(BookRequest)
      BY DEF DefaultsOverlap
    <2>1. PICK maker \in [default -> BookRequest] :
              \A s, t \in default : maker[s] = maker[t] => s = t
      BY DEF BookInductive, DefaultsMade
    <2>2. maker \in Injection(default, BookRequest)
      BY <2>1 DEF Injection, IsInjective
    <2> QED BY <2>2, FS_Injection, BookingsAssumption
  <1> QED BY <1>1, BookInductiveInvariant, PTL

(***************************************************************************)
(* The log of a booking ends with its status, and without overlaps each    *)
(* entry is a change, with any number of statuses, requests and changes    *)
(* (bookings.service.ts).                                                  *)
(***************************************************************************)
THEOREM LogTellsStory == BookSpec => []LogFollowsBooking
  <1>1. BookInductive => LogFollowsBooking
    BY DEF BookInductive
  <1> QED BY <1>1, BookInductiveInvariant, PTL

(***************************************************************************)
(* Occurrences of service contracts                                        *)
(***************************************************************************)

\* A nonempty finite set of naturals has a least element.
LEMMA LeastElement ==
    ASSUME NEW S \in SUBSET Nat, S # {}, IsFiniteSet(S)
    PROVE  \E l \in S : \A x \in S : l <= x
  <1> DEFINE Below(x) == {y \in S : y < x}
             T == {Below(x) : x \in S}
  <1>1. T \subseteq FiniteSubsetsOf(S) /\ T # {}
    <2>1. \A x \in S : Below(x) \in SUBSET S
      OBVIOUS
    <2>2. \A B \in SUBSET S : B \in FiniteSubsetsOf(S)
      BY FS_Subset DEF FiniteSubsetsOf
    <2> HIDE DEF Below
    <2> QED BY <2>1, <2>2
  <1>2. PICK A \in T : \A B \in T : <<B, A>> \notin StrictSubsetOrdering(S)
    <2> HIDE DEF T
    <2> QED BY <1>1, FS_StrictSubsetOrderingWellFounded, WFMin
  <1>3. PICK l \in S : A = Below(l)
    BY <1>2
  <1>4. ASSUME NEW x \in S, x < l PROVE FALSE
    <2>1. \A y \in S : y \in Nat
      OBVIOUS
    <2>2. Below(x) \subseteq Below(l) /\ x \in Below(l) /\ x \notin Below(x)
      <3>1. x \in Nat /\ l \in Nat /\ ~(x < x)
        BY <2>1
      <3>2. \A y \in S : y < x => y < l
        BY <1>4, <2>1
      <3> QED BY <1>4, <3>1, <3>2
    <2>3. Below(x) \in T /\ Below(x) \in SUBSET S /\ Below(l) \in SUBSET S
      OBVIOUS
    <2>4. <<Below(x), Below(l)>> \in StrictSubsetOrdering(S)
      <3> HIDE DEF Below
      <3> QED BY <2>2, <2>3 DEF StrictSubsetOrdering
    <2> QED BY <1>2, <1>3, <2>3, <2>4
  <1>5. \A x \in S : l <= x
    <2>1. \A x \in S : x \in Nat
      OBVIOUS
    <2> QED BY <1>4, <2>1
  <1> QED BY <1>5

\* Sets of instants are finite.
LEMMA InstantsFinite ==
    /\ IsFiniteSet(Instant) /\ Instant \subseteq Nat
    /\ \A S \in SUBSET Instant : IsFiniteSet(S) /\ S \in SUBSET Nat
  <1>1. IsFiniteSet(Instant) /\ Instant \subseteq Nat
    BY OccurrencesAssumption, FS_Interval DEF Instant
  <1> QED BY <1>1, FS_Subset

\* After is the next date of the rule, or 0 when there is none.
LEMMA AfterFacts ==
    ASSUME NEW r, NEW t \in Nat
    PROVE  \/ After(r, t) = 0 /\ \A d \in Dates(r) : ~(d > t)
           \/ /\ After(r, t) \in Dates(r) /\ After(r, t) > t /\ After(r, t) # 0
              /\ \A d \in Dates(r) : d > t => After(r, t) <= d
  <1> DEFINE later == {d \in Dates(r) : d > t}
  <1>1. later \in SUBSET Instant
    BY DEF Dates
  <1>2. IsFiniteSet(later) /\ later \in SUBSET Nat
    BY <1>1, InstantsFinite
  <1>3. After(r, t) = IF later = {} THEN 0 ELSE CHOOSE d \in later : \A e \in later : d <= e
    BY DEF After
  <1>4. CASE later = {}
    BY <1>3, <1>4
  <1>5. CASE later # {}
    <2> DEFINE a == CHOOSE d \in later : \A e \in later : d <= e
    <2>1. \E d \in later : \A e \in later : d <= e
      <3> HIDE DEF later
      <3> QED BY <1>2, <1>5, LeastElement
    <2>2. a \in later /\ \A e \in later : a <= e
      <3> HIDE DEF later
      <3> QED BY <2>1
    <2>3. After(r, t) = a
      BY <1>3, <1>5
    <2>4. a \in Dates(r) /\ a > t /\ a \in Nat
      BY <1>2, <2>2
    <2> HIDE DEF a
    <2>5. \A d \in Dates(r) : d > t => a <= d
      BY <2>2
    <2> QED BY <2>3, <2>4, <2>5
  <1> QED BY <1>4, <1>5

\* The loop's steps, as a function: there is one that takes each step from the one
\* before it.
LEMMA StepsExist ==
    ASSUME NEW r, NEW cursor \in Nat
    PROVE  \E f : f = [n \in 1 .. MaxCount |->
                          IF n = 1 THEN After(r, cursor)
                          ELSE IF f[n - 1] = 0 THEN 0 ELSE After(r, f[n - 1])]
  <1> DEFINE Steps(f, k) ==
                 \A n \in 1 .. k : f[n] = IF n = 1 THEN After(r, cursor)
                                          ELSE IF f[n - 1] = 0 THEN 0 ELSE After(r, f[n - 1])
             Without == {k \in 0 .. MaxCount : ~ \E f : f = [n \in 1 .. k |-> f[n]] /\ Steps(f, k)}
  <1>1. Without \in SUBSET Nat /\ IsFiniteSet(Without)
    <2>1. Without \in SUBSET (0 .. MaxCount)
      OBVIOUS
    <2>2. IsFiniteSet(0 .. MaxCount) /\ 0 .. MaxCount \subseteq Nat
      BY OccurrencesAssumption, FS_Interval
    <2> HIDE DEF Without
    <2> QED BY <2>1, <2>2, FS_Subset
  <1>2. ASSUME Without # {} PROVE FALSE
    <2>1. PICK k \in Without : \A j \in Without : k <= j
      <3> HIDE DEF Without
      <3> QED BY <1>1, <1>2, LeastElement
    <2>2. k \in 0 .. MaxCount /\ k \in Nat /\ ~ \E f : f = [n \in 1 .. k |-> f[n]] /\ Steps(f, k)
      BY <1>1, <2>1
    <2>3. k # 0
      <3> SUFFICES ASSUME k = 0 PROVE FALSE
        OBVIOUS
      <3> DEFINE f == [n \in 1 .. 0 |-> 0]
      <3>1. f = [n \in 1 .. k |-> f[n]] /\ Steps(f, k)
        OBVIOUS
      <3> QED BY <2>2, <3>1
    <2>4. k - 1 \in 0 .. MaxCount /\ k - 1 \notin Without
      BY <2>1, <2>2, <2>3, OccurrencesAssumption
    <2>5. PICK f : f = [n \in 1 .. k - 1 |-> f[n]] /\ Steps(f, k - 1)
      BY <2>4
    <2> DEFINE last == IF k = 1 THEN After(r, cursor)
                       ELSE IF f[k - 1] = 0 THEN 0 ELSE After(r, f[k - 1])
               g == [n \in 1 .. k |-> IF n = k THEN last ELSE f[n]]
    <2>6. g = [n \in 1 .. k |-> g[n]]
      <3> HIDE DEF last
      <3> QED OBVIOUS
    <2>7. Steps(g, k)
      <3> SUFFICES ASSUME NEW n \in 1 .. k
                   PROVE  g[n] = IF n = 1 THEN After(r, cursor)
                                 ELSE IF g[n - 1] = 0 THEN 0 ELSE After(r, g[n - 1])
        OBVIOUS
      <3>1. n # 1 => n - 1 \in 1 .. k /\ n - 1 # k
        BY <2>2
      <3>2. n # 1 => g[n - 1] = f[n - 1]
        <4> HIDE DEF last
        <4> QED BY <3>1
      <3>3. CASE n = k
        <4>1. g[n] = last
          <5> HIDE DEF last
          <5> QED BY <3>3
        <4> HIDE DEF g
        <4> QED BY <3>2, <3>3, <4>1
      <3>4. CASE n # k
        <4>1. n \in 1 .. k - 1
          BY <2>2, <3>4
        <4>2. g[n] = f[n]
          <5> HIDE DEF last
          <5> QED BY <3>4
        <4>3. f[n] = IF n = 1 THEN After(r, cursor)
                     ELSE IF f[n - 1] = 0 THEN 0 ELSE After(r, f[n - 1])
          BY <2>5, <4>1
        <4> HIDE DEF g
        <4> QED BY <3>2, <4>2, <4>3
      <3> QED BY <3>3, <3>4
    <2> QED
      <3> HIDE DEF g, Steps
      <3> QED BY <2>2, <2>6, <2>7
  <1>3. MaxCount \in 0 .. MaxCount /\ MaxCount \notin Without
    BY <1>2, OccurrencesAssumption
  <1>4. PICK f : f = [n \in 1 .. MaxCount |-> f[n]] /\ Steps(f, MaxCount)
    BY <1>3
  <1>5. f = [n \in 1 .. MaxCount |->
                IF n = 1 THEN After(r, cursor)
                ELSE IF f[n - 1] = 0 THEN 0 ELSE After(r, f[n - 1])]
    <2> DEFINE step(n) == IF n = 1 THEN After(r, cursor)
                          ELSE IF f[n - 1] = 0 THEN 0 ELSE After(r, f[n - 1])
    <2>1. \A n \in 1 .. MaxCount : f[n] = step(n)
      BY <1>4
    <2> HIDE DEF step
    <2>2. [n \in 1 .. MaxCount |-> f[n]] = [n \in 1 .. MaxCount |-> step(n)]
      BY <2>1
    <2>3. f = [n \in 1 .. MaxCount |-> step(n)]
      BY <1>4, <2>2
    <2> QED BY <2>3 DEF step
  <1> QED BY <1>5

\* The occurrences generated from a cursor are dates of the rule after it, and
\* leave none out before the last of them.
LEMMA GeneratedWithoutGap ==
    ASSUME NEW r, NEW cursor \in Nat, NEW count \in 1 .. MaxCount
    PROVE  LET B == GenerateNextOccurrences(r, cursor, count) IN
           /\ B \subseteq Dates(r)
           /\ \A s \in B, t \in Dates(r) : cursor < t /\ t < s => t \in B
  <1> DEFINE nth == CHOOSE f : f = [n \in 1 .. MaxCount |->
                                       IF n = 1 THEN After(r, cursor)
                                       ELSE IF f[n - 1] = 0 THEN 0 ELSE After(r, f[n - 1])]
             B == {nth[n] : n \in 1 .. count} \ {0}
  <1>1. GenerateNextOccurrences(r, cursor, count) = B
    BY DEF GenerateNextOccurrences
  <1>2. nth = [n \in 1 .. MaxCount |->
                  IF n = 1 THEN After(r, cursor)
                  ELSE IF nth[n - 1] = 0 THEN 0 ELSE After(r, nth[n - 1])]
    BY StepsExist
  <1> HIDE DEF nth
  <1>3. \A n \in 1 .. MaxCount :
            nth[n] = IF n = 1 THEN After(r, cursor)
                     ELSE IF nth[n - 1] = 0 THEN 0 ELSE After(r, nth[n - 1])
    BY <1>2
  <1>4. \A d \in Dates(r) : d \in Nat
    BY InstantsFinite DEF Dates
  <1> DEFINE Good(n) ==
                 nth[n] # 0 =>
                     /\ nth[n] \in Dates(r)
                     /\ \A t \in Dates(r) : cursor < t /\ t <= nth[n] =>
                            \E j \in 1 .. n : nth[j] = t
             Bad == {n \in 1 .. count : ~Good(n)}
  <1>5. count \in Nat /\ count <= MaxCount /\ 1 .. count \subseteq 1 .. MaxCount
    BY OccurrencesAssumption
  <1>6. Bad \in SUBSET Nat /\ IsFiniteSet(Bad)
    <2>1. Bad \in SUBSET (1 .. count)
      OBVIOUS
    <2>2. IsFiniteSet(1 .. count) /\ 1 .. count \subseteq Nat
      BY <1>5, FS_Interval
    <2> HIDE DEF Bad
    <2> QED BY <2>1, <2>2, FS_Subset
  <1>7. ASSUME Bad # {} PROVE FALSE
    <2>1. PICK k \in Bad : \A j \in Bad : k <= j
      <3> HIDE DEF Bad
      <3> QED BY <1>6, <1>7, LeastElement
    <2>2. k \in 1 .. count /\ ~Good(k)
      BY <2>1
    <2> HIDE DEF Good
    <2>3. Good(k)
      <3>1. CASE k = 1
        <4>1. nth[1] = After(r, cursor)
          BY <1>3, <1>5, <2>2, <3>1
        <4>2. CASE nth[1] = 0
          BY <3>1, <4>2 DEF Good
        <4>3. CASE nth[1] # 0
          <5>1. /\ nth[1] \in Dates(r)
                /\ \A d \in Dates(r) : d > cursor => nth[1] <= d
            BY <4>1, <4>3, AfterFacts
          <5>2. \A t \in Dates(r) : cursor < t /\ t <= nth[1] => nth[1] = t
            BY <1>4, <5>1
          <5> QED BY <3>1, <5>1, <5>2 DEF Good
        <4> QED BY <4>2, <4>3
      <3>2. CASE k # 1
        <4>1. PICK j \in 1 .. count : j = k - 1
          BY <2>2, <3>2
        <4>2. Good(j)
          <5>1. ~(k <= j)
            BY <2>2, <4>1
          <5>2. j \notin Bad
            BY <2>1, <5>1
          <5> QED BY <5>2
        <4>3. nth[k] = IF nth[j] = 0 THEN 0 ELSE After(r, nth[j])
          BY <1>3, <1>5, <2>2, <3>2, <4>1
        <4>4. CASE nth[k] = 0
          BY <4>4 DEF Good
        <4>5. CASE nth[k] # 0
          <5>1. nth[j] # 0 /\ nth[k] = After(r, nth[j])
            BY <4>3, <4>5
          <5>2. nth[j] \in Dates(r) /\ nth[j] \in Nat
                /\ \A t \in Dates(r) : cursor < t /\ t <= nth[j] => \E i \in 1 .. j : nth[i] = t
            BY <1>4, <4>2, <5>1 DEF Good
          <5>3. /\ nth[k] \in Dates(r) /\ nth[k] \in Nat
                /\ \A d \in Dates(r) : d > nth[j] => nth[k] <= d
            BY <1>4, <4>5, <5>1, <5>2, AfterFacts
          <5>4. ASSUME NEW t \in Dates(r), cursor < t, t <= nth[k]
                PROVE  \E i \in 1 .. k : nth[i] = t
            <6>1. t \in Nat
              BY <1>4
            <6>2. CASE t <= nth[j]
              <7>1. PICK i \in 1 .. j : nth[i] = t
                BY <5>2, <5>4, <6>2
              <7>2. i \in 1 .. k
                BY <2>2, <4>1
              <7> QED BY <7>1, <7>2
            <6>3. CASE ~(t <= nth[j])
              <7>1. t > nth[j]
                BY <5>2, <6>1, <6>3
              <7>2. t = nth[k]
                BY <5>3, <5>4, <6>1, <7>1
              <7>3. k \in 1 .. k
                BY <2>2
              <7> QED BY <7>2, <7>3
            <6> QED BY <6>2, <6>3
          <5> QED BY <5>3, <5>4 DEF Good
        <4> QED BY <4>4, <4>5
      <3> QED BY <3>1, <3>2
    <2> QED BY <2>2, <2>3
  <1>8. \A n \in 1 .. count : Good(n)
    BY <1>7
  <1>9. B \subseteq Dates(r)
    BY <1>8
  <1>10. ASSUME NEW s \in B, NEW t \in Dates(r), cursor < t, t < s PROVE t \in B
    <2>1. PICK n \in 1 .. count : s = nth[n] /\ nth[n] # 0
      OBVIOUS
    <2>2. t \in Nat /\ s \in Nat
      BY <1>4, <1>9
    <2>3. PICK j \in 1 .. n : nth[j] = t
      BY <1>8, <1>10, <2>1, <2>2
    <2>4. j \in 1 .. count /\ t # 0
      BY <1>5, <1>10, <2>2
    <2> QED BY <2>3, <2>4
  <1> HIDE DEF B
  <1> QED BY <1>1, <1>9, <1>10

\* The cursor is the clock or a stored occurrence, and none of them is later.
LEMMA CursorFacts ==
    ASSUME OccTypeOK
    PROVE  /\ Cursor \in stored \cup {now} /\ Cursor \in Nat
           /\ \A s \in stored \cup {now} : s <= Cursor
  <1>1. stored \in SUBSET Instant /\ now \in Nat
    BY OccurrencesAssumption DEF OccTypeOK
  <1>2. IsFiniteSet(stored \cup {now}) /\ stored \cup {now} \in SUBSET Nat
    BY <1>1, InstantsFinite, FS_AddElement
  <1>3. \E t \in stored \cup {now} : \A s \in stored \cup {now} : s <= t
    BY <1>2, HighestElement
  <1> DEFINE c == CHOOSE t \in stored \cup {now} : \A s \in stored \cup {now} : s <= t
  <1>4. c \in stored \cup {now} /\ \A s \in stored \cup {now} : s <= c
    BY <1>3
  <1>5. Cursor = c
    BY DEF Cursor
  <1> HIDE DEF c
  <1> QED BY <1>2, <1>4, <1>5

\* What a materialisation is about to insert leaves no gap behind what is stored.
BatchesFit ==
    contract = "there" /\ changes = 0 =>
        \A m \in Materialize :
            /\ mrule[m] = rule
            /\ \A s \in batch[m], t \in Dates(rule) :
                    now < t /\ t < s => t \in batch[m] \cup stored

\* With the contract go its occurrences.
DeletedEmpty == contract = "deleted" => stored = {}

OccInductive == OccTypeOK /\ BatchesFit /\ DeletedEmpty /\ NoGapAhead

\* It holds at the start.
LEMMA OccInductiveInit == OccInit => OccInductive
  BY OccurrencesAssumption
     DEF OccInit, OccInductive, OccTypeOK, BatchesFit, DeletedEmpty, NoGapAhead

\* A materialisation reads the rule, or stops.
LEMMA OccReadInductive ==
    ASSUME OccInductive, NEW m \in Materialize, MaterializeRead(m) \/ MaterializeAbort(m)
    PROVE  OccInductive'
  <1>0. OccTypeOK /\ BatchesFit /\ DeletedEmpty /\ NoGapAhead
    BY DEF OccInductive
  <1>1. UNCHANGED <<contract, rule, changes, stored, now>>
    BY DEF MaterializeRead, MaterializeAbort
  <1>2. /\ \/ mrule' = mrule
           \/ mrule' = [mrule EXCEPT ![m] = rule]
        /\ \/ batch' = batch
           \/ batch' = [batch EXCEPT ![m] = {}]
        /\ \/ mpc' = mpc
           \/ mpc' = [mpc EXCEPT ![m] = "latest"]
           \/ mpc' = [mpc EXCEPT ![m] = "idle"]
    BY DEF MaterializeRead, MaterializeAbort
  <1>3. /\ mrule' \in [Materialize -> Rules] /\ batch' \in [Materialize -> SUBSET Instant]
        /\ mpc' \in [Materialize -> {"idle", "latest", "insert"}]
    BY <1>0, <1>2 DEF OccTypeOK
  <1>4. \A p \in Materialize : mrule'[p] \in {mrule[p], rule} /\ batch'[p] \in {batch[p], {}}
    BY <1>0, <1>2 DEF OccTypeOK
  <1>5. OccTypeOK'
    BY <1>0, <1>1, <1>3 DEF OccTypeOK
  <1>6. BatchesFit'
    BY <1>0, <1>1, <1>4 DEF BatchesFit
  <1>7. DeletedEmpty' /\ NoGapAhead'
    BY <1>0, <1>1 DEF DeletedEmpty, NoGapAhead
  <1> QED BY <1>5, <1>6, <1>7 DEF OccInductive

\* The next occurrences are generated.
LEMMA MaterializeLatestInductive ==
    ASSUME OccInductive, NEW m \in Materialize, MaterializeLatest(m)
    PROVE  OccInductive'
  <1>0. OccTypeOK /\ BatchesFit /\ DeletedEmpty /\ NoGapAhead
    BY DEF OccInductive
  <1>1. UNCHANGED <<contract, rule, changes, stored, now, mrule>>
    BY DEF MaterializeLatest
  <1>2. PICK count \in 1 .. MaxCount :
            LET next == GenerateNextOccurrences(mrule[m], Cursor, count)
            IN /\ batch' = [batch EXCEPT ![m] = next]
               /\ mpc' = [mpc EXCEPT ![m] = IF next = {} THEN "idle" ELSE "insert"]
    BY DEF MaterializeLatest
  <1>3. PICK r \in Rules : r = mrule[m]
    BY <1>0 DEF OccTypeOK
  <1>4. PICK c \in Nat : c = Cursor /\ c \in stored \cup {now} /\ \A s \in stored : s <= c
    BY <1>0, CursorFacts
  <1>5. PICK B : B = GenerateNextOccurrences(r, c, count)
    OBVIOUS
  <1>6. /\ B \subseteq Dates(r)
        /\ \A s \in B, t \in Dates(r) : c < t /\ t < s => t \in B
    BY <1>5, GeneratedWithoutGap
  <1>7. /\ batch' = [batch EXCEPT ![m] = B]
        /\ mpc' = [mpc EXCEPT ![m] = IF B = {} THEN "idle" ELSE "insert"]
    BY <1>2, <1>3, <1>4, <1>5
  <1>8. B \in SUBSET Instant
    BY <1>6 DEF Dates
  <1>9. OccTypeOK'
    BY <1>0, <1>1, <1>7, <1>8 DEF OccTypeOK
  <1>10. batch'[m] = B /\ \A p \in Materialize : p # m => batch'[p] = batch[p]
    BY <1>0, <1>7 DEF OccTypeOK
  <1>11. ASSUME contract = "there", changes = 0, NEW s \in B, NEW t \in Dates(rule),
                now < t, t < s
         PROVE  t \in B \cup stored
    <2>1. r = rule
      BY <1>0, <1>3, <1>11 DEF BatchesFit
    <2>2. t \in Nat /\ now \in Nat
      BY <1>0, InstantsFinite, OccurrencesAssumption DEF Dates, OccTypeOK
    <2>3. CASE c < t
      BY <1>6, <1>11, <2>1, <2>3
    <2>4. CASE ~(c < t)
      <3>1. c \in stored /\ (t = c \/ t < c)
        BY <1>4, <1>11, <2>2, <2>4
      <3> QED BY <1>0, <1>11, <3>1 DEF NoGapAhead
    <2> QED BY <2>3, <2>4
  <1>12. BatchesFit'
    <2> SUFFICES ASSUME contract = "there", changes = 0, NEW p \in Materialize
                 PROVE  /\ mrule[p] = rule
                        /\ \A s \in batch'[p], t \in Dates(rule) :
                              now < t /\ t < s => t \in batch'[p] \cup stored
      BY <1>1 DEF BatchesFit, Dates, Instant
    <2>1. CASE p = m
      BY <1>0, <1>10, <1>11, <2>1 DEF BatchesFit
    <2>2. CASE p # m
      BY <1>0, <1>10, <2>2 DEF BatchesFit
    <2> QED BY <2>1, <2>2
  <1>13. DeletedEmpty' /\ NoGapAhead'
    BY <1>0, <1>1 DEF DeletedEmpty, NoGapAhead
  <1> QED BY <1>9, <1>12, <1>13 DEF OccInductive

\* They are inserted, if the contract is still there.
LEMMA MaterializeInsertInductive ==
    ASSUME OccInductive, NEW m \in Materialize, MaterializeInsert(m)
    PROVE  OccInductive'
  <1>0. OccTypeOK /\ BatchesFit /\ DeletedEmpty /\ NoGapAhead
    BY DEF OccInductive
  <1>1. /\ stored' = IF contract = "there" THEN stored \cup batch[m] ELSE stored
        /\ mpc' = [mpc EXCEPT ![m] = "idle"] /\ batch' = [batch EXCEPT ![m] = {}]
        /\ UNCHANGED <<contract, rule, changes, now, mrule>>
    BY DEF MaterializeInsert
  <1>2. stored' \subseteq Instant
    BY <1>0, <1>1 DEF OccTypeOK
  <1>3. OccTypeOK'
    BY <1>0, <1>1, <1>2 DEF OccTypeOK
  <1>4. stored \subseteq stored' /\ \A p \in Materialize : batch'[p] \in {batch[p], {}}
    BY <1>0, <1>1 DEF OccTypeOK
  <1>5. BatchesFit'
    BY <1>0, <1>1, <1>4 DEF BatchesFit
  <1>6. DeletedEmpty'
    BY <1>0, <1>1 DEF DeletedEmpty
  <1>7. NoGapAhead'
    <2> SUFFICES ASSUME changes = 0, NEW t \in Dates(rule), NEW s \in stored', now < t, t < s
                 PROVE  t \in stored'
      BY <1>1 DEF NoGapAhead
    <2>1. CASE s \in stored
      BY <1>0, <1>4, <2>1 DEF NoGapAhead
    <2>2. CASE s \notin stored
      <3>1. contract = "there" /\ s \in batch[m] /\ stored' = stored \cup batch[m]
        BY <1>1, <2>2
      <3> QED BY <1>0, <3>1 DEF BatchesFit
    <2> QED BY <2>1, <2>2
  <1> QED BY <1>3, <1>5, <1>6, <1>7 DEF OccInductive

\* The rule changes, the contract is deleted, time passes.
LEMMA OccOutsideInductive ==
    ASSUME OccInductive, (\E r \in Rules : ReplaceRule(r)) \/ DeleteContract \/ Later
    PROVE  OccInductive'
  <1>0. OccTypeOK /\ BatchesFit /\ DeletedEmpty /\ NoGapAhead
    BY DEF OccInductive
  <1>t. \A t \in Dates(rule) : t \in Nat
    BY InstantsFinite DEF Dates
  <1>1. ASSUME NEW r \in Rules, ReplaceRule(r) PROVE OccInductive'
    <2>1. /\ contract = "there" /\ changes < MaxChanges /\ rule' = r /\ changes' = changes + 1
          /\ UNCHANGED <<contract, stored, now, mpc, mrule, batch>>
      BY <1>1 DEF ReplaceRule
    <2>2. changes' \in 0 .. MaxChanges /\ changes' # 0
      BY <1>0, <2>1, OccurrencesAssumption DEF OccTypeOK
    <2>3. OccTypeOK'
      BY <1>0, <2>1, <2>2 DEF OccTypeOK
    <2>4. BatchesFit' /\ DeletedEmpty' /\ NoGapAhead'
      BY <1>0, <2>1, <2>2 DEF BatchesFit, DeletedEmpty, NoGapAhead
    <2> QED BY <2>3, <2>4 DEF OccInductive
  <1>2. CASE DeleteContract
    <2>1. /\ contract' = "deleted" /\ stored' = {}
          /\ UNCHANGED <<rule, changes, now, mpc, mrule, batch>>
      BY <1>2 DEF DeleteContract
    <2>2. OccTypeOK'
      BY <1>0, <2>1 DEF OccTypeOK
    <2>3. BatchesFit' /\ DeletedEmpty' /\ NoGapAhead'
      BY <2>1 DEF BatchesFit, DeletedEmpty, NoGapAhead
    <2> QED BY <2>2, <2>3 DEF OccInductive
  <1>3. CASE Later
    <2>1. /\ now < MaxNow /\ now' = now + 1 /\ now \in Nat
          /\ UNCHANGED <<contract, rule, changes, stored, mpc, mrule, batch>>
      BY <1>0, <1>3 DEF Later, OccTypeOK
    <2>2. now' \in 0 .. MaxNow
      BY <1>0, <2>1, OccurrencesAssumption DEF OccTypeOK
    <2>3. OccTypeOK'
      BY <1>0, <2>1, <2>2 DEF OccTypeOK
    <2>4. \A t \in Dates(rule) : now' < t => now < t
      BY <1>t, <2>1
    <2>5. BatchesFit' /\ DeletedEmpty' /\ NoGapAhead'
      BY <1>0, <2>1, <2>4 DEF BatchesFit, DeletedEmpty, NoGapAhead
    <2> QED BY <2>3, <2>5 DEF OccInductive
  <1> QED BY <1>1, <1>2, <1>3

\* The inductive invariant of the occurrences.
THEOREM OccInductiveInvariant == OccSpec => []OccInductive
  <1>1. OccInductive /\ [OccNext]_occVars => OccInductive'
    <2> SUFFICES ASSUME OccInductive, [OccNext]_occVars PROVE OccInductive'
      OBVIOUS
    <2>1. ASSUME NEW m \in Materialize, MaterializeRead(m) \/ MaterializeAbort(m)
          PROVE  OccInductive'
      BY <2>1, OccReadInductive
    <2>2. ASSUME NEW m \in Materialize, MaterializeLatest(m) PROVE OccInductive'
      BY <2>2, MaterializeLatestInductive
    <2>3. ASSUME NEW m \in Materialize, MaterializeInsert(m) PROVE OccInductive'
      BY <2>3, MaterializeInsertInductive
    <2>4. CASE (\E r \in Rules : ReplaceRule(r)) \/ DeleteContract \/ Later
      BY <2>4, OccOutsideInductive
    <2>5. CASE UNCHANGED occVars
      BY <2>5 DEF occVars, OccInductive, OccTypeOK, BatchesFit, DeletedEmpty, NoGapAhead
    <2> QED BY <2>1, <2>2, <2>3, <2>4, <2>5 DEF OccNext
  <1> QED BY <1>1, OccInductiveInit, PTL DEF OccSpec

(***************************************************************************)
(* Occurrences are stored ahead without a gap, for any rules, horizon and  *)
(* counts, and any number of materialisations that overlap, stop or find   *)
(* their contract gone (serviceContracts.service.ts).                      *)
(***************************************************************************)
THEOREM OccurrencesUnbroken == OccSpec => []NoGapAhead
  <1>1. OccInductive => NoGapAhead
    BY DEF OccInductive
  <1> QED BY <1>1, OccInductiveInvariant, PTL

(***************************************************************************)
(* Paging                                                                  *)
(***************************************************************************)

\* The rows before a row, and how many rows the pages read so far hold.
Lower(s) == {r \in listed : key[r] < key[s]}

Rank(s) == Cardinality(Lower(s))

Done == IF "items" \in pending THEN (page - 1) * PageSize ELSE page * PageSize

\* A steady row stays where it is, and has been given when it was on a page.
SteadyGiven ==
    \A s \in steady :
        /\ s \in listed /\ Alone(s)
        /\ given[s] = IF Rank(s) < Done THEN 1 ELSE 0

\* A count tells of more rows than there are before a steady one.
SteadyCounted ==
    page > 0 /\ "count" \notin pending => \A s \in steady : Rank(s) < total

NoWalk == page = 0 => steady = {} /\ pending = {}

PagingInductive == PagingTypeOK /\ NoWalk /\ SteadyGiven /\ SteadyCounted

\* The rows are finitely many.
LEMMA RowsFinite ==
    ASSUME PagingTypeOK
    PROVE  /\ IsFiniteSet(listed) /\ Cardinality(listed) \in Nat
           /\ Cardinality(listed) \in 0 .. Cardinality(Item) /\ Cardinality(Item) \in Nat
           /\ \A S \in SUBSET listed :
                 /\ IsFiniteSet(S) /\ Cardinality(S) \in Nat
                 /\ Cardinality(S) <= Cardinality(listed)
                 /\ Cardinality(S) = Cardinality(listed) => S = listed
           /\ \A s : Lower(s) \subseteq listed /\ Rank(s) \in Nat
  <1>1. IsFiniteSet(listed) /\ Cardinality(listed) <= Cardinality(Item)
    BY PagingAssumption, FS_Subset DEF PagingTypeOK
  <1>2. Cardinality(listed) \in Nat /\ Cardinality(Item) \in Nat
    BY <1>1, PagingAssumption, FS_CardinalityType
  <1>3. \A S \in SUBSET listed :
            /\ IsFiniteSet(S) /\ Cardinality(S) \in Nat
            /\ Cardinality(S) <= Cardinality(listed)
            /\ Cardinality(S) = Cardinality(listed) => S = listed
    BY <1>1, FS_Subset, FS_CardinalityType
  <1>4. \A s : Lower(s) \in SUBSET listed
    BY DEF Lower
  <1>5. \A s : Rank(s) \in Nat
    BY <1>3, <1>4 DEF Rank
  <1> QED BY <1>1, <1>2, <1>3, <1>4, <1>5

\* A row alone with its key is among the first n exactly when fewer than n rows
\* come before it, in whatever order rows with equal keys come.
LEMMA FirstFacts ==
    ASSUME PagingTypeOK, NEW n \in Nat, NEW S \in First(n), NEW s \in listed, Alone(s)
    PROVE  s \in S <=> Rank(s) < n
  <1>1. /\ S \in SUBSET listed
        /\ Cardinality(S) = IF n < Cardinality(listed) THEN n ELSE Cardinality(listed)
        /\ \A r \in S, t \in listed \ S : key[r] <= key[t]
    BY DEF First
  <1>2. /\ Cardinality(listed) \in Nat /\ IsFiniteSet(S) /\ Cardinality(S) \in Nat
        /\ Cardinality(S) = Cardinality(listed) => S = listed
        /\ Lower(s) \in SUBSET listed /\ Rank(s) \in Nat
    BY <1>1, RowsFinite
  <1>3. \A r \in listed : key[r] \in Nat
    BY PagingAssumption DEF PagingTypeOK
  <1>4. ASSUME s \in S PROVE Rank(s) < n
    <2>1. Lower(s) \subseteq S
      <3> SUFFICES ASSUME NEW r \in Lower(s), r \notin S PROVE FALSE
        OBVIOUS
      <3>1. r \in listed /\ key[r] < key[s]
        BY DEF Lower
      <3>2. key[s] <= key[r]
        BY <1>1, <1>4, <3>1
      <3> QED BY <1>3, <3>1, <3>2
    <2>2. s \notin Lower(s)
      BY <1>3 DEF Lower
    <2>3. Lower(s) \in SUBSET S /\ Lower(s) # S
      BY <1>4, <2>1, <2>2
    <2>4. Cardinality(Lower(s)) <= Cardinality(S) /\ Cardinality(Lower(s)) # Cardinality(S)
      BY <1>2, <2>3, FS_Subset
    <2> QED BY <1>1, <1>2, <2>4 DEF Rank
  <1>5. ASSUME s \notin S, Rank(s) < n PROVE FALSE
    <2>1. S \subseteq Lower(s)
      <3> SUFFICES ASSUME NEW r \in S PROVE r \in Lower(s)
        OBVIOUS
      <3>1. r \in listed /\ r # s /\ key[r] <= key[s]
        BY <1>1, <1>5
      <3>2. key[r] # key[s]
        BY <3>1 DEF Alone
      <3> QED BY <1>3, <3>1, <3>2 DEF Lower
    <2>2. Cardinality(S) <= Rank(s)
      <3>1. IsFiniteSet(Lower(s)) /\ S \in SUBSET Lower(s)
        BY <1>2, <2>1, RowsFinite
      <3> QED BY <3>1, FS_Subset DEF Rank
    <2>3. S # listed
      BY <1>5
    <2> QED BY <1>1, <1>2, <1>5, <2>2, <2>3
  <1> QED BY <1>4, <1>5

\* Rows change behind the steady ones, which keep their rank.
LEMMA RowsChanged ==
    ASSUME PagingInductive, PagingTypeOK', NEW r \in Item,
           UNCHANGED <<total, page, pending, given>>,
           listed' \ {r} = listed \ {r}, \A s \in Item : s # r => key'[s] = key[s],
           \A s \in steady' : /\ s \in steady /\ s # r
                              /\ r \in listed => key[s] < key[r]
                              /\ r \in listed' => key[s] < key'[r]
    PROVE  PagingInductive'
  <1>0. PagingTypeOK /\ NoWalk /\ SteadyGiven /\ SteadyCounted
    BY DEF PagingInductive
  <1>1. /\ \A s \in Item : key[s] \in Nat /\ key'[s] \in Nat
        /\ listed \subseteq Item /\ listed' \subseteq Item
    BY <1>0, PagingAssumption DEF PagingTypeOK
  <1>2. ASSUME NEW s \in steady'
        PROVE  s \in listed' /\ Alone(s)' /\ Rank(s)' = Rank(s) /\ s \in steady
    <2>1. s \in steady /\ s # r /\ s \in listed /\ Alone(s) /\ s \in listed' /\ key'[s] = key[s]
      BY <1>0, <1>1 DEF SteadyGiven
    <2>2. \A t \in listed' : t # r => t \in listed /\ key'[t] = key[t]
      BY <1>1
    <2>3. \A t \in listed : t # r => t \in listed'
      OBVIOUS
    <2>4. \A t \in listed' : key'[t] = key'[s] => t = s
      <3> SUFFICES ASSUME NEW t \in listed', key'[t] = key'[s] PROVE t = s
        OBVIOUS
      <3>1. CASE t = r
        BY <1>1, <2>1, <3>1
      <3>2. CASE t # r
        BY <2>1, <2>2, <3>2 DEF Alone
      <3> QED BY <3>1, <3>2
    <2>5. \A t \in Item : t \in listed' /\ key'[t] < key'[s] <=> t \in listed /\ key[t] < key[s]
      <3> SUFFICES ASSUME NEW t \in Item
                   PROVE  t \in listed' /\ key'[t] < key'[s] <=> t \in listed /\ key[t] < key[s]
        OBVIOUS
      <3>1. CASE t = r
        BY <1>1, <2>1, <3>1
      <3>2. CASE t # r
        BY <1>1, <2>1, <2>2, <2>3, <3>2
      <3> QED BY <3>1, <3>2
    <2>6. Lower(s)' = Lower(s)
      BY <1>1, <2>5 DEF Lower
    <2> QED BY <2>1, <2>4, <2>6 DEF Alone, Rank
  <1>3. SteadyGiven'
    BY <1>0, <1>2 DEF SteadyGiven, Done
  <1>4. SteadyCounted'
    BY <1>0, <1>2 DEF SteadyCounted
  <1>5. NoWalk'
    BY <1>0, <1>2 DEF NoWalk
  <1> QED BY <1>3, <1>4, <1>5 DEF PagingInductive

\* Others write and delete rows.
LEMMA RowsInductive ==
    ASSUME PagingInductive, NEW r \in Item,
           RowDeleted(r) \/ \E k \in 1 .. MaxKey : RowWritten(r, k)
    PROVE  PagingInductive'
  <1>0. PagingTypeOK
    BY DEF PagingInductive
  <1>1. ASSUME NEW k \in 1 .. MaxKey, RowWritten(r, k) PROVE PagingInductive'
    <2>1. /\ distinct => \A s \in listed \ {r} : key[s] # k
          /\ listed' = listed \cup {r} /\ key' = [key EXCEPT ![r] = k]
          /\ steady' = (steady \ {r}) \cap Before(k)
                          \cap IF r \in listed THEN Before(key[r]) ELSE Item
          /\ UNCHANGED <<distinct, total, page, pending, given>>
      BY <1>1 DEF RowWritten
    <2>2. key' \in [Item -> 1 .. MaxKey] /\ key'[r] = k
          /\ \A s \in Item : s # r => key'[s] = key[s]
      BY <1>0, <2>1 DEF PagingTypeOK
    <2>3. distinct' => \A s, t \in listed' : key'[s] = key'[t] => s = t
      BY <1>0, <2>1, <2>2 DEF PagingTypeOK
    <2>4. PagingTypeOK'
      BY <1>0, <2>1, <2>2, <2>3 DEF PagingTypeOK
    <2>5. \A s \in steady' : /\ s \in steady /\ s # r
                             /\ r \in listed => key[s] < key[r]
                             /\ r \in listed' => key[s] < key'[r]
      BY <2>1, <2>2 DEF Before
    <2>6. listed' \ {r} = listed \ {r}
      BY <2>1
    <2> QED BY <2>1, <2>2, <2>4, <2>5, <2>6, RowsChanged
  <1>2. CASE RowDeleted(r)
    <2>1. /\ r \in listed /\ listed' = listed \ {r} /\ key' = [key EXCEPT ![r] = 1]
          /\ steady' = (steady \ {r}) \cap Before(key[r])
          /\ UNCHANGED <<distinct, total, page, pending, given>>
      BY <1>2 DEF RowDeleted
    <2>2. key' \in [Item -> 1 .. MaxKey] /\ \A s \in Item : s # r => key'[s] = key[s]
      BY <1>0, <2>1, PagingAssumption DEF PagingTypeOK
    <2>3. distinct' => \A s, t \in listed' : key'[s] = key'[t] => s = t
      BY <1>0, <2>1, <2>2 DEF PagingTypeOK
    <2>4. PagingTypeOK'
      BY <1>0, <2>1, <2>2, <2>3 DEF PagingTypeOK
    <2>5. \A s \in steady' : /\ s \in steady /\ s # r
                             /\ r \in listed => key[s] < key[r]
                             /\ r \in listed' => key[s] < key'[r]
      BY <2>1 DEF Before
    <2>6. listed' \ {r} = listed \ {r}
      BY <2>1
    <2> QED BY <2>1, <2>2, <2>4, <2>5, <2>6, RowsChanged
  <1> QED BY <1>1, <1>2

\* A page is asked for: the first one, or the next.
LEMMA ListHandlerInductive ==
    ASSUME PagingInductive, NEW unique, ListHandler(unique)
    PROVE  PagingInductive'
  <1>0. PagingTypeOK /\ NoWalk /\ SteadyGiven /\ SteadyCounted
    BY DEF PagingInductive
  <1>1. /\ pending = {} /\ pending' = {"count", "items"}
        /\ UNCHANGED <<listed, key, distinct, total>>
    BY DEF ListHandler, rowVars
  <1>2. \A s : Rank(s)' = Rank(s) /\ Alone(s)' = Alone(s)
    BY <1>1 DEF Rank, Lower, Alone
  <1>3. PageSize \in Nat /\ page \in Nat
    BY <1>0, PagingAssumption DEF PagingTypeOK
  <1>4. SteadyCounted'
    BY <1>1 DEF SteadyCounted
  <1>5. CASE page = 0
    <2>1. /\ page' = 1 /\ given' = [r \in Item |-> 0]
          /\ steady' = {r \in listed : Alone(r)}
      BY <1>5 DEF ListHandler
    <2>2. PagingTypeOK'
      BY <1>0, <1>1, <2>1 DEF PagingTypeOK
    <2>3. Done' = 0
      BY <1>1, <1>3, <2>1 DEF Done
    <2>4. SteadyGiven'
      <3> SUFFICES ASSUME NEW s \in steady'
                   PROVE  /\ s \in listed' /\ Alone(s)'
                          /\ given'[s] = IF Rank(s)' < Done' THEN 1 ELSE 0
        BY DEF SteadyGiven
      <3>1. s \in listed' /\ Alone(s)' /\ s \in Item
        BY <1>0, <1>1, <1>2, <2>1 DEF PagingTypeOK
      <3>2. Rank(s)' \in Nat
        BY <1>0, <1>2, RowsFinite
      <3>3. given'[s] = 0 /\ ~(Rank(s)' < Done')
        BY <2>1, <2>3, <3>1, <3>2
      <3> QED BY <3>1, <3>3
    <2>5. NoWalk'
      BY <2>1 DEF NoWalk
    <2> QED BY <1>4, <2>2, <2>4, <2>5 DEF PagingInductive
  <1>6. CASE page # 0
    <2>1. page' = page + 1 /\ UNCHANGED <<given, steady>>
      BY <1>6 DEF ListHandler
    <2>2. PagingTypeOK'
      BY <1>0, <1>1, <1>3, <2>1 DEF PagingTypeOK
    <2>3. Done' = Done
      <3>1. Done' = (page' - 1) * PageSize /\ Done = page * PageSize
        BY <1>1 DEF Done
      <3>2. page' - 1 = page
        BY <1>3, <2>1
      <3> QED BY <3>1, <3>2
    <2>4. SteadyGiven'
      BY <1>0, <1>1, <1>2, <2>1, <2>3 DEF SteadyGiven
    <2>5. NoWalk'
      BY <1>3, <2>1 DEF NoWalk
    <2> QED BY <1>4, <2>2, <2>4, <2>5 DEF PagingInductive
  <1> QED BY <1>5, <1>6

\* The rows are counted.
LEMMA CountRowsInductive ==
    ASSUME PagingInductive, CountRows
    PROVE  PagingInductive'
  <1>0. PagingTypeOK /\ NoWalk /\ SteadyGiven /\ SteadyCounted
    BY DEF PagingInductive
  <1>1. /\ total' = Cardinality(listed) /\ pending' = pending \ {"count"}
        /\ UNCHANGED <<listed, key, distinct, page, given, steady>>
    BY DEF CountRows, rowVars
  <1>2. \A s : Rank(s)' = Rank(s) /\ Alone(s)' = Alone(s)
    BY <1>1 DEF Rank, Lower, Alone
  <1>3. PagingTypeOK'
    BY <1>0, <1>1, RowsFinite DEF PagingTypeOK
  <1>4. Done' = Done
    BY <1>1 DEF Done
  <1>5. SteadyGiven'
    BY <1>0, <1>1, <1>2, <1>4 DEF SteadyGiven
  <1>6. SteadyCounted'
    <2> SUFFICES ASSUME NEW s \in steady PROVE Rank(s) < Cardinality(listed)
      BY <1>1, <1>2 DEF SteadyCounted
    <2>1. s \in listed /\ key[s] \in Nat
      BY <1>0, PagingAssumption DEF SteadyGiven, PagingTypeOK
    <2>2. Lower(s) # listed
      BY <2>1 DEF Lower
    <2> QED BY <1>0, <2>2, RowsFinite DEF Rank
  <1>7. NoWalk'
    BY <1>0, <1>1 DEF NoWalk
  <1> QED BY <1>3, <1>5, <1>6, <1>7 DEF PagingInductive

\* The rows of the page are found.
LEMMA FindRowsInductive ==
    ASSUME PagingInductive, FindRows
    PROVE  PagingInductive'
  <1>0. PagingTypeOK /\ NoWalk /\ SteadyGiven /\ SteadyCounted
    BY DEF PagingInductive
  <1>1. /\ "items" \in pending /\ pending' = pending \ {"items"}
        /\ UNCHANGED <<listed, key, distinct, total, page, steady>>
    BY DEF FindRows, rowVars
  <1>2. PICK S \in First(Skip), T \in First(Skip + PageSize) :
            /\ S \subseteq T
            /\ given' = [r \in Item |-> given[r] + IF r \in T \ S THEN 1 ELSE 0]
    BY DEF FindRows
  <1>3. page \in Nat /\ page > 0 /\ PageSize \in Nat
    BY <1>0, <1>1, PagingAssumption DEF PagingTypeOK, NoWalk
  <1>4. PICK before \in Nat : before = Skip /\ before + PageSize = page * PageSize
    <2>1. page - 1 \in Nat
      BY <1>3
    <2>2. (page - 1) * PageSize \in Nat
      BY <1>3, <2>1
    <2>3. (page - 1) * PageSize + PageSize = page * PageSize
      BY <1>3
    <2> QED BY <2>2, <2>3 DEF Skip
  <1>5. Done = before /\ Done' = before + PageSize
    BY <1>1, <1>4 DEF Done, Skip
  <1>6. \A s : Rank(s)' = Rank(s) /\ Alone(s)' = Alone(s)
    BY <1>1 DEF Rank, Lower, Alone
  <1>7. PagingTypeOK'
    <2>1. \A r \in Item : given[r] \in Nat
      BY <1>0 DEF PagingTypeOK
    <2>2. given' \in [Item -> Nat]
      BY <1>2, <2>1
    <2> QED BY <1>0, <1>1, <2>2 DEF PagingTypeOK
  <1>8. SteadyGiven'
    <2> SUFFICES ASSUME NEW s \in steady
                 PROVE  given'[s] = IF Rank(s) < before + PageSize THEN 1 ELSE 0
      BY <1>0, <1>1, <1>5, <1>6 DEF SteadyGiven
    <2>1. s \in listed /\ Alone(s) /\ s \in Item
          /\ given[s] = IF Rank(s) < before THEN 1 ELSE 0
      BY <1>0, <1>5 DEF SteadyGiven, PagingTypeOK
    <2>2. s \in S <=> Rank(s) < before
      BY <1>0, <1>2, <1>4, <2>1, FirstFacts
    <2>3. s \in T <=> Rank(s) < before + PageSize
      <3>1. before + PageSize \in Nat /\ T \in First(before + PageSize)
        BY <1>2, <1>3, <1>4
      <3> QED BY <1>0, <2>1, <3>1, FirstFacts
    <2>4. given'[s] = given[s] + IF s \in T \ S THEN 1 ELSE 0
      BY <1>2, <2>1
    <2>5. Rank(s) \in Nat
      BY <1>0, RowsFinite
    <2> QED BY <1>3, <2>1, <2>2, <2>3, <2>4, <2>5
  <1>9. SteadyCounted'
    BY <1>0, <1>1, <1>6 DEF SteadyCounted
  <1>10. NoWalk'
    BY <1>0, <1>1 DEF NoWalk
  <1> QED BY <1>7, <1>8, <1>9, <1>10 DEF PagingInductive

\* The walk is over, and forgotten.
LEMMA WalkEndsInductive ==
    ASSUME PagingInductive, WalkEnds
    PROVE  PagingInductive'
  <1>0. PagingTypeOK
    BY DEF PagingInductive
  <1>1. /\ pending = {} /\ page' = 0 /\ total' = 0 /\ steady' = {}
        /\ given' = [r \in Item |-> 0]
        /\ UNCHANGED <<listed, key, distinct, pending>>
    BY DEF WalkEnds, Over, rowVars
  <1>2. PagingTypeOK'
    BY <1>0, <1>1, RowsFinite DEF PagingTypeOK
  <1>3. NoWalk' /\ SteadyGiven' /\ SteadyCounted'
    BY <1>1 DEF NoWalk, SteadyGiven, SteadyCounted
  <1> QED BY <1>2, <1>3 DEF PagingInductive

\* It holds at the start.
LEMMA PagingInductiveInit == PagingInit => PagingInductive
  <1> SUFFICES ASSUME PagingInit PROVE PagingInductive
    OBVIOUS
  <1>1. Cardinality(Item) \in Nat
    BY PagingAssumption, FS_CardinalityType
  <1>2. PagingTypeOK
    BY <1>1, PagingAssumption DEF PagingInit, PagingTypeOK
  <1>3. NoWalk /\ SteadyGiven /\ SteadyCounted
    BY DEF PagingInit, NoWalk, SteadyGiven, SteadyCounted
  <1> QED BY <1>2, <1>3 DEF PagingInductive

\* The inductive invariant of the walks.
THEOREM PagingInductiveInvariant == PagingSpec => []PagingInductive
  <1>1. PagingInductive /\ [PagingNext]_pagingVars => PagingInductive'
    <2> SUFFICES ASSUME PagingInductive, [PagingNext]_pagingVars PROVE PagingInductive'
      OBVIOUS
    <2>1. ASSUME NEW r \in Item, RowDeleted(r) \/ \E k \in 1 .. MaxKey : RowWritten(r, k)
          PROVE  PagingInductive'
      BY <2>1, RowsInductive
    <2>2. CASE ListPage
      <3>1. ListHandler(TRUE) \/ ListHandler(FALSE)
        BY <2>2 DEF ListPage, ListSkills, ListCrews, ListWorkTemplates, ListServiceContracts,
                    ListServiceResources, ListServiceLocations, ListCustomers,
                    ListTechnicians, ListWorkOrders
      <3> QED BY <3>1, ListHandlerInductive
    <2>3. CASE CountRows
      BY <2>3, CountRowsInductive
    <2>4. CASE FindRows
      BY <2>4, FindRowsInductive
    <2>5. CASE WalkEnds
      BY <2>5, WalkEndsInductive
    <2>6. CASE UNCHANGED pagingVars
      <3>1. UNCHANGED <<listed, key, distinct, total, page, pending, given, steady>>
        BY <2>6 DEF pagingVars, rowVars
      <3> QED BY <3>1 DEF PagingInductive, PagingTypeOK, NoWalk, SteadyGiven, SteadyCounted,
                          Alone, Rank, Lower, Done
    <2> QED BY <2>1, <2>2, <2>3, <2>4, <2>5, <2>6 DEF PagingNext
  <1> QED BY <1>1, PagingInductiveInit, PTL DEF PagingSpec

(***************************************************************************)
(* A walk through the pages of a list gives every row that stayed in its   *)
(* place exactly once, for any number of rows, keys and page size, while   *)
(* counts and pages are read at different moments and rows come and go     *)
(* behind it (the list handlers of the services).                          *)
(***************************************************************************)
THEOREM WalksComplete == PagingSpec => []WalkComplete
  <1>1. PagingInductive => WalkComplete
    <2> SUFFICES ASSUME PagingInductive, Over, NEW s \in steady PROVE given[s] = 1
      BY DEF WalkComplete
    <2>0. PagingTypeOK /\ NoWalk /\ SteadyGiven /\ SteadyCounted
      BY DEF PagingInductive
    <2>1. page > 0 /\ pending = {} /\ page * PageSize >= total
      BY DEF Over
    <2>2. Rank(s) < total /\ Rank(s) \in Nat /\ total \in Nat
      BY <2>0, <2>1, RowsFinite DEF SteadyCounted, PagingTypeOK
    <2>3. Done = page * PageSize
      BY <2>1 DEF Done
    <2>4. page * PageSize \in Nat
      BY <2>0, PagingAssumption DEF PagingTypeOK
    <2>5. Rank(s) < Done
      BY <2>1, <2>2, <2>3, <2>4
    <2> QED BY <2>0, <2>5 DEF SteadyGiven
  <1> QED BY <1>1, PagingInductiveInvariant, PTL

(***************************************************************************)
(* All of them together                                                    *)
(***************************************************************************)

\* A step of one service leaves the variables of the others alone.
LEMMA ServicesStep ==
    ASSUME [Next]_<<part, tenantVars, occVars, taskVars, bookVars, skillVars, pagingVars>>
    PROVE  /\ [TenantsNext]_tenantVars /\ [OccNext]_occVars /\ [TaskNext]_taskVars
           /\ [BookNext]_bookVars /\ [SkillsNext]_skillVars /\ [PagingNext]_pagingVars
  BY DEF Next

\* Each service starts as its specification says, the rows of organizations apart.
LEMMA ServicesInit ==
    Init => Apart /\ OccInit /\ TaskInit /\ BookInit /\ SkillsInit /\ PagingInit
  <1> SUFFICES ASSUME Init PROVE Apart
    BY DEF Init
  <1>1. CASE part = "tenants"
    BY <1>1, InitApart DEF Init
  <1>2. CASE part # "tenants"
    BY <1>2 DEF Init, Apart, TenantsTypeOK, Links
  <1> QED BY <1>1, <1>2

(***************************************************************************)
(* The run of the domain services implements the specification of each of  *)
(* them, so that what is proved of one by itself holds there: its types    *)
(* among others.                                                           *)
(***************************************************************************)
THEOREM ServicesTyped == Spec => []TypeOK
  <1>1. Apart /\ [Next]_<<part, tenantVars, occVars, taskVars, bookVars, skillVars, pagingVars>>
            => Apart'
    BY ServicesStep, NextApart
  <1>2. Spec => []Apart
    BY <1>1, ServicesInit, PTL DEF Spec
  <1>3. Spec => OccSpec /\ TaskSpec /\ BookSpec /\ SkillsSpec /\ PagingSpec
    BY ServicesInit, ServicesStep, PTL
       DEF Spec, OccSpec, TaskSpec, BookSpec, SkillsSpec, PagingSpec
  <1>4. Apart /\ OccInductive /\ TasksInductive /\ BookInductive /\ SkillsInductive
            /\ PagingInductive => TypeOK
    BY DEF TypeOK, Apart, OccInductive, TasksInductive, BookInductive, SkillsInductive,
           PagingInductive
  <1> QED BY <1>2, <1>3, <1>4, OccInductiveInvariant, TasksInductiveInvariant,
             BookInductiveInvariant, SkillsInductiveInvariant, PagingInductiveInvariant, PTL

\* What is proved of each service holds of all of them side by side, as the run of MCDomain
\* checks it on its instance.
THEOREM ServicesSafe ==
    Spec => []( /\ OneOrganization /\ NoGapAhead /\ TasksAreCopies /\ LastAnswerTells
                /\ DefaultsOverlap /\ LogFollowsBooking /\ SkillsAsAsked /\ WalkComplete )
<1>1. Spec => [](Apart /\ OneOrganization)
  <2>1. Apart /\ [Next]_<<part, tenantVars, occVars, taskVars, bookVars, skillVars, pagingVars>>
            => Apart'
    BY ServicesStep, NextApart
  <2>2. Apart => OneOrganization
    BY ApartSuffices
  <2> QED BY <2>1, <2>2, ServicesInit, PTL DEF Spec
<1>2. Spec => OccSpec /\ TaskSpec /\ BookSpec /\ SkillsSpec /\ PagingSpec
  BY ServicesInit, ServicesStep, PTL
     DEF Spec, OccSpec, TaskSpec, BookSpec, SkillsSpec, PagingSpec
<1> QED BY <1>1, <1>2, OccurrencesUnbroken, TasksCopied, LastAnswerTrue, DefaultsFew,
           LogTellsStory, SkillsReplaced, WalksComplete, PTL
=============================================================================
