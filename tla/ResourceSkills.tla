--------------------------- MODULE ResourceSkills ---------------------------
(***************************************************************************)
(* The skills of a service resource (src/modules/skills/skills.service.ts).*)
(* A client sends the whole list; the resource and the skills are looked   *)
(* up, and a transaction deletes the rows it sees and inserts the new ones *)
(* (skipDuplicates).  Two of them that overlap may leave the union.        *)
(***************************************************************************)
EXTENDS FiniteSets

CONSTANTS
    Skill,          \* skills that may exist
    SkillRequest    \* replacements that may be in progress at once

VARIABLES
    skills,     \* the skills there are
    removed,    \* those deleted (ids are never used again)
    owned,      \* the resource's rows
    spc,        \* what a replacement does next
    list,       \* the list of its client
    deleted,    \* the rows its transaction has deleted
    single,     \* no other replacement has been in progress with it
    asked       \* the list of the last replacement, when it was single

skillReqVars == <<spc, list, deleted, single>>
skillVars    == <<skills, removed, owned, skillReqVars, asked>>

\* The answer of a replacement that overlapped says nothing.
Unclear == [unclear |-> TRUE]
Clear(S) == [unclear |-> FALSE, list |-> S]

SkillsTypeOK ==
    /\ skills \subseteq Skill /\ removed \subseteq Skill \ skills /\ owned \subseteq skills
    /\ spc \in [SkillRequest -> {"idle", "delete", "insert"}]
    /\ list \in [SkillRequest -> SUBSET Skill]
    /\ deleted \in [SkillRequest -> SUBSET Skill]
    /\ single \in [SkillRequest -> BOOLEAN]
    /\ asked \in {Unclear} \cup {Clear(S) : S \in SUBSET Skill}

SkillsInit ==
    /\ skills = {} /\ removed = {} /\ owned = {} /\ asked = Clear({})
    /\ spc = [q \in SkillRequest |-> "idle"]
    /\ list = [q \in SkillRequest |-> {}]
    /\ deleted = [q \in SkillRequest |-> {}]
    /\ single = [q \in SkillRequest |-> TRUE]

SkillsEnd(q) ==
    /\ spc' = [spc EXCEPT ![q] = "idle"]
    /\ list' = [list EXCEPT ![q] = {}]
    /\ deleted' = [deleted EXCEPT ![q] = {}]
    /\ single' = [single EXCEPT ![q] = TRUE]

-----------------------------------------------------------------------------
\* createSkill; updateSkill changes nothing told apart here.
SkillCreated(s) ==
    /\ s \notin removed
    /\ skills' = skills \cup {s}
    /\ UNCHANGED <<removed, owned, skillReqVars, asked>>

\* Faulty variant: the rows of resources stay behind.
SkillDeletedAlone(s) ==
    /\ s \in skills
    /\ skills' = skills \ {s}
    /\ removed' = removed \cup {s}
    /\ UNCHANGED <<owned, skillReqVars, asked>>

\* deleteSkill, unless a template requires it; the rows of resources cascade.
SkillDeleted(s) ==
    /\ s \in skills
    /\ skills' = skills \ {s}
    /\ removed' = removed \cup {s}
    /\ owned' = owned \ {s}
    /\ UNCHANGED <<skillReqVars, asked>>

\* ensureSkillsExist: SKILL_NOT_FOUND when one of the list is not there.
ReplaceCheck(q, S) ==
    /\ spc[q] = "idle" /\ S \subseteq skills
    /\ LET busy == {p \in SkillRequest : spc[p] # "idle"}
       IN single' = [p \in SkillRequest |->
                        IF p = q THEN busy = {} ELSE single[p] /\ p \notin busy]
    /\ spc' = [spc EXCEPT ![q] = "delete"]
    /\ list' = [list EXCEPT ![q] = S]
    /\ UNCHANGED <<skills, removed, owned, deleted, asked>>

\* Faulty variant: only the rows that the new list repeats are deleted.
DeleteOthers(q) == deleted' = [deleted EXCEPT ![q] = owned \cap list[q]]

DeleteSeen(q) == deleted' = [deleted EXCEPT ![q] = owned]

ReplaceDelete(q) ==
    /\ spc[q] = "delete"
    /\ DeleteSeen(q)
    /\ spc' = [spc EXCEPT ![q] = "insert"]
    /\ UNCHANGED <<skills, removed, owned, list, single, asked>>

\* The commit; the foreign key refuses a list with a skill that is gone by now.
ReplaceCommit(q) ==
    /\ spc[q] = "insert"
    /\ IF list[q] \subseteq skills
         THEN /\ owned' = (owned \ deleted[q]) \cup list[q]
              /\ asked' = IF single[q] THEN Clear(list[q]) ELSE Unclear
         ELSE UNCHANGED <<owned, asked>>
    /\ SkillsEnd(q)
    /\ UNCHANGED <<skills, removed>>

\* A call fails or the process dies: the transaction rolls back.
AbortReplace(q) ==
    /\ spc[q] # "idle"
    /\ SkillsEnd(q)
    /\ UNCHANGED <<skills, removed, owned, asked>>

SkillsNext ==
    \/ \E s \in Skill : SkillCreated(s) \/ SkillDeleted(s)
    \/ \E q \in SkillRequest, S \in SUBSET Skill : ReplaceCheck(q, S)
    \/ \E q \in SkillRequest : ReplaceDelete(q) \/ ReplaceCommit(q) \/ AbortReplace(q)

SkillsSpec == SkillsInit /\ [][SkillsNext]_skillVars

-----------------------------------------------------------------------------
(***************************************************************************)
(* A resource has no skill its last list did not name: after a replacement *)
(* that no other one overlapped, its skills are among that list, and what  *)
(* is missing of the list was deleted since.  What earlier overlaps have   *)
(* mixed up does not survive it.                                           *)
(***************************************************************************)
SkillsAsAsked ==
    ~asked.unclear => owned \subseteq asked.list /\ asked.list \cap skills \subseteq owned
=============================================================================
