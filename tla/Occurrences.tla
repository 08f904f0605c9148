---------------------------- MODULE Occurrences -----------------------------
(***************************************************************************)
(* Service contracts that recur and the occurrences generated ahead for    *)
(* them (src/modules/service-contracts/serviceContracts.service.ts and     *)
(* recurrence.service.ts).  Materialising is three calls: the rule is      *)
(* read, the latest stored occurrence is read, and the next ones are       *)
(* inserted; a unique index and skipDuplicates are all that orders two of  *)
(* them.  A contract whose rule changes or that is deleted meanwhile does  *)
(* not stop them.                                                          *)
(***************************************************************************)
EXTENDS Naturals, FiniteSets

CONSTANTS
    Materialize,    \* materialisations that may be in progress at once
    Rules,          \* recurrence rules, records of start, step and until
    Horizon,        \* bound: instants that occurrences are looked for in
    MaxNow,         \* bound: ticks of the clock
    MaxCount,       \* the largest count of a materialisation
    MaxChanges      \* bound: updates of the rule

ASSUME OccurrencesAssumption ==
    /\ Horizon \in Nat /\ MaxNow \in Nat /\ MaxCount \in Nat /\ MaxChanges \in Nat
    /\ Rules \subseteq [start : Nat, step : Nat \ {0}, until : Nat]

VARIABLES
    contract,   \* there, or deleted together with its rule
    rule,       \* its recurrence rule
    changes,    \* how often the rule was replaced
    stored,     \* startsAt of the generated occurrences
    now,
    mpc,        \* what a materialisation does next
    mrule,      \* the rule it has read
    batch       \* the occurrences it is about to insert

occVars == <<contract, rule, changes, stored, now, mpc, mrule, batch>>

Instant == 0 .. Horizon

\* buildRecurrenceRule refuses an untilLocal before dtstartLocal.
Valid(r) == r.until >= r.start

\* The instants of the rule; dtstartLocal is the first.
Dates(r) == {t \in r.start .. r.until : (t - r.start) % r.step = 0} \cap Instant

\* rule.after(t, false): the first instant of the rule after t, none: 0.
After(r, t) ==
    LET later == {d \in Dates(r) : d > t}
    IN IF later = {} THEN 0 ELSE CHOOSE d \in later : \A e \in later : d <= e

\* Faulty variant: the loop steps on before it pushes.
GenerateSteppingFirst(r, cursor, count) ==
    LET nth[n \in 0 .. MaxCount] ==
            IF n = 0 THEN After(r, cursor)
            ELSE IF nth[n - 1] = 0 THEN 0 ELSE After(r, nth[n - 1])
    IN {nth[n] : n \in 1 .. count} \ {0}

\* The loop pushes an instant and steps to the one after it, count times.
GenerateNextOccurrences(r, cursor, count) ==
    LET nth[n \in 1 .. MaxCount] ==
            IF n = 1 THEN After(r, cursor)
            ELSE IF nth[n - 1] = 0 THEN 0 ELSE After(r, nth[n - 1])
    IN {nth[n] : n \in 1 .. count} \ {0}

OccTypeOK ==
    /\ contract \in {"there", "deleted"} /\ rule \in Rules
    /\ changes \in 0 .. MaxChanges /\ now \in 0 .. MaxNow
    /\ stored \subseteq Instant
    /\ mpc \in [Materialize -> {"idle", "latest", "insert"}]
    /\ mrule \in [Materialize -> Rules]
    /\ batch \in [Materialize -> SUBSET Instant]

OccInit ==
    /\ contract = "there" /\ rule \in {r \in Rules : Valid(r)} /\ changes = 0
    /\ stored = {} /\ now = 0
    /\ mpc = [m \in Materialize |-> "idle"]
    /\ mrule = [m \in Materialize |-> rule]
    /\ batch = [m \in Materialize |-> {}]

-----------------------------------------------------------------------------
\* SERVICE_CONTRACT_NOT_FOUND once it is deleted.
MaterializeRead(m) ==
    /\ mpc[m] = "idle"
    /\ IF contract = "there"
         THEN /\ mpc' = [mpc EXCEPT ![m] = "latest"]
              /\ mrule' = [mrule EXCEPT ![m] = rule]
         ELSE UNCHANGED <<mpc, mrule>>
    /\ UNCHANGED <<contract, rule, changes, stored, now, batch>>

\* The latest occurrence when it lies ahead, else the clock.
Cursor == CHOOSE t \in stored \cup {now} : \A s \in stored \cup {now} : s <= t

MaterializeLatest(m) ==
    /\ mpc[m] = "latest"
    /\ \E count \in 1 .. MaxCount :
        LET next == GenerateNextOccurrences(mrule[m], Cursor, count)
        IN /\ batch' = [batch EXCEPT ![m] = next]
           /\ mpc' = [mpc EXCEPT ![m] = IF next = {} THEN "idle" ELSE "insert"]
    /\ UNCHANGED <<contract, rule, changes, stored, now, mrule>>

\* createMany with skipDuplicates; the foreign key refuses it when the contract
\* is gone.
MaterializeInsert(m) ==
    /\ mpc[m] = "insert"
    /\ stored' = IF contract = "there" THEN stored \cup batch[m] ELSE stored
    /\ mpc' = [mpc EXCEPT ![m] = "idle"]
    /\ batch' = [batch EXCEPT ![m] = {}]
    /\ UNCHANGED <<contract, rule, changes, now, mrule>>

\* A call fails, or the process dies, between two steps.
MaterializeAbort(m) ==
    /\ mpc[m] # "idle"
    /\ mpc' = [mpc EXCEPT ![m] = "idle"]
    /\ batch' = [batch EXCEPT ![m] = {}]
    /\ UNCHANGED <<contract, rule, changes, stored, now, mrule>>

\* The rule is validated and replaced; stored occurrences stay as they are.
ReplaceRule(r) ==
    /\ contract = "there" /\ Valid(r) /\ changes < MaxChanges
    /\ rule' = r /\ changes' = changes + 1
    /\ UNCHANGED <<contract, stored, now, mpc, mrule, batch>>

\* One transaction deletes the contract and its rule; occurrences cascade.
DeleteContract ==
    /\ contract = "there"
    /\ contract' = "deleted" /\ stored' = {}
    /\ UNCHANGED <<rule, changes, now, mpc, mrule, batch>>

Later ==
    /\ now < MaxNow
    /\ now' = now + 1
    /\ UNCHANGED <<contract, rule, changes, stored, mpc, mrule, batch>>

OccNext ==
    \/ \E m \in Materialize :
        MaterializeRead(m) \/ MaterializeLatest(m) \/ MaterializeInsert(m) \/ MaterializeAbort(m)
    \/ \E r \in Rules : ReplaceRule(r)
    \/ DeleteContract
    \/ Later

OccSpec == OccInit /\ [][OccNext]_occVars

-----------------------------------------------------------------------------
(***************************************************************************)
(* Occurrences are generated without a gap: as long as the rule has not    *)
(* changed, an instant of the rule that lies ahead is stored whenever a    *)
(* later one is, however materialisations overlap and whenever they stop.  *)
(***************************************************************************)
NoGapAhead ==
    changes = 0 =>
        \A t \in Dates(rule), s \in stored : now < t /\ t < s => t \in stored
=============================================================================
