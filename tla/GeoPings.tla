------------------------------ MODULE GeoPings ------------------------------
(***************************************************************************)
(* Geo pings and their retention                                           *)
(* (src/modules/geo-tracking/geoTracking.service.ts,                       *)
(* src/jobs/geoPingCleanup.ts).  A client sends batches of pings with      *)
(* times of its own.  A timer of the process starts a cleanup unless one   *)
(* is running: it reads the organizations and deletes the old pings of one *)
(* after the other; the first error ends it.                               *)
(***************************************************************************)
EXTENDS Naturals, FiniteSets

CONSTANTS
    GeoOrg,             \* organizations
    DefaultRetention,   \* retention in days when geoRetentionDays is null
    NullDays,           \* stands for null
    MaxDay              \* bound: days of the clock

ASSUME GeoAssumption ==
    /\ DefaultRetention \in Nat \ {0} /\ MaxDay \in Nat /\ NullDays \in Nat
    /\ DefaultRetention < NullDays

VARIABLES
    retentionDays,  \* geoRetentionDays of each organization
    pings,          \* <<organization, recordedAt>> of the stored pings
    day,            \* today
    running,        \* a cleanup is running: the flag of the job
    reference,      \* the day it started
    left,           \* the organizations it still has to do
    up              \* the process runs

cleanupVars == <<running, reference, left>>
geoVars     == <<retentionDays, pings, day, cleanupVars, up>>

Ping == GeoOrg \X (0 .. MaxDay)

GeoTypeOK ==
    /\ retentionDays \in [GeoOrg -> {0, NullDays}]
    /\ pings \subseteq Ping /\ day \in 0 .. MaxDay
    /\ running \in BOOLEAN /\ reference \in 0 .. MaxDay /\ left \subseteq GeoOrg
    /\ up \in BOOLEAN

GeoInit ==
    /\ retentionDays \in [GeoOrg -> {0, NullDays}]
    /\ pings = {} /\ day = 0
    /\ running = FALSE /\ reference = 0 /\ left = {}
    /\ up = TRUE

-----------------------------------------------------------------------------
\* GEO_DEVICE_NOT_FOUND for the whole batch unless every device is an active
\* one of the organization; pings of the future are stored too.
IngestGeoPings(o) ==
    /\ \E days \in SUBSET (0 .. MaxDay) : pings' = pings \cup ({o} \X days)
    /\ UNCHANGED <<retentionDays, day, cleanupVars, up>>

\* Math.max(1, geoRetentionDays ?? 365)
Retention(o) ==
    LET days == IF retentionDays[o] = NullDays THEN DefaultRetention ELSE retentionDays[o]
    IN IF days < 1 THEN 1 ELSE days

\* recordedAt < today - retention
Old(p, today) == p[2] + Retention(p[1]) < today

\* The timer, and the start of the process: nothing while a cleanup is running.
CleanupStart ==
    /\ up /\ ~running
    /\ running' = TRUE /\ reference' = day /\ left' = GeoOrg
    /\ UNCHANGED <<retentionDays, pings, day, up>>

CleanupOrg(o) ==
    /\ o \in left
    /\ pings' = {p \in pings : ~(p[1] = o /\ Old(p, reference))}
    /\ left' = left \ {o}
    /\ running' = (left' # {})
    /\ reference' = IF left' = {} THEN 0 ELSE reference
    /\ UNCHANGED <<retentionDays, day, up>>

\* Faulty variant: an error leaves the flag set.
FlagStays == UNCHANGED running

FlagReset == running' = FALSE

\* A call fails: caught and logged, the flag is reset, the rest has to wait.
CleanupFails ==
    /\ left # {}
    /\ left' = {} /\ FlagReset /\ reference' = 0
    /\ UNCHANGED <<retentionDays, pings, day, up>>

\* The process stops, wherever the cleanup is, and is started again.
GeoStop ==
    /\ up
    /\ up' = FALSE /\ running' = FALSE /\ left' = {} /\ reference' = 0
    /\ UNCHANGED <<retentionDays, pings, day>>

GeoRestart ==
    /\ ~up /\ up' = TRUE
    /\ UNCHANGED <<retentionDays, pings, day, cleanupVars>>

NextDay ==
    /\ day < MaxDay /\ day' = day + 1
    /\ UNCHANGED <<retentionDays, pings, cleanupVars, up>>

GeoNext ==
    \/ \E o \in GeoOrg : IngestGeoPings(o) \/ CleanupOrg(o)
    \/ CleanupStart \/ CleanupFails
    \/ GeoStop \/ GeoRestart \/ NextDay

GeoSpec == GeoInit /\ [][GeoNext]_geoVars

-----------------------------------------------------------------------------
(***************************************************************************)
(* The cleanup goes on after errors, restarts and overlapping timers: a    *)
(* ping that has outlived its organization's retention finally goes.       *)
(***************************************************************************)
OldPingsGo == \A p \in Ping : p \in pings /\ Old(p, day) ~> p \notin pings
=============================================================================
