----------------------------- MODULE MCPlatform -----------------------------
(***************************************************************************)
(* Accounts, organizations, the QuickBooks connection, the retention of    *)
(* geo pings and the server process in one run.  They share no state, and  *)
(* an interleaving of two would show nothing that the steps of each do not:*)
(* a behaviour exercises one of them, and part, which never changes, tells *)
(* which.  The others keep one initial state.                              *)
(***************************************************************************)
EXTENDS LoginLockout, AccountTokens, Connections, Organizations, GeoPings, Process

CONSTANT Parts      \* those that a run exercises

VARIABLE part

TypeOK ==
    LockTypeOK /\ TokensTypeOK /\ ConnTypeOK /\ OrgTypeOK /\ GeoTypeOK /\ ProcTypeOK

Init ==
    /\ part \in Parts
    /\ LockInit /\ ConnInit /\ OrgInit
    /\ TokensInit /\ (part # "tokens" => required)
    /\ GeoInit    /\ (part # "pings" => \A o \in GeoOrg : retentionDays[o] = 0)
    /\ ProcInit   /\ (part # "process" => env = CHOOSE e \in Env : TRUE)

Next ==
    \/ /\ part = "lockout" /\ LockNext
       /\ UNCHANGED <<part, tokensVars, connVars, orgVars, geoVars, procVars>>
    \/ /\ part = "tokens" /\ TokensNext
       /\ UNCHANGED <<part, lockVars, connVars, orgVars, geoVars, procVars>>
    \/ /\ part = "connections" /\ ConnNext
       /\ UNCHANGED <<part, lockVars, tokensVars, orgVars, geoVars, procVars>>
    \/ /\ part = "organizations" /\ OrgNext
       /\ UNCHANGED <<part, lockVars, tokensVars, connVars, geoVars, procVars>>
    \/ /\ part = "pings" /\ GeoNext
       /\ UNCHANGED <<part, lockVars, tokensVars, connVars, orgVars, procVars>>
    \/ /\ part = "process" /\ ProcNext
       /\ UNCHANGED <<part, lockVars, tokensVars, connVars, orgVars, geoVars>>

Spec == Init /\ [][Next]_<<part, lockVars, tokensVars, connVars, orgVars, geoVars, procVars>>

\* The promise of a mail goes on by itself until it is settled.  The timer of the
\* cleanup goes on firing, a process that stopped is started again, and errors
\* and stops do not keep one organization from its turn for ever.  The timer of
\* the forced exit fires; closing the server, Redis and the database may hang.
LiveSpec ==
    /\ Spec
    /\ \A t \in Token : WF_tokensVars(part = "tokens" /\ SendMail(t))
    /\ SF_geoVars(part = "pings" /\ CleanupStart)
    /\ WF_geoVars(part = "pings" /\ GeoRestart)
    /\ \A o \in GeoOrg : SF_geoVars(part = "pings" /\ CleanupOrg(o))
    /\ WF_procVars(part = "process" /\ ForceExit)
=============================================================================
