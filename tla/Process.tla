------------------------------ MODULE Process -------------------------------
(***************************************************************************)
(* The server process, from its environment to its exit: the configuration *)
(* is validated (src/config/index.ts), the rate limiter connects to Redis  *)
(* (src/http/middleware/security.ts), the server listens, answers          *)
(* readiness probes (src/app.ts) and shuts down on a signal or a fatal     *)
(* error (src/index.ts, src/lifecycle).  Closing the server, and leaving   *)
(* Redis and the database, may each hang: only the timer is certain.       *)
(***************************************************************************)
EXTENDS Naturals

VARIABLES
    env,        \* what the environment variables ask for
    phase,      \* how far the process is
    redisLink,  \* its connection to Redis
    redisHealth,\* what /ready believes of it
    probe,      \* the probe in progress, or its answer
    draining,   \* shutdown has begun
    forceTimer, \* the timer of the forced exit is set
    exitCode,   \* the code the shutdown will exit with, or did
    fatal       \* history: an error nobody handled has occurred

procVars == <<env, phase, redisLink, redisHealth, probe, draining, forceTimer, exitCode, fatal>>

MetricsGuard == {"none", "secret", "cidr"}

Env == [nodeEnv : {"test", "development", "production"}, metricsEnabled : BOOLEAN,
        guard : MetricsGuard, guardArgs : SUBSET {"secret", "cidr"}, cidrsParse : BOOLEAN,
        origins : BOOLEAN, redisUrl : BOOLEAN]

ProcTypeOK ==
    /\ env \in Env
    /\ phase \in {"config", "connect", "serving", "closing", "disposing", "disconnecting", "exited"}
    /\ redisLink \in {"none", "up", "down"}
    /\ redisHealth \in {"unknown", "ready", "unhealthy"}
    /\ probe \in {"none", "database", "ready", "refused"}
    /\ draining \in BOOLEAN /\ forceTimer \in BOOLEAN /\ fatal \in BOOLEAN
    /\ exitCode \in {0, 1}

ProcStart ==
    /\ phase = "config" /\ redisLink = "none" /\ redisHealth = "unknown" /\ probe = "none"
    /\ draining = FALSE /\ forceTimer = FALSE /\ exitCode = 0 /\ fatal = FALSE

ProcInit == env \in Env /\ ProcStart

-----------------------------------------------------------------------------
ConfigValid(e) ==
    /\ "secret" \in e.guardArgs <=> e.guard = "secret"
    /\ "cidr" \in e.guardArgs <=> e.guard = "cidr"
    /\ e.guard = "cidr" => e.cidrsParse
    /\ e.nodeEnv = "production" =>
        (e.metricsEnabled => e.guard # "none") /\ e.origins /\ e.redisUrl

Exit(code) ==
    /\ phase' = "exited" /\ exitCode' = code
    /\ redisLink' = "none" /\ forceTimer' = FALSE
    /\ UNCHANGED <<env, redisHealth, probe, draining>>

\* Loading the application reads the configuration; ConfigError ends main.
GetConfig ==
    /\ phase = "config"
    /\ IF ConfigValid(env)
         THEN /\ phase' = "connect"
              /\ UNCHANGED <<env, redisLink, redisHealth, probe, draining, forceTimer, exitCode, fatal>>
         ELSE Exit(1) /\ UNCHANGED fatal

\* The rate limits are kept in Redis, and not in memory.
SharedStore == env.redisUrl /\ env.nodeEnv # "test"

\* ... and registers the middleware, which ends main when Redis does not answer
\* or production has none; then the server listens and its handlers are set.
RegisterSecurity ==
    /\ phase = "connect"
    /\ \/ /\ SharedStore \/ (~env.redisUrl /\ env.nodeEnv = "production")
          /\ Exit(1)
       \/ /\ env.redisUrl \/ env.nodeEnv # "production"
          /\ phase' = "serving"
          /\ redisLink' = IF SharedStore THEN "up" ELSE "none"
          /\ redisHealth' = IF SharedStore THEN "ready" ELSE "unknown"
          /\ UNCHANGED <<env, probe, draining, forceTimer, exitCode>>
    /\ UNCHANGED fatal

\* Faulty variant: no listener for "end", "error" and "reconnecting".
LossUnheard == "ready"

HealthAfterLoss == "unhealthy"

RedisEvents ==
    /\ \/ redisLink = "up" /\ redisLink' = "down" /\ redisHealth' = HealthAfterLoss
       \/ redisLink = "down" /\ redisLink' = "up" /\ redisHealth' = "ready"
    /\ UNCHANGED <<env, phase, probe, draining, forceTimer, exitCode, fatal>>

-----------------------------------------------------------------------------
Listening == phase \in {"serving", "closing"}

\* GET /ready: SHUTTING_DOWN, or a query to the database first.
Ready ==
    /\ Listening /\ probe # "database"
    /\ probe' = IF draining THEN "refused" ELSE "database"
    /\ UNCHANGED <<env, phase, redisLink, redisHealth, draining, forceTimer, exitCode, fatal>>

\* The database answers or not (NOT_READY); then REDIS_NOT_READY, or ready.
ReadyAnswer ==
    /\ Listening /\ probe = "database"
    /\ \/ probe' = "refused"
       \/ probe' = "ready" /\ (SharedStore => redisHealth = "ready")
    /\ UNCHANGED <<env, phase, redisLink, redisHealth, draining, forceTimer, exitCode, fatal>>

-----------------------------------------------------------------------------
\* Faulty variant: the last one to ask sets the code.
InitiateShutdownAgain(code) ==
    /\ phase' = IF draining THEN phase ELSE "closing"
    /\ draining' = TRUE /\ forceTimer' = TRUE /\ exitCode' = code
    /\ UNCHANGED <<env, redisLink, redisHealth, probe>>

\* Once: stops the jobs, closes the server and sets the timer.
InitiateShutdown(code) ==
    IF draining THEN UNCHANGED <<env, phase, redisLink, redisHealth, probe, draining, forceTimer, exitCode>>
    ELSE /\ phase' = "closing"
         /\ draining' = TRUE /\ forceTimer' = TRUE /\ exitCode' = code
         /\ UNCHANGED <<env, redisLink, redisHealth, probe>>

\* SIGTERM or SIGINT, which kill a process that has not set its handlers yet.
OnSignal ==
    /\ phase # "exited"
    /\ IF phase \in {"config", "connect"} THEN Exit(1) ELSE InitiateShutdown(0)
    /\ UNCHANGED fatal

\* An uncaught exception or unhandled rejection: the handlers are detached once
\* the shutdown has begun, and the runtime then ends the process at once.
OnFatal ==
    /\ phase # "exited"
    /\ IF phase \in {"config", "connect"} \/ draining THEN Exit(1) ELSE InitiateShutdown(1)
    /\ fatal' = TRUE

\* Faulty variant: the timer is cleared before the rest has been left.
ServerClosedClears ==
    /\ phase = "closing"
    /\ phase' = "disposing" /\ forceTimer' = FALSE
    /\ UNCHANGED <<env, redisLink, redisHealth, probe, draining, exitCode, fatal>>

\* The last connection is closed, or closing has failed.
ServerClosed ==
    /\ phase = "closing"
    /\ phase' = "disposing"
    /\ UNCHANGED <<env, redisLink, redisHealth, probe, draining, forceTimer, exitCode, fatal>>

\* The listeners go first, so that the health stays as it is; errors are swallowed.
DisposeSecurity ==
    /\ phase = "disposing"
    /\ phase' = "disconnecting" /\ redisLink' = "none"
    /\ UNCHANGED <<env, redisHealth, probe, draining, forceTimer, exitCode, fatal>>

\* $disconnect has succeeded or failed.
Disconnected == phase = "disconnecting" /\ Exit(exitCode) /\ UNCHANGED fatal

ForceExit == forceTimer /\ Exit(1) /\ UNCHANGED fatal

\* The supervisor starts the process again.
StartAgain ==
    /\ phase = "exited"
    /\ UNCHANGED env
    /\ phase' = "config" /\ redisLink' = "none" /\ redisHealth' = "unknown" /\ probe' = "none"
    /\ draining' = FALSE /\ forceTimer' = FALSE /\ exitCode' = 0 /\ fatal' = FALSE

ProcNext ==
    \/ GetConfig \/ RegisterSecurity \/ RedisEvents \/ Ready \/ ReadyAnswer
    \/ OnSignal \/ OnFatal \/ ServerClosed \/ DisposeSecurity \/ Disconnected
    \/ ForceExit \/ StartAgain

ProcSpec == ProcInit /\ [][ProcNext]_procVars

-----------------------------------------------------------------------------
(***************************************************************************)
(* A shutdown that has begun ends, whatever hangs on the way.              *)
(***************************************************************************)
ShutdownEnds == draining ~> phase = "exited"

(***************************************************************************)
(* Exit code 0 is a signal's shutdown that went all the way: signals and   *)
(* fatal errors may come in any order and number, and the first to come    *)
(* sets the code.                                                          *)
(***************************************************************************)
ExitTells ==
    [][phase # "exited" /\ phase' = "exited" /\ exitCode' = 0 =>
        phase = "disconnecting" /\ ~fatal']_procVars

(***************************************************************************)
(* A probe is told ready only while Redis is connected, where the limits   *)
(* are kept there, and while the server is not draining: but for a probe   *)
(* that was waiting for the database when the shutdown began.              *)
(***************************************************************************)
ReadyTells ==
    [][probe' = "ready" /\ probe # "ready" =>
        IF draining THEN probe = "database" ELSE SharedStore => redisLink = "up"]_procVars
=============================================================================
