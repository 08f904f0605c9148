---------------------------- MODULE LoginLockout ----------------------------
(***************************************************************************)
(* The brute-force guard of login (src/modules/auth/auth.service.ts): the  *)
(* LoginAttempt row of one e-mail address and one IP address, which no     *)
(* other pair touches.  A login checks the row, verifies the password and  *)
(* then records a failure or clears the row; it awaits the database        *)
(* between these steps, and a failure is recorded in two of them: a read,  *)
(* and a write of absolute values.                                         *)
(***************************************************************************)
EXTENDS Naturals, Sequences

CONSTANTS
    LoginRequest,       \* logins that may be in progress at once
    LoginMaxAttempts,   \* auth.loginMaxAttempts
    AttemptWindow,      \* auth.loginAttemptWindowMs, in ticks
    Lockout,            \* auth.loginLockoutMs, in ticks
    MaxClock            \* bound: ticks of the clock

ASSUME LockoutAssumption ==
    /\ LoginMaxAttempts \in Nat \ {0} /\ AttemptWindow \in Nat \ {0}
    /\ Lockout \in Nat \ {0} /\ MaxClock \in Nat \ {0}

VARIABLES
    attempt,    \* the row; failCount 0 stands for no row, lockedUntil 0 for null
    clock,      \* now
    lpc,        \* what each login does next
    record,     \* the row a failed login is about to write
    isNew,      \* it found no row, and will create one
    early,      \* logins in progress since before the present lock was set
    recent,     \* history: times of the failures since the last success or lock
    alone       \* history: no two logins have overlapped

guardVars == <<attempt, clock>>
loginVars == <<lpc, record, isNew>>
lockVars  == <<guardVars, loginVars, early, recent, alone>>

NoAttempt == [failCount |-> 0, lastFailedAt |-> 0, lockedUntil |-> 0]
Attempt   == [failCount : 0 .. LoginMaxAttempts + 1, lastFailedAt : 0 .. MaxClock,
              lockedUntil : 0 .. MaxClock + Lockout]

LockTypeOK ==
    /\ attempt \in Attempt /\ clock \in 1 .. MaxClock
    /\ lpc \in [LoginRequest -> {"idle", "drop", "verify", "failed", "record", "clear"}]
    /\ record \in [LoginRequest -> Attempt] /\ isNew \in [LoginRequest -> BOOLEAN]
    /\ early \subseteq LoginRequest /\ alone \in BOOLEAN
    /\ recent \in Seq(1 .. MaxClock) /\ Len(recent) <= LoginMaxAttempts

LockInit ==
    /\ attempt = NoAttempt /\ clock = 1
    /\ lpc = [r \in LoginRequest |-> "idle"]
    /\ record = [r \in LoginRequest |-> NoAttempt]
    /\ isNew = [r \in LoginRequest |-> FALSE]
    /\ early = {} /\ recent = <<>> /\ alone = TRUE

-----------------------------------------------------------------------------
Locked == attempt.lockedUntil > clock

LoginGoto(r, step) == lpc' = [lpc EXCEPT ![r] = step]

LoginEnd(r) ==
    /\ lpc' = [lpc EXCEPT ![r] = "idle"]
    /\ record' = [record EXCEPT ![r] = NoAttempt]
    /\ isNew' = [isNew EXCEPT ![r] = FALSE]
    /\ early' = early \ {r}

\* The row is outdated: its lock is over, or the last failure is too old.
Outdated ==
    /\ attempt # NoAttempt
    /\ attempt.lockedUntil # 0 \/ clock - attempt.lastFailedAt > AttemptWindow

\* Faulty variant: an old row is dropped before its lock is looked at.
EnsureDropsFirst(r) ==
    /\ lpc[r] = "idle"
    /\ ~Locked \/ Outdated
    /\ LoginGoto(r, IF Outdated THEN "drop" ELSE "verify")
    /\ alone' = (alone /\ \A q \in LoginRequest : lpc[q] = "idle")
    /\ UNCHANGED <<guardVars, record, isNew, early, recent>>

\* LOGIN_LOCKED while the lock lasts, which changes nothing.
EnsureLoginNotLocked(r) ==
    /\ lpc[r] = "idle"
    /\ IF Locked THEN UNCHANGED <<lpc, alone>>
       ELSE /\ LoginGoto(r, IF Outdated THEN "drop" ELSE "verify")
            /\ alone' = (alone /\ \A q \in LoginRequest : lpc[q] = "idle")
    /\ UNCHANGED <<guardVars, record, isNew, early, recent>>

\* The row is deleted whatever it holds by now.
DropAttempt(r) ==
    /\ lpc[r] = "drop"
    /\ LoginGoto(r, "verify")
    /\ attempt' = NoAttempt
    /\ recent' = IF attempt.lockedUntil # 0 THEN <<>> ELSE recent
    /\ UNCHANGED <<clock, record, isNew, early, alone>>

\* The password is right or not; an unknown user or one whose e-mail address
\* still has to be verified counts as a failure too.
VerifyCredentials(r) ==
    /\ lpc[r] = "verify"
    /\ \E step \in {"failed", "clear"} : LoginGoto(r, step)
    /\ UNCHANGED <<guardVars, record, isNew, early, recent, alone>>

\* Faulty variant: a failure at the very end of the window opens a new one.
WithinShort == attempt # NoAttempt /\ clock - attempt.lastFailedAt < AttemptWindow

Within == attempt # NoAttempt /\ clock - attempt.lastFailedAt <= AttemptWindow

\* recordLoginFailure reads the row and computes the one to write.
ReadAttempt(r) ==
    LET count == IF Within THEN attempt.failCount + 1 ELSE 1
    IN /\ lpc[r] = "failed"
       /\ LoginGoto(r, "record")
       /\ isNew' = [isNew EXCEPT ![r] = attempt = NoAttempt]
       /\ record' = [record EXCEPT ![r] =
            [failCount |-> IF ~Within \/ attempt.lockedUntil # 0 THEN 1 ELSE count,
             lastFailedAt |-> clock,
             lockedUntil |-> IF count >= LoginMaxAttempts THEN clock + Lockout ELSE 0]]
       /\ UNCHANGED <<guardVars, early, recent, alone>>

LastOf(s) == IF Len(s) <= LoginMaxAttempts THEN s ELSE Tail(s)

\* ... and writes it: create fails when the row exists by now (P2002), update
\* when it is gone (P2025).
WriteAttempt(r) ==
    /\ lpc[r] = "record"
    /\ recent' = LastOf(Append(recent, record[r].lastFailedAt))
    /\ lpc' = [lpc EXCEPT ![r] = "idle"]
    /\ record' = [record EXCEPT ![r] = NoAttempt]
    /\ isNew' = [isNew EXCEPT ![r] = FALSE]
    /\ IF isNew[r] = (attempt = NoAttempt)
         THEN /\ attempt' = record[r]
              /\ early' = IF record[r].lockedUntil > clock
                            THEN {q \in LoginRequest : lpc[q] # "idle"} \ {r} ELSE early \ {r}
         ELSE /\ UNCHANGED attempt
              /\ early' = early \ {r}
    /\ UNCHANGED <<clock, alone>>

\* A successful login deletes the row, and goes on to create its session.
ClearLoginAttempts(r) ==
    /\ lpc[r] = "clear"
    /\ attempt' = NoAttempt
    /\ recent' = <<>>
    /\ LoginEnd(r)
    /\ UNCHANGED <<clock, alone>>

\* A call of the login fails, or its process dies, between two steps.
AbortLogin(r) ==
    /\ lpc[r] # "idle"
    /\ LoginEnd(r)
    /\ UNCHANGED <<guardVars, recent, alone>>

Tick ==
    /\ clock < MaxClock
    /\ clock' = clock + 1
    /\ UNCHANGED <<attempt, loginVars, early, recent, alone>>

LockNext ==
    \/ \E r \in LoginRequest :
        EnsureLoginNotLocked(r) \/ DropAttempt(r) \/ VerifyCredentials(r)
        \/ ReadAttempt(r) \/ WriteAttempt(r) \/ ClearLoginAttempts(r) \/ AbortLogin(r)
    \/ Tick

LockSpec == LockInit /\ [][LockNext]_lockVars

-----------------------------------------------------------------------------
(***************************************************************************)
(* A lock lasts until its time: it is lifted or cut short only by a login  *)
(* that was already past its check when the lock was set.  A login that    *)
(* comes later cannot touch the row, although deletes and updates are by   *)
(* key and never look at lockedUntil again.                                *)
(***************************************************************************)
LockHolds ==
    [][Locked /\ attempt'.lockedUntil < attempt.lockedUntil => early # {}]_lockVars

(***************************************************************************)
(* The counter counts: as long as no two logins overlap, the pair is       *)
(* locked after exactly loginMaxAttempts failures in a row, each within    *)
(* the window of the one before; the boundary of the window is read with > *)
(* in one place and with <= in the other.                                  *)
(***************************************************************************)
Due ==
    /\ Len(recent) = LoginMaxAttempts
    /\ \A i \in 1 .. LoginMaxAttempts - 1 : recent[i + 1] - recent[i] <= AttemptWindow

LocksWhenDue == alone => (attempt.lockedUntil # 0 <=> Due)
=============================================================================
