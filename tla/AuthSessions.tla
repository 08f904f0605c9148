---------------------------- MODULE AuthSessions ----------------------------
(***************************************************************************)
(* Sessions and their rotating refresh tokens (src/modules/auth/           *)
(* auth.service.ts, src/http/middleware/requireAuth.ts, src/jobs/          *)
(* sessionCleanup.ts).                                                     *)
(*                                                                         *)
(* A session row holds the hash of one refresh token; every token that was *)
(* ever issued for it is a number, in the order of issue (signRefresh puts *)
(* a random jti into each, so no two are equal).  A request reads in one   *)
(* step and writes in another, because it awaits the database in between.  *)
(***************************************************************************)
EXTENDS Naturals, FiniteSets

CONSTANTS
    User,
    SessionId,      \* pool of random session ids
    Request,        \* requests that may be in progress at once
    MaxTokens,      \* bound: refresh tokens issued for one session
    MaxResets,      \* bound: password resets of one user
    NoUser, NoSession

ASSUME BoundsAssumption == MaxTokens \in Nat \ {0} /\ MaxResets \in Nat

ASSUME NullAssumption == NoUser \notin User /\ NoSession \notin SessionId

VARIABLES
    row,        \* a session row: not there yet, valid, valid = false, deleted
    owner,      \* Session.userId
    stored,     \* Session.token: number of the token whose hash it is, 0 for ""
    minted,     \* number of refresh tokens issued for the session
    expired,    \* tokens up to this number have passed their expiry
    since,      \* version of the password that opened the session
    password,   \* version of each user's password
    presented,  \* how often each token was sent to refresh (2: more than once)
    exchanged,  \* how often refresh answered it with new tokens
    pc,         \* what a request does next
    ru, rs, rt, rv  \* its user, session, token and password version

rowVars  == <<row, owner, stored, since>>
histVars == <<presented, exchanged>>
reqVars  == <<pc, ru, rs, rt, rv>>
vars     == <<rowVars, minted, expired, password, histVars, reqVars>>

Number == 1 .. MaxTokens
Pc     == {"idle", "open", "rotate", "revoke", "logoutAll", "reset"}

TypeOK ==
    /\ row \in [SessionId -> {"none", "valid", "revoked", "deleted"}]
    /\ owner \in [SessionId -> User \cup {NoUser}]
    /\ stored \in [SessionId -> 0 .. MaxTokens]
    /\ minted \in [SessionId -> 0 .. MaxTokens]
    /\ expired \in [SessionId -> 0 .. MaxTokens]
    /\ since \in [SessionId -> 0 .. MaxResets]
    /\ password \in [User -> 0 .. MaxResets]
    /\ presented \in [SessionId -> [Number -> 0 .. 2]]
    /\ exchanged \in [SessionId -> [Number -> Nat]]
    /\ pc \in [Request -> Pc]
    /\ ru \in [Request -> User \cup {NoUser}]
    /\ rs \in [Request -> SessionId \cup {NoSession}]
    /\ rt \in [Request -> 0 .. MaxTokens]
    /\ rv \in [Request -> 0 .. MaxResets]

Init ==
    /\ row = [s \in SessionId |-> "none"]
    /\ owner = [s \in SessionId |-> NoUser]
    /\ stored = [s \in SessionId |-> 0]
    /\ minted = [s \in SessionId |-> 0]
    /\ expired = [s \in SessionId |-> 0]
    /\ since = [s \in SessionId |-> 0]
    /\ password = [u \in User |-> 0]
    /\ presented = [s \in SessionId |-> [n \in Number |-> 0]]
    /\ exchanged = [s \in SessionId |-> [n \in Number |-> 0]]
    /\ pc = [r \in Request |-> "idle"]
    /\ ru = [r \in Request |-> NoUser]
    /\ rs = [r \in Request |-> NoSession]
    /\ rt = [r \in Request |-> 0]
    /\ rv = [r \in Request |-> 0]

-----------------------------------------------------------------------------
Begin(r, step, u, s, n, v) ==
    /\ pc[r] = "idle"
    /\ pc' = [pc EXCEPT ![r] = step]
    /\ ru' = [ru EXCEPT ![r] = u]
    /\ rs' = [rs EXCEPT ![r] = s]
    /\ rt' = [rt EXCEPT ![r] = n]
    /\ rv' = [rv EXCEPT ![r] = v]

End(r) ==
    /\ pc' = [pc EXCEPT ![r] = "idle"]
    /\ ru' = [ru EXCEPT ![r] = NoUser]
    /\ rs' = [rs EXCEPT ![r] = NoSession]
    /\ rt' = [rt EXCEPT ![r] = 0]
    /\ rv' = [rv EXCEPT ![r] = 0]

Exists(s) == row[s] \in {"valid", "revoked"}

Issued(s, n) == n \in 1 .. minted[s]

\* Faulty variant: a status the schema does not know.
RevokeNamed(S) ==
    /\ row' = [s \in SessionId |-> IF s \in S /\ Exists(s) THEN "expired" ELSE row[s]]
    /\ UNCHANGED <<stored, owner, since>>

\* updateMany { valid: false, token: "" } over the rows in S.
Revoke(S) ==
    /\ row' = [s \in SessionId |-> IF s \in S /\ Exists(s) THEN "revoked" ELSE row[s]]
    /\ stored' = [s \in SessionId |-> IF s \in S /\ Exists(s) THEN 0 ELSE stored[s]]
    /\ UNCHANGED <<owner, since>>

SessionsOf(u) == {s \in SessionId : owner[s] = u}

-----------------------------------------------------------------------------
(* login                                                                    *)

\* The user row is read and the password, the current one, is verified.
LoginVerify(r, u) ==
    /\ Begin(r, "open", u, NoSession, 0, password[u])
    /\ UNCHANGED <<rowVars, minted, expired, password, histVars>>

\* A session of its own with the hash of the first refresh token.
LoginCreate(r) ==
    /\ pc[r] = "open"
    /\ \E s \in SessionId :
        /\ row[s] = "none"
        /\ row' = [row EXCEPT ![s] = "valid"]
        /\ owner' = [owner EXCEPT ![s] = ru[r]]
        /\ stored' = [stored EXCEPT ![s] = 1]
        /\ minted' = [minted EXCEPT ![s] = 1]
        /\ since' = [since EXCEPT ![s] = rv[r]]
    /\ End(r)
    /\ UNCHANGED <<expired, password, histVars>>

-----------------------------------------------------------------------------
(* refresh                                                                  *)

Present(s, n) ==
    presented' = [presented EXCEPT ![s][n] = IF @ < 2 THEN @ + 1 ELSE 2]

\* The token has expired: the session named in it is revoked, whether or not
\* this is its current token.
RefreshExpired(r, s, n) ==
    /\ pc[r] = "idle"
    /\ Issued(s, n) /\ n <= expired[s]
    /\ Present(s, n)
    /\ Revoke({s})
    /\ UNCHANGED <<minted, expired, password, exchanged, reqVars>>

\* The session row is read; the token is compared with the hash stored there.
RefreshRead(r, s, n) ==
    /\ Issued(s, n) /\ n > expired[s]
    /\ Present(s, n)
    /\ pc[r] = "idle"
    /\ IF row[s] # "valid" THEN UNCHANGED reqVars
       ELSE Begin(r, IF stored[s] = n THEN "rotate" ELSE "revoke", owner[s], s, n, 0)
    /\ UNCHANGED <<rowVars, minted, expired, password, exchanged>>

\* Reuse: every session of the user is revoked.
RefreshRevoke(r) ==
    /\ pc[r] = "revoke"
    /\ Revoke(SessionsOf(ru[r]))
    /\ End(r)
    /\ UNCHANGED <<minted, expired, password, histVars>>

\* Faulty variants: the rotation writes the whole row back as it was read;
\* the new hash is not stored.
RotateWholeRow(s) ==
    /\ minted' = [minted EXCEPT ![s] = @ + 1]
    /\ stored' = [stored EXCEPT ![s] = minted[s] + 1]
    /\ row' = [row EXCEPT ![s] = "valid"]
    /\ UNCHANGED <<owner, since>>
RotateUnstored(s) ==
    /\ minted' = [minted EXCEPT ![s] = @ + 1]
    /\ UNCHANGED <<row, stored, owner, since>>

\* A new pair is minted and its hash stored by id, whatever the row says now;
\* a row that the cleanup deleted in between makes the update fail.
RotateRow(s) ==
    /\ minted' = [minted EXCEPT ![s] = @ + 1]
    /\ stored' = [stored EXCEPT ![s] = minted[s] + 1]
    /\ UNCHANGED <<row, owner, since>>

RefreshRotate(r) ==
    /\ pc[r] = "rotate"
    /\ IF Exists(rs[r])
         THEN /\ minted[rs[r]] < MaxTokens
              /\ RotateRow(rs[r])
              /\ exchanged' = [exchanged EXCEPT ![rs[r]][rt[r]] = @ + 1]
         ELSE UNCHANGED <<rowVars, minted, exchanged>>
    /\ End(r)
    /\ UNCHANGED <<expired, password, presented>>

-----------------------------------------------------------------------------
(* logout, logout-all, reset-password, cleanup                              *)

\* Any unexpired token of the session will do; a missing row is ignored.
Logout(r, s, n) ==
    /\ pc[r] = "idle"
    /\ Issued(s, n) /\ n > expired[s] /\ Exists(s)
    /\ Revoke({s})
    /\ UNCHANGED <<minted, expired, password, histVars, reqVars>>

\* requireAuth finds the session of the access token valid and lets it pass.
RequireAuth(r, s) ==
    /\ row[s] = "valid"
    /\ Begin(r, "logoutAll", owner[s], s, 0, 0)
    /\ UNCHANGED <<rowVars, minted, expired, password, histVars>>

LogoutAll(r) ==
    /\ pc[r] = "logoutAll"
    /\ Revoke(SessionsOf(ru[r]))
    /\ End(r)
    /\ UNCHANGED <<minted, expired, password, histVars>>

\* resetPassword finds an unused, unexpired reset token and hashes the password.
ResetCheck(r, u) ==
    /\ Begin(r, "reset", u, NoSession, 0, 0)
    /\ UNCHANGED <<rowVars, minted, expired, password, histVars>>

\* One transaction: the password is set and every session of the user revoked.
ResetCommit(r) ==
    /\ pc[r] = "reset"
    /\ password[ru[r]] < MaxResets
    /\ password' = [password EXCEPT ![ru[r]] = @ + 1]
    /\ Revoke(SessionsOf(ru[r]))
    /\ End(r)
    /\ UNCHANGED <<minted, expired, histVars>>

\* Faulty variant: only rows that are still valid are looked at.
StaleValid(s) == row[s] = "valid" /\ stored[s] <= expired[s]

\* deleteMany: rows with valid = false, and rows not updated for the lifetime
\* of a refresh token, whose current token has therefore expired.
Stale(s) == row[s] = "revoked" \/ (row[s] = "valid" /\ stored[s] <= expired[s])

Cleanup ==
    /\ \E s \in SessionId : Stale(s)
    /\ row' = [s \in SessionId |-> IF Stale(s) THEN "deleted" ELSE row[s]]
    /\ UNCHANGED <<owner, stored, since, minted, expired, password, histVars, reqVars>>

\* Time passes: tokens expire in the order in which they were issued.
Expire(s) ==
    /\ expired[s] < minted[s]
    /\ expired' = [expired EXCEPT ![s] = @ + 1]
    /\ UNCHANGED <<rowVars, minted, password, histVars, reqVars>>

\* A call of the request fails, or its process dies, between two steps.
Abort(r) ==
    /\ pc[r] # "idle"
    /\ End(r)
    /\ UNCHANGED <<rowVars, minted, expired, password, histVars>>

-----------------------------------------------------------------------------
RequestStep ==
    \/ \E r \in Request, u \in User : LoginVerify(r, u) \/ ResetCheck(r, u)
    \/ \E r \in Request, s \in SessionId : RequireAuth(r, s)
    \/ \E r \in Request, s \in SessionId, n \in Number :
        RefreshRead(r, s, n) \/ RefreshExpired(r, s, n) \/ Logout(r, s, n)
    \/ \E r \in Request :
        LoginCreate(r) \/ RefreshRevoke(r) \/ RefreshRotate(r)
        \/ LogoutAll(r) \/ ResetCommit(r) \/ Abort(r)

Next == RequestStep \/ Cleanup \/ \E s \in SessionId : Expire(s)

Spec == Init /\ [][Next]_vars

\* The cleanup timer fires again and again.
FairSpec == Spec /\ WF_vars(Cleanup)

-----------------------------------------------------------------------------
(***************************************************************************)
(* A session that was revoked or deleted never becomes valid again, and a  *)
(* deleted one stays deleted, whatever rotation was in flight: refresh     *)
(* updates the row by id without looking at valid a second time.  A reset  *)
(* of the password revokes every session there is, also those that are     *)
(* being refreshed; a login under way may still open one (see LoginCreate).*)
(***************************************************************************)
RevokedForGood ==
    [][\A s \in SessionId :
        /\ row[s] = "revoked" => row'[s] \in {"revoked", "deleted"}
        /\ row[s] = "deleted" => row'[s] = "deleted"
        /\ owner[s] \in User /\ password'[owner[s]] # password[owner[s]] => row'[s] # "valid"]_vars

(***************************************************************************)
(* Refresh reports reuse, and so revokes every session of the user, only   *)
(* when some token of that session was really sent twice: a client that    *)
(* sends each token once is never thrown out by it, and neither is one     *)
(* whose refresh races with a logout or with the cleanup.                  *)
(***************************************************************************)
ReuseOnlyAfterReplay ==
    [][\A r \in Request : pc[r] # "revoke" /\ pc'[r] = "revoke"
         => \E n \in Number : presented'[rs'[r]][n] = 2]_vars

(***************************************************************************)
(* "Rotating refresh tokens": a refresh token is exchanged for new tokens  *)
(* at most once.                                                           *)
(***************************************************************************)
ExchangedOnce == \A s \in SessionId, n \in Number : exchanged[s][n] <= 1

(***************************************************************************)
(* Every session that is revoked, or whose token runs out unrefreshed, is  *)
(* finally deleted by the cleanup timer.                                   *)
(***************************************************************************)
DeadSessionsDeleted ==
    \A s \in SessionId :
        /\ row[s] = "revoked" ~> row[s] = "deleted"
        /\ (row[s] = "valid" /\ stored[s] <= expired[s])
             ~> (row[s] = "deleted" \/ stored[s] > expired[s])
=============================================================================
