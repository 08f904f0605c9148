---------------------------- MODULE AccountTokens ---------------------------
(***************************************************************************)
(* Accounts, the tokens that verify an e-mail address or reset a password, *)
(* and the mails that carry them (src/modules/auth/auth.service.ts,        *)
(* src/infrastructure/email/emailService.ts).                              *)
(*                                                                         *)
(* Both kinds of token live the same life in tables of their own.  A token *)
(* is known only to who got its mail: the controllers answer without it.   *)
(* Mails are sent after the transaction, by a promise nobody waits for and *)
(* nothing persists.                                                       *)
(***************************************************************************)
EXTENDS Naturals, FiniteSets

CONSTANTS
    Account,            \* e-mail addresses, normalised
    MaxToken,           \* bound: tokens issued (32 random bytes each, never equal)
    AccountRequest,     \* requests that may be in progress at once
    NoAccount

ASSUME AccountAssumption ==
    MaxToken \in Nat /\ NoAccount \notin Account /\ IsFiniteSet(AccountRequest)

VARIABLES
    required,   \* auth.emailVerificationRequired, fixed at the start
    account,    \* no user row yet, unverified, or verified
    token,      \* the token rows: not there, live, expired, used (usedAt is set)
    kind,       \* which table the token is in
    holder,     \* its userId
    mail,       \* calls of sendMail left for its mail, 0 when nothing is to be sent
    delivered,  \* whether a copy reached the user
    redeemed,   \* history: how often the token was redeemed
    apc, au, at,  \* what a request does next, its user and its token
    unused      \* the unused tokens its updateMany has seen

rowsOfTokens == <<token, kind, holder>>
mailVars     == <<mail, delivered>>
accReqVars   == <<apc, au, at, unused>>
tokensVars   == <<required, account, rowsOfTokens, mailVars, redeemed, accReqVars>>

MailAttempts == 3

\* The tokens, in the order of issue.
Token == 1 .. MaxToken

TokensTypeOK ==
    /\ required \in BOOLEAN
    /\ account \in [Account -> {"none", "unverified", "verified"}]
    /\ token \in [Token -> {"none", "live", "expired", "used"}]
    /\ kind \in [Token -> {"verify", "reset"}]
    /\ holder \in [Token -> Account \cup {NoAccount}]
    /\ mail \in [Token -> 0 .. MailAttempts]
    /\ delivered \in [Token -> BOOLEAN]
    /\ redeemed \in [Token -> Nat]
    /\ apc \in [AccountRequest -> {"idle", "register", "issue", "redeem"}]
    /\ au \in [AccountRequest -> Account \cup {NoAccount}]
    /\ at \in [AccountRequest -> 0 .. MaxToken]
    /\ unused \in [AccountRequest -> SUBSET Token]

TokensInit ==
    /\ required \in BOOLEAN
    /\ account = [a \in Account |-> "none"]
    /\ token = [t \in Token |-> "none"]
    /\ kind = [t \in Token |-> "verify"]
    /\ holder = [t \in Token |-> NoAccount]
    /\ mail = [t \in Token |-> 0]
    /\ delivered = [t \in Token |-> FALSE]
    /\ redeemed = [t \in Token |-> 0]
    /\ apc = [r \in AccountRequest |-> "idle"]
    /\ au = [r \in AccountRequest |-> NoAccount]
    /\ at = [r \in AccountRequest |-> 0]
    /\ unused = [r \in AccountRequest |-> {}]

-----------------------------------------------------------------------------
Enter(r, step, a, t, old) ==
    /\ apc[r] = "idle"
    /\ apc' = [apc EXCEPT ![r] = step]
    /\ au' = [au EXCEPT ![r] = a]
    /\ at' = [at EXCEPT ![r] = t]
    /\ unused' = [unused EXCEPT ![r] = old]

Leave(r) ==
    /\ apc' = [apc EXCEPT ![r] = "idle"]
    /\ au' = [au EXCEPT ![r] = NoAccount]
    /\ at' = [at EXCEPT ![r] = 0]
    /\ unused' = [unused EXCEPT ![r] = {}]

Live(t)        == token[t] \in {"live", "expired"}
UnusedOf(a, k) == {t \in Token : Live(t) /\ holder[t] = a /\ kind[t] = k}

Fresh == {t \in Token : token[t] = "none" /\ \A q \in 1 .. t - 1 : token[q] # "none"}

\* A new token replaces the unused ones the transaction has seen, and its mail
\* is due once the transaction has committed.
IssueToken(a, k, old) ==
    \E t \in Fresh :
        /\ token' = [q \in Token |-> IF q = t THEN "live"
                                     ELSE IF q \in old THEN "used" ELSE token[q]]
        /\ kind' = [kind EXCEPT ![t] = k]
        /\ holder' = [holder EXCEPT ![t] = a]
        /\ mail' = [mail EXCEPT ![t] = MailAttempts]

-----------------------------------------------------------------------------
(* register, request-password-reset                                         *)

\* EMAIL_TAKEN, or on to hashing the password.
RegisterCheck(r, a) ==
    /\ IF account[a] # "none" THEN apc[r] = "idle" /\ UNCHANGED accReqVars
       ELSE Enter(r, "register", a, 0, {})
    /\ UNCHANGED <<required, account, rowsOfTokens, mailVars, redeemed>>

\* The transaction: the unique e-mail address refuses who comes second.
RegisterCommit(r) ==
    /\ apc[r] = "register"
    /\ IF account[au[r]] # "none"
         THEN UNCHANGED <<account, rowsOfTokens, mailVars>>
         ELSE /\ account' = [account EXCEPT ![au[r]] =
                               IF required THEN "unverified" ELSE "verified"]
              /\ IF required THEN IssueToken(au[r], "verify", {})
                 ELSE UNCHANGED <<rowsOfTokens, mail>>
              /\ UNCHANGED delivered
    /\ Leave(r)
    /\ UNCHANGED <<required, redeemed>>

\* The user is found and the transaction sees the tokens not used yet; an
\* unknown address is answered in the same way, and nothing happens.
RequestPasswordReset(r, a) ==
    /\ IF account[a] = "none" THEN apc[r] = "idle" /\ UNCHANGED accReqVars
       ELSE Enter(r, "issue", a, 0, UnusedOf(a, "reset"))
    /\ UNCHANGED <<required, account, rowsOfTokens, mailVars, redeemed>>

IssueCommit(r) ==
    /\ apc[r] = "issue"
    /\ IssueToken(au[r], "reset", unused[r])
    /\ Leave(r)
    /\ UNCHANGED <<required, account, delivered, redeemed>>

-----------------------------------------------------------------------------
(* verify-email, reset-password                                             *)

\* The token is looked up outside any transaction: used ones are refused,
\* expired ones refused and marked used.
Redeem(r, t) ==
    /\ apc[r] = "idle" /\ delivered[t]
    /\ IF token[t] = "live"
         THEN Enter(r, "redeem", holder[t], t, {}) /\ UNCHANGED token
         ELSE token' = [token EXCEPT ![t] = "used"] /\ UNCHANGED accReqVars
    /\ UNCHANGED <<required, account, kind, holder, mailVars, redeemed>>

\* Faulty variant: the other tokens of the user are marked, not this one.
SpendOthers(t) ==
    token' = [q \in Token |->
                IF q # t /\ q \in UnusedOf(holder[t], kind[t]) THEN "used" ELSE token[q]]

Spend(t) ==
    token' = [q \in Token |->
                IF q = t \/ q \in UnusedOf(holder[t], kind[t]) THEN "used" ELSE token[q]]

\* The transaction marks the token by id and all unused ones of the user, and
\* verifies the address or sets the password (revoking the sessions).
RedeemCommit(r) ==
    /\ apc[r] = "redeem"
    /\ Spend(at[r])
    /\ redeemed' = [redeemed EXCEPT ![at[r]] = @ + 1]
    /\ account' = IF kind[at[r]] = "verify" THEN [account EXCEPT ![au[r]] = "verified"]
                  ELSE account
    /\ Leave(r)
    /\ UNCHANGED <<required, kind, holder, mailVars>>

ExpireToken(t) ==
    /\ token[t] = "live"
    /\ token' = [token EXCEPT ![t] = "expired"]
    /\ UNCHANGED <<required, account, kind, holder, mailVars, redeemed, accReqVars>>

\* A call of the request fails, or its process dies, between two steps.
AbortRequest(r) ==
    /\ apc[r] # "idle"
    /\ Leave(r)
    /\ UNCHANGED <<required, account, rowsOfTokens, mailVars, redeemed>>

-----------------------------------------------------------------------------
(* The mails                                                                *)

\* Faulty variant: the count starts again.
WithRetryForever(t) == mail' = [mail EXCEPT ![t] = IF @ = 1 THEN MailAttempts ELSE @ - 1]

\* A failure: withRetry calls sendMail again, up to three times in all.
WithRetry(t) == mail' = [mail EXCEPT ![t] = @ - 1]

SendMail(t) ==
    /\ mail[t] > 0
    /\ \/ /\ delivered' = [delivered EXCEPT ![t] = TRUE]
          /\ mail' = [mail EXCEPT ![t] = 0]
       \/ WithRetry(t) /\ UNCHANGED delivered
    /\ UNCHANGED <<required, account, rowsOfTokens, redeemed, accReqVars>>

\* The process stops: requests and the retries under way are forgotten.
ProcessStops ==
    /\ \E t \in Token : mail[t] > 0
    /\ mail' = [t \in Token |-> 0]
    /\ apc' = [r \in AccountRequest |-> "idle"]
    /\ au' = [r \in AccountRequest |-> NoAccount]
    /\ at' = [r \in AccountRequest |-> 0]
    /\ unused' = [r \in AccountRequest |-> {}]
    /\ UNCHANGED <<required, account, rowsOfTokens, delivered, redeemed>>

TokensNext ==
    \/ \E r \in AccountRequest, a \in Account : RegisterCheck(r, a) \/ RequestPasswordReset(r, a)
    \/ \E r \in AccountRequest, t \in Token : Redeem(r, t)
    \/ \E r \in AccountRequest :
        RegisterCommit(r) \/ IssueCommit(r) \/ RedeemCommit(r) \/ AbortRequest(r)
    \/ \E t \in Token : ExpireToken(t) \/ SendMail(t)
    \/ ProcessStops

TokensSpec == TokensInit /\ [][TokensNext]_tokensVars

-----------------------------------------------------------------------------
(***************************************************************************)
(* A token is good for one use and a new one makes the older ones useless, *)
(* but for requests that overlap: a token is redeemed, and the tokens of   *)
(* one user and kind that can still be used are, at most as many times as  *)
(* requests were in progress at once, for later look-ups see what they did.*)
(***************************************************************************)
TokensOverlap ==
    /\ \A t \in Token : redeemed[t] <= Cardinality(AccountRequest)
    /\ \A a \in Account, k \in {"verify", "reset"} :
        Cardinality(UnusedOf(a, k)) <= Cardinality(AccountRequest)

(***************************************************************************)
(* Every mail is finally sent or given up, for withRetry stops after       *)
(* three calls of sendMail.                                                *)
(***************************************************************************)
MailSettles == \A t \in Token : mail[t] > 0 ~> mail[t] = 0
=============================================================================
