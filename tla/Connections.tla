---------------------------- MODULE Connections -----------------------------
(***************************************************************************)
(* The QuickBooks connections of one organization                          *)
(* (src/modules/integrations/quickbooks/quickbooks.service.ts).  A connect *)
(* URL makes a pending row with a secret state; the callback that returns  *)
(* the state finds the row, exchanges its code for tokens at the provider, *)
(* and in a transaction switches off what it sees active and activates the *)
(* row.  The state is checked before the exchange and cleared after it.    *)
(***************************************************************************)
EXTENDS Naturals, FiniteSets

CONSTANTS
    MaxConnection,  \* bound: connections created
    Realm,          \* companies at QuickBooks
    Callback,       \* callbacks that may be in progress at once
    NoRealm

ASSUME ConnectionsAssumption ==
    MaxConnection \in Nat /\ NoRealm \notin Realm /\ IsFiniteSet(Callback)

VARIABLES
    state,      \* oauthState of each row: not created, fresh, expired, cleared
    on,         \* the active rows
    realm,      \* realmId of each row
    used,       \* history: how often a row was activated
    cpc, cc, cr,    \* what a callback does next, its row and its realm
    twin,       \* the row its transaction has found with its realm, at most one
    others      \* the rows it has switched off

connRowVars  == <<state, on, realm, used>>
callbackVars == <<cpc, cc, cr, twin, others>>
connVars     == <<connRowVars, callbackVars>>

\* The rows, in the order of creation.
Connection == 1 .. MaxConnection

ConnTypeOK ==
    /\ state \in [Connection -> {"none", "fresh", "expired", "cleared"}]
    /\ on \subseteq {c \in Connection : realm[c] # NoRealm}
    /\ realm \in [Connection -> Realm \cup {NoRealm}]
    /\ used \in [Connection -> Nat]
    /\ cpc \in [Callback -> {"idle", "exchange", "begin", "commit"}]
    /\ cc \in [Callback -> 0 .. MaxConnection]
    /\ cr \in [Callback -> Realm \cup {NoRealm}]
    /\ twin \in [Callback -> SUBSET Connection]
    /\ others \in [Callback -> SUBSET Connection]

ConnInit ==
    /\ state = [c \in Connection |-> "none"] /\ on = {}
    /\ realm = [c \in Connection |-> NoRealm]
    /\ used = [c \in Connection |-> 0]
    /\ cpc = [b \in Callback |-> "idle"] /\ cc = [b \in Callback |-> 0]
    /\ cr = [b \in Callback |-> NoRealm] /\ twin = [b \in Callback |-> {}]
    /\ others = [b \in Callback |-> {}]

CallbackStep(b, step, c, r, T, S) ==
    /\ cpc' = [cpc EXCEPT ![b] = step]
    /\ cc' = [cc EXCEPT ![b] = c]
    /\ cr' = [cr EXCEPT ![b] = r]
    /\ twin' = [twin EXCEPT ![b] = T]
    /\ others' = [others EXCEPT ![b] = S]

CallbackEnd(b) == CallbackStep(b, "idle", 0, NoRealm, {}, {})

-----------------------------------------------------------------------------
CreateQuickBooksConnectUrl ==
    /\ \E c \in Connection :
        /\ state[c] = "none" /\ \A d \in 1 .. c - 1 : state[d] # "none"
        /\ state' = [state EXCEPT ![c] = "fresh"]
    /\ UNCHANGED <<on, realm, used, callbackVars>>

StateExpires(c) ==
    /\ state[c] = "fresh"
    /\ state' = [state EXCEPT ![c] = "expired"]
    /\ UNCHANGED <<on, realm, used, callbackVars>>

\* QBO_STATE_INVALID when no row has the state or it is over.
CallbackLookup(b, c, r) ==
    /\ cpc[b] = "idle"
    /\ IF state[c] = "fresh" THEN CallbackStep(b, "exchange", c, r, {}, {})
       ELSE UNCHANGED callbackVars
    /\ UNCHANGED connRowVars

\* The provider answers with tokens; or does not, the process dies, the database
\* fails: the callback is over (QBO_TOKEN_EXCHANGE_FAILED).
ExchangeCodeForTokens(b) ==
    /\ cpc[b] = "exchange"
    /\ CallbackStep(b, "begin", cc[b], cr[b], {}, {})
    /\ UNCHANGED connRowVars

CallbackFails(b) ==
    /\ cpc[b] # "idle"
    /\ CallbackEnd(b)
    /\ UNCHANGED connRowVars

\* The other row with the realm of the callback.
Twin(b) == {c \in Connection : realm[c] = cr[b]} \ {cc[b]}

\* Faulty variant: only that row is switched off.
SwitchOffTwin(b) == Twin(b)

\* It is switched off, and so are the active rows that the transaction sees.
SwitchOff(b) == (Twin(b) \cup on) \ {cc[b]}

CallbackBegin(b) ==
    /\ cpc[b] = "begin"
    /\ CallbackStep(b, "commit", cc[b], cr[b], Twin(b), SwitchOff(b))
    /\ UNCHANGED connRowVars

\* The commit.  The unique index on the realm refuses it (P2002) when another row
\* got the realm in the meantime.
CallbackCommit(b) ==
    LET c == cc[b]
    IN /\ cpc[b] = "commit"
       /\ IF Twin(b) \subseteq twin[b]
            THEN /\ realm' = [d \in Connection |->
                                IF d = c THEN cr[b] ELSE IF d \in twin[b] THEN NoRealm ELSE realm[d]]
                 /\ on' = (on \ others[b]) \cup {c}
                 /\ state' = [state EXCEPT ![c] = "cleared"]
                 /\ used' = [used EXCEPT ![c] = @ + 1]
            ELSE UNCHANGED connRowVars
       /\ CallbackEnd(b)

ConnNext ==
    \/ CreateQuickBooksConnectUrl
    \/ \E c \in Connection : StateExpires(c)
    \/ \E b \in Callback, c \in Connection, r \in Realm : CallbackLookup(b, c, r)
    \/ \E b \in Callback :
        ExchangeCodeForTokens(b) \/ CallbackFails(b) \/ CallbackBegin(b) \/ CallbackCommit(b)

ConnSpec == ConnInit /\ [][ConnNext]_connVars

-----------------------------------------------------------------------------
(***************************************************************************)
(* One connection of an organization is active, and a state connects once, *)
(* but for callbacks that overlap: however they interleave with each       *)
(* other's exchanges, neither number exceeds the callbacks in progress at  *)
(* once, and no two rows share a realm.                                    *)
(***************************************************************************)
OneActive ==
    /\ Cardinality(on) <= Cardinality(Callback)
    /\ \A c \in Connection : used[c] <= Cardinality(Callback)
    /\ \A c, d \in Connection : c # d /\ realm[c] # NoRealm => realm[c] # realm[d]
=============================================================================
