-------------------------- MODULE AuthSessionsProofs --------------------------
(* Theorems about AuthSessions for every set of users, sessions and requests *)
(* and every value of the bounds.                                            *)
EXTENDS AuthSessions, TLAPS

-----------------------------------------------------------------------------
(* The inductive invariant                                                   *)

Replayed(s) == \E n \in Number : presented[s][n] = 2

Rotating(r, s) == pc[r] = "rotate" /\ rs[r] = s

\* What a request in progress is about exists.
Requests ==
    \A r \in Request :
        /\ pc[r] \in {"open", "reset"} => ru[r] \in User
        /\ pc[r] = "rotate" =>
            rs[r] \in SessionId /\ rt[r] \in Number /\ row[rs[r]] # "none"

\* As long as no token of a valid session was sent twice, the stored one is the
\* newest, the older ones have all been sent, and a rotation in progress has
\* been given the newest one and is the only one.
Chain ==
    \A s \in SessionId :
        row[s] = "valid" /\ ~Replayed(s) =>
            /\ stored[s] = minted[s] /\ minted[s] \in Number
            /\ \A n \in Number : n < minted[s] => presented[s][n] # 0
            /\ \A r \in Request : Rotating(r, s) =>
                /\ rt[r] = minted[s] /\ presented[s][minted[s]] # 0
                /\ \A q \in Request : Rotating(q, s) => q = r

Inductive == TypeOK /\ Requests /\ Chain
-----------------------------------------------------------------------------
(* Every step keeps it                                                       *)

\* Init establishes the inductive invariant.
LEMMA InitInductive == Init => Inductive
  BY BoundsAssumption DEF Init, Inductive, TypeOK, Requests, Chain, Rotating, Number, Pc

\* The start and the end of a request in its own variables.
LEMMA BeginType ==
  ASSUME TypeOK, NEW r \in Request, NEW step \in Pc, NEW u \in User \cup {NoUser},
         NEW s \in SessionId \cup {NoSession}, NEW n \in 0 .. MaxTokens,
         NEW v \in 0 .. MaxResets, Begin(r, step, u, s, n, v)
  PROVE  /\ pc' \in [Request -> Pc] /\ ru' \in [Request -> User \cup {NoUser}]
         /\ rs' \in [Request -> SessionId \cup {NoSession}]
         /\ rt' \in [Request -> 0 .. MaxTokens] /\ rv' \in [Request -> 0 .. MaxResets]
         /\ pc'[r] = step /\ ru'[r] = u /\ rs'[r] = s /\ rt'[r] = n
         /\ \A q \in Request \ {r} :
              pc'[q] = pc[q] /\ ru'[q] = ru[q] /\ rs'[q] = rs[q] /\ rt'[q] = rt[q]
  BY DEF TypeOK, Begin

LEMMA EndType ==
  ASSUME TypeOK, NEW r \in Request, End(r)
  PROVE  /\ pc' \in [Request -> Pc] /\ ru' \in [Request -> User \cup {NoUser}]
         /\ rs' \in [Request -> SessionId \cup {NoSession}]
         /\ rt' \in [Request -> 0 .. MaxTokens] /\ rv' \in [Request -> 0 .. MaxResets]
         /\ pc'[r] = "idle"
         /\ \A q \in Request \ {r} :
              pc'[q] = pc[q] /\ ru'[q] = ru[q] /\ rs'[q] = rs[q] /\ rt'[q] = rt[q]
  BY BoundsAssumption DEF TypeOK, End, Pc

\* A revocation leaves no session of the set valid and touches no other one.
LEMMA RevokeFacts ==
  ASSUME TypeOK, NEW S \in SUBSET SessionId, Revoke(S)
  PROVE  /\ row' \in [SessionId -> {"none", "valid", "revoked", "deleted"}]
         /\ stored' \in [SessionId -> 0 .. MaxTokens] /\ UNCHANGED <<owner, since>>
         /\ \A s \in SessionId : row'[s] = row[s] \/ (row[s] = "valid" /\ row'[s] = "revoked")
         /\ \A s \in SessionId : row'[s] = "valid" => s \notin S /\ stored'[s] = stored[s]
  BY BoundsAssumption DEF TypeOK, Revoke, Exists

\* A step that issues and presents no token, makes no session valid and starts no
\* rotation keeps the chain.
LEMMA ChainKept ==
  ASSUME Chain, UNCHANGED <<minted, presented>>,
         \A s \in SessionId : row'[s] = "valid" => row[s] = "valid" /\ stored'[s] = stored[s],
         \A r \in Request : pc'[r] = "rotate" =>
            pc[r] = "rotate" /\ rs'[r] = rs[r] /\ rt'[r] = rt[r]
  PROVE  Chain'
  BY DEF Chain, Rotating, Replayed

\* A presentation of a token, which is then counted.
LEMMA PresentFacts ==
  ASSUME TypeOK, NEW s \in SessionId, NEW n \in Number, Present(s, n)
  PROVE  /\ presented' \in [SessionId -> [Number -> 0 .. 2]]
         /\ \A t \in SessionId \ {s} : presented'[t] = presented[t]
         /\ \A m \in Number \ {n} : presented'[s][m] = presented[s][m]
         /\ presented'[s][n] # 0 /\ (presented[s][n] # 0 => presented'[s][n] = 2)
         /\ presented[s][n] = 2 => presented'[s][n] = 2
  BY DEF TypeOK, Present
\* Steps of requests that only begin: a user or a session was looked up.
LEMMA LookUpInductive ==
  ASSUME Inductive, NEW r \in Request,
         \/ \E u \in User : LoginVerify(r, u) \/ ResetCheck(r, u)
         \/ \E s \in SessionId : RequireAuth(r, s)
  PROVE  Inductive'
<1>0. TypeOK /\ Requests /\ Chain
  BY DEF Inductive
<1>1. PICK step \in {"open", "reset", "logoutAll"}, u \in User \cup {NoUser},
           s \in SessionId \cup {NoSession}, v \in 0 .. MaxResets :
        Begin(r, step, u, s, 0, v) /\ (step # "logoutAll" => u \in User)
  <2>1. \A u \in User : password[u] \in 0 .. MaxResets
    BY <1>0 DEF TypeOK
  <2>2. \A s \in SessionId : owner[s] \in User \cup {NoUser}
    BY <1>0 DEF TypeOK
  <2>3. 0 \in 0 .. MaxResets
    BY BoundsAssumption
  <2> QED
    BY <2>1, <2>2, <2>3 DEF LoginVerify, ResetCheck, RequireAuth
<1>2. UNCHANGED <<rowVars, minted, expired, password, histVars>>
  BY DEF LoginVerify, ResetCheck, RequireAuth
<1>3. 0 \in 0 .. MaxTokens /\ step \in Pc
  BY BoundsAssumption DEF Pc
<1>4. /\ pc' \in [Request -> Pc] /\ ru' \in [Request -> User \cup {NoUser}]
      /\ rs' \in [Request -> SessionId \cup {NoSession}]
      /\ rt' \in [Request -> 0 .. MaxTokens] /\ rv' \in [Request -> 0 .. MaxResets]
      /\ pc'[r] = step /\ ru'[r] = u
      /\ \A q \in Request \ {r} :
           pc'[q] = pc[q] /\ ru'[q] = ru[q] /\ rs'[q] = rs[q] /\ rt'[q] = rt[q]
  BY <1>0, <1>1, <1>3, BeginType
<1>5. TypeOK'
  BY <1>0, <1>2, <1>4 DEF TypeOK, rowVars, histVars
<1>6. Requests'
  BY <1>0, <1>1, <1>2, <1>4 DEF Requests, rowVars
<1>7. Chain'
  BY <1>0, <1>2, <1>4, ChainKept DEF rowVars, histVars
<1> QED
  BY <1>5, <1>6, <1>7 DEF Inductive

\* A login creates a session, on which nothing is in progress.
LEMMA LoginCreateInductive ==
  ASSUME Inductive, NEW r \in Request, LoginCreate(r)
  PROVE  Inductive'
<1>0. TypeOK /\ Requests /\ Chain
  BY DEF Inductive
<1>1. PICK s \in SessionId :
        /\ row[s] = "none" /\ row' = [row EXCEPT ![s] = "valid"]
        /\ owner' = [owner EXCEPT ![s] = ru[r]] /\ stored' = [stored EXCEPT ![s] = 1]
        /\ minted' = [minted EXCEPT ![s] = 1] /\ since' = [since EXCEPT ![s] = rv[r]]
  BY DEF LoginCreate
<1>2. End(r) /\ UNCHANGED <<expired, password, histVars>>
  BY DEF LoginCreate
<1>3. /\ pc' \in [Request -> Pc] /\ ru' \in [Request -> User \cup {NoUser}]
      /\ rs' \in [Request -> SessionId \cup {NoSession}]
      /\ rt' \in [Request -> 0 .. MaxTokens] /\ rv' \in [Request -> 0 .. MaxResets]
      /\ pc'[r] = "idle"
      /\ \A q \in Request \ {r} :
           pc'[q] = pc[q] /\ ru'[q] = ru[q] /\ rs'[q] = rs[q] /\ rt'[q] = rt[q]
  BY <1>0, <1>2, EndType
<1>4. 1 \in Number /\ Number \subseteq 0 .. MaxTokens
  BY BoundsAssumption DEF Number
<1>5. /\ row'[s] = "valid" /\ stored'[s] = 1 /\ minted'[s] = 1
      /\ \A t \in SessionId \ {s} :
           row'[t] = row[t] /\ stored'[t] = stored[t] /\ minted'[t] = minted[t]
  BY <1>0, <1>1 DEF TypeOK
<1>6. TypeOK'
  BY <1>0, <1>1, <1>2, <1>3, <1>4 DEF TypeOK, histVars
<1>7. Requests'
  BY <1>0, <1>3, <1>5 DEF Requests
<1>8. \A q \in Request : ~Rotating(q, s)'
  BY <1>0, <1>1, <1>3 DEF Requests, Rotating
<1>9. \A t \in SessionId \ {s}, q \in Request : Rotating(q, t)' => Rotating(q, t) /\ rt'[q] = rt[q]
  BY <1>3 DEF Rotating
<1>10. \A n \in Number : ~(n < 1)
  BY DEF Number
<1>11. Chain'
  BY <1>0, <1>2, <1>4, <1>5, <1>8, <1>9, <1>10 DEF Chain, Replayed, histVars
<1> QED
  BY <1>6, <1>7, <1>11 DEF Inductive

\* Sessions are revoked by a request that ends, or by one that has no other step.
LEMMA RevokeInductive ==
  ASSUME Inductive, NEW r \in Request,
         \/ RefreshRevoke(r) \/ LogoutAll(r) \/ ResetCommit(r)
         \/ \E s \in SessionId, n \in Number : Logout(r, s, n)
  PROVE  Inductive'
<1>0. TypeOK /\ Requests /\ Chain
  BY DEF Inductive
<1>1. PICK S \in SUBSET SessionId : Revoke(S)
  BY DEF RefreshRevoke, LogoutAll, ResetCommit, Logout, SessionsOf
<1>2. /\ row' \in [SessionId -> {"none", "valid", "revoked", "deleted"}]
      /\ stored' \in [SessionId -> 0 .. MaxTokens] /\ UNCHANGED <<owner, since>>
      /\ \A s \in SessionId : row'[s] = row[s] \/ (row[s] = "valid" /\ row'[s] = "revoked")
      /\ \A s \in SessionId : row'[s] = "valid" => s \notin S /\ stored'[s] = stored[s]
  BY <1>0, <1>1, RevokeFacts
<1>3. UNCHANGED <<minted, expired, histVars>> /\ (End(r) \/ UNCHANGED reqVars)
  BY DEF RefreshRevoke, LogoutAll, ResetCommit, Logout
<1>4. /\ pc' \in [Request -> Pc] /\ ru' \in [Request -> User \cup {NoUser}]
      /\ rs' \in [Request -> SessionId \cup {NoSession}]
      /\ rt' \in [Request -> 0 .. MaxTokens] /\ rv' \in [Request -> 0 .. MaxResets]
      /\ \A q \in Request : pc'[q] # "idle" =>
           pc'[q] = pc[q] /\ ru'[q] = ru[q] /\ rs'[q] = rs[q] /\ rt'[q] = rt[q]
  <2>1. CASE End(r)
    BY <1>0, <2>1, EndType
  <2>2. CASE UNCHANGED reqVars
    BY <1>0, <2>2 DEF reqVars, TypeOK
  <2> QED
    BY <1>3, <2>1, <2>2
<1>5. password' \in [User -> 0 .. MaxResets]
  <2>1. CASE ResetCommit(r)
    <3>1. password' = [password EXCEPT ![ru[r]] = @ + 1] /\ password[ru[r]] < MaxResets
      BY <2>1 DEF ResetCommit
    <3>2. password \in [User -> 0 .. MaxResets] /\ ru[r] \in User
      BY <1>0, <2>1 DEF TypeOK, Requests, ResetCommit
    <3>3. password[ru[r]] + 1 \in 0 .. MaxResets
      BY <3>1, <3>2, BoundsAssumption
    <3> QED
      BY <3>1, <3>2, <3>3
  <2>2. CASE password' = password
    BY <1>0, <2>2 DEF TypeOK
  <2> QED
    BY <2>1, <2>2 DEF RefreshRevoke, LogoutAll, Logout
<1>6. TypeOK'
  BY <1>0, <1>2, <1>3, <1>4, <1>5 DEF TypeOK, histVars
<1>7. Requests'
  BY <1>0, <1>2, <1>4 DEF Requests
<1>8. Chain'
  BY <1>0, <1>2, <1>3, <1>4, ChainKept DEF histVars
<1> QED
  BY <1>6, <1>7, <1>8 DEF Inductive

\* An expired token is presented: its session is revoked at once.
LEMMA RefreshExpiredInductive ==
  ASSUME Inductive, NEW r \in Request, NEW s \in SessionId, NEW n \in Number,
         RefreshExpired(r, s, n)
  PROVE  Inductive'
<1>0. TypeOK /\ Requests /\ Chain
  BY DEF Inductive
<1>1. /\ Present(s, n) /\ Revoke({s})
      /\ UNCHANGED <<minted, expired, password, exchanged, reqVars>>
  BY DEF RefreshExpired
<1>2. /\ row' \in [SessionId -> {"none", "valid", "revoked", "deleted"}]
      /\ stored' \in [SessionId -> 0 .. MaxTokens] /\ UNCHANGED <<owner, since>>
      /\ \A t \in SessionId : row'[t] = row[t] \/ (row[t] = "valid" /\ row'[t] = "revoked")
      /\ \A t \in SessionId : row'[t] = "valid" => t # s /\ stored'[t] = stored[t]
  BY <1>0, <1>1, RevokeFacts
<1>3. /\ presented' \in [SessionId -> [Number -> 0 .. 2]]
      /\ \A t \in SessionId \ {s} : presented'[t] = presented[t]
  BY <1>0, <1>1, PresentFacts
<1>4. TypeOK'
  BY <1>0, <1>1, <1>2, <1>3 DEF TypeOK, reqVars
<1>5. Requests'
  BY <1>0, <1>1, <1>2 DEF Requests, reqVars
<1>6. Chain'
  BY <1>0, <1>1, <1>2, <1>3 DEF Chain, Replayed, Rotating, reqVars
<1> QED
  BY <1>4, <1>5, <1>6 DEF Inductive
\* A token is compared with the stored one: if it is the newest and was never sent
\* before, nobody rotates yet; if it is an old one, it was sent before.
LEMMA RefreshReadInductive ==
  ASSUME Inductive, NEW r \in Request, NEW s \in SessionId, NEW n \in Number,
         RefreshRead(r, s, n)
  PROVE  /\ Inductive'
         /\ pc[r] # "revoke" /\ pc'[r] = "revoke" => rs'[r] = s /\ Replayed(s)'
         /\ \A q \in Request \ {r} : pc'[q] = pc[q]
<1>0. TypeOK /\ Requests /\ Chain
  BY DEF Inductive
<1>1. /\ Issued(s, n) /\ Present(s, n) /\ pc[r] = "idle"
      /\ IF row[s] # "valid" THEN UNCHANGED reqVars
         ELSE Begin(r, IF stored[s] = n THEN "rotate" ELSE "revoke", owner[s], s, n, 0)
      /\ UNCHANGED <<rowVars, minted, expired, password, exchanged>>
  BY DEF RefreshRead
<1>2. /\ presented' \in [SessionId -> [Number -> 0 .. 2]]
      /\ \A t \in SessionId \ {s} : presented'[t] = presented[t]
      /\ \A m \in Number \ {n} : presented'[s][m] = presented[s][m]
      /\ presented'[s][n] # 0 /\ (presented[s][n] # 0 => presented'[s][n] = 2)
      /\ presented[s][n] = 2 => presented'[s][n] = 2
  BY <1>0, <1>1, PresentFacts
<1>3. Replayed(s) => Replayed(s)'
  BY <1>2 DEF Replayed
<1>4. \A t \in SessionId \ {s} : Replayed(t)' <=> Replayed(t)
  BY <1>2 DEF Replayed
<1>5. minted[s] \in 0 .. MaxTokens /\ stored[s] \in 0 .. MaxTokens
      /\ minted[s] \in Nat /\ n \in 1 .. minted[s]
  BY <1>0, <1>1, BoundsAssumption DEF TypeOK, Issued
<1>6. CASE row[s] # "valid"
  <2>1. UNCHANGED reqVars
    BY <1>1, <1>6
  <2>2. TypeOK' /\ Requests'
    BY <1>0, <1>1, <1>2, <2>1 DEF TypeOK, Requests, rowVars, reqVars
  <2>3. Chain'
    BY <1>0, <1>1, <1>2, <1>4, <1>6, <2>1 DEF Chain, Rotating, rowVars, reqVars
  <2> QED
    BY <2>1, <2>2, <2>3 DEF Inductive, reqVars
<1>7. CASE row[s] = "valid"
  <2> DEFINE step == IF stored[s] = n THEN "rotate" ELSE "revoke"
  <2>1. Begin(r, step, owner[s], s, n, 0)
    BY <1>1, <1>7
  <2>2. /\ step \in Pc /\ owner[s] \in User \cup {NoUser} /\ n \in 0 .. MaxTokens
        /\ 0 \in 0 .. MaxResets
    BY <1>0, BoundsAssumption DEF TypeOK, Pc, Number
  <2>3. /\ pc' \in [Request -> Pc] /\ ru' \in [Request -> User \cup {NoUser}]
        /\ rs' \in [Request -> SessionId \cup {NoSession}]
        /\ rt' \in [Request -> 0 .. MaxTokens] /\ rv' \in [Request -> 0 .. MaxResets]
        /\ pc'[r] = step /\ rs'[r] = s /\ rt'[r] = n
        /\ \A q \in Request \ {r} :
             pc'[q] = pc[q] /\ ru'[q] = ru[q] /\ rs'[q] = rs[q] /\ rt'[q] = rt[q]
    <3> HIDE DEF step
    <3> QED
      BY <1>0, <2>1, <2>2, BeginType
  <2>4. TypeOK'
    BY <1>0, <1>1, <1>2, <2>3 DEF TypeOK, rowVars
  <2>5. Requests'
    BY <1>0, <1>1, <1>7, <2>3 DEF Requests, rowVars
  <2>6. ~Replayed(s)' => /\ ~Replayed(s) /\ stored[s] = minted[s]
                         /\ presented[s][n] = 0 /\ n = minted[s]
    <3>1. SUFFICES ASSUME ~Replayed(s)'
                   PROVE  /\ ~Replayed(s) /\ stored[s] = minted[s]
                          /\ presented[s][n] = 0 /\ n = minted[s]
      OBVIOUS
    <3>2. ~Replayed(s) /\ presented'[s][n] # 2
      BY <1>3, <3>1 DEF Replayed
    <3>3. /\ stored[s] = minted[s] /\ \A m \in Number : m < minted[s] => presented[s][m] # 0
      BY <1>0, <1>7, <3>2 DEF Chain
    <3>4. presented[s][n] = 0
      BY <1>2, <3>2
    <3> QED
      BY <1>5, <3>2, <3>3, <3>4
  <2>7. ~Replayed(s)' => step = "rotate" /\ \A q \in Request \ {r} : ~Rotating(q, s)
    BY <1>0, <1>7, <2>6 DEF Chain
  <2>8. ASSUME ~Replayed(s)'
        PROVE  /\ stored[s] = minted[s] /\ minted[s] \in Number
               /\ \A m \in Number : m < minted[s] => presented'[s][m] # 0
               /\ \A q \in Request : Rotating(q, s)' =>
                    /\ rt'[q] = minted[s] /\ presented'[s][minted[s]] # 0
                    /\ \A p \in Request : Rotating(p, s)' => p = q
    <3>1. /\ stored[s] = minted[s] /\ minted[s] \in Number
          /\ \A m \in Number : m < minted[s] => presented[s][m] # 0
      BY <1>0, <1>7, <2>6, <2>8 DEF Chain
    <3>2. \A q \in Request : Rotating(q, s)' => q = r
      BY <2>3, <2>7, <2>8 DEF Rotating
    <3> QED
      BY <1>2, <2>3, <2>6, <2>8, <3>1, <3>2
  <2>9. Chain'
    <3>1. ASSUME NEW t \in SessionId \ {s}, NEW q \in Request
          PROVE  Rotating(q, t)' <=> Rotating(q, t) /\ q # r
      BY <1>1, <2>3, <3>1 DEF Rotating
    <3>2. ASSUME NEW t \in SessionId \ {s}, row'[t] = "valid", ~Replayed(t)'
          PROVE  /\ stored'[t] = minted'[t] /\ minted'[t] \in Number
                 /\ \A m \in Number : m < minted'[t] => presented'[t][m] # 0
                 /\ \A q \in Request : Rotating(q, t)' =>
                      /\ rt'[q] = minted'[t] /\ presented'[t][minted'[t]] # 0
                      /\ \A p \in Request : Rotating(p, t)' => p = q
      BY <1>0, <1>1, <1>2, <1>4, <2>3, <3>1, <3>2 DEF Chain, rowVars
    <3>3. UNCHANGED <<row, stored, minted>>
      BY <1>1 DEF rowVars
    <3> QED
      BY <2>8, <3>2, <3>3 DEF Chain
  <2>10. pc'[r] = "revoke" => Replayed(s)'
    BY <2>3, <2>7
  <2> QED
    BY <2>3, <2>4, <2>5, <2>9, <2>10 DEF Inductive
<1> QED
  BY <1>6, <1>7

\* A rotation issues the next token and stores it. It was the only rotation of an
\* unreplayed session, so none is in progress there any more.
LEMMA RotateInductive ==
  ASSUME Inductive, NEW r \in Request, RefreshRotate(r)
  PROVE  Inductive'
<1>0. TypeOK /\ Requests /\ Chain
  BY DEF Inductive
<1>1. /\ pc[r] = "rotate" /\ End(r) /\ UNCHANGED <<expired, password, presented>>
      /\ rs[r] \in SessionId /\ rt[r] \in Number
  BY <1>0 DEF RefreshRotate, Requests
<1>2. /\ pc' \in [Request -> Pc] /\ ru' \in [Request -> User \cup {NoUser}]
      /\ rs' \in [Request -> SessionId \cup {NoSession}]
      /\ rt' \in [Request -> 0 .. MaxTokens] /\ rv' \in [Request -> 0 .. MaxResets]
      /\ pc'[r] = "idle"
      /\ \A q \in Request \ {r} :
           pc'[q] = pc[q] /\ ru'[q] = ru[q] /\ rs'[q] = rs[q] /\ rt'[q] = rt[q]
  BY <1>0, <1>1, EndType
<1>3. CASE ~Exists(rs[r])
  <2>1. UNCHANGED <<rowVars, minted, exchanged>>
    BY <1>3 DEF RefreshRotate
  <2>2. TypeOK' /\ Requests'
    BY <1>0, <1>1, <1>2, <2>1 DEF TypeOK, Requests, rowVars
  <2>3. Chain'
    BY <1>0, <1>1, <1>2, <2>1, ChainKept DEF rowVars
  <2> QED
    BY <2>2, <2>3 DEF Inductive
<1>4. CASE Exists(rs[r])
  <2> PICK s \in SessionId : s = rs[r]
    BY <1>1
  <2>1. /\ minted[s] < MaxTokens /\ minted' = [minted EXCEPT ![s] = @ + 1]
        /\ stored' = [stored EXCEPT ![s] = minted[s] + 1] /\ UNCHANGED <<row, owner, since>>
        /\ exchanged' = [exchanged EXCEPT ![s][rt[r]] = @ + 1]
    BY <1>4 DEF RefreshRotate, RotateRow
  <2>2. minted[s] \in 0 .. MaxTokens
        /\ minted[s] \in Nat /\ minted[s] + 1 \in Number /\ minted[s] + 1 \in 0 .. MaxTokens
    BY <1>0, <1>1, <2>1, BoundsAssumption DEF TypeOK, Number
  <2>3. /\ minted'[s] = minted[s] + 1 /\ stored'[s] = minted[s] + 1
        /\ \A t \in SessionId \ {s} : minted'[t] = minted[t] /\ stored'[t] = stored[t]
    BY <1>0, <2>1, <2>2 DEF TypeOK
  <2>4. exchanged' \in [SessionId -> [Number -> Nat]]
    BY <1>0, <1>1, <2>1, <2>2 DEF TypeOK
  <2>5. minted' \in [SessionId -> 0 .. MaxTokens] /\ stored' \in [SessionId -> 0 .. MaxTokens]
    BY <1>0, <2>1, <2>2 DEF TypeOK
  <2>6. TypeOK'
    BY <1>0, <1>1, <1>2, <2>1, <2>4, <2>5 DEF TypeOK
  <2>7. Requests'
    BY <1>0, <1>2, <2>1 DEF Requests
  <2>8. \A t \in SessionId, q \in Request :
          Rotating(q, t)' => q # r /\ Rotating(q, t) /\ rt'[q] = rt[q]
    BY <1>2 DEF Rotating
  <2>9. Rotating(r, s)
    BY <1>1 DEF Rotating
  <2>10. ASSUME row[s] = "valid", ~Replayed(s)
         PROVE  /\ \A n \in Number : n < minted[s] + 1 => presented[s][n] # 0
                /\ \A q \in Request : ~Rotating(q, s)'
    <3>1. /\ minted[s] \in Number /\ \A n \in Number : n < minted[s] => presented[s][n] # 0
          /\ \A q \in Request : Rotating(q, s) =>
               /\ presented[s][minted[s]] # 0
               /\ \A p \in Request : Rotating(p, s) => p = q
      BY <1>0, <2>2, <2>10 DEF Chain
    <3>2. \A n \in Number : n < minted[s] + 1 => n < minted[s] \/ n = minted[s]
      BY <2>2 DEF Number
    <3>3. presented[s][minted[s]] # 0 /\ \A q \in Request : Rotating(q, s) => q = r
      BY <2>9, <3>1
    <3>4. \A q \in Request : ~Rotating(q, s)'
      BY <2>2, <2>8, <3>3
    <3> QED
      BY <3>1, <3>2, <3>3, <3>4
  <2>11. UNCHANGED <<row, presented>>
    BY <1>1, <2>1
  <2>12. \A t \in SessionId \ {s} : row'[t] = "valid" /\ ~Replayed(t)' =>
           /\ stored'[t] = minted'[t] /\ minted'[t] \in Number
           /\ \A n \in Number : n < minted'[t] => presented'[t][n] # 0
           /\ \A q \in Request : Rotating(q, t)' =>
                /\ rt'[q] = minted'[t] /\ presented'[t][minted'[t]] # 0
                /\ \A p \in Request : Rotating(p, t)' => p = q
    BY <1>0, <2>3, <2>8, <2>11 DEF Chain, Replayed
  <2>13. row'[s] = "valid" /\ ~Replayed(s)' =>
           /\ stored'[s] = minted'[s] /\ minted'[s] \in Number
           /\ \A n \in Number : n < minted'[s] => presented'[s][n] # 0
           /\ \A q \in Request : ~Rotating(q, s)'
    <3>1. Replayed(s)' <=> Replayed(s)
      BY <2>11 DEF Replayed
    <3> QED
      BY <2>2, <2>3, <2>10, <2>11, <3>1
  <2>14. Chain'
    BY <2>12, <2>13 DEF Chain
  <2> QED
    BY <2>6, <2>7, <2>14 DEF Inductive
<1> QED
  BY <1>3, <1>4

\* The cleanup, the passing of time, and the failure of a request.
LEMMA OtherInductive ==
  ASSUME Inductive,
         \/ Cleanup \/ \E s \in SessionId : Expire(s)
         \/ \E r \in Request : Abort(r)
  PROVE  Inductive'
<1>0. TypeOK /\ Requests /\ Chain
  BY DEF Inductive
<1>1. CASE Cleanup
  <2>1. /\ row' = [s \in SessionId |-> IF Stale(s) THEN "deleted" ELSE row[s]]
        /\ UNCHANGED <<owner, stored, since, minted, expired, password, histVars, reqVars>>
    BY <1>1 DEF Cleanup
  <2>2. /\ row' \in [SessionId -> {"none", "valid", "revoked", "deleted"}]
        /\ \A s \in SessionId : row'[s] = "valid" => row[s] = "valid"
        /\ \A s \in SessionId : row[s] # "none" => row'[s] # "none"
    BY <1>0, <2>1 DEF TypeOK
  <2>3. TypeOK' /\ Requests'
    BY <1>0, <2>1, <2>2 DEF TypeOK, Requests, histVars, reqVars
  <2>4. Chain'
    BY <1>0, <2>1, <2>2, ChainKept DEF histVars, reqVars
  <2> QED
    BY <2>3, <2>4 DEF Inductive
<1>2. ASSUME NEW s \in SessionId, Expire(s)
      PROVE  Inductive'
  <2>1. /\ expired[s] < minted[s] /\ expired' = [expired EXCEPT ![s] = @ + 1]
        /\ UNCHANGED <<rowVars, minted, password, histVars, reqVars>>
    BY <1>2 DEF Expire
  <2>2. expired[s] + 1 \in 0 .. MaxTokens
    BY <1>0, <2>1, BoundsAssumption DEF TypeOK
  <2>3. TypeOK' /\ Requests'
    BY <1>0, <2>1, <2>2 DEF TypeOK, Requests, rowVars, histVars, reqVars
  <2>4. Chain'
    BY <1>0, <2>1, ChainKept DEF rowVars, histVars, reqVars
  <2> QED
    BY <2>3, <2>4 DEF Inductive
<1>3. ASSUME NEW r \in Request, Abort(r)
      PROVE  Inductive'
  <2>1. End(r) /\ UNCHANGED <<rowVars, minted, expired, password, histVars>>
    BY <1>3 DEF Abort
  <2>2. /\ pc' \in [Request -> Pc] /\ ru' \in [Request -> User \cup {NoUser}]
        /\ rs' \in [Request -> SessionId \cup {NoSession}]
        /\ rt' \in [Request -> 0 .. MaxTokens] /\ rv' \in [Request -> 0 .. MaxResets]
        /\ pc'[r] = "idle"
        /\ \A q \in Request \ {r} :
             pc'[q] = pc[q] /\ ru'[q] = ru[q] /\ rs'[q] = rs[q] /\ rt'[q] = rt[q]
    BY <1>0, <2>1, EndType
  <2>3. TypeOK' /\ Requests'
    BY <1>0, <2>1, <2>2 DEF TypeOK, Requests, rowVars, histVars
  <2>4. Chain'
    BY <1>0, <2>1, <2>2, ChainKept DEF rowVars, histVars
  <2> QED
    BY <2>3, <2>4 DEF Inductive
<1> QED
  BY <1>1, <1>2, <1>3

\* Every step keeps the inductive invariant.
LEMMA NextInductive == Inductive /\ [Next]_vars => Inductive'
<1>1. SUFFICES ASSUME Inductive, [Next]_vars
               PROVE  Inductive'
  OBVIOUS
<1>2. CASE RequestStep
  <2>1. ASSUME NEW r \in Request, NEW u \in User, LoginVerify(r, u) \/ ResetCheck(r, u)
        PROVE  Inductive'
    BY <1>1, <2>1, LookUpInductive
  <2>2. ASSUME NEW r \in Request, NEW s \in SessionId, RequireAuth(r, s)
        PROVE  Inductive'
    BY <1>1, <2>2, LookUpInductive
  <2>3. ASSUME NEW r \in Request, NEW s \in SessionId, NEW n \in Number,
               RefreshRead(r, s, n) \/ RefreshExpired(r, s, n) \/ Logout(r, s, n)
        PROVE  Inductive'
    BY <1>1, <2>3, RefreshReadInductive, RefreshExpiredInductive, RevokeInductive
  <2>4. ASSUME NEW r \in Request,
               LoginCreate(r) \/ RefreshRevoke(r) \/ RefreshRotate(r)
               \/ LogoutAll(r) \/ ResetCommit(r) \/ Abort(r)
        PROVE  Inductive'
    BY <1>1, <2>4, LoginCreateInductive, RevokeInductive, RotateInductive, OtherInductive
  <2> QED
    BY <1>2, <2>1, <2>2, <2>3, <2>4 DEF RequestStep
<1>3. CASE Cleanup \/ \E s \in SessionId : Expire(s)
  BY <1>1, <1>3, OtherInductive
<1>4. CASE UNCHANGED vars
  BY <1>1, <1>4 DEF Inductive, TypeOK, Requests, Chain, Rotating, Replayed,
                    vars, rowVars, histVars, reqVars
<1> QED
  BY <1>1, <1>2, <1>3, <1>4 DEF Next

-----------------------------------------------------------------------------
(* The theorems                                                              *)

\* In every reachable state the inductive invariant holds.
THEOREM InductiveInvariant == Spec => []Inductive
  BY InitInductive, NextInductive, PTL DEF Spec

\* The variables of sessions and requests keep their types: no token number, password
\* version or count of presentations runs out of its bound.
THEOREM TypeCorrect == Spec => []TypeOK
<1>1. Inductive => TypeOK
  BY DEF Inductive
<1> QED
  BY <1>1, InductiveInvariant, PTL

\* A step other than a login, a reset and the cleanup either leaves the rows as they
\* are or revokes some of them; no step but a reset changes a password.
LEMMA RowSteps ==
  ASSUME Next
  PROVE  \/ UNCHANGED <<row, password>>
         \/ (\E S \in SUBSET SessionId : Revoke(S)) /\ UNCHANGED password
         \/ \E r \in Request : LoginCreate(r) \/ ResetCommit(r)
         \/ Cleanup
<1>1. CASE RequestStep
  BY <1>1 DEF RequestStep, LoginVerify, ResetCheck, RequireAuth, RefreshRead, RefreshExpired,
              Logout, RefreshRevoke, RefreshRotate, RotateRow, LogoutAll, Abort, SessionsOf,
              rowVars
<1>2. CASE \E s \in SessionId : Expire(s)
  BY <1>2 DEF Expire, rowVars
<1> QED
  BY <1>1, <1>2 DEF Next

\* The action property RevokedForGood of every behaviour: no rotation, login or cleanup
\* makes a revoked session valid again, and a reset leaves none of the user's valid.
THEOREM NeverRevived == Spec => RevokedForGood
<1> DEFINE Kept(s) ==
      /\ row[s] = "revoked" => row'[s] \in {"revoked", "deleted"}
      /\ row[s] = "deleted" => row'[s] = "deleted"
      /\ owner[s] \in User /\ password'[owner[s]] # password[owner[s]] => row'[s] # "valid"
<1>1. Inductive /\ [Next]_vars => [\A s \in SessionId : Kept(s)]_vars
  <2> SUFFICES ASSUME TypeOK, Requests, Next, NEW s \in SessionId
               PROVE  Kept(s)
    BY DEF Inductive
  <2>1. CASE UNCHANGED <<row, password>>
    BY <2>1
  <2>2. CASE (\E S \in SUBSET SessionId : Revoke(S)) /\ UNCHANGED password
    <3>1. PICK S \in SUBSET SessionId : Revoke(S)
      BY <2>2
    <3> QED
      BY <2>2, <3>1, RevokeFacts
  <2>3. ASSUME NEW r \in Request, LoginCreate(r)
        PROVE  Kept(s)
    <3>1. PICK t \in SessionId : row[t] = "none" /\ row' = [row EXCEPT ![t] = "valid"]
      BY <2>3 DEF LoginCreate
    <3>2. UNCHANGED password
      BY <2>3 DEF LoginCreate
    <3> QED
      BY <3>1, <3>2 DEF TypeOK
  <2>4. ASSUME NEW r \in Request, ResetCommit(r)
        PROVE  Kept(s)
    <3>1. /\ Revoke(SessionsOf(ru[r])) /\ SessionsOf(ru[r]) \in SUBSET SessionId
          /\ password' = [password EXCEPT ![ru[r]] = @ + 1]
      BY <2>4 DEF ResetCommit, SessionsOf
    <3>2. /\ row'[s] = row[s] \/ (row[s] = "valid" /\ row'[s] = "revoked")
          /\ row'[s] = "valid" => s \notin SessionsOf(ru[r])
      BY <3>1, RevokeFacts
    <3>3. owner[s] \in User /\ password'[owner[s]] # password[owner[s]] => owner[s] = ru[r]
      BY <3>1 DEF TypeOK
    <3> QED
      BY <3>2, <3>3 DEF SessionsOf
  <2>5. CASE Cleanup
    <3>1. row'[s] = IF Stale(s) THEN "deleted" ELSE row[s]
      BY <2>5 DEF Cleanup
    <3>2. UNCHANGED password
      BY <2>5 DEF Cleanup
    <3>3. row[s] = "revoked" => Stale(s)
      BY DEF Stale
    <3> QED
      BY <3>1, <3>2, <3>3
  <2> QED
    BY <2>1, <2>2, <2>3, <2>4, <2>5, RowSteps
<1> QED
  BY <1>1, InductiveInvariant, PTL DEF Spec, RevokedForGood

\* Only the reading of a refresh token takes a request into the revocation for reuse.
LEMMA ReuseSteps ==
  ASSUME TypeOK, Next, NEW r \in Request, pc[r] # "revoke", pc'[r] = "revoke"
  PROVE  \E q \in Request, s \in SessionId, n \in Number : RefreshRead(q, s, n)
<1>1. \A q \in Request, step \in {"open", "reset", "logoutAll"} :
        \A u, s, n, v : ~Begin(q, step, u, s, n, v)
  BY DEF Begin, TypeOK
<1>2. \A q \in Request : ~End(q)
  BY DEF End, TypeOK
<1>3. ~UNCHANGED reqVars
  BY DEF reqVars
<1>4. RequestStep
  BY <1>3 DEF Next, Cleanup, Expire
<1>5. /\ \A q \in Request, u \in User : ~LoginVerify(q, u) /\ ~ResetCheck(q, u)
      /\ \A q \in Request, s \in SessionId : ~RequireAuth(q, s)
  BY <1>1 DEF LoginVerify, ResetCheck, RequireAuth
<1>6. \A q \in Request : ~( \/ LoginCreate(q) \/ RefreshRevoke(q) \/ RefreshRotate(q)
                            \/ LogoutAll(q) \/ ResetCommit(q) \/ Abort(q))
  BY <1>2 DEF LoginCreate, RefreshRevoke, RefreshRotate, LogoutAll, ResetCommit, Abort
<1>7. \A q \in Request, s \in SessionId, n \in Number :
        ~RefreshExpired(q, s, n) /\ ~Logout(q, s, n)
  BY <1>3 DEF RefreshExpired, Logout
<1> QED
  BY <1>4, <1>5, <1>6, <1>7 DEF RequestStep

\* The action property ReuseOnlyAfterReplay of every behaviour: reuse is reported only
\* for a session one of whose tokens was really sent twice.
THEOREM ReuseIsReal == Spec => ReuseOnlyAfterReplay
<1> DEFINE Real(r) == pc[r] # "revoke" /\ pc'[r] = "revoke"
                        => \E n \in Number : presented'[rs'[r]][n] = 2
<1>1. Inductive /\ [Next]_vars => [\A r \in Request : Real(r)]_vars
  <2> SUFFICES ASSUME Inductive, Next, NEW r \in Request, pc[r] # "revoke", pc'[r] = "revoke"
               PROVE  \E n \in Number : presented'[rs'[r]][n] = 2
    OBVIOUS
  <2>1. TypeOK
    BY DEF Inductive
  <2>2. PICK q \in Request, s \in SessionId, n \in Number : RefreshRead(q, s, n)
    BY <2>1, ReuseSteps
  <2>3. rs'[r] = s /\ Replayed(s)'
    BY <2>2, RefreshReadInductive
  <2> QED
    BY <2>3 DEF Replayed
<1> QED
  BY <1>1, InductiveInvariant, PTL DEF Spec, ReuseOnlyAfterReplay
=============================================================================
