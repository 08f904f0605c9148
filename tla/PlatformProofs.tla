--------------------------- MODULE PlatformProofs ---------------------------
(***************************************************************************)
(* Proofs about the components of MCPlatform, each for every value of its  *)
(* constants: the server process, organizations and roles, tokens,         *)
(* QuickBooks connections, the lockout, and the types of all of them.      *)
(***************************************************************************)
EXTENDS MCPlatform, FiniteSetTheorems, TLAPS

(***************************************************************************)
(*                           The server process                            *)
(***************************************************************************)

\* A fatal error settles the exit code; Redis is not looked at before the server
\* listens; while it serves undisturbed, the health tells the truth.
ProcConsistent ==
    /\ fatal => exitCode = 1 /\ (draining \/ phase = "exited")
    /\ phase \in {"closing", "disposing", "disconnecting"} => draining
    /\ phase \in {"config", "connect"} =>
        ~draining /\ probe = "none" /\ redisHealth = "unknown" /\ redisLink = "none"
    /\ phase = "serving" => ~draining
    /\ ~draining /\ redisHealth = "ready" /\ phase # "exited" => redisLink = "up"

ProcInductive == ProcTypeOK /\ ProcConsistent

\* The process starts with nothing connected and nothing asked of it.
LEMMA ProcInitInductive == ProcInit => ProcInductive
  BY DEF ProcInit, ProcStart, ProcInductive, ProcTypeOK, ProcConsistent

\* A step of start, of Redis, of a probe or of the shutdown keeps the invariant.
LEMMA ProcNextInductive == ProcInductive /\ [ProcNext]_procVars => ProcInductive'
<1> SUFFICES ASSUME ProcInductive, [ProcNext]_procVars PROVE ProcInductive'
  OBVIOUS
<1> USE DEF ProcInductive, ProcTypeOK, ProcConsistent
<1>1. CASE GetConfig
  BY <1>1 DEF GetConfig, Exit
<1>2. CASE RegisterSecurity
  <2>1. CASE Exit(1)
    BY <1>2, <2>1 DEF RegisterSecurity, Exit
  <2>2. CASE phase' = "serving" /\ SharedStore
    BY <1>2, <2>2 DEF RegisterSecurity, Exit
  <2>3. CASE phase' = "serving" /\ ~SharedStore
    BY <1>2, <2>3 DEF RegisterSecurity, Exit
  <2> QED BY <1>2, <2>1, <2>2, <2>3 DEF RegisterSecurity
<1>3. CASE RedisEvents
  BY <1>3 DEF RedisEvents, HealthAfterLoss
<1>4. CASE Ready
  BY <1>4 DEF Ready, Listening
<1>5. CASE ReadyAnswer
  BY <1>5 DEF ReadyAnswer, Listening
<1>6. CASE OnSignal
  BY <1>6 DEF OnSignal, Exit, InitiateShutdown
<1>7. CASE OnFatal
  BY <1>7 DEF OnFatal, Exit, InitiateShutdown
<1>8. CASE ServerClosed
  BY <1>8 DEF ServerClosed
<1>9. CASE DisposeSecurity
  BY <1>9 DEF DisposeSecurity
<1>10. CASE Disconnected
  BY <1>10 DEF Disconnected, Exit
<1>11. CASE ForceExit
  BY <1>11 DEF ForceExit, Exit
<1>12. CASE StartAgain
  BY <1>12 DEF StartAgain
<1>13. CASE UNCHANGED procVars
  BY <1>13 DEF procVars
<1> QED
  BY <1>1, <1>2, <1>3, <1>4, <1>5, <1>6, <1>7, <1>8, <1>9, <1>10, <1>11, <1>12, <1>13 DEF ProcNext

\* What the code of the process relies on: see ProcConsistent.
THEOREM ProcInductiveInvariant == ProcSpec => []ProcInductive
  BY ProcInitInductive, ProcNextInductive, PTL DEF ProcSpec

\* Exit code 0 is the last step of a shutdown that began with a signal and met no
\* error: every other way out, and a fatal error at any time, gives 1.
THEOREM ExitIsTold == ProcSpec => ExitTells
<1>1. ProcInductive /\ [ProcNext]_procVars =>
        [phase # "exited" /\ phase' = "exited" /\ exitCode' = 0 =>
            phase = "disconnecting" /\ ~fatal']_procVars
  <2> SUFFICES ASSUME ProcInductive, ProcNext,
                      phase # "exited", phase' = "exited", exitCode' = 0
               PROVE  phase = "disconnecting" /\ ~fatal'
    BY DEF procVars
  <2> USE DEF ProcInductive, ProcTypeOK, ProcConsistent
  <2>1. CASE GetConfig \/ RegisterSecurity
    BY <2>1 DEF GetConfig, RegisterSecurity, Exit
  <2>2. CASE OnSignal \/ OnFatal
    BY <2>2 DEF OnSignal, OnFatal, Exit, InitiateShutdown
  <2>3. CASE ServerClosed \/ DisposeSecurity \/ Disconnected \/ ForceExit
    BY <2>3 DEF ServerClosed, DisposeSecurity, Disconnected, ForceExit, Exit
  <2>4. CASE RedisEvents \/ Ready \/ ReadyAnswer \/ StartAgain
    BY <2>4 DEF RedisEvents, Ready, ReadyAnswer, StartAgain
  <2> QED BY <2>1, <2>2, <2>3, <2>4 DEF ProcNext
<1> QED BY <1>1, ProcInductiveInvariant, PTL DEF ProcSpec, ExitTells

\* A probe is answered ready only while Redis is connected, where the limits are
\* kept there, and not by a draining server, but for the probe it was answering.
THEOREM ReadyIsTrue == ProcSpec => ReadyTells
<1>1. ProcInductive /\ [ProcNext]_procVars =>
        [probe' = "ready" /\ probe # "ready" =>
            IF draining THEN probe = "database" ELSE SharedStore => redisLink = "up"]_procVars
  <2> SUFFICES ASSUME ProcInductive, ProcNext, probe' = "ready", probe # "ready"
               PROVE  IF draining THEN probe = "database" ELSE SharedStore => redisLink = "up"
    BY DEF procVars
  <2> USE DEF ProcInductive, ProcTypeOK, ProcConsistent
  <2>1. CASE ReadyAnswer
    BY <2>1 DEF ReadyAnswer, Listening
  <2>2. CASE Ready
    BY <2>2 DEF Ready
  <2>3. CASE GetConfig \/ RegisterSecurity \/ RedisEvents
    BY <2>3 DEF GetConfig, RegisterSecurity, RedisEvents, Exit
  <2>4. CASE OnSignal \/ OnFatal
    BY <2>4 DEF OnSignal, OnFatal, Exit, InitiateShutdown
  <2>5. CASE ServerClosed \/ DisposeSecurity \/ Disconnected \/ ForceExit \/ StartAgain
    BY <2>5 DEF ServerClosed, DisposeSecurity, Disconnected, ForceExit, StartAgain, Exit
  <2> QED BY <2>1, <2>2, <2>3, <2>4, <2>5 DEF ProcNext
<1> QED BY <1>1, ProcInductiveInvariant, PTL DEF ProcSpec, ReadyTells

(***************************************************************************)
(*                    Organizations, roles, permissions                    *)
(***************************************************************************)

\* Nothing is granted to a role beyond the table of system roles.
GrantsOfRoles ==
    \A g \in grants : g[2] \in SystemRole /\ g[3] \in Permission /\ g[3] \in RolePermissions[g[2]]

\* A founder is a member, owns by label and by role, and its role has every permission.
FoundersOwn ==
    \A f \in founder :
        /\ <<f[1], f[2], "OWNER">> \in label
        /\ <<f[1], f[2], "OWNER">> \in held
        /\ \A p \in Permission : <<f[1], "OWNER", p>> \in grants

\* Who owns by role owns by label.
OwnersLabelled == \A h \in held : h[3] = "OWNER" => <<h[1], h[2], "OWNER">> \in label

OrgInductive == OrgTypeOK /\ GrantsOfRoles /\ FoundersOwn /\ OwnersLabelled

\* A grant hangs on a role of its organization.
LEMMA GrantsTyped == OrgInductive => GrantsKnown
  BY DEF OrgInductive, OrgTypeOK

\* The roles by name.
LEMMA SystemRoles ==
    /\ SystemRole = {"OWNER", "ADMIN", "EMPLOYEE", "TECH"}
    /\ \A j \in 1 .. 4 : SystemRoleKeys[j] \in SystemRole
    /\ SystemRoleKeys[1] = "OWNER"
    /\ RolePermissions["OWNER"] = Permission
<1>1. SystemRole = {"OWNER", "ADMIN", "EMPLOYEE", "TECH"}
  BY DEF SystemRole, RolePermissions
<1>2. /\ SystemRoleKeys[1] = "OWNER" /\ SystemRoleKeys[2] = "ADMIN"
      /\ SystemRoleKeys[3] = "EMPLOYEE" /\ SystemRoleKeys[4] = "TECH"
  BY DEF SystemRoleKeys
<1>3. ASSUME NEW j \in 1 .. 4 PROVE SystemRoleKeys[j] \in SystemRole
  <2>1. j = 1 \/ j = 2 \/ j = 3 \/ j = 4
    OBVIOUS
  <2> QED BY <1>1, <1>2, <2>1
<1>4. RolePermissions["OWNER"] = Permission
  BY DEF RolePermissions
<1> QED BY <1>1, <1>2, <1>3, <1>4

\* ensureSystemRoles only adds, and only to the organization it is called for: roles
\* of the table, and grants of them that the table gives.
LEMMA EnsuredRoles ==
    ASSUME NEW o, NEW n \in 0 .. 4, NEW d \in 0 .. 4, d <= n, EnsureSystemRoles(o, n, d)
    PROVE  /\ catalog' = Permission
           /\ roles \subseteq roles' /\ grants \subseteq grants'
           /\ \A x \in roles' : x \in roles \/ x \in {o} \X SystemRole
           /\ \A g \in grants' : g \in grants \/
                 /\ <<g[1], g[2]>> \in roles' /\ g[2] \in SystemRole
                 /\ g[3] \in Permission /\ g[3] \in RolePermissions[g[2]]
           /\ d = 4 => \A p \in Permission : <<o, "OWNER", p>> \in grants'
<1> DEFINE K(i) == {SystemRoleKeys[j] : j \in 1 .. i}
<1>1. /\ catalog' = Permission
      /\ roles' = roles \cup ({o} \X K(n))
      /\ grants' = grants \cup {g \in {o} \X K(d) \X Permission : g[3] \in RolePermissions[g[2]]}
  BY DEF EnsureSystemRoles, KnownPermissions
<1>2. K(d) \subseteq K(n) /\ K(n) \subseteq SystemRole
  <2>1. ASSUME NEW j \in 1 .. d PROVE j \in 1 .. n
    OBVIOUS
  <2>2. ASSUME NEW j \in 1 .. n PROVE SystemRoleKeys[j] \in SystemRole
    BY SystemRoles
  <2> QED BY <2>1, <2>2
<1>3. d = 4 => "OWNER" \in K(d)
  BY SystemRoles
<1> HIDE DEF K
<1>4. \A x \in roles' : x \in roles \/ x \in {o} \X SystemRole
  BY <1>1, <1>2
<1>5. ASSUME NEW g \in grants', g \notin grants
      PROVE  /\ <<g[1], g[2]>> \in roles' /\ g[2] \in SystemRole
             /\ g[3] \in Permission /\ g[3] \in RolePermissions[g[2]]
  <2>1. g \in {o} \X K(d) \X Permission /\ g[3] \in RolePermissions[g[2]]
    BY <1>1, <1>5
  <2>2. g[1] = o /\ g[2] \in K(d) /\ g[3] \in Permission
    BY <2>1
  <2>3. <<g[1], g[2]>> \in {o} \X K(n)
    BY <2>2, <1>2
  <2> QED BY <2>1, <2>2, <2>3, <1>1, <1>2
<1>6. ASSUME d = 4, NEW p \in Permission PROVE <<o, "OWNER", p>> \in grants'
  <2>1. <<o, "OWNER", p>> \in {o} \X K(d) \X Permission
    BY <1>3, <1>6
  <2>2. p \in RolePermissions["OWNER"]
    BY SystemRoles
  <2> QED BY <2>1, <2>2, <1>1
<1> QED BY <1>1, <1>4, <1>5, <1>6

\* A request that is not there is one of some user.
LEMMA IdleTyped == Idle \in [user : User, base : Base, attempt : 0 .. 3]
<1>1. (CHOOSE u \in User : TRUE) \in User
  BY OrganizationsAssumption
<1> QED BY <1>1, OrganizationsAssumption DEF Idle

\* On an empty database there is nothing to agree on.
LEMMA OrgInitInductive == OrgInit => OrgInductive
<1> SUFFICES ASSUME OrgInit PROVE OrgInductive
  OBVIOUS
<1>1. ocr \in [OrgRequest -> [user : User, base : Base, attempt : 0 .. 3]]
  BY IdleTyped DEF OrgInit
<1> QED BY <1>1 DEF OrgInit, OrgInductive, OrgTypeOK, GrantsKnown, GrantsOfRoles, FoundersOwn, OwnersLabelled

\* Requests that come, are tried again or fail keep the invariant: they carry a user, a
\* base and at most the third attempt.
LEMMA RequestKeepsOrg ==
    ASSUME OrgInductive, NEW q \in OrgRequest,
           UNCHANGED <<orgs, founder, label, rbacVars, userRole, todo>>,
           \/ \E u \in User, b \in Base :
                ocr' = [ocr EXCEPT ![q] = [user |-> u, base |-> b, attempt |-> 1]]
           \/ ocr' = [ocr EXCEPT ![q] = Idle]
           \/ ocr[q].attempt \in 1 .. 2 /\ ocr' = [ocr EXCEPT ![q].attempt = @ + 1]
    PROVE  OrgInductive'
<1> DEFINE Req == [user : User, base : Base, attempt : 0 .. 3]
<1>1. ocr \in [OrgRequest -> Req] /\ ocr[q] \in Req
  BY DEF OrgInductive, OrgTypeOK
<1>2. ocr' \in [OrgRequest -> Req]
  <2>1. ASSUME NEW u \in User, NEW b \in Base,
               ocr' = [ocr EXCEPT ![q] = [user |-> u, base |-> b, attempt |-> 1]]
        PROVE  ocr' \in [OrgRequest -> Req]
    BY <2>1, <1>1
  <2>2. CASE ocr' = [ocr EXCEPT ![q] = Idle]
    BY <2>2, <1>1, IdleTyped
  <2>3. CASE ocr[q].attempt \in 1 .. 2 /\ ocr' = [ocr EXCEPT ![q].attempt = @ + 1]
    BY <2>3, <1>1
  <2> QED BY <2>1, <2>2, <2>3
<1>3. OrgTypeOK'
  BY <1>2 DEF OrgInductive, OrgTypeOK, GrantsKnown, rbacVars
<1> QED BY <1>3 DEF OrgInductive, GrantsOfRoles, FoundersOwn, OwnersLabelled, rbacVars

\* Roles that are ensured for an organization, and held by those who own it by label,
\* keep the invariant, however far ensuring has come.
LEMMA SeedingKeepsOrg ==
    ASSUME OrgInductive, NEW o \in orgs, NEW n \in 0 .. 4, NEW d \in 0 .. 4, d <= n,
           EnsureSystemRoles(o, n, d), todo' \subseteq orgs,
           held \subseteq held',
           \A h \in held' : h \in held \/ \E u \in User :
                h = <<o, u, "OWNER">> /\ <<o, u, "OWNER">> \in label,
           UNCHANGED <<orgs, founder, label, userRole, ocr>>
    PROVE  OrgInductive'
<1>1. /\ catalog' = Permission
      /\ roles \subseteq roles' /\ grants \subseteq grants'
      /\ \A x \in roles' : x \in roles \/ x \in {o} \X SystemRole
      /\ \A g \in grants' : g \in grants \/
            /\ <<g[1], g[2]>> \in roles' /\ g[2] \in SystemRole
            /\ g[3] \in Permission /\ g[3] \in RolePermissions[g[2]]
  BY EnsuredRoles
<1>2. roles' \subseteq orgs \X SystemRole
  <2>1. roles \subseteq orgs \X SystemRole
    BY DEF OrgInductive, OrgTypeOK
  <2> QED BY <2>1, <1>1
<1>3. \A g \in grants' : <<g[1], g[2]>> \in roles' /\ g[3] \in catalog'
  <2>1. \A g \in grants : <<g[1], g[2]>> \in roles
    BY GrantsTyped DEF GrantsKnown
  <2>2. \A g \in grants : g[3] \in Permission
    BY DEF OrgInductive, GrantsOfRoles
  <2> QED BY <2>1, <2>2, <1>1
<1>4. held' \subseteq {<<l[1], l[2], k>> : l \in label, k \in SystemRole}
  <2>1. ASSUME NEW u \in User, <<o, u, "OWNER">> \in label
        PROVE  <<o, u, "OWNER">> \in {<<l[1], l[2], k>> : l \in label, k \in SystemRole}
    <3>1. <<o, u, "OWNER">>[1] = o /\ <<o, u, "OWNER">>[2] = u /\ "OWNER" \in SystemRole
      BY SystemRoles
    <3> QED BY <2>1, <3>1
  <2>2. held \subseteq {<<l[1], l[2], k>> : l \in label, k \in SystemRole}
    BY DEF OrgInductive, OrgTypeOK
  <2>3. \A h \in held' : h \in {<<l[1], l[2], k>> : l \in label, k \in SystemRole}
    <3>1. ASSUME NEW h \in held' PROVE h \in {<<l[1], l[2], k>> : l \in label, k \in SystemRole}
      <4>1. CASE h \in held
        BY <4>1, <2>2
      <4>2. CASE \E u \in User : h = <<o, u, "OWNER">> /\ <<o, u, "OWNER">> \in label
        <5>1. PICK u \in User : h = <<o, u, "OWNER">> /\ <<o, u, "OWNER">> \in label
          BY <4>2
        <5> QED BY <5>1, <2>1
      <4>3. h \in held \/ \E u \in User : h = <<o, u, "OWNER">> /\ <<o, u, "OWNER">> \in label
        OBVIOUS
      <4> QED BY <4>1, <4>2, <4>3
    <3> QED BY <3>1
  <2> QED BY <2>3
<1>5. OrgTypeOK'
  <2>1. GrantsKnown'
    BY <1>3 DEF GrantsKnown
  <2> QED BY <1>1, <1>2, <1>4, <2>1 DEF OrgInductive, OrgTypeOK
<1>6. GrantsOfRoles'
  BY <1>1 DEF OrgInductive, GrantsOfRoles
<1>7. FoundersOwn'
  BY <1>1 DEF OrgInductive, FoundersOwn
<1>8. OwnersLabelled'
  <2>1. ASSUME NEW u \in User, NEW h, h = <<o, u, "OWNER">>, <<o, u, "OWNER">> \in label
        PROVE  <<h[1], h[2], "OWNER">> \in label
    BY <2>1
  <2> QED BY <2>1 DEF OrgInductive, OwnersLabelled
<1> QED BY <1>5, <1>6, <1>7, <1>8 DEF OrgInductive

\* The transaction of createOrganization keeps the invariant: the founder gets label,
\* role and all permissions at once, in an organization that had no member before.
LEMMA CreationKeepsOrg ==
    ASSUME OrgInductive, NEW q \in OrgRequest, CreateOrganization(q)
    PROVE  OrgInductive'
<1> DEFINE Req == [user : User, base : Base, attempt : 0 .. 3]
<1>1. PICK n \in SuffixOf(q) :
        LET o == <<ocr[q].base, n>>
            u == ocr[q].user
        IN IF o \in orgs
             THEN /\ ocr' = IF ocr[q].attempt = 3 THEN [ocr EXCEPT ![q] = Idle]
                            ELSE [ocr EXCEPT ![q].attempt = @ + 1]
                  /\ UNCHANGED <<orgs, founder, label, rbacVars>>
             ELSE /\ Cardinality(orgs) < MaxOrgs
                  /\ orgs' = orgs \cup {o}
                  /\ founder' = founder \cup {<<o, u>>}
                  /\ label' = label \cup {<<o, u, "OWNER">>}
                  /\ EnsureSystemRoles(o, 4, 4)
                  /\ AssignOwners(o, {u})
                  /\ ocr' = [ocr EXCEPT ![q] = Idle]
  BY DEF CreateOrganization
<1>2. PICK o : o = <<ocr[q].base, n>>
  OBVIOUS
<1>3. PICK u : u = ocr[q].user
  OBVIOUS
<1>4. ocr[q].attempt # 0 /\ UNCHANGED <<userRole, todo>>
  BY DEF CreateOrganization
<1>5. ocr \in [OrgRequest -> Req] /\ ocr[q] \in Req
  BY DEF OrgInductive, OrgTypeOK
<1>6. o \in Slug /\ u \in User
  <2>1. n \in Suffix
    BY OrganizationsAssumption DEF SuffixOf
  <2>2. ocr[q].base \in Base /\ ocr[q].user \in User
    BY <1>5
  <2> QED BY <2>1, <2>2, <1>2, <1>3 DEF Slug
<1>7. CASE o \in orgs
  <2>1. /\ ocr' = IF ocr[q].attempt = 3 THEN [ocr EXCEPT ![q] = Idle]
                 ELSE [ocr EXCEPT ![q].attempt = @ + 1]
        /\ UNCHANGED <<orgs, founder, label, rbacVars>>
    BY <1>1, <1>2, <1>7
  <2>2. ocr[q].attempt = 3 \/ ocr[q].attempt \in 1 .. 2
    BY <1>4, <1>5
  <2>3. \/ ocr' = [ocr EXCEPT ![q] = Idle]
        \/ ocr[q].attempt \in 1 .. 2 /\ ocr' = [ocr EXCEPT ![q].attempt = @ + 1]
    <3>1. CASE ocr[q].attempt = 3
      BY <2>1, <3>1
    <3>2. CASE ocr[q].attempt \in 1 .. 2
      BY <2>1, <3>2
    <3> QED BY <2>2, <3>1, <3>2
  <2>4. UNCHANGED <<orgs, founder, label, rbacVars, userRole, todo>>
    BY <2>1, <1>4
  <2> QED BY <2>3, <2>4, RequestKeepsOrg
<1>8. CASE o \notin orgs
  <2>1. /\ orgs' = orgs \cup {o}
        /\ founder' = founder \cup {<<o, u>>}
        /\ label' = label \cup {<<o, u, "OWNER">>}
        /\ EnsureSystemRoles(o, 4, 4)
        /\ held' = held \cup {<<o, u, "OWNER">>}
        /\ ocr' = [ocr EXCEPT ![q] = Idle]
    <3>1. AssignOwners(o, {u}) => held' = held \cup {<<o, u, "OWNER">>}
      BY DEF AssignOwners
    <3> QED BY <1>1, <1>2, <1>3, <1>8, <3>1
  <2>2. /\ catalog' = Permission
        /\ roles \subseteq roles' /\ grants \subseteq grants'
        /\ \A x \in roles' : x \in roles \/ x \in {o} \X SystemRole
        /\ \A g \in grants' : g \in grants \/
              /\ <<g[1], g[2]>> \in roles' /\ g[2] \in SystemRole
              /\ g[3] \in Permission /\ g[3] \in RolePermissions[g[2]]
        /\ \A p \in Permission : <<o, "OWNER", p>> \in grants'
    BY <2>1, EnsuredRoles
  <2>3. ocr' \in [OrgRequest -> Req]
    BY <2>1, <1>5, IdleTyped
  <2>4. /\ orgs' \subseteq Slug /\ todo' \subseteq orgs'
        /\ founder' \subseteq orgs' \X User
        /\ label' \subseteq orgs' \X User \X {"OWNER", "MEMBER"}
    BY <2>1, <1>4, <1>6 DEF OrgInductive, OrgTypeOK
  <2>5. \A l, m \in label' : l[1] = m[1] /\ l[2] = m[2] => l = m
    <3>1. \A l \in label : l[1] \in orgs
      BY DEF OrgInductive, OrgTypeOK
    <3>2. \A l \in label : l[1] # o
      BY <3>1, <1>8
    <3>3. <<o, u, "OWNER">>[1] = o
      OBVIOUS
    <3>4. \A l, m \in label : l[1] = m[1] /\ l[2] = m[2] => l = m
      BY DEF OrgInductive, OrgTypeOK
    <3>5. SUFFICES ASSUME NEW l \in label', NEW m \in label', l[1] = m[1], l[2] = m[2]
                   PROVE  l = m
      OBVIOUS
    <3>6. \A x \in label' : x \in label \/ x = <<o, u, "OWNER">>
      BY <2>1
    <3> QED BY <3>2, <3>3, <3>4, <3>5, <3>6
  <2>6. held' \subseteq {<<l[1], l[2], k>> : l \in label', k \in SystemRole}
    <3>1. <<o, u, "OWNER">> \in {<<l[1], l[2], k>> : l \in label', k \in SystemRole}
      <4>1. <<o, u, "OWNER">>[1] = o /\ <<o, u, "OWNER">>[2] = u /\ "OWNER" \in SystemRole
        BY SystemRoles
      <4>2. <<o, u, "OWNER">> \in label'
        BY <2>1
      <4> QED BY <4>1, <4>2
    <3>2. held \subseteq {<<l[1], l[2], k>> : l \in label, k \in SystemRole}
      BY DEF OrgInductive, OrgTypeOK
    <3>3. label \subseteq label'
      BY <2>1
    <3> QED BY <3>1, <3>2, <3>3, <2>1
  <2>7. roles' \subseteq orgs' \X SystemRole
    <3>1. roles \subseteq orgs \X SystemRole
      BY DEF OrgInductive, OrgTypeOK
    <3> QED BY <3>1, <2>1, <2>2
  <2>8. \A g \in grants' : <<g[1], g[2]>> \in roles' /\ g[3] \in catalog'
    <3>1. \A g \in grants : <<g[1], g[2]>> \in roles
      BY GrantsTyped DEF GrantsKnown
    <3>2. \A g \in grants : g[3] \in Permission
      BY DEF OrgInductive, GrantsOfRoles
    <3> QED BY <3>1, <3>2, <2>2
  <2>9. OrgTypeOK'
    <3>1. catalog' \subseteq Permission /\ userRole' \in [User -> {"ADMIN", "USER"}]
      BY <2>2, <1>4 DEF OrgInductive, OrgTypeOK
    <3>2. GrantsKnown'
      BY <2>8 DEF GrantsKnown
    <3> QED BY <2>3, <2>4, <2>5, <2>6, <2>7, <3>1, <3>2 DEF OrgTypeOK
  <2>10. GrantsOfRoles'
    BY <2>2 DEF OrgInductive, GrantsOfRoles
  <2>11. FoundersOwn'
    <3>1. ASSUME NEW f \in founder'
          PROVE  /\ <<f[1], f[2], "OWNER">> \in label'
                 /\ <<f[1], f[2], "OWNER">> \in held'
                 /\ \A p \in Permission : <<f[1], "OWNER", p>> \in grants'
      <4>1. CASE f \in founder
        BY <4>1, <2>1, <2>2 DEF OrgInductive, FoundersOwn
      <4>2. CASE f = <<o, u>>
        BY <4>2, <2>1, <2>2
      <4> QED BY <4>1, <4>2, <2>1
    <3> QED BY <3>1 DEF FoundersOwn
  <2>12. OwnersLabelled'
    <3>1. ASSUME NEW h \in held', h[3] = "OWNER" PROVE <<h[1], h[2], "OWNER">> \in label'
      <4>1. CASE h \in held
        BY <4>1, <3>1, <2>1 DEF OrgInductive, OwnersLabelled
      <4>2. CASE h = <<o, u, "OWNER">>
        BY <4>2, <2>1
      <4> QED BY <4>1, <4>2, <2>1
    <3> QED BY <3>1 DEF OwnersLabelled
  <2> QED BY <2>9, <2>10, <2>11, <2>12 DEF OrgInductive
<1> QED BY <1>7, <1>8

\* The backfill of the legacy organization keeps the invariant: who becomes a member
\* was not one before.
LEMMA BackfillKeepsOrg ==
    ASSUME OrgInductive, BackfillOrg \/ BackfillMembers
    PROVE  OrgInductive'
<1> DEFINE New == {v \in User : \A l \in label : <<l[1], l[2]>> # <<LegacyOrg, v>>}
           Row(u) == <<LegacyOrg, u, IF userRole[u] = "ADMIN" THEN "OWNER" ELSE "MEMBER">>
<1>1. CASE BackfillOrg
  <2>1. LegacyOrg \in Slug
    BY OrganizationsAssumption DEF LegacyOrg, Slug
  <2>2. /\ orgs' = orgs \cup {LegacyOrg}
        /\ UNCHANGED <<founder, label, held, roles, grants, catalog, userRole, ocr, todo>>
    BY <1>1 DEF BackfillOrg, rbacVars
  <2>3. OrgTypeOK'
    <3>1. GrantsKnown'
      BY <2>2, GrantsTyped DEF GrantsKnown
    <3> QED BY <2>1, <2>2, <3>1 DEF OrgInductive, OrgTypeOK
  <2> QED BY <2>2, <2>3 DEF OrgInductive, GrantsOfRoles, FoundersOwn, OwnersLabelled
<1>2. CASE BackfillMembers
  <2>1. /\ LegacyOrg \in orgs
        /\ label' = label \cup {Row(u) : u \in New}
        /\ UNCHANGED <<orgs, founder, held, roles, grants, catalog, userRole, ocr, todo>>
    BY <1>2 DEF BackfillMembers, rbacVars
  <2>2. \A x \in label' : \/ x \in label
                          \/ x[1] = LegacyOrg /\ x[2] \in New /\ x = Row(x[2])
    BY <2>1
  <2>3. label' \subseteq orgs \X User \X {"OWNER", "MEMBER"}
    <3>1. ASSUME NEW u \in New PROVE Row(u) \in orgs \X User \X {"OWNER", "MEMBER"}
      BY <2>1
    <3>2. label \subseteq orgs \X User \X {"OWNER", "MEMBER"}
      BY DEF OrgInductive, OrgTypeOK
    <3> QED BY <2>1, <3>1, <3>2
  <2>4. ASSUME NEW l \in label', NEW m \in label', l[1] = m[1], l[2] = m[2] PROVE l = m
    <3>1. CASE l \in label /\ m \in label
      BY <2>4, <3>1 DEF OrgInductive, OrgTypeOK
    <3>2. ASSUME NEW x \in label, NEW y \in label', y \notin label
          PROVE  ~(x[1] = y[1] /\ x[2] = y[2])
      BY <2>2, <3>2
    <3>3. CASE l \notin label /\ m \notin label
      BY <2>2, <2>4, <3>3
    <3> QED BY <3>1, <3>2, <3>3, <2>4
  <2>5. held' \subseteq {<<l[1], l[2], k>> : l \in label', k \in SystemRole}
    <3>1. held \subseteq {<<l[1], l[2], k>> : l \in label, k \in SystemRole}
      BY DEF OrgInductive, OrgTypeOK
    <3>2. label \subseteq label'
      BY <2>1
    <3> QED BY <3>1, <3>2, <2>1
  <2>6. OrgTypeOK'
    <3>1. GrantsKnown'
      BY <2>1, GrantsTyped DEF GrantsKnown
    <3>2. /\ orgs' \subseteq Slug /\ todo' \subseteq orgs' /\ founder' \subseteq orgs' \X User
          /\ roles' \subseteq orgs' \X SystemRole /\ catalog' \subseteq Permission
          /\ userRole' \in [User -> {"ADMIN", "USER"}]
          /\ ocr' \in [OrgRequest -> [user : User, base : Base, attempt : 0 .. 3]]
      BY <2>1 DEF OrgInductive, OrgTypeOK
    <3>3. label' \subseteq orgs' \X User \X {"OWNER", "MEMBER"}
      BY <2>1, <2>3
    <3> QED BY <2>4, <2>5, <3>1, <3>2, <3>3 DEF OrgTypeOK
  <2> QED BY <2>1, <2>6 DEF OrgInductive, GrantsOfRoles, FoundersOwn, OwnersLabelled
<1> QED BY <1>1, <1>2

\* The seeding of roles keeps the invariant, also when it stops among the roles of one
\* organization: it grants to a role only after it has made it.
LEMMA SeedKeepsOrg ==
    ASSUME OrgInductive, SeedRbacStart \/ \E o \in orgs : SeedOrg(o) \/ SeedStops(o)
    PROVE  OrgInductive'
<1>1. CASE SeedRbacStart
  <2>1. /\ todo' = orgs /\ catalog' = Permission
        /\ UNCHANGED <<orgs, founder, label, held, roles, grants, userRole, ocr>>
    BY <1>1 DEF SeedRbacStart
  <2>2. OrgTypeOK'
    <3>1. GrantsKnown'
      BY <2>1, GrantsTyped DEF GrantsKnown, OrgInductive, GrantsOfRoles
    <3> QED BY <2>1, <3>1 DEF OrgInductive, OrgTypeOK
  <2> QED BY <2>1, <2>2 DEF OrgInductive, GrantsOfRoles, FoundersOwn, OwnersLabelled
<1>2. ASSUME NEW o \in orgs, SeedOrg(o) PROVE OrgInductive'
  <2>1. /\ EnsureSystemRoles(o, 4, 4)
        /\ held' = held \cup {<<o, u, "OWNER">> : u \in {v \in User : <<o, v, "OWNER">> \in label}}
        /\ todo' = todo \ {o}
        /\ UNCHANGED <<orgs, founder, label, userRole, ocr>>
    BY <1>2 DEF SeedOrg, AssignOwners
  <2>2. todo' \subseteq orgs
    BY <2>1 DEF OrgInductive, OrgTypeOK
  <2>3. \A h \in held' : h \in held \/ \E u \in User :
           h = <<o, u, "OWNER">> /\ <<o, u, "OWNER">> \in label
    BY <2>1
  <2>4. held \subseteq held'
    BY <2>1
  <2> QED BY <2>1, <2>2, <2>3, <2>4, SeedingKeepsOrg
<1>3. ASSUME NEW o \in orgs, SeedStops(o) PROVE OrgInductive'
  <2>1. PICK n \in 0 .. 4, d \in 0 .. 4 : d \in {n - 1, n} /\ EnsureSystemRoles(o, n, d)
    BY <1>3 DEF SeedStops
  <2>2. d <= n /\ todo' \subseteq orgs
    BY <2>1, <1>3 DEF SeedStops
  <2>3. UNCHANGED <<orgs, founder, label, held, userRole, ocr>>
    BY <1>3 DEF SeedStops
  <2> QED BY <2>1, <2>2, <2>3, SeedingKeepsOrg
<1> QED BY <1>1, <1>2, <1>3

\* Every step keeps the invariant; the global role of a user plays no part in it.
LEMMA OrgNextInductive == OrgInductive /\ [OrgNext]_orgVars => OrgInductive'
<1> SUFFICES ASSUME OrgInductive, [OrgNext]_orgVars PROVE OrgInductive'
  OBVIOUS
<1>1. ASSUME NEW q \in OrgRequest, NEW u \in User, NEW b \in Base, OrgRequestStart(q, u, b)
      PROVE  OrgInductive'
  <2>1. \E v \in User, c \in Base :
           ocr' = [ocr EXCEPT ![q] = [user |-> v, base |-> c, attempt |-> 1]]
    BY <1>1 DEF OrgRequestStart
  <2>2. UNCHANGED <<orgs, founder, label, rbacVars, userRole, todo>>
    BY <1>1 DEF OrgRequestStart
  <2> QED BY <2>1, <2>2, RequestKeepsOrg
<1>2. ASSUME NEW q \in OrgRequest, OrgRequestFails(q) PROVE OrgInductive'
  <2>1. ocr' = [ocr EXCEPT ![q] = Idle] /\ UNCHANGED <<orgs, founder, label, rbacVars, userRole, todo>>
    BY <1>2 DEF OrgRequestFails
  <2> QED BY <2>1, RequestKeepsOrg
<1>3. ASSUME NEW q \in OrgRequest, CreateOrganization(q) PROVE OrgInductive'
  BY <1>3, CreationKeepsOrg
<1>4. CASE BackfillOrg \/ BackfillMembers
  BY <1>4, BackfillKeepsOrg
<1>5. CASE SeedRbacStart \/ \E o \in orgs : SeedOrg(o) \/ SeedStops(o)
  BY <1>5, SeedKeepsOrg
<1>6. ASSUME UNCHANGED <<orgs, founder, label, held, roles, grants, catalog, ocr, todo>>,
             userRole' \in [User -> {"ADMIN", "USER"}]
      PROVE  OrgInductive'
  <2>1. OrgTypeOK'
    <3>1. GrantsKnown'
      BY <1>6, GrantsTyped DEF GrantsKnown
    <3> QED BY <1>6, <3>1 DEF OrgInductive, OrgTypeOK
  <2> QED BY <1>6, <2>1 DEF OrgInductive, GrantsOfRoles, FoundersOwn, OwnersLabelled
<1>7. ASSUME NEW u \in User, SetUserRole(u) \/ BootstrapFirstAdmin(u) PROVE OrgInductive'
  <2>1. userRole' \in [User -> {"ADMIN", "USER"}]
    BY <1>7 DEF SetUserRole, BootstrapFirstAdmin, OrgInductive, OrgTypeOK
  <2>2. UNCHANGED <<orgs, founder, label, held, roles, grants, catalog, ocr, todo>>
    BY <1>7 DEF SetUserRole, BootstrapFirstAdmin, rbacVars
  <2> QED BY <2>1, <2>2, <1>6
<1>8. CASE UNCHANGED orgVars
  <2>1. UNCHANGED <<orgs, founder, label, held, roles, grants, catalog, ocr, todo, userRole>>
    BY <1>8 DEF orgVars, rbacVars
  <2>2. userRole' \in [User -> {"ADMIN", "USER"}]
    BY <2>1 DEF OrgInductive, OrgTypeOK
  <2> QED BY <2>1, <2>2, <1>6
<1> QED BY <1>1, <1>2, <1>3, <1>4, <1>5, <1>7, <1>8 DEF OrgNext

\* The tables of ranks agree as OrgInductive says.
THEOREM OrgInductiveInvariant == OrgSpec => []OrgInductive
  BY OrgInitInductive, OrgNextInductive, PTL DEF OrgSpec

\* Founders own from the first moment on, with every permission; nobody gets one that the
\* table of system roles does not give; who owns by role owns by label.
THEOREM RanksAgree == OrgSpec => []RanksHold
<1>1. ASSUME OrgInductive, NEW f \in founder
      PROVE  /\ f[1] \in ListOrganizations(f[2]) /\ HasSystemRole(f[1], f[2], "OWNER")
             /\ \A p \in Permission : MayRun(f[2], f[1], p)
  <2>1. /\ <<f[1], f[2], "OWNER">> \in label
        /\ <<f[1], f[2], "OWNER">> \in held
        /\ \A p \in Permission : <<f[1], "OWNER", p>> \in grants
    BY <1>1 DEF OrgInductive, FoundersOwn
  <2>2. /\ <<f[1], f[2], "OWNER">>[1] = f[1] /\ <<f[1], f[2], "OWNER">>[2] = f[2]
    OBVIOUS
  <2>3. f[1] \in ListOrganizations(f[2])
    BY <2>1, <2>2 DEF ListOrganizations
  <2>4. InOrg(f[2], f[1])
    BY <2>1, <2>2 DEF InOrg
  <2>5. "OWNER" \in SystemRole
    BY SystemRoles
  <2> QED BY <2>1, <2>3, <2>4, <2>5 DEF HasSystemRole, MayRun, HasPermission
<1>2. ASSUME OrgInductive, NEW u \in User, NEW o \in orgs, NEW p \in Permission, MayRun(u, o, p)
      PROVE  \E k \in SystemRole : HasSystemRole(o, u, k) /\ p \in RolePermissions[k]
  <2>1. PICK k \in SystemRole : <<o, u, k>> \in held /\ <<o, k, p>> \in grants
    BY <1>2 DEF MayRun, HasPermission
  <2>2. <<o, k, p>>[3] \in RolePermissions[<<o, k, p>>[2]]
    BY <1>2, <2>1 DEF OrgInductive, GrantsOfRoles
  <2> QED BY <2>1, <2>2 DEF HasSystemRole
<1>3. OrgInductive => RanksHold
  BY <1>1, <1>2 DEF RanksHold, OrgInductive, OwnersLabelled
<1> QED BY <1>3, OrgInductiveInvariant, PTL

(***************************************************************************)
(*                       The QuickBooks connections                        *)
(***************************************************************************)

\* The callbacks in progress for a row.
WorkingOn(c) == {b \in Callback : cpc[b] # "idle" /\ cc[b] = c}

\* A callback in progress has a row and a realm; what its transaction has found it has
\* switched off, and never its own row.
CallbackPlaces ==
    \A b \in Callback : cpc[b] # "idle" =>
        /\ cc[b] \in Connection /\ cr[b] \in Realm
        /\ cpc[b] = "commit" => twin[b] \subseteq others[b] /\ cc[b] \notin twin[b]

\* No two rows share a realm.
RealmsApart == \A c, d \in Connection : c # d /\ realm[c] # NoRealm => realm[c] # realm[d]

\* A row that was activated is not looked up again: the activations that are still to
\* come are those of the callbacks in progress.
Activations ==
    \A c \in Connection :
        /\ used[c] > 0 => state[c] = "cleared"
        /\ used[c] + Cardinality(WorkingOn(c)) <= Cardinality(Callback)

\* Each active row can be laid to a callback of its own, namely the one that activated
\* it last; in its next transaction that callback will switch off what it has made.
Makers(maker) ==
    /\ maker \in [on -> Callback]
    /\ \A c, d \in on : maker[c] = maker[d] => c = d
    /\ \A c \in on : cpc[maker[c]] = "commit" => c \in others[maker[c]] \cup {cc[maker[c]]}

ActiveMade == \E maker \in [on -> Callback] : Makers(maker)

ConnInductive == ConnTypeOK /\ CallbackPlaces /\ RealmsApart /\ Activations /\ ActiveMade

\* A part of a finite set has at most as many elements, and one less without one of them.
LEMMA PartsAreFewer ==
    ASSUME NEW R, IsFiniteSet(R), NEW S, NEW T, S \subseteq R, T \subseteq S
    PROVE  /\ Cardinality(S) \in Nat /\ Cardinality(T) \in Nat /\ Cardinality(R) \in Nat
           /\ Cardinality(T) <= Cardinality(S) /\ Cardinality(S) <= Cardinality(R)
           /\ \A x \in S \ T : Cardinality(T) + 1 <= Cardinality(S)
<1>1. S \in SUBSET R /\ T \in SUBSET S
  OBVIOUS
<1>2. IsFiniteSet(S) /\ Cardinality(S) <= Cardinality(R)
  BY <1>1, FS_Subset
<1>3. IsFiniteSet(T) /\ Cardinality(T) <= Cardinality(S)
  BY <1>1, <1>2, FS_Subset
<1>4. Cardinality(S) \in Nat /\ Cardinality(T) \in Nat /\ Cardinality(R) \in Nat
  BY <1>2, <1>3, FS_CardinalityType
<1>5. ASSUME NEW x \in S \ T PROVE Cardinality(T) + 1 <= Cardinality(S)
  <2>1. Cardinality(S) # Cardinality(T)
    BY <1>1, <1>2, FS_Subset
  <2> QED BY <2>1, <1>3, <1>4
<1> QED BY <1>2, <1>3, <1>4, <1>5

\* What a step of a callback writes to its own variables.
LEMMA CallbackStepFacts ==
    ASSUME ConnTypeOK, NEW b \in Callback, NEW step \in {"idle", "exchange", "begin", "commit"},
           NEW c \in 0 .. MaxConnection, NEW r \in Realm \cup {NoRealm},
           NEW T \in SUBSET Connection, NEW S \in SUBSET Connection,
           CallbackStep(b, step, c, r, T, S)
    PROVE  /\ cpc' \in [Callback -> {"idle", "exchange", "begin", "commit"}]
           /\ cc' \in [Callback -> 0 .. MaxConnection]
           /\ cr' \in [Callback -> Realm \cup {NoRealm}]
           /\ twin' \in [Callback -> SUBSET Connection]
           /\ others' \in [Callback -> SUBSET Connection]
           /\ cpc'[b] = step /\ cc'[b] = c /\ cr'[b] = r /\ twin'[b] = T /\ others'[b] = S
           /\ \A q \in Callback \ {b} : /\ cpc'[q] = cpc[q] /\ cc'[q] = cc[q] /\ cr'[q] = cr[q]
                                        /\ twin'[q] = twin[q] /\ others'[q] = others[q]
  BY DEF CallbackStep, ConnTypeOK

\* No row is active when none has been created.
LEMMA ConnInitInductive == ConnInit => ConnInductive
<1> SUFFICES ASSUME ConnInit PROVE ConnInductive
  OBVIOUS
<1>1. ConnTypeOK /\ CallbackPlaces /\ RealmsApart
  BY ConnectionsAssumption DEF ConnInit, ConnTypeOK, CallbackPlaces, RealmsApart
<1>2. Activations
  <2>1. ASSUME NEW c \in Connection
        PROVE  used[c] = 0 /\ used[c] + Cardinality(WorkingOn(c)) <= Cardinality(Callback)
    <3>1. WorkingOn(c) \subseteq Callback
      BY DEF WorkingOn
    <3>2. Cardinality(WorkingOn(c)) <= Cardinality(Callback) /\ Cardinality(WorkingOn(c)) \in Nat
      BY <3>1, PartsAreFewer, ConnectionsAssumption
    <3>3. used[c] = 0
      BY DEF ConnInit
    <3> QED BY <3>2, <3>3
  <2> QED BY <2>1 DEF Activations
<1>3. ActiveMade
  <2>1. [c \in {} |-> 0] \in [on -> Callback]
    BY DEF ConnInit
  <2>2. on = {}
    BY DEF ConnInit
  <2> QED BY <2>1, <2>2 DEF ActiveMade, Makers
<1> QED BY <1>1, <1>2, <1>3 DEF ConnInductive

\* A new row and an expired state disturb no callback.
LEMMA StatesKeepConn ==
    ASSUME ConnInductive, NEW c \in Connection, state[c] \in {"none", "fresh"},
           NEW v \in {"fresh", "expired"}, state' = [state EXCEPT ![c] = v],
           UNCHANGED <<on, realm, used, callbackVars>>
    PROVE  ConnInductive'
<1> USE DEF ConnInductive, callbackVars
<1>1. ConnTypeOK'
  BY DEF ConnTypeOK
<1>2. CallbackPlaces' /\ RealmsApart'
  BY DEF CallbackPlaces, RealmsApart
<1>3. Activations'
  <2>1. \A d \in Connection : WorkingOn(d)' = WorkingOn(d)
    BY DEF WorkingOn
  <2>2. \A d \in Connection : used[d] > 0 => state'[d] = "cleared"
    BY DEF Activations, ConnTypeOK
  <2> QED BY <2>1, <2>2 DEF Activations
<1>4. ActiveMade'
  BY DEF ActiveMade, Makers
<1> QED BY <1>1, <1>2, <1>3, <1>4

\* A step of a callback that writes no row keeps the invariant: a state that is looked
\* up was never activated, and a transaction that begins sees every active row.
LEMMA CallbackKeepsConn ==
    ASSUME ConnInductive, NEW b \in Callback, UNCHANGED connRowVars,
           NEW c \in 0 .. MaxConnection, NEW r \in Realm \cup {NoRealm},
           NEW step \in {"idle", "exchange", "begin", "commit"},
           NEW T \in SUBSET Connection, NEW S \in SUBSET Connection,
           CallbackStep(b, step, c, r, T, S),
           step # "idle" => c \in Connection /\ r \in Realm,
           step # "idle" => state[c] = "fresh" \/ (cpc[b] # "idle" /\ cc[b] = c),
           step = "commit" => T \subseteq S /\ c \notin T /\ on \subseteq S \cup {c}
    PROVE  ConnInductive'
<1>1. ConnTypeOK /\ CallbackPlaces /\ RealmsApart /\ Activations /\ ActiveMade
  BY DEF ConnInductive
<1>2. /\ cpc' \in [Callback -> {"idle", "exchange", "begin", "commit"}]
      /\ cc' \in [Callback -> 0 .. MaxConnection]
      /\ cr' \in [Callback -> Realm \cup {NoRealm}]
      /\ twin' \in [Callback -> SUBSET Connection]
      /\ others' \in [Callback -> SUBSET Connection]
      /\ cpc'[b] = step /\ cc'[b] = c /\ cr'[b] = r /\ twin'[b] = T /\ others'[b] = S
      /\ \A q \in Callback \ {b} : /\ cpc'[q] = cpc[q] /\ cc'[q] = cc[q] /\ cr'[q] = cr[q]
                                   /\ twin'[q] = twin[q] /\ others'[q] = others[q]
  BY <1>1, CallbackStepFacts
<1>3. UNCHANGED <<state, on, realm, used>>
  BY DEF connRowVars
<1>4. ConnTypeOK'
  BY <1>1, <1>2, <1>3 DEF ConnTypeOK
<1>5. CallbackPlaces'
  <2>1. ASSUME NEW q \in Callback, cpc'[q] # "idle"
        PROVE  /\ cc'[q] \in Connection /\ cr'[q] \in Realm
               /\ cpc'[q] = "commit" => twin'[q] \subseteq others'[q] /\ cc'[q] \notin twin'[q]
    <3>1. CASE q = b
      BY <3>1, <2>1, <1>2
    <3>2. CASE q # b
      BY <3>2, <2>1, <1>1, <1>2 DEF CallbackPlaces
    <3> QED BY <3>1, <3>2
  <2> QED BY <2>1 DEF CallbackPlaces
<1>6. RealmsApart'
  BY <1>1, <1>3 DEF RealmsApart
<1>7. Activations'
  <2>1. ASSUME NEW d \in Connection
        PROVE  used[d] + Cardinality(WorkingOn(d)') <= Cardinality(Callback)
    <3>1. used[d] \in Nat
      BY <1>1 DEF ConnTypeOK
    <3>2. WorkingOn(d)' \subseteq Callback /\ WorkingOn(d) \subseteq Callback
      BY DEF WorkingOn
    <3>3. CASE step # "idle" /\ d = c /\ state[c] = "fresh"
      <4>1. used[d] = 0
        BY <3>1, <3>3, <1>1 DEF Activations
      <4>2. /\ Cardinality(WorkingOn(d)') \in Nat
            /\ Cardinality(WorkingOn(d)') <= Cardinality(Callback)
        BY <3>2, PartsAreFewer, ConnectionsAssumption
      <4> QED BY <4>1, <4>2
    <3>4. CASE ~(step # "idle" /\ d = c /\ state[c] = "fresh")
      <4>1. ASSUME NEW q \in WorkingOn(d)' PROVE q \in WorkingOn(d)
        <5>1. q \in Callback /\ cpc'[q] # "idle" /\ cc'[q] = d
          BY DEF WorkingOn
        <5>2. CASE q = b
          BY <5>1, <5>2, <3>4, <1>2 DEF WorkingOn
        <5>3. CASE q # b
          BY <5>1, <5>3, <1>2 DEF WorkingOn
        <5> QED BY <5>2, <5>3
      <4>2. WorkingOn(d)' \subseteq WorkingOn(d)
        BY <4>1
      <4>3. /\ Cardinality(WorkingOn(d)') \in Nat /\ Cardinality(WorkingOn(d)) \in Nat
            /\ Cardinality(Callback) \in Nat
            /\ Cardinality(WorkingOn(d)') <= Cardinality(WorkingOn(d))
        BY <3>2, <4>2, PartsAreFewer, ConnectionsAssumption
      <4>4. used[d] + Cardinality(WorkingOn(d)) <= Cardinality(Callback)
        BY <1>1 DEF Activations
      <4> QED BY <3>1, <4>3, <4>4
    <3> QED BY <3>3, <3>4
  <2>2. \A d \in Connection : used[d] > 0 => state[d] = "cleared"
    BY <1>1 DEF Activations
  <2> QED BY <2>1, <2>2, <1>3 DEF Activations
<1>8. ActiveMade'
  <2>1. PICK maker \in [on -> Callback] : Makers(maker)
    BY <1>1 DEF ActiveMade
  <2>2. ASSUME NEW d \in on, cpc'[maker[d]] = "commit"
        PROVE  d \in others'[maker[d]] \cup {cc'[maker[d]]}
    <3>1. CASE maker[d] = b
      BY <3>1, <2>2, <1>2
    <3>2. CASE maker[d] # b
      <4>1. maker[d] \in Callback \ {b}
        BY <3>2
      <4> QED BY <4>1, <2>1, <2>2, <1>2 DEF Makers
    <3> QED BY <3>1, <3>2
  <2>3. Makers(maker)'
    BY <1>3, <2>1, <2>2 DEF Makers
  <2> QED BY <1>3, <2>3 DEF ActiveMade
<1> QED BY <1>4, <1>5, <1>6, <1>7, <1>8 DEF ConnInductive

\* The commit keeps the invariant.  What this callback had activated before is among the
\* rows it switches off, so the row it activates now is the only one laid to it.
LEMMA CommitKeepsConn ==
    ASSUME ConnInductive, NEW b \in Callback, CallbackCommit(b)
    PROVE  ConnInductive'
<1>1. ConnTypeOK /\ CallbackPlaces /\ RealmsApart /\ Activations /\ ActiveMade
  BY DEF ConnInductive
<1>2. PICK c : c = cc[b]
  OBVIOUS
<1>3. /\ cpc[b] = "commit" /\ c \in Connection /\ cr[b] \in Realm
      /\ twin[b] \subseteq others[b] /\ c \notin twin[b] /\ others[b] \subseteq Connection
  BY <1>1, <1>2 DEF CallbackCommit, CallbackPlaces, ConnTypeOK
<1>4. CallbackStep(b, "idle", 0, NoRealm, {}, {})
  BY DEF CallbackCommit, CallbackEnd
<1>5. 0 \in 0 .. MaxConnection /\ NoRealm \in Realm \cup {NoRealm}
  BY ConnectionsAssumption
<1>6. CASE UNCHANGED connRowVars
  BY <1>4, <1>5, <1>6, CallbackKeepsConn
<1>7. CASE ~UNCHANGED connRowVars
  <2>1. /\ Twin(b) \subseteq twin[b]
        /\ realm' = [d \in Connection |->
                       IF d = c THEN cr[b] ELSE IF d \in twin[b] THEN NoRealm ELSE realm[d]]
        /\ on' = (on \ others[b]) \cup {c}
        /\ state' = [state EXCEPT ![c] = "cleared"]
        /\ used' = [used EXCEPT ![c] = @ + 1]
    BY <1>2, <1>7 DEF CallbackCommit
  <2>2. /\ cpc' \in [Callback -> {"idle", "exchange", "begin", "commit"}]
        /\ cc' \in [Callback -> 0 .. MaxConnection]
        /\ cr' \in [Callback -> Realm \cup {NoRealm}]
        /\ twin' \in [Callback -> SUBSET Connection]
        /\ others' \in [Callback -> SUBSET Connection]
        /\ cpc'[b] = "idle"
        /\ \A q \in Callback \ {b} : /\ cpc'[q] = cpc[q] /\ cc'[q] = cc[q] /\ cr'[q] = cr[q]
                                     /\ twin'[q] = twin[q] /\ others'[q] = others[q]
    BY <1>1, <1>4, <1>5, CallbackStepFacts
  <2>3. /\ realm'[c] = cr[b]
        /\ \A d \in Connection \ {c} : realm'[d] = IF d \in twin[b] THEN NoRealm ELSE realm[d]
    BY <1>3, <2>1
  <2>4. ConnTypeOK'
    <3>1. realm' \in [Connection -> Realm \cup {NoRealm}]
      BY <1>1, <1>3, <2>1 DEF ConnTypeOK
    <3>2. on' \subseteq {d \in Connection : realm'[d] # NoRealm}
      <4>1. ASSUME NEW d \in on' PROVE d \in Connection /\ realm'[d] # NoRealm
        <5>1. CASE d = c
          BY <5>1, <1>3, <2>3, ConnectionsAssumption
        <5>2. CASE d # c
          <6>1. d \in on /\ d \notin twin[b]
            BY <5>2, <4>1, <1>3, <2>1
          <6>2. d \in Connection /\ realm[d] # NoRealm
            BY <6>1, <1>1 DEF ConnTypeOK
          <6> QED BY <5>2, <6>1, <6>2, <2>3
        <5> QED BY <5>1, <5>2
      <4> QED BY <4>1
    <3>3. /\ state' \in [Connection -> {"none", "fresh", "expired", "cleared"}]
          /\ used' \in [Connection -> Nat]
      BY <1>1, <1>3, <2>1 DEF ConnTypeOK
    <3> QED BY <3>1, <3>2, <3>3, <2>2 DEF ConnTypeOK
  <2>5. CallbackPlaces'
    <3>1. ASSUME NEW q \in Callback, cpc'[q] # "idle"
          PROVE  /\ cc'[q] \in Connection /\ cr'[q] \in Realm
                 /\ cpc'[q] = "commit" => twin'[q] \subseteq others'[q] /\ cc'[q] \notin twin'[q]
      <4>1. q # b
        BY <3>1, <2>2
      <4> QED BY <3>1, <4>1, <1>1, <2>2 DEF CallbackPlaces
    <3> QED BY <3>1 DEF CallbackPlaces
  <2>6. RealmsApart'
    <3>1. \A d \in Connection \ {c} : realm'[d] # cr[b]
      <4>1. ASSUME NEW d \in Connection \ {c}, realm[d] = cr[b] PROVE d \in twin[b]
        BY <4>1, <1>2, <2>1 DEF Twin
      <4>2. cr[b] # NoRealm
        BY <1>3, ConnectionsAssumption
      <4> QED BY <4>1, <4>2, <2>3
    <3>2. \A d, e \in Connection \ {c} : d # e /\ realm'[d] # NoRealm => realm'[d] # realm'[e]
      BY <1>1, <2>3 DEF RealmsApart
    <3>3. SUFFICES ASSUME NEW d \in Connection, NEW e \in Connection, d # e, realm'[d] # NoRealm
                   PROVE  realm'[d] # realm'[e]
      BY DEF RealmsApart
    <3> QED BY <3>1, <3>2, <3>3, <2>3
  <2>7. Activations'
    <3>1. ASSUME NEW d \in Connection
          PROVE  /\ used'[d] > 0 => state'[d] = "cleared"
                 /\ used'[d] + Cardinality(WorkingOn(d)') <= Cardinality(Callback)
      <4>1. used[d] \in Nat /\ (used[d] > 0 => state[d] = "cleared")
        BY <1>1 DEF ConnTypeOK, Activations
      <4>2. used[d] + Cardinality(WorkingOn(d)) <= Cardinality(Callback)
        BY <1>1 DEF Activations
      <4>3. WorkingOn(d) \subseteq Callback /\ WorkingOn(d)' \subseteq WorkingOn(d) \ {b}
        <5>1. ASSUME NEW q \in WorkingOn(d)' PROVE q \in WorkingOn(d) /\ q # b
          BY <2>2 DEF WorkingOn
        <5> QED BY <5>1 DEF WorkingOn
      <4>4. /\ Cardinality(WorkingOn(d)') \in Nat /\ Cardinality(WorkingOn(d)) \in Nat
            /\ Cardinality(Callback) \in Nat
            /\ Cardinality(WorkingOn(d)') <= Cardinality(WorkingOn(d))
            /\ \A q \in WorkingOn(d) \ WorkingOn(d)' :
                  Cardinality(WorkingOn(d)') + 1 <= Cardinality(WorkingOn(d))
        BY <4>3, PartsAreFewer, ConnectionsAssumption
      <4>5. CASE d = c
        <5>1. b \in WorkingOn(d) \ WorkingOn(d)'
          BY <4>5, <1>2, <1>3, <2>2 DEF WorkingOn
        <5>2. Cardinality(WorkingOn(d)') + 1 <= Cardinality(WorkingOn(d))
          BY <4>4, <5>1
        <5>3. used'[d] = used[d] + 1 /\ state'[d] = "cleared"
          BY <4>5, <1>3, <2>1, <1>1 DEF ConnTypeOK
        <5> QED BY <4>1, <4>2, <4>4, <5>2, <5>3
      <4>6. CASE d # c
        <5>1. used'[d] = used[d] /\ state'[d] = state[d]
          BY <4>6, <2>1, <1>1 DEF ConnTypeOK
        <5> QED BY <4>1, <4>2, <4>4, <5>1
      <4> QED BY <4>5, <4>6
    <3> QED BY <3>1 DEF Activations
  <2>8. ActiveMade'
    <3>1. PICK maker \in [on -> Callback] : Makers(maker)
      BY <1>1 DEF ActiveMade
    <3>2. PICK new : new = [d \in on' |-> IF d = c THEN b ELSE maker[d]]
      OBVIOUS
    <3>3. \A d \in on' : d # c => d \in on /\ d \notin others[b]
      BY <2>1
    <3>4. \A d \in on' : new[d] = IF d = c THEN b ELSE maker[d]
      BY <3>2
    <3>5. new \in [on' -> Callback]
      BY <3>2, <3>3
    <3>6. \A d \in on' : d # c => maker[d] # b
      BY <3>1, <3>3, <1>2, <1>3 DEF Makers
    <3>7. ASSUME NEW d \in on', NEW e \in on', new[d] = new[e] PROVE d = e
      <4>1. CASE d = c \/ e = c
        BY <3>4, <3>6, <3>7, <4>1
      <4>2. CASE d # c /\ e # c
        BY <3>1, <3>3, <3>4, <3>7, <4>2 DEF Makers
      <4> QED BY <4>1, <4>2
    <3>8. ASSUME NEW d \in on', cpc'[new[d]] = "commit"
          PROVE  d \in others'[new[d]] \cup {cc'[new[d]]}
      <4>1. new[d] # b
        BY <3>8, <2>2
      <4>2. d # c /\ new[d] = maker[d] /\ maker[d] \in Callback \ {b} /\ d \in on
        BY <4>1, <3>1, <3>3, <3>4, <3>6
      <4> QED BY <4>2, <3>1, <3>8, <2>2 DEF Makers
    <3> QED BY <3>5, <3>7, <3>8 DEF ActiveMade, Makers
  <2> QED BY <2>4, <2>5, <2>6, <2>7, <2>8 DEF ConnInductive
<1> QED BY <1>6, <1>7

\* Every step keeps the invariant.
LEMMA ConnNextInductive == ConnInductive /\ [ConnNext]_connVars => ConnInductive'
<1> SUFFICES ASSUME ConnInductive, [ConnNext]_connVars PROVE ConnInductive'
  OBVIOUS
<1>0. /\ ConnTypeOK /\ CallbackPlaces
      /\ 0 \in 0 .. MaxConnection /\ NoRealm \in Realm \cup {NoRealm}
  BY ConnectionsAssumption DEF ConnInductive
<1>1. CASE CreateQuickBooksConnectUrl
  <2>1. PICK c \in Connection : state[c] = "none" /\ state' = [state EXCEPT ![c] = "fresh"]
    BY <1>1 DEF CreateQuickBooksConnectUrl
  <2>2. UNCHANGED <<on, realm, used, callbackVars>>
    BY <1>1 DEF CreateQuickBooksConnectUrl
  <2> QED BY <2>1, <2>2, StatesKeepConn
<1>2. ASSUME NEW c \in Connection, StateExpires(c) PROVE ConnInductive'
  <2>1. /\ state[c] = "fresh" /\ state' = [state EXCEPT ![c] = "expired"]
        /\ UNCHANGED <<on, realm, used, callbackVars>>
    BY <1>2 DEF StateExpires
  <2> QED BY <2>1, StatesKeepConn
<1>3. CASE UNCHANGED connVars
  <2>1. UNCHANGED <<state, on, realm, used, cpc, cc, cr, twin, others>>
    BY <1>3 DEF connVars, connRowVars, callbackVars
  <2>2. \A c \in Connection : WorkingOn(c)' = WorkingOn(c)
    BY <2>1 DEF WorkingOn
  <2> QED BY <2>1, <2>2 DEF ConnInductive, ConnTypeOK, CallbackPlaces, RealmsApart,
                            Activations, ActiveMade, Makers
<1>4. ASSUME NEW b \in Callback, NEW c \in Connection, NEW r \in Realm, CallbackLookup(b, c, r)
      PROVE  ConnInductive'
  <2>1. CASE state[c] = "fresh"
    <3>1. UNCHANGED connRowVars /\ CallbackStep(b, "exchange", c, r, {}, {})
      BY <1>4, <2>1 DEF CallbackLookup
    <3>2. c \in 0 .. MaxConnection
      BY ConnectionsAssumption DEF Connection
    <3> QED BY <2>1, <3>1, <3>2, CallbackKeepsConn
  <2>2. CASE state[c] # "fresh"
    BY <1>3, <1>4, <2>2 DEF CallbackLookup, connVars
  <2> QED BY <2>1, <2>2
<1>5. ASSUME NEW b \in Callback, ExchangeCodeForTokens(b) PROVE ConnInductive'
  <2>1. /\ cpc[b] = "exchange" /\ UNCHANGED connRowVars
        /\ CallbackStep(b, "begin", cc[b], cr[b], {}, {})
    BY <1>5 DEF ExchangeCodeForTokens
  <2>2. cc[b] \in Connection /\ cr[b] \in Realm /\ cc[b] \in 0 .. MaxConnection
    BY <1>0, <2>1 DEF CallbackPlaces, ConnTypeOK
  <2> QED BY <2>1, <2>2, CallbackKeepsConn
<1>6. ASSUME NEW b \in Callback, CallbackFails(b) PROVE ConnInductive'
  <2>1. UNCHANGED connRowVars /\ CallbackStep(b, "idle", 0, NoRealm, {}, {})
    BY <1>6 DEF CallbackFails, CallbackEnd
  <2> QED BY <1>0, <2>1, CallbackKeepsConn
<1>7. ASSUME NEW b \in Callback, CallbackBegin(b) PROVE ConnInductive'
  <2>1. /\ cpc[b] = "begin" /\ UNCHANGED connRowVars
        /\ CallbackStep(b, "commit", cc[b], cr[b], Twin(b), SwitchOff(b))
    BY <1>7 DEF CallbackBegin
  <2>2. cc[b] \in Connection /\ cr[b] \in Realm /\ cc[b] \in 0 .. MaxConnection
    BY <1>0, <2>1 DEF CallbackPlaces, ConnTypeOK
  <2>3. /\ Twin(b) \in SUBSET Connection /\ SwitchOff(b) \in SUBSET Connection
        /\ Twin(b) \subseteq SwitchOff(b) /\ cc[b] \notin Twin(b)
        /\ on \subseteq SwitchOff(b) \cup {cc[b]}
    BY <1>0 DEF Twin, SwitchOff, ConnTypeOK
  <2> QED BY <2>1, <2>2, <2>3, CallbackKeepsConn
<1>8. ASSUME NEW b \in Callback, CallbackCommit(b) PROVE ConnInductive'
  BY <1>8, CommitKeepsConn
<1> QED BY <1>1, <1>2, <1>3, <1>4, <1>5, <1>6, <1>7, <1>8 DEF ConnNext

\* The rows and what callbacks have read of them agree as ConnInductive says.
THEOREM ConnInductiveInvariant == ConnSpec => []ConnInductive
  BY ConnInitInductive, ConnNextInductive, PTL DEF ConnSpec

(***************************************************************************)
(* However many callbacks overlap, no more connections are active, and no  *)
(* state is used more often, than there are callbacks at once; two rows    *)
(* never share a realm (quickbooks.service.ts).                            *)
(***************************************************************************)
THEOREM ActiveFew == ConnSpec => []OneActive
<1>1. ConnInductive => OneActive
  <2> SUFFICES ASSUME ConnInductive PROVE OneActive
    OBVIOUS
  <2>1. Cardinality(on) <= Cardinality(Callback)
    <3>1. PICK maker \in [on -> Callback] : \A c, d \in on : maker[c] = maker[d] => c = d
      BY DEF ConnInductive, ActiveMade, Makers
    <3>2. maker \in Injection(on, Callback)
      BY <3>1 DEF Injection, IsInjective
    <3> QED BY <3>2, FS_Injection, ConnectionsAssumption
  <2>2. ASSUME NEW c \in Connection PROVE used[c] <= Cardinality(Callback)
    <3>1. WorkingOn(c) \subseteq Callback
      BY DEF WorkingOn
    <3>2. Cardinality(WorkingOn(c)) \in Nat /\ Cardinality(Callback) \in Nat
      BY <3>1, PartsAreFewer, ConnectionsAssumption
    <3>3. used[c] \in Nat /\ used[c] + Cardinality(WorkingOn(c)) <= Cardinality(Callback)
      BY DEF ConnInductive, ConnTypeOK, Activations
    <3> QED BY <3>2, <3>3
  <2> QED BY <2>1, <2>2 DEF OneActive, ConnInductive, RealmsApart
<1> QED BY <1>1, ConnInductiveInvariant, PTL

(***************************************************************************)
(*                         Tokens sent by e-mail                           *)
(***************************************************************************)

RequestKinds == {"idle", "register", "issue", "redeem"}

\* The requests about to redeem a token, and the tokens that are not used.
Redeeming(t) == {r \in AccountRequest : apc[r] = "redeem" /\ at[r] = t}
LiveSet      == {t \in Token : Live(t)}

\* A request about to write has an account or a token to write about, and has seen only
\* tokens that were issued.
RequestsKnow ==
    \A r \in AccountRequest :
        /\ apc[r] = "register" => au[r] \in Account
        /\ apc[r] = "issue" => au[r] \in Account /\ account[au[r]] # "none"
        /\ apc[r] = "redeem" => at[r] \in Token /\ token[at[r]] # "none"
        /\ \A t \in unused[r] : token[t] # "none"

\* Mails are of tokens that were issued, and these belong to accounts that exist.
HoldersKnown ==
    \A t \in Token :
        /\ mail[t] > 0 \/ delivered[t] => token[t] # "none"
        /\ token[t] # "none" => holder[t] \in Account /\ account[holder[t]] # "none"

\* A redeemed token is used, so nobody looks it up again: the redemptions that are still
\* to come are those of the requests in progress.
Redemptions ==
    \A t \in Token :
        /\ redeemed[t] > 0 => token[t] = "used"
        /\ redeemed[t] + Cardinality(Redeeming(t)) <= Cardinality(AccountRequest)

\* The unused tokens of one account and kind can be laid to different requests, those
\* that issued them; a request about to issue another has seen its own.
TokenMakers(maker) ==
    /\ maker \in [LiveSet -> AccountRequest]
    /\ \A t, u \in LiveSet :
         maker[t] = maker[u] /\ holder[t] = holder[u] /\ kind[t] = kind[u] => t = u
    /\ \A t \in LiveSet :
         kind[t] = "reset" /\ apc[maker[t]] = "issue" /\ au[maker[t]] = holder[t]
            => t \in unused[maker[t]]

TokensMade == \E maker \in [LiveSet -> AccountRequest] : TokenMakers(maker)

TokensInductive == TokensTypeOK /\ RequestsKnow /\ HoldersKnown /\ Redemptions /\ TokensMade

\* What a request writes to its own variables when it goes on or is over.
LEMMA RequestFacts ==
    ASSUME TokensTypeOK, NEW r \in AccountRequest, NEW step \in RequestKinds,
           NEW a \in Account \cup {NoAccount}, NEW t \in 0 .. MaxToken, NEW old \in SUBSET Token,
           apc' = [apc EXCEPT ![r] = step], au' = [au EXCEPT ![r] = a],
           at' = [at EXCEPT ![r] = t], unused' = [unused EXCEPT ![r] = old]
    PROVE  /\ apc' \in [AccountRequest -> RequestKinds]
           /\ au' \in [AccountRequest -> Account \cup {NoAccount}]
           /\ at' \in [AccountRequest -> 0 .. MaxToken]
           /\ unused' \in [AccountRequest -> SUBSET Token]
           /\ apc'[r] = step /\ au'[r] = a /\ at'[r] = t /\ unused'[r] = old
           /\ \A q \in AccountRequest \ {r} : /\ apc'[q] = apc[q] /\ au'[q] = au[q]
                                              /\ at'[q] = at[q] /\ unused'[q] = unused[q]
  BY DEF TokensTypeOK, RequestKinds

\* Leaving is one of these steps.
LEMMA LeaveFacts ==
    ASSUME TokensTypeOK, NEW r \in AccountRequest, Leave(r)
    PROVE  /\ apc' \in [AccountRequest -> RequestKinds]
           /\ au' \in [AccountRequest -> Account \cup {NoAccount}]
           /\ at' \in [AccountRequest -> 0 .. MaxToken]
           /\ unused' \in [AccountRequest -> SUBSET Token]
           /\ apc'[r] = "idle" /\ unused'[r] = {}
           /\ \A q \in AccountRequest \ {r} : /\ apc'[q] = apc[q] /\ au'[q] = au[q]
                                              /\ at'[q] = at[q] /\ unused'[q] = unused[q]
<1>1. 0 \in 0 .. MaxToken /\ "idle" \in RequestKinds /\ {} \in SUBSET Token
  BY AccountAssumption DEF RequestKinds
<1> QED BY <1>1, RequestFacts DEF Leave

\* The count of redemptions and of requests about to redeem stays within bounds when
\* requests turn to tokens never redeemed, give up, or redeem.
LEMMA RedemptionsKept ==
    ASSUME Redemptions, redeemed \in [Token -> Nat],
           \A t \in Token :
              /\ redeemed'[t] > 0 => token'[t] = "used"
              /\ \/ redeemed'[t] = 0
                 \/ redeemed'[t] = redeemed[t] /\ Redeeming(t)' \subseteq Redeeming(t)
                 \/ /\ redeemed'[t] = redeemed[t] + 1 /\ Redeeming(t)' \subseteq Redeeming(t)
                    /\ \E r \in Redeeming(t) : r \notin Redeeming(t)'
    PROVE  Redemptions'
<1>1. ASSUME NEW t \in Token
      PROVE  redeemed'[t] + Cardinality(Redeeming(t)') <= Cardinality(AccountRequest)
  <2>1. /\ Redeeming(t) \subseteq AccountRequest /\ Redeeming(t)' \subseteq AccountRequest
        /\ IsFiniteSet(AccountRequest)
    BY AccountAssumption DEF Redeeming
  <2>2. /\ Cardinality(Redeeming(t)') \in Nat /\ Cardinality(AccountRequest) \in Nat
        /\ Cardinality(Redeeming(t)') <= Cardinality(AccountRequest)
    BY <2>1, PartsAreFewer
  <2>3. /\ redeemed[t] \in Nat /\ Cardinality(Redeeming(t)) \in Nat
        /\ redeemed[t] + Cardinality(Redeeming(t)) <= Cardinality(AccountRequest)
    BY <2>1, PartsAreFewer DEF Redemptions
  <2>4. ASSUME Redeeming(t)' \subseteq Redeeming(t)
        PROVE  /\ Cardinality(Redeeming(t)') <= Cardinality(Redeeming(t))
               /\ \A r \in Redeeming(t) : r \notin Redeeming(t)' =>
                     Cardinality(Redeeming(t)') + 1 <= Cardinality(Redeeming(t))
    BY <2>1, <2>4, PartsAreFewer
  <2>5. CASE redeemed'[t] = 0
    BY <2>2, <2>5
  <2>6. CASE redeemed'[t] = redeemed[t] /\ Redeeming(t)' \subseteq Redeeming(t)
    BY <2>2, <2>3, <2>4, <2>6
  <2>7. CASE /\ redeemed'[t] = redeemed[t] + 1 /\ Redeeming(t)' \subseteq Redeeming(t)
             /\ \E r \in Redeeming(t) : r \notin Redeeming(t)'
    <3>1. Cardinality(Redeeming(t)') + 1 <= Cardinality(Redeeming(t))
      BY <2>4, <2>7
    <3> QED BY <2>2, <2>3, <2>7, <3>1
  <2> QED BY <2>5, <2>6, <2>7
<1> QED BY <1>1 DEF Redemptions

\* Tokens are still laid to their requests when none comes, some are used, and whoever
\* sets out to issue one sees those of its account.
LEMMA MakersKept ==
    ASSUME TokensMade, UNCHANGED <<holder, kind>>, LiveSet' \subseteq LiveSet,
           \A r \in AccountRequest : apc'[r] = "issue" =>
              \/ apc[r] = "issue" /\ au'[r] = au[r] /\ unused'[r] = unused[r]
              \/ \A t \in LiveSet : holder[t] = au'[r] /\ kind[t] = "reset" => t \in unused'[r]
    PROVE  TokensMade'
<1>1. PICK maker \in [LiveSet -> AccountRequest] : TokenMakers(maker)
  BY DEF TokensMade
<1>2. PICK new : new = [t \in LiveSet' |-> maker[t]]
  OBVIOUS
<1>3. new \in [LiveSet' -> AccountRequest] /\ \A t \in LiveSet' : new[t] = maker[t] /\ t \in LiveSet
  BY <1>2
<1>4. ASSUME NEW t \in LiveSet', kind[t] = "reset", apc'[new[t]] = "issue", au'[new[t]] = holder[t]
      PROVE  t \in unused'[new[t]]
  <2>1. new[t] = maker[t] /\ t \in LiveSet /\ new[t] \in AccountRequest
    BY <1>3
  <2> QED BY <2>1, <1>1, <1>4 DEF TokenMakers
<1>5. ASSUME NEW t \in LiveSet', NEW u \in LiveSet',
             new[t] = new[u], holder[t] = holder[u], kind[t] = kind[u]
      PROVE  t = u
  BY <1>1, <1>3, <1>5 DEF TokenMakers
<1> QED BY <1>3, <1>4, <1>5 DEF TokensMade, TokenMakers

\* A request that goes on or is over without writing a row keeps the invariant; tokens
\* may become used or expired at the same time.
LEMMA RequestKeepsTokens ==
    ASSUME TokensInductive,
           UNCHANGED <<required, account, kind, holder, delivered, redeemed>>,
           mail' \in [Token -> 0 .. MailAttempts], \A t \in Token : mail'[t] > 0 => mail[t] > 0,
           token' \in [Token -> {"none", "live", "expired", "used"}],
           \A t \in Token : \/ token'[t] = token[t]
                            \/ token[t] # "none" /\ token'[t] = "used"
                            \/ token[t] = "live" /\ token'[t] = "expired",
           apc' \in [AccountRequest -> RequestKinds],
           au' \in [AccountRequest -> Account \cup {NoAccount}],
           at' \in [AccountRequest -> 0 .. MaxToken],
           unused' \in [AccountRequest -> SUBSET Token],
           \A r \in AccountRequest :
              \/ apc'[r] = apc[r] /\ au'[r] = au[r] /\ at'[r] = at[r] /\ unused'[r] = unused[r]
              \/ apc'[r] = "idle" /\ unused'[r] = {}
              \/ apc'[r] = "register" /\ au'[r] \in Account /\ unused'[r] = {}
              \/ /\ apc'[r] = "issue" /\ au'[r] \in Account /\ account[au'[r]] # "none"
                 /\ unused'[r] = UnusedOf(au'[r], "reset")
              \/ /\ apc'[r] = "redeem" /\ at'[r] \in Token /\ token[at'[r]] = "live"
                 /\ unused'[r] = {}
    PROVE  TokensInductive'
<1>1. TokensTypeOK /\ RequestsKnow /\ HoldersKnown /\ Redemptions /\ TokensMade
  BY DEF TokensInductive
<1>2. TokensTypeOK'
  BY <1>1 DEF TokensTypeOK, RequestKinds
<1>3. RequestsKnow'
  <2>1. \A t \in Token : token[t] # "none" => token'[t] # "none"
    OBVIOUS
  <2>2. \A r \in AccountRequest : \A t \in unused'[r] : token[t] # "none"
    BY <1>1 DEF RequestsKnow, UnusedOf, Live
  <2>3. \A r \in AccountRequest : \A t \in unused'[r] : token'[t] # "none"
    BY <2>1, <2>2
  <2> QED BY <1>1, <2>3 DEF RequestsKnow
<1>4. HoldersKnown'
  BY <1>1 DEF HoldersKnown, TokensTypeOK
<1>5. Redemptions'
  <2>1. ASSUME NEW t \in Token
        PROVE  \/ redeemed'[t] = 0
               \/ redeemed'[t] = redeemed[t] /\ Redeeming(t)' \subseteq Redeeming(t)
    <3>1. CASE token[t] = "live"
      BY <1>1, <3>1 DEF Redemptions, TokensTypeOK
    <3>2. CASE token[t] # "live"
      <4>1. ASSUME NEW r \in Redeeming(t)' PROVE r \in Redeeming(t)
        BY <3>2 DEF Redeeming
      <4> QED BY <4>1
    <3> QED BY <3>1, <3>2
  <2>2. \A t \in Token : redeemed'[t] > 0 => token'[t] = "used"
    BY <1>1 DEF Redemptions, TokensTypeOK
  <2>3. redeemed \in [Token -> Nat]
    BY <1>1 DEF TokensTypeOK
  <2> QED BY <1>1, <2>1, <2>2, <2>3, RedemptionsKept
<1>6. TokensMade'
  <2>1. LiveSet' \subseteq LiveSet
    BY <1>1 DEF LiveSet, Live, TokensTypeOK
  <2>2. ASSUME NEW r \in AccountRequest, apc'[r] = "issue"
        PROVE  \/ apc[r] = "issue" /\ au'[r] = au[r] /\ unused'[r] = unused[r]
               \/ \A t \in LiveSet : holder[t] = au'[r] /\ kind[t] = "reset" => t \in unused'[r]
    BY <2>2 DEF UnusedOf, LiveSet
  <2> QED BY <1>1, <2>1, <2>2, MakersKept
<1> QED BY <1>2, <1>3, <1>4, <1>5, <1>6 DEF TokensInductive

\* Issuing keeps the invariant: the new token is laid to the request, which has none left
\* of this account and kind, for it has seen and replaced them or the account is new.
LEMMA IssueKeepsTokens ==
    ASSUME TokensInductive, NEW r \in AccountRequest, NEW a \in Account,
           NEW k \in {"verify", "reset"}, NEW old \in SUBSET Token,
           \A q \in old : token[q] # "none",
           IssueToken(a, k, old), Leave(r), UNCHANGED <<required, delivered, redeemed>>,
           account' \in [Account -> {"none", "unverified", "verified"}], account'[a] # "none",
           \A b \in Account : account[b] # "none" => account'[b] # "none",
           \/ account[a] = "none"
           \/ k = "reset" /\ apc[r] = "issue" /\ au[r] = a /\ unused[r] = old
    PROVE  TokensInductive'
<1>1. TokensTypeOK /\ RequestsKnow /\ HoldersKnown /\ Redemptions /\ TokensMade
  BY DEF TokensInductive
<1>2. PICK t \in Token :
        /\ token[t] = "none"
        /\ token' = [q \in Token |-> IF q = t THEN "live"
                                     ELSE IF q \in old THEN "used" ELSE token[q]]
        /\ kind' = [kind EXCEPT ![t] = k]
        /\ holder' = [holder EXCEPT ![t] = a]
        /\ mail' = [mail EXCEPT ![t] = MailAttempts]
  BY DEF IssueToken, Fresh
<1>3. /\ apc' \in [AccountRequest -> RequestKinds]
      /\ au' \in [AccountRequest -> Account \cup {NoAccount}]
      /\ at' \in [AccountRequest -> 0 .. MaxToken]
      /\ unused' \in [AccountRequest -> SUBSET Token]
      /\ apc'[r] = "idle" /\ unused'[r] = {}
      /\ \A q \in AccountRequest \ {r} : /\ apc'[q] = apc[q] /\ au'[q] = au[q]
                                         /\ at'[q] = at[q] /\ unused'[q] = unused[q]
  BY <1>1, LeaveFacts
<1>4. /\ token'[t] = "live" /\ holder'[t] = a /\ kind'[t] = k
      /\ \A q \in Token \ {t} :
            /\ token'[q] = IF q \in old THEN "used" ELSE token[q]
            /\ holder'[q] = holder[q] /\ kind'[q] = kind[q] /\ mail'[q] = mail[q]
  BY <1>1, <1>2 DEF TokensTypeOK
<1>5. \A q \in Token : token[q] # "none" => token'[q] # "none"
  BY <1>4
<1>6. TokensTypeOK'
  <2>1. token' \in [Token -> {"none", "live", "expired", "used"}]
    BY <1>1, <1>2 DEF TokensTypeOK
  <2>2. kind' \in [Token -> {"verify", "reset"}]
    BY <1>1, <1>2 DEF TokensTypeOK
  <2>3. holder' \in [Token -> Account \cup {NoAccount}]
    BY <1>1, <1>2 DEF TokensTypeOK
  <2>4. mail' \in [Token -> 0 .. MailAttempts]
    BY <1>1, <1>2 DEF TokensTypeOK, MailAttempts
  <2> QED BY <1>1, <1>3, <2>1, <2>2, <2>3, <2>4 DEF TokensTypeOK, RequestKinds
<1>7. RequestsKnow'
  <2>1. ASSUME NEW q \in AccountRequest
        PROVE  /\ apc'[q] = "register" => au'[q] \in Account
               /\ apc'[q] = "issue" => au'[q] \in Account /\ account'[au'[q]] # "none"
               /\ apc'[q] = "redeem" => at'[q] \in Token /\ token'[at'[q]] # "none"
               /\ \A u \in unused'[q] : token'[u] # "none"
    <3>1. CASE q = r
      BY <3>1, <1>3
    <3>2. CASE q # r
      BY <3>2, <1>1, <1>3, <1>5 DEF RequestsKnow, TokensTypeOK
    <3> QED BY <3>1, <3>2
  <2> QED BY <2>1 DEF RequestsKnow
<1>8. HoldersKnown'
  <2>1. ASSUME NEW q \in Token \ {t}
        PROVE  /\ mail'[q] > 0 \/ delivered'[q] => token'[q] # "none"
               /\ token'[q] # "none" => holder'[q] \in Account /\ account'[holder'[q]] # "none"
    <3>1. token'[q] # "none" <=> token[q] # "none"
      BY <1>4
    <3>2. mail'[q] = mail[q] /\ holder'[q] = holder[q] /\ delivered'[q] = delivered[q]
      BY <1>4
    <3> QED BY <3>1, <3>2, <1>1 DEF HoldersKnown, TokensTypeOK
  <2>2. /\ mail'[t] > 0 \/ delivered'[t] => token'[t] # "none"
        /\ token'[t] # "none" => holder'[t] \in Account /\ account'[holder'[t]] # "none"
    BY <1>4
  <2> QED BY <2>1, <2>2 DEF HoldersKnown
<1>9. Redemptions'
  <2>1. ASSUME NEW q \in Token
        PROVE  /\ redeemed'[q] > 0 => token'[q] = "used"
               /\ redeemed'[q] = redeemed[q] /\ Redeeming(q)' \subseteq Redeeming(q)
    <3>1. redeemed'[q] > 0 => token'[q] = "used"
      BY <1>1, <1>2, <1>4 DEF Redemptions
    <3>2. ASSUME NEW p \in Redeeming(q)' PROVE p \in Redeeming(q)
      BY <1>3 DEF Redeeming
    <3> QED BY <3>1, <3>2
  <2>2. redeemed \in [Token -> Nat]
    BY <1>1 DEF TokensTypeOK
  <2> QED BY <1>1, <2>1, <2>2, RedemptionsKept
<1>10. TokensMade'
  <2>1. PICK maker \in [LiveSet -> AccountRequest] : TokenMakers(maker)
    BY <1>1 DEF TokensMade
  <2>2. PICK new : new = [q \in LiveSet' |-> IF q = t THEN r ELSE maker[q]]
    OBVIOUS
  <2>3. \A q \in LiveSet' : q # t =>
           /\ q \in Token /\ q \in LiveSet /\ q \notin old
           /\ holder'[q] = holder[q] /\ kind'[q] = kind[q]
    BY <1>4 DEF LiveSet, Live
  <2>4. \A q \in LiveSet' : new[q] = IF q = t THEN r ELSE maker[q]
    BY <2>2
  <2>5. new \in [LiveSet' -> AccountRequest]
    BY <2>2, <2>3
  <2>6. ASSUME NEW q \in LiveSet', q # t, holder'[q] = a, kind'[q] = k PROVE maker[q] # r
    <3>1. q \in LiveSet /\ q \notin old /\ holder[q] = a /\ kind[q] = k
      BY <2>3, <2>6
    <3>2. token[q] # "none" /\ q \in Token
      BY <3>1 DEF LiveSet, Live
    <3>3. account[a] # "none"
      BY <3>1, <3>2, <1>1 DEF HoldersKnown
    <3>4. k = "reset" /\ apc[r] = "issue" /\ au[r] = a /\ unused[r] = old
      BY <3>3
    <3> QED BY <3>1, <3>4, <2>1 DEF TokenMakers
  <2>7. ASSUME NEW q \in LiveSet', NEW u \in LiveSet',
               new[q] = new[u], holder'[q] = holder'[u], kind'[q] = kind'[u]
        PROVE  q = u
    <3>1. CASE q = t \/ u = t
      BY <3>1, <2>4, <2>6, <2>7, <1>4
    <3>2. CASE q # t /\ u # t
      BY <3>2, <2>1, <2>3, <2>4, <2>7 DEF TokenMakers
    <3> QED BY <3>1, <3>2
  <2>8. ASSUME NEW q \in LiveSet', kind'[q] = "reset",
               apc'[new[q]] = "issue", au'[new[q]] = holder'[q]
        PROVE  q \in unused'[new[q]]
    <3>1. new[q] # r /\ new[q] \in AccountRequest
      BY <1>3, <2>5, <2>8
    <3>2. q # t /\ new[q] = maker[q]
      BY <3>1, <2>4
    <3> QED BY <3>1, <3>2, <2>1, <2>3, <2>8, <1>3 DEF TokenMakers
  <2> QED BY <2>5, <2>7, <2>8 DEF TokensMade, TokenMakers
<1> QED BY <1>6, <1>7, <1>8, <1>9, <1>10 DEF TokensInductive

\* The transaction that redeems a token keeps the invariant: it uses the token up, and
\* with it one of the redemptions that were still to come.
LEMMA RedeemKeepsTokens ==
    ASSUME TokensInductive, NEW r \in AccountRequest, RedeemCommit(r)
    PROVE  TokensInductive'
<1>1. TokensTypeOK /\ RequestsKnow /\ HoldersKnown /\ Redemptions /\ TokensMade
  BY DEF TokensInductive
<1>2. PICK t \in Token : t = at[r]
  BY <1>1 DEF RedeemCommit, RequestsKnow
<1>3. /\ apc[r] = "redeem" /\ token[t] # "none"
      /\ token' = [q \in Token |->
                     IF q = t \/ q \in UnusedOf(holder[t], kind[t]) THEN "used" ELSE token[q]]
      /\ redeemed' = [redeemed EXCEPT ![t] = @ + 1]
      /\ account' = IF kind[t] = "verify" THEN [account EXCEPT ![au[r]] = "verified"] ELSE account
      /\ Leave(r)
      /\ UNCHANGED <<required, kind, holder, mail, delivered>>
  BY <1>1, <1>2 DEF RedeemCommit, Spend, mailVars, RequestsKnow
<1>4. /\ apc' \in [AccountRequest -> RequestKinds]
      /\ au' \in [AccountRequest -> Account \cup {NoAccount}]
      /\ at' \in [AccountRequest -> 0 .. MaxToken]
      /\ unused' \in [AccountRequest -> SUBSET Token]
      /\ apc'[r] = "idle" /\ unused'[r] = {}
      /\ \A q \in AccountRequest \ {r} : /\ apc'[q] = apc[q] /\ au'[q] = au[q]
                                         /\ at'[q] = at[q] /\ unused'[q] = unused[q]
  BY <1>1, <1>3, LeaveFacts
<1>5. /\ token'[t] = "used"
      /\ \A q \in Token : token'[q] = token[q] \/ (token[q] # "none" /\ token'[q] = "used")
  BY <1>3 DEF UnusedOf, Live
<1>6. /\ account' \in [Account -> {"none", "unverified", "verified"}]
      /\ \A b \in Account : account[b] # "none" => account'[b] # "none"
  BY <1>1, <1>3 DEF TokensTypeOK
<1>7. TokensTypeOK'
  <2>1. token' \in [Token -> {"none", "live", "expired", "used"}]
    BY <1>1, <1>3 DEF TokensTypeOK
  <2>2. redeemed' \in [Token -> Nat]
    BY <1>1, <1>3 DEF TokensTypeOK
  <2> QED BY <1>1, <1>3, <1>4, <1>6, <2>1, <2>2 DEF TokensTypeOK, RequestKinds
<1>8. RequestsKnow'
  <2>1. ASSUME NEW q \in AccountRequest
        PROVE  /\ apc'[q] = "register" => au'[q] \in Account
               /\ apc'[q] = "issue" => au'[q] \in Account /\ account'[au'[q]] # "none"
               /\ apc'[q] = "redeem" => at'[q] \in Token /\ token'[at'[q]] # "none"
               /\ \A u \in unused'[q] : token'[u] # "none"
    <3>1. CASE q = r
      BY <3>1, <1>4
    <3>2. CASE q # r
      <4>1. apc'[q] = "issue" => au'[q] \in Account /\ account'[au'[q]] # "none"
        BY <3>2, <1>1, <1>4, <1>6 DEF RequestsKnow
      <4>2. \A u \in Token : token[u] # "none" => token'[u] # "none"
        BY <1>5
      <4>3. unused[q] \subseteq Token
        BY <1>1 DEF TokensTypeOK
      <4> QED BY <3>2, <4>1, <4>2, <4>3, <1>1, <1>4 DEF RequestsKnow
    <3> QED BY <3>1, <3>2
  <2> QED BY <2>1 DEF RequestsKnow
<1>9. HoldersKnown'
  BY <1>1, <1>3, <1>5, <1>6 DEF HoldersKnown
<1>10. Redemptions'
  <2>1. ASSUME NEW q \in Token PROVE Redeeming(q)' \subseteq Redeeming(q)
    <3>1. ASSUME NEW p \in Redeeming(q)' PROVE p \in Redeeming(q)
      BY <1>4 DEF Redeeming
    <3> QED BY <3>1
  <2>2. r \in Redeeming(t) /\ r \notin Redeeming(t)'
    BY <1>2, <1>3, <1>4 DEF Redeeming
  <2>3. redeemed'[t] = redeemed[t] + 1 /\ \A q \in Token : q # t => redeemed'[q] = redeemed[q]
    BY <1>1, <1>3 DEF TokensTypeOK
  <2>4. \A q \in Token : redeemed'[q] > 0 => token'[q] = "used"
    <3>1. ASSUME NEW q \in Token, redeemed'[q] > 0 PROVE token'[q] = "used"
      <4>1. q = t \/ token[q] = "used"
        BY <2>3, <3>1, <1>1 DEF Redemptions
      <4> QED BY <4>1, <1>5
    <3> QED BY <3>1
  <2>5. \A q \in Token :
           \/ redeemed'[q] = redeemed[q] /\ Redeeming(q)' \subseteq Redeeming(q)
           \/ /\ redeemed'[q] = redeemed[q] + 1 /\ Redeeming(q)' \subseteq Redeeming(q)
              /\ \E p \in Redeeming(q) : p \notin Redeeming(q)'
    BY <2>1, <2>2, <2>3
  <2>6. redeemed \in [Token -> Nat]
    BY <1>1 DEF TokensTypeOK
  <2> QED BY <1>1, <2>4, <2>5, <2>6, RedemptionsKept
<1>11. TokensMade'
  <2>1. LiveSet' \subseteq LiveSet
    BY <1>5 DEF LiveSet, Live
  <2>2. \A q \in AccountRequest : apc'[q] = "issue" =>
           apc[q] = "issue" /\ au'[q] = au[q] /\ unused'[q] = unused[q]
    BY <1>4
  <2>3. UNCHANGED <<holder, kind>>
    BY <1>3
  <2> QED BY <1>1, <2>1, <2>2, <2>3, MakersKept
<1> QED BY <1>7, <1>8, <1>9, <1>10, <1>11 DEF TokensInductive

\* At first there is no account, no token and no request.
LEMMA TokensInitInductive == TokensInit => TokensInductive
<1> SUFFICES ASSUME TokensInit PROVE TokensInductive
  OBVIOUS
<1>1. TokensTypeOK
  BY AccountAssumption DEF TokensInit, TokensTypeOK, MailAttempts
<1>2. RequestsKnow /\ HoldersKnown
  BY DEF TokensInit, RequestsKnow, HoldersKnown
<1>3. Redemptions
  <2>1. ASSUME NEW t \in Token
        PROVE  redeemed[t] = 0 /\ redeemed[t] + Cardinality(Redeeming(t)) <= Cardinality(AccountRequest)
    <3>1. Redeeming(t) \subseteq AccountRequest /\ IsFiniteSet(AccountRequest)
      BY AccountAssumption DEF Redeeming
    <3>2. /\ Cardinality(Redeeming(t)) <= Cardinality(AccountRequest)
          /\ Cardinality(Redeeming(t)) \in Nat
      BY <3>1, PartsAreFewer
    <3>3. redeemed[t] = 0
      BY DEF TokensInit
    <3> QED BY <3>2, <3>3
  <2> QED BY <2>1 DEF Redemptions
<1>4. TokensMade
  <2>1. LiveSet = {}
    BY DEF TokensInit, LiveSet, Live
  <2>2. [t \in {} |-> 0] \in [LiveSet -> AccountRequest]
    BY <2>1
  <2> QED BY <2>1, <2>2 DEF TokensMade, TokenMakers
<1> QED BY <1>1, <1>2, <1>3, <1>4 DEF TokensInductive

\* An account that is made without a token keeps the invariant: its request is over.
LEMMA AccountsGrow ==
    ASSUME TokensInductive, NEW r \in AccountRequest, Leave(r),
           UNCHANGED <<required, token, kind, holder, mail, delivered, redeemed>>,
           account' \in [Account -> {"none", "unverified", "verified"}],
           \A b \in Account : account[b] # "none" => account'[b] # "none"
    PROVE  TokensInductive'
<1>1. TokensTypeOK /\ RequestsKnow /\ HoldersKnown /\ Redemptions /\ TokensMade
  BY DEF TokensInductive
<1>2. /\ apc' \in [AccountRequest -> RequestKinds]
      /\ au' \in [AccountRequest -> Account \cup {NoAccount}]
      /\ at' \in [AccountRequest -> 0 .. MaxToken]
      /\ unused' \in [AccountRequest -> SUBSET Token]
      /\ apc'[r] = "idle" /\ unused'[r] = {}
      /\ \A q \in AccountRequest \ {r} : /\ apc'[q] = apc[q] /\ au'[q] = au[q]
                                         /\ at'[q] = at[q] /\ unused'[q] = unused[q]
  BY <1>1, LeaveFacts
<1>3. TokensTypeOK'
  BY <1>1, <1>2 DEF TokensTypeOK, RequestKinds
<1>4. RequestsKnow'
  <2>1. ASSUME NEW q \in AccountRequest
        PROVE  /\ apc'[q] = "register" => au'[q] \in Account
               /\ apc'[q] = "issue" => au'[q] \in Account /\ account'[au'[q]] # "none"
               /\ apc'[q] = "redeem" => at'[q] \in Token /\ token'[at'[q]] # "none"
               /\ \A u \in unused'[q] : token'[u] # "none"
    <3>1. CASE q = r
      BY <3>1, <1>2
    <3>2. CASE q # r
      BY <3>2, <1>1, <1>2 DEF RequestsKnow
    <3> QED BY <3>1, <3>2
  <2> QED BY <2>1 DEF RequestsKnow
<1>5. HoldersKnown'
  BY <1>1 DEF HoldersKnown
<1>6. Redemptions'
  <2>1. ASSUME NEW q \in Token PROVE Redeeming(q)' \subseteq Redeeming(q)
    <3>1. ASSUME NEW p \in Redeeming(q)' PROVE p \in Redeeming(q)
      BY <1>2 DEF Redeeming
    <3> QED BY <3>1
  <2>2. \A q \in Token : redeemed'[q] > 0 => token'[q] = "used"
    BY <1>1 DEF Redemptions
  <2>3. redeemed \in [Token -> Nat]
    BY <1>1 DEF TokensTypeOK
  <2> QED BY <1>1, <2>1, <2>2, <2>3, RedemptionsKept
<1>7. TokensMade'
  <2>1. LiveSet' \subseteq LiveSet
    BY DEF LiveSet, Live
  <2> QED BY <1>1, <1>2, <2>1, MakersKept
<1> QED BY <1>3, <1>4, <1>5, <1>6, <1>7 DEF TokensInductive

\* A call of sendMail that succeeds or fails changes no token.
LEMMA MailKeepsTokens ==
    ASSUME TokensInductive, NEW t \in Token, SendMail(t)
    PROVE  TokensInductive'
<1>1. TokensTypeOK /\ RequestsKnow /\ HoldersKnown /\ Redemptions /\ TokensMade
  BY DEF TokensInductive
<1>2. UNCHANGED <<required, account, token, kind, holder, redeemed, apc, au, at, unused>>
  BY DEF SendMail, rowsOfTokens, accReqVars
<1>3. /\ mail' \in [Token -> 0 .. MailAttempts] /\ delivered' \in [Token -> BOOLEAN]
      /\ \A q \in Token : mail'[q] > 0 \/ delivered'[q] => mail[q] > 0 \/ delivered[q]
  <2>1. mail[t] \in 0 .. MailAttempts /\ mail[t] > 0
    BY <1>1 DEF SendMail, TokensTypeOK
  <2>2. CASE delivered' = [delivered EXCEPT ![t] = TRUE] /\ mail' = [mail EXCEPT ![t] = 0]
    BY <1>1, <2>1, <2>2 DEF TokensTypeOK, MailAttempts
  <2>3. CASE mail' = [mail EXCEPT ![t] = @ - 1] /\ delivered' = delivered
    BY <1>1, <2>1, <2>3 DEF TokensTypeOK, MailAttempts
  <2> QED BY <2>2, <2>3 DEF SendMail, WithRetry
<1>4. TokensTypeOK'
  BY <1>1, <1>2, <1>3 DEF TokensTypeOK
<1>5. RequestsKnow' /\ HoldersKnown'
  BY <1>1, <1>2, <1>3 DEF RequestsKnow, HoldersKnown
<1>6. Redemptions'
  <2>1. \A q \in Token : Redeeming(q)' = Redeeming(q)
    BY <1>2 DEF Redeeming
  <2> QED BY <1>1, <1>2, <2>1 DEF Redemptions
<1>7. TokensMade'
  <2>1. LiveSet' = LiveSet
    BY <1>2 DEF LiveSet, Live
  <2> QED BY <1>1, <1>2, <2>1 DEF TokensMade, TokenMakers
<1> QED BY <1>4, <1>5, <1>6, <1>7 DEF TokensInductive

\* A request that comes in, having looked its account or token up, keeps the invariant.
LEMMA EnterKeepsTokens ==
    ASSUME TokensInductive, NEW r \in AccountRequest, NEW step \in RequestKinds,
           NEW a \in Account \cup {NoAccount}, NEW t \in 0 .. MaxToken, NEW old \in SUBSET Token,
           Enter(r, step, a, t, old),
           UNCHANGED <<required, account, rowsOfTokens, mailVars, redeemed>>,
           \/ step = "register" /\ a \in Account /\ old = {}
           \/ step = "issue" /\ a \in Account /\ account[a] # "none" /\ old = UnusedOf(a, "reset")
           \/ step = "redeem" /\ t \in Token /\ token[t] = "live" /\ old = {}
    PROVE  TokensInductive'
<1>1. TokensTypeOK
  BY DEF TokensInductive
<1>2. /\ apc' \in [AccountRequest -> RequestKinds]
      /\ au' \in [AccountRequest -> Account \cup {NoAccount}]
      /\ at' \in [AccountRequest -> 0 .. MaxToken]
      /\ unused' \in [AccountRequest -> SUBSET Token]
      /\ apc'[r] = step /\ au'[r] = a /\ at'[r] = t /\ unused'[r] = old
      /\ \A q \in AccountRequest \ {r} : /\ apc'[q] = apc[q] /\ au'[q] = au[q]
                                         /\ at'[q] = at[q] /\ unused'[q] = unused[q]
  BY <1>1, RequestFacts DEF Enter
<1>3. UNCHANGED <<required, account, token, kind, holder, mail, delivered, redeemed>>
  BY DEF rowsOfTokens, mailVars
<1>4. /\ mail' \in [Token -> 0 .. MailAttempts]
      /\ token' \in [Token -> {"none", "live", "expired", "used"}]
  BY <1>1, <1>3 DEF TokensTypeOK
<1>5. UnusedOf(a, "reset")' = UnusedOf(a, "reset")
  BY <1>3 DEF UnusedOf, Live
<1>6. ASSUME NEW q \in AccountRequest
      PROVE  \/ apc'[q] = apc[q] /\ au'[q] = au[q] /\ at'[q] = at[q] /\ unused'[q] = unused[q]
             \/ apc'[q] = "register" /\ au'[q] \in Account /\ unused'[q] = {}
             \/ /\ apc'[q] = "issue" /\ au'[q] \in Account /\ account[au'[q]] # "none"
                /\ unused'[q] = UnusedOf(au'[q], "reset")
             \/ /\ apc'[q] = "redeem" /\ at'[q] \in Token /\ token[at'[q]] = "live"
                /\ unused'[q] = {}
  BY <1>2
<1> QED BY <1>2, <1>3, <1>4, <1>6, RequestKeepsTokens

\* Every step keeps the invariant.
LEMMA TokensNextInductive == TokensInductive /\ [TokensNext]_tokensVars => TokensInductive'
<1> SUFFICES ASSUME TokensInductive, [TokensNext]_tokensVars PROVE TokensInductive'
  OBVIOUS
<1>1. /\ TokensTypeOK /\ RequestsKnow /\ HoldersKnown
      /\ 0 \in 0 .. MaxToken /\ NoAccount \in Account \cup {NoAccount}
      /\ "register" \in RequestKinds /\ "issue" \in RequestKinds /\ "redeem" \in RequestKinds
  BY AccountAssumption DEF TokensInductive, RequestKinds
<1>2. /\ apc \in [AccountRequest -> RequestKinds]
      /\ au \in [AccountRequest -> Account \cup {NoAccount}]
      /\ at \in [AccountRequest -> 0 .. MaxToken]
      /\ unused \in [AccountRequest -> SUBSET Token]
      /\ mail \in [Token -> 0 .. MailAttempts]
      /\ token \in [Token -> {"none", "live", "expired", "used"}]
      /\ account \in [Account -> {"none", "unverified", "verified"}]
  BY <1>1 DEF TokensTypeOK, RequestKinds
<1>3. CASE UNCHANGED tokensVars
  <2>1. UNCHANGED <<required, account, token, kind, holder, mail, delivered, redeemed,
                    apc, au, at, unused>>
    BY <1>3 DEF tokensVars, rowsOfTokens, mailVars, accReqVars
  <2> QED BY <1>2, <2>1, RequestKeepsTokens
<1>4. ASSUME NEW r \in AccountRequest, NEW a \in Account, RegisterCheck(r, a)
      PROVE  TokensInductive'
  <2>1. CASE account[a] # "none"
    BY <1>3, <1>4, <2>1 DEF RegisterCheck, tokensVars
  <2>2. CASE account[a] = "none"
    <3>1. /\ Enter(r, "register", a, 0, {})
          /\ UNCHANGED <<required, account, rowsOfTokens, mailVars, redeemed>>
      BY <1>4, <2>2 DEF RegisterCheck
    <3> QED BY <1>1, <3>1, EnterKeepsTokens
  <2> QED BY <2>1, <2>2
<1>5. ASSUME NEW r \in AccountRequest, NEW a \in Account, RequestPasswordReset(r, a)
      PROVE  TokensInductive'
  <2>1. CASE account[a] = "none"
    BY <1>3, <1>5, <2>1 DEF RequestPasswordReset, tokensVars
  <2>2. CASE account[a] # "none"
    <3>1. /\ Enter(r, "issue", a, 0, UnusedOf(a, "reset"))
          /\ UNCHANGED <<required, account, rowsOfTokens, mailVars, redeemed>>
          /\ UnusedOf(a, "reset") \in SUBSET Token
      BY <1>5, <2>2 DEF RequestPasswordReset, UnusedOf
    <3> QED BY <1>1, <2>2, <3>1, EnterKeepsTokens
  <2> QED BY <2>1, <2>2
<1>6. ASSUME NEW t \in Token, token[t] # "none", NEW v \in {"used", "expired"},
             v = "expired" => token[t] = "live", token' = [token EXCEPT ![t] = v],
             UNCHANGED <<required, account, kind, holder, mail, delivered, redeemed,
                         apc, au, at, unused>>
      PROVE  TokensInductive'
  <2>1. token' \in [Token -> {"none", "live", "expired", "used"}]
    BY <1>2, <1>6
  <2>2. \A q \in Token : \/ token'[q] = token[q]
                         \/ token[q] # "none" /\ token'[q] = "used"
                         \/ token[q] = "live" /\ token'[q] = "expired"
    BY <1>2, <1>6
  <2> QED BY <1>2, <1>6, <2>1, <2>2, RequestKeepsTokens
<1>7. ASSUME NEW r \in AccountRequest, NEW t \in Token, Redeem(r, t) PROVE TokensInductive'
  <2>1. token[t] # "none"
    BY <1>1, <1>7 DEF Redeem, HoldersKnown
  <2>2. CASE token[t] = "live"
    <3>1. /\ Enter(r, "redeem", holder[t], t, {})
          /\ UNCHANGED <<required, account, rowsOfTokens, mailVars, redeemed>>
      BY <1>7, <2>2 DEF Redeem, rowsOfTokens
    <3>2. holder[t] \in Account \cup {NoAccount} /\ t \in 0 .. MaxToken
      BY <1>1, AccountAssumption DEF TokensTypeOK, Token
    <3> QED BY <1>1, <2>2, <3>1, <3>2, EnterKeepsTokens
  <2>3. CASE token[t] # "live"
    <3>1. /\ token' = [token EXCEPT ![t] = "used"]
          /\ UNCHANGED <<required, account, kind, holder, mail, delivered, redeemed,
                         apc, au, at, unused>>
      BY <1>7, <2>3 DEF Redeem, mailVars, accReqVars
    <3> QED BY <2>1, <3>1, <1>6
  <2> QED BY <2>2, <2>3
<1>8. ASSUME NEW r \in AccountRequest, RegisterCommit(r) PROVE TokensInductive'
  <2>1. apc[r] = "register" /\ Leave(r) /\ UNCHANGED <<required, redeemed, delivered>>
    BY <1>8 DEF RegisterCommit, mailVars
  <2>2. PICK a \in Account : a = au[r]
    BY <1>1, <2>1 DEF RequestsKnow
  <2>3. /\ apc' \in [AccountRequest -> RequestKinds]
        /\ au' \in [AccountRequest -> Account \cup {NoAccount}]
        /\ at' \in [AccountRequest -> 0 .. MaxToken]
        /\ unused' \in [AccountRequest -> SUBSET Token]
        /\ apc'[r] = "idle" /\ unused'[r] = {}
        /\ \A q \in AccountRequest \ {r} : /\ apc'[q] = apc[q] /\ au'[q] = au[q]
                                           /\ at'[q] = at[q] /\ unused'[q] = unused[q]
    BY <1>1, <2>1, LeaveFacts
  <2>4. CASE UNCHANGED <<account, token, kind, holder, mail>>
    BY <1>2, <2>1, <2>3, <2>4, RequestKeepsTokens
  <2>5. CASE account[a] = "none"
    <3>1. /\ account' = [account EXCEPT ![a] = IF required THEN "unverified" ELSE "verified"]
          /\ IF required THEN IssueToken(a, "verify", {}) ELSE UNCHANGED <<rowsOfTokens, mail>>
      BY <1>8, <2>2, <2>5 DEF RegisterCommit
    <3>2. /\ account' \in [Account -> {"none", "unverified", "verified"}]
          /\ account'[a] # "none"
          /\ \A b \in Account : account[b] # "none" => account'[b] # "none"
      BY <1>2, <3>1
    <3>3. CASE required
      <4>1. IssueToken(a, "verify", {})
        BY <3>1, <3>3
      <4> QED BY <2>1, <2>5, <3>2, <4>1, IssueKeepsTokens
    <3>4. CASE ~required
      <4>1. UNCHANGED <<token, kind, holder, mail>>
        BY <3>1, <3>4 DEF rowsOfTokens
      <4> QED BY <2>1, <2>3, <3>2, <4>1, AccountsGrow
    <3> QED BY <3>3, <3>4
  <2> QED BY <1>8, <2>2, <2>4, <2>5 DEF RegisterCommit, rowsOfTokens, mailVars
<1>9. ASSUME NEW r \in AccountRequest, IssueCommit(r) PROVE TokensInductive'
  <2>1. /\ apc[r] = "issue" /\ Leave(r) /\ UNCHANGED <<required, account, redeemed, delivered>>
        /\ IssueToken(au[r], "reset", unused[r])
    BY <1>9 DEF IssueCommit
  <2>2. /\ au[r] \in Account /\ account[au[r]] # "none" /\ unused[r] \in SUBSET Token
        /\ \A q \in unused[r] : token[q] # "none"
    BY <1>1, <1>2, <2>1 DEF RequestsKnow
  <2> QED BY <1>2, <2>1, <2>2, IssueKeepsTokens
<1>10. ASSUME NEW r \in AccountRequest, RedeemCommit(r) PROVE TokensInductive'
  BY <1>10, RedeemKeepsTokens
<1>11. ASSUME NEW r \in AccountRequest, AbortRequest(r) PROVE TokensInductive'
  <2>1. /\ Leave(r)
        /\ UNCHANGED <<required, account, token, kind, holder, mail, delivered, redeemed>>
    BY <1>11 DEF AbortRequest, rowsOfTokens, mailVars
  <2>2. /\ apc' \in [AccountRequest -> RequestKinds]
        /\ au' \in [AccountRequest -> Account \cup {NoAccount}]
        /\ at' \in [AccountRequest -> 0 .. MaxToken]
        /\ unused' \in [AccountRequest -> SUBSET Token]
        /\ apc'[r] = "idle" /\ unused'[r] = {}
        /\ \A q \in AccountRequest \ {r} : /\ apc'[q] = apc[q] /\ au'[q] = au[q]
                                           /\ at'[q] = at[q] /\ unused'[q] = unused[q]
    BY <1>1, <2>1, LeaveFacts
  <2> QED BY <1>2, <2>1, <2>2, RequestKeepsTokens
<1>12. ASSUME NEW t \in Token, ExpireToken(t) PROVE TokensInductive'
  <2>1. /\ token[t] = "live" /\ token' = [token EXCEPT ![t] = "expired"]
        /\ UNCHANGED <<required, account, kind, holder, mail, delivered, redeemed,
                       apc, au, at, unused>>
    BY <1>12 DEF ExpireToken, mailVars, accReqVars
  <2> QED BY <2>1, <1>6
<1>13. ASSUME NEW t \in Token, SendMail(t) PROVE TokensInductive'
  BY <1>13, MailKeepsTokens
<1>14. CASE ProcessStops
  <2>1. /\ mail' \in [Token -> 0 .. MailAttempts] /\ \A t \in Token : mail'[t] = 0
        /\ apc' \in [AccountRequest -> RequestKinds]
        /\ au' \in [AccountRequest -> Account \cup {NoAccount}]
        /\ at' \in [AccountRequest -> 0 .. MaxToken]
        /\ unused' \in [AccountRequest -> SUBSET Token]
        /\ \A r \in AccountRequest : apc'[r] = "idle" /\ unused'[r] = {}
    BY <1>1, <1>14 DEF ProcessStops, MailAttempts, RequestKinds
  <2>2. UNCHANGED <<required, account, token, kind, holder, delivered, redeemed>>
    BY <1>14 DEF ProcessStops, rowsOfTokens
  <2>3. \A t \in Token : mail'[t] > 0 => mail[t] > 0
    BY <2>1
  <2> QED BY <1>2, <2>1, <2>2, <2>3, RequestKeepsTokens
<1> QED BY <1>3, <1>4, <1>5, <1>7, <1>8, <1>9, <1>10, <1>11, <1>12, <1>13, <1>14 DEF TokensNext

\* Tokens, accounts and requests agree as TokensInductive says.
THEOREM TokensInductiveInvariant == TokensSpec => []TokensInductive
  BY TokensInitInductive, TokensNextInductive, PTL DEF TokensSpec

(***************************************************************************)
(* However many requests overlap, no token is redeemed more often, and no  *)
(* account has more unused tokens of a kind, than there are requests at    *)
(* once (auth.service.ts).                                                 *)
(***************************************************************************)
THEOREM TokensFew == TokensSpec => []TokensOverlap
<1>1. TokensInductive => TokensOverlap
  <2> SUFFICES ASSUME TokensInductive PROVE TokensOverlap
    OBVIOUS
  <2>1. ASSUME NEW t \in Token PROVE redeemed[t] <= Cardinality(AccountRequest)
    <3>1. Redeeming(t) \subseteq AccountRequest /\ IsFiniteSet(AccountRequest)
      BY AccountAssumption DEF Redeeming
    <3>2. Cardinality(Redeeming(t)) \in Nat /\ Cardinality(AccountRequest) \in Nat
      BY <3>1, PartsAreFewer
    <3>3. /\ redeemed[t] \in Nat
          /\ redeemed[t] + Cardinality(Redeeming(t)) <= Cardinality(AccountRequest)
      BY DEF TokensInductive, TokensTypeOK, Redemptions
    <3> QED BY <3>2, <3>3
  <2>2. ASSUME NEW a \in Account, NEW k \in {"verify", "reset"}
        PROVE  Cardinality(UnusedOf(a, k)) <= Cardinality(AccountRequest)
    <3>1. PICK maker \in [LiveSet -> AccountRequest] : TokenMakers(maker)
      BY DEF TokensInductive, TokensMade
    <3>2. PICK U : U = UnusedOf(a, k)
      OBVIOUS
    <3>3. U \subseteq LiveSet /\ \A t \in U : holder[t] = a /\ kind[t] = k
      BY <3>2 DEF UnusedOf, LiveSet
    <3>4. PICK mine : mine = [t \in U |-> maker[t]]
      OBVIOUS
    <3>5. mine \in [U -> AccountRequest] /\ \A t \in U : mine[t] = maker[t]
      BY <3>3, <3>4
    <3>6. \A t, u \in U : mine[t] = mine[u] => t = u
      BY <3>1, <3>3, <3>5 DEF TokenMakers
    <3>7. mine \in Injection(U, AccountRequest)
      BY <3>5, <3>6 DEF Injection, IsInjective
    <3> QED BY <3>2, <3>7, FS_Injection, AccountAssumption
  <2> QED BY <2>1, <2>2 DEF TokensOverlap
<1> QED BY <1>1, TokensInductiveInvariant, PTL

(***************************************************************************)
(*                            The login lockout                            *)
(***************************************************************************)

\* A row that is not locked has room for another failure.
Fits(a) ==
    /\ a.failCount <= LoginMaxAttempts
    /\ a.lockedUntil = 0 => a.failCount < LoginMaxAttempts

RowsFit ==
    /\ Fits(attempt)
    /\ \A r \in LoginRequest :
         Fits(record[r]) /\ (lpc[r] = "record" => record[r].lastFailedAt \in 1 .. clock)

\* Who is in progress while a lock lasts was so when it was set.
LockSeen == Locked => \A r \in LoginRequest : lpc[r] # "idle" => r \in early

\* The last n of the times s lie within the window of one another; the one before does not.
Runs(s, n) ==
    /\ n \in 1 .. Len(s)
    /\ \A i \in Len(s) - n + 1 .. Len(s) - 1 : s[i + 1] - s[i] <= AttemptWindow
    /\ n < Len(s) => s[Len(s) - n + 1] - s[Len(s) - n] > AttemptWindow

\* A failure at time t opens a run: none before it lies within the window.
Opens(s, t) == s = <<>> \/ t - s[Len(s)] > AttemptWindow

\* The row tells the run of failures: none that still counts, one not long enough, or one
\* that is due.
RowTells ==
    /\ attempt = NoAttempt => ~Due /\ Opens(recent, clock)
    /\ attempt # NoAttempt /\ attempt.lockedUntil = 0 =>
         /\ Runs(recent, attempt.failCount) /\ attempt.failCount < LoginMaxAttempts
         /\ recent[Len(recent)] = attempt.lastFailedAt
    /\ attempt.lockedUntil # 0 => Due

\* The number of failures that one at time t will make.
CountAt(t) ==
    IF attempt # NoAttempt /\ t - attempt.lastFailedAt <= AttemptWindow
      THEN attempt.failCount + 1 ELSE 1

\* A login about to write has computed its row from the present one.
Computed(r) ==
    LET t == record[r].lastFailedAt
    IN /\ isNew[r] = (attempt = NoAttempt)
       /\ attempt = NoAttempt => Opens(recent, t)
       /\ record[r].failCount = CountAt(t)
       /\ record[r].lockedUntil = IF CountAt(t) >= LoginMaxAttempts THEN t + Lockout ELSE 0

\* As long as logins do not overlap: one is in progress at most, past its check the row is
\* not locked, and it drops a row only when that is outdated.
OneByOne ==
    /\ \A q, r \in LoginRequest : lpc[q] # "idle" /\ lpc[r] # "idle" => q = r
    /\ \A r \in LoginRequest :
         /\ lpc[r] \in {"verify", "failed", "record", "clear"} => attempt.lockedUntil = 0
         /\ lpc[r] = "drop" => Outdated
         /\ lpc[r] = "record" => Computed(r)

LockInductive == LockTypeOK /\ RowsFit /\ LockSeen /\ (alone => RowTells /\ OneByOne)

\* The last entries of the times, when another is appended: one has gone, or none.
LEMMA LastOfAppended ==
    ASSUME NEW s \in Seq(1 .. MaxClock), Len(s) <= LoginMaxAttempts, NEW t \in 1 .. MaxClock,
           NEW u, u = LastOf(Append(s, t))
    PROVE  /\ u \in Seq(1 .. MaxClock) /\ Len(u) \in Nat /\ 1 <= Len(u)
           /\ Len(u) <= LoginMaxAttempts /\ u[Len(u)] = t
           /\ \E d \in {0, 1} :
                /\ Len(u) = Len(s) + 1 - d
                /\ d = 1 <=> Len(s) = LoginMaxAttempts
                /\ \A i \in 1 .. Len(s) - d : u[i] = s[i + d]
<1>1. LoginMaxAttempts \in Nat \ {0} /\ Len(s) \in Nat
  BY LockoutAssumption
<1>2. PICK a : a = Append(s, t)
  OBVIOUS
<1>3. /\ a \in Seq(1 .. MaxClock) /\ Len(a) = Len(s) + 1 /\ a[Len(s) + 1] = t
      /\ \A i \in 1 .. Len(s) : a[i] = s[i]
  BY <1>2
<1>4. CASE Len(s) < LoginMaxAttempts
  <2>1. u = a
    BY <1>1, <1>2, <1>3, <1>4 DEF LastOf
  <2>2. /\ Len(u) = Len(s) + 1 - 0 /\ (0 = 1 <=> Len(s) = LoginMaxAttempts)
        /\ \A i \in 1 .. Len(s) - 0 : u[i] = s[i + 0]
    BY <1>1, <1>3, <1>4, <2>1
  <2>3. /\ u \in Seq(1 .. MaxClock) /\ Len(u) \in Nat /\ 1 <= Len(u)
        /\ Len(u) <= LoginMaxAttempts /\ u[Len(u)] = t
    BY <1>1, <1>3, <1>4, <2>1
  <2> QED BY <2>2, <2>3
<1>5. CASE Len(s) = LoginMaxAttempts
  <2>1. u = Tail(a)
    BY <1>1, <1>2, <1>3, <1>5 DEF LastOf
  <2>2. a # <<>>
    BY <1>1, <1>3
  <2>3. /\ u \in Seq(1 .. MaxClock) /\ Len(u) = Len(s)
        /\ \A i \in 1 .. Len(s) : u[i] = a[i + 1]
    BY <1>1, <1>3, <2>1, <2>2
  <2>4. \A i \in 1 .. Len(s) - 1 : u[i] = s[i + 1]
    <3>1. ASSUME NEW i \in 1 .. Len(s) - 1 PROVE u[i] = s[i + 1]
      <4>1. i \in 1 .. Len(s) /\ i + 1 \in 1 .. Len(s)
        BY <1>1
      <4> QED BY <4>1, <2>3, <1>3
    <3> QED BY <3>1
  <2>5. Len(s) \in 1 .. Len(s) /\ u[Len(s)] = t
    BY <1>1, <1>3, <1>5, <2>3
  <2>6. Len(u) = Len(s) + 1 - 1 /\ (1 = 1 <=> Len(s) = LoginMaxAttempts)
    BY <1>1, <1>5, <2>3
  <2>7. Len(u) \in Nat /\ 1 <= Len(u) /\ Len(u) <= LoginMaxAttempts /\ u[Len(u)] = t
    BY <1>1, <1>5, <2>3, <2>5
  <2> QED BY <2>3, <2>4, <2>6, <2>7
<1> QED BY <1>1, <1>4, <1>5

\* A failure within the window makes the run longer by one, or the lock due.
LEMMA RunGrows ==
    ASSUME NEW s \in Seq(1 .. MaxClock), Len(s) <= LoginMaxAttempts, NEW t \in 1 .. MaxClock,
           NEW u, u = LastOf(Append(s, t)), NEW n, Runs(s, n), n < LoginMaxAttempts,
           t - s[Len(s)] <= AttemptWindow
    PROVE  /\ n + 1 < LoginMaxAttempts => Runs(u, n + 1)
           /\ n + 1 >= LoginMaxAttempts =>
                /\ Len(u) = LoginMaxAttempts
                /\ \A i \in 1 .. LoginMaxAttempts - 1 : u[i + 1] - u[i] <= AttemptWindow
<1>1. LoginMaxAttempts \in Nat \ {0} /\ AttemptWindow \in Nat
  BY LockoutAssumption
<1>2. PICK L \in Nat : L = Len(s)
  OBVIOUS
<1>3. /\ n \in 1 .. L /\ L <= LoginMaxAttempts
      /\ \A i \in L - n + 1 .. L - 1 : s[i + 1] - s[i] <= AttemptWindow
      /\ n < L => s[L - n + 1] - s[L - n] > AttemptWindow
  BY <1>2 DEF Runs
<1>4. PICK d \in {0, 1} :
        /\ Len(u) = L + 1 - d
        /\ d = 1 <=> L = LoginMaxAttempts
        /\ \A i \in 1 .. L - d : u[i] = s[i + d]
  BY <1>2, LastOfAppended
<1>5. u[L + 1 - d] = t
  BY <1>4, LastOfAppended
<1>6. ASSUME NEW i \in 1 .. L - d, i >= L + 1 - d - n PROVE u[i + 1] - u[i] <= AttemptWindow
  <2>1. u[i] = s[i + d]
    BY <1>4
  <2>2. CASE i = L - d
    <3>1. u[i] = s[L] /\ u[i + 1] = t
      <4>1. i + d = L /\ i + 1 = L + 1 - d
        BY <2>2, <1>2, <1>4
      <4> QED BY <4>1, <2>1, <1>5
    <3> QED BY <3>1, <1>2
  <2>3. CASE i < L - d
    <3>1. i + 1 \in 1 .. L - d
      BY <2>3, <1>4
    <3>2. u[i + 1] = s[i + 1 + d]
      BY <3>1, <1>4
    <3>3. PICK j : j = i + d
      OBVIOUS
    <3>4. j \in L - n + 1 .. L - 1 /\ i + 1 + d = j + 1
      BY <1>3, <1>4, <1>6, <2>3, <3>3
    <3> QED BY <2>1, <3>2, <3>3, <3>4, <1>3
  <2> QED BY <1>4, <2>2, <2>3
<1>7. ASSUME n + 1 < LoginMaxAttempts PROVE Runs(u, n + 1)
  <2>1. n + 1 \in 1 .. Len(u)
    BY <1>1, <1>3, <1>4, <1>7
  <2>2. \A i \in Len(u) - (n + 1) + 1 .. Len(u) - 1 : u[i + 1] - u[i] <= AttemptWindow
    <3>1. ASSUME NEW i \in Len(u) - (n + 1) + 1 .. Len(u) - 1
          PROVE  i \in 1 .. L - d /\ i >= L + 1 - d - n
      BY <2>1, <1>3, <1>4
    <3> QED BY <3>1, <1>6
  <2>3. ASSUME n + 1 < Len(u)
        PROVE  u[Len(u) - (n + 1) + 1] - u[Len(u) - (n + 1)] > AttemptWindow
    <3>1. PICK i : i = L - d - n
      OBVIOUS
    <3>2. /\ i \in 1 .. L - d /\ i + 1 \in 1 .. L - d
          /\ Len(u) - (n + 1) = i /\ Len(u) - (n + 1) + 1 = i + 1
      BY <1>3, <1>4, <2>3, <3>1
    <3>3. u[i] = s[i + d] /\ u[i + 1] = s[i + 1 + d]
      BY <3>2, <1>4
    <3>4. i + d = L - n /\ i + 1 + d = L - n + 1 /\ n < L
      BY <1>3, <1>4, <2>3, <3>1
    <3>5. s[L - n + 1] - s[L - n] > AttemptWindow
      BY <3>4, <1>3
    <3> QED BY <3>2, <3>3, <3>4, <3>5
  <2> QED BY <2>1, <2>2, <2>3 DEF Runs
<1>8. ASSUME n + 1 >= LoginMaxAttempts
      PROVE  /\ Len(u) = LoginMaxAttempts
             /\ \A i \in 1 .. LoginMaxAttempts - 1 : u[i + 1] - u[i] <= AttemptWindow
  <2>1. Len(u) = LoginMaxAttempts /\ n + 1 = LoginMaxAttempts
    BY <1>1, <1>3, <1>4, <1>8
  <2>2. \A i \in 1 .. LoginMaxAttempts - 1 : i \in 1 .. L - d /\ i >= L + 1 - d - n
    BY <2>1, <1>3, <1>4
  <2> QED BY <2>1, <2>2, <1>6
<1> QED BY <1>7, <1>8

\* A failure that none within the window came before begins a run.
LEMMA RunStarts ==
    ASSUME NEW s \in Seq(1 .. MaxClock), Len(s) <= LoginMaxAttempts, NEW t \in 1 .. MaxClock,
           NEW u, u = LastOf(Append(s, t)), Opens(s, t)
    PROVE  /\ 1 < LoginMaxAttempts => Runs(u, 1)
           /\ 1 >= LoginMaxAttempts =>
                /\ Len(u) = LoginMaxAttempts
                /\ \A i \in 1 .. LoginMaxAttempts - 1 : u[i + 1] - u[i] <= AttemptWindow
<1>1. LoginMaxAttempts \in Nat \ {0} /\ AttemptWindow \in Nat
  BY LockoutAssumption
<1>2. PICK L \in Nat : L = Len(s)
  OBVIOUS
<1>3. PICK d \in {0, 1} :
        /\ Len(u) = L + 1 - d
        /\ d = 1 <=> L = LoginMaxAttempts
        /\ \A i \in 1 .. L - d : u[i] = s[i + d]
  BY <1>2, LastOfAppended
<1>4. u[L + 1 - d] = t /\ Len(u) \in Nat /\ 1 <= Len(u) /\ Len(u) <= LoginMaxAttempts
  BY <1>3, LastOfAppended
<1>5. ASSUME 1 < Len(u) PROVE u[Len(u) - 1 + 1] - u[Len(u) - 1] > AttemptWindow
  <2>1. L - d \in 1 .. L - d /\ Len(u) - 1 = L - d /\ Len(u) - 1 + 1 = L + 1 - d
    BY <1>3, <1>5
  <2>2. s # <<>>
    BY <1>2, <1>3, <1>5
  <2>3. t - s[L] > AttemptWindow
    BY <1>2, <2>2 DEF Opens
  <2>4. u[L - d] = s[L - d + d] /\ L - d + d = L
    BY <1>3, <2>1
  <2> QED BY <1>4, <2>1, <2>3, <2>4
<1>6. ASSUME 1 < LoginMaxAttempts PROVE Runs(u, 1)
  <2>1. 1 \in 1 .. Len(u)
    BY <1>4
  <2>2. \A i \in Len(u) - 1 + 1 .. Len(u) - 1 : FALSE
    BY <1>4
  <2> QED BY <1>5, <2>1, <2>2 DEF Runs
<1>7. ASSUME 1 >= LoginMaxAttempts
      PROVE  /\ Len(u) = LoginMaxAttempts
             /\ \A i \in 1 .. LoginMaxAttempts - 1 : u[i + 1] - u[i] <= AttemptWindow
  BY <1>1, <1>4, <1>7
<1> QED BY <1>6, <1>7

\* The rows of the model and their fields.
LEMMA AttemptFields ==
    /\ NoAttempt \in Attempt /\ Fits(NoAttempt)
    /\ NoAttempt.failCount = 0 /\ NoAttempt.lockedUntil = 0
    /\ \A a \in Attempt : /\ a.failCount \in Nat /\ a.lastFailedAt \in 0 .. MaxClock
                          /\ a.lockedUntil \in 0 .. MaxClock + Lockout
                          /\ a.lockedUntil \in Nat /\ a.lastFailedAt \in Nat
    /\ MaxClock \in Nat /\ \A c \in 1 .. MaxClock : c \in Nat /\ c \in 0 .. MaxClock
<1> USE LockoutAssumption
<1>1. NoAttempt \in Attempt
  BY DEF NoAttempt, Attempt
<1>2. Fits(NoAttempt) /\ NoAttempt.failCount = 0 /\ NoAttempt.lockedUntil = 0
  BY DEF NoAttempt, Fits
<1>3. \A a \in Attempt : /\ a.failCount \in Nat /\ a.lastFailedAt \in 0 .. MaxClock
                         /\ a.lockedUntil \in 0 .. MaxClock + Lockout
                         /\ a.lockedUntil \in Nat /\ a.lastFailedAt \in Nat
  BY DEF Attempt
<1> QED BY <1>1, <1>2, <1>3

\* What a row tells does not depend on who is in progress.
LEMMA RowTellsStill ==
    ASSUME RowTells, UNCHANGED <<attempt, clock, recent>> PROVE RowTells'
  BY DEF RowTells, Due

\* What a login has computed from the row stays right while that is the row.
LEMMA ComputedStill ==
    ASSUME NEW r, Computed(r), UNCHANGED <<attempt, recent>>,
           record'[r] = record[r], isNew'[r] = isNew[r]
    PROVE  Computed(r)'
  BY DEF Computed, CountAt

\* At first there is no row and no login.
LEMMA LockInitInductive == LockInit => LockInductive
<1> SUFFICES ASSUME LockInit PROVE LockInductive
  OBVIOUS
<1>1. LockTypeOK
  <2>1. clock \in 1 .. MaxClock /\ recent \in Seq(1 .. MaxClock) /\ Len(recent) <= LoginMaxAttempts
    BY LockoutAssumption DEF LockInit
  <2> QED BY <2>1, AttemptFields DEF LockInit, LockTypeOK
<1>2. RowsFit /\ LockSeen
  BY AttemptFields DEF LockInit, RowsFit, LockSeen
<1>3. RowTells
  <2>1. ~Due
    BY LockoutAssumption DEF LockInit, Due
  <2> QED BY <2>1, AttemptFields DEF LockInit, RowTells, Opens
<1>4. OneByOne
  BY DEF LockInit, OneByOne
<1> QED BY <1>1, <1>2, <1>3, <1>4 DEF LockInductive

\* A login that comes in past the check finds no lock, and no other login if it is alone.
LEMMA EnsureKeepsLock ==
    ASSUME LockInductive, NEW r \in LoginRequest, EnsureLoginNotLocked(r), ~Locked
    PROVE  LockInductive'
<1>0. LockTypeOK /\ RowsFit /\ LockSeen /\ (alone => RowTells /\ OneByOne)
  BY DEF LockInductive
<1>1. PICK step \in {"drop", "verify"} : step = IF Outdated THEN "drop" ELSE "verify"
  OBVIOUS
<1>2. /\ lpc[r] = "idle" /\ lpc' = [lpc EXCEPT ![r] = step]
      /\ alone' = (alone /\ \A q \in LoginRequest : lpc[q] = "idle")
      /\ UNCHANGED <<attempt, clock, record, isNew, early, recent>>
  BY <1>1 DEF EnsureLoginNotLocked, LoginGoto, guardVars
<1>3. /\ lpc' \in [LoginRequest -> {"idle", "drop", "verify", "failed", "record", "clear"}]
      /\ lpc'[r] = step /\ \A q \in LoginRequest : q # r => lpc'[q] = lpc[q]
  BY <1>0, <1>2 DEF LockTypeOK
<1>4. LockTypeOK'
  BY <1>0, <1>2, <1>3 DEF LockTypeOK
<1>5. RowsFit' /\ LockSeen'
  BY <1>0, <1>2, <1>3 DEF RowsFit, LockSeen, Locked, Fits
<1>6. ASSUME alone' PROVE RowTells' /\ OneByOne'
  <2>1. alone /\ \A q \in LoginRequest : lpc[q] = "idle"
    BY <1>2, <1>6
  <2>2. RowTells'
    BY <1>0, <1>2, <2>1, RowTellsStill
  <2>3. \A q \in LoginRequest : q # r => lpc'[q] = "idle"
    BY <1>3, <2>1
  <2>4. step = "verify" => attempt.lockedUntil = 0
    BY <1>1, AttemptFields DEF Outdated
  <2>5. step = "drop" => Outdated'
    BY <1>1, <1>2 DEF Outdated
  <2> QED BY <1>2, <1>3, <2>2, <2>3, <2>4, <2>5 DEF OneByOne
<1> QED BY <1>4, <1>5, <1>6 DEF LockInductive

\* The credentials are verified without the row.
LEMMA VerifyKeepsLock ==
    ASSUME LockInductive, NEW r \in LoginRequest, VerifyCredentials(r)
    PROVE  LockInductive'
<1>0. LockTypeOK /\ RowsFit /\ LockSeen /\ (alone => RowTells /\ OneByOne)
  BY DEF LockInductive
<1>1. PICK step \in {"failed", "clear"} : lpc' = [lpc EXCEPT ![r] = step]
  BY DEF VerifyCredentials, LoginGoto
<1>2. lpc[r] = "verify" /\ UNCHANGED <<attempt, clock, record, isNew, early, recent, alone>>
  BY DEF VerifyCredentials, guardVars
<1>3. /\ lpc' \in [LoginRequest -> {"idle", "drop", "verify", "failed", "record", "clear"}]
      /\ lpc'[r] = step /\ \A q \in LoginRequest : q # r => lpc'[q] = lpc[q]
  BY <1>0, <1>1 DEF LockTypeOK
<1>4. LockTypeOK'
  BY <1>0, <1>2, <1>3 DEF LockTypeOK
<1>5. RowsFit' /\ LockSeen'
  BY <1>0, <1>2, <1>3 DEF RowsFit, LockSeen, Locked, Fits
<1>6. ASSUME alone' PROVE RowTells' /\ OneByOne'
  <2>1. RowTells /\ OneByOne
    BY <1>0, <1>2, <1>6
  <2>2. RowTells'
    BY <1>2, <2>1, RowTellsStill
  <2>3. \A q \in LoginRequest : lpc'[q] # "idle" => q = r
    BY <1>2, <1>3, <2>1 DEF OneByOne
  <2>4. attempt'.lockedUntil = 0
    BY <1>2, <2>1 DEF OneByOne
  <2> QED BY <1>3, <2>2, <2>3, <2>4 DEF OneByOne
<1> QED BY <1>4, <1>5, <1>6 DEF LockInductive

\* A login that is cut short leaves the row as it is.
LEMMA AbortKeepsLock ==
    ASSUME LockInductive, NEW r \in LoginRequest, AbortLogin(r)
    PROVE  LockInductive'
<1>0. LockTypeOK /\ RowsFit /\ LockSeen /\ (alone => RowTells /\ OneByOne)
  BY DEF LockInductive
<1>1. /\ lpc[r] # "idle" /\ UNCHANGED <<attempt, clock, recent, alone>>
      /\ lpc' = [lpc EXCEPT ![r] = "idle"]
      /\ record' = [record EXCEPT ![r] = NoAttempt]
      /\ isNew' = [isNew EXCEPT ![r] = FALSE]
      /\ early' = early \ {r}
  BY DEF AbortLogin, LoginEnd, guardVars
<1>2. /\ lpc' \in [LoginRequest -> {"idle", "drop", "verify", "failed", "record", "clear"}]
      /\ lpc'[r] = "idle" /\ \A q \in LoginRequest : q # r => lpc'[q] = lpc[q]
  BY <1>0, <1>1 DEF LockTypeOK
<1>3. /\ record' \in [LoginRequest -> Attempt] /\ isNew' \in [LoginRequest -> BOOLEAN]
      /\ record'[r] = NoAttempt
      /\ \A q \in LoginRequest : q # r => record'[q] = record[q] /\ isNew'[q] = isNew[q]
  BY <1>0, <1>1, AttemptFields DEF LockTypeOK
<1>4. LockTypeOK'
  BY <1>0, <1>1, <1>2, <1>3 DEF LockTypeOK
<1>5. RowsFit'
  <2>1. Fits(attempt)' /\ \A q \in LoginRequest : Fits(record'[q])
    BY <1>0, <1>1, <1>3, AttemptFields DEF RowsFit, Fits
  <2> QED BY <2>1, <1>0, <1>1, <1>2, <1>3 DEF RowsFit, Fits
<1>6. LockSeen'
  BY <1>0, <1>1, <1>2 DEF LockSeen, Locked
<1>7. ASSUME alone' PROVE RowTells' /\ OneByOne'
  <2>1. RowTells /\ OneByOne
    BY <1>0, <1>1, <1>7
  <2>2. RowTells'
    BY <1>1, <2>1, RowTellsStill
  <2>3. \A q \in LoginRequest : lpc'[q] = "idle"
    BY <1>1, <1>2, <2>1 DEF OneByOne
  <2> QED BY <2>2, <2>3 DEF OneByOne
<1> QED BY <1>4, <1>5, <1>6, <1>7 DEF LockInductive

\* A run that is not long enough is not due: the failure before it is too old.
LEMMA RunNotDue ==
    ASSUME recent \in Seq(1 .. MaxClock), NEW n, Runs(recent, n), n < LoginMaxAttempts
    PROVE  ~Due
<1> SUFFICES ASSUME Due PROVE FALSE
  OBVIOUS
<1>1. LoginMaxAttempts \in Nat \ {0} /\ AttemptWindow \in Nat
  BY LockoutAssumption
<1>2. PICK L \in Nat : L = Len(recent)
  OBVIOUS
<1>3. L = LoginMaxAttempts /\ n \in 1 .. L /\ n < L
  BY <1>2 DEF Runs, Due
<1>4. recent[L - n + 1] - recent[L - n] > AttemptWindow
  BY <1>2, <1>3 DEF Runs
<1>5. PICK i : i = L - n
  OBVIOUS
<1>6. i \in 1 .. LoginMaxAttempts - 1
  BY <1>3, <1>5
<1>7. recent[i + 1] - recent[i] <= AttemptWindow
  BY <1>6 DEF Due
<1>8. i \in 1 .. L /\ i + 1 \in 1 .. L
  BY <1>3, <1>6
<1>9. recent[i] \in Nat /\ recent[i + 1] \in Nat
  BY <1>2, <1>8, AttemptFields
<1> QED BY <1>1, <1>4, <1>5, <1>7, <1>9

\* Without a row the failures of the past do not count: alone, it was outdated.
LEMMA DropKeepsLock ==
    ASSUME LockInductive, NEW r \in LoginRequest, DropAttempt(r)
    PROVE  LockInductive'
<1>0. LockTypeOK /\ RowsFit /\ LockSeen /\ (alone => RowTells /\ OneByOne)
  BY DEF LockInductive
<1>1. /\ lpc[r] = "drop" /\ UNCHANGED <<clock, record, isNew, early, alone>>
      /\ lpc' = [lpc EXCEPT ![r] = "verify"] /\ attempt' = NoAttempt
      /\ recent' = IF attempt.lockedUntil # 0 THEN <<>> ELSE recent
  BY DEF DropAttempt, LoginGoto
<1>2. /\ lpc' \in [LoginRequest -> {"idle", "drop", "verify", "failed", "record", "clear"}]
      /\ lpc'[r] = "verify" /\ \A q \in LoginRequest : q # r => lpc'[q] = lpc[q]
  BY <1>0, <1>1 DEF LockTypeOK
<1>3. recent' \in Seq(1 .. MaxClock) /\ Len(recent') <= LoginMaxAttempts
  <2>1. recent \in Seq(1 .. MaxClock) /\ Len(recent) <= LoginMaxAttempts
    BY <1>0 DEF LockTypeOK
  <2>2. <<>> \in Seq(1 .. MaxClock) /\ Len(<<>>) <= LoginMaxAttempts
    BY LockoutAssumption
  <2>3. recent' = <<>> \/ recent' = recent
    BY <1>1
  <2> QED BY <2>1, <2>2, <2>3
<1>4. LockTypeOK'
  BY <1>0, <1>1, <1>2, <1>3, AttemptFields DEF LockTypeOK
<1>5. RowsFit'
  <2>1. Fits(attempt)' /\ \A q \in LoginRequest : Fits(record'[q])
    BY <1>0, <1>1, AttemptFields DEF RowsFit, Fits
  <2> QED BY <2>1, <1>0, <1>1, <1>2 DEF RowsFit, Fits
<1>6. LockSeen'
  <2>1. clock \in Nat /\ attempt'.lockedUntil = 0
    BY <1>0, <1>1, AttemptFields DEF LockTypeOK
  <2> QED BY <2>1, <1>1 DEF LockSeen, Locked
<1>7. ASSUME alone' PROVE RowTells' /\ OneByOne'
  <2>1. RowTells /\ OneByOne
    BY <1>0, <1>1, <1>7
  <2>2. Outdated
    BY <1>1, <2>1 DEF OneByOne
  <2>3. (~Due /\ Opens(recent, clock))'
    <3>1. CASE attempt.lockedUntil # 0
      <4>1. recent' = <<>> /\ Len(recent') # LoginMaxAttempts
        BY <1>1, <3>1, LockoutAssumption
      <4> QED BY <4>1 DEF Due, Opens
    <3>2. CASE attempt.lockedUntil = 0
      <4>1. /\ Runs(recent, attempt.failCount) /\ attempt.failCount < LoginMaxAttempts
            /\ recent[Len(recent)] = attempt.lastFailedAt
            /\ clock - attempt.lastFailedAt > AttemptWindow
        BY <2>1, <2>2, <3>2 DEF RowTells, Outdated
      <4>2. ~Due /\ Opens(recent, clock)
        BY <1>0, <4>1, RunNotDue DEF Opens, LockTypeOK
      <4>3. recent' = recent /\ clock' = clock
        BY <1>1, <3>2
      <4> QED BY <4>2, <4>3 DEF Due, Opens
    <3> QED BY <3>1, <3>2
  <2>4. RowTells'
    BY <1>1, <2>3, AttemptFields DEF RowTells
  <2>5. \A q \in LoginRequest : lpc'[q] # "idle" => q = r
    BY <1>1, <1>2, <2>1 DEF OneByOne
  <2>6. attempt'.lockedUntil = 0
    BY <1>1, AttemptFields
  <2> QED BY <1>2, <2>4, <2>5, <2>6 DEF OneByOne
<1> QED BY <1>4, <1>5, <1>6, <1>7 DEF LockInductive

\* A failed login computes its row from the present one.
LEMMA ReadKeepsLock ==
    ASSUME LockInductive, NEW r \in LoginRequest, ReadAttempt(r)
    PROVE  LockInductive'
<1>0. LockTypeOK /\ RowsFit /\ LockSeen /\ (alone => RowTells /\ OneByOne)
  BY DEF LockInductive
<1>1. PICK count : count = IF Within THEN attempt.failCount + 1 ELSE 1
  OBVIOUS
<1>2. PICK row :
        row = [failCount |-> IF ~Within \/ attempt.lockedUntil # 0 THEN 1 ELSE count,
               lastFailedAt |-> clock,
               lockedUntil |-> IF count >= LoginMaxAttempts THEN clock + Lockout ELSE 0]
  OBVIOUS
<1>3. /\ lpc[r] = "failed" /\ UNCHANGED <<attempt, clock, early, recent, alone>>
      /\ lpc' = [lpc EXCEPT ![r] = "record"]
      /\ isNew' = [isNew EXCEPT ![r] = attempt = NoAttempt]
      /\ record' = [record EXCEPT ![r] = row]
  BY <1>1, <1>2 DEF ReadAttempt, LoginGoto, guardVars
<1>4. /\ attempt.failCount \in Nat /\ attempt.failCount <= LoginMaxAttempts
      /\ attempt.lockedUntil = 0 => attempt.failCount < LoginMaxAttempts
      /\ clock \in 1 .. MaxClock
  BY <1>0, AttemptFields DEF RowsFit, Fits, LockTypeOK
<1>5. /\ row.lastFailedAt = clock
      /\ row.failCount = IF ~Within \/ attempt.lockedUntil # 0 THEN 1 ELSE count
      /\ row.lockedUntil = IF count >= LoginMaxAttempts THEN clock + Lockout ELSE 0
  BY <1>2
<1>6. /\ count \in Nat /\ 1 <= count /\ (Within => count = attempt.failCount + 1)
      /\ ~Within => count = 1
  BY <1>1, <1>4
<1>7. row \in Attempt /\ Fits(row)
  <2>1. /\ row.failCount \in 1 .. LoginMaxAttempts
        /\ row.lockedUntil \in 0 .. MaxClock + Lockout
        /\ row.lockedUntil = 0 => row.failCount < LoginMaxAttempts
    BY <1>4, <1>5, <1>6, LockoutAssumption
  <2>2. row.failCount \in 0 .. LoginMaxAttempts + 1 /\ row.lastFailedAt \in 0 .. MaxClock
    <3>1. clock \in 0 .. MaxClock
      BY <1>4, AttemptFields
    <3>2. \A n \in 1 .. LoginMaxAttempts : n \in 0 .. LoginMaxAttempts + 1
      BY LockoutAssumption
    <3>3. row.lastFailedAt \in 0 .. MaxClock
      BY <3>1, <1>5
    <3> QED BY <2>1, <3>2, <3>3
  <2>3. row.failCount <= LoginMaxAttempts
    BY <2>1, LockoutAssumption
  <2>4. row = [failCount |-> row.failCount, lastFailedAt |-> row.lastFailedAt,
               lockedUntil |-> row.lockedUntil]
    BY <1>2
  <2> QED BY <2>1, <2>2, <2>3, <2>4 DEF Attempt, Fits
<1>8. /\ lpc' \in [LoginRequest -> {"idle", "drop", "verify", "failed", "record", "clear"}]
      /\ lpc'[r] = "record" /\ \A q \in LoginRequest : q # r => lpc'[q] = lpc[q]
  BY <1>0, <1>3 DEF LockTypeOK
<1>9. /\ record' \in [LoginRequest -> Attempt] /\ isNew' \in [LoginRequest -> BOOLEAN]
      /\ record'[r] = row /\ isNew'[r] = (attempt = NoAttempt)
      /\ \A q \in LoginRequest : q # r => record'[q] = record[q]
  BY <1>0, <1>3, <1>7 DEF LockTypeOK
<1>10. LockTypeOK'
  BY <1>0, <1>3, <1>8, <1>9 DEF LockTypeOK
<1>11. RowsFit'
  <2>1. Fits(attempt)'
    BY <1>0, <1>3 DEF RowsFit, Fits
  <2>2. \A q \in LoginRequest : Fits(record'[q])
    BY <1>0, <1>7, <1>9 DEF RowsFit
  <2>3. clock \in 1 .. clock
    BY <1>4
  <2>4. \A q \in LoginRequest : lpc'[q] = "record" => record'[q].lastFailedAt \in 1 .. clock
    BY <1>0, <1>5, <1>8, <1>9, <2>3 DEF RowsFit
  <2> QED BY <2>1, <2>2, <2>4, <1>3 DEF RowsFit, Fits
<1>12. LockSeen'
  BY <1>0, <1>3, <1>8 DEF LockSeen, Locked
<1>13. ASSUME alone' PROVE RowTells' /\ OneByOne'
  <2>1. RowTells /\ OneByOne
    BY <1>0, <1>3, <1>13
  <2>2. RowTells'
    BY <1>3, <2>1, RowTellsStill
  <2>3. \A q \in LoginRequest : lpc'[q] # "idle" => q = r
    BY <1>3, <1>8, <2>1 DEF OneByOne
  <2>4. attempt'.lockedUntil = 0 /\ attempt.lockedUntil = 0
    BY <1>3, <2>1 DEF OneByOne
  <2>5. CountAt(clock) = count
    BY <1>1 DEF CountAt, Within
  <2>6. row.failCount = count
    BY <1>5, <1>6, <2>4
  <2>7. attempt = NoAttempt => Opens(recent, clock)
    BY <2>1 DEF RowTells
  <2>8. Computed(r)'
    BY <1>3, <1>5, <1>9, <2>5, <2>6, <2>7 DEF Computed, CountAt
  <2> QED BY <1>8, <2>2, <2>3, <2>4, <2>8 DEF OneByOne
<1> QED BY <1>10, <1>11, <1>12, <1>13 DEF LockInductive

\* What a login, alone, writes tells the run of failures with its own.
LEMMA WrittenTells ==
    ASSUME LockInductive, alone, NEW r \in LoginRequest, lpc[r] = "record",
           attempt' = record[r],
           recent' = LastOf(Append(recent, record[r].lastFailedAt)), clock' = clock
    PROVE  RowTells'
<1>1. LockTypeOK /\ RowsFit /\ RowTells /\ OneByOne
  BY DEF LockInductive
<1>2. PICK t : t = record[r].lastFailedAt
  OBVIOUS
<1>3. t \in 1 .. clock /\ t \in 1 .. MaxClock /\ t \in Nat /\ 1 <= t
  BY <1>1, <1>2, AttemptFields DEF RowsFit, LockTypeOK
<1>4. recent \in Seq(1 .. MaxClock) /\ Len(recent) <= LoginMaxAttempts
  BY <1>1 DEF LockTypeOK
<1>5. PICK u : u = LastOf(Append(recent, t))
  OBVIOUS
<1>6. recent' = u /\ u[Len(u)] = t
  BY <1>2, <1>3, <1>4, <1>5, LastOfAppended
<1>7. /\ attempt.lockedUntil = 0 /\ attempt.failCount \in Nat /\ attempt.lastFailedAt \in Nat
      /\ LoginMaxAttempts \in Nat /\ Lockout \in Nat
  BY <1>1, AttemptFields, LockoutAssumption DEF OneByOne, LockTypeOK
<1>8. /\ attempt = NoAttempt => Opens(recent, t)
      /\ record[r].failCount = CountAt(t)
      /\ record[r].lockedUntil = IF CountAt(t) >= LoginMaxAttempts THEN t + Lockout ELSE 0
  BY <1>1, <1>2 DEF OneByOne, Computed
<1>9. /\ CountAt(t) \in Nat /\ CountAt(t) >= 1
      /\ CountAt(t) < LoginMaxAttempts => Runs(u, CountAt(t))
      /\ CountAt(t) >= LoginMaxAttempts =>
           /\ Len(u) = LoginMaxAttempts
           /\ \A i \in 1 .. LoginMaxAttempts - 1 : u[i + 1] - u[i] <= AttemptWindow
  <2>1. CASE attempt # NoAttempt /\ t - attempt.lastFailedAt <= AttemptWindow
    <3>1. /\ Runs(recent, attempt.failCount) /\ attempt.failCount < LoginMaxAttempts
          /\ t - recent[Len(recent)] <= AttemptWindow
      BY <1>1, <1>7, <2>1 DEF RowTells
    <3>2. CountAt(t) = attempt.failCount + 1
      BY <2>1 DEF CountAt
    <3> QED BY <1>3, <1>4, <1>5, <1>7, <3>1, <3>2, RunGrows
  <2>2. CASE ~(attempt # NoAttempt /\ t - attempt.lastFailedAt <= AttemptWindow)
    <3>1. Opens(recent, t)
      <4>1. CASE attempt = NoAttempt
        BY <1>8, <4>1
      <4>2. CASE attempt # NoAttempt
        <5>1. recent[Len(recent)] = attempt.lastFailedAt
          BY <1>1, <1>7, <4>2 DEF RowTells
        <5>2. t - attempt.lastFailedAt > AttemptWindow
          BY <1>3, <1>7, <2>2, <4>2, LockoutAssumption
        <5> QED BY <5>1, <5>2 DEF Opens
      <4> QED BY <4>1, <4>2
    <3>2. CountAt(t) = 1
      BY <2>2 DEF CountAt
    <3> QED BY <1>3, <1>4, <1>5, <1>7, <3>1, <3>2, RunStarts
  <2> QED BY <2>1, <2>2
<1>10. attempt'.lastFailedAt = t /\ attempt' # NoAttempt
  BY <1>2, <1>3 DEF NoAttempt
<1>11. CASE CountAt(t) < LoginMaxAttempts
  <2>1. attempt'.lockedUntil = 0 /\ attempt'.failCount = CountAt(t)
    BY <1>7, <1>8, <1>9, <1>11
  <2>2. Runs(recent', attempt'.failCount) /\ recent'[Len(recent')] = attempt'.lastFailedAt
    BY <1>6, <1>9, <1>10, <1>11, <2>1
  <2> QED BY <1>10, <1>11, <2>1, <2>2 DEF RowTells, Runs
<1>12. CASE CountAt(t) >= LoginMaxAttempts
  <2>1. attempt'.lockedUntil # 0
    BY <1>3, <1>7, <1>8, <1>12
  <2>2. Due'
    BY <1>6, <1>9, <1>12 DEF Due
  <2> QED BY <1>10, <2>1, <2>2 DEF RowTells
<1> QED BY <1>7, <1>9, <1>11, <1>12

\* A failed login writes the row that it has computed, unless the row has come or gone.
LEMMA WriteKeepsLock ==
    ASSUME LockInductive, NEW r \in LoginRequest, WriteAttempt(r)
    PROVE  LockInductive'
<1>0. LockTypeOK /\ RowsFit /\ LockSeen /\ (alone => RowTells /\ OneByOne)
  BY DEF LockInductive
<1>1. /\ lpc[r] = "record" /\ UNCHANGED <<clock, alone>>
      /\ recent' = LastOf(Append(recent, record[r].lastFailedAt))
      /\ lpc' = [lpc EXCEPT ![r] = "idle"]
      /\ record' = [record EXCEPT ![r] = NoAttempt]
      /\ isNew' = [isNew EXCEPT ![r] = FALSE]
  BY DEF WriteAttempt
<1>2. \/ /\ isNew[r] = (attempt = NoAttempt) /\ attempt' = record[r]
         /\ early' = IF record[r].lockedUntil > clock
                       THEN {q \in LoginRequest : lpc[q] # "idle"} \ {r} ELSE early \ {r}
      \/ /\ ~(isNew[r] = (attempt = NoAttempt))
         /\ attempt' = attempt /\ early' = early \ {r}
  BY DEF WriteAttempt
<1>3. /\ lpc' \in [LoginRequest -> {"idle", "drop", "verify", "failed", "record", "clear"}]
      /\ lpc'[r] = "idle" /\ \A q \in LoginRequest : q # r => lpc'[q] = lpc[q]
  BY <1>0, <1>1 DEF LockTypeOK
<1>4. /\ record' \in [LoginRequest -> Attempt] /\ isNew' \in [LoginRequest -> BOOLEAN]
      /\ record'[r] = NoAttempt
      /\ \A q \in LoginRequest : q # r => record'[q] = record[q]
  BY <1>0, <1>1, AttemptFields DEF LockTypeOK
<1>5. recent' \in Seq(1 .. MaxClock) /\ Len(recent') <= LoginMaxAttempts
  <2>1. record[r].lastFailedAt \in 1 .. MaxClock
    BY <1>0, <1>1, AttemptFields DEF RowsFit, LockTypeOK
  <2> QED BY <1>0, <1>1, <2>1, LastOfAppended DEF LockTypeOK
<1>6. attempt' \in Attempt /\ Fits(attempt')
  BY <1>0, <1>2 DEF LockTypeOK, RowsFit
<1>7. early' \subseteq LoginRequest
  BY <1>0, <1>2 DEF LockTypeOK
<1>8. LockTypeOK'
  BY <1>0, <1>1, <1>3, <1>4, <1>5, <1>6, <1>7 DEF LockTypeOK
<1>9. RowsFit'
  <2>1. \A q \in LoginRequest : Fits(record'[q])
    BY <1>0, <1>4, AttemptFields DEF RowsFit
  <2>2. \A q \in LoginRequest : lpc'[q] = "record" => record'[q].lastFailedAt \in 1 .. clock
    BY <1>0, <1>3, <1>4 DEF RowsFit
  <2> QED BY <1>1, <1>6, <2>1, <2>2 DEF RowsFit, Fits
<1>10. LockSeen'
  <2>1. ASSUME attempt'.lockedUntil > clock, NEW q \in LoginRequest, lpc'[q] # "idle"
        PROVE  q \in early'
    <3>1. q # r /\ lpc[q] # "idle"
      BY <1>3, <2>1
    <3>2. CASE attempt' = record[r] /\ early' = {p \in LoginRequest : lpc[p] # "idle"} \ {r}
      BY <3>1, <3>2
    <3>3. CASE attempt' = attempt /\ early' = early \ {r}
      BY <1>0, <2>1, <3>1, <3>3 DEF LockSeen, Locked
    <3> QED BY <1>2, <2>1, <3>2, <3>3
  <2> QED BY <1>1, <2>1 DEF LockSeen, Locked
<1>11. ASSUME alone' PROVE RowTells' /\ OneByOne'
  <2>1. RowTells /\ OneByOne /\ alone
    BY <1>0, <1>1, <1>11
  <2>2. attempt' = record[r]
    BY <1>1, <1>2, <2>1 DEF OneByOne, Computed
  <2>3. RowTells'
    BY <1>1, <2>1, <2>2, WrittenTells
  <2>4. \A q \in LoginRequest : lpc'[q] = "idle"
    BY <1>1, <1>3, <2>1 DEF OneByOne
  <2> QED BY <2>3, <2>4 DEF OneByOne
<1> QED BY <1>8, <1>9, <1>10, <1>11 DEF LockInductive

\* A successful login begins anew.
LEMMA ClearKeepsLock ==
    ASSUME LockInductive, NEW r \in LoginRequest, ClearLoginAttempts(r)
    PROVE  LockInductive'
<1>0. LockTypeOK /\ RowsFit /\ LockSeen /\ (alone => RowTells /\ OneByOne)
  BY DEF LockInductive
<1>1. /\ lpc[r] = "clear" /\ UNCHANGED <<clock, alone>>
      /\ attempt' = NoAttempt /\ recent' = <<>>
      /\ lpc' = [lpc EXCEPT ![r] = "idle"]
      /\ record' = [record EXCEPT ![r] = NoAttempt]
      /\ isNew' = [isNew EXCEPT ![r] = FALSE]
      /\ early' = early \ {r}
  BY DEF ClearLoginAttempts, LoginEnd
<1>2. /\ lpc' \in [LoginRequest -> {"idle", "drop", "verify", "failed", "record", "clear"}]
      /\ lpc'[r] = "idle" /\ \A q \in LoginRequest : q # r => lpc'[q] = lpc[q]
  BY <1>0, <1>1 DEF LockTypeOK
<1>3. /\ record' \in [LoginRequest -> Attempt] /\ isNew' \in [LoginRequest -> BOOLEAN]
      /\ record'[r] = NoAttempt
      /\ \A q \in LoginRequest : q # r => record'[q] = record[q]
  BY <1>0, <1>1, AttemptFields DEF LockTypeOK
<1>4. /\ recent' \in Seq(1 .. MaxClock) /\ Len(recent') <= LoginMaxAttempts
      /\ Len(recent') # LoginMaxAttempts
  BY <1>1, LockoutAssumption
<1>5. LockTypeOK'
  BY <1>0, <1>1, <1>2, <1>3, <1>4, AttemptFields DEF LockTypeOK
<1>6. RowsFit'
  <2>1. \A q \in LoginRequest : Fits(record'[q])
    BY <1>0, <1>3, AttemptFields DEF RowsFit
  <2>2. \A q \in LoginRequest : lpc'[q] = "record" => record'[q].lastFailedAt \in 1 .. clock
    BY <1>0, <1>2, <1>3 DEF RowsFit
  <2>3. Fits(attempt')
    BY <1>1, AttemptFields
  <2> QED BY <1>1, <2>1, <2>2, <2>3 DEF RowsFit, Fits
<1>7. LockSeen'
  <2>1. clock \in Nat /\ attempt'.lockedUntil = 0
    BY <1>0, <1>1, AttemptFields DEF LockTypeOK
  <2> QED BY <2>1, <1>1 DEF LockSeen, Locked
<1>8. ASSUME alone' PROVE RowTells' /\ OneByOne'
  <2>1. OneByOne
    BY <1>0, <1>1, <1>8
  <2>2. RowTells'
    BY <1>1, <1>4, AttemptFields DEF RowTells, Due, Opens
  <2>3. \A q \in LoginRequest : lpc'[q] = "idle"
    BY <1>1, <1>2, <2>1 DEF OneByOne
  <2> QED BY <2>2, <2>3 DEF OneByOne
<1> QED BY <1>5, <1>6, <1>7, <1>8 DEF LockInductive

\* As time goes by, what is too old stays too old and a lock that is over stays over.
LEMMA TickKeepsLock ==
    ASSUME LockInductive, Tick
    PROVE  LockInductive'
<1>0. LockTypeOK /\ RowsFit /\ LockSeen /\ (alone => RowTells /\ OneByOne)
  BY DEF LockInductive
<1>1. /\ clock < MaxClock /\ clock' = clock + 1
      /\ UNCHANGED <<attempt, lpc, record, isNew, early, recent, alone>>
  BY DEF Tick, loginVars
<1>2. /\ clock \in Nat /\ clock' \in 1 .. MaxClock
      /\ \A t \in 1 .. clock : t \in 1 .. clock'
      /\ AttemptWindow \in Nat
      /\ attempt.lastFailedAt \in Nat /\ attempt.lockedUntil \in Nat
  BY <1>0, <1>1, AttemptFields, LockoutAssumption DEF LockTypeOK
<1>3. LockTypeOK'
  BY <1>0, <1>1, <1>2 DEF LockTypeOK
<1>4. RowsFit'
  BY <1>0, <1>1, <1>2 DEF RowsFit, Fits
<1>5. LockSeen'
  <2>1. Locked' => Locked
    BY <1>1, <1>2 DEF Locked
  <2> QED BY <1>0, <1>1, <2>1 DEF LockSeen
<1>6. ASSUME alone' PROVE RowTells' /\ OneByOne'
  <2>1. RowTells /\ OneByOne
    BY <1>0, <1>1, <1>6
  <2>2. Opens(recent, clock) => Opens(recent, clock')
    <3>1. ASSUME recent # <<>> PROVE recent[Len(recent)] \in Nat
      <4>1. recent \in Seq(1 .. MaxClock)
        BY <1>0 DEF LockTypeOK
      <4>2. PICK n \in 1 .. Len(recent) : n = Len(recent)
        BY <3>1, <4>1
      <4>3. ASSUME NEW S, NEW s \in Seq(S), NEW i \in 1 .. Len(s) PROVE s[i] \in S
        OBVIOUS
      <4>4. recent[n] \in 1 .. MaxClock
        BY <4>1, <4>2, <4>3
      <4> QED BY <4>2, <4>4, AttemptFields
    <3> QED BY <1>1, <1>2, <3>1 DEF Opens
  <2>3. RowTells'
    BY <1>1, <2>1, <2>2 DEF RowTells, Due
  <2>4. Outdated => Outdated'
    BY <1>1, <1>2 DEF Outdated
  <2>5. \A q \in LoginRequest : Computed(q) => Computed(q)'
    BY <1>1, ComputedStill
  <2> QED BY <1>1, <2>1, <2>3, <2>4, <2>5 DEF OneByOne
<1> QED BY <1>3, <1>4, <1>5, <1>6 DEF LockInductive

\* A step that changes nothing.
LEMMA LockUnchanged ==
    ASSUME LockInductive,
           UNCHANGED <<attempt, clock, lpc, record, isNew, early, recent, alone>>
    PROVE  LockInductive'
<1>0. LockTypeOK /\ RowsFit /\ LockSeen /\ (alone => RowTells /\ OneByOne)
  BY DEF LockInductive
<1>1. LockTypeOK' /\ RowsFit' /\ LockSeen'
  BY <1>0 DEF LockTypeOK, RowsFit, Fits, LockSeen, Locked
<1>2. ASSUME alone' PROVE RowTells' /\ OneByOne'
  <2>1. RowTells /\ OneByOne
    BY <1>0, <1>2
  <2>2. \A q \in LoginRequest : Computed(q) => Computed(q)'
    BY ComputedStill
  <2>3. Outdated => Outdated'
    BY DEF Outdated
  <2> QED BY <2>1, <2>2, <2>3, RowTellsStill DEF OneByOne
<1> QED BY <1>1, <1>2 DEF LockInductive

\* Every step of a login and of the clock keeps the invariant.
LEMMA LockNextInductive == LockInductive /\ [LockNext]_lockVars => LockInductive'
<1> SUFFICES ASSUME LockInductive, [LockNext]_lockVars PROVE LockInductive'
  OBVIOUS
<1>1. CASE UNCHANGED lockVars
  <2>1. UNCHANGED <<attempt, clock, lpc, record, isNew, early, recent, alone>>
    BY <1>1 DEF lockVars, guardVars, loginVars
  <2> QED BY <2>1, LockUnchanged
<1>2. ASSUME NEW r \in LoginRequest, EnsureLoginNotLocked(r) PROVE LockInductive'
  <2>1. CASE Locked
    <3>1. UNCHANGED <<attempt, clock, lpc, record, isNew, early, recent, alone>>
      BY <1>2, <2>1 DEF EnsureLoginNotLocked, guardVars
    <3> QED BY <3>1, LockUnchanged
  <2> QED BY <1>2, <2>1, EnsureKeepsLock
<1>3. CASE Tick
  BY <1>3, TickKeepsLock
<1>4. ASSUME NEW r \in LoginRequest,
             \/ DropAttempt(r) \/ VerifyCredentials(r) \/ ReadAttempt(r)
             \/ WriteAttempt(r) \/ ClearLoginAttempts(r) \/ AbortLogin(r)
      PROVE  LockInductive'
  BY <1>4, DropKeepsLock, VerifyKeepsLock, ReadKeepsLock, WriteKeepsLock, ClearKeepsLock,
     AbortKeepsLock
<1> QED BY <1>1, <1>2, <1>3, <1>4 DEF LockNext

\* The invariant of the lockout, for all numbers of logins and attempts and all times.
THEOREM LockInductiveInvariant == LockSpec => []LockInductive
<1> QED BY LockInitInductive, LockNextInductive, PTL DEF LockSpec

\* As long as no two logins overlap, the pair is locked exactly when loginMaxAttempts
\* failures in a row, each within the window of the one before, are counted
\* (ensureLoginNotLocked and recordLoginFailure).
THEOREM LocksExactlyWhenDue == LockSpec => []LocksWhenDue
<1>1. LockInductive => LocksWhenDue
  <2> SUFFICES ASSUME LockInductive, alone PROVE attempt.lockedUntil # 0 <=> Due
    BY DEF LocksWhenDue
  <2>1. RowTells /\ recent \in Seq(1 .. MaxClock)
    BY DEF LockInductive, LockTypeOK
  <2>2. CASE attempt = NoAttempt
    BY <2>1, <2>2, AttemptFields DEF RowTells
  <2>3. CASE attempt # NoAttempt /\ attempt.lockedUntil = 0
    BY <2>1, <2>3, RunNotDue DEF RowTells
  <2>4. CASE attempt.lockedUntil # 0
    BY <2>1, <2>4 DEF RowTells
  <2> QED BY <2>2, <2>3, <2>4
<1> QED BY <1>1, LockInductiveInvariant, PTL

\* However logins overlap, a lock is lifted or cut short only by one that was past its check
\* when it was set: deletes and updates of the row never look at lockedUntil again.
THEOREM LocksLast == LockSpec => LockHolds
<1>1. LockInductive /\ [LockNext]_lockVars =>
        [Locked /\ attempt'.lockedUntil < attempt.lockedUntil => early # {}]_lockVars
  <2> SUFFICES ASSUME LockInductive, LockNext, Locked,
                      attempt'.lockedUntil < attempt.lockedUntil
               PROVE  early # {}
    OBVIOUS
  <2>1. attempt' # attempt
    BY AttemptFields DEF LockInductive, LockTypeOK
  <2>2. ASSUME NEW r \in LoginRequest, lpc[r] # "idle" PROVE early # {}
    BY <2>2 DEF LockInductive, LockSeen
  <2>3. ASSUME NEW r \in LoginRequest,
               DropAttempt(r) \/ WriteAttempt(r) \/ ClearLoginAttempts(r)
        PROVE  lpc[r] # "idle"
    BY <2>3 DEF DropAttempt, WriteAttempt, ClearLoginAttempts
  <2>4. ASSUME NEW r \in LoginRequest,
               EnsureLoginNotLocked(r) \/ VerifyCredentials(r) \/ ReadAttempt(r) \/ AbortLogin(r)
        PROVE  attempt' = attempt
    BY <2>4 DEF EnsureLoginNotLocked, VerifyCredentials, ReadAttempt, AbortLogin, guardVars
  <2>5. Tick => attempt' = attempt
    BY DEF Tick
  <2> QED BY <2>1, <2>2, <2>3, <2>4, <2>5 DEF LockNext
<1> QED BY <1>1, LockInductiveInvariant, PTL DEF LockSpec, LockHolds

(***************************************************************************)
(*                 Geo pings, and all the services together                *)
(***************************************************************************)

\* The retention of pings keeps its types, for all organizations and days.
THEOREM GeoTyped == GeoSpec => []GeoTypeOK
<1>0. 0 \in 0 .. MaxDay
  BY GeoAssumption
<1>1. GeoInit => GeoTypeOK
  BY <1>0, Zenon DEF GeoInit, GeoTypeOK
<1>2. GeoTypeOK /\ [GeoNext]_geoVars => GeoTypeOK'
  <2> SUFFICES ASSUME GeoTypeOK, [GeoNext]_geoVars PROVE GeoTypeOK'
    OBVIOUS
  <2> USE DEF GeoTypeOK
  <2>1. CASE UNCHANGED geoVars
    BY <2>1 DEF geoVars, cleanupVars
  <2>2. ASSUME NEW o \in GeoOrg, IngestGeoPings(o) PROVE GeoTypeOK'
    <3>1. PICK days \in SUBSET (0 .. MaxDay) : pings' = pings \cup ({o} \X days)
      BY <2>2 DEF IngestGeoPings
    <3>2. pings' \subseteq Ping
      BY <3>1 DEF Ping
    <3> QED BY <2>2, <3>2 DEF IngestGeoPings, cleanupVars
  <2>3. ASSUME NEW o \in GeoOrg, CleanupOrg(o) PROVE GeoTypeOK'
    BY <2>3, GeoAssumption DEF CleanupOrg
  <2>4. CASE CleanupStart \/ CleanupFails
    BY <2>4, <1>0, Zenon DEF CleanupStart, CleanupFails, FlagReset
  <2>5. CASE GeoStop \/ GeoRestart
    BY <2>5, <1>0, Zenon DEF GeoStop, GeoRestart, cleanupVars
  <2>6. CASE NextDay
    BY <2>6, GeoAssumption DEF NextDay, cleanupVars
  <2> QED BY <2>1, <2>2, <2>3, <2>4, <2>5, <2>6 DEF GeoNext
<1> QED BY <1>1, <1>2, PTL DEF GeoSpec

\* The cleanup deletes only pings that have outlived the retention of their organization,
\* although it goes on comparing with the day it started when that has passed, and although
\* pings come in and errors and stops interfere (cleanupGeoPings).
THEOREM YoungPingsStay == GeoSpec => [][\A p \in pings \ pings' : Old(p, day)]_geoVars
<1>0. 0 \in 0 .. MaxDay /\ \A d \in 0 .. MaxDay : d \in Nat
  BY GeoAssumption
<1>1. GeoInit => reference <= day
  BY DEF GeoInit
<1>2. GeoTypeOK /\ reference <= day /\ [GeoNext]_geoVars => (reference <= day)'
  <2> SUFFICES ASSUME GeoTypeOK, reference <= day, [GeoNext]_geoVars
               PROVE  (reference <= day)'
    OBVIOUS
  <2>1. reference \in Nat /\ day \in Nat
    BY <1>0 DEF GeoTypeOK
  <2>2. day' = day \/ day' = day + 1
    BY DEF GeoNext, geoVars, IngestGeoPings, CleanupOrg, CleanupStart, CleanupFails, GeoStop,
           GeoRestart, NextDay
  <2>3. reference' \in {0, reference, day}
    BY DEF GeoNext, geoVars, cleanupVars, IngestGeoPings, CleanupOrg, CleanupStart,
           CleanupFails, GeoStop, GeoRestart, NextDay
  <2> QED BY <2>1, <2>2, <2>3
<1>3. GeoTypeOK /\ reference <= day /\ [GeoNext]_geoVars
        => [\A p \in pings \ pings' : Old(p, day)]_geoVars
  <2> SUFFICES ASSUME GeoTypeOK, reference <= day, GeoNext, NEW p \in pings \ pings'
               PROVE  Old(p, day)
    OBVIOUS
  <2>1. PICK o \in GeoOrg : CleanupOrg(o)
    BY DEF GeoNext, cleanupVars, IngestGeoPings, CleanupStart, CleanupFails, GeoStop,
           GeoRestart, NextDay
  <2>2. p[1] = o /\ Old(p, reference)
    BY <2>1 DEF CleanupOrg
  <2>3. p[2] \in Nat /\ reference \in Nat /\ day \in Nat
    BY <1>0 DEF GeoTypeOK, Ping
  <2>4. Retention(p[1]) \in Nat
    BY <2>2, GeoAssumption DEF Retention, GeoTypeOK
  <2> QED BY <2>2, <2>3, <2>4 DEF Old
<1> QED BY <1>1, <1>2, <1>3, GeoTyped, PTL DEF GeoSpec

\* A step of the services together is a step of each one or leaves it alone.
LEMMA PlatformStep ==
    ASSUME [Next]_<<part, lockVars, tokensVars, connVars, orgVars, geoVars, procVars>>
    PROVE  /\ [LockNext]_lockVars /\ [TokensNext]_tokensVars /\ [ConnNext]_connVars
           /\ [OrgNext]_orgVars /\ [GeoNext]_geoVars /\ [ProcNext]_procVars
  BY DEF Next

\* They begin where each one begins.
LEMMA PlatformInit ==
    Init => LockInit /\ TokensInit /\ ConnInit /\ OrgInit /\ GeoInit /\ ProcInit
  BY DEF Init

\* Each service keeps its types beside the others.
THEOREM PlatformTyped == Spec => []TypeOK
<1>1. Spec => LockSpec /\ TokensSpec /\ ConnSpec /\ OrgSpec /\ GeoSpec /\ ProcSpec
  BY PlatformInit, PlatformStep, PTL
     DEF Spec, LockSpec, TokensSpec, ConnSpec, OrgSpec, GeoSpec, ProcSpec
<1>2. LockInductive /\ TokensInductive /\ ConnInductive /\ OrgInductive /\ GeoTypeOK
        /\ ProcInductive => TypeOK
  BY DEF TypeOK, LockInductive, TokensInductive, ConnInductive, OrgInductive, ProcInductive
<1> QED BY <1>1, <1>2, LockInductiveInvariant, TokensInductiveInvariant,
           ConnInductiveInvariant, OrgInductiveInvariant, GeoTyped, ProcInductiveInvariant, PTL

\* What is proved of each service holds of all of them side by side, as the run of
\* MCPlatform checks it on its instance.
THEOREM PlatformSafe ==
    Spec => /\ [](LocksWhenDue /\ TokensOverlap /\ OneActive /\ RanksHold)
            /\ LockHolds /\ ExitTells /\ ReadyTells
<1>1. Spec => LockSpec /\ TokensSpec /\ ConnSpec /\ OrgSpec /\ ProcSpec
  BY PlatformInit, PlatformStep, PTL
     DEF Spec, LockSpec, TokensSpec, ConnSpec, OrgSpec, ProcSpec
<1> QED BY <1>1, LocksExactlyWhenDue, LocksLast, TokensFew, ActiveFew, RanksAgree,
           ExitIsTold, ReadyIsTrue, PTL
=============================================================================
