--------------------------- MODULE Organizations ----------------------------
(***************************************************************************)
(* Organizations, memberships and system roles                             *)
(* (src/modules/organizations/organizations.service.ts,                    *)
(* src/modules/rbac/, src/http/middleware/orgContext.ts and                *)
(* requirePermission.ts), with the scripts that fill the same tables: the  *)
(* legacy backfill, the role seeding and set-role.                         *)
(*                                                                         *)
(* Two tables tell a member's rank: OrgMember.role is a label, and         *)
(* MemberRole with RolePermission decides.  Creating an organization       *)
(* writes all of it in one transaction, tried again when the slug is       *)
(* taken; the scripts write it row by row and may stop anywhere.           *)
(***************************************************************************)
EXTENDS Naturals, Sequences, FiniteSets

CONSTANTS
    User,           \* users
    Base,           \* slugs made from organization names
    Suffix,         \* random suffixes, 0 for none
    Legacy,         \* LEGACY_ORG_SLUG
    OrgRequest,     \* requests to create an organization
    MaxOrgs         \* bound: organizations

ASSUME OrganizationsAssumption ==
    MaxOrgs \in Nat /\ 0 \in Suffix /\ Legacy \in Base /\ User # {}

\* PERMISSION_CATALOG
Permission == {"customers:read", "technicians:read", "work-orders:read", "organizations:manage"}

\* SYSTEM_ROLE_PERMISSIONS
RolePermissions ==
    [OWNER    |-> Permission,
     ADMIN    |-> Permission \ {"organizations:manage"},
     EMPLOYEE |-> {"customers:read", "work-orders:read"},
     TECH     |-> {"work-orders:read"}]

\* SYSTEM_ROLE_KEYS
SystemRoleKeys == <<"OWNER", "ADMIN", "EMPLOYEE", "TECH">>

SystemRole == DOMAIN RolePermissions

Slug == Base \X Suffix

VARIABLES
    orgs,       \* organizations, by slug
    founder,    \* history: who created them: <<organization, user>>
    label,      \* OrgMember rows: <<organization, user, role>>
    held,       \* MemberRole rows: <<organization, user, system role>>
    roles,      \* OrgRole rows: <<organization, system role>>
    grants,     \* RolePermission rows: <<organization, system role, permission>>
    catalog,    \* Permission rows
    userRole,   \* User.role
    ocr,        \* a request to create: its user, base and attempt, 0 when idle
    todo        \* organizations the role seeding still has to do

rbacVars == <<held, roles, grants, catalog>>
orgVars  == <<orgs, founder, label, rbacVars, userRole, ocr, todo>>

Idle == [user |-> CHOOSE u \in User : TRUE, base |-> Legacy, attempt |-> 0]

GrantsKnown == \A g \in grants : <<g[1], g[2]>> \in roles /\ g[3] \in catalog

OrgTypeOK ==
    /\ orgs \subseteq Slug /\ todo \subseteq orgs
    /\ founder \subseteq orgs \X User
    /\ label \subseteq orgs \X User \X {"OWNER", "MEMBER"}
    /\ \A l, m \in label : l[1] = m[1] /\ l[2] = m[2] => l = m
    /\ held \subseteq {<<l[1], l[2], k>> : l \in label, k \in SystemRole}
    /\ roles \subseteq orgs \X SystemRole
    /\ GrantsKnown
    /\ catalog \subseteq Permission
    /\ userRole \in [User -> {"ADMIN", "USER"}]
    /\ ocr \in [OrgRequest -> [user : User, base : Base, attempt : 0 .. 3]]

OrgInit ==
    /\ orgs = {} /\ founder = {} /\ label = {} /\ held = {}
    /\ roles = {} /\ grants = {} /\ catalog = {}
    /\ userRole = [u \in User |-> "USER"]
    /\ ocr = [q \in OrgRequest |-> Idle]
    /\ todo = {}

-----------------------------------------------------------------------------
\* Faulty variant: read before the upserts.
StalePermissions == catalog

\* ensurePermissionCatalog upserts all permissions and reads them afterwards.
KnownPermissions == Permission

\* ensureSystemRoles, as far as the first n roles and the permissions of d of them.
EnsureSystemRoles(o, n, d) ==
    LET K(i) == {SystemRoleKeys[j] : j \in 1 .. i}
    IN /\ catalog' = Permission
       /\ roles' = roles \cup ({o} \X K(n))
       /\ grants' = grants \cup {g \in {o} \X K(d) \X KnownPermissions :
                                    g[3] \in RolePermissions[g[2]]}

\* assignSystemRoleToMember: U become owners of o by role.
AssignOwners(o, U) == held' = held \cup {<<o, u, "OWNER">> : u \in U}

OrgRequestStart(q, u, b) ==
    /\ ocr[q].attempt = 0
    /\ ocr' = [ocr EXCEPT ![q] = [user |-> u, base |-> b, attempt |-> 1]]
    /\ UNCHANGED <<orgs, founder, label, rbacVars, userRole, todo>>

\* The first attempt takes the bare slug, the others a random suffix.
SuffixOf(q) == IF ocr[q].attempt = 1 THEN {0} ELSE Suffix \ {0}

\* The transaction: organization, owner, roles; or, when the slug is taken,
\* nothing, and the next attempt; after three of them ORG_SLUG_TAKEN.
CreateOrganization(q) ==
    /\ ocr[q].attempt # 0
    /\ \E n \in SuffixOf(q) :
        LET o == <<ocr[q].base, n>>
            u == ocr[q].user
        IN IF o \in orgs
             THEN /\ ocr' = IF ocr[q].attempt = 3 THEN [ocr EXCEPT ![q] = Idle]
                            ELSE [ocr EXCEPT ![q].attempt = @ + 1]
                  /\ UNCHANGED <<orgs, founder, label, rbacVars>>
             ELSE /\ Cardinality(orgs) < MaxOrgs
                  /\ orgs' = orgs \cup {o}
                  /\ founder' = founder \cup {<<o, u>>}
                  /\ label' = label \cup {<<o, u, "OWNER">>}
                  /\ EnsureSystemRoles(o, 4, 4)
                  /\ AssignOwners(o, {u})
                  /\ ocr' = [ocr EXCEPT ![q] = Idle]
    /\ UNCHANGED <<userRole, todo>>

\* Any other error, or the end of the process: rolled back.
OrgRequestFails(q) ==
    /\ ocr[q].attempt # 0
    /\ ocr' = [ocr EXCEPT ![q] = Idle]
    /\ UNCHANGED <<orgs, founder, label, rbacVars, userRole, todo>>

-----------------------------------------------------------------------------
(* The scripts                                                              *)

LegacyOrg == <<Legacy, 0>>

\* backfill-legacy-org: the organization is upserted ...
BackfillOrg ==
    /\ Cardinality(orgs \cup {LegacyOrg}) <= MaxOrgs
    /\ orgs' = orgs \cup {LegacyOrg}
    /\ UNCHANGED <<founder, label, rbacVars, userRole, ocr, todo>>

\* Faulty variant: users who are members already become members again.
BackfillEveryone ==
    /\ LegacyOrg \in orgs
    /\ label' = label \cup
         {<<LegacyOrg, u, IF userRole[u] = "ADMIN" THEN "OWNER" ELSE "MEMBER">> : u \in User}
    /\ UNCHANGED <<orgs, founder, rbacVars, userRole, ocr, todo>>

\* ... and every user who is not one becomes a member.
BackfillMembers ==
    /\ LegacyOrg \in orgs
    /\ label' = label \cup
         {<<LegacyOrg, u, IF userRole[u] = "ADMIN" THEN "OWNER" ELSE "MEMBER">> :
            u \in {v \in User : \A l \in label : <<l[1], l[2]>> # <<LegacyOrg, v>>}}
    /\ UNCHANGED <<orgs, founder, rbacVars, userRole, ocr, todo>>

\* seedRbac: for each organization the system roles, then the owners' roles.
SeedRbacStart ==
    /\ todo = {} /\ todo' = orgs
    /\ catalog' = Permission
    /\ UNCHANGED <<orgs, founder, label, held, roles, grants, userRole, ocr>>

SeedOrg(o) ==
    /\ o \in todo
    /\ EnsureSystemRoles(o, 4, 4)
    /\ AssignOwners(o, {u \in User : <<o, u, "OWNER">> \in label})
    /\ todo' = todo \ {o}
    /\ UNCHANGED <<orgs, founder, label, userRole, ocr>>

\* It stops somewhere among the roles of one organization.
SeedStops(o) ==
    /\ o \in todo /\ todo' = {}
    /\ \E n \in 0 .. 4, d \in 0 .. 4 : d \in {n - 1, n} /\ EnsureSystemRoles(o, n, d)
    /\ UNCHANGED <<orgs, founder, label, held, userRole, ocr>>

\* set-role
SetUserRole(u) ==
    /\ \E r \in {"ADMIN", "USER"} : userRole' = [userRole EXCEPT ![u] = r]
    /\ UNCHANGED <<orgs, founder, label, rbacVars, ocr, todo>>

\* bootstrap-first-admin, which makes an admin of anybody, not only the first.
BootstrapFirstAdmin(u) ==
    /\ userRole' = [userRole EXCEPT ![u] = "ADMIN"]
    /\ UNCHANGED <<orgs, founder, label, rbacVars, ocr, todo>>

OrgNext ==
    \/ \E q \in OrgRequest, u \in User, b \in Base : OrgRequestStart(q, u, b)
    \/ \E q \in OrgRequest : CreateOrganization(q) \/ OrgRequestFails(q)
    \/ BackfillOrg \/ BackfillMembers \/ SeedRbacStart
    \/ \E o \in orgs : SeedOrg(o) \/ SeedStops(o)
    \/ \E u \in User : SetUserRole(u) \/ BootstrapFirstAdmin(u)

OrgSpec == OrgInit /\ [][OrgNext]_orgVars

-----------------------------------------------------------------------------
(* What a request may do                                                    *)

\* The organizations a user is offered to choose from.
ListOrganizations(u) == {l[1] : l \in {m \in label : m[2] = u}}

\* resolveOrgContext: the organization that the header names, to its members.
InOrg(u, o) == \E l \in label : l[1] = o /\ l[2] = u

HasSystemRole(o, u, k) == <<o, u, k>> \in held

\* requirePermission: a grant of one of the member's roles.
HasPermission(o, u, p) == \E k \in SystemRole : <<o, u, k>> \in held /\ <<o, k, p>> \in grants

MayRun(u, o, p) == InOrg(u, o) /\ HasPermission(o, u, p)

(***************************************************************************)
(* Ranks hold: whoever created an organization finds it in the list and    *)
(* owns it with every permission from its first moment on, also when       *)
(* attempts failed and on an empty database; nobody else gets a permission *)
(* that the table of system roles does not give; and who owns by role owns *)
(* by label, although the scripts fill the tables apart and stop halfway.  *)
(***************************************************************************)
RanksHold ==
    /\ \A f \in founder :
        /\ f[1] \in ListOrganizations(f[2]) /\ HasSystemRole(f[1], f[2], "OWNER")
        /\ \A p \in Permission : MayRun(f[2], f[1], p)
    /\ \A u \in User, o \in orgs, p \in Permission :
        MayRun(u, o, p) => \E k \in SystemRole : HasSystemRole(o, u, k) /\ p \in RolePermissions[k]
    /\ \A h \in held : h[3] = "OWNER" => <<h[1], h[2], "OWNER">> \in label
=============================================================================
