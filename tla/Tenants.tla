------------------------------ MODULE Tenants -------------------------------
(***************************************************************************)
(* The rows that organizations keep and the foreign keys between them:     *)
(* customers' locations, work templates, service contracts, skills,        *)
(* service resources, crews, bookings, geo devices and what hangs on a     *)
(* work order (the services under src/modules, prisma/schema.prisma).      *)
(*                                                                         *)
(* A handler is called in the name of one organization, o, with ids that   *)
(* the client chose.  It looks rows up in some calls and writes in the     *)
(* last one.  One step stands for all of them: the organization of a row   *)
(* never changes, and the database refuses to link to a row that is gone.  *)
(* What is refused (not found, name taken, in use) is no step.             *)
(*                                                                         *)
(* The scripts write the same tables: the seed empties and fills them with *)
(* rows of no organization, which a backfill gives to a legacy one; others *)
(* make resources, crews and bookings for the rows they find.              *)
(***************************************************************************)
EXTENDS Naturals, Sequences, FiniteSets

CONSTANTS
    Org,        \* organizations
    LegacyOrg,  \* the one with LEGACY_ORG_SLUG
    NoOrg,      \* stands for orgId null
    MaxRows     \* bound: rows that endpoints create, at any time

ASSUME TenantsAssumption == MaxRows \in Nat /\ LegacyOrg \in Org /\ NoOrg \notin Org

VARIABLES
    rows,       \* the rows there are
    refs        \* foreign keys and join tables: <<child, parent>>

tenantVars == <<rows, refs>>

Kind == {"customer", "location", "technician", "workOrder", "member", "template", "contract",
         "skill", "resource", "crew", "booking", "device", "incident", "lineItem", "note"}

\* One row of each kind and organization is enough to mix organizations up.
Row == [kind : Kind, org : Org \cup {NoOrg}]

All(k) == [kind : {k}, org : Org \cup {NoOrg}]

TenantsTypeOK == rows \subseteq Row /\ refs \subseteq rows \X rows

\* No endpoint creates customers, technicians, work orders and members: they are
\* there.
Given == {"customer", "location", "technician", "workOrder", "member"}

WorkOrderLinks == {<<"workOrder", "customer">>, <<"workOrder", "location">>,
                   <<"workOrder", "technician">>}

TenantsInit ==
    /\ rows = {x \in Row : x.kind \in Given /\ x.org \in Org}
    /\ refs = {p \in rows \X rows :
                 /\ p[1].org = p[2].org
                 /\ <<p[1].kind, p[2].kind>> \in WorkOrderLinks \cup {<<"location", "customer">>}}

-----------------------------------------------------------------------------
\* onDelete: Cascade removes the child row, Restrict refuses; for the other
\* pairs (SetNull, and rows of join tables) only the link goes.
Cascade  == {<<"location", "customer">>, <<"workOrder", "customer">>,
             <<"workOrder", "location">>, <<"contract", "customer">>,
             <<"device", "resource">>, <<"incident", "workOrder">>,
             <<"lineItem", "workOrder">>, <<"note", "workOrder">>}
Restricting == {<<"template", "skill">>, <<"booking", "crew">>}

Kinds(p) == <<p[1].kind, p[2].kind>>

ChildrenOf(X) == {p[1] : p \in {q \in refs : q[2] \in X /\ Kinds(q) \in Cascade}}

\* X and every row that goes with it: cascades are at most two levels deep.
Doomed(X) == X \cup ChildrenOf(X) \cup ChildrenOf(ChildrenOf(X))

Restricted(X) == \E p \in refs : p[2] \in X /\ p[1] \notin X /\ Kinds(p) \in Restricting

Within(X) == {p \in refs : p[1] \in X /\ p[2] \in X}

\* findFirst { id, orgId }
Own(o, x) == x \in rows /\ x.org = o

Insert(o, x, parents) ==
    /\ x.org = o /\ x \notin rows
    /\ Cardinality({y \in rows : y.kind \notin Given}) < MaxRows
    /\ rows' = rows \cup {x}
    /\ refs' = refs \cup ({x} \X parents)

Relink(x, kinds, parents) ==
    /\ refs' = {p \in refs : ~(p[1] = x /\ p[2].kind \in kinds)} \cup ({x} \X parents)
    /\ UNCHANGED rows

Delete(o, x) ==
    /\ Own(o, x)
    /\ ~Restricted(Doomed({x}))
    /\ rows' = rows \ Doomed({x})
    /\ refs' = Within(rows')

\* An optional id: none, or one of a kind.
Optional(k) == {{}} \cup {{x} : x \in All(k)}

OwnAll(o, X) == \A x \in X : Own(o, x)

-----------------------------------------------------------------------------
(* Service locations, work templates, service contracts                     *)

CreateServiceLocation(o) == \E l \in All("location"), c \in All("customer") :
    Own(o, c) /\ Insert(o, l, {c})

UpdateServiceLocation(o) == \E l \in All("location"), c \in All("customer") :
    Own(o, c) /\ Own(o, l) /\ Relink(l, {"customer"}, {c})

DeleteServiceLocation(o) == \E l \in All("location") : Delete(o, l)

\* Faulty variant: the skills are counted without their organization.
CreateWorkTemplateAnySkill(o) == \E t \in All("template"), S \in SUBSET All("skill") :
    S \subseteq rows /\ Insert(o, t, S)

\* validateSkills counts the skills of the organization among the ids.
CreateWorkTemplate(o) == \E t \in All("template"), S \in SUBSET All("skill") :
    OwnAll(o, S) /\ Insert(o, t, S)

UpdateWorkTemplate(o) == \E t \in All("template"), S \in SUBSET All("skill") :
    OwnAll(o, S) /\ Own(o, t) /\ Relink(t, {"skill"}, S)

DeleteWorkTemplate(o) == \E t \in All("template") : Delete(o, t)

CreateServiceContract(o) ==
    \E k \in All("contract"), c \in All("customer") :
        /\ Own(o, c)
        /\ \E L \in Optional("location"), T \in SUBSET All("template") :
            /\ OwnAll(o, T) /\ \A l \in L : Own(o, l) /\ <<l, c>> \in refs
            /\ Insert(o, k, {c} \cup L \cup T)

\* K holds the fields the input names.  The location, when one is given, must be
\* the customer's; when it is not named the contract keeps the one it has,
\* whatever customer is given.
UpdateServiceContract(o) ==
    \E k \in All("contract"), c \in All("customer"), K \in SUBSET {"location", "template"} :
        /\ Own(o, k) /\ Own(o, c)
        /\ \E L \in Optional("location"), T \in SUBSET All("template") :
            /\ OwnAll(o, T) /\ \A x \in L \cup T : x.kind \in K
            /\ \A l \in L : Own(o, l) /\ <<l, c>> \in refs
            /\ Relink(k, {"customer"} \cup K, {c} \cup L \cup T)

DeleteServiceContract(o) == \E k \in All("contract") : Delete(o, k)

-----------------------------------------------------------------------------
(* Skills, service resources, crews, devices                                *)

CreateSkill(o) == \E s \in All("skill") : Insert(o, s, {})

\* SKILL_IN_USE while a template requires it (P2003).
DeleteSkill(o) == \E s \in All("skill") : Delete(o, s)

CreateServiceResource(o) == \E r \in All("resource"), M \in Optional("member") :
    OwnAll(o, M) /\ Insert(o, r, M)

\* ORG_MEMBER_ASSIGNED when the member stands behind another resource.
UpdateServiceResource(o) == \E r \in All("resource"), M \in Optional("member") :
    /\ OwnAll(o, M) /\ Own(o, r)
    /\ \A p \in refs : p[1].kind = "resource" /\ p[2] \in M => p[1] = r
    /\ Relink(r, {"member"}, M)

DeleteServiceResource(o) == \E r \in All("resource") : Delete(o, r)

ReplaceResourceSkills(o) == \E r \in All("resource"), S \in SUBSET All("skill") :
    Own(o, r) /\ OwnAll(o, S) /\ Relink(r, {"skill"}, S)

CreateCrew(o) == \E c \in All("crew") : Insert(o, c, {})

\* Bookings and routes restrict it.
DeleteCrew(o) == \E c \in All("crew") : Delete(o, c)

AddCrewMember(o) == \E c \in All("crew"), r \in All("resource") :
    /\ Own(o, c) /\ Own(o, r)
    /\ refs' = refs \cup {<<c, r>>}
    /\ UNCHANGED rows

RemoveCrewMember(o) == \E c \in All("crew"), r \in All("resource") :
    /\ c.org = o /\ <<c, r>> \in refs
    /\ refs' = refs \ {<<c, r>>}
    /\ UNCHANGED rows

CreateGeoDevice(o) == \E d \in All("device"), r \in All("resource") :
    Own(o, r) /\ Insert(o, d, {r})

-----------------------------------------------------------------------------
(* Bookings, and what hangs on a work order                                 *)

\* BOOKING_ALREADY_EXISTS when the work order has one (P2002).
CreateBooking(o) ==
    \E b \in All("booking"), c \in All("crew"), W \in Optional("workOrder") :
        /\ Own(o, c) /\ OwnAll(o, W)
        /\ \A p \in refs : p[1].kind = "booking" => p[2] \notin W
        /\ Insert(o, b, {c} \cup W)

UpdateBooking(o) == \E b \in All("booking"), c \in All("crew") :
    Own(o, b) /\ Own(o, c) /\ Relink(b, {"crew"}, {c})

AddWorkOrderIncident(o) ==
    \E i \in All("incident"), w \in All("workOrder"), T \in Optional("template") :
        Own(o, w) /\ OwnAll(o, T) /\ Insert(o, i, {w} \cup T)

AddWorkOrderNote(o) == \E n \in All("note"), w \in All("workOrder") :
    Own(o, w) /\ Insert(o, n, {w})

AddWorkOrderLineItem(o) == \E i \in All("lineItem"), w \in All("workOrder") :
    Own(o, w) /\ Insert(o, i, {w})

DeleteWorkOrderLineItem(o) == \E i \in All("lineItem"), w \in All("workOrder") :
    Own(o, w) /\ <<i, w>> \in refs /\ Delete(o, i)

-----------------------------------------------------------------------------
(* The scripts                                                              *)

\* resetDomainTables empties these tables, one statement each, whoever owns the
\* rows; a skill that a template requires ends it.
ResetOrder == <<"booking", "crew", "device", "resource", "skill", "lineItem", "note",
                "workOrder", "location", "technician", "customer">>

Emptied(n) == Doomed({x \in rows : \E i \in 1 .. n : x.kind = ResetOrder[i]})

ResetDomainTables ==
    \E n \in 1 .. Len(ResetOrder) :
        /\ ~Restricted(Emptied(n))
        /\ rows' = rows \ Emptied(n)
        /\ refs' = Within(rows')

\* The seed goes on with rows of its own, up to the first k of these kinds.  It
\* gives none an organization.
SeedOrder == <<"technician", "customer", "location", "workOrder", "note", "lineItem">>
SeedLinks == WorkOrderLinks \cup
    {<<"location", "customer">>, <<"note", "workOrder">>, <<"lineItem", "workOrder">>}

SeedRows ==
    /\ \A i \in 1 .. Len(ResetOrder), x \in rows : x.kind # ResetOrder[i]
    /\ \E k \in 1 .. Len(SeedOrder) :
        LET new == {[kind |-> SeedOrder[i], org |-> NoOrg] : i \in 1 .. k}
        IN /\ rows' = rows \cup new
           /\ refs' = refs \cup {p \in new \X new : Kinds(p) \in SeedLinks}

\* backfill-legacy-org takes the rows of no organization over, those of all
\* tables in one transaction.
BackfillRows ==
    LET Moved(x) == IF x.org = NoOrg THEN [x EXCEPT !.org = LegacyOrg] ELSE x
    IN /\ rows' = {Moved(x) : x \in rows}
       /\ refs' = {<<Moved(p[1]), Moved(p[2])>> : p \in refs}

\* backfill-service-resources: a resource for a technician and the member who is
\* the same user, if any; then, without a crew, one of all resources.  The crew
\* and its members are two calls.
BackfillResources(o) ==
    \E r \in All("resource"), M \in Optional("member"), C \in Optional("crew"), S \in BOOLEAN :
        /\ r.org = o /\ OwnAll(o, M)
        /\ r \in rows \/ \E t \in All("technician") : Own(o, t)
        /\ \A c \in C : c.org = o /\ c \notin rows
        /\ rows' = rows \cup {r} \cup C
        /\ refs' = {p \in refs : ~(p[1] = r /\ p[2].kind = "member")} \cup ({r} \X M)
                    \cup (IF S THEN C \X {r} ELSE {})

\* backfill-bookings: a booking for a work order, in a crew of the organization.
BackfillBooking(o) ==
    \E b \in All("booking"), w \in All("workOrder"), c \in All("crew") :
        /\ Own(o, w) /\ Own(o, c)
        /\ IF <<b, w>> \in refs THEN Relink(b, {"crew"}, {c}) ELSE Insert(o, b, {c, w})

TenantsNext ==
    \/ ResetDomainTables \/ SeedRows \/ BackfillRows
    \/ \E o \in Org : BackfillResources(o) \/ BackfillBooking(o)
    \/ \E o \in Org :
        \/ CreateServiceLocation(o) \/ UpdateServiceLocation(o) \/ DeleteServiceLocation(o)
        \/ CreateWorkTemplate(o) \/ UpdateWorkTemplate(o) \/ DeleteWorkTemplate(o)
        \/ CreateServiceContract(o) \/ UpdateServiceContract(o) \/ DeleteServiceContract(o)
        \/ CreateSkill(o) \/ DeleteSkill(o)
        \/ CreateServiceResource(o) \/ UpdateServiceResource(o) \/ DeleteServiceResource(o)
        \/ ReplaceResourceSkills(o)
        \/ CreateCrew(o) \/ DeleteCrew(o) \/ AddCrewMember(o) \/ RemoveCrewMember(o)
        \/ CreateGeoDevice(o) \/ CreateBooking(o) \/ UpdateBooking(o)
        \/ AddWorkOrderIncident(o) \/ AddWorkOrderNote(o)
        \/ AddWorkOrderLineItem(o) \/ DeleteWorkOrderLineItem(o)

TenantsSpec == TenantsInit /\ [][TenantsNext]_tenantVars

-----------------------------------------------------------------------------
(* What a client is shown: the row with the id, and rows that it links to.  *)
(* The linked rows come without a filter.                                   *)

Parents(x, k)  == {p[2] : p \in {q \in refs : q[1] = x /\ q[2].kind = k}}
Children(x, k) == {p[1] : p \in {q \in refs : q[2] = x /\ q[1].kind = k}}

Shown(o, k, Linked(_)) == UNION {{x} \cup Linked(x) : x \in {y \in All(k) : Own(o, y)}}

GetServiceLocation(o)    == Shown(o, "location", LAMBDA x : Parents(x, "customer"))
GetWorkTemplate(o)       == Shown(o, "template", LAMBDA x : Parents(x, "skill"))
GetServiceContract(o)    == Shown(o, "contract", LAMBDA x :
                                UNION {Parents(x, k) : k \in {"customer", "location", "template"}})
GetSkill(o)              == Shown(o, "skill", LAMBDA x : Children(x, "resource"))
GetServiceResource(o)    == Shown(o, "resource", LAMBDA x : Parents(x, "member"))
ListResourceSkills(o)    == Shown(o, "resource", LAMBDA x : Parents(x, "skill"))
GetCrewDetail(o)         == Shown(o, "crew", LAMBDA x : Parents(x, "resource"))
ListWorkOrderNotes(o)    == Shown(o, "workOrder", LAMBDA x : {n \in Children(x, "note") : n.org = o})
ListWorkOrderLineItems(o) ==
    Shown(o, "workOrder", LAMBDA x : {i \in Children(x, "lineItem") : i.org = o})

\* The reads that go by the organization o of the caller.  Lists of these kinds
\* go by it too and show no more.
ScopedAnswers(o) ==
    UNION {GetServiceLocation(o), GetWorkTemplate(o), GetServiceContract(o), GetSkill(o),
           GetServiceResource(o), ListResourceSkills(o), GetCrewDetail(o),
           ListWorkOrderNotes(o), ListWorkOrderLineItems(o)}

\* The other reads do not know the caller's organization.  Two are findUnique { id },
\* three are lists of all rows there are: the rows shown together, one set for each
\* row that is found or listed.
Found(k) == All(k) \cap rows

WorkOrderShown(w) ==
    {w} \cup UNION {Parents(w, k) : k \in {"customer", "location", "technician"}}

GetWorkOrderDetail ==
    {WorkOrderShown(w) \cup Children(w, "note") \cup Children(w, "lineItem") :
        w \in Found("workOrder")}

GetCustomerDetails ==
    {{c} \cup Children(c, "location")
         \cup UNION {{w} \cup Parents(w, "location") \cup Parents(w, "technician") :
                        w \in Children(c, "workOrder")} : c \in Found("customer")}

CustomersListed   == {{c} : c \in Found("customer")}
TechniciansListed == {{t} : t \in Found("technician")}
WorkOrdersListed  == {WorkOrderShown(w) : w \in Found("workOrder")}

UnscopedAnswers ==
    UNION {GetWorkOrderDetail, GetCustomerDetails,
           CustomersListed, TechniciansListed, WorkOrdersListed}

\* What a member of o can be shown.
Answers(o) == ScopedAnswers(o) \cup UNION UnscopedAnswers

\* Kinds of which every organization is shown the rows of all.
Exposed == {"customer", "location", "technician", "workOrder", "note", "lineItem"}

(***************************************************************************)
(* Links keep organizations apart, reads do so in part.  No foreign key    *)
(* and no join row connects rows of two organizations, whatever ids their  *)
(* clients put into calls and whatever the scripts have moved.  So a read  *)
(* that goes by the caller's organization shows its rows only, although    *)
(* nothing filters the rows linked to the one it finds.  A read that goes  *)
(* by an id alone, and each line of a list that goes by nothing, shows     *)
(* rows of one organization, but this need not be the caller's: a member   *)
(* of one organization is shown the customers, locations, technicians,     *)
(* work orders, notes and line items of the others, and nothing else of    *)
(* theirs.                                                                 *)
(***************************************************************************)
OneOrganization ==
    /\ \A p \in refs : p[1].org = p[2].org
    /\ \A o \in Org : \A x \in ScopedAnswers(o) : x.org = o
    /\ \A shown \in UnscopedAnswers : \A x, y \in shown : x.org = y.org
    /\ \A o \in Org : \A x \in Answers(o) : x.org = o \/ x.kind \in Exposed
=============================================================================
