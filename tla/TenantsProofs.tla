------------------------------ MODULE TenantsProofs ------------------------------
(* Theorems about Tenants for every set of organizations and any number of rows. *)
EXTENDS Tenants, TLAPS

-----------------------------------------------------------------------------
(* The inductive invariant: every link joins two rows of one organization        *)

Links == \A p \in refs : p[1].org = p[2].org

Apart == TenantsTypeOK /\ Links

-----------------------------------------------------------------------------
(* What the writes do                                                            *)

\* A row inserted with parents of its own organization.
LEMMA InsertKeeps ==
  ASSUME Apart, NEW o \in Org, NEW x \in Row, NEW P \in SUBSET Row, OwnAll(o, P),
         Insert(o, x, P)
  PROVE  Apart'
<1>1. /\ x.org = o /\ rows' = rows \cup {x} /\ refs' = refs \cup ({x} \X P)
      /\ P \subseteq rows /\ \A y \in P : y.org = o
  BY DEF Insert, OwnAll, Own
<1>2. refs \subseteq rows \X rows /\ rows \subseteq Row
  BY DEF Apart, TenantsTypeOK
<1>3. TenantsTypeOK'
  BY <1>1, <1>2 DEF TenantsTypeOK
<1>4. \A p \in {x} \X P : p[1].org = p[2].org
  BY <1>1
<1>5. Links'
  BY <1>1, <1>4 DEF Apart, Links
<1> QED
  BY <1>3, <1>5 DEF Apart

\* A row linked anew to parents of its own organization.
LEMMA RelinkKeeps ==
  ASSUME Apart, NEW o \in Org, NEW x \in Row, NEW K, NEW P \in SUBSET Row,
         Own(o, x), OwnAll(o, P), Relink(x, K, P)
  PROVE  Apart'
<1>1. /\ x \in rows /\ x.org = o /\ P \subseteq rows /\ \A y \in P : y.org = o
      /\ rows' = rows
      /\ refs' = {p \in refs : ~(p[1] = x /\ p[2].kind \in K)} \cup ({x} \X P)
  BY DEF Relink, OwnAll, Own
<1>2. refs \subseteq rows \X rows /\ rows \subseteq Row
  BY DEF Apart, TenantsTypeOK
<1>3. TenantsTypeOK'
  BY <1>1, <1>2 DEF TenantsTypeOK
<1>4. \A p \in {x} \X P : p[1].org = p[2].org
  BY <1>1
<1>5. Links'
  BY <1>1, <1>4 DEF Apart, Links
<1> QED
  BY <1>3, <1>5 DEF Apart

\* Rows deleted with all links to and from them.
LEMMA RestrictKeeps ==
  ASSUME Apart, rows' \subseteq rows, refs' = Within(rows')
  PROVE  Apart'
<1>1. refs \subseteq rows \X rows /\ rows \subseteq Row
  BY DEF Apart, TenantsTypeOK
<1>2. refs' = {p \in refs : p[1] \in rows' /\ p[2] \in rows'}
  BY DEF Within
<1>3. TenantsTypeOK'
  BY <1>1, <1>2 DEF TenantsTypeOK
<1>4. Links'
  BY <1>2 DEF Apart, Links
<1> QED
  BY <1>3, <1>4 DEF Apart

\* A row deleted by its organization, with the rows that cascade.
LEMMA DeleteKeeps ==
  ASSUME Apart, NEW o \in Org, NEW x \in Row, Delete(o, x)
  PROVE  Apart'
  BY RestrictKeeps DEF Delete

\* The rows of the kinds, and the sets of them that calls name, are rows.
LEMMA KindsAreRows ==
  /\ \A k \in Kind : All(k) \subseteq Row
  /\ \A k \in Kind : \A X \in Optional(k) : X \in SUBSET Row
  BY DEF All, Row, Optional, Kind

-----------------------------------------------------------------------------
(* Every step keeps it                                                           *)

\* Init establishes it.
LEMMA InitApart == TenantsInit => Apart
  BY DEF TenantsInit, Apart, TenantsTypeOK, Links

\* The endpoints that create a row.
LEMMA CreateKeeps ==
  ASSUME Apart, NEW o \in Org,
         \/ CreateServiceLocation(o) \/ CreateWorkTemplate(o) \/ CreateServiceContract(o)
         \/ CreateSkill(o) \/ CreateServiceResource(o) \/ CreateCrew(o) \/ CreateGeoDevice(o)
         \/ CreateBooking(o) \/ AddWorkOrderIncident(o) \/ AddWorkOrderNote(o)
         \/ AddWorkOrderLineItem(o)
  PROVE  Apart'
<1>0. /\ \A k \in Kind : All(k) \subseteq Row
      /\ \A k \in Kind : \A X \in Optional(k) : X \in SUBSET Row
  BY KindsAreRows
<1> USE DEF Kind
<1>1. \E x \in Row, P \in SUBSET Row : OwnAll(o, P) /\ Insert(o, x, P)
  <2>1. CASE CreateServiceLocation(o)
    <3>1. PICK l \in All("location"), c \in All("customer") : Own(o, c) /\ Insert(o, l, {c})
      BY <2>1 DEF CreateServiceLocation
    <3> QED
      BY <1>0, <3>1 DEF OwnAll
  <2>2. CASE CreateWorkTemplate(o)
    <3>1. PICK t \in All("template"), S \in SUBSET All("skill") : OwnAll(o, S) /\ Insert(o, t, S)
      BY <2>2 DEF CreateWorkTemplate
    <3> QED
      BY <1>0, <3>1
  <2>3. CASE CreateServiceContract(o)
    <3>1. PICK k \in All("contract"), c \in All("customer"),
               L \in Optional("location"), T \in SUBSET All("template") :
            /\ Own(o, c) /\ OwnAll(o, T) /\ \A l \in L : Own(o, l)
            /\ Insert(o, k, {c} \cup L \cup T)
      BY <2>3 DEF CreateServiceContract
    <3> DEFINE P == {c} \cup L \cup T
    <3>2. P \in SUBSET Row /\ OwnAll(o, P) /\ k \in Row /\ Insert(o, k, P)
      BY <1>0, <3>1 DEF OwnAll
    <3> QED
      BY <3>2
  <2>4. CASE CreateSkill(o)
    <3>1. PICK s \in All("skill") : Insert(o, s, {})
      BY <2>4 DEF CreateSkill
    <3>2. OwnAll(o, {})
      BY DEF OwnAll
    <3> QED
      BY <1>0, <3>1, <3>2
  <2>5. CASE CreateServiceResource(o)
    <3>1. PICK r \in All("resource"), M \in Optional("member") : OwnAll(o, M) /\ Insert(o, r, M)
      BY <2>5 DEF CreateServiceResource
    <3> QED
      BY <1>0, <3>1
  <2>6. CASE CreateCrew(o)
    <3>1. PICK c \in All("crew") : Insert(o, c, {})
      BY <2>6 DEF CreateCrew
    <3>2. OwnAll(o, {})
      BY DEF OwnAll
    <3> QED
      BY <1>0, <3>1, <3>2
  <2>7. CASE CreateGeoDevice(o)
    <3>1. PICK d \in All("device"), r \in All("resource") : Own(o, r) /\ Insert(o, d, {r})
      BY <2>7 DEF CreateGeoDevice
    <3> QED
      BY <1>0, <3>1 DEF OwnAll
  <2>8. CASE CreateBooking(o)
    <3>1. PICK b \in All("booking"), c \in All("crew"), W \in Optional("workOrder") :
            Own(o, c) /\ OwnAll(o, W) /\ Insert(o, b, {c} \cup W)
      BY <2>8 DEF CreateBooking
    <3> DEFINE P == {c} \cup W
    <3>2. P \in SUBSET Row /\ OwnAll(o, P) /\ b \in Row /\ Insert(o, b, P)
      BY <1>0, <3>1 DEF OwnAll
    <3> QED
      BY <3>2
  <2>9. CASE AddWorkOrderIncident(o)
    <3>1. PICK i \in All("incident"), w \in All("workOrder"), T \in Optional("template") :
            Own(o, w) /\ OwnAll(o, T) /\ Insert(o, i, {w} \cup T)
      BY <2>9 DEF AddWorkOrderIncident
    <3> DEFINE P == {w} \cup T
    <3>2. P \in SUBSET Row /\ OwnAll(o, P) /\ i \in Row /\ Insert(o, i, P)
      BY <1>0, <3>1 DEF OwnAll
    <3> QED
      BY <3>2
  <2>10. CASE AddWorkOrderNote(o)
    <3>1. PICK n \in All("note"), w \in All("workOrder") : Own(o, w) /\ Insert(o, n, {w})
      BY <2>10 DEF AddWorkOrderNote
    <3> QED
      BY <1>0, <3>1 DEF OwnAll
  <2>11. CASE AddWorkOrderLineItem(o)
    <3>1. PICK i \in All("lineItem"), w \in All("workOrder") : Own(o, w) /\ Insert(o, i, {w})
      BY <2>11 DEF AddWorkOrderLineItem
    <3> QED
      BY <1>0, <3>1 DEF OwnAll
  <2> QED
    BY <2>1, <2>2, <2>3, <2>4, <2>5, <2>6, <2>7, <2>8, <2>9, <2>10, <2>11
<1> QED
  BY <1>1, InsertKeeps

\* The endpoints that link a row anew, or a crew and a resource.
LEMMA UpdateKeeps ==
  ASSUME Apart, NEW o \in Org,
         \/ UpdateServiceLocation(o) \/ UpdateWorkTemplate(o) \/ UpdateServiceContract(o)
         \/ UpdateServiceResource(o) \/ ReplaceResourceSkills(o) \/ UpdateBooking(o)
         \/ AddCrewMember(o) \/ RemoveCrewMember(o)
  PROVE  Apart'
<1>0. /\ \A k \in Kind : All(k) \subseteq Row
      /\ \A k \in Kind : \A X \in Optional(k) : X \in SUBSET Row
  BY KindsAreRows
<1> USE DEF Kind
<1>1. CASE UpdateServiceLocation(o)
  <2>1. PICK l \in All("location"), c \in All("customer") :
          Own(o, c) /\ Own(o, l) /\ Relink(l, {"customer"}, {c})
    BY <1>1 DEF UpdateServiceLocation
  <2>2. l \in Row /\ {c} \in SUBSET Row /\ OwnAll(o, {c})
    BY <1>0, <2>1 DEF OwnAll
  <2> QED
    BY <2>1, <2>2, RelinkKeeps
<1>2. CASE UpdateWorkTemplate(o)
  <2>1. PICK t \in All("template"), S \in SUBSET All("skill") :
          OwnAll(o, S) /\ Own(o, t) /\ Relink(t, {"skill"}, S)
    BY <1>2 DEF UpdateWorkTemplate
  <2>2. t \in Row /\ S \in SUBSET Row
    BY <1>0
  <2> QED
    BY <2>1, <2>2, RelinkKeeps
<1>3. CASE UpdateServiceContract(o)
  <2>1. PICK k \in All("contract"), c \in All("customer"), K \in SUBSET {"location", "template"},
             L \in Optional("location"), T \in SUBSET All("template") :
          /\ Own(o, k) /\ Own(o, c) /\ OwnAll(o, T) /\ \A l \in L : Own(o, l)
          /\ Relink(k, {"customer"} \cup K, {c} \cup L \cup T)
    BY <1>3 DEF UpdateServiceContract
  <2> DEFINE P == {c} \cup L \cup T
  <2>2. k \in Row /\ P \in SUBSET Row /\ OwnAll(o, P)
    BY <1>0, <2>1 DEF OwnAll
  <2> QED
    BY <2>1, <2>2, RelinkKeeps
<1>4. CASE UpdateServiceResource(o)
  <2>1. PICK r \in All("resource"), M \in Optional("member") :
          OwnAll(o, M) /\ Own(o, r) /\ Relink(r, {"member"}, M)
    BY <1>4 DEF UpdateServiceResource
  <2>2. r \in Row /\ M \in SUBSET Row
    BY <1>0
  <2> QED
    BY <2>1, <2>2, RelinkKeeps
<1>5. CASE ReplaceResourceSkills(o)
  <2>1. PICK r \in All("resource"), S \in SUBSET All("skill") :
          Own(o, r) /\ OwnAll(o, S) /\ Relink(r, {"skill"}, S)
    BY <1>5 DEF ReplaceResourceSkills
  <2>2. r \in Row /\ S \in SUBSET Row
    BY <1>0
  <2> QED
    BY <2>1, <2>2, RelinkKeeps
<1>6. CASE UpdateBooking(o)
  <2>1. PICK b \in All("booking"), c \in All("crew") :
          Own(o, b) /\ Own(o, c) /\ Relink(b, {"crew"}, {c})
    BY <1>6 DEF UpdateBooking
  <2>2. b \in Row /\ {c} \in SUBSET Row /\ OwnAll(o, {c})
    BY <1>0, <2>1 DEF OwnAll
  <2> QED
    BY <2>1, <2>2, RelinkKeeps
<1>7. CASE AddCrewMember(o)
  <2>1. PICK c \in All("crew"), r \in All("resource") :
          /\ c \in rows /\ c.org = o /\ r \in rows /\ r.org = o
          /\ refs' = refs \cup {<<c, r>>} /\ rows' = rows
    BY <1>7 DEF AddCrewMember, Own
  <2> QED
    BY <2>1 DEF Apart, TenantsTypeOK, Links
<1>8. CASE RemoveCrewMember(o)
  BY <1>8 DEF RemoveCrewMember, Apart, TenantsTypeOK, Links
<1> QED
  BY <1>1, <1>2, <1>3, <1>4, <1>5, <1>6, <1>7, <1>8

\* The endpoints that delete a row.
LEMMA RemoveKeeps ==
  ASSUME Apart, NEW o \in Org,
         \/ DeleteServiceLocation(o) \/ DeleteWorkTemplate(o) \/ DeleteServiceContract(o)
         \/ DeleteSkill(o) \/ DeleteServiceResource(o) \/ DeleteCrew(o)
         \/ DeleteWorkOrderLineItem(o)
  PROVE  Apart'
<1>1. \A k \in Kind : All(k) \subseteq Row
  BY KindsAreRows
<1>2. \E x \in Row : Delete(o, x)
  BY <1>1 DEF DeleteServiceLocation, DeleteWorkTemplate, DeleteServiceContract, DeleteSkill,
              DeleteServiceResource, DeleteCrew, DeleteWorkOrderLineItem, Kind
<1> QED
  BY <1>2, DeleteKeeps

\* The scripts: the seed's rows have no organization, and link only to one another; the
\* backfill moves both ends of a link; the other two work for one organization.
LEMMA ScriptsKeep ==
  ASSUME Apart,
         \/ ResetDomainTables \/ SeedRows \/ BackfillRows
         \/ \E o \in Org : BackfillResources(o) \/ BackfillBooking(o)
  PROVE  Apart'
<1>0. refs \subseteq rows \X rows /\ rows \subseteq Row /\ \A p \in refs : p[1].org = p[2].org
  BY DEF Apart, TenantsTypeOK, Links
<1>1. CASE ResetDomainTables
  BY <1>1, RestrictKeeps DEF ResetDomainTables
<1>2. CASE SeedRows
  <2>1. PICK k \in 1 .. Len(SeedOrder) :
          LET new == {[kind |-> SeedOrder[i], org |-> NoOrg] : i \in 1 .. k}
          IN /\ rows' = rows \cup new
             /\ refs' = refs \cup {p \in new \X new : Kinds(p) \in SeedLinks}
    BY <1>2 DEF SeedRows
  <2> DEFINE new == {[kind |-> SeedOrder[i], org |-> NoOrg] : i \in 1 .. k}
  <2>2. \A i \in 1 .. 6 : SeedOrder[i] \in Kind
    BY DEF SeedOrder, Kind
  <2>3. k \in 1 .. 6
    BY DEF SeedOrder
  <2>4. new \subseteq Row /\ \A x \in new : x.org = NoOrg
    BY <2>2, <2>3 DEF Row
  <2>5. /\ rows' = rows \cup new
        /\ refs' = refs \cup {p \in new \X new : Kinds(p) \in SeedLinks}
    BY <2>1
  <2> HIDE DEF new
  <2>6. TenantsTypeOK'
    BY <1>0, <2>4, <2>5 DEF TenantsTypeOK
  <2>7. \A p \in new \X new : p[1].org = p[2].org
    BY <2>4
  <2>8. Links'
    BY <1>0, <2>5, <2>7 DEF Links
  <2> QED
    BY <2>6, <2>8 DEF Apart
<1>3. CASE BackfillRows
  <2> DEFINE Moved(x) == IF x.org = NoOrg THEN [x EXCEPT !.org = LegacyOrg] ELSE x
  <2>1. rows' = {Moved(x) : x \in rows} /\ refs' = {<<Moved(p[1]), Moved(p[2])>> : p \in refs}
    BY <1>3 DEF BackfillRows
  <2>2. ASSUME NEW x \in rows
        PROVE  Moved(x) \in Row /\ Moved(x).org = IF x.org = NoOrg THEN LegacyOrg ELSE x.org
    BY <1>0, TenantsAssumption DEF Row
  <2>3. rows' \subseteq Row
    BY <2>1, <2>2
  <2>4. ASSUME NEW p \in refs
        PROVE  p[1] \in rows /\ p[2] \in rows /\ Moved(p[1]).org = Moved(p[2]).org
    BY <1>0, <2>2
  <2> HIDE DEF Moved
  <2>5. TenantsTypeOK'
    BY <2>1, <2>3, <2>4 DEF TenantsTypeOK
  <2>6. Links'
    BY <2>1, <2>4 DEF Links
  <2> QED
    BY <2>5, <2>6 DEF Apart
<1>4. ASSUME NEW o \in Org, BackfillResources(o)
      PROVE  Apart'
  <2>1. PICK r \in All("resource"), M \in Optional("member"), C \in Optional("crew"), S \in BOOLEAN :
          /\ r.org = o /\ OwnAll(o, M) /\ \A c \in C : c.org = o /\ c \notin rows
          /\ rows' = rows \cup {r} \cup C
          /\ refs' = {p \in refs : ~(p[1] = r /\ p[2].kind = "member")} \cup ({r} \X M)
                      \cup (IF S THEN C \X {r} ELSE {})
    BY <1>4 DEF BackfillResources
  <2>2. r \in Row /\ C \subseteq Row /\ M \subseteq rows /\ \A m \in M : m.org = o
    BY <2>1, KindsAreRows DEF Kind, OwnAll, Own
  <2>3. refs' \subseteq refs \cup ({r} \X M) \cup (C \X {r})
    BY <2>1
  <2>4. TenantsTypeOK'
    BY <1>0, <2>1, <2>2, <2>3 DEF TenantsTypeOK
  <2>5. \A p \in ({r} \X M) \cup (C \X {r}) : p[1].org = p[2].org
    BY <2>1, <2>2
  <2>6. Links'
    BY <1>0, <2>3, <2>5 DEF Links
  <2> QED
    BY <2>4, <2>6 DEF Apart
<1>5. ASSUME NEW o \in Org, BackfillBooking(o)
      PROVE  Apart'
  <2>1. PICK b \in All("booking"), w \in All("workOrder"), c \in All("crew") :
          /\ Own(o, w) /\ Own(o, c)
          /\ IF <<b, w>> \in refs THEN Relink(b, {"crew"}, {c}) ELSE Insert(o, b, {c, w})
    BY <1>5 DEF BackfillBooking
  <2>2. b \in Row /\ w \in Row /\ c \in Row
    BY KindsAreRows DEF Kind
  <2>3. OwnAll(o, {c}) /\ OwnAll(o, {c, w})
    BY <2>1 DEF OwnAll
  <2>4. CASE <<b, w>> \in refs
    <3>1. Own(o, b) /\ Relink(b, {"crew"}, {c})
      BY <1>0, <2>1, <2>4 DEF Own
    <3> QED
      BY <2>2, <2>3, <3>1, RelinkKeeps
  <2>5. CASE <<b, w>> \notin refs
    <3>1. Insert(o, b, {c, w}) /\ {c, w} \in SUBSET Row
      BY <2>1, <2>2, <2>5
    <3> QED
      BY <2>2, <2>3, <3>1, InsertKeeps
  <2> QED
    BY <2>4, <2>5
<1> QED
  BY <1>1, <1>2, <1>3, <1>4, <1>5

\* Every step keeps it.
LEMMA NextApart == Apart /\ [TenantsNext]_tenantVars => Apart'
<1> SUFFICES ASSUME Apart, [TenantsNext]_tenantVars
             PROVE  Apart'
  OBVIOUS
<1>1. CASE UNCHANGED tenantVars
  BY <1>1 DEF tenantVars, Apart, TenantsTypeOK, Links
<1> QED
  BY <1>1, ScriptsKeep, CreateKeeps, UpdateKeeps, RemoveKeeps DEF TenantsNext

-----------------------------------------------------------------------------
(* The theorems                                                                  *)

\* Rows linked to a row of an organization are the organization's.
LEMMA LinkedIsOwn ==
  ASSUME Links, NEW x, NEW o, x.org = o, NEW k
  PROVE  \A y \in Parents(x, k) \cup Children(x, k) : y.org = o
  BY DEF Links, Parents, Children

\* A read that goes by the caller's organization shows its rows only.
LEMMA ScopedAnswersAreOwn ==
  ASSUME Links, NEW o \in Org
  PROVE  \A x \in ScopedAnswers(o) : x.org = o
<1>1. \A x, k : x.org = o => \A y \in Parents(x, k) \cup Children(x, k) : y.org = o
  BY LinkedIsOwn
<1>2. /\ \A y \in GetServiceLocation(o) : y.org = o
      /\ \A y \in GetWorkTemplate(o) : y.org = o
      /\ \A y \in GetServiceContract(o) : y.org = o
      /\ \A y \in GetSkill(o) : y.org = o
      /\ \A y \in GetServiceResource(o) : y.org = o
      /\ \A y \in ListResourceSkills(o) : y.org = o
      /\ \A y \in GetCrewDetail(o) : y.org = o
      /\ \A y \in ListWorkOrderNotes(o) : y.org = o
      /\ \A y \in ListWorkOrderLineItems(o) : y.org = o
  BY <1>1 DEF GetServiceLocation, GetWorkTemplate, GetServiceContract, GetSkill,
     GetServiceResource, ListResourceSkills, GetCrewDetail, ListWorkOrderNotes,
     ListWorkOrderLineItems, Shown, Own
<1> QED
  BY <1>2 DEF ScopedAnswers

\* What a read that knows no caller shows of one row is of the organization of that
\* row, and of the kinds that are exposed.
LEMMA UnscopedAnswersAreOne ==
  ASSUME Links, NEW shown \in UnscopedAnswers
  PROVE  /\ \A x, y \in shown : x.org = y.org
         /\ \A x \in shown : x.kind \in Exposed
<1>1. \A x, k : \A y \in Parents(x, k) \cup Children(x, k) : y.org = x.org /\ y.kind = k
  BY DEF Links, Parents, Children
<1>2. \A k : \A x \in Found(k) : x.kind = k
  BY DEF Found, All
<1>3. \A w \in Found("workOrder") : \A x \in WorkOrderShown(w) :
        x.org = w.org /\ x.kind \in Exposed
  BY <1>1, <1>2 DEF WorkOrderShown, Exposed
<1>4. CASE shown \in GetWorkOrderDetail
  <2>1. PICK w \in Found("workOrder") :
          shown = WorkOrderShown(w) \cup Children(w, "note") \cup Children(w, "lineItem")
    BY <1>4 DEF GetWorkOrderDetail
  <2>2. \A x \in shown : x.org = w.org /\ x.kind \in Exposed
    BY <1>1, <1>3, <2>1 DEF Exposed
  <2> QED
    BY <2>2
<1>5. CASE shown \in GetCustomerDetails
  <2>1. PICK c \in Found("customer") :
          shown = {c} \cup Children(c, "location")
                    \cup UNION {{w} \cup Parents(w, "location") \cup Parents(w, "technician") :
                                  w \in Children(c, "workOrder")}
    BY <1>5 DEF GetCustomerDetails
  <2>2. \A x \in {c} \cup Children(c, "location") : x.org = c.org /\ x.kind \in Exposed
    BY <1>1, <1>2 DEF Exposed
  <2>3. ASSUME NEW w \in Children(c, "workOrder"),
               NEW x \in {w} \cup Parents(w, "location") \cup Parents(w, "technician")
        PROVE  x.org = c.org /\ x.kind \in Exposed
    BY <1>1 DEF Exposed
  <2>4. \A x \in shown : x.org = c.org /\ x.kind \in Exposed
    BY <2>1, <2>2, <2>3
  <2> QED
    BY <2>4
<1>6. CASE shown \in CustomersListed \cup TechniciansListed
  BY <1>2, <1>6 DEF CustomersListed, TechniciansListed, Exposed
<1>7. CASE shown \in WorkOrdersListed
  <2>1. PICK w \in Found("workOrder") : shown = WorkOrderShown(w)
    BY <1>7 DEF WorkOrdersListed
  <2> QED
    BY <1>3, <2>1
<1> QED
  BY <1>4, <1>5, <1>6, <1>7 DEF UnscopedAnswers

\* Links that join rows of one organization are what the property rests on.
LEMMA ApartSuffices == Apart => OneOrganization
<1> SUFFICES ASSUME Apart
             PROVE  OneOrganization
  OBVIOUS
<1>1. Links
  BY DEF Apart
<1>2. \A o \in Org : \A x \in ScopedAnswers(o) : x.org = o
  BY <1>1, ScopedAnswersAreOwn
<1>3. \A shown \in UnscopedAnswers :
        /\ \A x, y \in shown : x.org = y.org
        /\ \A x \in shown : x.kind \in Exposed
  BY <1>1, UnscopedAnswersAreOne
<1>4. \A o \in Org : \A x \in Answers(o) : x.org = o \/ x.kind \in Exposed
  BY <1>2, <1>3 DEF Answers
<1> QED
  BY <1>1, <1>2, <1>3, <1>4 DEF Links, OneOrganization

\* In every reachable state links join rows of one organization.
THEOREM InductiveInvariant == TenantsSpec => []Apart
  BY InitApart, NextApart, PTL DEF TenantsSpec

\* Whatever ids clients put into calls and whatever the scripts have moved, for any
\* number of organizations and rows: links join rows of one organization, reads that
\* go by the caller's organization show its rows only, and what the other reads show
\* a member of one organization of the rest is one organization's at a time and of
\* the kinds Exposed.
THEOREM KeptApart == TenantsSpec => []OneOrganization
  BY ApartSuffices, InductiveInvariant, PTL
=============================================================================
