SPECIFICATION Spec
CONSTANTS
    Org = {o1, o2}
    LegacyOrg = o1
    NoOrg = NoOrg
    MaxRows = 2
    Materialize = {m1, m2}
    Rules <- MCRules
    Horizon = 6
    MaxNow = 3
    MaxCount = 3
    MaxChanges = 1
    Incident = {i1, i2}
    Title = {a, b}
    TaskRequest = {q1, q2}
    MaxVersions = 1
    Status = {s1, s2, s3}
    BookRequest = {b1, b2}
    MaxLog = 2
    NoStatus = NoStatus
    Skill = {k1, k2, k3}
    SkillRequest = {p1, p2}
    Item = {x1, x2, x3}
    MaxKey = 3
    PageSize = 1
INVARIANTS TypeOK OneOrganization NoGapAhead TasksAreCopies LastAnswerTells DefaultsOverlap
           LogFollowsBooking SkillsAsAsked WalkComplete
