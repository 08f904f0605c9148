SPECIFICATION Spec
CONSTANTS
    Parts = {"lockout", "tokens", "connections", "organizations", "pings", "process"}
    LoginRequest = {l1, l2}
    LoginMaxAttempts = 3
    AttemptWindow = 2
    Lockout = 3
    MaxClock = 8
    Account = {a1}
    AccountRequest = {r1, r2}
    MaxToken = 3
    NoAccount = NoAccount
    MaxConnection = 3
    Realm = {c1, c2, c3}
    Callback = {b1, b2}
    NoRealm = NoRealm
    User = {u1, u2}
    Base = {acme, legacy}
    Suffix = {0, 1}
    Legacy = legacy
    OrgRequest = {q1, q2}
    MaxOrgs = 2
    GeoOrg = {o1, o2}
    DefaultRetention = 2
    NullDays = 99
    MaxDay = 3
INVARIANTS TypeOK LocksWhenDue TokensOverlap OneActive RanksHold
PROPERTIES LockHolds ExitTells ReadyTells
