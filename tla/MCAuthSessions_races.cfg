SPECIFICATION Spec
CONSTANTS
    User = {u1}
    SessionId = {s1, s2}
    Request = {r1, r2}
    MaxTokens = 2
    MaxResets = 1
    NoUser = NoUser
    NoSession = NoSession
INVARIANTS TypeOK
PROPERTY RevokedForGood
SYMMETRY Symmetric
