SPECIFICATION Spec
CONSTANTS
    User = {u1}
    SessionId = {s1}
    Request = {r1, r2}
    MaxTokens = 3
    MaxResets = 0
    NoUser = NoUser
    NoSession = NoSession
INVARIANTS ExchangedOnce
