SPECIFICATION FairSpec
CONSTANTS
    User = {u1}
    SessionId = {s1}
    Request = {r1, r2}
    MaxTokens = 4
    MaxResets = 1
    NoUser = NoUser
    NoSession = NoSession
PROPERTIES ReuseOnlyAfterReplay DeadSessionsDeleted
