--------------------------- MODULE MCAuthSessions ---------------------------
(* AuthSessions for TLC: requests, sessions and users are interchangeable.  *)
EXTENDS AuthSessions, TLC

Symmetric ==
    Permutations(Request) \cup Permutations(SessionId) \cup Permutations(User)
=============================================================================
