SPECIFICATION Spec
CONSTANTS
    Crew = {c1, c2}
    Date = {d1}
    Booking = {b1, b2, b3}
    Stop = {s1, s2, s3}
    Request = {r1, r2}
    NoRoute = NoRoute
    NoBooking = NoBooking
SYMMETRY Symmetric
INVARIANTS TypeOK GapFree CrewsMatch
PROPERTIES OrderKept
