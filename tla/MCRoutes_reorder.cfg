SPECIFICATION Spec
CONSTANTS
    Crew = {c1}
    Date = {d1}
    Booking = {b1, b2, b3}
    Stop = {s1, s2, s3}
    Request = {r1}
    NoRoute = NoRoute
    NoBooking = NoBooking
SYMMETRY Symmetric
PROPERTIES ReorderTakesEffect
