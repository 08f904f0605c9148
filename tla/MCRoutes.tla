------------------------------ MODULE MCRoutes ------------------------------
(* Routes for TLC: requests, stop ids and bookings are interchangeable.     *)
EXTENDS Routes, TLC

Symmetric == Permutations(Request) \cup Permutations(Stop) \cup Permutations(Booking)
=============================================================================
