----------------------------- MODULE MCInvoices -----------------------------
(* Invoices for TLC: two customers with a work order each.                  *)
EXTENDS Invoices, TLC

CONSTANTS c1, c2, w1, w2

Owners == w1 :> c1 @@ w2 :> c2

Symmetric == Permutations(Invoice) \cup Permutations(Line) \cup Permutations(Request)
=============================================================================
