SPECIFICATION Spec
CONSTANTS
    c1 = c1
    c2 = c2
    w1 = w1
    w2 = w2
    Invoice = {i1, i2}
    Line = {l1}
    Customer = {c1, c2}
    WorkOrder = {w1, w2}
    CustomerOf <- Owners
    Request = {r1, r2}
    NoInvoice = NoInvoice
    NoLine = NoLine
    NoCustomer = NoCustomer
SYMMETRY Symmetric
INVARIANTS TypeOK LinksOfCustomer StampsTellHistory
PROPERTIES FrozenAfterDraft
