------------------------------- MODULE Invoices -------------------------------
(***************************************************************************)
(* Invoices, their lines and their work-order links                        *)
(* (src/modules/invoices/invoices.service.ts).                             *)
(*                                                                         *)
(* Every edit reads the status of the invoice in one call and writes in a  *)
(* later one that does not look at the status again.  A request that is    *)
(* refused changes nothing.  No code creates work orders or moves them to  *)
(* another customer, so CustomerOf is a constant.                          *)
(***************************************************************************)
EXTENDS Naturals, FiniteSets

CONSTANTS
    Invoice,        \* pool of invoice ids
    Line,           \* pool of line ids
    Customer,
    WorkOrder,
    CustomerOf,     \* WorkOrder.customerId
    Request,        \* requests that may be in progress at once
    NoInvoice, NoLine, NoCustomer

ASSUME WorkOrderAssumption == CustomerOf \in [WorkOrder -> Customer]

ASSUME NullAssumption ==
    NoInvoice \notin Invoice /\ NoLine \notin Line /\ NoCustomer \notin Customer

VARIABLES
    status,     \* Invoice.status, "NONE" where no row exists yet
    customer,   \* Invoice.customerId
    stamps,     \* which of issuedAt, paidAt and voidedAt are set
    links,      \* work orders of the InvoiceWorkOrder rows
    lineOf,     \* InvoiceLine.invoiceId
    content,    \* the line's text and amounts; "none": no row yet, "gone": deleted
    req,        \* what each request does next, and on what
    overlapped  \* invoices on which two requests were in progress at once

invoiceVars == <<status, customer, stamps>>
docVars     == <<links, lineOf, content>>
vars        == <<invoiceVars, docVars, req, overlapped>>

Stamp  == {"ISSUED", "PAID", "VOID"}
Status == Stamp \cup {"NONE", "DRAFT"}
Text   == {"some text", "other text"}
Op     == {"idle", "link", "unlink", "addLine", "findLine", "setLine",
           "dropLine", "setStatus"}

Idle == [op |-> "idle", inv |-> NoInvoice, wos |-> {}, line |-> NoLine, to |-> "NONE"]

TypeOK ==
    /\ status \in [Invoice -> Status]
    /\ customer \in [Invoice -> Customer \cup {NoCustomer}]
    /\ stamps \in [Invoice -> SUBSET Stamp]
    /\ links \in [Invoice -> SUBSET WorkOrder]
    /\ lineOf \in [Line -> Invoice \cup {NoInvoice}]
    /\ content \in [Line -> Text \cup {"none", "gone"}]
    /\ req \in [Request -> [op : Op, inv : Invoice \cup {NoInvoice},
                            wos : SUBSET WorkOrder, line : Line \cup {NoLine},
                            to : Status]]
    /\ overlapped \in SUBSET Invoice

Init ==
    /\ status = [i \in Invoice |-> "NONE"]
    /\ customer = [i \in Invoice |-> NoCustomer]
    /\ stamps = [i \in Invoice |-> {}]
    /\ links = [i \in Invoice |-> {}]
    /\ lineOf = [l \in Line |-> NoInvoice]
    /\ content = [l \in Line |-> "none"]
    /\ req = [r \in Request |-> Idle]
    /\ overlapped = {}

-----------------------------------------------------------------------------
Belong(W, c) == \A w \in W : CustomerOf[w] = c

\* One statement inserts the row, its links and at most one first line.
CreateInvoice(c, W) ==
    /\ Belong(W, c)
    /\ \E i \in Invoice :
        /\ status[i] = "NONE"
        /\ status' = [status EXCEPT ![i] = "DRAFT"]
        /\ customer' = [customer EXCEPT ![i] = c]
        /\ links' = [links EXCEPT ![i] = W]
        /\ \/ UNCHANGED <<lineOf, content>>
           \/ \E l \in Line, t \in Text :
                /\ content[l] = "none"
                /\ lineOf' = [lineOf EXCEPT ![l] = i]
                /\ content' = [content EXCEPT ![l] = t]
    /\ UNCHANGED <<stamps, req, overlapped>>

\* ensureInvoice found the row and the check ok lets the request go on.
Begin(r, op, i, ok, W, l, to) ==
    /\ req[r] = Idle
    /\ status[i] # "NONE"
    /\ IF ok
         THEN /\ req' = [req EXCEPT ![r] =
                    [op |-> op, inv |-> i, wos |-> W, line |-> l, to |-> to]]
              /\ overlapped' = IF \E q \in Request : req[q].inv = i
                                 THEN overlapped \cup {i} ELSE overlapped
         ELSE UNCHANGED <<req, overlapped>>
    /\ UNCHANGED <<invoiceVars, docVars>>

End(r) == req' = [req EXCEPT ![r] = Idle]

\* Faulty variant: the check is missing.
DraftUnchecked(i) == TRUE

\* ensureDraft
Draft(i) == status[i] = "DRAFT"

\* Faulty variant: the ids are not compared with the customer.
LinkAnyCustomer(r, i, W) ==
    /\ W # {}
    /\ Begin(r, "link", i, Draft(i), W, NoLine, "NONE")

\* addInvoiceWorkOrders: ensureDraft and ensureWorkOrdersForCustomer ...
LinkCheck(r, i, W) ==
    /\ W # {}
    /\ Begin(r, "link", i, Draft(i) /\ Belong(W, customer[i]), W, NoLine, "NONE")

\* ... then createMany with skipDuplicates.
Link(r) ==
    /\ req[r].op = "link"
    /\ links' = [links EXCEPT ![req[r].inv] = @ \cup req[r].wos]
    /\ End(r)
    /\ UNCHANGED <<invoiceVars, lineOf, content, overlapped>>

UnlinkCheck(r, i, w) == Begin(r, "unlink", i, Draft(i), {w}, NoLine, "NONE")

Unlink(r) ==
    /\ req[r].op = "unlink"
    /\ links' = [links EXCEPT ![req[r].inv] = @ \ req[r].wos]
    /\ End(r)
    /\ UNCHANGED <<invoiceVars, lineOf, content, overlapped>>

AddLineCheck(r, i) == Begin(r, "addLine", i, Draft(i), {}, NoLine, "NONE")

AddLine(r) ==
    /\ req[r].op = "addLine"
    /\ \E l \in Line, t \in Text :
        /\ content[l] = "none"
        /\ lineOf' = [lineOf EXCEPT ![l] = req[r].inv]
        /\ content' = [content EXCEPT ![l] = t]
    /\ End(r)
    /\ UNCHANGED <<invoiceVars, links, overlapped>>

\* The line exists and belongs to the invoice.
LineThere(r) == lineOf[req[r].line] = req[r].inv /\ content[req[r].line] \in Text

SetLineCheck(r, i, l) == Begin(r, "findLine", i, Draft(i), {}, l, "NONE")

FindLine(r) ==
    /\ req[r].op = "findLine"
    /\ IF LineThere(r) THEN req' = [req EXCEPT ![r].op = "setLine"] ELSE End(r)
    /\ UNCHANGED <<invoiceVars, docVars, overlapped>>

\* update by id; a line deleted in between is answered as not found.
SetLine(r) ==
    /\ req[r].op = "setLine"
    /\ IF content[req[r].line] \in Text
         THEN \E t \in Text : content' = [content EXCEPT ![req[r].line] = t]
         ELSE UNCHANGED content
    /\ End(r)
    /\ UNCHANGED <<invoiceVars, links, lineOf, overlapped>>

DropLineCheck(r, i, l) == Begin(r, "dropLine", i, Draft(i), {}, l, "NONE")

DropLine(r) ==
    /\ req[r].op = "dropLine"
    /\ content' = IF LineThere(r) THEN [content EXCEPT ![req[r].line] = "gone"]
                                  ELSE content
    /\ End(r)
    /\ UNCHANGED <<invoiceVars, links, lineOf, overlapped>>

-----------------------------------------------------------------------------
\* Faulty variant: a draft may be paid.
AllowedPrepaid ==
    [NONE |-> {}, DRAFT |-> {"ISSUED", "PAID", "VOID"}, ISSUED |-> {"PAID", "VOID"},
     PAID |-> {}, VOID |-> {}]

\* transitionMap
Allowed ==
    [NONE |-> {}, DRAFT |-> {"ISSUED", "VOID"}, ISSUED |-> {"PAID", "VOID"},
     PAID |-> {}, VOID |-> {}]

StatusCheck(r, i, to) ==
    Begin(r, "setStatus", i, to \in Allowed[status[i]], {}, NoLine, to)

\* Faulty variant: the timestamp of the status it leaves.
StampOld(i, to) == stamps' = [stamps EXCEPT ![i] = @ \cup {status[i]}]

SetStamp(i, to) == stamps' = [stamps EXCEPT ![i] = @ \cup {to}]

\* update by id: the status and the timestamp that goes with it.
SetStatus(r) ==
    /\ req[r].op = "setStatus"
    /\ status' = [status EXCEPT ![req[r].inv] = req[r].to]
    /\ SetStamp(req[r].inv, req[r].to)
    /\ End(r)
    /\ UNCHANGED <<customer, docVars, overlapped>>

\* A call fails, or the process dies, between two steps.
Abort(r) ==
    /\ req[r] # Idle
    /\ End(r)
    /\ UNCHANGED <<invoiceVars, docVars, overlapped>>

Next ==
    \/ \E c \in Customer, W \in SUBSET WorkOrder : CreateInvoice(c, W)
    \/ \E r \in Request, i \in Invoice :
        \/ AddLineCheck(r, i)
        \/ \E W \in SUBSET WorkOrder : LinkCheck(r, i, W)
        \/ \E w \in WorkOrder : UnlinkCheck(r, i, w)
        \/ \E l \in Line : SetLineCheck(r, i, l) \/ DropLineCheck(r, i, l)
        \/ \E to \in Stamp : StatusCheck(r, i, to)
    \/ \E r \in Request :
        \/ Link(r) \/ Unlink(r) \/ AddLine(r) \/ FindLine(r) \/ SetLine(r)
        \/ DropLine(r) \/ SetStatus(r) \/ Abort(r)

Spec == Init /\ [][Next]_vars

-----------------------------------------------------------------------------
\* What the customer is billed for.
Document(i) ==
    [links |-> links[i],
     lines |-> [l \in {k \in Line : lineOf[k] = i} |-> content[l]]]

(***************************************************************************)
(* Only work orders of the invoice's own customer are billed on it.        *)
(***************************************************************************)
LinksOfCustomer == \A i \in Invoice : Belong(links[i], customer[i])

(***************************************************************************)
(* What an invoice bills no longer changes once it has left DRAFT, unless  *)
(* requests on this very invoice overlapped: ensureDraft and the write are *)
(* two calls, so an edit that overlaps the issuing lands after it.         *)
(***************************************************************************)
FrozenAfterDraft ==
    [][\A i \in Invoice : status[i] \in Stamp /\ i \notin overlapped'
                            => Document(i)' = Document(i)]_vars

(***************************************************************************)
(* The timestamps tell the history whatever overlaps: the status an        *)
(* invoice has, and for a payment also the issuing, carries its timestamp; *)
(* none is both paid and voided unless requests overlapped on it.          *)
(***************************************************************************)
StampsTellHistory ==
    \A i \in Invoice :
        /\ status[i] \in Stamp => status[i] \in stamps[i]
        /\ "PAID" \in stamps[i] => "ISSUED" \in stamps[i]
        /\ {"PAID", "VOID"} \subseteq stamps[i] => i \in overlapped
=============================================================================
